----------------------------- MODULE FileStore -----------------------------
(***************************************************************************)
(* What a KAGFAT16 volume promises to the descriptor table: a map from     *)
(* names to byte sequences and handles that name one file until that file  *)
(* is deleted, replaced or formatted away.  Clusters, the allocation table *)
(* and directory slots do not appear.  FileSystem refines this module.     *)
(***************************************************************************)
EXTENDS Integers, Sequences, FiniteSetsExt

CONSTANTS
    Names,
    Handles,
    Contents,    \* the byte sequences callers write
    Offsets,     \* the offsets callers read and write at
    Lengths,     \* the lengths callers read
    APPEND,      \* the offset of a write in append mode
    ABSENT,      \* the content of a name without a file
    CLOSED,      \* a handle not in use
    STALE,       \* a handle whose file is gone
    Unreliable   \* whether transfers may fail and the machine may stop

VARIABLES
    files,   \* Names -> byte sequence or ABSENT
    open,    \* Handles -> name, CLOSED or STALE
    ret      \* what the last operation returned

vars == <<files, open, ret>>

Ok(v) == [code |-> 0, value |-> v]
Err(e) == [code |-> e, value |-> <<>>]

NoSpace == -5
NotFound == -6
DeviceError == -3

\* An operation has begun and has not returned.
Pending == [code |-> 1, value |-> <<>>]

Init ==
    /\ files = [n \in Names |-> ABSENT]
    /\ open = [h \in Handles |-> CLOSED]
    /\ ret = Ok(<<>>)

Begin ==
    /\ ret' = Pending
    /\ UNCHANGED <<files, open>>

\* Content f after the first k bytes of c have been written at offset o.
\* The gap between the old end and o reads as zeros.
Overlay(f, o, c, k) ==
    IF k = 0 THEN f
    ELSE [i \in 1 .. Max({Len(f), o + k}) |->
             IF i > o /\ i <= o + k THEN c[i - o]
             ELSE IF i <= Len(f) THEN f[i] ELSE 0]

Detached(n) == [h \in Handles |-> IF open[h] = n THEN STALE ELSE open[h]]

\* Creating a file replaces the old one.  When the disk is full the old file
\* is gone as well; when the directory is full nothing changes.
Create(n, c) ==
    \/ /\ files' = [files EXCEPT ![n] = c]
       /\ open' = Detached(n)
       /\ ret' = Ok(<<>>)
    \/ /\ files' = [files EXCEPT ![n] = ABSENT]
       /\ open' = Detached(n)
       /\ ret' = Err(NoSpace)

Delete(n) ==
    \/ /\ files[n] # ABSENT
       /\ files' = [files EXCEPT ![n] = ABSENT]
       /\ open' = Detached(n)
       /\ ret' = Ok(<<>>)
    \/ /\ files[n] = ABSENT
       /\ ret' = Err(NotFound)
       /\ UNCHANGED <<files, open>>

Open(n, h, create, truncate) ==
    \/ /\ files[n] # ABSENT \/ create
       /\ files' = [files EXCEPT ![n] = IF truncate \/ @ = ABSENT THEN <<>> ELSE @]
       /\ open' = [open EXCEPT ![h] = n]
       /\ ret' = Ok(<<>>)
    \/ /\ files[n] = ABSENT
       /\ ret' = Err(IF create THEN NoSpace ELSE NotFound)
       /\ UNCHANGED <<files, open>>

At(n, o) == IF o = APPEND THEN Len(files[n]) ELSE o

\* A write stores all of c, or a proper prefix when the disk fills up.
Write(h, o, c) ==
    \/ /\ open[h] \in Names
       /\ \E k \in 0 .. Len(c) :
             /\ files' = [files EXCEPT ![open[h]] =
                             Overlay(@, At(open[h], o), c, k)]
             /\ ret' = IF k > 0 \/ c = <<>> THEN Ok(<<k>>) ELSE Err(NoSpace)
       /\ UNCHANGED open
    \/ /\ open[h] = STALE
       /\ ret' = Err(NotFound)
       /\ UNCHANGED <<files, open>>

\* A read returns what the file holds from the offset on, at most k bytes.
Read(h, o, k) ==
    /\ \/ /\ open[h] \in Names
          /\ ret' = Ok(SubSeq(files[open[h]], o + 1,
                              Min({o + k, Len(files[open[h]])})))
       \/ open[h] = STALE /\ ret' = Err(NotFound)
       \/ Unreliable /\ ret' = Err(DeviceError)
    /\ UNCHANGED <<files, open>>

ReadFile(n) ==
    /\ \/ ret' = IF files[n] = ABSENT THEN Err(NotFound) ELSE Ok(files[n])
       \/ Unreliable /\ ret' = Err(DeviceError)
    /\ UNCHANGED <<files, open>>

Format ==
    /\ files' = [n \in Names |-> ABSENT]
    /\ open' = [h \in Handles |-> IF open[h] = CLOSED THEN CLOSED ELSE STALE]
    /\ ret' = Ok(<<>>)

Close(h) ==
    /\ open' = [open EXCEPT ![h] = CLOSED]
    /\ UNCHANGED <<files, ret>>

\* A transfer of a write or of an open fails.  A write that failed part-way
\* leaves a prefix of its bytes in the file and reports it, reports the
\* error, or leaves more than it reports.
WriteFault(h, o, c) ==
    /\ open[h] \in Names
    /\ \E k \in 0 .. Len(c) :
          files' = [files EXCEPT ![open[h]] = Overlay(@, At(open[h], o), c, k)]
    /\ \/ \E k \in 1 .. Len(c) : ret' = Ok(<<k>>)
       \/ ret' \in {Err(DeviceError), Err(NoSpace)}
    /\ UNCHANGED open

OpenFault(n, create, truncate) ==
    /\ \/ UNCHANGED files
       \/ truncate /\ files[n] # ABSENT /\ files' = [files EXCEPT ![n] = <<>>]
       \/ create /\ files[n] = ABSENT /\ files' = [files EXCEPT ![n] = <<>>]
    /\ ret' = Err(DeviceError)
    /\ UNCHANGED open

\* The machine stops, possibly in the middle of a write or an open: handles
\* are gone, and the file being changed holds part of the change.
Stop ==
    /\ \/ UNCHANGED files
       \/ \E n \in Names : files' = [files EXCEPT ![n] = <<>>]
       \/ \E h \in Handles, o \in Offsets \cup {APPEND}, c \in Contents :
             /\ open[h] \in Names
             /\ \E k \in 0 .. Len(c) :
                   files' = [files EXCEPT ![open[h]] =
                                Overlay(@, At(open[h], o), c, k)]
    /\ open' = [h \in Handles |-> CLOSED]
    /\ ret' = Ok(<<>>)

Next ==
    \/ \E n \in Names :
          \/ \E c \in Contents : Create(n, c)
          \/ Delete(n)
          \/ ReadFile(n)
          \/ \E create, truncate \in BOOLEAN :
                \/ \E h \in Handles : Open(n, h, create, truncate)
                \/ Unreliable /\ OpenFault(n, create, truncate)
    \/ \E h \in Handles :
          \/ \E o \in Offsets \cup {APPEND}, c \in Contents :
                \/ Write(h, o, c)
                \/ Unreliable /\ WriteFault(h, o, c)
          \/ \E o \in Offsets, k \in Lengths : Read(h, o, k)
          \/ Close(h)
    \/ Begin
    \/ Format
    \/ Unreliable /\ Stop

Spec == Init /\ [][Next]_vars
============================================================================
