----------------------------- MODULE FileTable -----------------------------
(***************************************************************************)
(* The file descriptor tables of file.rs: processes whose threads share a  *)
(* table, descriptors on the console, on disk files and on objects (pipe   *)
(* ends and sockets), calls that hold an object while they block, spawn    *)
(* and exit.                                                               *)
(*                                                                         *)
(* `refs' counts what the code counts with Arc and with the ends of a      *)
(* pipe.  `due' of a disk descriptor is not a field of DiskFile: it is     *)
(* where the offset was last set plus what reads and writes have moved     *)
(* since.                                                                  *)
(***************************************************************************)
EXTENDS Integers, Sequences, FiniteSets, SequencesExt, FiniteSetsExt

CONSTANTS
    Threads, Procs,
    Modes,      \* modes files are opened with, out of "r", "w", "rw" and "a"
    Objects,    \* pipe ends and sockets that can be created
    Stdio,      \* standard descriptors (3 in the code)
    MaxFds,     \* MAX_FDS
    MaxOffset   \* u32::MAX, the bound of seek and of a file's size

\* What the instances choose the constants to satisfy.
StdioAssumption == Stdio \in 1 .. MaxFds

None == "none"

VARIABLES
    home,   \* [Threads -> process, None before it starts or after it ends]
    fds,    \* [Procs -> sequence of slots]; slot i is descriptor i - 1
    lock,   \* [Procs -> thread that holds the table's lock, or None]
    call,   \* [Threads -> the call it is in]
    refs,   \* [Objects -> references]
    dead,   \* objects that have been dropped
    size    \* of the one disk file

vars == <<home, fds, lock, call, refs, dead, size>>

Free == [kind |-> "free"]
Console == [kind |-> "console"]
Disk(mode) == [kind |-> "disk", off |-> 0, mode |-> mode, due |-> 0]
Object(o) == [kind |-> "object", obj |-> o]

NoCall == [op |-> "none"]

Init ==
    /\ \E first \in Threads, root \in Procs :
         /\ home = [t \in Threads |-> IF t = first THEN root ELSE None]
         /\ fds = [p \in Procs |-> IF p = root THEN [i \in 1 .. Stdio |-> Console]
                                               ELSE <<>>]
    /\ lock = [p \in Procs |-> None]
    /\ call = [t \in Threads |-> NoCall]
    /\ refs = [o \in Objects |-> 0] /\ dead = {} /\ size = 0

\* Thread t runs and can take the lock of its table.
CanLock(t) == home[t] # None /\ call[t] = NoCall /\ lock[home[t]] = None
Table(t) == fds[home[t]]
IsOpen(t, i) == i \in DOMAIN Table(t) /\ Table(t)[i].kind # "free"
SetTable(t, q) == fds' = [fds EXCEPT ![home[t]] = q]
SetSlot(t, i, s) == fds' = [fds EXCEPT ![home[t]][i] = s]
Fresh == {o \in Objects : refs[o] = 0 /\ o \notin dead}

----------------------------------------------------------------------------
(* References.                                                             *)

ObjectsOf(S) == {s.obj : s \in {x \in S : x.kind = "object"}}
Copies(q, o) == Cardinality({i \in DOMAIN q : q[i].kind = "object" /\ q[i].obj = o})

\* The last reference runs the object's Drop.
Dropped(r) == dead' = dead \cup {o \in Objects : refs[o] > 0 /\ r[o] = 0}
Count(r) == refs' = r /\ Dropped(r)
Same == UNCHANGED <<refs, dead>>

----------------------------------------------------------------------------
(* free_slot: the first free slot, a new one, or none.                     *)

FirstFree(q) ==
    LET F == {i \in DOMAIN q : q[i].kind = "free"}
    IN  IF F # {} THEN Min(F) ELSE Len(q) + 1
HasSlot(q) == FirstFree(q) <= MaxFds
Put(q, s) ==
    [i \in 1 .. Max({Len(q), FirstFree(q)}) |-> IF i = FirstFree(q) THEN s ELSE q[i]]

----------------------------------------------------------------------------
(* Calls that finish under the lock.  An open that fails in the file       *)
(* system leaves at most an empty slot at the end.                         *)

Open(t, mode, ok) ==
    /\ CanLock(t) /\ HasSlot(Table(t))
    /\ SetTable(t, Put(Table(t), IF ok THEN Disk(mode) ELSE Free))
    /\ Same /\ UNCHANGED <<home, lock, call, size>>

Socket(t) ==
    /\ CanLock(t)
    /\ \E o \in Fresh :
         IF HasSlot(Table(t))
         THEN /\ SetTable(t, Put(Table(t), Object(o)))
              /\ Count([refs EXCEPT ![o] = 1])
         ELSE dead' = dead \cup {o} /\ UNCHANGED <<fds, refs>>
    /\ UNCHANGED <<home, lock, call, size>>

\* The read end is taken out again when there is no slot for the write end.
PipeUndone(q, r) == Put(q, Free)

Pipe(t) ==
    /\ CanLock(t) /\ HasSlot(Table(t))
    /\ \E r \in Fresh : \E w \in Fresh \ {r} :
         LET q == Put(Table(t), Object(r))
         IN  IF HasSlot(q)
             THEN /\ SetTable(t, Put(q, Object(w)))
                  /\ Count([refs EXCEPT ![r] = 1, ![w] = 1])
             ELSE /\ SetTable(t, PipeUndone(Table(t), r))
                  /\ dead' = dead \cup {r, w} /\ UNCHANGED refs
    /\ UNCHANGED <<home, lock, call, size>>

Seek(t, i, target) ==
    /\ CanLock(t) /\ IsOpen(t, i) /\ Table(t)[i].kind = "disk"
    /\ target <= MaxOffset
    /\ SetSlot(t, i, [Table(t)[i] EXCEPT !.off = target, !.due = target])
    /\ Same /\ UNCHANGED <<home, lock, call, size>>

\* close takes the file out of the table, unlocks it and drops the file.
Close(t, i) ==
    /\ CanLock(t) /\ IsOpen(t, i)
    /\ SetSlot(t, i, Free)
    /\ call' = [call EXCEPT ![t] = [op |-> "drop", held |-> Table(t)[i]]]
    /\ Same /\ UNCHANGED <<home, lock, size>>

CloseDrop(t) ==
    /\ call[t].op = "drop"
    /\ LET gone == ObjectsOf({call[t].held})
       IN  Count([o \in Objects |-> IF o \in gone THEN refs[o] - 1 ELSE refs[o]])
    /\ call' = [call EXCEPT ![t] = NoCall]
    /\ UNCHANGED <<home, fds, lock, size>>

----------------------------------------------------------------------------
(* Transfers.  A disk transfer keeps the table locked; a transfer on an    *)
(* object holds a reference of its own and may block.                      *)

LockTable(t) == lock' = [lock EXCEPT ![home[t]] = t]

\* The modes (O_READ, O_WRITE and O_APPEND) that allow a transfer.
Allows(op) == IF op = "read" THEN {"r", "rw"} ELSE {"w", "rw", "a"}

DiskStart(t, i, op) ==
    /\ CanLock(t) /\ IsOpen(t, i) /\ Table(t)[i].kind = "disk"
    /\ Table(t)[i].mode \in Allows(op)
    /\ LockTable(t)
    /\ call' = [call EXCEPT ![t] = [op |-> op, fd |-> i, off |-> Table(t)[i].off,
                                    append |-> Table(t)[i].mode = "a"]]
    /\ Same /\ UNCHANGED <<home, fds, size>>

Return(t) ==
    /\ lock' = [p \in Procs |-> IF lock[p] = t THEN None ELSE lock[p]]
    /\ call' = [call EXCEPT ![t] = NoCall]
Moved(t, n) ==
    SetSlot(t, call[t].fd, [Table(t)[call[t].fd] EXCEPT !.off = call[t].off + n,
                                                        !.due = @ + n])

DiskRead(t) ==
    /\ call[t].op = "read"
    /\ LET n == IF call[t].off < size THEN 1 ELSE 0 IN Moved(t, n)
    /\ Return(t)
    /\ Same /\ UNCHANGED <<home, size>>

\* A write that the file system refuses leaves the offset alone.
WriteStart(t) == IF call[t].append THEN size ELSE call[t].off
DiskWrite(t, ok) ==
    /\ call[t].op = "write"
    /\ LET i == call[t].fd
           start == WriteStart(t)
           s == Table(t)[i]
       IN  IF ok /\ start < MaxOffset
           THEN /\ size' = Max({size, start + 1})
                /\ SetSlot(t, i, [s EXCEPT !.off = start + 1,
                      !.due = IF s.mode = "a" THEN start + 1 ELSE s.due + 1])
           ELSE UNCHANGED <<size, fds>>
    /\ Return(t)
    /\ Same /\ UNCHANGED home

\* read, write and connect on a pipe or a socket.
HoldNot(o) == refs
Hold(o) == [refs EXCEPT ![o] = @ + 1]
Transfer(t, i) ==
    /\ CanLock(t) /\ IsOpen(t, i) /\ Table(t)[i].kind = "object"
    /\ LET o == Table(t)[i].obj
       IN  /\ Count(Hold(o))
           /\ call' = [call EXCEPT ![t] = [op |-> "transfer", obj |-> o]]
    /\ UNCHANGED <<home, fds, lock, size>>

TransferReturns(t) ==
    /\ call[t].op = "transfer"
    /\ Count([refs EXCEPT ![call[t].obj] = @ - 1])
    /\ call' = [call EXCEPT ![t] = NoCall]
    /\ UNCHANGED <<home, fds, lock, size>>

----------------------------------------------------------------------------
(* Processes: add_task shares the table, spawn copies chosen descriptors   *)
(* into a new one (inherit), exec gives the console (with_console), and    *)
(* the table goes with the last thread.                                    *)

Unborn == {t \in Threads : home[t] = None}
Unused == {p \in Procs : fds[p] = <<>>}

AddTask(t, u) ==
    /\ CanLock(t) /\ u \in Unborn
    /\ home' = [home EXCEPT ![u] = home[t]]
    /\ Same /\ UNCHANGED <<fds, lock, call, size>>

Exec(t, u, p) ==
    /\ CanLock(t) /\ u \in Unborn /\ p \in Unused
    /\ home' = [home EXCEPT ![u] = p]
    /\ fds' = [fds EXCEPT ![p] = [i \in 1 .. Stdio |-> Console]]
    /\ Same /\ UNCHANGED <<lock, call, size>>

\* chosen[i] is the descriptor that becomes the child's i-th.  The copies
\* made before one that is not open are dropped again.  The call owns the new
\* table while it reads and loads the program; a failure there drops it.
Inherited(t, chosen) == [i \in 1 .. Stdio |-> Table(t)[chosen[i]]]
Spawn(t, chosen) ==
    /\ CanLock(t)
    /\ \A i \in 1 .. Stdio : IsOpen(t, chosen[i])
    /\ Count([o \in Objects |-> refs[o] + Copies(Inherited(t, chosen), o)])
    /\ call' = [call EXCEPT ![t] = [op |-> "spawn", files |-> Inherited(t, chosen)]]
    /\ UNCHANGED <<home, fds, lock, size>>

SpawnFails(t) ==
    /\ call[t].op = "spawn"
    /\ Count([o \in Objects |-> refs[o] - Copies(call[t].files, o)])
    /\ call' = [call EXCEPT ![t] = NoCall]
    /\ UNCHANGED <<home, fds, lock, size>>

SpawnAdds(t, u, p) ==
    /\ call[t].op = "spawn" /\ u \in Unborn /\ p \in Unused
    /\ home' = [home EXCEPT ![u] = p]
    /\ fds' = [fds EXCEPT ![p] = call[t].files]
    /\ call' = [call EXCEPT ![t] = NoCall]
    /\ Same /\ UNCHANGED <<lock, size>>

\* terminate_task drops the thread's reference to the table.
LastThread(t) == \A u \in Threads \ {t} : home[u] # home[t]
Exit(t) ==
    /\ home[t] # None /\ call[t] = NoCall
    /\ home' = [home EXCEPT ![t] = None]
    /\ IF LastThread(t)
       THEN /\ fds' = [fds EXCEPT ![home[t]] = <<>>]
            /\ Count([o \in Objects |-> refs[o] - Copies(Table(t), o)])
       ELSE UNCHANGED fds /\ Same
    /\ UNCHANGED <<lock, call, size>>

Chosen == [1 .. Stdio -> 1 .. MaxFds]

Next ==
    \E t \in Threads :
        \/ \E mode \in Modes, ok \in BOOLEAN : Open(t, mode, ok)
        \/ Socket(t) \/ Pipe(t) \/ CloseDrop(t) \/ DiskRead(t) \/ TransferReturns(t)
        \/ \E ok \in BOOLEAN : DiskWrite(t, ok)
        \/ \E i \in 1 .. MaxFds :
             \/ Close(t, i) \/ Transfer(t, i)
             \/ \E target \in 0 .. MaxOffset : Seek(t, i, target)
             \/ \E op \in {"read", "write"} : DiskStart(t, i, op)
        \/ \E u \in Threads :
             \/ AddTask(t, u)
             \/ \E p \in Procs : Exec(t, u, p) \/ SpawnAdds(t, u, p)
        \/ \E c \in Chosen : Spawn(t, c)
        \/ SpawnFails(t) \/ Exit(t)

Spec == Init /\ [][Next]_vars

----------------------------------------------------------------------------
(* Properties.                                                             *)

\* The kind of every variable; a table has at most MaxFds slots.
TypeOK ==
    /\ home \in [Threads -> Procs \cup {None}]
    /\ lock \in [Procs -> Threads \cup {None}]
    /\ \A p \in Procs : /\ Len(fds[p]) <= MaxFds
                        /\ \A i \in DOMAIN fds[p] :
                             fds[p][i].kind \in {"free", "console", "disk", "object"}
    /\ refs \in [Objects -> Nat] /\ dead \subseteq Objects
    /\ size \in 0 .. MaxOffset

\* An object is counted once for every descriptor of every process and once
\* for every call that works on it, is about to drop it or has copied it for a
\* child; so it is dropped
\* exactly when the last of them is gone, whoever closes, spawns or exits.
Holders(o) ==
    LET InTable(p) == Copies(fds[p], o)
        InCall(t) ==
            CASE call[t].op = "transfer" -> IF call[t].obj = o THEN 1 ELSE 0
              [] call[t].op = "drop" -> IF o \in ObjectsOf({call[t].held}) THEN 1 ELSE 0
              [] call[t].op = "spawn" -> Copies(call[t].files, o)
              [] OTHER -> 0
    IN  MapThenSumSet(InTable, Procs) + MapThenSumSet(InCall, Threads)
ReferencesExact == \A o \in Objects : refs[o] = Holders(o)

\* No descriptor and no blocked call refers to an object whose Drop has run.
NoUseAfterDrop == \A o \in dead : Holders(o) = 0

\* The offset of a descriptor is where it was last set plus what its reads
\* and writes have transferred since, also when threads share it.
OffsetCounts ==
    \A p \in Procs : \A i \in DOMAIN fds[p] :
        LET s == fds[p][i] IN s.kind = "disk" => s.off = s.due

\* When the last thread of a process is gone its descriptors are closed ("A
\* process's descriptors are closed as soon as it terminates").
ClosedAtExit ==
    \A p \in Procs : fds[p] # <<>> => \E t \in Threads : home[t] = p
=============================================================================
