-------------------------------- MODULE Pipe --------------------------------
(***************************************************************************)
(* Pipes: the byte ring of pipe.jh and the protocol around it that pipe.rs *)
(* (ring: a VecDeque), jihoo/pipe.rs and pipe_owner.jh share: the blocking *)
(* read and write and the counted ends, and the way the file table uses    *)
(* them (file.rs, file_table.jh): an operation clones the end out of its   *)
(* table slot under the table lock, drops the lock, works on the clone and *)
(* drops it.                                                               *)
(*                                                                         *)
(* A thread's step is what it does between two points at which another     *)
(* thread can see the difference: one atomic operation, one critical       *)
(* section of the pipe's spinlock, or one call into the scheduler.  The    *)
(* scheduler's event calls are modelled by what TaskScheduler shows of     *)
(* them: wake_event ends every wait on the key and outdates every          *)
(* generation read before it; wait_event does not block on an outdated     *)
(* generation.  fresh[t] says that the generation t read is still current. *)
(***************************************************************************)
EXTENDS Integers, Sequences, FiniteSets

CONSTANTS
    Capacity,   \* bytes in the ring (4096 in the code)
    Threads,
    Slots,      \* file table slots, of all tables
    TableOf,    \* [Slots -> the table a slot belongs to]
    ReadSlot,   \* where pipe() put the two ends
    WriteSlot,
    Bytes,      \* the values a byte can have
    MaxLen,     \* the longest transfer a call asks for
    NONE

ASSUME CapacityAssumption == Capacity \in Nat \ {0}
ASSUME MaxLenAssumption == MaxLen \in Nat
ASSUME SlotAssumption ==
    /\ ReadSlot \in Slots /\ WriteSlot \in Slots /\ ReadSlot # WriteSlot
    /\ NONE \notin Slots /\ NONE \notin Threads /\ NONE \notin {"R", "W"}
    /\ IsFiniteSet(Slots) /\ IsFiniteSet(Threads)
ASSUME BytesAssumption == Bytes # {}

VARIABLES
    buf, head, length,      \* the ring: State.data, head, length
    readers, writers,       \* State.readers, State.writers
    refs,                   \* references of the Shared(Pipe)
    slot,                   \* [Slots -> which end it holds]
    table,                  \* [tables -> thread holding the table lock]
    pc,                     \* [Threads -> where the thread is]
    end,                    \* [Threads -> which end it works on]
    dest,                   \* [Threads -> slot a cloned end goes to]
    want,                   \* [Threads -> length a read asks for]
    left,                   \* [Threads -> bytes of a write not yet queued]
    fresh,                  \* [Threads -> the generation read is current]
    out, result             \* what the last call delivered and returned

ringVars == <<buf, head, length>>
endVars == <<readers, writers, refs, slot, table, end, dest>>
callVars == <<want, left, out, result>>
vars == <<ringVars, endVars, callVars, pc, fresh>>

Tables == {TableOf[s] : s \in Slots}
EndKinds == {"R", "W"}
Data == UNION {[1 .. n -> Bytes] : n \in 0 .. MaxLen}
Least(a, b) == IF a < b THEN a ELSE b

----------------------------------------------------------------------------
(* The ring.                                                               *)

\* The byte i places after the oldest one.
At(i) == buf[(head + i) % Capacity]

Advance(count) == (head + count) % Capacity

\* What jihoo_pipe_read copies out, in the two pieces it copies it in.
CopyOut(count) ==
    LET first == Least(count, Capacity - head)
    IN  [i \in 1 .. first |-> buf[head + i - 1]]
        \o [i \in 1 .. (count - first) |-> buf[i - 1]]

\* The same without the second piece's offset into the input.
CopyInFromStart(d, count) ==
    LET tail == (head + length) % Capacity
        first == Least(count, Capacity - tail)
    IN  [j \in 0 .. (Capacity - 1) |->
            IF tail <= j /\ j < tail + first THEN d[j - tail + 1]
            ELSE IF j < count - first THEN d[j + 1]
            ELSE buf[j]]

\* The ring after jihoo_pipe_write copied the first count bytes of d in.
CopyIn(d, count) ==
    LET tail == (head + length) % Capacity
        first == Least(count, Capacity - tail)
    IN  [j \in 0 .. (Capacity - 1) |->
            IF tail <= j /\ j < tail + first THEN d[j - tail + 1]
            ELSE IF j < count - first THEN d[first + j + 1]
            ELSE buf[j]]

Goto(t, p) == pc' = [pc EXCEPT ![t] = p]

\* kaguya_wake_event: every waiter goes on, every generation read is old.
Wake(t, p) ==
    /\ pc' = [u \in Threads |-> IF u = t THEN p
                                ELSE IF pc[u] = "blocked" THEN "gen"
                                ELSE pc[u]]
    /\ fresh' = [u \in Threads |-> FALSE]

----------------------------------------------------------------------------
(* jihoo_pipe_init and pipe_owner.new, and the two slots pipe() fills.     *)

Init ==
    /\ buf = [j \in 0 .. (Capacity - 1) |-> CHOOSE b \in Bytes : TRUE]
    /\ head = 0 /\ length = 0
    /\ readers = 1 /\ writers = 1 /\ refs = 2
    /\ slot = [s \in Slots |-> IF s = ReadSlot THEN "R"
                               ELSE IF s = WriteSlot THEN "W" ELSE NONE]
    /\ table = [b \in Tables |-> NONE]
    /\ pc = [t \in Threads |-> "idle"]
    /\ end = [t \in Threads |-> NONE]
    /\ dest = [t \in Threads |-> NONE]
    /\ want = [t \in Threads |-> 0]
    /\ left = [t \in Threads |-> <<>>]
    /\ fresh = [t \in Threads |-> FALSE]
    /\ out = [t \in Threads |-> <<>>]
    /\ result = [t \in Threads |-> "ready"]

----------------------------------------------------------------------------
(* file_table.jh: taking an end out of a slot.                             *)

\* The table lock is held from finding the end to having cloned it.
LockNothing(t, s) == UNCHANGED table
LockTable(t, s) ==
    /\ table[TableOf[s]] = NONE
    /\ table' = [table EXCEPT ![TableOf[s]] = t]

UnlockTable(t) ==
    table' = [b \in Tables |-> IF table[b] = t THEN NONE ELSE table[b]]

\* FileTable.read on a read end.
ReadCall(t, s, n) ==
    /\ pc[t] = "idle" /\ slot[s] = "R" /\ LockTable(t, s)
    /\ end' = [end EXCEPT ![t] = "R"]
    /\ want' = [want EXCEPT ![t] = n]
    /\ result' = [result EXCEPT ![t] = "busy"]
    /\ Goto(t, "clone")
    /\ UNCHANGED <<ringVars, readers, writers, refs, slot, dest, left, out, fresh>>

\* FileTable.write on a write end.
WriteCall(t, s, d) ==
    /\ pc[t] = "idle" /\ slot[s] = "W" /\ LockTable(t, s)
    /\ end' = [end EXCEPT ![t] = "W"]
    /\ left' = [left EXCEPT ![t] = d]
    /\ result' = [result EXCEPT ![t] = "busy"]
    /\ Goto(t, "clone")
    /\ UNCHANGED <<ringVars, readers, writers, refs, slot, dest, want, out, fresh>>

\* FileTable.inherit: the end in slot s is cloned for slot d of the new
\* process, which no thread can reach before it is filled.
Inherit(t, s, d) ==
    /\ pc[t] = "idle" /\ slot[s] # NONE /\ slot[d] = NONE
    /\ TableOf[d] # TableOf[s]
    /\ \A u \in Threads : dest[u] # d
    /\ LockTable(t, s)
    /\ end' = [end EXCEPT ![t] = slot[s]]
    /\ dest' = [dest EXCEPT ![t] = d]
    /\ Goto(t, "clone")
    /\ UNCHANGED <<ringVars, callVars, readers, writers, refs, slot, fresh>>

\* Clone for Reader and for Writer: first the count of the side ...
CountReader(t) == readers' = readers + 1 /\ UNCHANGED writers
CountEnd(t) ==
    IF end[t] = "R" THEN readers' = readers + 1 /\ UNCHANGED writers
                    ELSE writers' = writers + 1 /\ UNCHANGED readers

CloneEnd(t) ==
    /\ pc[t] = "clone"
    /\ CountEnd(t)
    /\ Goto(t, "share")
    /\ UNCHANGED <<ringVars, callVars, refs, slot, table, end, dest, fresh>>

\* ... then the reference; the table lock goes with the guard.
ShareEnd(t) ==
    /\ pc[t] = "share"
    /\ refs' = refs + 1
    /\ UnlockTable(t)
    /\ IF dest[t] = NONE
       THEN Goto(t, "call") /\ UNCHANGED <<slot, end, dest>>
       ELSE /\ slot' = [slot EXCEPT ![dest[t]] = end[t]]
            /\ end' = [end EXCEPT ![t] = NONE]
            /\ dest' = [dest EXCEPT ![t] = NONE]
            /\ Goto(t, "idle")
    /\ UNCHANGED <<ringVars, callVars, readers, writers, fresh>>

\* FileTable.close, and the drop of a process's table: the end leaves its
\* slot under the lock and is dropped after it.
Close(t, s) ==
    /\ pc[t] = "idle" /\ slot[s] # NONE /\ table[TableOf[s]] = NONE
    /\ slot' = [slot EXCEPT ![s] = NONE]
    /\ end' = [end EXCEPT ![t] = slot[s]]
    /\ Goto(t, "close")
    /\ UNCHANGED <<ringVars, callVars, readers, writers, refs, table, dest, fresh>>

\* jihoo_pipe_close says whether the side is gone.
LastOfSide(n) == n = 0

\* Drop for Reader and for Writer: close_end ...
CloseEnd(t) ==
    /\ pc[t] = "close"
    /\ IF end[t] = "R" THEN readers' = readers - 1 /\ UNCHANGED writers
                       ELSE writers' = writers - 1 /\ UNCHANGED readers
    /\ Goto(t, IF LastOfSide(IF end[t] = "R" THEN readers' ELSE writers')
               THEN "lastwake" ELSE "release")
    /\ UNCHANGED <<ringVars, callVars, refs, slot, table, end, dest, fresh>>

WakeLast(t) ==
    /\ pc[t] = "lastwake" /\ Wake(t, "release")
    /\ UNCHANGED <<ringVars, endVars, callVars>>

\* ... then the reference; the call returns, its locals are gone.
Release(t) ==
    /\ pc[t] = "release"
    /\ refs' = refs - 1
    /\ end' = [end EXCEPT ![t] = NONE]
    /\ want' = [want EXCEPT ![t] = 0]
    /\ left' = [left EXCEPT ![t] = <<>>]
    /\ out' = [out EXCEPT ![t] = <<>>]
    /\ result' = [result EXCEPT ![t] = "ready"]
    /\ fresh' = [fresh EXCEPT ![t] = FALSE]
    /\ Goto(t, "idle")
    /\ UNCHANGED <<ringVars, readers, writers, slot, table, dest>>

----------------------------------------------------------------------------
(* Pipe.read and Pipe.write.                                               *)

Return(t, r) ==
    /\ result' = [result EXCEPT ![t] = r]
    /\ Goto(t, "close")

\* The loop condition: a read of nothing returns at once, a write goes on
\* until every byte is queued.
Enter(t) ==
    /\ pc[t] = "call"
    /\ IF (end[t] = "R" /\ want[t] > 0) \/ (end[t] = "W" /\ left[t] # <<>>)
       THEN Goto(t, "gen") /\ UNCHANGED result
       ELSE Return(t, "done")
    /\ UNCHANGED <<ringVars, endVars, want, left, out, fresh>>

\* kaguya_event_generation, before the ring is looked at.
Generation(t) ==
    /\ pc[t] = "gen"
    /\ fresh' = [fresh EXCEPT ![t] = TRUE]
    /\ Goto(t, "ring")
    /\ UNCHANGED <<ringVars, endVars, callVars>>

ReadRing(t) ==
    /\ pc[t] = "ring" /\ end[t] = "R"
    /\ \/ /\ length = 0 /\ writers = 0
          /\ Return(t, "eof")
          /\ UNCHANGED <<ringVars, out>>
       \/ /\ length = 0 /\ writers > 0
          /\ Goto(t, "wait")
          /\ UNCHANGED <<ringVars, out, result>>
       \/ /\ length > 0
          /\ LET count == Least(want[t], length)
             IN  /\ out' = [out EXCEPT ![t] = CopyOut(count)]
                 /\ head' = Advance(count)
                 /\ length' = length - count
          /\ result' = [result EXCEPT ![t] = "data"]
          /\ Goto(t, "wake")
          /\ UNCHANGED buf
    /\ UNCHANGED <<endVars, want, left, fresh>>

WriteRing(t) ==
    /\ pc[t] = "ring" /\ end[t] = "W"
    /\ \/ /\ readers = 0
          /\ Return(t, "broken")
          /\ UNCHANGED <<ringVars, left>>
       \/ /\ readers > 0 /\ length = Capacity
          /\ Goto(t, "wait")
          /\ UNCHANGED <<ringVars, left, result>>
       \/ /\ readers > 0 /\ length < Capacity
          /\ LET count == Least(Len(left[t]), Capacity - length)
             IN  /\ buf' = CopyIn(left[t], count)
                 /\ length' = length + count
                 /\ left' = [left EXCEPT ![t] = SubSeq(@, count + 1, Len(@))]
          /\ Goto(t, "wake")
          /\ UNCHANGED <<head, result>>
    /\ UNCHANGED <<endVars, want, out, fresh>>

\* The transfer is announced with the pipe's lock released.
Announce(t) ==
    /\ pc[t] = "wake"
    /\ Wake(t, IF end[t] = "R" THEN "close" ELSE "call")
    /\ UNCHANGED <<ringVars, endVars, callVars>>

\* kaguya_wait_event: no wait on a generation that has passed.
BlocksAnyway(t) == Goto(t, "blocked")
BlockIfFresh(t) == Goto(t, IF fresh[t] THEN "blocked" ELSE "gen")

Wait(t) ==
    /\ pc[t] = "wait"
    /\ BlockIfFresh(t)
    /\ UNCHANGED <<ringVars, endVars, callVars, fresh>>

Step(t) ==
    \/ CloneEnd(t) \/ ShareEnd(t) \/ CloseEnd(t) \/ WakeLast(t) \/ Release(t)
    \/ Enter(t) \/ Generation(t) \/ ReadRing(t) \/ WriteRing(t)
    \/ Announce(t) \/ Wait(t)

Next ==
    \E t \in Threads :
        \/ Step(t)
        \/ \E s \in Slots :
             \/ \E n \in 0 .. MaxLen : ReadCall(t, s, n)
             \/ \E d \in Data : WriteCall(t, s, d)
             \/ \E d \in Slots : Inherit(t, s, d)
             \/ Close(t, s)

Spec == Init /\ [][Next]_vars

----------------------------------------------------------------------------
(* Properties.                                                             *)

Places == {"idle", "clone", "share", "call", "gen", "ring", "wait", "blocked",
           "wake", "close", "lastwake", "release"}
Results == {"ready", "busy", "data", "eof", "done", "broken"}

\* The ring's bounds, and the kind of every variable.
TypeOK ==
    /\ buf \in [0 .. (Capacity - 1) -> Bytes]
    /\ head \in 0 .. (Capacity - 1) /\ length \in 0 .. Capacity
    /\ readers \in Nat /\ writers \in Nat /\ refs \in Nat
    /\ slot \in [Slots -> EndKinds \cup {NONE}]
    /\ table \in [Tables -> Threads \cup {NONE}]
    /\ pc \in [Threads -> Places]
    /\ end \in [Threads -> EndKinds \cup {NONE}]
    /\ dest \in [Threads -> Slots \cup {NONE}]
    /\ want \in [Threads -> 0 .. MaxLen]
    /\ left \in [Threads -> Seq(Bytes)]
    /\ fresh \in [Threads -> BOOLEAN]
    /\ out \in [Threads -> Seq(Bytes)]
    /\ result \in [Threads -> Results]

\* A thread that waits, or is about to, has a reason to, or a wakeup is on
\* its way: the ring is looked at after the generation is read, and whoever
\* changes the ring or closes a side wakes after it (Pipe.read, Pipe.write,
\* close_end).
Waits(t) == pc[t] = "blocked" \/ (pc[t] = "wait" /\ fresh[t])
MayWait(t) == IF end[t] = "R" THEN length = 0 /\ writers > 0
                             ELSE length = Capacity /\ readers > 0
NoLostWakeup ==
    \A t \in Threads :
        Waits(t) => MayWait(t) \/ \E u \in Threads : pc[u] \in {"wake", "lastwake"}

\* The slots and the threads that count as an end of one kind, and those
\* that hold a reference.
EndSlots(kind) == {s \in Slots : slot[s] = kind}
EndThreads(kind) ==
    {t \in Threads : end[t] = kind /\ pc[t] \notin {"clone", "lastwake", "release"}}
RefSlots == {s \in Slots : slot[s] # NONE}
RefThreads == {t \in Threads : end[t] # NONE /\ pc[t] \notin {"clone", "share"}}

\* readers, writers and the reference count are the ends there are, whatever
\* clones and drops are under way (Clone and Drop of Reader and Writer).
Counted(kind) == Cardinality(EndSlots(kind)) + Cardinality(EndThreads(kind))
EndsCounted ==
    /\ readers = Counted("R") /\ writers = Counted("W")
    /\ refs = Cardinality(RefSlots) + Cardinality(RefThreads)

\* A pipe is never freed under a thread that works on it: the table lock
\* keeps the slot's end alive until the clone holds its own reference
\* (FileTable.read, write, inherit; Drop for Shared).
InUseNotFreed == \A t \in Threads : end[t] # NONE => refs > 0

\* The ring and its ends are a bounded first-in first-out channel.
Contents == [i \in 1 .. length |-> At(i - 1)]
Channel == INSTANCE PipeChannel WITH chan <- Contents
ChannelSpec == Channel!ChSpec

\* Once every write end is closed, a read that is under way returns
\* (the last close_end wakes the readers).
Reading(t) == end[t] = "R" /\ pc[t] \in {"gen", "ring", "wait", "blocked"}
EofReachesReaders ==
    \A t \in Threads : (Reading(t) /\ writers = 0) ~> ~Reading(t)

\* Once every read end is closed, a write that is under way returns.
Writing(t) == end[t] = "W" /\ pc[t] \in {"gen", "ring", "wait", "blocked"}
BrokenPipeReachesWriters ==
    \A t \in Threads : (Writing(t) /\ readers = 0) ~> ~Writing(t)

\* While some thread reads, bytes do not stay in the pipe: a read that found
\* the ring empty is woken by the write that fills it.
DataReachesReaders ==
    \A t \in Threads : (Reading(t) /\ length > 0) ~> (~Reading(t) \/ length = 0)
=============================================================================
