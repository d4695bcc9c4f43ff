------------------------------ MODULE Keyboard ------------------------------
(***************************************************************************)
(* Console input (keyboard.rs and the key buffer of xhci.rs): tasks that   *)
(* block until a key arrives, the timer tick of the boot CPU that polls    *)
(* the controller on their behalf, and other tasks that poll it by system  *)
(* call or take single keys.                                               *)
(*                                                                         *)
(* The keyboard has a report for every change: the keys that are down, or  *)
(* a roll-over error when they are more than a report can hold.  One       *)
(* request is outstanding at a time, so a poll finds as many of the        *)
(* reports as the controller has had the time to deliver.                  *)
(***************************************************************************)
EXTENDS Integers, Sequences, SequencesExt, FiniteSets

CONSTANTS
    Readers,        \* tasks that read the console
    Keys,           \* keys, as numbers
    MaxDown,        \* keys a report holds
    BufSize,        \* KBD_BUF_SIZE
    MaxChanges,     \* bound: presses and releases
    MaxOther,       \* bound: xhci_poll and read_key calls of other tasks
    MaxKills        \* bound: readers killed in their sleep

\* What the instances choose the constants to satisfy.
KeyboardAssumption == BufSize > 1 /\ MaxDown > 0 /\ Keys \subseteq Nat \ {0}

Rollover == {0}

VARIABLES
    held,       \* history: the keys held, from the start and after every change
    wire,       \* reports not yet processed
    prev,       \* PREVIOUS_KEYBOARD_REPORTS
    buf, head, tail,    \* KEYBOARD_BUFFER and its indices
    dealt,      \* history: keys given to push_key, with what it did
    taken,      \* history: keys taken out of it
    lock,       \* XHCI_LOCK: "free" or who holds it
    waiters,    \* WAITERS
    pc,         \* [Readers -> ...]: in read_blocking
    moved,      \* [Readers -> BOOLEAN]: the event generation has changed
    bsp,        \* the tick: "idle", "try", "held", "wake"
    others, kills

kbd == <<wire, prev, buf, head, tail, dealt>>
vars == <<held, kbd, taken, lock, waiters, pc, moved, bsp, others, kills>>

Init ==
    /\ held = << {} >> /\ wire = <<>> /\ prev = {}
    /\ buf = [i \in 0 .. BufSize - 1 |-> 0] /\ head = 0 /\ tail = 0
    /\ dealt = <<>> /\ taken = <<>> /\ lock = "free" /\ waiters = 0
    /\ pc = [r \in Readers |-> "begin"] /\ moved = [r \in Readers |-> FALSE]
    /\ bsp = "idle" /\ others = 0 /\ kills = 0

----------------------------------------------------------------------------
(* Reports and the key buffer.                                             *)

\* A key goes down or up, and the keyboard tells.
Report(keys) == IF Cardinality(keys) <= MaxDown THEN keys ELSE Rollover
Change ==
    /\ Len(held) <= MaxChanges
    /\ \E k \in Keys :
         LET d == IF k \in Last(held) THEN Last(held) \ {k} ELSE Last(held) \cup {k}
         IN  held' = Append(held, d) /\ wire' = Append(wire, Report(d))
    /\ UNCHANGED <<prev, buf, head, tail, dealt, taken, lock, waiters, pc, moved, bsp, others, kills>>

HasRoomAlways(h, t) == TRUE
HasRoom(h, t) == (h + 1) % BufSize # t

\* push_key: without room the key is dropped.  The history also keeps how many
\* keys were unread at that moment.
Kept(d) == LET in == SelectSeq(d, LAMBDA x : x.kept) IN [i \in DOMAIN in |-> in[i].key]
Push(s, k) ==
    LET room == HasRoom(s.head, tail)
    IN  [buf |-> IF room THEN [s.buf EXCEPT ![s.head] = k] ELSE s.buf,
         head |-> IF room THEN (s.head + 1) % BufSize ELSE s.head,
         dealt |-> Append(s.dealt, [key |-> k, kept |-> room,
                                    unread |-> Len(Kept(s.dealt)) - Len(taken)])]

\* The keys of a report that the one before did not have.
NewKeys(report, before) == (report \ Rollover) \ before
InOrder(keys) == SetToSortSeq(keys, <)

\* process_events, as far as the keyboard goes: the reports there are, in order.
Reports(s, p, w) ==
    FoldLeft(LAMBDA a, r : [p |-> r, s |-> FoldLeft(Push, a.s, InOrder(NewKeys(r, a.p)))],
             [p |-> p, s |-> s], w)
ProcessEvents ==
    \E n \in 0 .. Len(wire) :
        LET a == Reports([buf |-> buf, head |-> head, dealt |-> dealt], prev, SubSeq(wire, 1, n))
        IN  /\ prev' = a.p /\ wire' = SubSeq(wire, n + 1, Len(wire))
            /\ buf' = a.s.buf /\ head' = a.s.head /\ dealt' = a.s.dealt

\* get_key, up to n times.
Stored(h, t) == (h + BufSize - t) % BufSize
GetKeys(n) ==
    LET m == IF Stored(head', tail) < n THEN Stored(head', tail) ELSE n
    IN  /\ tail' = (tail + m) % BufSize
        /\ taken' = taken \o [i \in 1 .. m |-> buf'[(tail + i - 1) % BufSize]]

----------------------------------------------------------------------------
(* read_blocking.                                                          *)

Go(r, to) == pc' = [pc EXCEPT ![r] = to]

ReadGeneration(r) ==
    /\ pc[r] = "begin" /\ Go(r, "lock") /\ moved' = [moved EXCEPT ![r] = FALSE]
    /\ UNCHANGED <<held, kbd, tail, taken, lock, waiters, bsp, others, kills>>

\* read_available: under the lock, poll and take what there is.
LockXhci(r) ==
    /\ pc[r] = "lock" /\ lock = "free" /\ lock' = "reader" /\ Go(r, "read")
    /\ UNCHANGED <<held, kbd, taken, waiters, moved, bsp, others, kills>>

ReadAvailable(r) ==
    /\ pc[r] = "read"
    /\ ProcessEvents /\ \E n \in 1 .. 2 : GetKeys(n)
    /\ lock' = "free"
    /\ Go(r, IF taken' # taken THEN "done" ELSE "raise")
    /\ UNCHANGED <<held, waiters, moved, bsp, others, kills>>

RaiseWaiters(r) ==
    /\ pc[r] = "raise" /\ waiters' = waiters + 1 /\ Go(r, "wait")
    /\ UNCHANGED <<held, kbd, taken, lock, moved, bsp, others, kills>>

\* wait_current_until: sleep unless the generation has moved on.
Sleeps(r) == ~moved[r]

WaitCurrent(r) ==
    /\ pc[r] = "wait" /\ Go(r, IF Sleeps(r) THEN "asleep" ELSE "lower")
    /\ UNCHANGED <<held, kbd, taken, lock, waiters, moved, bsp, others, kills>>

LowerWaiters(r) ==
    /\ pc[r] = "lower" /\ waiters' = waiters - 1 /\ Go(r, "begin")
    /\ UNCHANGED <<held, kbd, taken, lock, moved, bsp, others, kills>>

\* A task killed while it sleeps never lowers WAITERS.
Kill(r) ==
    /\ kills < MaxKills /\ kills' = kills + 1
    /\ pc[r] = "asleep" /\ Go(r, "killed")
    /\ UNCHANGED <<held, kbd, taken, lock, waiters, moved, bsp, others>>

----------------------------------------------------------------------------
(* The tick of the boot CPU, and the system calls of other tasks.          *)

Tick ==
    /\ bsp = "idle" /\ waiters # 0 /\ bsp' = "try"
    /\ UNCHANGED <<held, kbd, taken, lock, waiters, pc, moved, others, kills>>

TryLock ==
    /\ bsp = "try"
    /\ IF lock = "free" THEN lock' = "bsp" /\ bsp' = "held" ELSE UNCHANGED lock /\ bsp' = "idle"
    /\ UNCHANGED <<held, kbd, taken, waiters, pc, moved, others, kills>>

HasKey == head' # tail

PollController ==
    /\ bsp = "held" /\ ProcessEvents /\ UNCHANGED tail
    /\ lock' = "free" /\ bsp' = IF HasKey THEN "wake" ELSE "idle"
    /\ UNCHANGED <<held, taken, waiters, pc, moved, others, kills>>

\* wake_waiters(WAIT_KEY)
WakeWaiters ==
    /\ bsp = "wake" /\ bsp' = "idle"
    /\ moved' = [r \in Readers |-> TRUE]
    /\ pc' = [r \in Readers |-> IF pc[r] = "asleep" THEN "lower" ELSE pc[r]]
    /\ UNCHANGED <<held, kbd, taken, lock, waiters, others, kills>>

\* sys_xhci_poll and sys_read_key
XhciPoll ==
    /\ others < MaxOther /\ others' = others + 1 /\ lock = "free"
    /\ ProcessEvents
    /\ UNCHANGED <<held, tail, taken, lock, waiters, pc, moved, bsp, kills>>

ReadKey ==
    /\ others < MaxOther /\ others' = others + 1 /\ lock = "free"
    /\ UNCHANGED <<wire, prev, buf, head, dealt>> /\ GetKeys(1)
    /\ UNCHANGED <<held, lock, waiters, pc, moved, bsp, kills>>

Reader(r) == ReadGeneration(r) \/ LockXhci(r) \/ ReadAvailable(r) \/ RaiseWaiters(r) \/ WaitCurrent(r) \/ LowerWaiters(r)
Bsp == Tick \/ TryLock \/ PollController \/ WakeWaiters
Next == \/ \E r \in Readers : Reader(r) \/ Kill(r)
        \/ Bsp \/ Change \/ XhciPoll \/ ReadKey

Spec == Init /\ [][Next]_vars

----------------------------------------------------------------------------
TypeOK ==
    /\ (\A i \in DOMAIN held : held[i] \subseteq Keys) /\ head \in 0 .. BufSize - 1 /\ tail \in 0 .. BufSize - 1
    /\ lock \in {"free", "reader", "bsp"} /\ bsp \in {"idle", "try", "held", "wake"}
    /\ waiters \in 0 .. Cardinality(Readers)

\* What the keyboard tells with its n-th report: the keys that went down, and
\* nothing while more keys are held than a report can name; when they fit
\* again, every key still held is told once more.
Told(n) ==
    LET now == held[n + 1] before == held[n]
    IN  InOrder(IF Cardinality(now) > MaxDown THEN {}
                ELSE IF Cardinality(before) > MaxDown THEN now ELSE now \ before)

\* Every key the keyboard tells is given to push_key once and in order, and is
\* dropped only when BufSize - 1 keys, all the ring can hold, are unread.
PressesDealt ==
    /\ [i \in DOMAIN dealt |-> dealt[i].key]
          = FlattenSeq([n \in 1 .. Len(held) - 1 - Len(wire) |-> Told(n)])
    /\ \A i \in DOMAIN dealt : dealt[i].kept <=> dealt[i].unread < BufSize - 1

\* What push_key kept and nobody has taken yet is what the buffer holds: none
\* of it is lost, repeated or reordered, also when the ring is full.
BufferExact ==
    Kept(dealt) = taken \o [i \in 1 .. Stored(head, tail) |-> buf[(tail + i - 1) % BufSize]]

\* A reader that sleeps, or is about to, is counted, so that ticks poll for it
\* ("a key arriving before WAITERS is raised stays in the controller").
SleeperCounted ==
    waiters >= Cardinality({r \in Readers : pc[r] \in {"wait", "asleep", "lower"}})
=============================================================================
