-------------------------- MODULE TaskSchedulerInv --------------------------
(***************************************************************************)
(* The inductive invariant behind the safety properties of TaskScheduler.  *)
(* Each conjunct says what one part of the state knows about the others    *)
(* between any two steps, in particular inside the window in which a CPU   *)
(* has dropped the lock and not yet finished its stack switch.             *)
(***************************************************************************)
EXTENDS TaskScheduler

Locked == {"maint", "collect", "drain", "pick", "switch"}
OnOldStack == {"prep", "save"}
Switching == {"prep", "save", "release", "handoff", "retire"}

\* CPU c is the one that may use t's stack: t is its current task, or the
\* task it is leaving and has not yet released.
Holds(c, t) ==
    \/ cur[c] = t
    \/ outgoing[c] = t /\ pc[c] \in {"prep", "save", "release"}

\* The lock is held exactly in the critical sections.
LockInv ==
    /\ \A c \in Cpus : pc[c] \in Locked <=> lock = c
    /\ \A c \in Cpus : next[c] # NONE <=> pc[c] = "switch"
    /\ todo # {} => lock = WAKER \/ \E c \in Cpus : pc[c] \in {"maint", "collect"}
    /\ \A c \in Cpus : pc[c] \in {"maint", "collect"} => scan > 0
    /\ \A t \in todo : status[t] = "Waiting"

\* The locals of a switch exist only during the switch.
SwitchInv ==
    \A c \in Cpus :
        /\ outgoing[c] # NONE => pc[c] \in Switching
        /\ pc[c] \in {"release", "handoff", "retire"} => outgoing[c] # NONE
        /\ encoded[c] => outgoing[c] # NONE
        /\ pc[c] = "handoff" => encoded[c]
        /\ retiring[c] # NULL => /\ outgoing[c] # NONE
                                 /\ status[outgoing[c]] = "Zombie"
                                 /\ retiring[c] = bottom[outgoing[c]]
        /\ pc[c] = "retire" => retiring[c] # NULL

\* Records are pushed in order, and nothing refers to one not yet pushed.
RecordInv ==
    /\ \A t \in Tasks : status[t] = "Absent" <=> t > len
    /\ \A c \in Cpus : /\ cur[c] # NONE => status[cur[c]] # "Absent"
                       /\ outgoing[c] # NONE => status[outgoing[c]] # "Absent"

\* One CPU per task, and on_cpu covers the whole time a stack is in use.
OwnerInv ==
    /\ \A c \in Cpus, t \in Tasks : Holds(c, t) => onCpu[t]
    /\ \A c, d \in Cpus, t \in Tasks : Holds(c, t) /\ Holds(d, t) => c = d
    /\ \A c, d \in Cpus : outgoing[c] # NONE =>
           /\ outgoing[c] # cur[d]
           /\ d # c => outgoing[c] # outgoing[d]
    /\ \A c \in Cpus : next[c] # NONE => /\ status[next[c]] = "Claimed"
                                         /\ ~onCpu[next[c]]

\* A task left while Running stays SwitchingOut until the CPU that left it
\* drains the handoff; it is on its way in one place only.
HandoffInv ==
    /\ \A c \in Cpus : encoded[c] => status[outgoing[c]] = "SwitchingOut"
    /\ \A c \in Cpus : handoff[c] # NONE =>
           /\ status[handoff[c]] = "SwitchingOut"
           /\ \A d \in Cpus :
                /\ cur[d] # handoff[c] /\ outgoing[d] # handoff[c]
                /\ d # c => handoff[d] # handoff[c]

\* A task nobody holds has its stack pointer saved.
SavedInv ==
    /\ \A t \in Tasks : status[t] # "Absent" /\ ~onCpu[t] => saved[t]
    /\ \A c \in Cpus : pc[c] \in OnOldStack /\ cur[c] # NONE => saved[cur[c]]
    /\ \A c \in Cpus : pc[c] = "release" => saved[outgoing[c]]

\* Where a CPU is, and which root it has loaded.
PlaceInv ==
    \A c \in Cpus :
        /\ rsp[c] = LET t == IF pc[c] \in OnOldStack THEN outgoing[c] ELSE cur[c]
                    IN  IF t = NONE THEN NULL ELSE bottom[t]
        /\ root[c] = IF pc[c] = "prep" THEN outgoing[c] ELSE cur[c]

\* Stacks have one owner; a stack is retired once its zombie is off every
\* CPU, and only then can it go back to the heap.
StackInv ==
    /\ \A t, u \in Tasks : bottom[t] = bottom[u] /\ bottom[t] # NULL => t = u
    /\ \A t \in Tasks : bottom[t] \notin freeStacks
    /\ \A t \in Tasks : status[t] = "Absent" => bottom[t] = NULL
    /\ \A t \in Tasks : status[t] \notin {"Absent", "Zombie"} => bottom[t] # NULL
    /\ \A c \in Cpus : cur[c] # NONE => bottom[cur[c]] # NULL
    /\ \A c \in Cpus : outgoing[c] # NONE /\ pc[c] \in {"prep", "save", "release"}
                       => bottom[outgoing[c]] # NULL
    /\ retired \cap freeStacks = {}
    /\ \A t \in Tasks : bottom[t] \in retired =>
           /\ status[t] = "Zombie"
           /\ \A c \in Cpus : cur[c] # t /\ outgoing[c] # t

\* The context part of the invariant: enough for stacks and saved contexts.
ContextInv ==
    /\ LockInv /\ SwitchInv /\ RecordInv /\ OwnerInv
    /\ HandoffInv /\ SavedInv /\ PlaceInv /\ StackInv

\* Exited, and its stack and address space given back.
Reclaimed(t) == status[t] = "Zombie" /\ bottom[t] = NULL

\* A CPU's current task is Running, except from the call that blocked it to
\* the switch; the CPU has an idle context to fall back to by then.
RunInv ==
    \A c \in Cpus : cur[c] # NONE =>
        /\ status[cur[c]] \in {"Running", "Zombie", "Sleeping", "Waiting"}
        /\ pc[c] \notin {"sched", "maint", "drain", "pick", "switch"}
           => status[cur[c]] = "Running"
        /\ idleSaved[c] \/ (pc[c] \in OnOldStack /\ outgoing[c] = NONE)

\* A task marked SwitchingOut is carried by the CPU that left it, whose
\* handoff slot is empty whenever it is about to be written.
CarryInv ==
    /\ \A t \in Tasks : status[t] = "SwitchingOut" =>
           \E c \in Cpus : (outgoing[c] = t /\ encoded[c]) \/ handoff[c] = t
    /\ \A c \in Cpus : handoff[c] # NONE =>
           pc[c] \notin {"pick", "switch"} \cup Switching

\* A pinned task is known to its own CPU only, its home queue included.
PinInv ==
    \A t \in Tasks : pinned[t] # NONE =>
        /\ affinity[t] = pinned[t]
        /\ \A c \in Cpus \ {pinned[t]} :
             /\ cur[c] # t /\ next[c] # t /\ outgoing[c] # t /\ handoff[c] # t
             /\ \A p \in 1 .. Len(queues[c]) : queues[c][p] # t

\* A task with a deadline sleeps or waits on a key.
DeadlineInv ==
    \A t \in Tasks : wakeTick[t] # 0 =>
        \/ status[t] = "Sleeping"
        \/ status[t] = "Waiting" /\ waitingFor[t] \in Keys

\* kaguya_wake_event wakes tasks blocked on a key, maintenance tasks blocked
\* on a task that is gone.
TodoInv ==
    \A t \in todo : IF lock = WAKER THEN waitingFor[t] \in Keys
                    ELSE waitingFor[t] \in Tasks /\ Reclaimed(waitingFor[t])

\* A caller of wait_task is blocked on its target until that is gone.
JoinInv ==
    \A t \in Tasks : joining[t] # NONE =>
        \/ status[t] = "Waiting" /\ waitingFor[t] = joining[t]
        \/ Reclaimed(joining[t])

\* The accounting part of the invariant: where every task is and why it
\* does not run.
AccountInv ==
    /\ queues \in [Cpus -> Seq(Tasks)] /\ ReadyIffQueuedOnce
    /\ RunInv /\ CarryInv /\ PinInv
    /\ DeadlineInv /\ TodoInv /\ JoinInv /\ NoLostWakeup

SchedulerInv == ContextInv /\ AccountInv
============================================================================
