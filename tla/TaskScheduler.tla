--------------------------- MODULE TaskScheduler ---------------------------
(***************************************************************************)
(* The SMP scheduler of the Jihoo kernel: src/src/jihoo/task.jh together   *)
(* with the stack switch of standalone/task.S.                             *)
(*                                                                         *)
(* Every CPU runs the same code.  The scheduler's tables are protected by  *)
(* one spinlock, but the stack switch happens after the lock is released,  *)
(* so another CPU can see a task that has left `CURRENT' while its stack   *)
(* is still in use.  The model keeps that window: a CPU that drops the     *)
(* lock still has to load the page table root, to store the outgoing stack *)
(* pointer, to clear `on_cpu', to publish the handoff and to publish the   *)
(* retired stack, one step each, and any other CPU may run in between.     *)
(*                                                                         *)
(* `saved', `rsp' and `joining' are not variables of the program.  They    *)
(* say whether a task's `stack' field is the point where the task stopped, *)
(* which stack a CPU physically runs on, and which task a caller of        *)
(* wait_task is inside a call for.                                         *)
(***************************************************************************)
EXTENDS Integers, Sequences, FiniteSets

CONSTANTS
    NumCpus,      \* online CPUs; CPU 0 is the boot processor
    MaxTasks,     \* bound on task records (the code never removes one)
    Stacks,       \* kernel stack blocks the heap can hand out
    NULL,         \* the null stack address
    Keys,         \* wait-event keys
    RetiredSlots, \* slots of RETIRED (64 in the code)
    MaxTick,      \* bound on the clock
    MaxGen        \* bound on an event's generation

ASSUME NumCpusAssumption == NumCpus \in Nat \ {0}
ASSUME MaxTasksAssumption == MaxTasks \in Nat
ASSUME NullAssumption == NULL \notin Stacks
ASSUME RetiredAssumption == RetiredSlots \in Nat
ASSUME BoundsAssumption == MaxTick \in Nat /\ MaxGen \in Nat
\* Event keys are addresses and constants far above every task id.
ASSUME KeysAssumption == \A k \in Keys : k \notin (1 .. MaxTasks) \cup {-1}

NONE == -1
FREE == -1
WAKER == -2

Cpus == 0 .. (NumCpus - 1)
Tasks == 1 .. MaxTasks

Statuses == {"Absent", "Ready", "Claimed", "SwitchingOut", "Running",
             "Sleeping", "Waiting", "Zombie"}

Phases == {"run", "sched", "maint", "collect", "drain", "pick", "switch",
           "prep", "save", "release", "handoff", "retire"}

VARIABLES
    \* one entry per task record
    status, onCpu, affinity, pinned, bottom, wakeTick, waitingFor,
    observed, joining, saved,
    \* one entry per CPU
    pc, cur, next, outgoing, encoded, retiring, idleSaved, rsp, root,
    \* shared
    lock, queues, handoff, retired, freeStacks, len, clock, gen, scan, todo

taskVars == <<status, onCpu, affinity, pinned, bottom, wakeTick, waitingFor,
              observed, joining, saved>>
cpuVars == <<pc, cur, next, outgoing, encoded, retiring, idleSaved, rsp, root>>
switchVars == <<cur, next, outgoing, encoded, retiring, idleSaved, rsp, root>>
sharedVars == <<lock, queues, handoff, retired, freeStacks, len, clock, gen,
                scan, todo>>
vars == <<taskVars, cpuVars, sharedVars>>

----------------------------------------------------------------------------
(* What the code computes from its tables.                                 *)

\* CURRENT[cpu] = index for some cpu.
Published(t) == \E c \in Cpus : cur[c] = t

\* The entry a claim or a steal may take: its stack is no longer in use.
ClaimableOnCpu(t) == t \in Tasks /\ status[t] = "Ready"
Claimable(t) == t \in Tasks /\ status[t] = "Ready" /\ ~onCpu[t]

Stealable(t) == Claimable(t) /\ pinned[t] = NONE

\* The first idle application processor with an empty queue, or CPU 0.
IsTarget(c) ==
    LET Free == {d \in Cpus \ {0} : cur[d] = NONE /\ queues[d] = <<>>}
    IN  IF Free = {} THEN c = 0 ELSE c \in Free /\ \A d \in Free : c <= d

\* claim_local drops entries that are no longer Ready.  An all-Ready queue
\* is returned as it is; the test spares the provers an induction.
Keep(q) ==
    LET IsReady(t) == t \in Tasks /\ status[t] = "Ready"
    IN  IF \A k \in 1 .. Len(q) : IsReady(q[k]) THEN q
        ELSE SelectSeq(q, IsReady)

\* claim_local takes the first entry it can.
ClaimsAt(q, p) == Claimable(q[p]) /\ \A r \in 1 .. (p - 1) : ~Claimable(q[r])

NoClaim(q) == \A p \in 1 .. Len(q) : ~Claimable(q[p])

\* What claim_local leaves behind: the entries it passed over are pushed
\* back to the tail, or dropped when they are not Ready.
AfterClaim(q, p) ==
    SubSeq(q, p + 1, Len(q)) \o Keep(SubSeq(q, 1, p - 1))

\* The longest queue of another CPU, the lowest numbered of several, if it
\* holds at least two entries.
IsVictim(c, v) ==
    /\ v # c /\ Len(queues[v]) > 1
    /\ \A d \in Cpus \ {c} : /\ Len(queues[d]) <= Len(queues[v])
                             /\ d < v => Len(queues[d]) < Len(queues[v])

\* steal scans the victim's queue from the tail.
StealsAt(q, p) ==
    Stealable(q[p]) /\ \A r \in (p + 1) .. Len(q) : ~Stealable(q[r])

NoSteal(c) ==
    \A v \in Cpus : IsVictim(c, v) =>
        \A p \in 1 .. Len(queues[v]) : ~Stealable(queues[v][p])

RemoveNothing(q, p) == q
RemoveAt(q, p) == SubSeq(q, 1, p - 1) \o SubSeq(q, p + 1, Len(q))

Enqueue(c, t) == queues' = [queues EXCEPT ![c] = Append(@, t)]

----------------------------------------------------------------------------
(* init and enter_idle: every CPU runs its idle loop, no task exists.  The *)
(* boot record that enter_idle turns into a zombie without a stack is      *)
(* never looked at again and is left out.                                  *)
Init ==
    /\ status = [t \in Tasks |-> "Absent"]
    /\ onCpu = [t \in Tasks |-> FALSE]
    /\ affinity = [t \in Tasks |-> 0]
    /\ pinned = [t \in Tasks |-> NONE]
    /\ bottom = [t \in Tasks |-> NULL]
    /\ wakeTick = [t \in Tasks |-> 0]
    /\ waitingFor = [t \in Tasks |-> NONE]
    /\ observed = [t \in Tasks |-> 0]
    /\ joining = [t \in Tasks |-> NONE]
    /\ saved = [t \in Tasks |-> FALSE]
    /\ pc = [c \in Cpus |-> "run"]
    /\ cur = [c \in Cpus |-> NONE]
    /\ next = [c \in Cpus |-> NONE]
    /\ outgoing = [c \in Cpus |-> NONE]
    /\ encoded = [c \in Cpus |-> FALSE]
    /\ retiring = [c \in Cpus |-> NULL]
    /\ idleSaved = [c \in Cpus |-> FALSE]
    /\ rsp = [c \in Cpus |-> NULL]
    /\ root = [c \in Cpus |-> NONE]
    /\ lock = FREE
    /\ queues = [c \in Cpus |-> <<>>]
    /\ handoff = [c \in Cpus |-> NONE]
    /\ retired = {}
    /\ freeStacks = Stacks
    /\ len = 0
    /\ clock = 0
    /\ gen = [k \in Keys |-> 0]
    /\ scan = 0
    /\ todo = {}

\* CPU c runs its current task, which is not inside wait_task.
Calling(c) == pc[c] = "run" /\ cur[c] # NONE /\ joining[cur[c]] = NONE

\* The first task of the system is pinned to CPU 0.
PinToHome(home) == home
PinOf(home) == IF len = 0 THEN 0 ELSE NONE

\* add_user: the task record is pushed and queued in one critical section.
\* A failed allocation returns NONE and changes nothing (for the first task
\* it is a panic).
AddUser(c) ==
    /\ Calling(c) \/ (c = 0 /\ len = 0 /\ pc[c] = "run")
    /\ lock = FREE
    /\ len < MaxTasks
    /\ len' = len + 1
    /\ \E s \in freeStacks :
         /\ bottom' = [bottom EXCEPT ![len + 1] = s]
         /\ freeStacks' = freeStacks \ {s}
    /\ \E home \in Cpus :
         /\ IF len = 0 THEN home = 0 ELSE IsTarget(home)
         /\ affinity' = [affinity EXCEPT ![len + 1] = home]
         /\ pinned' = [pinned EXCEPT ![len + 1] = PinOf(home)]
         /\ Enqueue(home, len + 1)
    /\ status' = [status EXCEPT ![len + 1] = "Ready"]
    /\ saved' = [saved EXCEPT ![len + 1] = TRUE]
    /\ UNCHANGED <<onCpu, wakeTick, waitingFor, observed, joining, cpuVars,
                   lock, handoff, retired, clock, gen, scan, todo>>

----------------------------------------------------------------------------
(* Calls of the running task that end in schedule().                       *)

\* yield, a user-mode timer interrupt, sleep(0), or one turn of the idle
\* loop.
CallSchedule(c) ==
    /\ Calling(c) \/ (pc[c] = "run" /\ cur[c] = NONE)
    /\ pc' = [pc EXCEPT ![c] = "sched"]
    /\ UNCHANGED <<taskVars, switchVars, sharedVars>>

\* exit, after the files have been dropped.
Exit(c) ==
    /\ Calling(c) /\ lock = FREE
    /\ status' = [status EXCEPT ![cur[c]] = "Zombie"]
    /\ pc' = [pc EXCEPT ![c] = "sched"]
    /\ UNCHANGED <<onCpu, affinity, pinned, bottom, wakeTick, waitingFor,
                   observed, joining, saved, switchVars, sharedVars>>

\* wait_task on a task that is not yet reclaimed.
WaitTask(c, u) ==
    /\ Calling(c) /\ lock = FREE
    /\ u \in 1 .. len /\ u # cur[c]
    /\ ~(status[u] = "Zombie" /\ bottom[u] = NULL)
    /\ status' = [status EXCEPT ![cur[c]] = "Waiting"]
    /\ waitingFor' = [waitingFor EXCEPT ![cur[c]] = u]
    /\ joining' = [joining EXCEPT ![cur[c]] = u]
    /\ pc' = [pc EXCEPT ![c] = "sched"]
    /\ UNCHANGED <<onCpu, affinity, pinned, bottom, wakeTick, observed, saved,
                   switchVars, sharedVars>>

\* The rest of wait_task once schedule() has returned: exit_code(id).
WaitTaskReturn(c) ==
    /\ pc[c] = "run" /\ lock = FREE /\ cur[c] # NONE
    /\ joining[cur[c]] # NONE
    /\ joining' = [joining EXCEPT ![cur[c]] = NONE]
    /\ UNCHANGED <<status, onCpu, affinity, pinned, bottom, wakeTick,
                   waitingFor, observed, saved, cpuVars, sharedVars>>

\* The deadlines a caller may ask for: the clock may have ticked once
\* since the caller read it.
Deadlines == {d \in {clock, clock + 1} : d > 0 /\ d <= MaxTick}

\* kaguya_wait_event when the generation is the one the caller observed;
\* otherwise it returns at once.
WaitEvent(c, k, d) ==
    /\ Calling(c) /\ lock = FREE
    /\ waitingFor' = [waitingFor EXCEPT ![cur[c]] = k]
    /\ wakeTick' = [wakeTick EXCEPT ![cur[c]] = d]
    /\ status' = [status EXCEPT ![cur[c]] = "Waiting"]
    /\ observed' = [observed EXCEPT ![cur[c]] = gen[k]]
    /\ pc' = [pc EXCEPT ![c] = "sched"]
    /\ UNCHANGED <<onCpu, affinity, pinned, bottom, joining, saved,
                   switchVars, sharedVars>>

Sleep(c, d) ==
    /\ Calling(c) /\ lock = FREE
    /\ wakeTick' = [wakeTick EXCEPT ![cur[c]] = d]
    /\ status' = [status EXCEPT ![cur[c]] = "Sleeping"]
    /\ pc' = [pc EXCEPT ![c] = "sched"]
    /\ UNCHANGED <<onCpu, affinity, pinned, bottom, waitingFor, observed,
                   joining, saved, switchVars, sharedVars>>

----------------------------------------------------------------------------
(* Waking.  A task that is still some CPU's current one has not yet gone   *)
(* through schedule() and simply stays Running; any other is queued, even  *)
(* if its stack is still in use (onCpu).                                   *)

MakeRunnable(t, home) ==
    IF Published(t)
    THEN /\ status' = [status EXCEPT ![t] = "Running"]
         /\ UNCHANGED queues
    ELSE /\ status' = [status EXCEPT ![t] = "Ready"]
         /\ Enqueue(home, t)

\* The loops over the task records go up.
IsLeast(t, S) == \A u \in S : t <= u

\* The tasks blocked on a key or on a task.
OffCpuWaiters(k) ==
    {t \in Tasks : status[t] = "Waiting" /\ waitingFor[t] = k /\ ~Published(t)}
Waiters(k) == {t \in Tasks : status[t] = "Waiting" /\ waitingFor[t] = k}

KeepDeadline(t) == UNCHANGED wakeTick
ClearDeadline(t) == wakeTick' = [wakeTick EXCEPT ![t] = 0]

\* kaguya_wake_event takes the lock and bumps the generation.  It is called
\* by running tasks and by interrupt handlers, which may interrupt a CPU
\* anywhere outside a critical section.
WakeEvent(k) ==
    /\ lock = FREE /\ len > 0
    /\ gen[k] < MaxGen
    /\ gen' = [gen EXCEPT ![k] = @ + 1]
    /\ todo' = Waiters(k)
    /\ lock' = IF todo' = {} THEN FREE ELSE WAKER
    /\ UNCHANGED <<taskVars, cpuVars, queues, handoff, retired, freeStacks,
                   len, clock, scan>>

\* One turn of its loop over the tasks; the last one releases the lock.
WakeEventTask ==
    /\ lock = WAKER
    /\ \E t \in todo :
         /\ IsLeast(t, todo)
         /\ MakeRunnable(t, affinity[t])
         /\ waitingFor' = [waitingFor EXCEPT ![t] = NONE]
         /\ ClearDeadline(t)
         /\ todo' = todo \ {t}
    /\ lock' = IF todo' = {} THEN FREE ELSE WAKER
    /\ UNCHANGED <<onCpu, affinity, pinned, bottom, observed, joining, saved,
                   cpuVars, handoff, retired, freeStacks, len, clock, gen,
                   scan>>

\* kaguya_forget_event, called when the last owner of the key's object is
\* dropped: nobody waits on it then.
ForgetEvent(k) ==
    /\ lock = FREE
    /\ Waiters(k) = {}
    /\ gen[k] # 0
    /\ gen' = [gen EXCEPT ![k] = 0]
    /\ UNCHANGED <<taskVars, cpuVars, lock, queues, handoff, retired,
                   freeStacks, len, clock, scan, todo>>

\* kaguya_scheduler_clock_tick.
Tick ==
    /\ clock < MaxTick
    /\ clock' = clock + 1
    /\ UNCHANGED <<taskVars, cpuVars, lock, queues, handoff, retired,
                   freeStacks, len, gen, scan, todo>>

----------------------------------------------------------------------------
(* maintenance: one step per task record, with the lock held, because the  *)
(* stack switches of other CPUs run meanwhile and publish into RETIRED.    *)

\* collect(), called by spawn before a program is loaded.
Collect(c) ==
    /\ Calling(c) /\ lock = FREE
    /\ lock' = c
    /\ pc' = [pc EXCEPT ![c] = "collect"]
    /\ scan' = 1
    /\ UNCHANGED <<taskVars, switchVars, queues, handoff, retired, freeStacks, len, clock,
                   gen, todo>>

\* schedule() takes the lock; CPU 0 runs maintenance first.
ScheduleEnter(c) ==
    /\ pc[c] = "sched" /\ lock = FREE
    /\ lock' = c
    /\ pc' = [pc EXCEPT ![c] = IF c = 0 THEN "maint" ELSE "drain"]
    /\ scan' = IF c = 0 THEN 1 ELSE scan
    /\ UNCHANGED <<taskVars, switchVars, queues, handoff, retired, freeStacks, len, clock,
                   gen, todo>>

Maintaining(c) == pc[c] \in {"maint", "collect"} /\ scan <= len /\ todo = {}

TimedOutAnyStatus(t) == wakeTick[t] <= clock
TimedOut(t) ==
    /\ status[t] = "Sleeping" \/ (status[t] = "Waiting" /\ wakeTick[t] # 0)
    /\ wakeTick[t] <= clock

\* Zombie, with a stack, off every CPU, and acknowledged by the CPU that
\* left the stack.
ReapableUnacknowledged(t) ==
    status[t] = "Zombie" /\ bottom[t] # NULL /\ ~Published(t)
Reapable(t) ==
    /\ status[t] = "Zombie" /\ bottom[t] # NULL
    /\ ~Published(t)
    /\ bottom[t] \in retired

MaintainWake(c) ==
    /\ Maintaining(c) /\ TimedOut(scan)
    /\ MakeRunnable(scan, IF pinned[scan] # NONE THEN pinned[scan]
                          ELSE affinity[scan])
    /\ waitingFor' = [waitingFor EXCEPT ![scan] = NONE]
    /\ ClearDeadline(scan)
    /\ scan' = scan + 1
    /\ UNCHANGED <<onCpu, affinity, pinned, bottom, observed, joining, saved,
                   cpuVars, lock, handoff, retired, freeStacks, len, clock,
                   gen, todo>>

\* The stack is freed, the address space reference dropped, and the tasks
\* waiting for this one are to be woken.
MaintainReap(c) ==
    /\ Maintaining(c) /\ Reapable(scan)
    /\ retired' = retired \ {bottom[scan]}
    /\ freeStacks' = freeStacks \cup {bottom[scan]}
    /\ bottom' = [bottom EXCEPT ![scan] = NULL]
    /\ todo' = Waiters(scan)
    /\ scan' = scan + 1
    /\ UNCHANGED <<status, onCpu, affinity, pinned, wakeTick, waitingFor,
                   observed, joining, saved, cpuVars, lock, queues, handoff,
                   len, clock, gen>>

\* One turn of the loop over the waiters of a reaped task.
MaintainWakeWaiter(c) ==
    /\ pc[c] \in {"maint", "collect"}
    /\ \E t \in todo :
         /\ IsLeast(t, todo)
         /\ MakeRunnable(t, affinity[t])
         /\ waitingFor' = [waitingFor EXCEPT ![t] = NONE]
         /\ todo' = todo \ {t}
    /\ UNCHANGED <<onCpu, affinity, pinned, bottom, wakeTick, observed,
                   joining, saved, cpuVars, lock, handoff, retired,
                   freeStacks, len, clock, gen, scan>>

MaintainSkip(c) ==
    /\ Maintaining(c) /\ ~TimedOut(scan) /\ ~Reapable(scan)
    /\ scan' = scan + 1
    /\ UNCHANGED <<taskVars, cpuVars, lock, queues, handoff, retired,
                   freeStacks, len, clock, gen, todo>>

\* The loop is over: collect() returns, schedule() goes on.
MaintainDone(c) ==
    /\ pc[c] \in {"maint", "collect"} /\ scan > len /\ todo = {}
    /\ pc' = [pc EXCEPT ![c] = IF pc[c] = "maint" THEN "drain" ELSE "run"]
    /\ lock' = IF pc[c] = "maint" THEN c ELSE FREE
    /\ scan' = 0
    /\ UNCHANGED <<taskVars, switchVars, queues, handoff, retired, freeStacks, len, clock,
                   gen, todo>>

----------------------------------------------------------------------------
(* schedule(), with the lock held.                                         *)

\* The handoff of this CPU's previous switch has been published: the task
\* it left is runnable again.
Drain(c) ==
    /\ pc[c] = "drain"
    /\ LET t == handoff[c]
       IN  IF t # NONE /\ status[t] = "SwitchingOut"
           THEN /\ status' = [status EXCEPT ![t] = "Ready"]
                /\ affinity' = [affinity EXCEPT ![t] = c]
                /\ Enqueue(c, t)
           ELSE UNCHANGED <<status, affinity, queues>>
    /\ handoff' = [handoff EXCEPT ![c] = NONE]
    /\ pc' = [pc EXCEPT ![c] = "pick"]
    /\ UNCHANGED <<onCpu, pinned, bottom, wakeTick, waitingFor, observed,
                   joining, saved, switchVars, lock, retired, freeStacks, len,
                   clock, gen, scan, todo>>

ClaimLocal(c) ==
    /\ pc[c] = "pick"
    /\ \E p \in 1 .. Len(queues[c]) :
         /\ ClaimsAt(queues[c], p)
         /\ status' = [status EXCEPT ![queues[c][p]] = "Claimed"]
         /\ next' = [next EXCEPT ![c] = queues[c][p]]
         /\ queues' = [queues EXCEPT ![c] = AfterClaim(queues[c], p)]
    /\ pc' = [pc EXCEPT ![c] = "switch"]
    /\ UNCHANGED <<onCpu, affinity, pinned, bottom, wakeTick, waitingFor,
                   observed, joining, saved, cur, outgoing, encoded, retiring,
                   idleSaved, rsp, root, lock, handoff, retired, freeStacks,
                   len, clock, gen, scan, todo>>

Steal(c) ==
    /\ pc[c] = "pick" /\ NoClaim(queues[c])
    /\ \E v \in Cpus : \E p \in 1 .. Len(queues[v]) :
         /\ IsVictim(c, v) /\ StealsAt(queues[v], p)
         /\ status' = [status EXCEPT ![queues[v][p]] = "Claimed"]
         /\ affinity' = [affinity EXCEPT ![queues[v][p]] = c]
         /\ next' = [next EXCEPT ![c] = queues[v][p]]
         /\ queues' = [queues EXCEPT ![c] = Keep(queues[c]),
                                     ![v] = RemoveAt(queues[v], p)]
    /\ pc' = [pc EXCEPT ![c] = "switch"]
    /\ UNCHANGED <<onCpu, pinned, bottom, wakeTick, waitingFor, observed,
                   joining, saved, cur, outgoing, encoded, retiring,
                   idleSaved, rsp, root, lock, handoff, retired, freeStacks,
                   len, clock, gen, scan, todo>>

NothingToRun(c) == pc[c] = "pick" /\ NoClaim(queues[c]) /\ NoSteal(c)

\* The current task blocked or exited and there is an idle stack to go to.
CanIdle(c) ==
    /\ cur[c] # NONE /\ idleSaved[c]
    /\ status[cur[c]] \in {"Zombie", "Sleeping", "Waiting"}

\* Nothing else to run: schedule() returns to its caller.
PickReturn(c) ==
    /\ NothingToRun(c) /\ ~CanIdle(c)
    /\ queues' = [queues EXCEPT ![c] = Keep(@)]
    /\ lock' = FREE
    /\ pc' = [pc EXCEPT ![c] = "run"]
    /\ UNCHANGED <<taskVars, switchVars, handoff, retired, freeStacks, len,
                   clock, gen, scan, todo>>

\* The stack a zombie leaves behind, to be acknowledged by the switch.
RetiringNothing(t) == NULL
RetiringStack(t) == IF status[t] = "Zombie" THEN bottom[t] ELSE NULL

PickIdle(c) ==
    /\ NothingToRun(c) /\ CanIdle(c)
    /\ queues' = [queues EXCEPT ![c] = Keep(@)]
    /\ outgoing' = [outgoing EXCEPT ![c] = cur[c]]
    /\ encoded' = [encoded EXCEPT ![c] = FALSE]
    /\ retiring' = [retiring EXCEPT ![c] = RetiringStack(cur[c])]
    /\ cur' = [cur EXCEPT ![c] = NONE]
    /\ lock' = FREE
    /\ pc' = [pc EXCEPT ![c] = "prep"]
    /\ UNCHANGED <<taskVars, next, idleSaved, rsp, root, handoff, retired,
                   freeStacks, len, clock, gen, scan, todo>>

Preempts(c) == cur[c] # NONE /\ status[cur[c]] = "Running"

\* The defensive branch: the claimed task belongs to another CPU.
SwitchRefused(c) ==
    /\ status' = [t \in Tasks |->
                     IF t = next[c] THEN "Ready"
                     ELSE IF Preempts(c) /\ t = cur[c] THEN "SwitchingOut"
                     ELSE status[t]]
    /\ Enqueue(pinned[next[c]], next[c])
    /\ next' = [next EXCEPT ![c] = NONE]
    /\ lock' = FREE
    /\ pc' = [pc EXCEPT ![c] = "run"]
    /\ UNCHANGED <<onCpu, affinity, pinned, bottom, wakeTick, waitingFor,
                   observed, joining, saved, cur, outgoing, encoded, retiring,
                   idleSaved, rsp, root, handoff, retired, freeStacks, len,
                   clock, gen, scan, todo>>

SwitchTo(c) ==
    /\ status' = [t \in Tasks |->
                     IF t = next[c] THEN "Running"
                     ELSE IF Preempts(c) /\ t = cur[c] THEN "SwitchingOut"
                     ELSE status[t]]
    /\ onCpu' = [onCpu EXCEPT ![next[c]] = TRUE]
    /\ affinity' = [affinity EXCEPT ![next[c]] = c]
    /\ ClearDeadline(next[c])
    /\ outgoing' = [outgoing EXCEPT ![c] = cur[c]]
    /\ encoded' = [encoded EXCEPT ![c] = Preempts(c)]
    /\ retiring' = [retiring EXCEPT ![c] = IF cur[c] = NONE THEN NULL
                                           ELSE RetiringStack(cur[c])]
    /\ cur' = [cur EXCEPT ![c] = next[c]]
    /\ next' = [next EXCEPT ![c] = NONE]
    /\ lock' = FREE
    /\ pc' = [pc EXCEPT ![c] = "prep"]
    /\ UNCHANGED <<pinned, bottom, waitingFor, observed, joining, saved,
                   idleSaved, rsp, root, queues, handoff, retired, freeStacks,
                   len, clock, gen, scan, todo>>

Switch(c) ==
    /\ pc[c] = "switch"
    /\ IF pinned[next[c]] \in {NONE, c} THEN SwitchTo(c) ELSE SwitchRefused(c)

----------------------------------------------------------------------------
(* The switch itself, without the lock.                                    *)

\* kaguya_prepare_switch loads the page table root of the incoming task.
PrepareSwitch(c) ==
    /\ pc[c] = "prep"
    /\ root' = [root EXCEPT ![c] = cur[c]]
    /\ pc' = [pc EXCEPT ![c] = "save"]
    /\ UNCHANGED <<taskVars, cur, next, outgoing, encoded, retiring,
                   idleSaved, rsp, sharedVars>>

\* The switch is over: its locals are gone.
Finish(c) ==
    /\ outgoing' = [outgoing EXCEPT ![c] = NONE]
    /\ encoded' = [encoded EXCEPT ![c] = FALSE]
    /\ retiring' = [retiring EXCEPT ![c] = NULL]
    /\ pc' = [pc EXCEPT ![c] = "run"]

GoOn(c, phase) ==
    /\ pc' = [pc EXCEPT ![c] = phase]
    /\ UNCHANGED <<outgoing, encoded, retiring>>

\* kaguya_context_switch stores the old stack pointer and loads the new one.
SwitchStack(c) ==
    /\ pc[c] = "save"
    /\ saved' = [t \in Tasks |-> IF t = cur[c] THEN FALSE
                                  ELSE saved[t] \/ t = outgoing[c]]
    /\ idleSaved' = [idleSaved EXCEPT ![c] = @ \/ outgoing[c] = NONE]
    /\ rsp' = [rsp EXCEPT ![c] = IF cur[c] = NONE THEN NULL
                                 ELSE bottom[cur[c]]]
    /\ IF outgoing[c] = NONE THEN Finish(c) ELSE GoOn(c, "release")
    /\ UNCHANGED <<status, onCpu, affinity, pinned, bottom, wakeTick,
                   waitingFor, observed, joining, cur, next, root, sharedVars>>

\* on_cpu is cleared: from here on the outgoing task may run elsewhere.
Release(c) ==
    /\ pc[c] = "release"
    /\ onCpu' = [onCpu EXCEPT ![outgoing[c]] = FALSE]
    /\ IF encoded[c] THEN GoOn(c, "handoff")
       ELSE IF retiring[c] # NULL THEN GoOn(c, "retire")
       ELSE Finish(c)
    /\ UNCHANGED <<status, affinity, pinned, bottom, wakeTick, waitingFor,
                   observed, joining, saved, cur, next, idleSaved, rsp, root,
                   sharedVars>>

PublishHandoff(c) ==
    /\ pc[c] = "handoff"
    /\ handoff' = [handoff EXCEPT ![c] = outgoing[c]]
    /\ Finish(c)
    /\ UNCHANGED <<taskVars, cur, next, idleSaved, rsp, root, lock, queues,
                   retired, freeStacks, len, clock, gen, scan, todo>>

\* The first empty slot of RETIRED takes the stack; a full array loses it.
PublishRetired(c) ==
    /\ pc[c] = "retire"
    /\ retired' = IF Cardinality(retired) < RetiredSlots
                  THEN retired \cup {retiring[c]} ELSE retired
    /\ Finish(c)
    /\ UNCHANGED <<taskVars, cur, next, idleSaved, rsp, root, lock, queues,
                   handoff, freeStacks, len, clock, gen, scan, todo>>

----------------------------------------------------------------------------
Critical(c) ==
    \/ MaintainWake(c) \/ MaintainReap(c) \/ MaintainWakeWaiter(c)
    \/ MaintainSkip(c) \/ MaintainDone(c)
    \/ Drain(c) \/ ClaimLocal(c) \/ Steal(c)
    \/ PickReturn(c) \/ PickIdle(c) \/ Switch(c)

SwitchSteps(c) ==
    \/ PrepareSwitch(c) \/ SwitchStack(c) \/ Release(c)
    \/ PublishHandoff(c) \/ PublishRetired(c)

Call(c) ==
    \/ AddUser(c) \/ Exit(c) \/ Collect(c) \/ WaitTaskReturn(c)
    \/ \E u \in Tasks : WaitTask(c, u)
    \/ \E k \in Keys, d \in {0} \cup Deadlines : WaitEvent(c, k, d)
    \/ \E d \in Deadlines : Sleep(c, d)

Next ==
    \/ \E c \in Cpus : \/ CallSchedule(c) \/ ScheduleEnter(c)
                       \/ Critical(c) \/ SwitchSteps(c) \/ Call(c)
    \/ \E k \in Keys : WakeEvent(k) \/ ForgetEvent(k)
    \/ WakeEventTask
    \/ Tick

Spec == Init /\ [][Next]_vars

(***************************************************************************)
(* A CPU never stops inside a critical section or a switch.  The timer     *)
(* interrupt stays pending over a system call and is taken on the return   *)
(* to user code, and the idle loop turns, so schedule() is called again    *)
(* and again whatever else the task calls (strong fairness); the clock     *)
(* ticks.  The spinlock is not fair, but it is free again after every      *)
(* critical section and the hardware arbitrates the compare-and-swap,      *)
(* which is strong fairness of taking it.                                  *)
(***************************************************************************)
Fairness ==
    /\ \A c \in Cpus : /\ WF_vars(Critical(c))
                       /\ WF_vars(SwitchSteps(c))
                       /\ SF_vars(CallSchedule(c))
                       /\ SF_vars(ScheduleEnter(c))
                       /\ SF_vars(WaitTaskReturn(c))
    /\ WF_vars(WakeEventTask)
    /\ WF_vars(Tick)

FairSpec == Spec /\ Fairness

----------------------------------------------------------------------------
(* Properties.                                                             *)

TaskTypeOK ==
    /\ status \in [Tasks -> Statuses]
    /\ onCpu \in [Tasks -> BOOLEAN]
    /\ affinity \in [Tasks -> Cpus]
    /\ pinned \in [Tasks -> {NONE, 0}]
    /\ bottom \in [Tasks -> Stacks \cup {NULL}]
    /\ wakeTick \in [Tasks -> Nat]
    /\ waitingFor \in [Tasks -> {NONE} \cup Tasks \cup Keys]
    /\ observed \in [Tasks -> Nat]
    /\ joining \in [Tasks -> {NONE} \cup Tasks]
    /\ saved \in [Tasks -> BOOLEAN]

CpuTypeOK ==
    /\ pc \in [Cpus -> Phases]
    /\ cur \in [Cpus -> {NONE} \cup Tasks]
    /\ next \in [Cpus -> {NONE} \cup Tasks]
    /\ outgoing \in [Cpus -> {NONE} \cup Tasks]
    /\ encoded \in [Cpus -> BOOLEAN]
    /\ retiring \in [Cpus -> Stacks \cup {NULL}]
    /\ idleSaved \in [Cpus -> BOOLEAN]
    /\ rsp \in [Cpus -> Stacks \cup {NULL}]
    /\ root \in [Cpus -> {NONE} \cup Tasks]

SharedTypeOK ==
    /\ lock \in Cpus \cup {FREE, WAKER}
    /\ handoff \in [Cpus -> {NONE} \cup Tasks]
    /\ retired \subseteq Stacks
    /\ freeStacks \subseteq Stacks
    /\ len \in 0 .. MaxTasks
    /\ clock \in Nat
    /\ gen \in [Keys -> Nat]
    /\ scan \in 0 .. (MaxTasks + 1)
    /\ todo \subseteq Tasks

\* Every variable stays in its range.
TypeOK == TaskTypeOK /\ CpuTypeOK /\ SharedTypeOK

\* "A task cannot run elsewhere before its outgoing stack pointer is saved":
\* the context a CPU is about to load is the one the task stopped with.
ResumesSavedContext ==
    \A c \in Cpus : pc[c] \in {"prep", "save"} /\ cur[c] # NONE
                     => saved[cur[c]]

\* Two CPUs never execute on the same kernel stack.
ExclusiveStacks ==
    \A c, d \in Cpus : c # d /\ rsp[c] # NULL => rsp[c] # rsp[d]

\* A stack in use, or the stack of a task that can still run, is not back in
\* the heap: maintenance frees a zombie's stack only after its CPU left it.
StackInUseNotFreed ==
    /\ \A c \in Cpus : rsp[c] \notin freeStacks
    /\ \A t \in Tasks : bottom[t] \notin freeStacks

\* The page table root a CPU has loaded belongs to a task whose address
\* space reference has not been dropped.
LoadedRootAlive ==
    \A c \in Cpus : root[c] # NONE => bottom[root[c]] # NULL

\* A call into the scheduler returns only to a task that is Running: neither
\* an exited task ("exited task resumed") nor one still marked Waiting,
\* Sleeping or SwitchingOut executes outside the scheduler.
OnlyRunningReturns ==
    \A c \in Cpus : pc[c] = "run" /\ cur[c] # NONE
                     => status[cur[c]] = "Running"

\* Ready means queued: exactly the Ready tasks are in the run queues, each
\* in one queue and once, so none is lost and none can be claimed twice.
ReadyIffQueuedOnce ==
    /\ \A t \in Tasks :
         status[t] = "Ready" <=>
             \E c \in Cpus : \E p \in 1 .. Len(queues[c]) : queues[c][p] = t
    /\ \A c, d \in Cpus : \A p \in 1 .. Len(queues[c]), r \in 1 .. Len(queues[d]) :
         queues[c][p] = queues[d][r] => c = d /\ p = r

\* A pinned task is only ever queued on or run by its own CPU, so the branch
\* of schedule() that hands it back, and would strand the caller as
\* SwitchingOut, is never taken.
PinnedStaysHome ==
    \A t \in Tasks, c \in Cpus :
        pinned[t] # NONE /\ pinned[t] # c
        => /\ cur[c] # t /\ next[c] # t
           /\ \A p \in 1 .. Len(queues[c]) : queues[c][p] # t

\* A preempted task is always on its way back to a queue: some CPU is about
\* to publish its handoff, or has published it and not yet drained it.
SwitchingOutAccounted ==
    \A t \in Tasks :
        status[t] = "SwitchingOut" <=>
            \E c \in Cpus : \/ outgoing[c] = t /\ encoded[c]
                            \/ handoff[c] = t

\* "Waiters observe termination after the retired stack and address-space
\* reference are reclaimed": wait_task goes on only when its target is gone.
WaitTaskSeesReclaimed ==
    \A c \in Cpus : pc[c] = "run" /\ cur[c] # NONE /\ joining[cur[c]] # NONE
        => /\ status[joining[cur[c]]] = "Zombie"
           /\ bottom[joining[cur[c]]] = NULL

\* No wakeup is lost: a task blocked on a key went to sleep after the last
\* kaguya_wake_event on that key, or is about to be woken by it.
NoLostWakeup ==
    \A t \in Tasks, k \in Keys :
        status[t] = "Waiting" /\ waitingFor[t] = k
        => observed[t] = gen[k] \/ (lock = WAKER /\ t \in todo)

\* A running task has no pending timeout, so a later wait_task or
\* kaguya_wait_event cannot be cut short by the deadline of an earlier one.
NoStaleDeadline ==
    \A c \in Cpus : pc[c] = "run" /\ cur[c] # NONE => wakeTick[cur[c]] = 0

\* No task is lost, run twice or run where it must not be: queued exactly
\* when Ready, carried while it is switched out, at home when pinned.
TasksAccounted == ReadyIffQueuedOnce /\ SwitchingOutAccounted /\ PinnedStaysHome

\* Whoever goes on after a call into the scheduler is right to: it is Running,
\* the task it waited for is gone, and no old deadline is left behind.
ReturnsRight == OnlyRunningReturns /\ WaitTaskSeesReclaimed /\ NoStaleDeadline

\* Exit is final: a zombie never becomes anything else, and its stack is
\* freed at most once.
ZombieIsFinal ==
    [][\A t \in Tasks :
         status[t] = "Zombie" =>
             /\ status'[t] = "Zombie"
             /\ bottom[t] = NULL => bottom'[t] = NULL]_vars

\* A runnable task runs: woken, new or preempted, it is not left in a queue
\* or between a switch and its handoff.
RunnableRuns ==
    \A t \in Tasks : status[t] \in {"Ready", "SwitchingOut"}
                     ~> status[t] = "Running"

\* Every timed sleep ends.
SleepEnds == \A t \in Tasks : status[t] = "Sleeping" ~> status[t] = "Running"

\* The stack of an exited task is reclaimed, as long as RETIRED has room.
ExitReclaimed == \A t \in Tasks : status[t] = "Zombie" ~> bottom[t] = NULL

\* wait_task on a task that exits returns.
WaitTaskReturns ==
    \A t \in Tasks : (\E u \in Tasks : joining[t] = u /\ status[u] = "Zombie")
                     ~> joining[t] = NONE

\* Nobody waits for ever: runnable tasks run, sleeps and wait_task end, and
\* exited tasks are reclaimed.
TasksGoOn == RunnableRuns /\ SleepEnds /\ ExitReclaimed /\ WaitTaskReturns
============================================================================
