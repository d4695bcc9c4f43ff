------------------------------ MODULE Process ------------------------------
(***************************************************************************)
(* The scheduler of the Rust kernel, process/mod.rs, with the timer        *)
(* interrupts that drive it (interrupts.rs).                               *)
(*                                                                         *)
(* Every change of scheduler metadata is one critical section of           *)
(* SCHEDULER_LOCK and one step here.  What the code does with the lock     *)
(* released is a step of its own: loading CR3, saving the outgoing RSP and *)
(* entering the incoming stack, publishing the handoff or the retired      *)
(* stack.  System calls and interrupt handlers start with interrupts off.  *)
(* context_switch keeps no flags, though: a call that is resumed from an   *)
(* idle loop goes on with interrupts on (`open').                          *)
(*                                                                         *)
(* `saved', `seen' and `join' are not fields of Task: whether stack_top is *)
(* where the task stopped, the event and the generation of it that the     *)
(* call it is inside has read, and the task it is inside wait_task for.    *)
(* `on' is the stack a CPU executes on.  A CPU that loads a stack pointer  *)
(* that was not saved is "lost": the model stops there, since nothing can  *)
(* be said of what it executes.                                            *)
(***************************************************************************)
EXTENDS Integers, Sequences, FiniteSets, FiniteSetsExt

CONSTANTS
    NumCpus,        \* online CPUs, the boot processor being 0
    MaxTasks,       \* bound on task slots (the code never removes one)
    Keys,           \* event wait keys
    Blocking,       \* the blocking calls tasks make
    RetiredSlots,   \* RETIRED_STACK_SLOTS
    Slice,          \* DEFAULT_TIME_SLICE_TICKS
    MaxTick,        \* bound on the clock
    MaxGen          \* bound on an event's generation

ASSUME NumCpusAssumption == NumCpus \in Nat \ {0}
ASSUME MaxTasksAssumption == MaxTasks \in Nat
ASSUME BlockingAssumption ==
    Blocking \subseteq {"sleep", "event", "deadline", "wait_task"}

NoTask == 0
Cpus == 0 .. (NumCpus - 1)
Tasks == 1 .. MaxTasks

ASSUME KeysAssumption == Keys \cap (Tasks \cup {NoTask}) = {}

VARIABLES
    task,       \* [Tasks -> Task]
    len,        \* task slots in use
    queue,      \* [Cpus -> run queue]
    cur,        \* [Cpus -> current_task_index, mirrored in CPU_CURRENT_TASK]
    pc,         \* [Cpus -> where the CPU is]
    plan,       \* [Cpus -> SwitchPlan]
    ticksLeft,  \* [Cpus -> scheduler_ticks_left]
    idleSaved,  \* [Cpus -> idle_stack # 0]
    on, root,   \* [Cpus -> stack in use], [Cpus -> address space in CR3]
    open,       \* [Cpus -> interrupts are on inside the current call]
    handoff,    \* CPU_SWITCHED_OUT
    retired,    \* RETIRED_STACKS
    clock, gen  \* SCHEDULER_TICKS, event_generations

cpuVars == <<cur, pc, plan, ticksLeft, idleSaved, on, root, open>>
vars == <<task, len, queue, cpuVars, handoff, retired, clock, gen>>

SwitchPlan(from, out, retires) == [from |-> from, out |-> out, retires |-> retires]
NoPlan == SwitchPlan(NoTask, NoTask, NoTask)
Absent == [status |-> "Absent", home |-> 0, pin |-> -1, wake |-> 0,
           wf |-> NoTask, stack |-> FALSE, space |-> NoTask, saved |-> FALSE,
           seen |-> <<>>, join |-> NoTask]

----------------------------------------------------------------------------
(* init, and the scheduler loops of the BSP and of the APs: every CPU is   *)
(* idle.  Slot 0, the boot task, is a zombie without a stack and is left   *)
(* out.                                                                    *)
Init ==
    /\ task = [t \in Tasks |-> Absent]
    /\ len = 0
    /\ queue = [c \in Cpus |-> <<>>]
    /\ cur = [c \in Cpus |-> NoTask]
    /\ pc = [c \in Cpus |-> "run"]
    /\ plan = [c \in Cpus |-> NoPlan]
    /\ ticksLeft = [c \in Cpus |-> 0]
    /\ idleSaved = [c \in Cpus |-> FALSE]
    /\ on = [c \in Cpus |-> NoTask]
    /\ root = [c \in Cpus |-> NoTask]
    /\ open = [c \in Cpus |-> FALSE]
    /\ handoff = [c \in Cpus |-> NoTask]
    /\ retired = {}
    /\ clock = 0
    /\ gen = [k \in Keys |-> 0]

Idle(c) == pc[c] = "run" /\ cur[c] = NoTask
\* CPU c executes its current task, not inside a call.
InCall(r) == r.join # NoTask \/ r.seen # <<>>
InUser(c) == pc[c] = "run" /\ cur[c] # NoTask /\ ~InCall(task[cur[c]])
\* An interrupt can arrive: user mode, the idle loop, a call that one has
\* resumed, and the switch from the idle loop to a task.
IrqOpen(c) ==
    \/ InUser(c) \/ Idle(c) \/ open[c]
    \/ pc[c] \in {"load", "switch", "publish"} /\ plan[c].from = NoTask

Published(t) == \E c \in Cpus : cur[c] = t
Goto(c, p) == pc' = [pc EXCEPT ![c] = p]
Update(t, r) == task' = [task EXCEPT ![t] = r]

----------------------------------------------------------------------------
(* add_new_user_task.                                                      *)

\* select_target_cpu.
TargetCpu ==
    LET Free == {c \in Cpus \ {0} : cur[c] = NoTask /\ queue[c] = <<>>}
    IN  IF Free = {} THEN 0 ELSE Min(Free)

\* exec gives the task a new address space, add_task its creator's.  The
\* first task is init, which the boot code adds and which is pinned to 0.
AddTask(c, shares) ==
    /\ len < MaxTasks
    /\ IF len = 0 THEN c = 0 /\ Idle(c) /\ ~shares ELSE InUser(c)
    /\ LET id == len + 1
           target == IF id = 1 THEN 0 ELSE TargetCpu
       IN  /\ len' = id
           /\ Update(id, [Absent EXCEPT !.status = "Ready", !.home = target,
                          !.pin = IF id = 1 THEN 0 ELSE -1, !.stack = TRUE,
                          !.space = IF shares THEN task[cur[c]].space ELSE id,
                          !.saved = TRUE])
           /\ queue' = [queue EXCEPT ![target] = Append(@, id)]
    /\ UNCHANGED <<cpuVars, handoff, retired, clock, gen>>

----------------------------------------------------------------------------
(* The timers: irq_handler for the PIT and lapic_timer_handler.            *)

\* scheduler_tick and reschedule_if_needed: a user task's quantum.
Charge(c) ==
    LET left == IF ticksLeft[c] > 0 THEN ticksLeft[c] - 1 ELSE 0
    IN  /\ ticksLeft' = [ticksLeft EXCEPT ![c] = left]
        /\ IF left = 0 THEN Goto(c, "sched") ELSE UNCHANGED pc

\* The PIT advances the global clock, wherever CPU 0 was interrupted.
Pit ==
    /\ IrqOpen(0)
    /\ clock' = IF clock < MaxTick THEN clock + 1 ELSE clock
    /\ IF InUser(0) THEN Charge(0) ELSE UNCHANGED <<ticksLeft, pc>>
    /\ UNCHANGED <<task, len, queue, cur, plan, idleSaved, on, root, open,
                   handoff, retired, gen>>

LapicTimer(c) ==
    /\ c # 0 /\ InUser(c) /\ Charge(c)
    /\ UNCHANGED <<task, len, queue, cur, plan, idleSaved, on, root, open,
                   handoff, retired, clock, gen>>

\* sys_switch_task, and a turn of the scheduler loop of main.rs or
\* run_ap_scheduler.
Yield(c) ==
    /\ InUser(c) \/ Idle(c)
    /\ Goto(c, "sched")
    /\ UNCHANGED <<task, len, queue, cur, plan, ticksLeft, idleSaved, on, root,
                   open, handoff, retired, clock, gen>>

----------------------------------------------------------------------------
(* Calls that block.  Each sets the status under the lock, releases it and *)
(* calls switch_task, which takes it again.                                *)

\* The deadline is computed before the lock is taken.  The clock can tick in
\* between unless this is CPU 0 with interrupts off.
DeadlineFrom(c) ==
    IF c = 0 /\ ~open[c] THEN {clock} ELSE {clock - 1, clock} \cap Nat
\* The call returns to user mode.
Leave(c) == open' = [open EXCEPT ![c] = FALSE]

Block(c, r) ==
    /\ Update(cur[c], r)
    /\ Goto(c, "sched")
    /\ UNCHANGED <<len, queue, cur, plan, ticksLeft, idleSaved, on, root,
                   open, handoff, retired, clock, gen>>

SleepCurrent(c) ==
    /\ "sleep" \in Blocking /\ InUser(c)
    /\ \E now \in DeadlineFrom(c) :
         /\ now < MaxTick
         /\ Block(c, [task[cur[c]] EXCEPT !.status = "Sleeping", !.wake = now + 1])

WaitTask(c, u) ==
    /\ "wait_task" \in Blocking /\ InUser(c)
    /\ u \in 1 .. len /\ u # cur[c] /\ task[u].status # "Zombie"
    /\ Block(c, [task[cur[c]] EXCEPT !.status = "Waiting", !.wf = u, !.join = u])

\* The end of wait_task, after switch_task has returned.
WaitTaskReturn(c) ==
    /\ pc[c] = "run" /\ cur[c] # NoTask /\ task[cur[c]].join # NoTask
    /\ Update(cur[c], [task[cur[c]] EXCEPT !.join = NoTask]) /\ Leave(c)
    /\ UNCHANGED <<len, queue, cur, pc, plan, ticksLeft, idleSaved, on, root,
                   handoff, retired, clock, gen>>

\* event_generation: the caller reads it, then looks at what it waits for; a
\* caller that has waited in vain does so again.
EventGeneration(c, k) ==
    /\ "event" \in Blocking
    /\ pc[c] = "run" /\ cur[c] # NoTask /\ task[cur[c]].join = NoTask
    /\ Update(cur[c], [task[cur[c]] EXCEPT !.seen = <<k, gen[k]>>])
    /\ UNCHANGED <<len, queue, cpuVars, handoff, retired, clock, gen>>

\* The caller has what it wanted, or gives up.
EventFound(c) ==
    /\ pc[c] = "run" /\ cur[c] # NoTask /\ task[cur[c]].seen # <<>>
    /\ Update(cur[c], [task[cur[c]] EXCEPT !.seen = <<>>]) /\ Leave(c)
    /\ UNCHANGED <<len, queue, cur, pc, plan, ticksLeft, idleSaved, on, root,
                   handoff, retired, clock, gen>>

\* wait_current_until, with a deadline or with none (0).  It does nothing when
\* the generation has changed.
IsCurrentAlways(k, g) == TRUE
IsCurrentGeneration(k, g) == gen[k] = g

WaitCurrentUntil(c, timed) ==
    /\ pc[c] = "run" /\ cur[c] # NoTask /\ task[cur[c]].seen # <<>>
    /\ timed => "deadline" \in Blocking
    /\ \E now \in IF timed THEN DeadlineFrom(c) ELSE {-1} :
         LET t == cur[c]
             k == task[t].seen[1]
         IN  /\ now < MaxTick /\ IsCurrentGeneration(k, task[t].seen[2])
             /\ Block(c, [task[t] EXCEPT !.status = "Waiting", !.wf = k,
                                         !.wake = now + 1])

----------------------------------------------------------------------------
(* Wakeups.  s is [task, queue]; the sweeps go over the slots in order.    *)

InOrder(S) ==
    [i \in 1 .. Cardinality(S) |-> CHOOSE t \in S : Cardinality({u \in S : u < t}) = i - 1]

\* The tasks of W become r(t) and are queued at home(t).
QueueAll(s, W, r(_), home(_)) ==
    [task |-> [t \in Tasks |-> IF t \in W THEN r(t) ELSE s.task[t]],
     queue |-> [c \in Cpus |-> s.queue[c] \o InOrder({t \in W : home(t) = c})]]

Woken(r, status) == [r EXCEPT !.status = status, !.wf = NoTask, !.wake = 0]

WaitersOf(tasks, w) ==
    {t \in Tasks : tasks[t].status = "Waiting" /\ tasks[t].wf = w}

\* wake_waiters: a waiter that has not left its CPU simply goes on.
StillCurrent(t) == Published(t)

WakeWaiters(c, k) ==
    /\ IrqOpen(c) /\ len > 0 /\ gen[k] < MaxGen
    /\ gen' = [gen EXCEPT ![k] = @ + 1]
    /\ LET W == WaitersOf(task, k)
           going == [t \in Tasks |-> IF t \in W THEN Woken(task[t], "Running")
                                     ELSE task[t]]
           Ready(t) == Woken(task[t], "Ready")
           Home(t) == task[t].home
           s == QueueAll([task |-> going, queue |-> queue],
                         {t \in W : ~StillCurrent(t)}, Ready, Home)
       IN  task' = s.task /\ queue' = s.queue
    /\ UNCHANGED <<len, cpuVars, handoff, retired, clock>>

\* forget_wait_key, when the last owner of the key's object is dropped:
\* nobody waits on it or is about to.
ForgetWaitKey(c, k) ==
    /\ InUser(c) /\ gen[k] # 0
    /\ \A t \in Tasks : task[t].wf # k /\ task[t].seen \notin {k} \X (0 .. MaxGen)
    /\ gen' = [gen EXCEPT ![k] = 0]
    /\ UNCHANGED <<task, len, queue, cpuVars, handoff, retired, clock>>

\* terminate_task, after the files are closed.  It wakes the waiters of the
\* task whether or not they have left their CPU.
Dying(x) == [task EXCEPT ![x].status = "Zombie"]
Joined(r) == [r EXCEPT !.status = "Ready", !.wf = NoTask]

TerminateTask(c) ==
    /\ InUser(c)
    /\ LET Ready(t) == Joined(task[t])
           Home(t) == task[t].home
           s == QueueAll([task |-> Dying(cur[c]), queue |-> queue],
                         WaitersOf(Dying(cur[c]), cur[c]), Ready, Home)
       IN  task' = s.task /\ queue' = s.queue
    /\ Goto(c, "sched")
    /\ UNCHANGED <<len, cur, plan, ticksLeft, idleSaved, on, root, open,
                   handoff, retired, clock, gen>>

----------------------------------------------------------------------------
(* switch_task.  s is [task, queue] as the critical section has left them  *)
(* so far.                                                                 *)

Expired(r) ==
    /\ r.status = "Sleeping" \/ (r.status = "Waiting" /\ r.wake # 0)
    /\ r.wake <= clock

ReapableUnacknowledged(t) ==
    task[t].status = "Zombie" /\ task[t].stack /\ ~Published(t)
Reapable(t) ==
    /\ task[t].status = "Zombie" /\ task[t].stack
    /\ ~Published(t) /\ t \in retired

\* wake_sleeping_tasks_locked and reap_zombies are CPU 0's: the tasks it
\* wakes, and the zombies whose stack and address space it releases.
Sleepers(c) == {t \in Tasks : c = 0 /\ Expired(task[t])}
Reaped(c) == {t \in Tasks : c = 0 /\ Reapable(t)}
WakeHome(r) == IF r.pin # -1 THEN r.pin ELSE r.home

\* finish_switched_out_task: the RSP of the preempted task is saved now.
SwitchedOut(c) ==
    {t \in Tasks : handoff[c] = t /\ task[t].status = "SwitchingOut"}

\* The tables when the CPU looks for work.
Maintained(c) ==
    [task |-> [t \in Tasks |->
        IF t \in Sleepers(c) THEN Woken(task[t], "Ready")
        ELSE IF t \in Reaped(c)
        THEN [task[t] EXCEPT !.stack = FALSE, !.space = NoTask]
        ELSE IF t \in SwitchedOut(c)
        THEN [task[t] EXCEPT !.status = "Ready", !.home = c]
        ELSE task[t]],
     queue |-> [d \in Cpus |->
        queue[d] \o InOrder({t \in Sleepers(c) : WakeHome(task[t]) = d})
                 \o (IF d = c THEN InOrder(SwitchedOut(c)) ELSE <<>>)]]

\* claim_local_ready_task takes the first Ready entry and drops those before
\* it.  A task is Claimed only inside the critical section, so the status
\* never shows.
LocalAt(c) ==
    LET q == Maintained(c).queue[c]
        At == {i \in DOMAIN q : Maintained(c).task[q[i]].status = "Ready"}
    IN  IF At = {} THEN 0 ELSE Min(At)

\* steal_and_claim_ready_task: the first longest queue of the other CPUs,
\* if it holds two entries, and of it the last Ready task that may move.
Stealable(r) == r.status = "Ready" /\ r.pin = -1
StealAt(c, v) ==
    LET q == Maintained(c).queue[v]
        At == {i \in DOMAIN q : Stealable(Maintained(c).task[q[i]])}
    IN  IF At = {} THEN 0 ELSE Max(At)
Victims(c) ==
    LET Length(d) == Len(Maintained(c).queue[d])
    IN  {v \in Cpus \ {c} :
            /\ LocalAt(c) = 0 /\ Length(v) > 1 /\ StealAt(c, v) > 0
            /\ \A d \in Cpus \ {c} : /\ Length(d) <= Length(v)
                                     /\ d < v => Length(d) < Length(v)}

\* The task the CPU goes to, NoTask if there is none.
NextTask(c) ==
    IF LocalAt(c) > 0 THEN Maintained(c).queue[c][LocalAt(c)]
    ELSE IF Victims(c) = {} THEN NoTask
    ELSE LET v == CHOOSE v \in Victims(c) : TRUE
         IN  Maintained(c).queue[v][StealAt(c, v)]

DropNothing(q, p) == q
DropThrough(q, p) == SubSeq(q, p + 1, Len(q))
DropAt(q, p) == SubSeq(q, 1, p - 1) \o SubSeq(q, p + 1, Len(q))
QueuesAfter(c) ==
    [d \in Cpus |->
        LET q == Maintained(c).queue[d]
        IN  IF d = c THEN DropThrough(q, IF LocalAt(c) = 0 THEN Len(q) ELSE LocalAt(c))
            ELSE IF d \in Victims(c) THEN DropAt(q, StealAt(c, d))
            ELSE q]

RetiringZombie(t, r) == IF r.status = "Zombie" THEN t ELSE NoTask

MustLeave(r) == r.status \in {"Zombie", "Sleeping", "Waiting"}

\* No work: a task that cannot go on leaves for the idle context, any other
\* goes on.
GoIdle(c) ==
    LET t == cur[c]
        r == Maintained(c).task[t]
    IN  /\ task' = Maintained(c).task
        /\ IF /\ t # NoTask /\ idleSaved[c]
              /\ MustLeave(r)
           THEN /\ cur' = [cur EXCEPT ![c] = NoTask]
                /\ plan' = [plan EXCEPT ![c] =
                        SwitchPlan(t, NoTask, RetiringZombie(t, r))]
                /\ ticksLeft' = [ticksLeft EXCEPT ![c] = 0]
                /\ Goto(c, "load")
           ELSE Goto(c, "run") /\ UNCHANGED <<cur, plan, ticksLeft>>

\* The incoming task becomes Running and current, a preempted one is
\* SwitchingOut until its RSP is saved.  stack_top is read here.
Preempted(r) == IF r.status = "Running" THEN [r EXCEPT !.status = "SwitchingOut"] ELSE r
HandoffOf(t, r) == IF r.status = "Running" THEN t ELSE NoTask
Incoming(r, c) ==
    [r EXCEPT !.wake = 0, !.status = "Running", !.home = c, !.saved = FALSE]
SwitchTo(c, n) ==
    LET t == cur[c]
        r == Maintained(c).task[t]
    IN  /\ task' = [u \in Tasks |->
                LET was == Maintained(c).task[u]
                IN  IF u = n THEN Incoming(was, c)
                    ELSE IF u = t THEN Preempted(was) ELSE was]
        /\ cur' = [cur EXCEPT ![c] = n]
        /\ ticksLeft' = [ticksLeft EXCEPT ![c] = Slice]
        /\ plan' = [plan EXCEPT ![c] =
                IF t = NoTask THEN NoPlan
                ELSE SwitchPlan(t, HandoffOf(t, r), RetiringZombie(t, r))]
        /\ Goto(c, IF Maintained(c).task[n].saved THEN "load" ELSE "lost")

SwitchTask(c) ==
    /\ pc[c] = "sched"
    /\ queue' = QueuesAfter(c) /\ retired' = retired \ Reaped(c)
    /\ handoff' = [handoff EXCEPT ![c] = NoTask]
    /\ \E n \in {NextTask(c)} : IF n = NoTask THEN GoIdle(c) ELSE SwitchTo(c, n)
    /\ UNCHANGED <<len, idleSaved, on, root, open, clock, gen>>

----------------------------------------------------------------------------
(* After the lock: CR3, then context_switch.                               *)

LoadRoot(c) ==
    /\ pc[c] = "load"
    /\ root' = [root EXCEPT ![c] =
            IF cur[c] = NoTask THEN NoTask ELSE task[cur[c]].space]
    /\ Goto(c, "switch")
    /\ UNCHANGED <<task, len, queue, cur, plan, ticksLeft, idleSaved, on, open,
                   handoff, retired, clock, gen>>

\* mov [rdi], rsp; mov rsp, rsi.  The incoming context keeps the flags of
\* the outgoing one.
SwitchStack(c) ==
    /\ pc[c] = "switch"
    /\ IF plan[c].from = NoTask
       THEN idleSaved' = [idleSaved EXCEPT ![c] = TRUE] /\ UNCHANGED task
       ELSE /\ task' = [task EXCEPT ![plan[c].from].saved = TRUE]
            /\ UNCHANGED idleSaved
    /\ on' = [on EXCEPT ![c] = cur[c]]
    /\ open' = [open EXCEPT ![c] =
            /\ cur[c] # NoTask /\ InCall(task[cur[c]])
            /\ plan[c].from = NoTask \/ open[c]]
    /\ Goto(c, "publish")
    /\ UNCHANGED <<len, queue, cur, plan, ticksLeft, root, handoff, retired,
                   clock, gen>>

\* The handoff of a preempted task, or the retirement of a zombie's stack
\* if a slot is free, and the return on the incoming stack.
Publish(c) ==
    /\ pc[c] = "publish"
    /\ handoff' = IF plan[c].out = NoTask THEN handoff
                  ELSE [handoff EXCEPT ![c] = plan[c].out]
    /\ retired' = IF plan[c].retires # NoTask /\ Cardinality(retired) < RetiredSlots
                  THEN retired \cup {plan[c].retires} ELSE retired
    /\ plan' = [plan EXCEPT ![c] = NoPlan]
    /\ Goto(c, "run")
    /\ UNCHANGED <<task, len, queue, cur, ticksLeft, idleSaved, on, root, open,
                   clock, gen>>

Step(c) ==
    SwitchTask(c) \/ LoadRoot(c) \/ SwitchStack(c) \/ Publish(c)
    \/ WaitTaskReturn(c) \/ EventFound(c)
    \/ \E timed \in BOOLEAN : WaitCurrentUntil(c, timed)

Next ==
    /\ \A c \in Cpus : pc[c] # "lost"
    /\ \/ Pit
       \/ \E c \in Cpus :
            \/ Step(c) \/ Yield(c) \/ LapicTimer(c)
            \/ \E shares \in BOOLEAN : AddTask(c, shares)
            \/ SleepCurrent(c) \/ TerminateTask(c)
            \/ \E u \in Tasks : WaitTask(c, u)
            \/ \E k \in Keys : \/ EventGeneration(c, k)
                               \/ WakeWaiters(c, k) \/ ForgetWaitKey(c, k)

Spec == Init /\ [][Next]_vars

----------------------------------------------------------------------------
(* Properties.                                                             *)

Statuses == {"Absent", "Ready", "SwitchingOut", "Running",
             "Sleeping", "Waiting", "Zombie"}

\* The kind of every variable.
TypeOK ==
    /\ \A t \in Tasks :
         /\ task[t].status \in Statuses
         /\ task[t].home \in Cpus /\ task[t].pin \in Cpus \cup {-1}
         /\ task[t].wake \in 0 .. MaxTick
         /\ task[t].wf \in Tasks \cup Keys \cup {NoTask}
         /\ task[t].stack \in BOOLEAN /\ task[t].saved \in BOOLEAN
         /\ task[t].space \in Tasks \cup {NoTask}
         /\ task[t].join \in Tasks \cup {NoTask}
    /\ queue \in [Cpus -> Seq(Tasks)]
    /\ cur \in [Cpus -> Tasks \cup {NoTask}]
    /\ pc \in [Cpus -> {"run", "sched", "load", "switch", "publish", "lost"}]
    /\ ticksLeft \in [Cpus -> 0 .. Slice]
    /\ handoff \in [Cpus -> Tasks \cup {NoTask}]
    /\ retired \subseteq Tasks /\ Cardinality(retired) <= RetiredSlots

\* A CPU only ever loads a stack pointer that context_switch saved when the
\* task last stopped (the comments on SwitchingOut and on
\* finish_switched_out_task).
ResumesSavedContext == \A c \in Cpus : pc[c] # "lost"

\* reap_zombies never frees the kernel stack a CPU executes on or is about
\* to enter.
StackInUseNotFreed ==
    \A c \in Cpus : \A t \in {on[c], cur[c]} \ {NoTask} : task[t].stack

\* CR3 always holds the page tables of an address space some task still
\* refers to ("no CPU still uses a released page table", reap_zombies).
LoadedRootAlive ==
    \A c \in Cpus : root[c] # NoTask => \E t \in Tasks : task[t].space = root[c]

\* A task is in the run queues once when it is Ready and not at all
\* otherwise: none is lost or run twice (push_back and pop_front in every
\* path of switch_task and of the wakeups).
Entries(t) ==
    LET At(c) == Cardinality({i \in DOMAIN queue[c] : queue[c][i] = t})
    IN  MapThenSumSet(At, Cpus)
ReadyIffQueuedOnce ==
    \A t \in Tasks : Entries(t) = IF task[t].status = "Ready" THEN 1 ELSE 0

\* switch_task returns to a task only in status Running: a blocked, queued
\* or dead task never goes on executing.
OnlyRunningReturns ==
    \A c \in Cpus : pc[c] = "run" /\ cur[c] # NoTask
                    => task[cur[c]].status = "Running"

\* A preempted task is never forgotten: while it is SwitchingOut some CPU
\* carries it, in its plan or in its handoff slot.
SwitchingOutAccounted ==
    \A t \in Tasks : task[t].status = "SwitchingOut" =>
        \E c \in Cpus : plan[c].out = t \/ handoff[c] = t

\* wait_task returns only once its target has exited, so the exit code it
\* reads is the final one.
WaitTaskSeesExit ==
    \A c \in Cpus : \A t \in {cur[c]} \ {NoTask} :
        pc[c] = "run" /\ task[t].join # NoTask
            => task[task[t].join].status = "Zombie"

\* A task waits on an event only while nothing has happened to it since the
\* caller read its generation (wait_current_until, wake_waiters).
NoLostWakeup ==
    \A t \in Tasks : task[t].status = "Waiting" /\ task[t].wf \in Keys
                     => task[t].seen = <<task[t].wf, gen[task[t].wf]>>

\* init stays on CPU 0: it is queued there and nowhere else runs it.
PinnedStaysHome ==
    \A t \in Tasks : task[t].pin # -1 =>
        \A c \in Cpus \ {task[t].pin} : cur[c] # t /\ t \notin Range(queue[c])

----------------------------------------------------------------------------
(* The inductive invariant.  A task that a CPU uses, because it is current *)
(* there or because its stack is still to be left, is used by that CPU     *)
(* alone and its stack pointer is not saved; so as long as CPUs only load  *)
(* saved stack pointers no second CPU gets it.                             *)

TasksOrNone == Tasks \cup {NoTask}

Records ==
    [status : Statuses, home : Cpus, pin : Cpus \cup {-1}, wake : Nat,
     wf : Tasks \cup Keys \cup {NoTask}, stack : BOOLEAN, space : TasksOrNone,
     saved : BOOLEAN, seen : {<<>>} \cup (Keys \X Nat), join : TasksOrNone]

Plans == [from : TasksOrNone, out : TasksOrNone, retires : TasksOrNone]

Types ==
    /\ task \in [Tasks -> Records] /\ len \in 0 .. MaxTasks
    /\ queue \in [Cpus -> Seq(Tasks)]
    /\ cur \in [Cpus -> TasksOrNone] /\ on \in [Cpus -> TasksOrNone]
    /\ handoff \in [Cpus -> TasksOrNone] /\ root \in [Cpus -> TasksOrNone]
    /\ pc \in [Cpus -> {"run", "sched", "load", "switch", "publish", "lost"}]
    /\ plan \in [Cpus -> Plans] /\ idleSaved \in [Cpus -> BOOLEAN]
    /\ retired \subseteq Tasks /\ clock \in Nat /\ gen \in [Keys -> Nat]

\* The task whose stack a CPU is still to leave.
Leaving(c) == IF pc[c] \in {"load", "switch", "lost"} THEN plan[c].from ELSE NoTask
Using(c) == {cur[c], Leaving(c)} \ {NoTask}

\* What is true of a task wherever it is: slots are filled in order; only a
\* dead task loses its stack; init's home is where it is pinned; a running
\* task has no deadline; whoever waits for an event has seen its last
\* generation; whoever waits for a task waits without a deadline, until
\* the task is dead.
TaskInv(t) ==
    LET r == task[t]
    IN  /\ t > len => r.status = "Absent"
        /\ r.status \notin {"Absent", "Zombie"} => r.stack
        /\ r.pin \in {-1, r.home}
        /\ r.status = "Running" => r.wake = 0
        /\ r.status = "Waiting" /\ r.wf \in Keys => r.seen = <<r.wf, gen[r.wf]>>
        /\ r.join # NoTask =>
             /\ r.seen = <<>>
             /\ \/ task[r.join].status = "Zombie"
                \/ r.status = "Waiting" /\ r.wf = r.join /\ r.wake = 0

\* Task t is not pinned to another CPU.
MayBeAt(t, c) == task[t].status # "Absent" /\ task[t].pin \in {-1, c}

\* A CPU uses tasks that have a stack, executes on the one it is still to
\* leave or on its current one, and has the root of one of them loaded.
UseInv(c) == \A t \in Using(c) : task[t].stack /\ task[t].status # "Absent"
StackOf(c) == IF pc[c] \in {"load", "switch", "lost"} THEN plan[c].from ELSE cur[c]
RootOf(c) == IF pc[c] \in {"load", "lost"} THEN plan[c].from ELSE cur[c]
PlaceInv(c) ==
    /\ on[c] = StackOf(c)
    /\ root[c] = IF RootOf(c) = NoTask THEN NoTask ELSE task[RootOf(c)].space

\* The current task is Running except while the CPU is about to switch, and
\* a CPU that has left its idle loop has saved its context.
CurInv(c) ==
    cur[c] # NoTask =>
        /\ pc[c] \in {"load", "switch", "publish", "run"} => task[cur[c]].status = "Running"
        /\ pc[c] = "sched" => task[cur[c]].status # "SwitchingOut"
        /\ idleSaved[c] \/ (pc[c] \in {"load", "switch", "lost"} /\ plan[c].from = NoTask)

\* What a CPU is to retire is the dead task it leaves.
RetireInv(c) ==
    /\ pc[c] \in {"load", "switch"} => plan[c].retires \in {NoTask, plan[c].from}
    /\ pc[c] \in {"load", "switch", "publish"} /\ plan[c].retires # NoTask
         => task[plan[c].retires].status = "Zombie"

\* The tasks a CPU runs, has in its queue or is to queue are not pinned to
\* another.
PinInv(c) ==
    /\ cur[c] # NoTask => MayBeAt(cur[c], c)
    /\ \A i \in DOMAIN queue[c] : MayBeAt(queue[c][i], c)
    /\ handoff[c] # NoTask => MayBeAt(handoff[c], c)
    /\ pc[c] \in {"load", "switch", "publish"} /\ plan[c].out # NoTask
         => MayBeAt(plan[c].out, c)

\* The task of a retired stack is dead and no CPU uses it.
Gone(t) == task[t].status = "Zombie" /\ \A c \in Cpus : t \notin Using(c)
GoneInv ==
    /\ \A t \in retired : Gone(t)
    /\ \A c \in Cpus : pc[c] = "publish" /\ plan[c].retires # NoTask => Gone(plan[c].retires)

\* While no CPU is lost: a task in use has its stack pointer in a register, is
\* used by one CPU and once, belongs to that CPU, and is in its queue if it
\* has been woken before it left.
ExclusiveInv(c) ==
    /\ \A t \in Using(c) : ~task[t].saved /\ \A d \in Cpus \ {c} : t \notin Using(d)
    /\ cur[c] # NoTask =>
         /\ cur[c] # Leaving(c) /\ task[cur[c]].home = c
         /\ task[cur[c]].status = "Ready" => \E i \in DOMAIN queue[c] : queue[c][i] = cur[c]

ProcessInv ==
    /\ Types /\ \A t \in Tasks : TaskInv(t)
    /\ \A c \in Cpus : UseInv(c) /\ PlaceInv(c) /\ CurInv(c) /\ RetireInv(c) /\ PinInv(c)
    /\ GoneInv
    /\ ResumesSavedContext => \A c \in Cpus : ExclusiveInv(c)

\* Without calls that block, a preempted task is carried by one CPU, in its plan
\* or in its handoff slot, and a task is ready only once its stack pointer is
\* saved.
Carried(c) ==
    {handoff[c], IF pc[c] \in {"load", "switch", "publish"} THEN plan[c].out ELSE NoTask}
        \ {NoTask}
PreemptInv ==
    /\ \A t \in Tasks :
         /\ task[t].seen = <<>> /\ task[t].status \notin {"Sleeping", "Waiting"}
         /\ task[t].status = "Ready" => task[t].saved
         /\ task[t].status = "SwitchingOut" <=> \E c \in Cpus : t \in Carried(c)
    /\ \A c \in Cpus :
         /\ \A d \in Cpus \ {c} : Carried(c) \cap Carried(d) = {}
         /\ pc[c] \in {"load", "switch", "publish"} => handoff[c] = NoTask
         /\ pc[c] \in {"load", "switch"} => plan[c].out \in {NoTask, plan[c].from}
         /\ handoff[c] # NoTask => task[handoff[c]].saved
         /\ pc[c] = "publish" /\ plan[c].out # NoTask => task[plan[c].out].saved
=============================================================================
