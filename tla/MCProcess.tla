----------------------------- MODULE MCProcess -----------------------------
(* Instances of the Rust scheduler for TLC, chosen by MCInit: two CPUs and  *)
(* three tasks that wait for events, or for each other; two tasks and all   *)
(* blocking calls, with the clock running; four tasks that only preempt     *)
(* each other; and one CPU, which has its own copy of the variables.        *)
EXTENDS Process

VARIABLES
    part,
    task1, len1, queue1, cur1, pc1, plan1, ticksLeft1, idleSaved1, on1, root1, open1,
    handoff1, retired1, clock1, gen1

smp == <<task, len, queue, cur, pc, plan, ticksLeft, idleSaved, on, root, open,
         handoff, retired, clock, gen>>
one == <<task1, len1, queue1, cur1, pc1, plan1, ticksLeft1, idleSaved1, on1, root1, open1,
         handoff1, retired1, clock1, gen1>>

Joining == INSTANCE Process WITH Blocking <- {"wait_task"}
Timed == INSTANCE Process WITH Blocking <- {"sleep", "event", "deadline", "wait_task"},
                               MaxTick <- 2
Preempting == INSTANCE Process WITH Keys <- {}, Blocking <- {}
One == INSTANCE Process WITH
    NumCpus <- 1, MaxTasks <- 3, Blocking <- {"sleep", "event", "wait_task"}, MaxTick <- 1,
    task <- task1, len <- len1, queue <- queue1, cur <- cur1, pc <- pc1, plan <- plan1,
    ticksLeft <- ticksLeft1, idleSaved <- idleSaved1, on <- on1, root <- root1, open <- open1,
    handoff <- handoff1, retired <- retired1, clock <- clock1, gen <- gen1

MCInit ==
    /\ part \in {"waiting", "joining", "timed", "preempting", "one"}
    /\ IF part = "preempting" THEN Preempting!Init ELSE Init
    /\ One!Init

MCNext ==
    /\ UNCHANGED part
    /\ \/ part = "waiting" /\ Next /\ len' <= 3 /\ UNCHANGED one
       \/ part = "joining" /\ Joining!Next /\ len' <= 3 /\ UNCHANGED one
       \/ part = "timed" /\ Timed!Next /\ len' <= 2 /\ UNCHANGED one
       \/ part = "preempting" /\ Preempting!Next /\ UNCHANGED one
       \/ part = "one" /\ One!Next /\ UNCHANGED smp

MCSpec == MCInit /\ [][MCNext]_<<part, smp, one>>

\* On two CPUs as long as no task blocks, and on one CPU without timed waits for
\* events, a CPU only ever loads a stack pointer that context_switch saved when
\* the task last stopped.  Everywhere, up to a load that is not, a task is
\* queued exactly once when it is Ready and not at all otherwise, one that is
\* SwitchingOut is carried by some CPU (switch_task, finish_switched_out_task),
\* a call returns to a task only in status Running, wait_task only once its
\* target has exited, and init stays on CPU 0.  ProcessInv and PreemptInv are
\* the invariants ProcessProofs shows to be inductive.
ResumesWhereStopped ==
    IF part = "one"
    THEN /\ One!TypeOK /\ One!ResumesSavedContext /\ One!ReadyIffQueuedOnce
         /\ One!SwitchingOutAccounted /\ One!OnlyRunningReturns /\ One!WaitTaskSeesExit
         /\ One!PinnedStaysHome /\ One!ProcessInv
    ELSE /\ ReadyIffQueuedOnce /\ SwitchingOutAccounted
         /\ OnlyRunningReturns /\ WaitTaskSeesExit /\ PinnedStaysHome
         /\ IF part = "preempting"
            THEN Preempting!TypeOK /\ ResumesSavedContext /\ Preempting!ProcessInv /\ PreemptInv
            ELSE ProcessInv
=============================================================================
