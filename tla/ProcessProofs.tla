--------------------------- MODULE ProcessProofs ---------------------------
(***************************************************************************)
(* Proofs about the Rust scheduler, for any number of CPUs, task slots and *)
(* wait keys: up to the moment a CPU loads a stack pointer that was not    *)
(* saved, no stack or page table in use is released, no wakeup is lost,    *)
(* and calls return to the task and at the time they should.               *)
(***************************************************************************)
EXTENDS ProcessSteps

----------------------------------------------------------------------------
(* The critical section of switch_task.                                    *)

\* What becomes of task t when CPU c goes to task n: it is left alone, dead and
\* out of use, woken, ready after a preemption, preempted, or n itself.
Moved(c, n, t) ==
    LET r == task[t]
        w == task'[t]
    IN  /\ w \in Records /\ w.pin = r.pin /\ w.seen = r.seen /\ w.join = r.join
        /\ t # n => w.saved = r.saved
        /\ ~Gone(t) => w.stack = r.stack /\ w.space = r.space
        /\ \/ t # n /\ w = r
           \/ t # n /\ Gone(t) /\ w.status = "Zombie" /\ w.home = r.home
           \/ /\ t # n /\ t \in Sleepers(c) /\ r.status \in {"Sleeping", "Waiting"}
              /\ r.status = "Waiting" => r.wake # 0
              /\ w.status = "Ready" /\ w.home = r.home
           \/ /\ t # n /\ t \in SwitchedOut(c) /\ r.status = "SwitchingOut"
              /\ w.status = "Ready" /\ w.home = c /\ r.pin \in {-1, c}
           \/ /\ t # n /\ t = cur[c] /\ r.status = "Running"
              /\ w.status = "SwitchingOut" /\ w.home = r.home
           \/ /\ t = n /\ r.status \in {"Ready", "Sleeping", "Waiting", "SwitchingOut"}
              /\ r.status = "Waiting" => r.wake # 0
              /\ w.status = "Running" /\ w.wake = 0 /\ w.home = c /\ ~w.saved /\ r.pin \in {-1, c}

LEMMA TaskMoves ==
    ASSUME ProcessInv, NEW c \in Cpus, NEW n \in TasksOrNone, n = NextTask(c), NEW t \in Tasks,
           task'[t] = IF t = n THEN Incoming(Maintained(c).task[t], c)
                      ELSE IF t = cur[c] /\ n # NoTask THEN Preempted(Maintained(c).task[t])
                      ELSE Maintained(c).task[t]
    PROVE  Moved(c, n, t)
<1> DEFINE r == task[t]
           m == Maintained(c).task[t]
           w == task'[t]
<1>1. /\ r \in Records /\ m \in Records /\ m.pin = r.pin /\ m.saved = r.saved /\ m.seen = r.seen
      /\ m.join = r.join
  BY MaintainedTask DEF Maintains, ProcessInv, Types
<1>2. \/ m = r
      \/ Gone(t) /\ m.status = "Zombie" /\ m.home = r.home
      \/ /\ t \in Sleepers(c) /\ r.status \in {"Sleeping", "Waiting"} /\ m.status = "Ready"
         /\ r.status = "Waiting" => r.wake # 0
         /\ m.home = r.home /\ m.stack = r.stack /\ m.space = r.space
      \/ /\ t \in SwitchedOut(c) /\ r.status = "SwitchingOut" /\ m.status = "Ready"
         /\ m.home = c /\ r.pin \in {-1, c} /\ m.stack = r.stack /\ m.space = r.space
  BY MaintainedTask, Zenon DEF Maintains
<1>3. w = IF t = n THEN Incoming(m, c) ELSE IF t = cur[c] /\ n # NoTask THEN Preempted(m) ELSE m
  BY Zenon
<1>4. ASSUME t = n PROVE m.status = "Ready" /\ r.pin \in {-1, c}
  <2>1. t # NoTask
    BY DEF Tasks, NoTask
  <2>2. QED
    BY <1>4, <2>1, NextRight, Zenon
<1> HIDE DEF r, m, w
<1>5. CASE t = n
  <2>1. w = Incoming(m, c)
    BY Zenon, <1>3, <1>5
  <2>2. /\ w \in Records /\ w.pin = m.pin /\ w.seen = m.seen /\ w.join = m.join
        /\ w.stack = m.stack /\ w.space = m.space
        /\ w.status = "Running" /\ w.wake = 0 /\ w.home = c /\ ~w.saved
    BY <1>1, <2>1, Zenon DEF Incoming, Records, Statuses
  <2>3. /\ m.status = "Ready" /\ r.pin \in {-1, c}
        /\ r.status \in {"Ready", "Sleeping", "Waiting", "SwitchingOut"}
        /\ r.status = "Waiting" => r.wake # 0
        /\ m.stack = r.stack /\ m.space = r.space
    BY Zenon, <1>2, <1>4, <1>5
  <2>4. QED
    BY <1>1, <1>5, <2>2, <2>3, Zenon DEF Moved, r, w
<1>6. CASE t # n /\ t = cur[c] /\ n # NoTask /\ m.status = "Running"
  <2>1. m = r
    BY Zenon, <1>2, <1>6
  <2>2. w = [r EXCEPT !.status = "SwitchingOut"]
    BY Zenon, <1>3, <1>6, <2>1 DEF Preempted
  <2>3. /\ w \in Records /\ w.pin = r.pin /\ w.seen = r.seen /\ w.join = r.join /\ w.home = r.home
        /\ w.stack = r.stack /\ w.space = r.space /\ w.saved = r.saved /\ w.status = "SwitchingOut"
    BY Zenon, <1>1, <2>2 DEF Records, Statuses
  <2>4. QED
    BY <1>6, <2>1, <2>3, Zenon DEF Moved, r, w
<1>7. CASE t # n /\ ~(t = cur[c] /\ n # NoTask /\ m.status = "Running")
  <2>1. w = m
    BY Zenon, <1>3, <1>7 DEF Preempted
  <2>2. CASE m = r
    BY <1>1, <1>7, <2>1, <2>2, Zenon DEF Moved, r, w
  <2>3. CASE Gone(t) /\ m.status = "Zombie" /\ m.home = r.home
    BY <1>1, <1>7, <2>1, <2>3, Zenon DEF Moved, r, w
  <2>4. CASE /\ t \in Sleepers(c) /\ r.status \in {"Sleeping", "Waiting"} /\ m.status = "Ready"
             /\ r.status = "Waiting" => r.wake # 0
             /\ m.home = r.home /\ m.stack = r.stack /\ m.space = r.space
    BY <1>1, <1>7, <2>1, <2>4, Zenon DEF Moved, r, w
  <2>5. CASE /\ t \in SwitchedOut(c) /\ r.status = "SwitchingOut" /\ m.status = "Ready"
             /\ m.home = c /\ r.pin \in {-1, c} /\ m.stack = r.stack /\ m.space = r.space
    BY <1>1, <1>7, <2>1, <2>5, Zenon DEF Moved, r, w
  <2>6. QED
    BY Zenon, <1>2, <2>2, <2>3, <2>4, <2>5
<1>8. QED
  BY Zenon, <1>5, <1>6, <1>7

\* Dead tasks stay dead, and slots filled.
LEMMA MovedFacts ==
    ASSUME NEW c \in Cpus, NEW n \in TasksOrNone, NEW t \in Tasks, Moved(c, n, t)
    PROVE  /\ task[t].status = "Zombie" => task'[t].status = "Zombie" /\ t # n
           /\ task[t].status # "Absent" => task'[t].status # "Absent"
           /\ task[t].status = "Absent" => task'[t].status = "Absent"
           /\ task'[t].status = "Zombie" => task[t].status = "Zombie"
           /\ \A d \in Cpus : MayBeAt(t, d) => MayBeAt(t, d)'
<1>1. Gone(t) => task[t].status = "Zombie"
  BY Zenon DEF Gone
<1>2. /\ task[t].status = "Zombie" => task'[t].status = "Zombie" /\ t # n
      /\ task[t].status # "Absent" => task'[t].status # "Absent"
      /\ task[t].status = "Absent" => task'[t].status = "Absent"
      /\ task'[t].status = "Zombie" => task[t].status = "Zombie"
  BY Zenon, <1>1 DEF Moved
<1>3. task'[t].pin = task[t].pin
  BY Zenon DEF Moved
<1>4. QED
  BY Zenon, <1>2, <1>3 DEF MayBeAt

LEMMA MovedTaskInv ==
    ASSUME ProcessInv, NEW c \in Cpus, NEW n \in TasksOrNone, \A t \in Tasks : Moved(c, n, t),
           len' = len, gen' = gen, NEW t \in Tasks
    PROVE  TaskInv(t)'
<1> DEFINE r == task[t]
           w == task'[t]
<1>1. TaskInv(t) /\ Moved(c, n, t) /\ r.join \in TasksOrNone
  BY Zenon DEF ProcessInv, Types, Records
<1>2. Gone(t) => r.status = "Zombie"
  BY Zenon DEF Gone
<1>3. \A u \in Tasks : task[u].status = "Zombie" => task'[u].status = "Zombie"
  BY Zenon, MovedFacts
<1>4. t > len' => w.status = "Absent"
  BY Zenon, <1>1, MovedFacts DEF TaskInv
<1>5. w.status \notin {"Absent", "Zombie"} => w.stack
  <2>1. ASSUME w.status \notin {"Absent", "Zombie"} PROVE r.status \notin {"Absent", "Zombie"}
    BY Zenon, <1>1, <2>1, MovedFacts
  <2>2. QED
    BY Zenon, <1>1, <1>2, <2>1 DEF TaskInv, Moved
<1>6. w.pin \in {-1, w.home}
  BY Zenon, <1>1 DEF TaskInv, Moved
<1>7. w.status = "Running" => w.wake = 0
  BY Zenon, <1>1 DEF TaskInv, Moved
<1>8. w.status = "Waiting" /\ w.wf \in Keys => w.seen = <<w.wf, gen'[w.wf]>>
  <2>1. w.status = "Waiting" => w = r
    BY Zenon, <1>1 DEF Moved
  <2>2. QED
    BY Zenon, <1>1, <2>1 DEF TaskInv
<1>9. ASSUME w.join # NoTask
      PROVE  /\ w.seen = <<>>
             /\ \/ task'[w.join].status = "Zombie"
                \/ w.status = "Waiting" /\ w.wf = w.join /\ w.wake = 0
  <2>1. w.join = r.join /\ w.seen = r.seen /\ r.join \in Tasks
    BY Zenon, <1>1, <1>9 DEF Moved, TasksOrNone
  <2>2. /\ r.seen = <<>>
        /\ \/ task[r.join].status = "Zombie"
           \/ r.status = "Waiting" /\ r.wf = r.join /\ r.wake = 0
    BY Zenon, <1>1, <1>9, <2>1 DEF TaskInv
  <2>3. r.status = "Waiting" /\ r.wake = 0 => w = r
    BY Zenon, <1>1, <1>2 DEF Moved
  <2>4. QED
    BY Zenon, <1>3, <2>1, <2>2, <2>3
<1>10. QED
  BY <1>4, <1>5, <1>6, <1>7, <1>8, <1>9, Zenon DEF TaskInv

\* A step of CPU c's switch_task that goes to n.
Switches(c, n) ==
    /\ n \in TasksOrNone /\ n = NextTask(c) /\ pc[c] = "sched"
    /\ \A t \in Tasks : Moved(c, n, t)
    /\ queue' = QueuesAfter(c) /\ retired' \subseteq retired
    /\ handoff' = [handoff EXCEPT ![c] = NoTask]
    /\ pc'[c] \in {"run", "load", "lost"}
    /\ \A d \in Cpus \ {c} : cur'[d] = cur[d] /\ plan'[d] = plan[d] /\ pc'[d] = pc[d]
    /\ UNCHANGED <<len, idleSaved, on, root, clock, gen>>
    /\ task' \in [Tasks -> Records] /\ cur' \in [Cpus -> TasksOrNone] /\ plan' \in [Cpus -> Plans]
    /\ pc' \in [Cpus -> {"run", "sched", "load", "switch", "publish", "lost"}]

LEMMA SwitchTypes ==
    ASSUME ProcessInv, NEW c \in Cpus, NEW n, Switches(c, n)
    PROVE  Types'
<1>1. /\ task' \in [Tasks -> Records] /\ cur' \in [Cpus -> TasksOrNone] /\ plan' \in [Cpus -> Plans]
      /\ pc' \in [Cpus -> {"run", "sched", "load", "switch", "publish", "lost"}]
      /\ UNCHANGED <<len, idleSaved, on, root, clock, gen>>
      /\ handoff' = [handoff EXCEPT ![c] = NoTask] /\ queue' = QueuesAfter(c)
      /\ retired' \subseteq retired
  BY Zenon DEF Switches
<1>2. Types /\ handoff \in [Cpus -> TasksOrNone] /\ retired \subseteq Tasks
  BY Zenon DEF ProcessInv, Types
<1>3. handoff' \in [Cpus -> TasksOrNone] /\ retired' \subseteq Tasks
  BY Zenon, <1>1, <1>2 DEF TasksOrNone
<1>4. queue' \in [Cpus -> Seq(Tasks)]
  BY Zenon, <1>1, QueuesRight
<1>5. QED
  BY <1>1, <1>2, <1>3, <1>4, Zenon DEF Types

\* What such a step leaves as it is on the other CPUs.
LEMMA OthersKept ==
    ASSUME ProcessInv, ResumesSavedContext, NEW c \in Cpus, NEW n, Switches(c, n),
           NEW d \in Cpus, d # c
    PROVE  /\ Leaving(d)' = Leaving(d) /\ Using(d)' = Using(d)
           /\ UseInv(d)' /\ PlaceInv(d)' /\ CurInv(d)' /\ RetireInv(d)'
<1>0. /\ UseInv(d) /\ PlaceInv(d) /\ CurInv(d) /\ RetireInv(d) /\ ExclusiveInv(d)
      /\ Types
  BY Zenon DEF ProcessInv
<1>1. /\ n \in TasksOrNone /\ cur'[d] = cur[d] /\ plan'[d] = plan[d] /\ pc'[d] = pc[d]
      /\ on' = on /\ root' = root /\ idleSaved' = idleSaved /\ \A t \in Tasks : Moved(c, n, t)
  BY Zenon DEF Switches
<1>2. /\ Leaving(d)' = Leaving(d) /\ Using(d)' = Using(d)
      /\ StackOf(d)' = StackOf(d) /\ RootOf(d)' = RootOf(d)
  BY Zenon, <1>1 DEF Leaving, Using, StackOf, RootOf
<1>3. Using(d) \subseteq Tasks /\ plan[d].retires \in TasksOrNone /\ cur[d] \in TasksOrNone
  BY Zenon, <1>0, CpuTypes
<1>4. ASSUME NEW t \in Using(d)
      PROVE  /\ t \in Tasks /\ Moved(c, n, t) /\ ~Gone(t) /\ t # cur[c]
             /\ task'[t].stack = task[t].stack /\ task'[t].space = task[t].space
  <2>1. t \in Tasks /\ ~Gone(t) /\ Moved(c, n, t)
    BY Zenon, <1>1, <1>3 DEF Gone
  <2>2. t # cur[c]
    <3>1. t \notin Using(c)
      BY Zenon, <1>0 DEF ExclusiveInv
    <3>2. QED
      BY Zenon, <2>1, <3>1 DEF Using, Tasks, NoTask
  <2>3. QED
    BY Zenon, <2>1, <2>2 DEF Moved
<1>5. UseInv(d)'
  <2>1. ASSUME NEW t \in Using(d) PROVE task'[t].stack /\ task'[t].status # "Absent"
    <3>1. task[t].stack /\ task[t].status # "Absent"
      BY Zenon, <1>0 DEF UseInv
    <3>2. QED
      BY Zenon, <1>1, <1>4, <3>1, MovedFacts
  <2>2. QED
    BY Zenon, <1>2, <2>1 DEF UseInv
<1>6. PlaceInv(d)'
  <2>1. RootOf(d) # NoTask => RootOf(d) \in Using(d)
    BY Zenon DEF RootOf, Using, Leaving
  <2>2. RootOf(d) # NoTask => task'[RootOf(d)].space = task[RootOf(d)].space
    BY Zenon, <1>4, <2>1
  <2>3. QED
    BY Zenon, <1>0, <1>1, <1>2, <2>2 DEF PlaceInv
<1>7. CurInv(d)'
  <2>1. ASSUME cur[d] # NoTask
        PROVE  /\ task[cur[d]].status = "Running" => task'[cur[d]].status = "Running"
               /\ task[cur[d]].status # "SwitchingOut" => task'[cur[d]].status # "SwitchingOut"
    <3>1. cur[d] \in Using(d)
      BY Zenon, <2>1 DEF Using
    <3>2. Moved(c, n, cur[d]) /\ ~Gone(cur[d]) /\ cur[d] # cur[c]
      BY Zenon, <1>4, <3>1
    <3>3. QED
      BY Zenon, <3>2 DEF Moved
  <2>2. QED
    BY Zenon, <1>0, <1>1, <2>1 DEF CurInv
<1>8. RetireInv(d)'
  <2>1. plan[d].retires # NoTask /\ task[plan[d].retires].status = "Zombie"
          => task'[plan[d].retires].status = "Zombie"
    BY Zenon, <1>1, <1>3, MovedFacts DEF TasksOrNone
  <2>2. QED
    BY Zenon, <1>0, <1>1, <2>1 DEF RetireInv
<1>9. QED
  BY Zenon, <1>2, <1>5, <1>6, <1>7, <1>8

\* Where tasks may be: the queues after the choice, and the other CPUs.
LEMMA SwitchPins ==
    ASSUME ProcessInv, NEW c \in Cpus, NEW n, Switches(c, n), NEW d \in Cpus,
           (cur[d] # NoTask => MayBeAt(cur[d], d))',
           (pc[d] \in {"load", "switch", "publish"} /\ plan[d].out # NoTask
              => MayBeAt(plan[d].out, d))'
    PROVE  PinInv(d)'
<1>1. /\ n \in TasksOrNone /\ \A t \in Tasks : Moved(c, n, t)
      /\ queue' = QueuesAfter(c) /\ handoff' = [handoff EXCEPT ![c] = NoTask]
  BY Zenon DEF Switches
<1>2. PinInv(d) /\ handoff \in [Cpus -> TasksOrNone]
  BY Zenon DEF ProcessInv, Types
<1>3. \A t \in Tasks : MayBeAt(t, d) => MayBeAt(t, d)'
  BY Zenon, <1>1, MovedFacts
<1>4. (handoff[d] # NoTask => MayBeAt(handoff[d], d))'
  <2>1. handoff'[d] # NoTask => handoff'[d] = handoff[d] /\ handoff[d] \in Tasks
    BY Zenon, <1>1, <1>2 DEF TasksOrNone
  <2>2. QED
    BY Zenon, <1>2, <1>3, <2>1 DEF PinInv
<1>5. (\A i \in DOMAIN queue[d] : MayBeAt(queue[d][i], d))'
  <2>1. /\ queue'[d] \in Seq(Tasks) /\ \A i \in DOMAIN queue'[d] : MayBeAt(queue'[d][i], d)
    BY <1>1, QueuesRight
  <2>2. \A i \in DOMAIN queue'[d] : queue'[d][i] \in Tasks
    BY <2>1
  <2>3. QED
    BY Zenon, <1>3, <2>1, <2>2
<1>6. QED
  BY <1>4, <1>5, Zenon DEF PinInv

LEMMA OthersPinned ==
    ASSUME ProcessInv, NEW c \in Cpus, NEW n, Switches(c, n), NEW d \in Cpus, d # c
    PROVE  PinInv(d)'
<1>1. /\ n \in TasksOrNone /\ \A t \in Tasks : Moved(c, n, t)
      /\ cur'[d] = cur[d] /\ plan'[d] = plan[d] /\ pc'[d] = pc[d]
  BY Zenon DEF Switches
<1>2. PinInv(d) /\ cur[d] \in TasksOrNone /\ plan[d].out \in TasksOrNone
  BY Zenon, CpuTypes DEF ProcessInv
<1>3. \A t \in Tasks : MayBeAt(t, d) => MayBeAt(t, d)'
  BY Zenon, <1>1, MovedFacts
<1>4. (cur[d] # NoTask => MayBeAt(cur[d], d))'
  BY Zenon, <1>1, <1>2, <1>3 DEF PinInv, TasksOrNone
<1>5. (pc[d] \in {"load", "switch", "publish"} /\ plan[d].out # NoTask => MayBeAt(plan[d].out, d))'
  BY Zenon, <1>1, <1>2, <1>3 DEF PinInv, TasksOrNone
<1>6. QED
  BY <1>4, <1>5, SwitchPins, Zenon

\* A task woken by the sweeps or ready before them is in its home's queue.
LEMMA ReadyQueued ==
    ASSUME ProcessInv, ResumesSavedContext, NEW c \in Cpus, NEW d \in Cpus, cur[d] # NoTask,
           Maintained(c).task[cur[d]].status = "Ready"
    PROVE  /\ \E k \in DOMAIN Maintained(c).queue[d] : Maintained(c).queue[d][k] = cur[d]
           /\ Maintained(c).task[cur[d]].home = task[cur[d]].home
<1>1. cur[d] \in Tasks
  BY Zenon, CpuTypes DEF ProcessInv, TasksOrNone
<1>2. /\ ExclusiveInv(d) /\ CurInv(d) /\ pc[d] # "lost" /\ TaskInv(cur[d]) /\ task[cur[d]] \in Records
      /\ pc[d] \in {"run", "sched", "load", "switch", "publish", "lost"}
  BY <1>1, Zenon DEF ProcessInv, ResumesSavedContext, Types
<1>3. task[cur[d]].status # "SwitchingOut"
  BY Zenon, <1>2 DEF CurInv
<1>4. Maintains(c, cur[d])
  BY Zenon, <1>1, MaintainedTask
<1>5. CASE Maintained(c).task[cur[d]] = task[cur[d]]
  <2>1. PICK i \in DOMAIN queue[d] : queue[d][i] = cur[d]
    BY Zenon, <1>2, <1>5 DEF ExclusiveInv
  <2>2. QED
    BY <1>5, <2>1, MaintainedQueue
<1>6. CASE cur[d] \in Sleepers(c) /\ Maintained(c).task[cur[d]].home = task[cur[d]].home
  <2>1. WakeHome(task[cur[d]]) = d
    BY Zenon, <1>2 DEF ExclusiveInv, WakeHome, TaskInv
  <2>2. QED
    BY <1>6, <2>1, MaintainedQueue
<1>7. QED
  BY <1>3, <1>4, <1>5, <1>6, Zenon DEF Maintains

\* While no CPU is lost the other CPUs keep their tasks to themselves.
LEMMA OthersExclusive ==
    ASSUME ProcessInv, ResumesSavedContext, NEW c \in Cpus, NEW n, Switches(c, n),
           \A d \in Cpus : n \notin Using(d), Using(c)' \subseteq Using(c) \cup {n},
           NEW d \in Cpus, d # c,
           \A t \in Tasks : t # n /\ t # cur[c] => task'[t] = Maintained(c).task[t]
    PROVE  ExclusiveInv(d)'
<1>1. /\ n \in TasksOrNone /\ n = NextTask(c) /\ \A t \in Tasks : Moved(c, n, t)
      /\ cur'[d] = cur[d] /\ queue' = QueuesAfter(c)
  BY Zenon DEF Switches
<1>2. \A e \in Cpus \ {c} : Using(e)' = Using(e) /\ Leaving(e)' = Leaving(e)
  BY Zenon, OthersKept
<1>3. ExclusiveInv(d) /\ Using(d) \subseteq Tasks
  BY Zenon, CpuTypes DEF ProcessInv
<1>4. ASSUME NEW t \in Using(d)'
      PROVE  ~task'[t].saved /\ \A e \in Cpus \ {d} : t \notin Using(e)'
  <2>1. t \in Using(d) /\ t \in Tasks /\ t # n /\ Moved(c, n, t)
    BY Zenon, <1>1, <1>2, <1>3
  <2>2. ~task'[t].saved
    BY Zenon, <1>3, <2>1 DEF ExclusiveInv, Moved
  <2>3. \A e \in Cpus \ {d} : t \notin Using(e)'
    BY ZenonT(40), <1>2, <1>3, <2>1 DEF ExclusiveInv
  <2>4. QED
    BY Zenon, <2>2, <2>3
<1>5. ASSUME cur[d] # NoTask
      PROVE  /\ cur[d] # Leaving(d)' /\ task'[cur[d]].home = d
             /\ task'[cur[d]].status = "Ready" => \E i \in DOMAIN queue'[d] : queue'[d][i] = cur[d]
  <2>1. /\ cur[d] \in Using(d) /\ cur[d] \in Tasks /\ cur[d] # n /\ cur[d] # cur[c]
        /\ cur[d] # Leaving(d) /\ task[cur[d]].home = d
    <3>1. cur[d] \in Using(d) /\ cur[d] \in Tasks
      BY Zenon, <1>3, <1>5 DEF Using
    <3>2. cur[d] \notin Using(c)
      BY Zenon, <1>3, <3>1 DEF ExclusiveInv
    <3>3. cur[d] # cur[c]
      BY Zenon, <1>5, <3>2 DEF Using
    <3>4. QED
      BY Zenon, <1>3, <1>5, <3>1, <3>3 DEF ExclusiveInv
  <2>2. task'[cur[d]] = Maintained(c).task[cur[d]]
    BY Zenon, <2>1
  <2>3. task'[cur[d]].home = d
    <3>1. Moved(c, n, cur[d]) /\ task[cur[d]].status # "SwitchingOut"
      <4>1. CurInv(d) /\ pc[d] # "lost" /\ pc[d] \in {"run", "sched", "load", "switch", "publish", "lost"}
        BY Zenon DEF ProcessInv, ResumesSavedContext, Types
      <4>2. QED
        BY <1>1, <1>5, <2>1, <4>1, Zenon DEF CurInv
    <3>2. QED
      BY <2>1, <3>1, Zenon DEF Moved
  <2>4. ASSUME task'[cur[d]].status = "Ready"
        PROVE  \E i \in DOMAIN queue'[d] : queue'[d][i] = cur[d]
    <3>1. PICK k \in DOMAIN Maintained(c).queue[d] : Maintained(c).queue[d][k] = cur[d]
      BY <1>5, <2>2, <2>4, ReadyQueued
    <3>2. \E i \in DOMAIN QueuesAfter(c)[d] : QueuesAfter(c)[d][i] = cur[d]
      BY <1>1, <2>1, <3>1, QueuesRight
    <3>3. QED
      BY <1>1, <3>2, Zenon
  <2>5. QED
    BY <1>2, <2>1, <2>3, <2>4, Zenon
<1>6. QED
  BY Zenon, <1>1, <1>4, <1>5 DEF ExclusiveInv

\* Retired stacks stay out of use.
LEMMA SwitchGone ==
    ASSUME ProcessInv, ResumesSavedContext, NEW c \in Cpus, NEW n, Switches(c, n),
           Using(c)' \subseteq Using(c) \cup {n}
    PROVE  GoneInv'
<1>1. /\ n \in TasksOrNone /\ retired' \subseteq retired /\ \A t \in Tasks : Moved(c, n, t)
      /\ pc'[c] # "publish" /\ \A d \in Cpus \ {c} : plan'[d] = plan[d] /\ pc'[d] = pc[d]
  BY Zenon DEF Switches
<1>2. \A d \in Cpus \ {c} : Using(d)' = Using(d)
  BY Zenon, OthersKept
<1>3. ASSUME NEW t \in Tasks, Gone(t) PROVE Gone(t)'
  <2>1. task'[t].status = "Zombie" /\ t # n
    BY Zenon, <1>1, <1>3, MovedFacts DEF Gone
  <2>2. \A d \in Cpus : t \notin Using(d)'
    BY Zenon, <1>2, <1>3, <2>1 DEF Gone
  <2>3. QED
    BY Zenon, <2>1, <2>2 DEF Gone
<1>4. GoneInv /\ retired \subseteq Tasks
  BY Zenon DEF ProcessInv, Types
<1>5. ASSUME NEW d \in Cpus, pc'[d] = "publish", plan'[d].retires # NoTask
      PROVE  Gone(plan[d].retires)'
  <2>1. d # c /\ pc[d] = "publish" /\ plan'[d] = plan[d]
    BY Zenon, <1>1, <1>5
  <2>2. plan[d].retires \in Tasks
    BY Zenon, <1>5, <2>1, CpuTypes DEF ProcessInv, TasksOrNone
  <2>3. Gone(plan[d].retires)
    BY Zenon, <1>4, <1>5, <2>1 DEF GoneInv
  <2>4. PICK t \in Tasks : t = plan[d].retires
    BY Zenon, <2>2
  <2>5. Gone(t)' /\ t = plan'[d].retires
    BY Zenon, <1>3, <2>1, <2>3, <2>4
  <2>6. QED
    BY Zenon, <2>5 DEF Gone
<1>6. (\A t \in retired : Gone(t))'
  BY Zenon, <1>1, <1>3, <1>4 DEF GoneInv
<1>7. (\A d \in Cpus : pc[d] = "publish" /\ plan[d].retires # NoTask => Gone(plan[d].retires))'
  BY <1>5, Zenon
<1>8. QED
  BY <1>6, <1>7, Zenon DEF GoneInv

\* What switch_task has decided for its own CPU.
Outcome(c, n) ==
    /\ Switches(c, n)
    /\ n = NoTask => pc'[c] # "lost" /\ (pc'[c] = "load" => plan'[c].out = NoTask)
    /\ n # NoTask => /\ pc'[c] = IF task[n].saved THEN "load" ELSE "lost"
                     /\ task[n].status # "SwitchingOut" \/ n \in SwitchedOut(c)
    /\ pc'[c] = "load" /\ plan'[c].out # NoTask =>
         LET t == plan'[c].out
         IN  /\ t \in Tasks /\ t = plan'[c].from /\ task[t].status = "Running"
             /\ task'[t].status = "SwitchingOut"
    /\ \A t \in Tasks : task[t].status = "Running" /\ task'[t].status = "SwitchingOut" =>
                         t = plan'[c].out /\ pc'[c] # "run"
    /\ \A t \in SwitchedOut(c) : task'[t].status # "SwitchingOut"

LEMMA HandoffTaken ==
    ASSUME ProcessInv, NEW c \in Cpus, NEW t \in SwitchedOut(c)
    PROVE  Maintained(c).task[t].status = "Ready"
<1>1. t \in Tasks /\ task[t].status = "SwitchingOut" /\ task[t] \in Records
  BY Zenon DEF SwitchedOut, ProcessInv, Types
<1>2. t \notin Sleepers(c) /\ t \notin Reaped(c)
  BY Zenon, <1>1 DEF Sleepers, Expired, Reaped, Reapable
<1>3. Maintained(c).task[t] = [task[t] EXCEPT !.status = "Ready", !.home = c]
  BY Zenon, <1>1, <1>2 DEF Maintained
<1>4. QED
  BY Zenon, <1>1, <1>3 DEF Records

\* No task is ready: a CPU whose task cannot go on leaves it for the idle
\* context, any other goes on.
LEMMA IdleStep ==
    ASSUME ProcessInv, ResumesSavedContext, NEW c \in Cpus, SwitchTask(c), NextTask(c) = NoTask
    PROVE  ProcessInv' /\ Outcome(c, NoTask)
<1> DEFINE x == cur[c]
           m == Maintained(c).task[x]
           leaves == x # NoTask /\ idleSaved[c] /\ MustLeave(m)
<1>1. /\ pc[c] = "sched" /\ queue' = QueuesAfter(c) /\ retired' = retired \ Reaped(c)
      /\ handoff' = [handoff EXCEPT ![c] = NoTask] /\ task' = Maintained(c).task
      /\ UNCHANGED <<len, idleSaved, on, root, clock, gen>>
      /\ leaves => /\ cur' = [cur EXCEPT ![c] = NoTask] /\ pc' = [pc EXCEPT ![c] = "load"]
                   /\ plan' = [plan EXCEPT ![c] = SwitchPlan(x, NoTask, RetiringZombie(x, m))]
      /\ ~leaves => pc' = [pc EXCEPT ![c] = "run"] /\ UNCHANGED <<cur, plan>>
  BY Zenon DEF SwitchTask, GoIdle, Goto
<1>2. /\ Types /\ cur \in [Cpus -> TasksOrNone] /\ plan \in [Cpus -> Plans]
      /\ pc \in [Cpus -> {"run", "sched", "load", "switch", "publish", "lost"}]
      /\ task \in [Tasks -> Records]
  BY Zenon DEF ProcessInv, Types
<1>3. x \in TasksOrNone /\ NoTask \in TasksOrNone /\ NoTask \notin Tasks
  BY <1>2 DEF TasksOrNone, Tasks, NoTask
<1> HIDE DEF leaves
<1>4. /\ leaves => cur'[c] = NoTask /\ pc'[c] = "load"
                   /\ plan'[c] = SwitchPlan(x, NoTask, RetiringZombie(x, m))
      /\ ~leaves => pc'[c] = "run" /\ cur' = cur /\ plan' = plan
      /\ \A d \in Cpus \ {c} : cur'[d] = cur[d] /\ plan'[d] = plan[d] /\ pc'[d] = pc[d]
  BY Zenon, <1>1, <1>2
<1>5. Switches(c, NoTask)
  <2>1. \A t \in Tasks : Moved(c, NoTask, t)
    BY <1>1, <1>3, TaskMoves, Zenon
  <2>2. task' \in [Tasks -> Records]
    <3>1. \A t \in Tasks : task'[t] \in Records
      BY Zenon, <2>1 DEF Moved
    <3>2. DOMAIN task' = Tasks
      BY <1>1, Zenon DEF Maintained
    <3>3. task' = [t \in Tasks |-> task'[t]]
      BY <1>1, Zenon DEF Maintained
    <3>4. QED
      BY Zenon, <3>1, <3>3
  <2>3. SwitchPlan(x, NoTask, RetiringZombie(x, m)) \in Plans
    BY Zenon, <1>3 DEF SwitchPlan, RetiringZombie, Plans
  <2>4. cur' \in [Cpus -> TasksOrNone] /\ plan' \in [Cpus -> Plans]
    BY <1>1, <1>2, <1>3, <2>3
  <2>5. pc' \in [Cpus -> {"run", "sched", "load", "switch", "publish", "lost"}]
    BY Zenon, <1>1, <1>2
  <2>6. pc'[c] \in {"run", "load", "lost"} /\ retired' \subseteq retired
    BY Zenon, <1>1, <1>4
  <2>7. QED
    BY <1>1, <1>3, <1>4, <2>1, <2>2, <2>4, <2>5, <2>6, Zenon DEF Switches
<1>6. UseInv(c) /\ PlaceInv(c) /\ CurInv(c) /\ PinInv(c) /\ ExclusiveInv(c)
  BY Zenon DEF ProcessInv
<1>7. /\ Leaving(c) = NoTask /\ Using(c) = {x} \ {NoTask}
      /\ Leaving(c)' = IF leaves THEN x ELSE NoTask
      /\ Using(c)' = Using(c) /\ (leaves => cur'[c] = NoTask) /\ (~leaves => cur'[c] = x)
  BY <1>1, <1>4 DEF Leaving, Using, SwitchPlan, leaves
<1>8. ASSUME x # NoTask
      PROVE  /\ x \in Tasks /\ Moved(c, NoTask, x) /\ ~Gone(x) /\ x \in Using(c) /\ idleSaved[c]
             /\ task'[x].stack = task[x].stack /\ task'[x].space = task[x].space
             /\ task'[x].saved = task[x].saved
             /\ task[x].status # "SwitchingOut" /\ task'[x].status # "Absent"
  <2>1. x \in Tasks /\ x \in Using(c)
    BY <1>3, <1>7, <1>8, Zenon DEF TasksOrNone
  <2>2. Moved(c, NoTask, x) /\ ~Gone(x)
    BY Zenon, <1>5, <2>1 DEF Switches, Gone
  <2>3. idleSaved[c] /\ task[x].status # "SwitchingOut"
    BY <1>1, <1>6, <1>8, Zenon DEF CurInv
  <2>4. task[x].status # "Absent"
    BY Zenon, <1>6, <2>1 DEF UseInv
  <2>5. task'[x].status # "Absent"
    BY <1>3, <2>1, <2>2, <2>4, MovedFacts, Zenon
  <2>6. QED
    BY <1>3, <2>1, <2>2, <2>3, <2>5, Zenon DEF Moved
<1>9. ASSUME x # NoTask, ~leaves
      PROVE  task'[x].status = "Running" /\ task'[x] = m /\ task'[x].home = task[x].home
  <2>1. task'[x] = m
    BY Zenon, <1>1
  <2>2. ~MustLeave(m)
    BY Zenon, <1>8, <1>9 DEF leaves
  <2>3. m.status # "Ready"
    <3>1. SUFFICES ASSUME m.status = "Ready" PROVE FALSE
      BY Zenon
    <3>2. PICK k \in DOMAIN Maintained(c).queue[c] : Maintained(c).queue[c][k] = x
      BY Zenon, <1>9, <3>1, ReadyQueued
    <3>3. QED
      BY Zenon, <3>1, <3>2, NextRight
  <2> HIDE DEF m
  <2>4. m.status \notin {"Zombie", "Sleeping", "Waiting", "Ready", "Absent"}
    BY Zenon, <1>8, <1>9, <2>1, <2>2, <2>3 DEF MustLeave
  <2>5. m \in Records /\ (m = task[x] \/ m.status \in {"Zombie", "Ready"})
    BY <1>8, <1>9, MaintainedTask DEF Maintains, m
  <2>6. m = task[x] /\ m.status \in Statuses
    BY Zenon, <2>4, <2>5 DEF Records
  <2>7. QED
    BY Zenon, <1>8, <1>9, <2>1, <2>4, <2>6 DEF Statuses
<1>10. UseInv(c)'
  BY <1>6, <1>7, <1>8, Zenon DEF UseInv
<1>11. PlaceInv(c)'
  <2>1. StackOf(c) = x /\ RootOf(c) = x
    BY Zenon, <1>1 DEF StackOf, RootOf
  <2>2. StackOf(c)' = x /\ RootOf(c)' = x
    BY <1>4 DEF StackOf, RootOf, SwitchPlan
  <2>3. QED
    BY <1>1, <1>6, <1>8, <2>1, <2>2 DEF PlaceInv
<1>12. CurInv(c)'
  <2>1. CASE leaves
    BY <1>7, <2>1, Zenon DEF CurInv
  <2>2. CASE ~leaves
    BY <1>1, <1>4, <1>7, <1>8, <1>9, <2>2, Zenon DEF CurInv
  <2>3. QED
    BY Zenon, <2>1, <2>2
<1>13. RetireInv(c)'
  <2>1. CASE leaves
    <3>1. plan'[c].retires = RetiringZombie(x, m) /\ plan'[c].from = x
      BY <1>4, <2>1 DEF SwitchPlan
    <3>2. task'[x].status = m.status
      BY Zenon, <1>1
    <3>3. QED
      BY <3>1, <3>2, Zenon DEF RetireInv, RetiringZombie
  <2>2. CASE ~leaves
    BY Zenon, <1>4, <2>2 DEF RetireInv
  <2>3. QED
    BY Zenon, <2>1, <2>2
<1>14. PinInv(c)'
  <2>1. x # NoTask => MayBeAt(x, c)
    BY <1>6, Zenon DEF PinInv
  <2>2. (cur[c] # NoTask => MayBeAt(cur[c], c))'
    <3>1. cur'[c] # NoTask => cur'[c] = x /\ x # NoTask
      BY Zenon, <1>7
    <3>2. x # NoTask => task'[x].pin = task[x].pin
      BY <1>8, Zenon DEF Moved
    <3>3. QED
      BY Zenon, <1>8, <2>1, <3>1, <3>2 DEF MayBeAt
  <2>3. (pc[c] \in {"load", "switch", "publish"} /\ plan[c].out # NoTask => MayBeAt(plan[c].out, c))'
    BY <1>4 DEF SwitchPlan
  <2>4. QED
    BY <1>5, <2>2, <2>3, SwitchPins, Zenon
<1>15. ExclusiveInv(c)'
  <2>1. \A d \in Cpus \ {c} : Using(d)' = Using(d)
    BY Zenon, <1>5, OthersKept
  <2>2. \A t \in Using(c)' : ~task'[t].saved /\ \A d \in Cpus \ {c} : t \notin Using(d)'
    BY <1>6, <1>7, <1>8, <2>1 DEF ExclusiveInv
  <2>3. cur'[c] # NoTask => /\ cur'[c] = x /\ Leaving(c)' = NoTask /\ task'[x].home = c
                            /\ task'[x].status = "Running"
    BY <1>6, <1>7, <1>9, Zenon DEF ExclusiveInv
  <2>4. QED
    BY Zenon, <2>2, <2>3 DEF ExclusiveInv
<1>16. GoneInv'
  BY Zenon, <1>5, <1>7, SwitchGone
<1>17. ASSUME NEW d \in Cpus, d # c
       PROVE  UseInv(d)' /\ PlaceInv(d)' /\ CurInv(d)' /\ RetireInv(d)' /\ PinInv(d)' /\ ExclusiveInv(d)'
  <2>1. UseInv(d)' /\ PlaceInv(d)' /\ CurInv(d)' /\ RetireInv(d)' /\ PinInv(d)'
    BY <1>5, <1>17, OthersKept, OthersPinned, Zenon
  <2>2. \A e \in Cpus : NoTask \notin Using(e)
    BY Zenon DEF Using
  <2>3. \A t \in Tasks : task'[t] = Maintained(c).task[t]
    BY Zenon, <1>1
  <2>4. Using(c)' \subseteq Using(c) \cup {NoTask}
    BY Zenon, <1>7
  <2>5. QED
    BY <1>5, <1>17, <2>1, <2>2, <2>3, <2>4, OthersExclusive, Zenon
<1>18. Types' /\ \A t \in Tasks : TaskInv(t)'
  <2>1. \A t \in Tasks : Moved(c, NoTask, t)
    BY <1>5, Zenon DEF Switches
  <2>2. \A t \in Tasks : TaskInv(t)'
    BY <1>1, <1>3, <2>1, MovedTaskInv, Zenon
  <2>3. QED
    BY Zenon, <1>5, <2>2, SwitchTypes
<1>19. Outcome(c, NoTask)
  <2>1. pc'[c] # "lost" /\ (pc'[c] = "load" => plan'[c].out = NoTask)
    BY <1>4 DEF SwitchPlan
  <2>2. \A t \in SwitchedOut(c) : t \in Tasks /\ task'[t].status # "SwitchingOut"
    BY Zenon, <1>1, HandoffTaken DEF SwitchedOut
  <2>3. ASSUME NEW t \in Tasks, task[t].status = "Running" PROVE task'[t].status # "SwitchingOut"
    BY <1>1, <2>3, MaintainedTask, Zenon DEF Maintains
  <2>4. QED
    BY Zenon, <1>5, <2>1, <2>2, <2>3 DEF Outcome
<1>20. QED
  BY <1>19, <1>10, <1>11, <1>12, <1>13, <1>14, <1>15, <1>16, <1>17, <1>18, ZenonT(40) DEF ProcessInv

\* A switch to task n.  When its stack pointer is not saved the CPU is lost.
LEMMA SwitchToStep ==
    ASSUME ProcessInv, ResumesSavedContext, NEW c \in Cpus, SwitchTask(c), NextTask(c) # NoTask
    PROVE  ProcessInv' /\ Outcome(c, NextTask(c))
<1> DEFINE x == cur[c]
           m == Maintained(c).task[x]
<1>0. PICK n \in Tasks : n = NextTask(c)
  BY Zenon, NextRight DEF TasksOrNone
<1>1. /\ pc[c] = "sched" /\ queue' = QueuesAfter(c) /\ retired' = retired \ Reaped(c)
      /\ handoff' = [handoff EXCEPT ![c] = NoTask]
      /\ UNCHANGED <<len, idleSaved, on, root, clock, gen>>
      /\ SwitchTo(c, n)
  BY Zenon, <1>0 DEF SwitchTask
<1>2. /\ task' = [u \in Tasks |-> IF u = n THEN Incoming(Maintained(c).task[u], c)
                                  ELSE IF u = x THEN Preempted(Maintained(c).task[u])
                                  ELSE Maintained(c).task[u]]
      /\ cur' = [cur EXCEPT ![c] = n]
      /\ plan' = [plan EXCEPT ![c] = IF x = NoTask THEN NoPlan
                                     ELSE SwitchPlan(x, HandoffOf(x, m), RetiringZombie(x, m))]
      /\ pc' = [pc EXCEPT ![c] = IF Maintained(c).task[n].saved THEN "load" ELSE "lost"]
  BY Zenon, <1>1 DEF SwitchTo, Goto
<1>3. /\ Types /\ cur \in [Cpus -> TasksOrNone] /\ plan \in [Cpus -> Plans]
      /\ pc \in [Cpus -> {"run", "sched", "load", "switch", "publish", "lost"}]
      /\ task \in [Tasks -> Records]
  BY Zenon DEF ProcessInv, Types
<1>4. /\ x \in TasksOrNone /\ NoTask \in TasksOrNone /\ n \in TasksOrNone /\ n # NoTask
      /\ \A t \in Tasks : t # NoTask
  BY <1>3 DEF TasksOrNone, Tasks, NoTask
<1>5. /\ cur'[c] = n /\ plan'[c].from = x
      /\ plan'[c].out = (IF x = NoTask THEN NoTask ELSE HandoffOf(x, m))
      /\ plan'[c].retires = (IF x = NoTask THEN NoTask ELSE RetiringZombie(x, m))
      /\ pc'[c] = IF Maintained(c).task[n].saved THEN "load" ELSE "lost"
      /\ \A d \in Cpus \ {c} : cur'[d] = cur[d] /\ plan'[d] = plan[d] /\ pc'[d] = pc[d]
  <2> HIDE DEF m
  <2>1. QED
    BY Zenon, <1>2, <1>3 DEF SwitchPlan, NoPlan
<1>6. Switches(c, n)
  <2>1. ASSUME NEW t \in Tasks PROVE Moved(c, n, t)
    <3>1. task'[t] = IF t = n THEN Incoming(Maintained(c).task[t], c)
                     ELSE IF t = cur[c] /\ n # NoTask THEN Preempted(Maintained(c).task[t])
                     ELSE Maintained(c).task[t]
      BY Zenon, <1>2, <1>4
    <3>2. QED
      BY <1>0, <1>4, <3>1, TaskMoves, Zenon
  <2>2. task' \in [Tasks -> Records]
    <3>1. \A t \in Tasks : task'[t] \in Records
      BY <2>1, Zenon DEF Moved
    <3>2. task' = [t \in Tasks |-> task'[t]]
      BY Zenon, <1>2
    <3>3. QED
      BY Zenon, <3>1, <3>2
  <2>3. /\ NoPlan \in Plans
        /\ SwitchPlan(x, HandoffOf(x, m), RetiringZombie(x, m)) \in Plans
    <3> HIDE DEF m
    <3>1. QED
      BY Zenon, <1>4 DEF SwitchPlan, NoPlan, HandoffOf, RetiringZombie, Plans
  <2>4. cur' \in [Cpus -> TasksOrNone] /\ plan' \in [Cpus -> Plans]
    BY Zenon, <1>2, <1>3, <1>4, <2>3
  <2>5. pc' \in [Cpus -> {"run", "sched", "load", "switch", "publish", "lost"}]
    BY Zenon, <1>2, <1>3
  <2>6. pc'[c] \in {"run", "load", "lost"} /\ retired' \subseteq retired
    BY <1>1, <1>5, Zenon
  <2>7. QED
    BY <1>0, <1>1, <1>4, <1>5, <2>1, <2>2, <2>4, <2>5, <2>6, Zenon DEF Switches
<1>7. UseInv(c) /\ PlaceInv(c) /\ CurInv(c) /\ PinInv(c) /\ ExclusiveInv(c)
  BY Zenon DEF ProcessInv
<1>8. /\ Leaving(c) = NoTask /\ Using(c) = {x} \ {NoTask}
      /\ Leaving(c)' = x /\ Using(c)' = {n, x} \ {NoTask}
  BY <1>1, <1>5, Zenon DEF Leaving, Using
<1>9. Moved(c, n, n) /\ TaskInv(n)
  BY <1>6, Zenon DEF Switches, ProcessInv
<1>10. /\ task'[n].status = "Running" /\ task'[n].home = c /\ ~task'[n].saved /\ task'[n].stack
       /\ task'[n].pin \in {-1, c} /\ Maintained(c).task[n].status = "Ready"
  <2>1. ~Gone(n) /\ task[n].stack /\ task'[n].status = "Running"
    BY <1>9, Zenon DEF Moved, TaskInv, Gone
  <2>2. Maintained(c).task[n].status = "Ready"
    BY <1>0, <1>4, NextRight, Zenon
  <2>3. QED
    BY <1>9, <2>1, <2>2, Zenon DEF Moved
<1>11. ASSUME x # NoTask
       PROVE  /\ x \in Tasks /\ Moved(c, n, x) /\ ~Gone(x) /\ x \in Using(c) /\ idleSaved[c]
              /\ task'[x].stack /\ task'[x].space = task[x].space
              /\ task'[x].status # "Absent"
  <2>1. x \in Tasks /\ x \in Using(c)
    BY Zenon, <1>4, <1>8, <1>11 DEF TasksOrNone
  <2>2. Moved(c, n, x) /\ ~Gone(x)
    BY Zenon, <1>6, <2>1 DEF Switches, Gone
  <2>3. idleSaved[c]
    BY <1>1, <1>7, <1>11, Zenon DEF CurInv
  <2>4. task[x].status # "Absent" /\ task[x].stack
    BY Zenon, <1>7, <2>1 DEF UseInv
  <2>5. task'[x].status # "Absent"
    BY Zenon, <1>4, <2>1, <2>2, <2>4, MovedFacts
  <2>6. QED
    BY <2>1, <2>2, <2>3, <2>4, <2>5, Zenon DEF Moved
<1>12. UseInv(c)'
  BY Zenon, <1>8, <1>10, <1>11 DEF UseInv
<1>13. PlaceInv(c)'
  <2>1. StackOf(c) = x /\ RootOf(c) = x
    BY <1>1, Zenon DEF StackOf, RootOf
  <2>2. StackOf(c)' = x /\ RootOf(c)' = x
    BY Zenon, <1>5 DEF StackOf, RootOf
  <2>3. QED
    BY <1>1, <1>7, <1>11, <2>1, <2>2, Zenon DEF PlaceInv
<1>14. CurInv(c)'
  <2>1. x = NoTask \/ idleSaved'[c]
    BY Zenon, <1>1, <1>11
  <2>2. QED
    BY Zenon, <1>5, <1>10, <2>1 DEF CurInv
<1>15. RetireInv(c)'
  <2>1. plan'[c].retires # NoTask => /\ plan'[c].retires = x /\ x # NoTask
                                     /\ m.status = "Zombie"
    <3> HIDE DEF m
    <3>1. QED
      BY Zenon, <1>5 DEF RetiringZombie
  <2>2. ASSUME x # NoTask, m.status = "Zombie" PROVE task'[x].status = "Zombie"
    <3>1. x # n
      BY Zenon, <1>10, <2>2
    <3>2. task'[x] = Preempted(m)
      BY <1>2, <1>11, <2>2, <3>1, Zenon
    <3> HIDE DEF m
    <3>3. QED
      BY Zenon, <2>2, <3>2 DEF Preempted
  <2>3. QED
    BY <1>5, <2>1, <2>2, Zenon DEF RetireInv
<1>16. PinInv(c)'
  <2>1. (cur[c] # NoTask => MayBeAt(cur[c], c))'
    BY <1>5, <1>10, Zenon DEF MayBeAt
  <2>2. (pc[c] \in {"load", "switch", "publish"} /\ plan[c].out # NoTask => MayBeAt(plan[c].out, c))'
    <3>1. plan'[c].out # NoTask => plan'[c].out = x /\ x # NoTask
      <4> HIDE DEF m
      <4>1. QED
        BY Zenon, <1>5 DEF HandoffOf
    <3>2. x # NoTask => task'[x].pin = task[x].pin /\ task[x].pin \in {-1, c}
      BY <1>7, <1>11, Zenon DEF Moved, PinInv, MayBeAt
    <3>3. QED
      BY <1>11, <3>1, <3>2, Zenon DEF MayBeAt
  <2>3. QED
    BY <1>6, <2>1, <2>2, SwitchPins, Zenon
<1>17. GoneInv'
  <2>1. Using(c)' \subseteq Using(c) \cup {n}
    BY Zenon, <1>8
  <2>2. QED
    BY Zenon, <1>6, <2>1, SwitchGone
<1>18. ASSUME NEW d \in Cpus, d # c
       PROVE  UseInv(d)' /\ PlaceInv(d)' /\ CurInv(d)' /\ RetireInv(d)' /\ PinInv(d)'
  BY <1>6, <1>18, OthersKept, OthersPinned, Zenon
<1>19. ASSUME ResumesSavedContext' PROVE \A d \in Cpus : ExclusiveInv(d)'
  <2>1. task[n].saved
    <3>1. Maintained(c).task[n].saved
      BY <1>5, <1>19, Zenon DEF ResumesSavedContext
    <3>2. QED
      BY <3>1, MaintainedTask, Zenon DEF Maintains
  <2>2. ASSUME NEW d \in Cpus PROVE n \notin Using(d)
    <3>1. ExclusiveInv(d)
      BY Zenon DEF ProcessInv
    <3>2. QED
      BY <2>1, <3>1, Zenon DEF ExclusiveInv
  <2>3. x # NoTask => x # n
    BY Zenon, <1>11, <2>2
  <2>4. ASSUME NEW d \in Cpus, d # c PROVE ExclusiveInv(d)'
    <3>1. \A t \in Tasks : t # n /\ t # cur[c] => task'[t] = Maintained(c).task[t]
      BY Zenon, <1>2
    <3>2. Using(c)' \subseteq Using(c) \cup {n}
      BY Zenon, <1>8
    <3>3. QED
      BY <1>6, <2>2, <2>4, <3>1, <3>2, OthersExclusive, ZenonT(40)
  <2>5. ExclusiveInv(c)'
    <3>1. \A d \in Cpus \ {c} : Using(d)' = Using(d)
      BY Zenon, <1>6, OthersKept
    <3>2. ASSUME x # NoTask PROVE ~task'[x].saved /\ \A d \in Cpus \ {c} : x \notin Using(d)
      <4>1. ~task[x].saved /\ \A d \in Cpus \ {c} : x \notin Using(d)
        BY <1>7, <1>11, <3>2, Zenon DEF ExclusiveInv
      <4>2. QED
        BY <1>11, <2>3, <3>2, <4>1, Zenon DEF Moved
    <3>3. \A t \in Using(c)' : ~task'[t].saved /\ \A d \in Cpus \ {c} : t \notin Using(d)'
      BY <1>8, <1>10, <2>2, <3>1, <3>2
    <3>4. QED
      BY <1>4, <1>5, <1>8, <1>10, <2>3, <3>3, Zenon DEF ExclusiveInv
  <2>6. QED
    BY Zenon, <2>4, <2>5
<1>20. Types' /\ \A t \in Tasks : TaskInv(t)'
  <2>1. \A t \in Tasks : Moved(c, n, t)
    BY <1>6, Zenon DEF Switches
  <2>2. \A t \in Tasks : TaskInv(t)'
    BY Zenon, <1>1, <1>4, <2>1, MovedTaskInv
  <2>3. QED
    BY Zenon, <1>6, <2>2, SwitchTypes
<1>21. Outcome(c, n)
  <2>1. task[n].saved = Maintained(c).task[n].saved
    BY MaintainedTask, ZenonT(40) DEF Maintains
  <2>2. task[n].status # "SwitchingOut" \/ n \in SwitchedOut(c)
    BY Zenon, <1>10, MaintainedTask DEF Maintains
  <2>3. ASSUME x # NoTask, m.status = "Running"
        PROVE  /\ x \in Tasks /\ task[x].status = "Running" /\ task'[x].status = "SwitchingOut"
    <3>1. x \in Tasks /\ x # n
      BY <1>10, <1>11, <2>3, Zenon
    <3>2. m \in Records /\ task[x].status = "Running"
      BY Zenon, <2>3, <3>1, MaintainedTask DEF Maintains
    <3>3. task'[x] = Preempted(m)
      BY Zenon, <1>2, <3>1
    <3> HIDE DEF m
    <3>4. QED
      BY Zenon, <2>3, <3>1, <3>2, <3>3 DEF Preempted, Records
  <2>4. plan'[c].out # NoTask => plan'[c].out = x /\ x # NoTask /\ m.status = "Running"
    <3> HIDE DEF m
    <3>1. QED
      BY <1>5, Zenon DEF HandoffOf
  <2>5. ASSUME NEW t \in Tasks, task[t].status = "Running", task'[t].status = "SwitchingOut"
        PROVE  t = plan'[c].out
    <3>1. t = x /\ t # n
      BY <1>6, <2>5, Zenon DEF Switches, Moved
    <3>2. m = task[x]
      BY <2>5, <3>1, MaintainedTask, Zenon DEF Maintains, Gone
    <3>3. QED
      BY <1>4, <1>5, <2>5, <3>1, <3>2, Zenon DEF HandoffOf
  <2>6. ASSUME NEW t \in SwitchedOut(c) PROVE task'[t].status # "SwitchingOut"
    <3>1. t \in Tasks /\ Maintained(c).task[t].status = "Ready"
      BY HandoffTaken, Zenon DEF SwitchedOut
    <3>2. CASE t = n
      BY Zenon, <1>10, <3>2
    <3>3. CASE t # n
      <4>1. task'[t] = Preempted(Maintained(c).task[t]) \/ task'[t] = Maintained(c).task[t]
        BY <1>2, <3>1, <3>3, Zenon
      <4>2. QED
        BY Zenon, <3>1, <4>1 DEF Preempted
    <3>4. QED
      BY <3>2, <3>3, Zenon
  <2>7. QED
    BY <1>4, <1>5, <1>6, <2>1, <2>2, <2>3, <2>4, <2>5, <2>6, Zenon DEF Outcome
<1>22. QED
  BY <1>0, <1>21, <1>12, <1>13, <1>14, <1>15, <1>16, <1>17, <1>18, <1>19, <1>20, ZenonT(40) DEF ProcessInv

----------------------------------------------------------------------------
(* The invariant holds, and what follows from it.                          *)

LEMMA InitInv == Init => ProcessInv
<1> SUFFICES ASSUME Init PROVE ProcessInv
  BY Zenon
<1>1. 0 \in Cpus /\ Absent \in Records /\ NoPlan \in Plans /\ NoTask \in TasksOrNone
  BY NumCpusAssumption DEF Cpus, Absent, Records, Statuses, NoPlan, SwitchPlan, Plans, TasksOrNone
<1>2. /\ Absent.status = "Absent" /\ Absent.pin = -1 /\ Absent.join = NoTask
      /\ NoPlan.from = NoTask /\ NoPlan.out = NoTask /\ NoPlan.retires = NoTask
  BY Zenon DEF Absent, NoPlan, SwitchPlan
<1>3. Types
  BY <1>1, MaxTasksAssumption DEF Init, Types
<1>4. \A t \in Tasks : task[t] = Absent
  BY Zenon DEF Init
<1>5. \A t \in Tasks : TaskInv(t)
  BY Zenon, <1>2, <1>4 DEF TaskInv
<1>6. ASSUME NEW c \in Cpus
      PROVE  /\ cur[c] = NoTask /\ handoff[c] = NoTask /\ on[c] = NoTask /\ root[c] = NoTask
             /\ plan[c] = NoPlan /\ pc[c] = "run" /\ queue[c] = <<>>
  BY Zenon DEF Init
<1>7. ASSUME NEW c \in Cpus PROVE Using(c) = {} /\ StackOf(c) = NoTask /\ RootOf(c) = NoTask
  BY Zenon, <1>6 DEF Using, Leaving, StackOf, RootOf
<1>8. ASSUME NEW c \in Cpus
      PROVE  UseInv(c) /\ PlaceInv(c) /\ CurInv(c) /\ RetireInv(c) /\ PinInv(c) /\ ExclusiveInv(c)
  BY <1>6, <1>7 DEF UseInv, PlaceInv, CurInv, RetireInv, PinInv, ExclusiveInv
<1>9. GoneInv
  BY Zenon, <1>6 DEF GoneInv, Init
<1>10. QED
  BY Zenon, <1>3, <1>5, <1>8, <1>9 DEF ProcessInv

\* One step of the scheduler, taken by a CPU while none is lost.
LEMMA NextInv == ProcessInv /\ [Next]_vars => ProcessInv'
<1> SUFFICES ASSUME ProcessInv, [Next]_vars PROVE ProcessInv'
  BY Zenon
<1>1. CASE UNCHANGED vars
  <2>1. UNCHANGED <<task, len, queue, cur, pc, plan, idleSaved, on, root, handoff, retired, clock, gen>>
    BY Zenon, <1>1 DEF vars, cpuVars
  <2>2. Types' /\ \A t \in Tasks : TaskInv(t)'
    <3>1. Types'
      BY Zenon, <2>1 DEF ProcessInv, Types
    <3>2. ASSUME NEW t \in Tasks PROVE TaskInv(t)'
      BY Zenon, <2>1 DEF ProcessInv, TaskInv
    <3>3. QED
      BY Zenon, <3>1, <3>2
  <2>3. ASSUME NEW c \in Cpus PROVE Using(c)' = Using(c) /\ StackOf(c)' = StackOf(c) /\ RootOf(c)' = RootOf(c)
    BY Zenon, <2>1 DEF Using, Leaving, StackOf, RootOf
  <2>4. ASSUME NEW c \in Cpus
        PROVE  UseInv(c)' /\ PlaceInv(c)' /\ CurInv(c)' /\ RetireInv(c)' /\ PinInv(c)'
    <3>1. UseInv(c)'
      BY Zenon, <2>1, <2>3 DEF ProcessInv, UseInv, Gone
    <3>2. PlaceInv(c)'
      BY Zenon, <2>1, <2>3 DEF ProcessInv, PlaceInv, Gone
    <3>3. CurInv(c)' /\ RetireInv(c)'
      BY Zenon, <2>1 DEF ProcessInv, CurInv, RetireInv
    <3>4. PinInv(c)'
      BY Zenon, <2>1 DEF ProcessInv, PinInv, MayBeAt
    <3>5. QED
      BY Zenon, <3>1, <3>2, <3>3, <3>4
  <2>5. GoneInv'
    BY Zenon, <2>1, <2>3 DEF ProcessInv, GoneInv, Gone
  <2>6. ASSUME ResumesSavedContext', NEW c \in Cpus PROVE ExclusiveInv(c)'
    <3>1. ResumesSavedContext
      BY Zenon, <2>1, <2>6 DEF ResumesSavedContext
    <3>2. Leaving(c)' = Leaving(c)
      BY Zenon, <2>1 DEF Leaving
    <3>3. ExclusiveInv(c)
      BY Zenon, <3>1 DEF ProcessInv
    <3>4. QED
      BY <2>1, <2>3, <3>2, <3>3 DEF ExclusiveInv
  <2>7. QED
    BY Zenon, <2>2, <2>4, <2>5, <2>6 DEF ProcessInv
<1>2. CASE Next
  <2>0. ResumesSavedContext
    BY Zenon, <1>2 DEF Next, ResumesSavedContext
  <2>1. CASE Pit
    BY Zenon, <2>0, <2>1, TimerSteps
  <2>2. ASSUME NEW c \in Cpus, Step(c) PROVE ProcessInv'
    <3>1. CASE SwitchTask(c)
      BY Zenon, <2>0, <3>1, IdleStep, SwitchToStep
    <3>2. CASE LoadRoot(c)
      BY Zenon, <2>0, <3>2, LoadStep
    <3>3. CASE SwitchStack(c)
      BY Zenon, <2>0, <3>3, StackStep
    <3>4. CASE Publish(c)
      BY Zenon, <2>0, <3>4, PublishStep
    <3>5. CASE WaitTaskReturn(c) \/ EventFound(c)
      BY Zenon, <2>0, <3>5, CallSteps
    <3>6. CASE \E timed \in BOOLEAN : WaitCurrentUntil(c, timed)
      BY Zenon, <2>0, <3>6, WaitUntilStep
    <3>7. QED
      BY Zenon, <2>2, <3>1, <3>2, <3>3, <3>4, <3>5, <3>6 DEF Step
  <2>3. ASSUME NEW c \in Cpus, Yield(c) \/ LapicTimer(c) PROVE ProcessInv'
    BY Zenon, <2>0, <2>3, TimerSteps
  <2>4. ASSUME NEW c \in Cpus, NEW shares \in BOOLEAN, AddTask(c, shares) PROVE ProcessInv'
    BY ZenonT(40), <2>0, <2>4, AddStep
  <2>5. ASSUME NEW c \in Cpus, SleepCurrent(c) PROVE ProcessInv'
    BY Zenon, <2>0, <2>5, SleepStep
  <2>6. ASSUME NEW c \in Cpus, TerminateTask(c) PROVE ProcessInv'
    BY Zenon, <2>0, <2>6, TerminateStep
  <2>7. ASSUME NEW c \in Cpus, NEW u \in Tasks, WaitTask(c, u) PROVE ProcessInv'
    BY Zenon, <2>0, <2>7, WaitTaskStep
  <2>8. ASSUME NEW c \in Cpus, NEW k \in Keys, EventGeneration(c, k) PROVE ProcessInv'
    BY Zenon, <2>0, <2>8, CallSteps
  <2>9. ASSUME NEW c \in Cpus, NEW k \in Keys, WakeWaiters(c, k) PROVE ProcessInv'
    BY Zenon, <2>0, <2>9, WakeStep
  <2>10. ASSUME NEW c \in Cpus, NEW k \in Keys, ForgetWaitKey(c, k) PROVE ProcessInv'
    BY Zenon, <2>0, <2>10, ForgetStep
  <2>11. QED
    BY <1>2, <2>1, <2>2, <2>3, <2>4, <2>5, <2>6, <2>7, <2>8, <2>9, <2>10, ZenonT(40) DEF Next
<1>3. QED
  BY Zenon, <1>1, <1>2

\* The inductive invariant of the Rust scheduler, for any number of CPUs,
\* tasks and events: up to the moment a CPU loads a stack pointer that was not
\* saved, every critical section of SCHEDULER_LOCK and every step of
\* context_switch preserves it.
THEOREM Scheduling == Spec => []ProcessInv
<1>1. Init => ProcessInv
  BY Zenon, InitInv
<1>2. ProcessInv /\ [Next]_vars => ProcessInv'
  BY Zenon, NextInv
<1>3. QED
  BY <1>1, <1>2, PTL DEF Spec

\* reap_zombies never frees the kernel stack a CPU executes on or is about to
\* enter.
THEOREM StacksKept == Spec => []StackInUseNotFreed
<1>1. ProcessInv => StackInUseNotFreed
  <2> SUFFICES ASSUME ProcessInv, NEW c \in Cpus, NEW t \in {on[c], cur[c]} \ {NoTask}
               PROVE  task[t].stack
    BY Zenon DEF StackInUseNotFreed
  <2>1. UseInv(c) /\ PlaceInv(c)
    BY Zenon DEF ProcessInv
  <2>2. t \in Using(c)
    BY Zenon, <2>1 DEF PlaceInv, StackOf, Using, Leaving
  <2>3. QED
    BY Zenon, <2>1, <2>2 DEF UseInv
<1>2. QED
  BY <1>1, Scheduling, PTL

\* CR3 always holds the page tables of an address space some task still refers
\* to.
THEOREM RootsKept == Spec => []LoadedRootAlive
<1>1. ProcessInv => LoadedRootAlive
  <2> SUFFICES ASSUME ProcessInv, NEW c \in Cpus, root[c] # NoTask
               PROVE  \E t \in Tasks : task[t].space = root[c]
    BY Zenon DEF LoadedRootAlive
  <2>1. PlaceInv(c) /\ Using(c) \subseteq Tasks
    BY CpuTypes, Zenon DEF ProcessInv
  <2>2. RootOf(c) # NoTask /\ task[RootOf(c)].space = root[c]
    BY Zenon, <2>1 DEF PlaceInv
  <2>3. RootOf(c) \in Using(c)
    BY Zenon, <2>2 DEF RootOf, Using, Leaving
  <2>4. QED
    BY Zenon, <2>1, <2>2, <2>3
<1>2. QED
  BY <1>1, Scheduling, PTL

\* A task waits on an event only while nothing has happened to it since the
\* caller read its generation (wait_current_until, wake_waiters).
THEOREM WakeupsSeen == Spec => []NoLostWakeup
<1>1. ProcessInv => NoLostWakeup
  BY Zenon DEF ProcessInv, TaskInv, NoLostWakeup
<1>2. QED
  BY <1>1, Scheduling, PTL

\* switch_task returns to a task only in status Running, wait_task only once
\* its target has exited.
THEOREM ReturnsAreRight == Spec => [](OnlyRunningReturns /\ WaitTaskSeesExit)
<1>1. ProcessInv => OnlyRunningReturns
  BY Zenon DEF ProcessInv, CurInv, OnlyRunningReturns
<1>2. ProcessInv => WaitTaskSeesExit
  <2> SUFFICES ASSUME ProcessInv, NEW c \in Cpus, cur[c] # NoTask, pc[c] = "run",
                      task[cur[c]].join # NoTask
               PROVE  task[task[cur[c]].join].status = "Zombie"
    BY Zenon DEF WaitTaskSeesExit
  <2>1. task[cur[c]].status = "Running" /\ TaskInv(cur[c])
    BY Zenon, CurrentFacts
  <2>2. QED
    BY Zenon, <2>1 DEF TaskInv
<1>3. QED
  BY <1>1, <1>2, Scheduling, PTL

\* init, and any pinned task, is current and queued on its own CPU only
\* (wake_sleeping_tasks_locked, steal_and_claim_ready_task).
THEOREM PinnedStays == Spec => []PinnedStaysHome
<1>1. ProcessInv => PinnedStaysHome
  <2> SUFFICES ASSUME ProcessInv, NEW t \in Tasks, task[t].pin # -1,
                      NEW c \in Cpus, c # task[t].pin
               PROVE  cur[c] # t /\ t \notin Range(queue[c])
    BY Zenon DEF PinnedStaysHome
  <2>1. PinInv(c) /\ ~MayBeAt(t, c) /\ t # NoTask
    BY DEF ProcessInv, MayBeAt, Tasks, NoTask
  <2>2. cur[c] # t
    BY Zenon, <2>1 DEF PinInv
  <2>3. queue[c] \in Seq(Tasks) /\ \A i \in DOMAIN queue[c] : queue[c][i] # t
    BY <2>1, ZenonT(40) DEF PinInv, ProcessInv, Types
  <2>4. t \notin Range(queue[c])
    BY Zenon, <2>3 DEF Range
  <2>5. QED
    BY Zenon, <2>2, <2>4
<1>2. QED
  BY <1>1, Scheduling, PTL

----------------------------------------------------------------------------
(* Preemption alone is safe: without calls that block no CPU is ever lost. *)

PreemptOk == ProcessInv /\ ResumesSavedContext /\ PreemptInv

\* A step that only adds a task, ends the one it executes or enters switch_task.
LEMMA PreemptKeeps ==
    ASSUME PreemptOk, UNCHANGED <<handoff, plan>>, \A c \in Cpus : Enters(c),
           \A t \in Tasks :
             /\ task'[t].seen = <<>>
             /\ \/ task'[t].status = task[t].status /\ task'[t].saved = task[t].saved
                \/ task[t].status = "Absent" /\ task'[t].status = "Ready" /\ task'[t].saved
                \/ task[t].status = "Running" /\ task'[t].status = "Zombie"
    PROVE  ResumesSavedContext' /\ PreemptInv'
<1>1. ResumesSavedContext'
  BY Zenon DEF PreemptOk, ResumesSavedContext, Enters
<1>2. \A c \in Cpus : Carried(c)' = Carried(c)
  BY Zenon DEF Carried, Enters
<1>3. PreemptInv /\ Types
  BY Zenon DEF PreemptOk, ProcessInv
<1>4. ASSUME NEW t \in Tasks
      PROVE  /\ task'[t].seen = <<>> /\ task'[t].status \notin {"Sleeping", "Waiting"}
             /\ task'[t].status = "Ready" => task'[t].saved
             /\ task'[t].status = "SwitchingOut" <=> \E c \in Cpus : t \in Carried(c)
  BY Zenon, <1>3 DEF PreemptInv
<1>5. ASSUME NEW c \in Cpus
      PROVE  /\ \A d \in Cpus \ {c} : Carried(c)' \cap Carried(d)' = {}
             /\ pc'[c] \in {"load", "switch", "publish"} => handoff[c] = NoTask
             /\ pc'[c] \in {"load", "switch"} => plan[c].out \in {NoTask, plan[c].from}
             /\ handoff[c] # NoTask => task'[handoff[c]].saved
             /\ pc'[c] = "publish" /\ plan[c].out # NoTask => task'[plan[c].out].saved
  <2>1. ASSUME NEW t \in Tasks, t \in Carried(c), task[t].saved PROVE task'[t].saved
    <3>1. task[t].status = "SwitchingOut"
      BY Zenon, <1>3, <2>1 DEF PreemptInv
    <3>2. QED
      BY Zenon, <2>1, <3>1
  <2>2. handoff[c] \in TasksOrNone /\ plan[c].out \in TasksOrNone /\ Enters(c)
    BY Zenon, <1>3, CpuTypes
  <2>3. handoff[c] # NoTask => task'[handoff[c]].saved
    BY <1>3, <2>1, <2>2, Zenon DEF PreemptInv, Carried, TasksOrNone
  <2>4. pc'[c] = "publish" /\ plan[c].out # NoTask => task'[plan[c].out].saved
    BY <1>3, <2>1, <2>2 DEF PreemptInv, Carried, TasksOrNone, Enters
  <2>5. \A d \in Cpus \ {c} : Carried(c)' \cap Carried(d)' = {}
    BY <1>2, <1>3 DEF PreemptInv
  <2>6. QED
    BY <1>3, <2>2, <2>3, <2>4, <2>5, Zenon DEF PreemptInv, Enters
<1>6. PreemptInv'
  BY <1>2, <1>4, <1>5 DEF PreemptInv
<1>7. QED
  BY Zenon, <1>1, <1>6

LEMMA PreemptCalls ==
    ASSUME PreemptOk, Blocking = {}, NEW c \in Cpus,
           \/ Pit \/ Yield(c) \/ LapicTimer(c) \/ WaitTaskReturn(c) \/ EventFound(c)
           \/ SleepCurrent(c) \/ TerminateTask(c)
           \/ \E shares \in BOOLEAN : AddTask(c, shares)
           \/ \E timed \in BOOLEAN : WaitCurrentUntil(c, timed)
           \/ \E u \in Tasks : WaitTask(c, u)
           \/ \E k \in Keys : EventGeneration(c, k) \/ WakeWaiters(c, k) \/ ForgetWaitKey(c, k)
    PROVE  ResumesSavedContext' /\ PreemptInv'
<1>1. /\ ProcessInv /\ Types /\ PreemptInv /\ task \in [Tasks -> Records]
      /\ pc \in [Cpus -> {"run", "sched", "load", "switch", "publish", "lost"}]
  BY Zenon DEF PreemptOk, ProcessInv, Types
<1>2. /\ \A t \in Tasks : task[t].seen = <<>> /\ task[t].status \notin {"Sleeping", "Waiting"}
      /\ \A t \in Tasks : task[t] \in Records
  BY <1>1, Zenon DEF PreemptInv
<1>3. ASSUME task' = task, UNCHANGED <<handoff, plan>>,
             pc' = pc \/ \E d \in Cpus : pc[d] = "run" /\ pc' = [pc EXCEPT ![d] = "sched"]
      PROVE  ResumesSavedContext' /\ PreemptInv'
  <2>1. \A d \in Cpus : Enters(d)
    BY Zenon, <1>1, <1>3 DEF Enters
  <2>2. QED
    BY <1>2, <1>3, <2>1, PreemptKeeps, Zenon
<1>4. CASE Pit
  BY <1>3, <1>4, NumCpusAssumption DEF Pit, Charge, Goto, InUser, Cpus
<1>5. CASE Yield(c)
  BY <1>3, <1>5, Zenon DEF Yield, Goto, InUser, Idle
<1>6. CASE LapicTimer(c)
  BY Zenon, <1>3, <1>6 DEF LapicTimer, Charge, Goto, InUser
<1>7. CASE SleepCurrent(c) \/ (\E u \in Tasks : WaitTask(c, u)) \/ \E k \in Keys : EventGeneration(c, k)
  BY Zenon, <1>7 DEF SleepCurrent, WaitTask, EventGeneration
<1>8. CASE EventFound(c) \/ \E timed \in BOOLEAN : WaitCurrentUntil(c, timed)
  <2>1. pc[c] = "run" /\ cur[c] # NoTask /\ task[cur[c]].seen # <<>>
    BY <1>8, Zenon DEF EventFound, WaitCurrentUntil
  <2>2. cur[c] \in Tasks
    BY <1>1, <2>1, CurrentFacts, Zenon
  <2>3. QED
    BY <1>2, <2>1, <2>2, Zenon
<1>9. CASE WaitTaskReturn(c)
  <2>1. pc[c] = "run" /\ cur[c] # NoTask
    BY Zenon, <1>9 DEF WaitTaskReturn
  <2>2. PICK x \in Tasks : x = cur[c]
    BY Zenon, <1>1, <2>1, CurrentFacts
  <2>3. task' = [task EXCEPT ![x] = [task[x] EXCEPT !.join = NoTask]] /\ UNCHANGED <<pc, plan, handoff>>
    BY Zenon, <1>9, <2>2 DEF WaitTaskReturn, Update
  <2>4. ASSUME NEW t \in Tasks
        PROVE  /\ task'[t].status = task[t].status /\ task'[t].saved = task[t].saved
               /\ task'[t].seen = <<>>
    <3>1. task'[t] = task[t] \/ task'[t] = [task[t] EXCEPT !.join = NoTask]
      BY Zenon, <1>1, <2>3
    <3>2. QED
      BY Zenon, <1>2, <3>1 DEF Records
  <2>5. \A d \in Cpus : Enters(d)
    BY Zenon, <2>3 DEF Enters
  <2>6. QED
    BY Zenon, <2>3, <2>4, <2>5, PreemptKeeps
<1>10. ASSUME NEW shares \in BOOLEAN, AddTask(c, shares) PROVE ResumesSavedContext' /\ PreemptInv'
  <2> DEFINE id == len + 1
  <2>0. len \in Nat /\ len < MaxTasks
    <3>1. len < MaxTasks
      BY <1>10, Zenon DEF AddTask
    <3>2. len \in 0 .. MaxTasks
      BY <1>1, Zenon DEF Types
    <3>3. QED
      BY <3>1, <3>2, MaxTasksAssumption
  <2>1. len \in Nat /\ id \in Tasks
    BY SMTT(30), <2>0, MaxTasksAssumption DEF Tasks
  <2>2. task[id].status = "Absent"
    BY <1>1, <2>1 DEF ProcessInv, TaskInv
  <2>3. PICK r : /\ task' = [task EXCEPT ![id] = r] /\ r.status = "Ready" /\ r.saved /\ r.seen = <<>>
    <3> DEFINE target == IF id = 1 THEN 0 ELSE TargetCpu
               r0 == [Absent EXCEPT !.status = "Ready", !.home = target,
                          !.pin = IF id = 1 THEN 0 ELSE -1, !.stack = TRUE,
                          !.space = IF shares THEN task[cur[c]].space ELSE id,
                          !.saved = TRUE]
    <3>1. task' = [task EXCEPT ![id] = r0]
      BY <1>10, Zenon DEF AddTask, Update
    <3>2. r0.status = "Ready" /\ r0.saved /\ r0.seen = <<>>
      BY Zenon DEF Absent
    <3>3. QED
      BY <3>1, <3>2, Zenon
  <2>4. UNCHANGED <<pc, plan, handoff>>
    BY <1>10, Zenon DEF AddTask, cpuVars
  <2> HIDE DEF id
  <2>5. task'[id] = r /\ \A t \in Tasks \ {id} : task'[t] = task[t]
    BY <1>1, <2>1, <2>3, Zenon
  <2>6. \A d \in Cpus : Enters(d)
    BY Zenon, <2>4 DEF Enters
  <2>7. QED
    BY <1>2, <2>2, <2>3, <2>4, <2>5, <2>6, PreemptKeeps, Zenon
<1>11. ASSUME NEW k \in Keys, WakeWaiters(c, k) PROVE ResumesSavedContext' /\ PreemptInv'
  <2>1. WaitersOf(task, k) = {}
    BY <1>2, Zenon DEF WaitersOf
  <2>2. \A t \in Tasks : task'[t] = task[t]
    BY Zenon, <1>11, <2>1 DEF WakeWaiters, QueueAll
  <2>3. UNCHANGED <<pc, plan, handoff>>
    BY Zenon, <1>11 DEF WakeWaiters, cpuVars
  <2>4. \A d \in Cpus : Enters(d)
    BY Zenon, <2>3 DEF Enters
  <2>5. QED
    BY <1>2, <2>2, <2>3, <2>4, PreemptKeeps, Zenon
<1>12. ASSUME NEW k \in Keys, ForgetWaitKey(c, k) PROVE ResumesSavedContext' /\ PreemptInv'
  BY <1>3, <1>12, Zenon DEF ForgetWaitKey, cpuVars
<1>13. CASE TerminateTask(c)
  <2>1. pc[c] = "run" /\ cur[c] # NoTask
    BY Zenon, <1>13 DEF TerminateTask, InUser
  <2>2. PICK x \in Tasks : x = cur[c] /\ task[x].status = "Running"
    BY Zenon, <1>1, <2>1, CurrentFacts
  <2>3. /\ Dying(cur[c])[x] = [task[x] EXCEPT !.status = "Zombie"]
        /\ \A t \in Tasks \ {x} : Dying(cur[c])[t] = task[t]
    BY Zenon, <1>1, <2>2 DEF Dying
  <2>4. Dying(cur[c])[x].status = "Zombie" /\ Dying(cur[c])[x].seen = <<>>
    BY Zenon, <1>2, <2>3 DEF Records
  <2>5. WaitersOf(Dying(cur[c]), cur[c]) = {}
    BY <1>2, <2>3, <2>4, Zenon DEF WaitersOf
  <2>6. \A t \in Tasks : task'[t] = Dying(cur[c])[t]
    BY <1>13, <2>5, Zenon DEF TerminateTask, QueueAll
  <2>7. pc' = [pc EXCEPT ![c] = "sched"] /\ UNCHANGED <<plan, handoff>>
    BY Zenon, <1>13 DEF TerminateTask, Goto
  <2>8. \A d \in Cpus : Enters(d)
    BY Zenon, <1>1, <2>1, <2>7 DEF Enters
  <2>9. ASSUME NEW t \in Tasks
        PROVE  /\ task'[t].seen = <<>>
               /\ \/ task'[t].status = task[t].status /\ task'[t].saved = task[t].saved
                  \/ task[t].status = "Running" /\ task'[t].status = "Zombie"
    BY <1>2, <2>2, <2>3, <2>4, <2>6, ZenonT(40)
  <2>10. QED
    BY <2>7, <2>8, <2>9, PreemptKeeps, Zenon
<1>14. QED
  BY ZenonT(40), <1>4, <1>5, <1>6, <1>7, <1>8, <1>9, <1>10, <1>11, <1>12, <1>13


\* switch_task goes to a task whose stack pointer is saved.
LEMMA PreemptSwitch ==
    ASSUME PreemptOk, NEW c \in Cpus, SwitchTask(c)
    PROVE  ResumesSavedContext' /\ PreemptInv'
<1>1. PICK n \in TasksOrNone : Outcome(c, n) /\ n = NextTask(c)
  BY IdleStep, SwitchToStep, NextRight, Zenon DEF PreemptOk
<1>2. /\ pc[c] = "sched" /\ pc'[c] \in {"run", "load", "lost"}
      /\ \A t \in Tasks : Moved(c, n, t)
      /\ \A d \in Cpus \ {c} : plan'[d] = plan[d] /\ pc'[d] = pc[d]
      /\ handoff' = [handoff EXCEPT ![c] = NoTask]
  BY <1>1, Zenon DEF Outcome, Switches
<1>3. PreemptInv /\ ProcessInv /\ Types /\ handoff \in [Cpus -> TasksOrNone]
  BY Zenon DEF PreemptOk, ProcessInv, Types
<1>4. handoff'[c] = NoTask /\ \A d \in Cpus \ {c} : handoff'[d] = handoff[d]
  BY Zenon, <1>2, <1>3
<1>5. \A d \in Cpus \ {c} : Carried(d)' = Carried(d)
  BY Zenon, <1>2, <1>4 DEF Carried
<1>6. Carried(c) \cap Tasks = SwitchedOut(c)
  <2>1. Carried(c) = {handoff[c]} \ {NoTask}
    BY Zenon, <1>2 DEF Carried
  <2>2. \A t \in Tasks : t # NoTask
    BY DEF Tasks, NoTask
  <2>3. \A t \in Carried(c) \cap Tasks : task[t].status = "SwitchingOut"
    BY <1>3, Zenon DEF PreemptInv
  <2>4. QED
    BY Zenon, <2>1, <2>2, <2>3 DEF SwitchedOut
<1>7. \A t \in SwitchedOut(c) : t \in Tasks /\ task[t].saved
  BY <1>3 DEF PreemptInv, SwitchedOut, Tasks, NoTask
<1>8. n # NoTask => n \in Tasks /\ task[n].saved /\ (task[n].status = "Ready" \/ n \in SwitchedOut(c))
  <2>1. SUFFICES ASSUME n # NoTask
                 PROVE  n \in Tasks /\ task[n].saved /\ (task[n].status = "Ready" \/ n \in SwitchedOut(c))
    BY Zenon
  <2>2. n \in Tasks /\ Moved(c, n, n)
    BY Zenon, <1>2, <2>1 DEF TasksOrNone
  <2>3. task[n].status \in {"Ready", "SwitchingOut"}
    BY <1>3, <2>2, Zenon DEF Moved, PreemptInv
  <2>4. task[n].status # "SwitchingOut" \/ n \in SwitchedOut(c)
    BY <1>1, <2>1, Zenon DEF Outcome
  <2>5. QED
    BY <1>3, <1>7, <2>2, <2>3, <2>4, Zenon DEF PreemptInv
<1>9. pc'[c] \in {"run", "load"}
  BY <1>1, <1>2, <1>8, Zenon DEF Outcome
<1>10. ResumesSavedContext'
  BY <1>2, <1>9, Zenon DEF PreemptOk, ResumesSavedContext
<1>11. /\ Carried(c)' = (IF pc'[c] = "load" THEN {plan'[c].out} ELSE {}) \ {NoTask}
       /\ \A t \in Carried(c)' : /\ t \in Tasks /\ t = plan'[c].from /\ task[t].status = "Running"
                                 /\ task'[t].status = "SwitchingOut"
  <2>1. Carried(c)' = (IF pc'[c] = "load" THEN {plan'[c].out} ELSE {}) \ {NoTask}
    BY Zenon, <1>4, <1>9 DEF Carried
  <2>2. QED
    BY <1>1, <2>1, Zenon DEF Outcome
<1>12. ASSUME NEW d \in Cpus, d # c, NEW t \in Tasks, t \in Carried(d)
       PROVE  task'[t].status = "SwitchingOut" /\ task'[t].saved = task[t].saved
  <2>1. task[t].status = "SwitchingOut" /\ t \notin Carried(c)
    BY <1>3, <1>12, Zenon DEF PreemptInv
  <2>2. t \notin SwitchedOut(c) /\ t # n
    BY <1>6, <1>8, <2>1 DEF Tasks, NoTask
  <2>3. Moved(c, n, t) /\ ~Gone(t)
    BY Zenon, <1>2, <2>1 DEF Gone
  <2>4. QED
    BY <2>1, <2>2, <2>3, Zenon DEF Moved
<1>13. ASSUME NEW t \in Tasks
       PROVE  /\ task'[t].seen = <<>> /\ task'[t].status \notin {"Sleeping", "Waiting"}
              /\ task'[t].status = "Ready" => task'[t].saved
              /\ task'[t].status = "SwitchingOut" <=> \E d \in Cpus : t \in Carried(d)'
  <2>1. /\ Moved(c, n, t) /\ task[t].seen = <<>> /\ task[t].status \notin {"Sleeping", "Waiting"}
        /\ task[t].status = "Ready" => task[t].saved
        /\ task[t].status = "SwitchingOut" => \E d \in Cpus : t \in Carried(d)
    BY <1>2, <1>3, Zenon DEF PreemptInv
  <2>2. task'[t].seen = <<>> /\ task'[t].status \notin {"Sleeping", "Waiting"}
    BY <2>1, Zenon DEF Moved
  <2>3. task'[t].status = "Ready" => task'[t].saved
    BY <1>7, <2>1, Zenon DEF Moved
  <2>4. ASSUME task'[t].status = "SwitchingOut" PROVE \E d \in Cpus : t \in Carried(d)'
    <3>1. task[t].status \in {"SwitchingOut", "Running"}
      BY <2>1, <2>4, Zenon DEF Moved
    <3>2. CASE task[t].status = "Running"
      <4>1. t = plan'[c].out /\ pc'[c] = "load" /\ t # NoTask
        BY <1>1, <1>9, <2>4, <3>2 DEF Outcome, Tasks, NoTask
      <4>2. QED
        BY Zenon, <1>11, <4>1
    <3>3. CASE task[t].status = "SwitchingOut"
      <4>1. t \notin Carried(c)
        BY <1>1, <1>6, <2>4, Zenon DEF Outcome
      <4>2. QED
        BY Zenon, <1>5, <2>1, <3>3, <4>1
    <3>4. QED
      BY Zenon, <3>1, <3>2, <3>3
  <2>5. ASSUME NEW d \in Cpus, t \in Carried(d)' PROVE task'[t].status = "SwitchingOut"
    BY <1>5, <1>11, <1>12, <2>5, Zenon
  <2>6. QED
    BY Zenon, <2>2, <2>3, <2>4, <2>5
<1>14. ASSUME NEW d \in Cpus
       PROVE  /\ \A e \in Cpus \ {d} : Carried(d)' \cap Carried(e)' = {}
              /\ pc'[d] \in {"load", "switch", "publish"} => handoff'[d] = NoTask
              /\ pc'[d] \in {"load", "switch"} => plan'[d].out \in {NoTask, plan'[d].from}
              /\ handoff'[d] # NoTask => task'[handoff'[d]].saved
              /\ pc'[d] = "publish" /\ plan'[d].out # NoTask => task'[plan'[d].out].saved
  <2>1. \A e \in Cpus \ {c} : Carried(c)' \cap Carried(e)' = {}
    <3>1. SUFFICES ASSUME NEW e \in Cpus, e # c, NEW t \in Carried(c)', t \in Carried(e)' PROVE FALSE
      BY Zenon
    <3>2. t \in Tasks /\ task[t].status = "Running" /\ t \in Carried(e)
      BY Zenon, <1>5, <1>11, <3>1
    <3>3. QED
      BY <1>3, <3>1, <3>2, Zenon DEF PreemptInv
  <2>2. \A e \in Cpus \ {d} : Carried(d)' \cap Carried(e)' = {}
    BY <1>3, <1>5, <2>1, Zenon DEF PreemptInv
  <2>3. CASE d = c
    <3>1. pc'[c] = "load" => plan'[c].out \in {NoTask, plan'[c].from}
      BY Zenon, <1>11
    <3>2. QED
      BY <1>4, <1>9, <2>2, <2>3, <3>1, Zenon
  <2>4. CASE d # c
    <3>1. pc'[d] = pc[d] /\ handoff'[d] = handoff[d] /\ plan'[d] = plan[d]
      BY Zenon, <1>2, <1>4, <2>4
    <3>2. handoff[d] \in TasksOrNone /\ plan[d].out \in TasksOrNone
      BY Zenon, <1>3, CpuTypes
    <3>3. handoff[d] # NoTask => task'[handoff[d]].saved
      BY SMTT(30), <1>3, <1>12, <2>4, <3>2 DEF PreemptInv, Carried, TasksOrNone
    <3>4. pc[d] = "publish" /\ plan[d].out # NoTask => task'[plan[d].out].saved
      BY SMTT(30), <1>3, <1>12, <2>4, <3>2 DEF PreemptInv, Carried, TasksOrNone
    <3>5. QED
      BY <1>3, <2>2, <3>1, <3>3, <3>4, Zenon DEF PreemptInv
  <2>5. QED
    BY Zenon, <2>3, <2>4
<1>15. PreemptInv'
  BY Zenon, <1>13, <1>14 DEF PreemptInv
<1>16. QED
  BY Zenon, <1>10, <1>15


\* The page-table load, the stack switch and the publication keep what is
\* carried; the stack switch saves the pointer of the task that is left.
LEMMA PreemptSteps ==
    ASSUME PreemptOk, NEW c \in Cpus, LoadRoot(c) \/ SwitchStack(c) \/ Publish(c)
    PROVE  ResumesSavedContext' /\ PreemptInv'
<1>1. /\ PreemptInv /\ Types /\ handoff \in [Cpus -> TasksOrNone] /\ plan \in [Cpus -> Plans]
      /\ pc \in [Cpus -> {"run", "sched", "load", "switch", "publish", "lost"}]
      /\ task \in [Tasks -> Records]
  BY Zenon DEF PreemptOk, ProcessInv, Types
<1>2. /\ pc[c] \in {"load", "switch", "publish"} /\ handoff[c] = NoTask
      /\ pc'[c] = IF pc[c] = "load" THEN "switch" ELSE IF pc[c] = "switch" THEN "publish" ELSE "run"
      /\ handoff'[c] = IF pc[c] = "publish" THEN plan[c].out ELSE NoTask
      /\ pc[c] # "publish" => plan'[c] = plan[c]
      /\ \A d \in Cpus \ {c} : pc'[d] = pc[d] /\ handoff'[d] = handoff[d] /\ plan'[d] = plan[d]
  <2>1. handoff[c] = NoTask
    BY Zenon, <1>1 DEF PreemptInv, LoadRoot, SwitchStack, Publish
  <2>2. CASE LoadRoot(c)
    BY Zenon, <1>1, <2>1, <2>2 DEF LoadRoot, Goto
  <2>3. CASE SwitchStack(c)
    BY Zenon, <1>1, <2>1, <2>3 DEF SwitchStack, Goto
  <2>4. CASE Publish(c)
    BY Zenon, <1>1, <2>1, <2>4 DEF Publish, Goto
  <2>5. QED
    BY Zenon, <2>2, <2>3, <2>4
<1>3. ASSUME NEW t \in Tasks
      PROVE  /\ task'[t].status = task[t].status /\ task'[t].seen = task[t].seen
             /\ task[t].saved => task'[t].saved
             /\ pc[c] = "switch" /\ t = plan[c].from => task'[t].saved
  <2>1. task[t] \in Records /\ \A u \in Tasks : u # NoTask
    BY <1>1 DEF Tasks, NoTask
  <2>2. CASE pc[c] # "switch"
    BY Zenon, <2>2 DEF LoadRoot, SwitchStack, Publish
  <2>3. CASE pc[c] = "switch"
    <3>1. task' = IF plan[c].from = NoTask THEN task ELSE [task EXCEPT ![plan[c].from].saved = TRUE]
      BY Zenon, <2>3 DEF LoadRoot, SwitchStack, Publish
    <3>2. task'[t] = IF t = plan[c].from THEN [task[t] EXCEPT !.saved = TRUE] ELSE task[t]
      BY Zenon, <1>1, <2>1, <3>1
    <3>3. QED
      BY Zenon, <2>1, <3>2 DEF Records
  <2>4. QED
    BY Zenon, <2>2, <2>3
<1>4. ASSUME NEW d \in Cpus PROVE Carried(d)' = Carried(d)
  BY ZenonT(40), <1>2 DEF Carried
<1>5. ASSUME NEW t \in Tasks
      PROVE  /\ task'[t].seen = <<>> /\ task'[t].status \notin {"Sleeping", "Waiting"}
             /\ task'[t].status = "Ready" => task'[t].saved
             /\ task'[t].status = "SwitchingOut" <=> \E d \in Cpus : t \in Carried(d)'
  BY <1>1, <1>3, <1>4 DEF PreemptInv
<1>6. ASSUME NEW d \in Cpus
      PROVE  /\ pc'[d] \in {"load", "switch", "publish"} => handoff'[d] = NoTask
             /\ pc'[d] \in {"load", "switch"} => plan'[d].out \in {NoTask, plan'[d].from}
             /\ handoff'[d] # NoTask => task'[handoff'[d]].saved
             /\ pc'[d] = "publish" /\ plan'[d].out # NoTask => task'[plan'[d].out].saved
  <2>1. handoff[d] \in TasksOrNone /\ plan[d].out \in TasksOrNone
    BY Zenon, <1>1, CpuTypes
  <2>2. CASE d # c
    BY SMTT(30), <1>1, <1>2, <1>3, <2>1, <2>2 DEF PreemptInv, TasksOrNone
  <2>3. CASE d = c
    <3>1. CASE pc[c] = "load"
      BY Zenon, <1>1, <1>2, <2>3, <3>1 DEF PreemptInv
    <3>2. CASE pc[c] = "switch"
      BY Zenon, <1>1, <1>2, <1>3, <2>1, <2>3, <3>2 DEF PreemptInv, TasksOrNone
    <3>3. CASE pc[c] = "publish"
      BY ZenonT(40), <1>1, <1>2, <1>3, <2>1, <2>3, <3>3 DEF PreemptInv, TasksOrNone
    <3>4. QED
      BY Zenon, <1>2, <3>1, <3>2, <3>3
  <2>4. QED
    BY Zenon, <2>2, <2>3
<1>7. PreemptInv'
  <2>1. ASSUME NEW d \in Cpus PROVE \A e \in Cpus \ {d} : Carried(d)' \cap Carried(e)' = {}
    BY Zenon, <1>1, <1>4 DEF PreemptInv
  <2>2. QED
    BY Zenon, <1>5, <1>6, <2>1 DEF PreemptInv
<1>8. ResumesSavedContext'
  BY Zenon, <1>2 DEF PreemptOk, ResumesSavedContext
<1>9. QED
  BY Zenon, <1>7, <1>8

\* Without blocking calls no CPU ever switches to a task whose stack pointer
\* is still to be saved: a preempted task stays SwitchingOut, carried by the
\* CPU it left, until context_switch has saved it (finish_switched_out_task).
THEOREM PreemptionSafe ==
    ASSUME Blocking = {}
    PROVE  Spec => [](ResumesSavedContext /\ SwitchingOutAccounted)
<1>1. Init => PreemptOk
  <2> SUFFICES ASSUME Init PROVE PreemptOk
    BY Zenon
  <2>1. \A t \in Tasks : task[t] = Absent
    BY Zenon DEF Init
  <2>2. Absent.status = "Absent" /\ Absent.seen = <<>>
    BY Zenon DEF Absent
  <2>3. \A c \in Cpus : pc[c] = "run" /\ handoff[c] = NoTask
    BY Zenon DEF Init
  <2>4. \A c \in Cpus : Carried(c) = {}
    BY Zenon, <2>3 DEF Carried
  <2>5. PreemptInv
    BY Zenon, <2>1, <2>2, <2>3, <2>4 DEF PreemptInv
  <2>6. QED
    BY Zenon, <2>3, <2>5, InitInv DEF PreemptOk, ResumesSavedContext
<1>2. PreemptOk /\ [Next]_vars => PreemptOk'
  <2> SUFFICES ASSUME PreemptOk, [Next]_vars PROVE PreemptOk'
    BY Zenon
  <2>1. ProcessInv'
    BY Zenon, NextInv DEF PreemptOk
  <2>2. CASE UNCHANGED vars
    <3>1. UNCHANGED <<task, pc, plan, handoff>>
      BY Zenon, <2>2 DEF vars, cpuVars
    <3>2. QED
      BY <2>1, <3>1 DEF PreemptOk, PreemptInv, Carried, ResumesSavedContext
  <2>3. CASE Next
    <3>1. CASE Pit
      <4>1. 0 \in Cpus
        BY NumCpusAssumption DEF Cpus
      <4>2. QED
        BY Zenon, <2>1, <3>1, <4>1, PreemptCalls DEF PreemptOk
    <3>2. ASSUME NEW c \in Cpus, Step(c) PROVE ResumesSavedContext' /\ PreemptInv'
      BY Zenon, <3>2, PreemptSwitch, PreemptSteps, PreemptCalls DEF Step
    <3>3. QED
      BY Zenon, <2>1, <2>3, <3>1, <3>2, PreemptCalls DEF Next, PreemptOk
  <2>4. QED
    BY Zenon, <2>2, <2>3
<1>3. PreemptOk => ResumesSavedContext /\ SwitchingOutAccounted
  BY DEF PreemptOk, PreemptInv, Carried, SwitchingOutAccounted
<1>4. QED
  BY <1>1, <1>2, <1>3, PTL DEF Spec
=============================================================================
