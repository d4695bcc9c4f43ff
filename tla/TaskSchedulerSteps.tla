------------------------- MODULE TaskSchedulerSteps -------------------------
(***************************************************************************)
(* Every step of TaskScheduler preserves the types and the part of the     *)
(* invariant that is about the lock, records, owners, saved contexts and   *)
(* stacks.                                                                 *)
(***************************************************************************)
EXTENDS TaskSchedulerInv, TLAPS

\* The names of CPUs, tasks, stacks and lock states do not clash.
LEMMA Names ==
    /\ NONE \notin Tasks /\ NONE \notin Cpus
    /\ FREE \notin Cpus /\ WAKER \notin Cpus /\ FREE # WAKER
    /\ NULL \notin Stacks /\ 0 \in Cpus /\ Tasks \subseteq Nat
BY NullAssumption, NumCpusAssumption
   DEF NONE, FREE, WAKER, Tasks, Cpus

\* The variables ContextInv speaks of, without pc and the lock's own.
ctxVars == <<status, onCpu, bottom, saved, cur, next, outgoing, encoded,
             retiring, rsp, root, handoff, retired, freeStacks, len>>

\* Everything ContextInv says that does not concern the lock.
StackPart ==
    /\ SwitchInv /\ RecordInv /\ OwnerInv
    /\ HandoffInv /\ SavedInv /\ PlaceInv /\ StackInv

\* A step that changes nothing ContextInv speaks of.
LEMMA StepsThatChangeNothing ==
  ASSUME StackPart, UNCHANGED <<ctxVars, pc>>
  PROVE  StackPart'
BY DEF StackPart, ctxVars, SwitchInv, RecordInv, OwnerInv, Holds, HandoffInv,
       SavedInv, PlaceInv, StackInv, OnOldStack, Switching

\* Moving between phases outside the stack switch disturbs nothing.
LEMMA QuietStep ==
  ASSUME TypeOK, StackPart, NEW c \in Cpus, NEW p \in Phases,
         pc[c] \notin Switching, p \notin Switching,
         pc' = [pc EXCEPT ![c] = p], UNCHANGED ctxVars
  PROVE  StackPart'
<1>1. pc \in [Cpus -> Phases]
  BY Zenon DEF TypeOK, TaskTypeOK, CpuTypeOK, SharedTypeOK
<1> USE <1>1 DEF StackPart, ctxVars, Switching
<1>2. SwitchInv'
  BY Zenon DEF SwitchInv
<1>3. RecordInv' /\ HandoffInv'
  BY Zenon DEF RecordInv, HandoffInv
<1>4. OwnerInv'
  BY DEF OwnerInv, SwitchInv, Holds
<1>5. SavedInv'
  BY Zenon DEF SavedInv, OnOldStack
<1>6. PlaceInv'
  BY Zenon DEF PlaceInv, OnOldStack
<1>7. StackInv'
  BY Zenon DEF StackInv
<1> QED
  BY Zenon, <1>2, <1>3, <1>4, <1>5, <1>6, <1>7

\* exit, wait_task, kaguya_wait_event and sleep: the current task stops being
\* Running but stays the current one.
LEMMA BlockStep ==
  ASSUME TypeOK, StackPart, NEW c \in Cpus, cur[c] # NONE, pc[c] = "run",
         NEW s \in {"Zombie", "Waiting", "Sleeping"},
         status' = [status EXCEPT ![cur[c]] = s],
         pc' = [pc EXCEPT ![c] = "sched"],
         UNCHANGED <<onCpu, bottom, saved, cur, next, outgoing, encoded,
                     retiring, rsp, root, handoff, retired, freeStacks, len>>
  PROVE  StackPart'
<1>1. /\ pc \in [Cpus -> Phases] /\ status \in [Tasks -> Statuses]
      /\ cur \in [Cpus -> {NONE} \cup Tasks]
      /\ outgoing \in [Cpus -> {NONE} \cup Tasks]
      /\ handoff \in [Cpus -> {NONE} \cup Tasks]
      /\ next \in [Cpus -> {NONE} \cup Tasks]
  BY Zenon DEF TypeOK, TaskTypeOK, CpuTypeOK, SharedTypeOK
<1> USE <1>1, Names DEF StackPart, Switching
<1>2. SwitchInv'
  BY DEF SwitchInv, OwnerInv
<1>3. RecordInv'
  BY Zenon DEF RecordInv
<1>4. OwnerInv'
  <2>1. Holds(c, cur[c]) /\ onCpu[cur[c]]
    BY ZenonT(60) DEF OwnerInv, Holds
  <2>2. \A d \in Cpus, t \in Tasks : Holds(d, t)' => Holds(d, t)
    BY Zenon DEF Holds, SwitchInv
  <2> QED
    BY Zenon, <2>1, <2>2 DEF OwnerInv
<1>5. HandoffInv'
  <2>1. \A d \in Cpus : outgoing[d] # NONE => outgoing[d] # cur[c]
    BY Zenon DEF OwnerInv
  <2>2. \A d \in Cpus : handoff[d] # NONE => handoff[d] # cur[c]
    BY Zenon DEF HandoffInv
  <2>3. \A d \in Cpus : encoded[d] => outgoing[d] # NONE
    BY Zenon DEF SwitchInv
  <2> QED
    BY Zenon, <2>1, <2>2, <2>3 DEF HandoffInv
<1>6. SavedInv'
  BY Zenon DEF SavedInv, OnOldStack, RecordInv
<1>7. PlaceInv'
  BY Zenon DEF PlaceInv, OnOldStack
<1>8. StackInv'
  BY Zenon DEF StackInv
<1> QED
  BY Zenon, <1>2, <1>3, <1>4, <1>5, <1>6, <1>7, <1>8

\* A wakeup: a blocked task becomes Running if it is still some CPU's current
\* one, and Ready otherwise.
LEMMA WakeStep ==
  ASSUME TypeOK, StackPart, NEW t \in Tasks,
         status[t] \in {"Waiting", "Sleeping"},
         NEW s \in {"Ready", "Running"},
         status' = [status EXCEPT ![t] = s],
         UNCHANGED <<pc, onCpu, bottom, saved, cur, next, outgoing, encoded,
                     retiring, rsp, root, handoff, retired, freeStacks, len>>
  PROVE  StackPart'
<1>1. /\ pc \in [Cpus -> Phases] /\ status \in [Tasks -> Statuses]
      /\ cur \in [Cpus -> {NONE} \cup Tasks]
      /\ outgoing \in [Cpus -> {NONE} \cup Tasks]
      /\ handoff \in [Cpus -> {NONE} \cup Tasks]
      /\ next \in [Cpus -> {NONE} \cup Tasks]
  BY Zenon DEF TypeOK, TaskTypeOK, CpuTypeOK, SharedTypeOK
<1> USE <1>1, Names DEF StackPart
<1>2. SwitchInv'
  BY Zenon DEF SwitchInv, Switching
<1>3. RecordInv'
  BY Zenon DEF RecordInv
<1>4. OwnerInv'
  BY DEF OwnerInv, Holds
<1>5. HandoffInv'
  BY Zenon DEF HandoffInv, SwitchInv
<1>6. SavedInv'
  BY Zenon DEF SavedInv, OnOldStack
<1>7. PlaceInv'
  BY Zenon DEF PlaceInv, OnOldStack
<1>8. StackInv'
  BY Zenon DEF StackInv
<1> QED
  BY Zenon, <1>2, <1>3, <1>4, <1>5, <1>6, <1>7, <1>8

\* claim_local and steal: a queued task whose stack is not in use becomes the
\* one this CPU will switch to.
LEMMA ClaimStep ==
  ASSUME TypeOK, StackPart, NEW c \in Cpus, pc[c] = "pick",
         NEW t \in Tasks, status[t] = "Ready", ~onCpu[t],
         status' = [status EXCEPT ![t] = "Claimed"],
         next' = [next EXCEPT ![c] = t],
         pc' = [pc EXCEPT ![c] = "switch"],
         UNCHANGED <<onCpu, bottom, saved, cur, outgoing, encoded,
                     retiring, rsp, root, handoff, retired, freeStacks, len>>
  PROVE  StackPart'
<1>1. /\ pc \in [Cpus -> Phases] /\ status \in [Tasks -> Statuses]
      /\ cur \in [Cpus -> {NONE} \cup Tasks]
      /\ outgoing \in [Cpus -> {NONE} \cup Tasks]
      /\ handoff \in [Cpus -> {NONE} \cup Tasks]
      /\ next \in [Cpus -> {NONE} \cup Tasks]
  BY Zenon DEF TypeOK, TaskTypeOK, CpuTypeOK, SharedTypeOK
<1> USE <1>1, Names DEF StackPart
<1>2. SwitchInv'
  BY Zenon DEF SwitchInv, Switching
<1>3. RecordInv'
  BY Zenon DEF RecordInv
<1>4. OwnerInv'
  <2>1. \A d \in Cpus, u \in Tasks : Holds(d, u)' => Holds(d, u)
    BY Zenon DEF Holds, SwitchInv
  <2> QED
    BY Zenon, <2>1 DEF OwnerInv
<1>5. HandoffInv'
  BY DEF HandoffInv, SwitchInv
<1>6. SavedInv'
  BY Zenon DEF SavedInv, OnOldStack
<1>7. PlaceInv'
  BY Zenon DEF PlaceInv, OnOldStack
<1>8. StackInv'
  BY Zenon DEF StackInv
<1> QED
  BY Zenon, <1>2, <1>3, <1>4, <1>5, <1>6, <1>7, <1>8

\* add_user publishes a new record: its stack comes out of the heap, its
\* initial context is on it.
LEMMA AddUserStep ==
  ASSUME TypeOK, StackPart, NEW c \in Cpus, AddUser(c)
  PROVE  StackPart'
<1>1. /\ pc \in [Cpus -> Phases] /\ status \in [Tasks -> Statuses]
      /\ cur \in [Cpus -> {NONE} \cup Tasks]
      /\ outgoing \in [Cpus -> {NONE} \cup Tasks]
      /\ handoff \in [Cpus -> {NONE} \cup Tasks]
      /\ next \in [Cpus -> {NONE} \cup Tasks]
      /\ bottom \in [Tasks -> Stacks \cup {NULL}]
      /\ freeStacks \subseteq Stacks
      /\ retired \subseteq Stacks
      /\ saved \in [Tasks -> BOOLEAN]
      /\ onCpu \in [Tasks -> BOOLEAN]
      /\ len \in 0 .. MaxTasks
  BY Zenon DEF TypeOK, TaskTypeOK, CpuTypeOK, SharedTypeOK
<1>a. PICK s \in freeStacks : /\ bottom' = [bottom EXCEPT ![len + 1] = s]
                              /\ freeStacks' = freeStacks \ {s}
  BY ZenonT(60) DEF AddUser
<1> DEFINE n == len + 1
<1>b. /\ n \in Tasks /\ status[n] = "Absent" /\ bottom[n] = NULL
      /\ \A t \in Tasks : t > n <=> t > len /\ t # n
  BY <1>1, MaxTasksAssumption DEF AddUser, StackPart, RecordInv, StackInv, Tasks
<1>c. /\ len' = n
      /\ status' = [status EXCEPT ![n] = "Ready"]
      /\ saved' = [saved EXCEPT ![n] = TRUE]
      /\ bottom' = [bottom EXCEPT ![n] = s]
      /\ UNCHANGED <<pc, onCpu, cur, next, outgoing, encoded, retiring, rsp,
                     root, handoff, retired>>
  BY ZenonT(60), <1>a DEF AddUser, cpuVars
<1>d. \A d \in Cpus : cur[d] # n /\ outgoing[d] # n /\ next[d] # n
                     /\ handoff[d] # n
  BY <1>1, <1>b, Names DEF StackPart, RecordInv, OwnerInv, HandoffInv
<1>e. s \in Stacks /\ s # NULL
  BY Zenon, <1>1, Names
<1> HIDE DEF n
<1> USE <1>1, <1>b, <1>c, <1>d, Names DEF StackPart
<1>2. SwitchInv'
  BY Zenon DEF SwitchInv, Switching
<1>3. RecordInv'
  BY Zenon DEF RecordInv
<1>4. OwnerInv'
  BY DEF OwnerInv, Holds
<1>5. HandoffInv'
  BY Zenon DEF HandoffInv, SwitchInv
<1>6. SavedInv'
  BY DEF SavedInv, OnOldStack, SwitchInv
<1>7. PlaceInv'
  BY Zenon DEF PlaceInv, OnOldStack
<1>8. StackInv'
  BY <1>a, <1>e DEF StackInv
<1> QED
  BY Zenon, <1>2, <1>3, <1>4, <1>5, <1>6, <1>7, <1>8

\* The stack of an acknowledged zombie goes back to the heap.
LEMMA ReapStep ==
  ASSUME TypeOK, StackPart, NEW c \in Cpus, scan > 0, MaintainReap(c)
  PROVE  StackPart'
<1>1. /\ pc \in [Cpus -> Phases] /\ status \in [Tasks -> Statuses]
      /\ cur \in [Cpus -> {NONE} \cup Tasks]
      /\ outgoing \in [Cpus -> {NONE} \cup Tasks]
      /\ handoff \in [Cpus -> {NONE} \cup Tasks]
      /\ next \in [Cpus -> {NONE} \cup Tasks]
      /\ bottom \in [Tasks -> Stacks \cup {NULL}]
      /\ freeStacks \subseteq Stacks
      /\ retired \subseteq Stacks
      /\ len \in 0 .. MaxTasks
      /\ scan \in 0 .. (MaxTasks + 1)
  BY Zenon DEF TypeOK, TaskTypeOK, CpuTypeOK, SharedTypeOK
<1>a. scan \in Tasks
  BY <1>1, MaxTasksAssumption DEF MaintainReap, Maintaining, Tasks
<1>b. /\ status[scan] = "Zombie" /\ bottom[scan] # NULL
      /\ bottom[scan] \in retired
      /\ retired' = retired \ {bottom[scan]}
      /\ freeStacks' = freeStacks \cup {bottom[scan]}
      /\ bottom' = [bottom EXCEPT ![scan] = NULL]
      /\ UNCHANGED <<pc, status, onCpu, saved, cur, next, outgoing, encoded,
                     retiring, rsp, root, handoff, len>>
  BY Zenon DEF MaintainReap, Reapable, cpuVars
<1>c. \A d \in Cpus : cur[d] # scan /\ outgoing[d] # scan
  BY Zenon, <1>a, <1>b DEF StackPart, StackInv
<1> USE <1>1, <1>a, <1>b, <1>c, Names DEF StackPart
<1>2. SwitchInv'
  BY Zenon DEF SwitchInv, Switching
<1>3. RecordInv'
  BY Zenon DEF RecordInv
<1>4. OwnerInv'
  BY DEF OwnerInv, Holds
<1>5. HandoffInv'
  BY Zenon DEF HandoffInv
<1>6. SavedInv'
  BY Zenon DEF SavedInv, OnOldStack
<1>7. PlaceInv'
  BY Zenon DEF PlaceInv, OnOldStack
<1>8. StackInv'
  BY ZenonT(40) DEF StackInv
<1> QED
  BY Zenon, <1>2, <1>3, <1>4, <1>5, <1>6, <1>7, <1>8

\* A drained handoff makes the task that was left Ready.
LEMMA DrainStep ==
  ASSUME TypeOK, StackPart, NEW c \in Cpus, Drain(c)
  PROVE  StackPart'
<1>1. /\ pc \in [Cpus -> Phases] /\ status \in [Tasks -> Statuses]
      /\ cur \in [Cpus -> {NONE} \cup Tasks]
      /\ outgoing \in [Cpus -> {NONE} \cup Tasks]
      /\ handoff \in [Cpus -> {NONE} \cup Tasks]
      /\ next \in [Cpus -> {NONE} \cup Tasks]
  BY Zenon DEF TypeOK, TaskTypeOK, CpuTypeOK, SharedTypeOK
<1>a. /\ pc[c] = "drain" /\ pc' = [pc EXCEPT ![c] = "pick"]
      /\ handoff' = [handoff EXCEPT ![c] = NONE]
      /\ \/ UNCHANGED status
         \/ /\ handoff[c] \in Tasks /\ status[handoff[c]] = "SwitchingOut"
            /\ status' = [status EXCEPT ![handoff[c]] = "Ready"]
      /\ UNCHANGED <<onCpu, bottom, saved, cur, next, outgoing, encoded,
                     retiring, rsp, root, retired, freeStacks, len>>
  BY Zenon, <1>1 DEF Drain, switchVars
<1>b. \A d \in Cpus : handoff[c] # NONE => cur[d] # handoff[c]
                         /\ outgoing[d] # handoff[c]
  BY Zenon DEF StackPart, HandoffInv
<1>c. /\ status' \in [Tasks -> Statuses]
      /\ \A t \in Tasks : \/ status'[t] = status[t]
                          \/ /\ t = handoff[c] /\ status'[t] = "Ready"
                             /\ status[t] = "SwitchingOut"
  BY SMTT(30), <1>1, <1>a DEF Statuses
<1> USE <1>1, <1>a, Names DEF StackPart
<1>2. SwitchInv'
  BY <1>b, <1>c DEF SwitchInv, Switching
<1>3. RecordInv'
  BY ZenonT(60), <1>c DEF RecordInv
<1>4. OwnerInv'
  <2>1. \A d \in Cpus, u \in Tasks : Holds(d, u)' => Holds(d, u)
    BY Zenon DEF Holds, SwitchInv
  <2> QED
    BY ZenonT(60), <2>1 DEF OwnerInv
<1>5. HandoffInv'
  <2>1. \A d \in Cpus : encoded[d] => /\ outgoing[d] \in Tasks
                                      /\ outgoing[d] # handoff[c]
                                      /\ status[outgoing[d]] = "SwitchingOut"
    BY Zenon, <1>b DEF SwitchInv, HandoffInv
  <2>2. \A d \in Cpus : handoff'[d] # NONE =>
           /\ handoff'[d] = handoff[d] /\ handoff[d] \in Tasks
           /\ handoff[d] # handoff[c] /\ status[handoff[d]] = "SwitchingOut"
    BY Zenon DEF HandoffInv
  <2>3. \A d, e \in Cpus : handoff'[d] # NONE =>
           /\ cur[e] # handoff'[d] /\ outgoing[e] # handoff'[d]
           /\ e # d => handoff'[e] # handoff'[d]
    BY ZenonT(40) DEF HandoffInv
  <2>4. UNCHANGED <<cur, outgoing, encoded>>
    BY Zenon, <1>a
  <2> HIDE <1>1, <1>a DEF StackPart
  <2>5. \A d \in Cpus : encoded[d] => status'[outgoing[d]] = "SwitchingOut"
    BY ZenonT(60), <2>1, <1>c
  <2>6. \A d \in Cpus : handoff'[d] # NONE =>
           status'[handoff'[d]] = "SwitchingOut"
    BY ZenonT(60), <2>2, <1>c
  <2> QED
    BY Zenon, <2>3, <2>4, <2>5, <2>6 DEF HandoffInv
<1>6. SavedInv'
  BY Zenon DEF SavedInv, OnOldStack
<1>7. PlaceInv'
  BY Zenon DEF PlaceInv, OnOldStack
<1>8. StackInv'
  BY DEF StackInv
<1> QED
  BY Zenon, <1>2, <1>3, <1>4, <1>5, <1>6, <1>7, <1>8

\* The CPU goes from a blocked or exited task to its idle stack.
LEMMA PickIdleStep ==
  ASSUME TypeOK, StackPart, NEW c \in Cpus, PickIdle(c)
  PROVE  StackPart'
<1>1. /\ pc \in [Cpus -> Phases] /\ status \in [Tasks -> Statuses]
      /\ cur \in [Cpus -> {NONE} \cup Tasks]
      /\ outgoing \in [Cpus -> {NONE} \cup Tasks]
      /\ handoff \in [Cpus -> {NONE} \cup Tasks]
      /\ next \in [Cpus -> {NONE} \cup Tasks]
      /\ encoded \in [Cpus -> BOOLEAN]
      /\ retiring \in [Cpus -> Stacks \cup {NULL}]
  BY Zenon DEF TypeOK, TaskTypeOK, CpuTypeOK, SharedTypeOK
<1>a. /\ pc[c] = "pick" /\ pc' = [pc EXCEPT ![c] = "prep"]
      /\ cur[c] # NONE /\ cur' = [cur EXCEPT ![c] = NONE]
      /\ outgoing' = [outgoing EXCEPT ![c] = cur[c]]
      /\ encoded' = [encoded EXCEPT ![c] = FALSE]
      /\ retiring' = [retiring EXCEPT ![c] = RetiringStack(cur[c])]
      /\ UNCHANGED <<status, onCpu, bottom, saved, next, rsp, root, handoff,
                     retired, freeStacks, len>>
  BY SMTT(30) DEF PickIdle, NothingToRun, CanIdle, taskVars
<1>b. /\ cur[c] \in Tasks /\ outgoing[c] = NONE
      /\ \A d \in Cpus : cur[d] = cur[c] => d = c
  BY SMTT(30), <1>1, <1>a DEF StackPart, SwitchInv, OwnerInv, Switching, Holds
<1> USE <1>1, <1>a, <1>b, Names DEF StackPart
<1>2. SwitchInv'
  BY DEF SwitchInv, Switching, RetiringStack
<1>3. RecordInv'
  BY Zenon DEF RecordInv
<1>4. OwnerInv'
  <2>1. \A d \in Cpus, u \in Tasks : Holds(d, u)' => Holds(d, u)
    BY Zenon DEF Holds, SwitchInv
  <2>2. \A d, e \in Cpus : outgoing'[d] # NONE =>
           outgoing'[d] # cur'[e] /\ (e # d => outgoing'[d] # outgoing'[e])
    BY Zenon DEF OwnerInv
  <2> QED
    BY Zenon, <2>1, <2>2 DEF OwnerInv
<1>5. HandoffInv'
  BY ZenonT(40) DEF HandoffInv, SwitchInv
<1>6. SavedInv'
  BY SMTT(30) DEF SavedInv, OnOldStack
<1>7. PlaceInv'
  BY Zenon DEF PlaceInv, OnOldStack
<1>8. StackInv'
  BY Zenon DEF StackInv
<1> QED
  BY Zenon, <1>2, <1>3, <1>4, <1>5, <1>6, <1>7, <1>8

\* schedule() hands the CPU to the claimed task and drops the lock.
LEMMA SwitchToStep ==
  ASSUME TypeOK, StackPart, NEW c \in Cpus, next[c] # NONE,
         \A d \in Cpus : d # c => next[d] = NONE,
         pc[c] = "switch", SwitchTo(c)
  PROVE  StackPart'
<1>1. /\ pc \in [Cpus -> Phases] /\ status \in [Tasks -> Statuses]
      /\ cur \in [Cpus -> {NONE} \cup Tasks]
      /\ outgoing \in [Cpus -> {NONE} \cup Tasks]
      /\ handoff \in [Cpus -> {NONE} \cup Tasks]
      /\ next \in [Cpus -> {NONE} \cup Tasks]
      /\ encoded \in [Cpus -> BOOLEAN]
      /\ retiring \in [Cpus -> Stacks \cup {NULL}]
      /\ onCpu \in [Tasks -> BOOLEAN]
  BY Zenon DEF TypeOK, TaskTypeOK, CpuTypeOK, SharedTypeOK
<1> DEFINE n == next[c]
           o == cur[c]
<1>a. /\ pc' = [pc EXCEPT ![c] = "prep"]
      /\ status' = [t \in Tasks |->
                     IF t = n THEN "Running"
                     ELSE IF Preempts(c) /\ t = o THEN "SwitchingOut"
                     ELSE status[t]]
      /\ onCpu' = [onCpu EXCEPT ![n] = TRUE]
      /\ cur' = [cur EXCEPT ![c] = n] /\ next' = [next EXCEPT ![c] = NONE]
      /\ outgoing' = [outgoing EXCEPT ![c] = o]
      /\ encoded' = [encoded EXCEPT ![c] = Preempts(c)]
      /\ retiring' = [retiring EXCEPT ![c] = IF o = NONE THEN NULL
                                             ELSE RetiringStack(o)]
      /\ UNCHANGED <<bottom, saved, rsp, root, handoff, retired, freeStacks, len>>
  BY Zenon DEF SwitchTo
<1>b. /\ n \in Tasks /\ n # NONE /\ status[n] = "Claimed" /\ ~onCpu[n]
      /\ outgoing[c] = NONE
  BY SMTT(30), <1>1 DEF StackPart, OwnerInv, SwitchInv, Switching
<1>c. \A d \in Cpus : cur[d] # n /\ outgoing[d] # n /\ handoff[d] # n
  <2>1. \A d \in Cpus : ~Holds(d, n)
    BY ZenonT(60), <1>b DEF StackPart, OwnerInv
  <2>2. \A d \in Cpus : outgoing[d] = n => pc[d] \in {"handoff", "retire"}
    BY Zenon, <1>b, <2>1, Names DEF StackPart, SwitchInv, Switching, Holds
  <2>3. \A d \in Cpus : outgoing[d] # n
    BY Zenon, <1>b, <2>2 DEF StackPart, SwitchInv, HandoffInv
  <2> QED
    BY ZenonT(60), <1>b, <2>1, <2>3 DEF StackPart, Holds, HandoffInv
<1>d. o # NONE => /\ o \in Tasks /\ o # n
                  /\ \A d \in Cpus : /\ d # c => cur[d] # o
                                     /\ outgoing[d] # o /\ handoff[d] # o
  BY <1>1, <1>c DEF StackPart, OwnerInv, HandoffInv, Holds
<1>e. /\ Preempts(c) \in BOOLEAN
      /\ Preempts(c) => o # NONE /\ status[o] = "Running"
  BY Zenon DEF Preempts
<1>f. /\ status' \in [Tasks -> Statuses]
      /\ \A t \in Tasks : \/ t # n /\ ~(Preempts(c) /\ t = o) /\ status'[t] = status[t]
                          \/ t = n /\ status'[t] = "Running"
                          \/ /\ Preempts(c) /\ t = o /\ status[t] = "Running"
                             /\ status'[t] = "SwitchingOut"
  BY SMTT(30), <1>1, <1>a, <1>d, <1>e DEF Statuses
<1> HIDE DEF n
<1> USE <1>1, <1>a, <1>b, <1>d, Names DEF StackPart
<1>2. SwitchInv'
  <2>1. \A d \in Cpus \ {c} : outgoing[d] # NONE /\ status[outgoing[d]] = "Zombie"
                              => status'[outgoing[d]] = "Zombie"
    BY Zenon, <1>c, <1>f
  <2>2. o # NONE /\ status[o] = "Zombie" => status'[o] = "Zombie"
    BY ZenonT(60), <1>f
  <2> QED
    BY <2>1, <2>2, <1>e DEF SwitchInv, Switching, RetiringStack
<1>3. RecordInv'
  BY SMTT(30), <1>c, <1>f DEF RecordInv
<1>4. OwnerInv'
  <2>1. \A d \in Cpus, u \in Tasks : Holds(d, u)' =>
            Holds(d, u) \/ (d = c /\ u = n)
    BY Zenon DEF Holds, SwitchInv
  <2>2. \A d \in Cpus : ~Holds(d, n)
    BY SMTT(30), <1>c DEF Holds
  <2>3. \A d, e \in Cpus : outgoing'[d] # NONE =>
           outgoing'[d] # cur'[e] /\ (e # d => outgoing'[d] # outgoing'[e])
    BY SMTT(30), <1>c DEF OwnerInv
  <2> QED
    BY SMTT(30), <2>1, <2>2, <2>3 DEF OwnerInv
<1>5. HandoffInv'
  <2>1. \A d \in Cpus : encoded'[d] => status'[outgoing'[d]] = "SwitchingOut"
    <3>1. CASE Preempts(c)
      BY SMTT(30), <3>1, <1>c, <1>e, <1>f DEF HandoffInv, SwitchInv
    <3>2. CASE ~Preempts(c)
      BY <3>2, <1>c, <1>e, <1>f DEF HandoffInv, SwitchInv
    <3> QED
      BY SMTT(30), <3>1, <3>2
  <2>2. \A d \in Cpus : handoff[d] # NONE => status'[handoff[d]] = "SwitchingOut"
    BY SMTT(30), <1>c, <1>f DEF HandoffInv
  <2> QED
    BY SMTT(30), <2>1, <2>2, <1>c DEF HandoffInv
<1>6. SavedInv'
  BY <1>f DEF SavedInv, OnOldStack, RecordInv
<1>7. PlaceInv'
  BY ZenonT(60) DEF PlaceInv, OnOldStack
<1>8. StackInv'
  BY <1>c, <1>f DEF StackInv
<1> QED
  BY Zenon, <1>2, <1>3, <1>4, <1>5, <1>6, <1>7, <1>8

\* The defensive branch of schedule().
LEMMA SwitchRefusedStep ==
  ASSUME TypeOK, StackPart, NEW c \in Cpus, next[c] # NONE,
         \A d \in Cpus : d # c => next[d] = NONE,
         pc[c] = "switch", SwitchRefused(c)
  PROVE  StackPart'
<1>1. /\ pc \in [Cpus -> Phases] /\ status \in [Tasks -> Statuses]
      /\ cur \in [Cpus -> {NONE} \cup Tasks]
      /\ outgoing \in [Cpus -> {NONE} \cup Tasks]
      /\ handoff \in [Cpus -> {NONE} \cup Tasks]
      /\ next \in [Cpus -> {NONE} \cup Tasks]
  BY Zenon DEF TypeOK, TaskTypeOK, CpuTypeOK, SharedTypeOK
<1>a. /\ pc' = [pc EXCEPT ![c] = "run"]
      /\ next' = [next EXCEPT ![c] = NONE]
      /\ status' = [t \in Tasks |->
                     IF t = next[c] THEN "Ready"
                     ELSE IF Preempts(c) /\ t = cur[c] THEN "SwitchingOut"
                     ELSE status[t]]
      /\ UNCHANGED <<onCpu, bottom, saved, cur, outgoing, encoded, retiring,
                     rsp, root, handoff, retired, freeStacks, len>>
  BY SMTT(30) DEF SwitchRefused
<1>b. \A t \in Tasks :
         \/ status'[t] = status[t]
         \/ t = next[c] /\ status[t] = "Claimed" /\ status'[t] = "Ready"
         \/ t = cur[c] /\ status[t] = "Running" /\ status'[t] = "SwitchingOut"
  BY Zenon, <1>1, <1>a DEF Preempts, StackPart, OwnerInv
<1> USE <1>1, <1>b, Names DEF StackPart
<1>2. SwitchInv'
  <2>1. \A d \in Cpus : retiring[d] # NULL =>
           outgoing[d] \in Tasks /\ status'[outgoing[d]] = "Zombie"
    BY ZenonT(60) DEF SwitchInv
  <2>2. \A d \in Cpus : pc'[d] = pc[d] \/ (pc'[d] = "run" /\ d = c)
    BY Zenon, <1>a
  <2>3. outgoing[c] = NONE
    BY ZenonT(60) DEF SwitchInv, Switching
  <2>4. UNCHANGED <<outgoing, encoded, retiring, bottom>>
    BY Zenon, <1>a
  <2>5. SwitchInv
    OBVIOUS
  <2> HIDE <1>1, <1>b, Names DEF StackPart
  <2> QED
    BY ZenonT(60), <2>1, <2>2, <2>3, <2>4, <2>5 DEF SwitchInv
<1>3. RecordInv'
  BY SMTT(30), <1>a DEF RecordInv
<1>4. OwnerInv'
  <2>1. \A d \in Cpus, u \in Tasks : Holds(d, u)' => Holds(d, u)
    BY SMTT(30), <1>a DEF Holds, SwitchInv
  <2> QED
    BY SMTT(30), <1>a, <2>1 DEF OwnerInv
<1>5. HandoffInv'
  <2>1. \A t \in Tasks : status[t] = "SwitchingOut" => status'[t] = "SwitchingOut"
    OBVIOUS
  <2>2. \A d \in Cpus : encoded[d] => outgoing[d] \in Tasks
    BY Zenon DEF SwitchInv
  <2>3. \A d \in Cpus : encoded[d] => status'[outgoing[d]] = "SwitchingOut"
    BY ZenonT(60), <2>1, <2>2 DEF HandoffInv
  <2>4. \A d \in Cpus : handoff[d] # NONE => status'[handoff[d]] = "SwitchingOut"
    BY ZenonT(60), <2>1 DEF HandoffInv
  <2> QED
    BY SMTT(30), <1>a, <2>3, <2>4 DEF HandoffInv
<1>6. SavedInv'
  BY SMTT(30), <1>a DEF SavedInv, OnOldStack
<1>7. PlaceInv'
  BY SMTT(30), <1>a DEF PlaceInv, OnOldStack
<1>8. StackInv'
  BY <1>a DEF StackInv
<1> QED
  BY Zenon, <1>2, <1>3, <1>4, <1>5, <1>6, <1>7, <1>8

----------------------------------------------------------------------------

\* kaguya_prepare_switch.
LEMMA PrepareStep ==
  ASSUME TypeOK, StackPart, NEW c \in Cpus, PrepareSwitch(c)
  PROVE  StackPart'
<1>1. /\ pc \in [Cpus -> Phases] /\ status \in [Tasks -> Statuses]
      /\ cur \in [Cpus -> {NONE} \cup Tasks]
      /\ outgoing \in [Cpus -> {NONE} \cup Tasks]
      /\ handoff \in [Cpus -> {NONE} \cup Tasks]
      /\ next \in [Cpus -> {NONE} \cup Tasks]
      /\ root \in [Cpus -> {NONE} \cup Tasks]
  BY Zenon DEF TypeOK, TaskTypeOK, CpuTypeOK, SharedTypeOK
<1>a. /\ pc[c] = "prep" /\ pc' = [pc EXCEPT ![c] = "save"]
      /\ root' = [root EXCEPT ![c] = cur[c]]
      /\ UNCHANGED <<status, onCpu, bottom, saved, cur, next, outgoing,
                     encoded, retiring, rsp, handoff, retired, freeStacks, len>>
  BY Zenon DEF PrepareSwitch, taskVars, sharedVars
<1> USE <1>1, <1>a, Names DEF StackPart
<1>2. SwitchInv'
  BY Zenon DEF SwitchInv, Switching
<1>3. RecordInv'
  BY Zenon DEF RecordInv
<1>4. OwnerInv'
  <2>1. \A d \in Cpus, u \in Tasks : Holds(d, u)' => Holds(d, u)
    BY Zenon DEF Holds, SwitchInv
  <2> QED
    BY Zenon, <2>1 DEF OwnerInv
<1>5. HandoffInv'
  BY Zenon DEF HandoffInv
<1>6. SavedInv'
  BY Zenon DEF SavedInv, OnOldStack
<1>7. PlaceInv'
  BY Zenon DEF PlaceInv, OnOldStack
<1>8. StackInv'
  BY Zenon DEF StackInv
<1> QED
  BY Zenon, <1>2, <1>3, <1>4, <1>5, <1>6, <1>7, <1>8

\* The old stack pointer is stored and the new one loaded.
LEMMA SwitchStackStep ==
  ASSUME TypeOK, StackPart, NEW c \in Cpus, SwitchStack(c)
  PROVE  StackPart'
<1>1. /\ pc \in [Cpus -> Phases] /\ status \in [Tasks -> Statuses]
      /\ cur \in [Cpus -> {NONE} \cup Tasks]
      /\ outgoing \in [Cpus -> {NONE} \cup Tasks]
      /\ handoff \in [Cpus -> {NONE} \cup Tasks]
      /\ next \in [Cpus -> {NONE} \cup Tasks]
      /\ encoded \in [Cpus -> BOOLEAN]
      /\ retiring \in [Cpus -> Stacks \cup {NULL}]
      /\ saved \in [Tasks -> BOOLEAN]
      /\ rsp \in [Cpus -> Stacks \cup {NULL}]
  BY Zenon DEF TypeOK, TaskTypeOK, CpuTypeOK, SharedTypeOK
<1>a. /\ pc[c] = "save"
      /\ saved' = [t \in Tasks |-> IF t = cur[c] THEN FALSE
                                   ELSE saved[t] \/ t = outgoing[c]]
      /\ rsp' = [rsp EXCEPT ![c] = IF cur[c] = NONE THEN NULL
                                   ELSE bottom[cur[c]]]
      /\ IF outgoing[c] = NONE THEN Finish(c) ELSE GoOn(c, "release")
      /\ UNCHANGED <<status, onCpu, bottom, cur, next, root, handoff, retired,
                     freeStacks, len>>
  BY Zenon DEF SwitchStack, sharedVars
<1>b. /\ UNCHANGED outgoing
      /\ pc' = [pc EXCEPT ![c] = IF outgoing[c] = NONE THEN "run" ELSE "release"]
      /\ outgoing[c] = NONE => ~encoded[c] /\ retiring[c] = NULL
      /\ UNCHANGED <<encoded, retiring>>
  <2>1. outgoing[c] = NONE => encoded[c] = FALSE /\ retiring[c] = NULL
    BY Zenon, <1>1 DEF StackPart, SwitchInv
  <2>2. CASE outgoing[c] = NONE
    <3>1. /\ outgoing' = [outgoing EXCEPT ![c] = NONE]
          /\ encoded' = [encoded EXCEPT ![c] = FALSE]
          /\ retiring' = [retiring EXCEPT ![c] = NULL]
          /\ pc' = [pc EXCEPT ![c] = "run"]
      BY Zenon, <1>a, <2>2 DEF Finish
    <3>2. outgoing' = outgoing
      BY Zenon, <1>1, <2>2, <3>1
    <3>3. encoded' = encoded
      BY Zenon, <1>1, <2>1, <2>2, <3>1
    <3>4. retiring' = retiring
      BY Zenon, <1>1, <2>1, <2>2, <3>1
    <3> QED
      BY Zenon, <2>1, <2>2, <3>1, <3>2, <3>3, <3>4
  <2>3. CASE outgoing[c] # NONE
    BY Zenon, <1>1, <1>a, <2>3 DEF GoOn
  <2> QED
    BY Zenon, <2>1, <2>2, <2>3
<1> USE <1>1, <1>b, Names DEF StackPart
<1>2. SwitchInv'
  BY Zenon, <1>a DEF SwitchInv, Switching
<1>3. RecordInv'
  BY Zenon, <1>a DEF RecordInv
<1>4. OwnerInv'
  <2>1. \A d \in Cpus, u \in Tasks : Holds(d, u)' => Holds(d, u)
    BY Zenon, <1>a DEF Holds
  <2> QED
    BY Zenon, <1>a, <2>1 DEF OwnerInv
<1>5. HandoffInv'
  BY Zenon, <1>a DEF HandoffInv
<1>6. SavedInv'
  <2>1. \A d \in Cpus : d # c /\ cur[d] # NONE => cur[d] # cur[c]
    BY ZenonT(60) DEF OwnerInv, Holds
  <2>2. cur[c] # NONE => onCpu[cur[c]] /\ \A d \in Cpus : outgoing[d] # cur[c]
    BY ZenonT(60) DEF OwnerInv, Holds
  <2>3. \A d \in Cpus : pc'[d] \in OnOldStack => d # c /\ pc[d] \in OnOldStack
    BY Zenon, <1>a DEF OnOldStack
  <2>4. \A d \in Cpus : pc'[d] = "release" => d = c \/ pc[d] = "release"
    BY Zenon, <1>a
  <2>5. \A d \in Cpus : pc'[d] = "release" => outgoing[d] \in Tasks
    BY Zenon, <1>a DEF SwitchInv
  <2>6. \A t \in Tasks : saved[t] /\ t # cur[c] => saved'[t]
    BY Zenon, <1>a
  <2>7. \A t \in Tasks : status'[t] # "Absent" /\ ~onCpu'[t] => saved'[t]
    BY Zenon, <1>a, <2>2, <2>6 DEF SavedInv
  <2>8. \A d \in Cpus : pc'[d] \in OnOldStack /\ cur'[d] # NONE => saved'[cur'[d]]
    BY ZenonT(60), <1>a, <2>1, <2>3, <2>6 DEF SavedInv
  <2>9. \A d \in Cpus : pc'[d] = "release" => saved'[outgoing'[d]]
    <3>1. outgoing[c] \in Tasks => outgoing[c] # cur[c] /\ saved'[outgoing[c]]
      BY ZenonT(60), <1>a DEF OwnerInv
    <3>2. \A d \in Cpus : pc[d] = "release" => outgoing[d] # cur[c]
      BY ZenonT(60), <2>2 DEF SwitchInv, OwnerInv
    <3> QED
      BY ZenonT(60), <2>4, <2>5, <2>6, <3>1, <3>2 DEF SavedInv
  <2> QED
    BY Zenon, <2>7, <2>8, <2>9 DEF SavedInv
<1>7. PlaceInv'
  BY Zenon, <1>a DEF PlaceInv, OnOldStack
<1>8. StackInv'
  BY Zenon, <1>a DEF StackInv
<1> QED
  BY Zenon, <1>2, <1>3, <1>4, <1>5, <1>6, <1>7, <1>8

\* What a finished, or continued, switch leaves in its locals.
LEMMA LocalsAfter ==
  ASSUME TypeOK, NEW c \in Cpus, NEW p \in Phases, Finish(c) \/ GoOn(c, p)
  PROVE  /\ \A d \in Cpus : /\ outgoing'[d] \in {NONE, outgoing[d]}
                            /\ encoded'[d] => encoded[d]
                            /\ retiring'[d] \in {NULL, retiring[d]}
         /\ \A d \in Cpus \ {c} : /\ pc'[d] = pc[d]
                                  /\ outgoing'[d] = outgoing[d]
                                  /\ encoded'[d] = encoded[d]
                                  /\ retiring'[d] = retiring[d]
         /\ \/ /\ pc'[c] = "run" /\ outgoing'[c] = NONE /\ ~encoded'[c]
               /\ retiring'[c] = NULL
            \/ /\ pc'[c] = p /\ outgoing'[c] = outgoing[c]
               /\ encoded'[c] = encoded[c] /\ retiring'[c] = retiring[c]
         /\ Finish(c) => pc'[c] = "run" /\ outgoing'[c] = NONE
                         /\ ~encoded'[c] /\ retiring'[c] = NULL
         /\ GoOn(c, p) => pc'[c] = p /\ outgoing'[c] = outgoing[c]
                         /\ encoded'[c] = encoded[c] /\ retiring'[c] = retiring[c]
<1>1. /\ pc \in [Cpus -> Phases]
      /\ outgoing \in [Cpus -> {NONE} \cup Tasks]
      /\ encoded \in [Cpus -> BOOLEAN]
      /\ retiring \in [Cpus -> Stacks \cup {NULL}]
  BY Zenon DEF TypeOK, TaskTypeOK, CpuTypeOK, SharedTypeOK
<1>2. CASE Finish(c)
  BY ZenonT(60), <1>1, <1>2 DEF Finish, GoOn
<1>3. CASE GoOn(c, p)
  BY Zenon, <1>1, <1>3 DEF Finish, GoOn
<1> QED
  BY ZenonT(60), <1>2, <1>3

\* A CPU that has left a stack: clearing on_cpu, and the acknowledgements.
LEMMA LeaveStep ==
  ASSUME TypeOK, StackPart, NEW c \in Cpus, NEW p \in {"handoff", "retire"},
         pc[c] \in {"release", "handoff", "retire"},
         Finish(c) \/ (pc[c] = "release" /\ GoOn(c, p)),
         GoOn(c, p) => (p = "handoff" => encoded[c])
                       /\ (p = "retire" => retiring[c] # NULL),
         UNCHANGED <<status, saved, bottom, cur, next, rsp, root, freeStacks, len>>
  PROVE  SwitchInv' /\ RecordInv' /\ PlaceInv'
         /\ \A d \in Cpus, t \in Tasks : Holds(d, t)' => Holds(d, t)
<1>1. /\ \A d \in Cpus \ {c} : /\ pc'[d] = pc[d]
                               /\ outgoing'[d] = outgoing[d]
                               /\ encoded'[d] = encoded[d]
                               /\ retiring'[d] = retiring[d]
      /\ \/ /\ pc'[c] = "run" /\ outgoing'[c] = NONE /\ ~encoded'[c]
            /\ retiring'[c] = NULL
         \/ /\ pc'[c] = p /\ outgoing'[c] = outgoing[c]
            /\ encoded'[c] = encoded[c] /\ retiring'[c] = retiring[c]
            /\ p = "handoff" => encoded[c]
            /\ p = "retire" => retiring[c] # NULL
  BY Zenon, LocalsAfter DEF Phases
<1> USE <1>1, Names DEF StackPart
<1>2. SwitchInv'
  <2> SUFFICES ASSUME NEW d \in Cpus
               PROVE  /\ outgoing'[d] # NONE => pc'[d] \in Switching
                      /\ pc'[d] \in {"release", "handoff", "retire"} => outgoing'[d] # NONE
                      /\ encoded'[d] => outgoing'[d] # NONE
                      /\ pc'[d] = "handoff" => encoded'[d]
                      /\ retiring'[d] # NULL => /\ outgoing'[d] # NONE
                                                /\ status[outgoing'[d]] = "Zombie"
                                                /\ retiring'[d] = bottom[outgoing'[d]]
                      /\ pc'[d] = "retire" => retiring'[d] # NULL
    BY Zenon DEF SwitchInv
  <2>1. CASE d = c
    <3>1. CASE pc'[c] = "run" /\ outgoing'[c] = NONE /\ ~encoded'[c] /\ retiring'[c] = NULL
      BY Zenon, <2>1, <3>1
    <3>2. CASE /\ pc'[c] = p /\ outgoing'[c] = outgoing[c]
               /\ encoded'[c] = encoded[c] /\ retiring'[c] = retiring[c]
      <4>1. outgoing[c] # NONE /\ pc'[c] \in Switching
        BY Zenon, <3>2 DEF SwitchInv, Switching
      <4> QED
        BY Zenon, <2>1, <3>2, <4>1 DEF SwitchInv
    <3> QED
      BY Zenon, <3>1, <3>2
  <2>2. CASE d # c
    BY <2>2 DEF SwitchInv
  <2> QED
    BY Zenon, <2>1, <2>2
<1>3. RecordInv'
  BY DEF RecordInv
<1>4. PlaceInv'
  BY DEF PlaceInv, OnOldStack
<1>5. \A d \in Cpus, t \in Tasks : Holds(d, t)' => Holds(d, t)
  BY Zenon DEF Holds
<1> QED
  BY ONLY <1>2, <1>3, <1>4, <1>5

\* on_cpu is cleared once the stack pointer is saved.
LEMMA ReleaseStep ==
  ASSUME TypeOK, StackPart, NEW c \in Cpus, Release(c)
  PROVE  StackPart'
<1>1. /\ cur \in [Cpus -> {NONE} \cup Tasks]
      /\ outgoing \in [Cpus -> {NONE} \cup Tasks]
      /\ handoff \in [Cpus -> {NONE} \cup Tasks]
      /\ onCpu \in [Tasks -> BOOLEAN]
  BY Zenon DEF TypeOK, TaskTypeOK, CpuTypeOK, SharedTypeOK
<1>0. PICK p \in {"handoff", "retire"} :
         /\ Finish(c) \/ GoOn(c, p)
         /\ GoOn(c, p) => (p = "handoff" => encoded[c])
                          /\ (p = "retire" => retiring[c] # NULL)
  <2>1. CASE encoded[c]
    BY Zenon, <2>1 DEF Release
  <2>2. CASE ~encoded[c] /\ retiring[c] # NULL
    BY Zenon, <2>2 DEF Release
  <2>3. CASE ~encoded[c] /\ retiring[c] = NULL
    <3>1. Finish(c)
      BY Zenon, <2>3 DEF Release
    <3>2. pc \in [Cpus -> Phases]
      BY Zenon DEF TypeOK, TaskTypeOK, CpuTypeOK, SharedTypeOK
    <3>3. ~GoOn(c, "handoff")
      BY Zenon, <3>1, <3>2 DEF Finish, GoOn
    <3> QED
      BY Zenon, <3>1, <3>3
  <2> QED
    BY Zenon, <2>1, <2>2, <2>3
<1>a. /\ pc[c] = "release" /\ (Finish(c) \/ GoOn(c, p))
      /\ onCpu' = [onCpu EXCEPT ![outgoing[c]] = FALSE]
      /\ UNCHANGED <<status, bottom, saved, cur, next, rsp, root, handoff,
                     retired, freeStacks, len>>
  BY Zenon, <1>0 DEF Release, sharedVars
<1>c. /\ SwitchInv' /\ RecordInv' /\ PlaceInv'
      /\ \A d \in Cpus, t \in Tasks : Holds(d, t)' => Holds(d, t)
  BY Zenon, <1>0, <1>a, LeaveStep
<1>d. /\ \A d \in Cpus : /\ outgoing'[d] = NONE \/ outgoing'[d] = outgoing[d]
                         /\ encoded'[d] => encoded[d]
      /\ \A d \in Cpus : d # c => pc'[d] = pc[d] /\ outgoing'[d] = outgoing[d]
      /\ pc'[c] \notin {"prep", "save", "release"}
  BY Zenon, <1>a, LocalsAfter DEF Phases
<1>f. UNCHANGED <<status, bottom, cur, next, freeStacks>>
  BY Zenon, <1>a
<1>g. \A d, e \in Cpus : outgoing'[d] # NONE =>
         /\ outgoing'[d] = outgoing[d] /\ outgoing'[d] # cur'[e]
         /\ e # d => outgoing'[d] # outgoing'[e]
  <2> SUFFICES ASSUME NEW d \in Cpus, NEW e \in Cpus, outgoing'[d] # NONE
               PROVE  /\ outgoing'[d] = outgoing[d] /\ outgoing'[d] # cur'[e]
                      /\ e # d => outgoing'[d] # outgoing'[e]
    OBVIOUS
  <2>1. outgoing'[d] = outgoing[d] /\ outgoing'[e] \in {NONE, outgoing[e]}
    BY Zenon, <1>d
  <2>2. outgoing[d] # cur[e] /\ (e # d => outgoing[d] # outgoing[e])
    BY SMTT(30), <2>1 DEF StackPart, OwnerInv
  <2> QED
    BY Zenon, <1>f, <2>1, <2>2
<1>e. outgoing[c] \in Tasks /\ saved[outgoing[c]]
  BY Zenon, <1>1, <1>a, Names DEF StackPart, SwitchInv, SavedInv
<1> USE <1>1, Names DEF StackPart
<1>4. OwnerInv'
  <2>1. \A d \in Cpus : Holds(d, outgoing[c]) => d = c
    BY Zenon, <1>a, <1>e DEF OwnerInv, Holds
  <2>2. \A t \in Tasks : Holds(c, t)' => t # outgoing[c]
    BY <1>a, <1>d, <1>e DEF OwnerInv, Holds
  <2>3. \A d \in Cpus, t \in Tasks : Holds(d, t)' => t # outgoing[c]
    BY Zenon, <1>c, <1>e, <2>1, <2>2
  <2>4. \A d \in Cpus, t \in Tasks : Holds(d, t)' => onCpu'[t]
    BY Zenon, <1>a, <1>c, <1>e, <2>3 DEF OwnerInv
  <2>5. \A d, e \in Cpus, t \in Tasks : Holds(d, t)' /\ Holds(e, t)' => d = e
    BY Zenon, <1>c DEF OwnerInv
  <2>7. \A d \in Cpus : next'[d] # NONE => /\ status'[next'[d]] = "Claimed"
                                           /\ ~onCpu'[next'[d]]
    <3>1. next \in [Cpus -> {NONE} \cup Tasks]
      BY Zenon DEF TypeOK, TaskTypeOK, CpuTypeOK, SharedTypeOK
    <3> QED
      BY Zenon, <1>a, <1>e, <3>1 DEF OwnerInv
  <2> QED
    BY Zenon, <1>g, <2>4, <2>5, <2>7 DEF OwnerInv
<1>5. HandoffInv'
  <2>1. UNCHANGED <<status, cur, handoff>>
    BY SMTT(30), <1>a
  <2>2. \A d \in Cpus : encoded'[d] => encoded[d] /\ outgoing'[d] = outgoing[d]
    BY Zenon, <1>c, <1>d DEF SwitchInv
  <2>3. \A d \in Cpus : outgoing'[d] \in {NONE, outgoing[d]}
    BY Zenon, <1>d
  <2> HIDE <1>1
  <2> QED
    BY <2>1, <2>2, <2>3 DEF HandoffInv
<1>6. SavedInv'
  BY Zenon, <1>a, <1>d, <1>e DEF SavedInv, OnOldStack
<1>8. StackInv'
  <2>1. \A d \in Cpus, t \in Tasks : outgoing[d] # t => outgoing'[d] # t
    BY Zenon, <1>d
  <2>2. \A d \in Cpus : outgoing'[d] # NONE /\ pc'[d] \in {"prep", "save", "release"}
            => bottom[outgoing'[d]] # NULL
    BY ZenonT(40), <1>d DEF StackInv
  <2> QED
    BY Zenon, <1>a, <2>1, <2>2 DEF StackInv
<1> QED
  BY Zenon, <1>c, <1>4, <1>5, <1>6, <1>8

\* The handoff slot takes over the task the CPU has left.
LEMMA PublishHandoffStep ==
  ASSUME TypeOK, StackPart, NEW c \in Cpus, PublishHandoff(c)
  PROVE  StackPart'
<1>1. /\ cur \in [Cpus -> {NONE} \cup Tasks]
      /\ outgoing \in [Cpus -> {NONE} \cup Tasks]
      /\ handoff \in [Cpus -> {NONE} \cup Tasks]
      /\ onCpu \in [Tasks -> BOOLEAN]
  BY Zenon DEF TypeOK, TaskTypeOK, CpuTypeOK, SharedTypeOK
<1> DEFINE p == "handoff"
<1>a. /\ pc[c] = "handoff" /\ Finish(c)
      /\ handoff' = [handoff EXCEPT ![c] = outgoing[c]]
      /\ UNCHANGED <<status, onCpu, bottom, saved, cur, next, rsp, root,
                     retired, freeStacks, len>>
  BY Zenon DEF PublishHandoff, taskVars
<1>b. ~GoOn(c, "handoff")
  BY Zenon, <1>a DEF TypeOK, CpuTypeOK, Finish, GoOn
<1>c. /\ SwitchInv' /\ RecordInv' /\ PlaceInv'
      /\ \A d \in Cpus, t \in Tasks : Holds(d, t)' => Holds(d, t)
  BY SMTT(30), <1>a, <1>b, LeaveStep
<1>d. /\ \A d \in Cpus : /\ outgoing'[d] = NONE \/ outgoing'[d] = outgoing[d]
                         /\ encoded'[d] => encoded[d]
      /\ \A d \in Cpus : d # c => pc'[d] = pc[d] /\ outgoing'[d] = outgoing[d]
      /\ pc'[c] \notin {"prep", "save", "release"}
  BY Zenon, <1>a, LocalsAfter DEF Phases
<1>f. UNCHANGED <<status, bottom, cur, next, freeStacks>>
  BY Zenon, <1>a
<1>g. \A d, e \in Cpus : outgoing'[d] # NONE =>
         /\ outgoing'[d] = outgoing[d] /\ outgoing'[d] # cur'[e]
         /\ e # d => outgoing'[d] # outgoing'[e]
  <2> SUFFICES ASSUME NEW d \in Cpus, NEW e \in Cpus, outgoing'[d] # NONE
               PROVE  /\ outgoing'[d] = outgoing[d] /\ outgoing'[d] # cur'[e]
                      /\ e # d => outgoing'[d] # outgoing'[e]
    OBVIOUS
  <2>1. outgoing'[d] = outgoing[d] /\ outgoing'[e] \in {NONE, outgoing[e]}
    BY Zenon, <1>d
  <2>2. outgoing[d] # cur[e] /\ (e # d => outgoing[d] # outgoing[e])
    BY Zenon, <2>1 DEF StackPart, OwnerInv
  <2> QED
    BY Zenon, <1>f, <2>1, <2>2
<1>e. /\ outgoing[c] \in Tasks /\ encoded[c] /\ outgoing'[c] = NONE
      /\ status[outgoing[c]] = "SwitchingOut"
  BY ZenonT(60), <1>1, <1>a, LocalsAfter, Names DEF StackPart, SwitchInv, HandoffInv, Phases
<1> USE <1>1, Names DEF StackPart
<1>4. OwnerInv'
  BY SMTT(30), <1>a, <1>c, <1>g DEF OwnerInv
<1>5. HandoffInv'
  <2>1. \A d \in Cpus : /\ cur'[d] # outgoing[c] /\ outgoing'[d] # outgoing[c]
                        /\ handoff[d] # outgoing[c]
    <3>1. \A d \in Cpus : cur[d] # outgoing[c] /\ (d # c => outgoing[d] # outgoing[c])
      BY Zenon, <1>e DEF OwnerInv
    <3>2. \A d \in Cpus : handoff[d] # outgoing[c]
      BY Zenon, <1>e DEF HandoffInv
    <3> QED
      BY Zenon, <1>d, <1>e, <1>f, <3>1, <3>2
  <2>2. \A d \in Cpus : encoded'[d] => encoded[d] /\ outgoing'[d] = outgoing[d]
    BY Zenon, <1>c, <1>d DEF SwitchInv
  <2>3. \A d \in Cpus : outgoing'[d] \in {NONE, outgoing[d]}
    BY Zenon, <1>d
  <2>4. /\ handoff'[c] = outgoing[c] /\ \A d \in Cpus : d # c => handoff'[d] = handoff[d]
    BY <1>a
  <2> HIDE <1>1
  <2>5. \A d \in Cpus : encoded'[d] => status'[outgoing'[d]] = "SwitchingOut"
    BY Zenon, <1>f, <2>2 DEF HandoffInv
  <2>6. ASSUME NEW d \in Cpus, handoff'[d] # NONE
        PROVE  /\ status'[handoff'[d]] = "SwitchingOut"
               /\ \A e \in Cpus :
                    /\ cur'[e] # handoff'[d] /\ outgoing'[e] # handoff'[d]
                    /\ e # d => handoff'[e] # handoff'[d]
    <3>1. CASE d = c
      BY Zenon, <1>e, <1>f, <2>1, <2>4, <3>1
    <3>2. CASE d # c
      <4>1. handoff'[d] = handoff[d] /\ handoff[d] # NONE
        BY Zenon, <2>4, <2>6, <3>2
      <4>2. /\ status[handoff[d]] = "SwitchingOut"
            /\ \A e \in Cpus : /\ cur[e] # handoff[d] /\ outgoing[e] # handoff[d]
                               /\ e # d => handoff[e] # handoff[d]
        BY Zenon, <4>1 DEF HandoffInv
      <4>3. \A e \in Cpus : e # d => handoff'[e] # handoff[d]
        BY Zenon, <2>1, <2>4, <4>2
      <4> QED
        BY Zenon, <1>f, <2>3, <4>1, <4>2, <4>3
    <3> QED
      BY Zenon, <3>1, <3>2
  <2> QED
    BY Zenon, <2>5, <2>6 DEF HandoffInv
<1>6. SavedInv'
  BY Zenon, <1>a, <1>d DEF SavedInv, OnOldStack
<1>8. StackInv'
  <2>1. \A d \in Cpus, t \in Tasks : outgoing[d] # t => outgoing'[d] # t
    BY Zenon, <1>d
  <2>2. \A d \in Cpus : outgoing'[d] # NONE /\ pc'[d] \in {"prep", "save", "release"}
            => bottom[outgoing'[d]] # NULL
    BY Zenon, <1>d DEF StackInv
  <2> QED
    BY Zenon, <1>a, <2>1, <2>2 DEF StackInv
<1> QED
  BY Zenon, <1>c, <1>4, <1>5, <1>6, <1>8

\* A retired stack is one whose zombie is off every CPU; a full RETIRED array
\* drops the acknowledgement.
LEMMA PublishRetiredStep ==
  ASSUME TypeOK, StackPart, NEW c \in Cpus, PublishRetired(c)
  PROVE  StackPart'
<1>1. /\ cur \in [Cpus -> {NONE} \cup Tasks]
      /\ outgoing \in [Cpus -> {NONE} \cup Tasks]
      /\ handoff \in [Cpus -> {NONE} \cup Tasks]
      /\ onCpu \in [Tasks -> BOOLEAN]
  BY Zenon DEF TypeOK, TaskTypeOK, CpuTypeOK, SharedTypeOK
<1> DEFINE p == "retire"
<1>a. /\ pc[c] = "retire" /\ Finish(c)
      /\ retired' \in {retired, retired \cup {retiring[c]}}
      /\ UNCHANGED <<status, onCpu, bottom, saved, cur, next, rsp, root,
                     handoff, freeStacks, len>>
  BY Zenon DEF PublishRetired, taskVars
<1>b. ~GoOn(c, "retire")
  BY SMTT(30), <1>a DEF TypeOK, CpuTypeOK, Finish, GoOn
<1>c. /\ SwitchInv' /\ RecordInv' /\ PlaceInv'
      /\ \A d \in Cpus, t \in Tasks : Holds(d, t)' => Holds(d, t)
  BY SMTT(30), <1>a, <1>b, LeaveStep
<1>d. /\ \A d \in Cpus : /\ outgoing'[d] = NONE \/ outgoing'[d] = outgoing[d]
                         /\ encoded'[d] => encoded[d]
      /\ \A d \in Cpus : d # c => pc'[d] = pc[d] /\ outgoing'[d] = outgoing[d]
      /\ pc'[c] \notin {"prep", "save", "release"}
  BY Zenon, <1>a, LocalsAfter DEF Phases
<1>f. UNCHANGED <<status, bottom, cur, next, freeStacks>>
  BY SMTT(30), <1>a
<1>g. \A d, e \in Cpus : outgoing'[d] # NONE =>
         /\ outgoing'[d] = outgoing[d] /\ outgoing'[d] # cur'[e]
         /\ e # d => outgoing'[d] # outgoing'[e]
  <2> SUFFICES ASSUME NEW d \in Cpus, NEW e \in Cpus, outgoing'[d] # NONE
               PROVE  /\ outgoing'[d] = outgoing[d] /\ outgoing'[d] # cur'[e]
                      /\ e # d => outgoing'[d] # outgoing'[e]
    OBVIOUS
  <2>1. outgoing'[d] = outgoing[d] /\ outgoing'[e] \in {NONE, outgoing[e]}
    BY Zenon, <1>d
  <2>2. outgoing[d] # cur[e] /\ (e # d => outgoing[d] # outgoing[e])
    BY Zenon, <2>1 DEF StackPart, OwnerInv
  <2> QED
    BY Zenon, <1>f, <2>1, <2>2
<1>e. /\ outgoing[c] \in Tasks /\ outgoing'[c] = NONE
      /\ status[outgoing[c]] = "Zombie" /\ retiring[c] # NULL
      /\ retiring[c] = bottom[outgoing[c]]
  BY SMTT(30), <1>1, <1>a, LocalsAfter, Names DEF StackPart, SwitchInv, Phases
<1> USE <1>1, Names DEF StackPart
<1>4. OwnerInv'
  BY Zenon, <1>a, <1>c, <1>g DEF OwnerInv
<1>5. HandoffInv'
  <2>1. UNCHANGED <<status, cur, handoff>>
    BY SMTT(30), <1>a
  <2>2. \A d \in Cpus : encoded'[d] => encoded[d] /\ outgoing'[d] = outgoing[d]
    BY ZenonT(60), <1>c, <1>d DEF SwitchInv
  <2>3. \A d \in Cpus : outgoing'[d] \in {NONE, outgoing[d]}
    BY Zenon, <1>d
  <2> HIDE <1>1
  <2> QED
    BY <2>1, <2>2, <2>3 DEF HandoffInv
<1>6. SavedInv'
  BY SMTT(30), <1>a, <1>d DEF SavedInv, OnOldStack
<1>8. StackInv'
  <2>1. \A d \in Cpus : cur'[d] # outgoing[c] /\ outgoing'[d] # outgoing[c]
    <3>1. \A d \in Cpus : cur[d] # outgoing[c] /\ (d # c => outgoing[d] # outgoing[c])
      BY Zenon, <1>e DEF OwnerInv
    <3> QED
      BY Zenon, <1>d, <1>e, <1>f, <3>1
  <2>2. \A t \in Tasks : bottom[t] = retiring[c] => t = outgoing[c]
    BY ZenonT(60), <1>e DEF StackInv
  <2>3. retiring[c] \notin freeStacks
    BY ZenonT(60), <1>e DEF StackInv
  <2> QED
    BY SMTT(30), <1>a, <1>d, <1>e, <2>1, <2>2, <2>3 DEF StackInv
<1> QED
  BY Zenon, <1>c, <1>4, <1>5, <1>6, <1>8


----------------------------------------------------------------------------
(* Types and the lock.                                                     *)

\* Types are preserved by every step.
LEMMA TypeStep ==
  ASSUME TypeOK, LockInv, SwitchInv, [Next]_vars
  PROVE  TypeOK'
<1> USE Names DEF TypeOK
<1>1. ASSUME NEW c \in Cpus, CallSchedule(c) PROVE TypeOK'
  <2>1. TaskTypeOK' /\ SharedTypeOK'
    BY Zenon, <1>1 DEF CallSchedule, taskVars, switchVars, sharedVars, TaskTypeOK,
       SharedTypeOK
  <2>2. CpuTypeOK'
    BY Zenon, <1>1 DEF CallSchedule, taskVars, switchVars, sharedVars, CpuTypeOK,
       Phases
  <2> QED
    BY Zenon, <2>1, <2>2
<1>2. ASSUME NEW c \in Cpus, ScheduleEnter(c) PROVE TypeOK'
  <2>1. TaskTypeOK'
    BY Zenon, <1>2 DEF ScheduleEnter, taskVars, switchVars, TaskTypeOK
  <2>2. CpuTypeOK'
    BY Zenon, <1>2 DEF ScheduleEnter, taskVars, switchVars, CpuTypeOK, Phases
  <2>3. SharedTypeOK'
    <3>1. scan' \in 0 .. (MaxTasks + 1)
      BY <1>2, MaxTasksAssumption DEF ScheduleEnter, Maintaining, SharedTypeOK
    <3> QED
      BY Zenon, <1>2, <3>1 DEF ScheduleEnter, SharedTypeOK
  <2> QED
    BY Zenon, <2>1, <2>2, <2>3
<1>3. ASSUME NEW c \in Cpus, AddUser(c) PROVE TypeOK'
  <2>1. CpuTypeOK'
    BY Zenon, <1>3 DEF AddUser, cpuVars, CpuTypeOK
  <2>2. TaskTypeOK'
    <3>1. PICK s \in freeStacks : bottom' = [bottom EXCEPT ![len + 1] = s]
      BY ZenonT(60), <1>3 DEF AddUser
    <3>2. PICK home \in Cpus :
             /\ affinity' = [affinity EXCEPT ![len + 1] = home]
             /\ pinned' = [pinned EXCEPT ![len + 1] = PinOf(home)]
      BY ZenonT(60), <1>3 DEF AddUser
    <3> QED
      BY ZenonT(60), <1>3, <3>1, <3>2 DEF AddUser, PinOf, TaskTypeOK, SharedTypeOK, Statuses
  <2>3. SharedTypeOK'
    <3>1. len' \in 0 .. MaxTasks
      BY <1>3, MaxTasksAssumption DEF AddUser, SharedTypeOK
    <3> QED
      BY Zenon, <1>3, <3>1 DEF AddUser, SharedTypeOK
  <2> QED
    BY Zenon, <2>1, <2>2, <2>3
<1>4. ASSUME NEW c \in Cpus, Exit(c) PROVE TypeOK'
  <2>1. SharedTypeOK'
    BY Zenon, <1>4 DEF Exit, switchVars, sharedVars, SharedTypeOK
  <2>2. TaskTypeOK'
    BY Zenon, <1>4 DEF Exit, Calling, switchVars, sharedVars, TaskTypeOK, Statuses,
       CpuTypeOK
  <2>3. CpuTypeOK'
    BY Zenon, <1>4 DEF Exit, Calling, switchVars, sharedVars, CpuTypeOK, Phases
  <2> QED
    BY Zenon, <2>1, <2>2, <2>3
<1>5. ASSUME NEW c \in Cpus, Collect(c) PROVE TypeOK'
  <2>1. TaskTypeOK'
    BY Zenon, <1>5 DEF Collect, taskVars, switchVars, TaskTypeOK
  <2>2. CpuTypeOK'
    BY Zenon, <1>5 DEF Collect, taskVars, switchVars, CpuTypeOK, Phases
  <2>3. SharedTypeOK'
    <3>1. scan' \in 0 .. (MaxTasks + 1)
      BY <1>5, MaxTasksAssumption DEF Collect, Maintaining, SharedTypeOK
    <3> QED
      BY Zenon, <1>5, <3>1 DEF Collect, SharedTypeOK
  <2> QED
    BY Zenon, <2>1, <2>2, <2>3
<1>6. ASSUME NEW c \in Cpus, WaitTaskReturn(c) PROVE TypeOK'
  <2>1. CpuTypeOK' /\ SharedTypeOK'
    BY Zenon, <1>6 DEF WaitTaskReturn, cpuVars, sharedVars, CpuTypeOK, SharedTypeOK
  <2>2. TaskTypeOK'
    BY Zenon, <1>6 DEF WaitTaskReturn, cpuVars, sharedVars, TaskTypeOK, CpuTypeOK
  <2> QED
    BY Zenon, <2>1, <2>2
<1>7. ASSUME NEW c \in Cpus, NEW u \in Tasks, WaitTask(c, u) PROVE TypeOK'
  <2>1. SharedTypeOK'
    BY Zenon, <1>7 DEF WaitTask, switchVars, sharedVars, SharedTypeOK
  <2>2. TaskTypeOK'
    BY Zenon, <1>7 DEF WaitTask, Calling, switchVars, sharedVars, TaskTypeOK,
       Statuses, CpuTypeOK, SharedTypeOK
  <2>3. CpuTypeOK'
    BY Zenon, <1>7 DEF WaitTask, Calling, switchVars, sharedVars, CpuTypeOK,
       Phases, SharedTypeOK
  <2> QED
    BY Zenon, <2>1, <2>2, <2>3
<1>8. ASSUME NEW c \in Cpus, NEW k \in Keys, NEW d \in {0} \cup Deadlines, WaitEvent(c, k, d) PROVE TypeOK'
  <2>1. SharedTypeOK'
    BY Zenon, <1>8 DEF WaitEvent, switchVars, sharedVars, SharedTypeOK
  <2>2. TaskTypeOK'
    BY <1>8 DEF WaitEvent, Calling, Deadlines, switchVars, sharedVars,
       TaskTypeOK, Statuses, CpuTypeOK, SharedTypeOK
  <2>3. CpuTypeOK'
    BY Zenon, <1>8 DEF WaitEvent, Calling, Deadlines, switchVars, sharedVars,
       CpuTypeOK, Phases, SharedTypeOK
  <2> QED
    BY Zenon, <2>1, <2>2, <2>3
<1>9. ASSUME NEW c \in Cpus, NEW d \in {0} \cup Deadlines, Sleep(c, d) PROVE TypeOK'
  <2>1. SharedTypeOK'
    BY Zenon, <1>9 DEF Sleep, switchVars, sharedVars, SharedTypeOK
  <2>2. TaskTypeOK'
    BY <1>9 DEF Sleep, Calling, Deadlines, switchVars, sharedVars,
       TaskTypeOK, Statuses, CpuTypeOK, SharedTypeOK
  <2>3. CpuTypeOK'
    BY Zenon, <1>9 DEF Sleep, Calling, Deadlines, switchVars, sharedVars,
       CpuTypeOK, Phases, SharedTypeOK
  <2> QED
    BY Zenon, <2>1, <2>2, <2>3
<1>10. ASSUME NEW k \in Keys, WakeEvent(k) PROVE TypeOK'
  <2>1. TaskTypeOK' /\ CpuTypeOK'
    BY Zenon, <1>10 DEF WakeEvent, Waiters, taskVars, cpuVars, TaskTypeOK, CpuTypeOK
  <2>2. gen' \in [Keys -> Nat]
    BY <1>10 DEF WakeEvent, SharedTypeOK
  <2>3. SharedTypeOK'
    BY Zenon, <1>10, <2>2 DEF WakeEvent, Waiters, SharedTypeOK
  <2> QED
    BY Zenon, <2>1, <2>3
<1>11. ASSUME NEW k \in Keys, ForgetEvent(k) PROVE TypeOK'
  <2>1. TaskTypeOK' /\ CpuTypeOK'
    BY Zenon, <1>11 DEF ForgetEvent, taskVars, cpuVars, TaskTypeOK, CpuTypeOK
  <2>2. SharedTypeOK'
    BY Zenon, <1>11 DEF ForgetEvent, taskVars, cpuVars, SharedTypeOK, CpuTypeOK
  <2> QED
    BY Zenon, <2>1, <2>2
<1>12. ASSUME WakeEventTask PROVE TypeOK'
  <2>1. CpuTypeOK'
    BY Zenon, <1>12 DEF WakeEventTask, cpuVars, CpuTypeOK
  <2>2. TaskTypeOK'
    BY <1>12 DEF WakeEventTask, MakeRunnable, ClearDeadline, cpuVars, TaskTypeOK, Statuses,
       CpuTypeOK, SharedTypeOK
  <2>3. SharedTypeOK'
    BY Zenon, <1>12 DEF WakeEventTask, MakeRunnable, ClearDeadline, cpuVars, SharedTypeOK, CpuTypeOK
  <2> QED
    BY Zenon, <2>1, <2>2, <2>3
<1>13. ASSUME Tick PROVE TypeOK'
  <2>1. TaskTypeOK' /\ CpuTypeOK'
    BY Zenon, <1>13 DEF Tick, taskVars, cpuVars, TaskTypeOK, CpuTypeOK
  <2>2. SharedTypeOK'
    BY <1>13 DEF Tick, taskVars, cpuVars, SharedTypeOK, CpuTypeOK
  <2> QED
    BY Zenon, <2>1, <2>2
<1>14. ASSUME NEW c \in Cpus, MaintainWake(c) PROVE TypeOK'
  <2>1. CpuTypeOK'
    BY Zenon, <1>14 DEF MaintainWake, cpuVars, CpuTypeOK
  <2>2. TaskTypeOK'
    BY ZenonT(60), <1>14 DEF MaintainWake, MakeRunnable, ClearDeadline, cpuVars, TaskTypeOK, Statuses,
       CpuTypeOK, SharedTypeOK
  <2>3. SharedTypeOK'
    <3>1. scan' \in 0 .. (MaxTasks + 1)
      BY <1>14, MaxTasksAssumption DEF MaintainWake, Maintaining, SharedTypeOK
    <3> QED
      BY Zenon, <1>14, <3>1 DEF MaintainWake, SharedTypeOK
  <2> QED
    BY Zenon, <2>1, <2>2, <2>3
<1>15. ASSUME NEW c \in Cpus, MaintainReap(c) PROVE TypeOK'
  <2>1. CpuTypeOK'
    BY Zenon, <1>15 DEF MaintainReap, cpuVars, CpuTypeOK
  <2>2. TaskTypeOK'
    BY ZenonT(60), <1>15 DEF MaintainReap, Maintaining, Reapable, cpuVars, TaskTypeOK,
       CpuTypeOK
  <2>3. SharedTypeOK'
    <3>1. scan \in Tasks /\ scan' \in 0 .. (MaxTasks + 1)
      BY <1>15, MaxTasksAssumption
         DEF MaintainReap, Maintaining, LockInv, SharedTypeOK, Tasks
    <3>2. bottom[scan] \in Stacks
      BY Zenon, <1>15, <3>1 DEF MaintainReap, Reapable, TaskTypeOK
    <3> QED
      BY Zenon, <1>15, <3>1, <3>2 DEF MaintainReap, Waiters, SharedTypeOK
  <2> QED
    BY Zenon, <2>1, <2>2, <2>3
<1>16. ASSUME NEW c \in Cpus, MaintainWakeWaiter(c) PROVE TypeOK'
  <2>1. CpuTypeOK'
    BY Zenon, <1>16 DEF MaintainWakeWaiter, cpuVars, CpuTypeOK
  <2>2. TaskTypeOK'
    BY <1>16 DEF MaintainWakeWaiter, MakeRunnable, cpuVars, TaskTypeOK,
       Statuses, CpuTypeOK, SharedTypeOK
  <2>3. SharedTypeOK'
    BY Zenon, <1>16 DEF MaintainWakeWaiter, MakeRunnable, cpuVars, SharedTypeOK,
       CpuTypeOK
  <2> QED
    BY Zenon, <2>1, <2>2, <2>3
<1>17. ASSUME NEW c \in Cpus, MaintainSkip(c) PROVE TypeOK'
  <2>1. TaskTypeOK' /\ CpuTypeOK'
    BY Zenon, <1>17 DEF MaintainSkip, taskVars, cpuVars, TaskTypeOK, CpuTypeOK
  <2>2. SharedTypeOK'
    <3>1. scan' \in 0 .. (MaxTasks + 1)
      BY <1>17, MaxTasksAssumption DEF MaintainSkip, Maintaining, SharedTypeOK
    <3> QED
      BY ZenonT(40), <1>17, <3>1 DEF MaintainSkip, SharedTypeOK
  <2> QED
    BY Zenon, <2>1, <2>2
<1>18. ASSUME NEW c \in Cpus, MaintainDone(c) PROVE TypeOK'
  <2>1. TaskTypeOK'
    BY Zenon, <1>18 DEF MaintainDone, taskVars, switchVars, TaskTypeOK
  <2>2. CpuTypeOK'
    BY Zenon, <1>18 DEF MaintainDone, taskVars, switchVars, CpuTypeOK, Phases
  <2>3. SharedTypeOK'
    <3>1. scan' \in 0 .. (MaxTasks + 1)
      BY SMTT(30), <1>18, MaxTasksAssumption DEF MaintainDone, Maintaining, SharedTypeOK
    <3> QED
      BY ZenonT(40), <1>18, <3>1 DEF MaintainDone, SharedTypeOK
  <2> QED
    BY Zenon, <2>1, <2>2, <2>3
<1>19. ASSUME NEW c \in Cpus, Drain(c) PROVE TypeOK'
  <2>1. TaskTypeOK'
    BY SMTT(30), <1>19 DEF Drain, switchVars, TaskTypeOK, Statuses, CpuTypeOK,
       SharedTypeOK
  <2>2. CpuTypeOK'
    BY SMTT(30), <1>19 DEF Drain, switchVars, CpuTypeOK, Phases, SharedTypeOK
  <2>3. SharedTypeOK'
    BY Zenon, <1>19 DEF Drain, switchVars, SharedTypeOK, CpuTypeOK
  <2> QED
    BY Zenon, <2>1, <2>2, <2>3
<1>20. ASSUME NEW c \in Cpus, ClaimLocal(c) PROVE TypeOK'
  <2>1. SharedTypeOK'
    BY Zenon, <1>20 DEF ClaimLocal, SharedTypeOK
  <2>2. TaskTypeOK'
    BY <1>20 DEF ClaimLocal, ClaimsAt, Claimable, TaskTypeOK, Statuses,
       CpuTypeOK
  <2>3. CpuTypeOK'
    BY Zenon, <1>20 DEF ClaimLocal, ClaimsAt, Claimable, CpuTypeOK, Phases, TaskTypeOK
  <2> QED
    BY Zenon, <2>1, <2>2, <2>3
<1>21. ASSUME NEW c \in Cpus, Steal(c) PROVE TypeOK'
  <2>1. SharedTypeOK'
    BY Zenon, <1>21 DEF Steal, SharedTypeOK
  <2>2. TaskTypeOK'
    BY SMTT(30), <1>21 DEF Steal, StealsAt, Stealable, Claimable, TaskTypeOK,
       Statuses, CpuTypeOK
  <2>3. CpuTypeOK'
    BY Zenon, <1>21 DEF Steal, StealsAt, Stealable, Claimable, CpuTypeOK, Phases
  <2> QED
    BY Zenon, <2>1, <2>2, <2>3
<1>22. ASSUME NEW c \in Cpus, PickReturn(c) PROVE TypeOK'
  <2>1. TaskTypeOK'
    BY Zenon, <1>22 DEF PickReturn, taskVars, switchVars, TaskTypeOK
  <2>2. CpuTypeOK'
    BY Zenon, <1>22 DEF PickReturn, taskVars, switchVars, CpuTypeOK, Phases
  <2>3. SharedTypeOK'
    BY Zenon, <1>22 DEF PickReturn, taskVars, switchVars, SharedTypeOK, CpuTypeOK
  <2> QED
    BY Zenon, <2>1, <2>2, <2>3
<1>23. ASSUME NEW c \in Cpus, PickIdle(c) PROVE TypeOK'
  <2>1. TaskTypeOK'
    BY Zenon, <1>23 DEF PickIdle, taskVars, TaskTypeOK
  <2>2. CpuTypeOK'
    BY ZenonT(60), <1>23 DEF PickIdle, RetiringStack, NothingToRun, CanIdle, taskVars,
       CpuTypeOK, Phases, TaskTypeOK
  <2>3. SharedTypeOK'
    BY Zenon, <1>23 DEF PickIdle, RetiringStack, NothingToRun, CanIdle, taskVars,
       SharedTypeOK, CpuTypeOK, TaskTypeOK
  <2> QED
    BY Zenon, <2>1, <2>2, <2>3
<1>24. ASSUME NEW c \in Cpus, SwitchRefused(c) PROVE TypeOK'
  <2>1. TaskTypeOK'
    BY Zenon, <1>24 DEF SwitchRefused, TaskTypeOK, Statuses, CpuTypeOK
  <2>2. CpuTypeOK'
    BY SMTT(30), <1>24 DEF SwitchRefused, CpuTypeOK, Phases
  <2>3. SharedTypeOK'
    BY Zenon, <1>24 DEF SwitchRefused, SharedTypeOK, CpuTypeOK
  <2> QED
    BY Zenon, <2>1, <2>2, <2>3
<1>25. ASSUME NEW c \in Cpus, SwitchTo(c) PROVE TypeOK'
  <2>1. TaskTypeOK'
    BY ZenonT(60), <1>25 DEF SwitchTo, ClearDeadline, RetiringStack, Preempts, TaskTypeOK, Statuses,
       CpuTypeOK
  <2>2. CpuTypeOK'
    BY ZenonT(60), <1>25 DEF SwitchTo, ClearDeadline, RetiringStack, Preempts, CpuTypeOK, Phases,
       TaskTypeOK
  <2>3. SharedTypeOK'
    BY SMTT(30), <1>25 DEF SwitchTo, ClearDeadline, RetiringStack, Preempts, SharedTypeOK, CpuTypeOK,
       TaskTypeOK
  <2> QED
    BY Zenon, <2>1, <2>2, <2>3
<1>26. ASSUME NEW c \in Cpus, PrepareSwitch(c) PROVE TypeOK'
  <2>1. TaskTypeOK' /\ SharedTypeOK'
    BY Zenon, <1>26 DEF PrepareSwitch, taskVars, sharedVars, TaskTypeOK, SharedTypeOK
  <2>2. CpuTypeOK'
    BY Zenon, <1>26 DEF PrepareSwitch, taskVars, sharedVars, CpuTypeOK, Phases
  <2> QED
    BY Zenon, <2>1, <2>2
<1>27. ASSUME NEW c \in Cpus, SwitchStack(c) PROVE TypeOK'
  <2>1. SharedTypeOK'
    BY ZenonT(60), <1>27 DEF SwitchStack, sharedVars, SharedTypeOK
  <2>2. TaskTypeOK'
    BY ZenonT(60), <1>27 DEF SwitchStack, Finish, GoOn, sharedVars, TaskTypeOK, CpuTypeOK
  <2>3. CpuTypeOK'
    BY ZenonT(60), <1>27 DEF SwitchStack, Finish, GoOn, sharedVars, CpuTypeOK, Phases,
       TaskTypeOK
  <2> QED
    BY Zenon, <2>1, <2>2, <2>3
<1>28. ASSUME NEW c \in Cpus, Release(c) PROVE TypeOK'
  <2>1. SharedTypeOK'
    BY ZenonT(60), <1>28 DEF Release, sharedVars, SharedTypeOK
  <2>2. TaskTypeOK'
    BY ZenonT(60), <1>28 DEF Release, Finish, GoOn, sharedVars, TaskTypeOK, CpuTypeOK
  <2>3. CpuTypeOK'
    BY ZenonT(60), <1>28 DEF Release, Finish, GoOn, sharedVars, CpuTypeOK, Phases
  <2> QED
    BY Zenon, <2>1, <2>2, <2>3
<1>29. ASSUME NEW c \in Cpus, PublishHandoff(c) PROVE TypeOK'
  <2>1. TaskTypeOK'
    BY Zenon, <1>29 DEF PublishHandoff, taskVars, TaskTypeOK
  <2>2. CpuTypeOK'
    BY Zenon, <1>29 DEF PublishHandoff, Finish, taskVars, CpuTypeOK, Phases
  <2>3. SharedTypeOK'
    BY Zenon, <1>29 DEF PublishHandoff, Finish, taskVars, SharedTypeOK, CpuTypeOK
  <2> QED
    BY Zenon, <2>1, <2>2, <2>3
<1>30. ASSUME NEW c \in Cpus, PublishRetired(c) PROVE TypeOK'
  <2>1. TaskTypeOK'
    BY Zenon, <1>30 DEF PublishRetired, taskVars, TaskTypeOK
  <2>2. CpuTypeOK'
    BY SMTT(30), <1>30 DEF PublishRetired, Finish, taskVars, CpuTypeOK, Phases
  <2>3. SharedTypeOK'
    <3>1. retiring[c] \in Stacks
      BY SMTT(30), <1>30 DEF PublishRetired, SwitchInv, CpuTypeOK
    <3> QED
      BY ZenonT(40), <1>30, <3>1 DEF PublishRetired, SharedTypeOK
  <2> QED
    BY Zenon, <2>1, <2>2, <2>3
<1>31. CASE UNCHANGED vars
  BY Zenon, <1>31 DEF vars, taskVars, cpuVars, sharedVars, TaskTypeOK, CpuTypeOK,
             SharedTypeOK
<1> QED
  BY ZenonT(60), <1>1, <1>2, <1>3, <1>4, <1>5, <1>6, <1>7, <1>8, <1>9, <1>10, <1>11,
     <1>12, <1>13, <1>14, <1>15, <1>16, <1>17, <1>18, <1>19, <1>20, <1>21,
     <1>22, <1>23, <1>24, <1>25, <1>26, <1>27, <1>28, <1>29, <1>30, <1>31
     DEF Next, Critical, SwitchSteps, Call, Switch

\* The lock is held exactly in the critical sections, and while it is free
\* no wakeup is pending.
LEMMA LockStep ==
  ASSUME TypeOK, LockInv, [Next]_vars
  PROVE  LockInv'
<1>0. /\ pc \in [Cpus -> Phases] /\ next \in [Cpus -> {NONE} \cup Tasks]
      /\ status \in [Tasks -> Statuses] /\ todo \subseteq Tasks
      /\ lock \in Cpus \cup {FREE, WAKER} /\ scan \in Int
  BY MaxTasksAssumption DEF TypeOK, TaskTypeOK, CpuTypeOK, SharedTypeOK
<1>a. lock = FREE => todo = {} /\ \A c \in Cpus : pc[c] \notin Locked
  BY Zenon, Names DEF LockInv, Locked
<1>b. \A c \in Cpus : pc[c] \in Locked \ {"maint", "collect"} => todo = {}
  BY Zenon, Names DEF LockInv, Locked
<1>c. scan > 0 => scan + 1 > 0
  BY ONLY <1>0, SMT
<1> USE <1>0, <1>a, <1>b, Names DEF LockInv, Locked
<1>1. ASSUME NEW c \in Cpus, CallSchedule(c) PROVE LockInv'
  BY Zenon, <1>1 DEF CallSchedule, Calling, switchVars, sharedVars, taskVars
<1>2. ASSUME NEW c \in Cpus, ScheduleEnter(c) PROVE LockInv'
  <2>1. /\ lock' = c /\ pc'[c] \in {"maint", "drain"} /\ pc[c] = "sched" /\ lock = FREE
        /\ \A d \in Cpus \ {c} : pc'[d] = pc[d]
        /\ pc'[c] = "maint" => scan' = 1
        /\ todo = {} /\ todo' = {} /\ next' = next
    BY Zenon, <1>2 DEF ScheduleEnter, switchVars
  <2>2. \A d \in Cpus : pc'[d] \in Locked <=> lock' = d
    BY Zenon, <2>1
  <2>3. \A d \in Cpus : next'[d] # NONE <=> pc'[d] = "switch"
    BY Zenon, <2>1
  <2>4. \A d \in Cpus : pc'[d] \in {"maint", "collect"} => d = c /\ scan' = 1
    BY Zenon, <2>1
  <2>5. \A d \in Cpus : pc'[d] \in {"maint", "collect"} => scan' > 0
    <3>1. scan' = 1 => scan' > 0
      BY ONLY SMT
    <3>2. QED
      BY Zenon, <2>4, <3>1
  <2>6. QED
    BY Zenon, <2>1, <2>2, <2>3, <2>5
<1>3. ASSUME NEW c \in Cpus, AddUser(c) PROVE LockInv'
  BY ZenonT(60), <1>3 DEF AddUser, cpuVars
<1>4. ASSUME NEW c \in Cpus, Exit(c) PROVE LockInv'
  BY ZenonT(60), <1>4 DEF Exit, Calling, switchVars, sharedVars
<1>5. ASSUME NEW c \in Cpus, Collect(c) PROVE LockInv'
  <2>1. /\ lock' = c /\ pc'[c] = "collect" /\ pc[c] = "run" /\ lock = FREE
        /\ \A d \in Cpus \ {c} : pc'[d] = pc[d]
        /\ scan' = 1 /\ todo = {} /\ todo' = {} /\ next' = next
    BY Zenon, <1>5 DEF Collect, Calling, switchVars
  <2>2. \A d \in Cpus : pc'[d] \in Locked <=> lock' = d
    BY Zenon, <2>1
  <2>3. \A d \in Cpus : next'[d] # NONE <=> pc'[d] = "switch"
    BY Zenon, <2>1
  <2>4. \A d \in Cpus : pc'[d] \in {"maint", "collect"} => scan' > 0
    <3>1. scan' = 1 => scan' > 0
      BY ONLY SMT
    <3>2. QED
      BY Zenon, <2>1, <3>1
  <2>5. QED
    BY Zenon, <2>1, <2>2, <2>3, <2>4
<1>6. ASSUME NEW c \in Cpus, WaitTaskReturn(c) PROVE LockInv'
  BY Zenon, <1>6 DEF WaitTaskReturn, cpuVars, sharedVars
<1>7. ASSUME NEW c \in Cpus, NEW u \in Tasks, WaitTask(c, u) PROVE LockInv'
  BY Zenon, <1>7 DEF WaitTask, Calling, switchVars, sharedVars
<1>8. ASSUME NEW c \in Cpus, NEW k \in Keys, NEW d \in {0} \cup Deadlines, WaitEvent(c, k, d) PROVE LockInv'
  BY Zenon, <1>8 DEF WaitEvent, Calling, switchVars, sharedVars
<1>9. ASSUME NEW c \in Cpus, NEW d \in {0} \cup Deadlines, Sleep(c, d) PROVE LockInv'
  BY Zenon, <1>9 DEF Sleep, Calling, switchVars, sharedVars
<1>10. ASSUME NEW k \in Keys, WakeEvent(k) PROVE LockInv'
  BY Zenon, <1>10 DEF WakeEvent, Waiters, taskVars, cpuVars
<1>11. ASSUME NEW k \in Keys, ForgetEvent(k) PROVE LockInv'
  BY Zenon, <1>11 DEF ForgetEvent, taskVars, cpuVars
<1>12. ASSUME WakeEventTask PROVE LockInv'
  BY Zenon, <1>12 DEF WakeEventTask, MakeRunnable, ClearDeadline, cpuVars
<1>13. ASSUME Tick PROVE LockInv'
  BY ZenonT(40), <1>13 DEF Tick, taskVars, cpuVars
<1>14. ASSUME NEW c \in Cpus, MaintainWake(c) PROVE LockInv'
  <2>1. /\ UNCHANGED <<pc, next, lock>> /\ scan' = scan + 1
        /\ pc[c] \in {"maint", "collect"} /\ todo = {} /\ todo' = {}
    BY ZenonT(40), <1>14 DEF MaintainWake, Maintaining, cpuVars
  <2> QED
    BY ZenonT(40), <1>c, <2>1
<1>15. ASSUME NEW c \in Cpus, MaintainReap(c) PROVE LockInv'
  <2>1. /\ UNCHANGED <<pc, next, lock, status>> /\ scan' = scan + 1
        /\ pc[c] \in {"maint", "collect"}
        /\ \A t \in todo' : status[t] = "Waiting"
    BY ZenonT(60), <1>15 DEF MaintainReap, Waiters, Maintaining, cpuVars
  <2> QED
    BY ZenonT(40), <1>c, <2>1
<1>16. ASSUME NEW c \in Cpus, MaintainWakeWaiter(c) PROVE LockInv'
  BY Zenon, <1>16 DEF MaintainWakeWaiter, MakeRunnable, cpuVars
<1>17. ASSUME NEW c \in Cpus, MaintainSkip(c) PROVE LockInv'
  <2>1. /\ UNCHANGED <<pc, next, lock>> /\ scan' = scan + 1
        /\ pc[c] \in {"maint", "collect"} /\ todo = {} /\ todo' = {}
    BY ZenonT(40), <1>17 DEF MaintainSkip, Maintaining, cpuVars
  <2> QED
    BY ZenonT(40), <1>c, <2>1
<1>18. ASSUME NEW c \in Cpus, MaintainDone(c) PROVE LockInv'
  BY ZenonT(40), <1>18 DEF MaintainDone, taskVars, switchVars
<1>19. ASSUME NEW c \in Cpus, Drain(c) PROVE LockInv'
  BY Zenon, <1>19 DEF Drain, switchVars
<1>20. ASSUME NEW c \in Cpus, ClaimLocal(c) PROVE LockInv'
  <2> HIDE <1>0, <1>a, <1>b, Names DEF LockInv
  <2>0. PICK p \in 1 .. Len(queues[c]) :
           /\ ClaimsAt(queues[c], p)
           /\ status' = [status EXCEPT ![queues[c][p]] = "Claimed"]
           /\ next' = [next EXCEPT ![c] = queues[c][p]]
    BY ZenonT(60), <1>20 DEF ClaimLocal
  <2>1. \E t \in Tasks : /\ status' = [status EXCEPT ![t] = "Claimed"]
                         /\ next' = [next EXCEPT ![c] = t]
    BY ZenonT(60), <2>0 DEF ClaimsAt, Claimable
  <2>2. /\ pc[c] = "pick" /\ pc' = [pc EXCEPT ![c] = "switch"]
        /\ UNCHANGED <<lock, scan, todo>>
    BY Zenon, <1>20 DEF ClaimLocal
  <2> QED
    BY <2>1, <2>2, <1>0, <1>a, <1>b, Names DEF LockInv
<1>21. ASSUME NEW c \in Cpus, Steal(c) PROVE LockInv'
  <2> HIDE <1>0, <1>a, <1>b, Names DEF LockInv
  <2>0. PICK v \in Cpus : \E p \in 1 .. Len(queues[v]) :
           /\ StealsAt(queues[v], p)
           /\ status' = [status EXCEPT ![queues[v][p]] = "Claimed"]
           /\ next' = [next EXCEPT ![c] = queues[v][p]]
    BY ZenonT(60), <1>21 DEF Steal
  <2>1. \E t \in Tasks : /\ status' = [status EXCEPT ![t] = "Claimed"]
                         /\ next' = [next EXCEPT ![c] = t]
    BY ZenonT(60), <2>0 DEF StealsAt, Stealable, Claimable
  <2>2. /\ pc[c] = "pick" /\ pc' = [pc EXCEPT ![c] = "switch"]
        /\ UNCHANGED <<lock, scan, todo>>
    BY Zenon, <1>21 DEF Steal
  <2> QED
    BY <2>1, <2>2, <1>0, <1>a, <1>b, Names DEF LockInv
<1>22. ASSUME NEW c \in Cpus, PickReturn(c) PROVE LockInv'
  BY ZenonT(60), <1>22 DEF PickReturn, NothingToRun, taskVars, switchVars
<1>23. ASSUME NEW c \in Cpus, PickIdle(c) PROVE LockInv'
  BY ZenonT(60), <1>23 DEF PickIdle, NothingToRun, taskVars
<1>24. ASSUME NEW c \in Cpus, pc[c] = "switch", SwitchRefused(c) PROVE LockInv'
  BY ZenonT(60), <1>24 DEF SwitchRefused
<1>25. ASSUME NEW c \in Cpus, pc[c] = "switch", SwitchTo(c) PROVE LockInv'
  <2> HIDE <1>0, <1>a, <1>b, Names DEF LockInv
  <2>1. /\ next' = [next EXCEPT ![c] = NONE] /\ lock' = FREE
        /\ pc' = [pc EXCEPT ![c] = "prep"] /\ UNCHANGED <<scan, todo>>
    BY Zenon, <1>25 DEF SwitchTo
  <2>2. todo = {} /\ lock = c
    BY Zenon, <1>25, <1>b DEF LockInv
  <2> QED
    BY SMTT(30), <1>25, <2>1, <2>2, <1>0, Names DEF LockInv
<1>26. ASSUME NEW c \in Cpus, PrepareSwitch(c) PROVE LockInv'
  BY SMTT(30), <1>26 DEF PrepareSwitch, taskVars, sharedVars
<1>27. ASSUME NEW c \in Cpus, SwitchStack(c) PROVE LockInv'
  BY SMTT(30), <1>27 DEF SwitchStack, Finish, GoOn, sharedVars
<1>28. ASSUME NEW c \in Cpus, Release(c) PROVE LockInv'
  BY SMTT(30), <1>28 DEF Release, Finish, GoOn, sharedVars
<1>29. ASSUME NEW c \in Cpus, PublishHandoff(c) PROVE LockInv'
  BY SMTT(30), <1>29 DEF PublishHandoff, Finish, taskVars
<1>30. ASSUME NEW c \in Cpus, PublishRetired(c) PROVE LockInv'
  BY SMTT(30), <1>30 DEF PublishRetired, Finish, taskVars
<1>31. CASE UNCHANGED vars
  BY Zenon, <1>31 DEF vars, taskVars, cpuVars, sharedVars
<1> QED
  BY ZenonT(60), <1>1, <1>2, <1>3, <1>4, <1>5, <1>6, <1>7, <1>8, <1>9, <1>10, <1>11,
     <1>12, <1>13, <1>14, <1>15, <1>16, <1>17, <1>18, <1>19, <1>20, <1>21,
     <1>22, <1>23, <1>24, <1>25, <1>26, <1>27, <1>28, <1>29, <1>30, <1>31
     DEF Next, Critical, SwitchSteps, Call, Switch

----------------------------------------------------------------------------
(* The part about stacks.                                                  *)

\* Every step preserves the part of the invariant about stacks.
LEMMA StackPartStep ==
  ASSUME TypeOK, LockInv, StackPart, [Next]_vars
  PROVE  StackPart'
<1>0. /\ pc \in [Cpus -> Phases] /\ cur \in [Cpus -> {NONE} \cup Tasks]
      /\ todo \subseteq Tasks /\ len \in 0 .. MaxTasks
      /\ scan \in 0 .. (MaxTasks + 1)
  BY Zenon DEF TypeOK, CpuTypeOK, SharedTypeOK
<1>1. ASSUME NEW c \in Cpus, CallSchedule(c) PROVE StackPart'
  <2>1. /\ pc[c] \notin Switching /\ UNCHANGED ctxVars
        /\ pc' = [pc EXCEPT ![c] = "sched"]
    BY Zenon, <1>1 DEF CallSchedule, Calling, taskVars, switchVars, sharedVars,
       ctxVars, Switching
  <2> QED
    BY ZenonT(60), <2>1, QuietStep DEF Phases, Switching
<1>2. ASSUME NEW c \in Cpus, ScheduleEnter(c) PROVE StackPart'
  <2>1. /\ pc[c] \notin Switching /\ UNCHANGED ctxVars
        /\ pc' = [pc EXCEPT ![c] = IF c = 0 THEN "maint" ELSE "drain"]
    BY Zenon, <1>2 DEF ScheduleEnter, taskVars, switchVars, ctxVars, Switching
  <2> QED
    BY ZenonT(60), <2>1, QuietStep DEF Phases, Switching
<1>3. ASSUME NEW c \in Cpus, Collect(c) PROVE StackPart'
  <2>1. /\ pc[c] \notin Switching /\ UNCHANGED ctxVars
        /\ pc' = [pc EXCEPT ![c] = "collect"]
    BY Zenon, <1>3 DEF Collect, Calling, taskVars, switchVars, ctxVars, Switching
  <2> QED
    BY ZenonT(60), <2>1, QuietStep DEF Phases, Switching
<1>4. ASSUME NEW c \in Cpus, MaintainDone(c) PROVE StackPart'
  <2>1. /\ pc[c] \notin Switching /\ UNCHANGED ctxVars
        /\ pc' = [pc EXCEPT ![c] = IF pc[c] = "maint" THEN "drain" ELSE "run"]
    BY Zenon, <1>4 DEF MaintainDone, taskVars, switchVars, ctxVars, Switching
  <2> QED
    BY ZenonT(60), <2>1, QuietStep DEF Phases, Switching
<1>5. ASSUME NEW c \in Cpus, PickReturn(c) PROVE StackPart'
  <2>1. /\ pc[c] \notin Switching /\ UNCHANGED ctxVars
        /\ pc' = [pc EXCEPT ![c] = "run"]
    BY Zenon, <1>5 DEF PickReturn, NothingToRun, taskVars, switchVars, ctxVars,
       Switching
  <2> QED
    BY ZenonT(60), <2>1, QuietStep DEF Phases, Switching
<1>6. ASSUME NEW c \in Cpus, WaitTaskReturn(c) PROVE StackPart'
  BY Zenon, <1>6, StepsThatChangeNothing DEF WaitTaskReturn, cpuVars, sharedVars,
     ctxVars
<1>7. ASSUME NEW k \in Keys, WakeEvent(k) PROVE StackPart'
  BY Zenon, <1>7, StepsThatChangeNothing DEF WakeEvent, Waiters, taskVars, cpuVars, ctxVars
<1>8. ASSUME NEW k \in Keys, ForgetEvent(k) PROVE StackPart'
  BY Zenon, <1>8, StepsThatChangeNothing DEF ForgetEvent, taskVars, cpuVars, ctxVars
<1>9. ASSUME Tick PROVE StackPart'
  BY Zenon, <1>9, StepsThatChangeNothing DEF Tick, taskVars, cpuVars, ctxVars
<1>10. ASSUME NEW c \in Cpus, MaintainSkip(c) PROVE StackPart'
  BY Zenon, <1>10, StepsThatChangeNothing DEF MaintainSkip, taskVars, cpuVars, ctxVars
<1>11. ASSUME NEW c \in Cpus, Exit(c) PROVE StackPart'
  <2>1. /\ pc[c] = "run" /\ cur[c] # NONE
        /\ status' = [status EXCEPT ![cur[c]] = "Zombie"]
        /\ pc' = [pc EXCEPT ![c] = "sched"]
        /\ UNCHANGED <<onCpu, bottom, saved, cur, next, outgoing, encoded,
                       retiring, rsp, root, handoff, retired, freeStacks, len>>
    BY Zenon, <1>11 DEF Exit, Calling, switchVars, sharedVars
  <2> QED
    BY ZenonT(60), <2>1, BlockStep
<1>12. ASSUME NEW c \in Cpus, NEW u \in Tasks, WaitTask(c, u) PROVE StackPart'
  <2>1. /\ pc[c] = "run" /\ cur[c] # NONE
        /\ status' = [status EXCEPT ![cur[c]] = "Waiting"]
        /\ pc' = [pc EXCEPT ![c] = "sched"]
        /\ UNCHANGED <<onCpu, bottom, saved, cur, next, outgoing, encoded,
                       retiring, rsp, root, handoff, retired, freeStacks, len>>
    BY Zenon, <1>12 DEF WaitTask, Calling, switchVars, sharedVars
  <2> QED
    BY ZenonT(60), <2>1, BlockStep
<1>13. ASSUME NEW c \in Cpus, NEW k \in Keys, NEW d \in {0} \cup Deadlines, WaitEvent(c, k, d) PROVE StackPart'
  <2>1. /\ pc[c] = "run" /\ cur[c] # NONE
        /\ status' = [status EXCEPT ![cur[c]] = "Waiting"]
        /\ pc' = [pc EXCEPT ![c] = "sched"]
        /\ UNCHANGED <<onCpu, bottom, saved, cur, next, outgoing, encoded,
                       retiring, rsp, root, handoff, retired, freeStacks, len>>
    BY Zenon, <1>13 DEF WaitEvent, Calling, switchVars, sharedVars
  <2> QED
    BY ZenonT(60), <2>1, BlockStep
<1>14. ASSUME NEW c \in Cpus, NEW d \in {0} \cup Deadlines, Sleep(c, d) PROVE StackPart'
  <2>1. /\ pc[c] = "run" /\ cur[c] # NONE
        /\ status' = [status EXCEPT ![cur[c]] = "Sleeping"]
        /\ pc' = [pc EXCEPT ![c] = "sched"]
        /\ UNCHANGED <<onCpu, bottom, saved, cur, next, outgoing, encoded,
                       retiring, rsp, root, handoff, retired, freeStacks, len>>
    BY Zenon, <1>14 DEF Sleep, Calling, switchVars, sharedVars
  <2> QED
    BY ZenonT(60), <2>1, BlockStep
<1>15. ASSUME WakeEventTask PROVE StackPart'
  <2>1. PICK t \in todo : MakeRunnable(t, affinity[t])
    BY Zenon, <1>15 DEF WakeEventTask
  <2>2. t \in Tasks /\ status[t] \in {"Waiting", "Sleeping"}
    BY Zenon, <1>0 DEF LockInv
  <2>3. PICK s \in {"Ready", "Running"} : status' = [status EXCEPT ![t] = s]
    BY Zenon, <2>1 DEF MakeRunnable
  <2>4. UNCHANGED <<pc, onCpu, bottom, saved, cur, next, outgoing, encoded,
                    retiring, rsp, root, handoff, retired, freeStacks, len>>
    BY Zenon, <1>15 DEF WakeEventTask, cpuVars
  <2> QED
    BY ZenonT(60), <2>2, <2>3, <2>4, WakeStep
<1>16. ASSUME NEW c \in Cpus, MaintainWakeWaiter(c) PROVE StackPart'
  <2>1. PICK t \in todo : MakeRunnable(t, affinity[t])
    BY Zenon, <1>16 DEF MaintainWakeWaiter
  <2>2. t \in Tasks /\ status[t] \in {"Waiting", "Sleeping"}
    BY Zenon, <1>0 DEF LockInv
  <2>3. PICK s \in {"Ready", "Running"} : status' = [status EXCEPT ![t] = s]
    BY Zenon, <2>1 DEF MakeRunnable
  <2>4. UNCHANGED <<pc, onCpu, bottom, saved, cur, next, outgoing, encoded,
                    retiring, rsp, root, handoff, retired, freeStacks, len>>
    BY Zenon, <1>16 DEF MaintainWakeWaiter, cpuVars
  <2> QED
    BY ZenonT(60), <2>2, <2>3, <2>4, WakeStep
<1>17. ASSUME NEW c \in Cpus, MaintainWake(c) PROVE StackPart'
  <2> DEFINE t == scan
  <2>1. \E h : MakeRunnable(t, h)
    BY Zenon, <1>17 DEF MaintainWake
  <2>2. t \in Tasks /\ status[t] \in {"Waiting", "Sleeping"}
    BY <1>0, <1>17, MaxTasksAssumption
       DEF MaintainWake, Maintaining, TimedOut, LockInv, Tasks
  <2>3. PICK s \in {"Ready", "Running"} : status' = [status EXCEPT ![t] = s]
    BY Zenon, <2>1 DEF MakeRunnable
  <2>4. UNCHANGED <<pc, onCpu, bottom, saved, cur, next, outgoing, encoded,
                    retiring, rsp, root, handoff, retired, freeStacks, len>>
    BY Zenon, <1>17 DEF MaintainWake, cpuVars
  <2> QED
    BY ZenonT(60), <2>2, <2>3, <2>4, WakeStep
<1>18. ASSUME NEW c \in Cpus, ClaimLocal(c) PROVE StackPart'
  <2>1. PICK t : /\ t \in Tasks /\ status[t] = "Ready" /\ ~onCpu[t]
                 /\ status' = [status EXCEPT ![t] = "Claimed"]
                 /\ next' = [next EXCEPT ![c] = t]
    BY ZenonT(60), <1>18 DEF ClaimLocal, ClaimsAt, Claimable
  <2>2. /\ pc[c] = "pick" /\ pc' = [pc EXCEPT ![c] = "switch"]
        /\ UNCHANGED <<onCpu, bottom, saved, cur, outgoing, encoded, retiring,
                       rsp, root, handoff, retired, freeStacks, len>>
    BY Zenon, <1>18 DEF ClaimLocal
  <2> QED
    BY ZenonT(60), <2>1, <2>2, ClaimStep
<1>19. ASSUME NEW c \in Cpus, Steal(c) PROVE StackPart'
  <2>1. PICK t : /\ t \in Tasks /\ status[t] = "Ready" /\ ~onCpu[t]
                 /\ status' = [status EXCEPT ![t] = "Claimed"]
                 /\ next' = [next EXCEPT ![c] = t]
    BY ZenonT(60), <1>19 DEF Steal, StealsAt, Stealable, Claimable
  <2>2. /\ pc[c] = "pick" /\ pc' = [pc EXCEPT ![c] = "switch"]
        /\ UNCHANGED <<onCpu, bottom, saved, cur, outgoing, encoded, retiring,
                       rsp, root, handoff, retired, freeStacks, len>>
    BY Zenon, <1>19 DEF Steal
  <2> QED
    BY ZenonT(60), <2>1, <2>2, ClaimStep
<1>20. ASSUME NEW c \in Cpus, AddUser(c) PROVE StackPart'
  BY Zenon, <1>20, AddUserStep
<1>21. ASSUME NEW c \in Cpus, Drain(c) PROVE StackPart'
  BY Zenon, <1>21, DrainStep
<1>22. ASSUME NEW c \in Cpus, PickIdle(c) PROVE StackPart'
  BY Zenon, <1>22, PickIdleStep
<1>23. ASSUME NEW c \in Cpus, PrepareSwitch(c) PROVE StackPart'
  BY Zenon, <1>23, PrepareStep
<1>24. ASSUME NEW c \in Cpus, SwitchStack(c) PROVE StackPart'
  BY Zenon, <1>24, SwitchStackStep
<1>25. ASSUME NEW c \in Cpus, Release(c) PROVE StackPart'
  BY Zenon, <1>25, ReleaseStep
<1>26. ASSUME NEW c \in Cpus, PublishHandoff(c) PROVE StackPart'
  BY Zenon, <1>26, PublishHandoffStep
<1>27. ASSUME NEW c \in Cpus, PublishRetired(c) PROVE StackPart'
  BY Zenon, <1>27, PublishRetiredStep
<1>28. ASSUME NEW c \in Cpus, MaintainReap(c) PROVE StackPart'
  <2>1. scan > 0
    BY Zenon, <1>28 DEF MaintainReap, Maintaining, LockInv
  <2> QED
    BY Zenon, <1>28, <2>1, ReapStep
<1>29. ASSUME NEW c \in Cpus, Switch(c) PROVE StackPart'
  <2>1. /\ pc[c] = "switch" /\ next[c] # NONE
        /\ \A d \in Cpus : d # c => next[d] = NONE
    BY Zenon, <1>29 DEF Switch, LockInv, Locked
  <2> QED
    BY Zenon, <1>29, <2>1, SwitchToStep, SwitchRefusedStep DEF Switch
<1>30. CASE UNCHANGED vars
  BY Zenon, <1>30, StepsThatChangeNothing
     DEF vars, taskVars, cpuVars, sharedVars, ctxVars
<1> QED
  BY ZenonT(60), <1>1, <1>2, <1>3, <1>4, <1>5, <1>6, <1>7, <1>8, <1>9, <1>10, <1>11,
     <1>12, <1>13, <1>14, <1>15, <1>16, <1>17, <1>18, <1>19, <1>20, <1>21,
     <1>22, <1>23, <1>24, <1>25, <1>26, <1>27, <1>28, <1>29, <1>30
     DEF Next, Critical, SwitchSteps, Call

\* An idle system without tasks satisfies the stack part of the invariant.
LEMMA InitContext == Init => TypeOK /\ ContextInv
<1> SUFFICES ASSUME Init PROVE TypeOK /\ ContextInv
  OBVIOUS
<1>1. TypeOK
  BY Names, MaxTasksAssumption, BoundsAssumption
     DEF Init, TypeOK, TaskTypeOK, CpuTypeOK, SharedTypeOK, Statuses, Phases
<1>2. LockInv /\ SwitchInv
  BY Zenon, Names DEF Init, LockInv, SwitchInv, Locked, Switching
<1>3. RecordInv
  BY Names, MaxTasksAssumption DEF Init, RecordInv, Tasks
<1>4. OwnerInv /\ HandoffInv /\ SavedInv /\ PlaceInv
  BY Zenon, Names DEF Init, OwnerInv, Holds, HandoffInv, SavedInv, PlaceInv, OnOldStack
<1>5. StackInv
  BY Zenon, Names DEF Init, StackInv
<1> QED
  BY Zenon, <1>1, <1>2, <1>3, <1>4, <1>5 DEF ContextInv
=============================================================================
