-------------------------- MODULE CpuContextProofs --------------------------
(***************************************************************************)
(* Proofs about CpuContext, for any number of CPUs and tasks: CpuInv is    *)
(* inductive, so every task comes back to user mode on its own stack and   *)
(* page tables, and every entry into the kernel finds the CPU ready.       *)
(***************************************************************************)
EXTENDS CpuContext, TLAPS

\* The names of CPUs, tasks and stack pointers do not clash.
LEMMA Names ==
  /\ NoTask \notin Tasks /\ Null \notin Cpus /\ NoTask \in Stacks /\ NoRsp \in Rsps
  /\ \A t \in Tasks, d \in 0 .. MaxDepth : t \in Stacks /\ <<t, d>> \in Rsps
  /\ \A t \in Tasks : <<t, 0>> \in Rsps
  /\ \A t \in Stacks : t # NoTask => t \in Tasks
  <1>1. NumCpus \in Nat /\ NumTasks \in Nat /\ MaxDepth \in Nat
    BY Zenon, SizesAssumption
  <1>2. QED
    BY <1>1 DEF NoTask, Tasks, Null, Cpus, Stacks, NoRsp, Rsps

\* What the invariant says of user mode and of the entries to the kernel.
LEMMA Implied ==
    ASSUME CpuInv
    PROVE  UserResumesOwn /\ KernelReady
  <1> USE Names
  <1>1. \A c \in Cpus : Current(c) \in Stacks
    BY Zenon DEF CpuInv, TypeOK, PercpuData, Current
  <1>2. UserResumesOwn
    <2> SUFFICES ASSUME NEW c \in Cpus, pc[c] = "user"
                 PROVE  sp[c] = own[Current(c)] /\ cr3[c] = Current(c)
      BY Zenon DEF UserResumesOwn
    <2>1. Current(c) \in Tasks /\ cr3[c] = Current(c)
      BY Zenon, <1>1 DEF CpuInv, Mode
    <2>2. LeadsOut(c, Current(c))
      BY ZenonT(30), <2>1 DEF CpuInv, Back
    <2> QED
      BY Zenon, <2>1, <2>2 DEF LeadsOut
  <1>3. EntryReady
    <2> SUFFICES ASSUME NEW c \in Cpus, pc[c] = "user"
                 PROVE  /\ gs[c] = Null /\ kgs[c] = c /\ if[c]
                        /\ rsp0[c] = Current(c) /\ percpu[c].kernel_stack = Current(c)
      BY Zenon DEF EntryReady
    <2> QED
      BY Zenon DEF CpuInv, Mode, UserGs
  <1>4. KernelHasPercpu
    <2> SUFFICES ASSUME NEW c \in Cpus,
                        \/ pc[c] \in {"call", "sched", "load", "switch", "tail", "halt", "idle"}
                        \/ pc[c] \in {"irq", "acked"} /\ frame[c].how # "wake"
                 PROVE  gs[c] = c
      BY Zenon DEF KernelHasPercpu
    <2>1. ~UserGs(c)
      BY Zenon DEF UserGs
    <2> QED
      BY Zenon, <2>1 DEF CpuInv, Mode
  <1>5. NothingLeftInService /\ KernelStays /\ HaltsOpen
    BY Zenon DEF CpuInv, Mode, NothingLeftInService, KernelStays, HaltsOpen
  <1>6. StacksExclusive
    <2> SUFFICES ASSUME NEW c \in Cpus, NEW d \in Cpus, c # d, on[c] = on[d], on[c] # NoTask
                 PROVE  FALSE
      BY Zenon DEF StacksExclusive
    <2>1. on[c] \in Tasks
      BY Zenon DEF CpuInv, TypeOK
    <2>2. \A e \in Cpus : on[e] \in {Current(e), plan[e].from, NoTask}
      BY Zenon DEF CpuInv, Mode, StackOf
    <2>3. Holds(c, on[c]) /\ Holds(d, on[c])
      BY Zenon, <2>2 DEF Holds
    <2> QED
      BY Zenon, <2>1, <2>3 DEF CpuInv, OwnerInv
  <1> QED
    BY Zenon, <1>2, <1>3, <1>4, <1>5, <1>6 DEF KernelReady

\* init and add_new_user_task.
LEMMA InitCpus == Init => CpuInv
  <1> SUFFICES ASSUME Init PROVE CpuInv
    OBVIOUS
  <1> USE Names
  <1>1. TypeOK
    BY Zenon DEF Init, TypeOK, Frames, Frame, NoFrame, NoPlan, Places, PercpuData, SwitchPlans,
           TaskRecords
  <1>2. \A c \in Cpus : Current(c) = NoTask /\ plan[c].from = NoTask /\ plan[c].out = NoTask
    BY Zenon DEF Init, Current, NoPlan
  <1>3. OwnerInv
    BY Zenon, <1>2 DEF Init, OwnerInv, Holds
  <1>4. StoppedInv
    BY Zenon DEF Init, StoppedInv, LeadsBack, Frame
  <1>5. ASSUME NEW c \in Cpus PROVE Mode(c) /\ Status(c) /\ Back(c)
    BY Zenon, <1>2, <1>5 DEF Init, Mode, UserGs, StackOf, Switching, Status, Back
  <1> QED
    BY Zenon, <1>1, <1>3, <1>4, <1>5 DEF CpuInv

----------------------------------------------------------------------------
(* A step of one CPU leaves the others alone.                              *)

\* CPU d's registers, per-CPU data, frame and plan are the same.
Kept(d) ==
    /\ pc'[d] = pc[d] /\ if'[d] = if[d] /\ sp'[d] = sp[d] /\ on'[d] = on[d]
    /\ gs'[d] = gs[d] /\ kgs'[d] = kgs[d] /\ cr3'[d] = cr3[d] /\ rsp0'[d] = rsp0[d]
    /\ percpu'[d] = percpu[d] /\ frame'[d] = frame[d] /\ service'[d] = service[d]
    /\ plan'[d] = plan[d]

\* Nothing changes for a CPU that is left alone with its tasks.
LEMMA Elsewhere ==
    ASSUME NEW d \in Cpus, Kept(d), Mode(d), Status(d), Back(d),
           \A t \in Tasks : Holds(d, t) => task'[t] = task[t] /\ own'[t] = own[t]
    PROVE  Mode(d)' /\ Status(d)' /\ Back(d)'
  <1>1. Mode(d)'
    BY ZenonT(40) DEF Kept, Mode, UserGs, StackOf, Current
  <1>2. Status(d)'
    BY DEF Kept, Status, Holds, Current
  <1>3. ASSUME NEW t \in Tasks
        PROVE  /\ plan'[d].from = t /\ task'[t].status # "Zombie" =>
                      LeadsBack(t, frame[d], task[t].user_rsp)'
               /\ Current(d)' = t => LeadsOut(d, t)'
    BY DEF Kept, Back, LeadsBack, LeadsOut, Holds, Current
  <1> QED
    BY Zenon, <1>1, <1>2, <1>3 DEF Back

\* A step of CPU c within its current task.
LEMMA Within ==
    ASSUME CpuInv, TypeOK', NEW c \in Cpus, \A d \in Cpus \ {c} : Kept(d),
           plan' = plan, handoff' = handoff, Current(c)' = Current(c),
           \A t \in Tasks : t # Current(c) => task'[t] = task[t] /\ own'[t] = own[t],
           \A t \in Tasks : task'[t].left = task[t].left,
           \A t \in Tasks : task'[t].status = "Ready" => task[t].status = "Ready",
           pc[c] \notin Switching, Mode(c)',
           \A t \in Tasks : Current(c) = t =>
               /\ LeadsOut(c, t)'
               /\ task'[t].status \in IF pc'[c] = "sched" THEN {"Running", "Waiting", "Zombie"}
                                                        ELSE {"Running"}
    PROVE  CpuInv'
  <1>1. \A d \in Cpus : Current(d)' = Current(d)
    BY Zenon DEF Kept, Current
  <1>2. \A t \in Tasks : Holds(c, t) => ~task[t].left /\ \A d \in Cpus : Holds(d, t) => d = c
    BY Zenon DEF CpuInv, OwnerInv
  <1>3. \A t \in Tasks : task[t].left => task'[t] = task[t] /\ own'[t] = own[t]
    BY Zenon, <1>2 DEF Holds
  <1>4. OwnerInv'
    <2>1. \A d \in Cpus, t \in Tasks : Holds(d, t)' <=> Holds(d, t)
      BY Zenon, <1>1 DEF Holds
    <2>2. \A d \in Cpus, t \in Tasks : Holds(d, t)' =>
              ~task'[t].left /\ \A e \in Cpus : Holds(e, t)' => e = d
      BY Zenon, <2>1 DEF CpuInv, OwnerInv
    <2>3. \A d \in Cpus, t \in Tasks : handoff'[d] = t =>
              /\ task'[t].left /\ task'[t].status = "SwitchingOut"
              /\ \A e \in Cpus : handoff'[e] = t => e = d
      BY <1>3 DEF CpuInv, OwnerInv
    <2> QED
      BY <1>1, <2>2, <2>3 DEF CpuInv, OwnerInv
  <1>5. StoppedInv'
    BY <1>3 DEF CpuInv, StoppedInv, LeadsBack
  <1>6. ASSUME NEW d \in Cpus \ {c} PROVE Mode(d)' /\ Status(d)' /\ Back(d)'
    <2>1. \A t \in Tasks : Holds(d, t) => task'[t] = task[t] /\ own'[t] = own[t]
      BY Zenon, <1>2 DEF Holds
    <2> QED
      BY Zenon, <2>1, Elsewhere DEF CpuInv
  <1>7. plan'[c].from = NoTask
    BY DEF CpuInv, Mode, NoPlan
  <1>8. Status(c)' /\ Back(c)'
    BY Zenon, <1>7, Names DEF Status, Back
  <1> QED
    BY Zenon, <1>4, <1>5, <1>6, <1>8 DEF CpuInv

----------------------------------------------------------------------------
(* Out of user mode and back.                                              *)

\* What is known where the CPU has a task and no switch is under way.
LEMMA Here ==
    ASSUME CpuInv, NEW c \in Cpus, pc[c] \notin Switching, Current(c) # NoTask
    PROVE  /\ Current(c) \in Tasks /\ Mode(c) /\ LeadsOut(c, Current(c))
           /\ pc[c] # "sched" => task[Current(c)].status = "Running"
           /\ task[Current(c)].status \in {"Running", "Waiting", "Zombie"}
           /\ own[Current(c)] \in Rsps
  <1>1. Current(c) \in Tasks
    BY Zenon, Names DEF CpuInv, TypeOK, PercpuData, Current
  <1>2. Mode(c) /\ Status(c) /\ Back(c)
    BY Zenon DEF CpuInv
  <1>3. LeadsOut(c, Current(c))
    BY ZenonT(30), <1>1, <1>2 DEF Back
  <1>4. own[Current(c)] \in Rsps
    BY Zenon, <1>1 DEF CpuInv, TypeOK
  <1> QED
    BY Zenon, <1>1, <1>2, <1>3, <1>4 DEF Status

\* A push or a pop.
LEMMA UserMovesStep ==
    ASSUME CpuInv, NEW c \in Cpus, NEW d \in 0 .. MaxDepth, UserMoves(c, d)
    PROVE  CpuInv'
  <1>0. pc[c] = "user" /\ pc[c] \notin Switching /\ Current(c) # NoTask
    BY Zenon DEF UserMoves, Switching, CpuInv, Mode
  <1>1. Current(c) \in Tasks /\ task[Current(c)].status = "Running" /\ Mode(c)
    BY Zenon, <1>0, Here
  <1>2. TypeOK'
    BY Zenon, <1>1, Names DEF UserMoves, CpuInv, TypeOK
  <1>3. \A e \in Cpus \ {c} : Kept(e)
    BY Zenon DEF UserMoves, Kept, CpuInv, TypeOK
  <1>4. Mode(c)'
    BY Zenon, <1>1 DEF UserMoves, Mode, StackOf, UserGs, Current
  <1>5. LeadsOut(c, Current(c))'
    BY Zenon, <1>0, <1>1 DEF UserMoves, LeadsOut, Switching, CpuInv, TypeOK, Current
  <1>6. Current(c)' = Current(c) /\ pc' = pc /\ task' = task
    BY Zenon DEF UserMoves, Current
  <1>7. \A t \in Tasks : t # Current(c) => task'[t] = task[t] /\ own'[t] = own[t]
    BY Zenon DEF UserMoves, CpuInv, TypeOK
  <1> QED
    BY Zenon, <1>0, <1>1, <1>2, <1>3, <1>4, <1>5, <1>6, <1>7, Within DEF UserMoves

\* SYSCALL.
LEMMA SyscallStep ==
    ASSUME CpuInv, NEW c \in Cpus, Syscall(c)
    PROVE  CpuInv'
  <1>0. pc[c] = "user" /\ pc[c] \notin Switching /\ Current(c) # NoTask
    BY Zenon DEF Syscall, Switching, CpuInv, Mode
  <1>1. /\ Current(c) \in Tasks /\ task[Current(c)].status = "Running" /\ Mode(c)
        /\ LeadsOut(c, Current(c))
    BY Zenon, <1>0, Here
  <1>2. gs[c] = Null /\ kgs[c] = c
    BY Zenon, <1>0, <1>1 DEF Mode, UserGs
  <1>a. gs' = [gs EXCEPT ![c] = c] /\ kgs' = [kgs EXCEPT ![c] = Null] /\ gs'[c] = c
    BY Zenon, <1>2 DEF Syscall, Swapgs, CpuInv, TypeOK
  <1>3. percpu' = [percpu EXCEPT ![c].user_stack = sp[c]]
    BY ZenonT(30), <1>a DEF Syscall, CpuInv, TypeOK
  <1>b. percpu' \in [Cpus -> PercpuData]
    BY ZenonT(40), <1>3 DEF CpuInv, TypeOK, PercpuData
  <1>4. /\ pc' = [pc EXCEPT ![c] = "call"] /\ if' = [if EXCEPT ![c] = FALSE]
        /\ on' = [on EXCEPT ![c] = percpu[c].kernel_stack]
        /\ frame' = [frame EXCEPT ![c] = [how |-> "call", rsp |-> NoRsp]]
        /\ sp' = [sp EXCEPT ![c] = NoRsp]
        /\ UNCHANGED <<cr3, rsp0, service, plan, handoff, task, own>>
    BY Zenon DEF Syscall, Goto, Flag, Frame
  <1>5. TypeOK'
    BY Zenon, <1>a, <1>b, <1>4, Names DEF CpuInv, TypeOK, Frames, Places, PercpuData
  <1>6. \A e \in Cpus \ {c} : Kept(e)
    BY Zenon, <1>a, <1>3, <1>4 DEF Kept, CpuInv, TypeOK
  <1>7. /\ Current(c)' = Current(c) /\ percpu'[c].user_stack = sp[c]
        /\ percpu'[c].kernel_stack = percpu[c].kernel_stack /\ percpu'[c].idle = percpu[c].idle
        /\ percpu'[c].need_resched = percpu[c].need_resched
    BY <1>3 DEF Current, CpuInv, TypeOK, PercpuData
  <1>8. pc'[c] = "call" /\ gs'[c] = c /\ kgs'[c] = Null /\ frame'[c].how = "call"
        /\ on'[c] = percpu[c].kernel_stack
    BY Zenon, <1>a, <1>4 DEF CpuInv, TypeOK
  <1>9. Mode(c)'
    BY Zenon, <1>0, <1>1, <1>4, <1>7, <1>8 DEF Mode, StackOf, UserGs, Switching
  <1>10. LeadsOut(c, Current(c))'
    BY Zenon, <1>0, <1>1, <1>4, <1>7, <1>8 DEF LeadsOut, Switching
  <1> QED
    BY Zenon, <1>0, <1>1, <1>4, <1>5, <1>6, <1>7, <1>8, <1>9, <1>10, Within

\* An interrupt in user mode.
LEMMA UserIrqStep ==
    ASSUME CpuInv, NEW c \in Cpus, NEW v \in Vectors(c), NEW expired \in BOOLEAN,
           UserIrq(c, v, expired)
    PROVE  CpuInv'
  <1> DEFINE how == IF Timer(v) THEN "tick" ELSE IF v = "wake" THEN "wake" ELSE "irq"
  <1>0. pc[c] = "user" /\ pc[c] \notin Switching /\ Current(c) # NoTask
    BY Zenon DEF UserIrq, Trap, Switching, CpuInv, Mode
  <1>1. /\ Current(c) \in Tasks /\ task[Current(c)].status = "Running" /\ Mode(c)
        /\ LeadsOut(c, Current(c))
    BY Zenon, <1>0, Here
  <1>2. gs[c] = Null /\ kgs[c] = c /\ ~percpu[c].need_resched
    BY Zenon, <1>0, <1>1 DEF Mode, UserGs
  <1>3. /\ gs' = IF v = "wake" THEN gs ELSE [gs EXCEPT ![c] = c]
        /\ kgs' = IF v = "wake" THEN kgs ELSE [kgs EXCEPT ![c] = Null]
    BY Zenon, <1>2 DEF UserIrq, EntersGs, Swapgs, KeepGs
  <1>4. /\ pc' = [pc EXCEPT ![c] = "irq"] /\ if' = [if EXCEPT ![c] = FALSE]
        /\ on' = [on EXCEPT ![c] = rsp0[c]] /\ service' = [service EXCEPT ![c] = {v}]
        /\ frame' = [frame EXCEPT ![c] = [how |-> how, rsp |-> sp[c]]]
        /\ sp' = [sp EXCEPT ![c] = NoRsp]
        /\ UNCHANGED <<cr3, rsp0, plan, handoff, task, own>>
    BY Zenon DEF UserIrq, Trap, Goto, Flag, Frame
  <1>5. expired => v # "wake" /\ how = "tick"
    BY Zenon DEF UserIrq, Timer
  <1>6. percpu' = IF expired THEN [percpu EXCEPT ![c].need_resched = TRUE] ELSE percpu
    <2>1. expired => gs'[c] = c
      BY Zenon, <1>3, <1>5 DEF CpuInv, TypeOK
    <2>2. CASE expired
      BY ZenonT(30), <2>1, <2>2 DEF UserIrq, CpuInv, TypeOK
    <2>3. CASE ~expired
      BY ZenonT(30), <2>3 DEF UserIrq, CpuInv, TypeOK
    <2> QED
      BY Zenon, <2>2, <2>3
  <1>7. /\ percpu' \in [Cpus -> PercpuData] /\ \A e \in Cpus \ {c} : percpu'[e] = percpu[e]
        /\ Current(c)' = Current(c) /\ percpu'[c].user_stack = percpu[c].user_stack
        /\ percpu'[c].kernel_stack = percpu[c].kernel_stack /\ percpu'[c].idle = percpu[c].idle
        /\ percpu'[c].need_resched = expired
    BY ZenonT(60), <1>2, <1>6 DEF CpuInv, TypeOK, PercpuData, Current
  <1>8. v \in AllVectors /\ how \in {"tick", "irq", "wake"} /\ (how = "wake" <=> v = "wake")
    BY Zenon DEF Vectors, AllVectors, Timer
  <1> HIDE DEF how
  <1>9. TypeOK'
    BY ZenonT(30), <1>3, <1>4, <1>7, <1>8, Names DEF CpuInv, TypeOK, Frames, Places
  <1>10. \A e \in Cpus \ {c} : Kept(e)
    BY Zenon, <1>3, <1>4, <1>7 DEF Kept, CpuInv, TypeOK
  <1>11. /\ pc'[c] = "irq" /\ frame'[c].how = how /\ frame'[c].rsp = sp[c] /\ on'[c] = rsp0[c]
         /\ service'[c] = {v} /\ gs'[c] = (IF how = "wake" THEN Null ELSE c)
         /\ kgs'[c] = (IF how = "wake" THEN c ELSE Null)
    BY Zenon, <1>2, <1>3, <1>4, <1>8 DEF CpuInv, TypeOK
  <1>12. Mode(c)'
    BY ZenonT(40), <1>0, <1>1, <1>4, <1>5, <1>7, <1>11 DEF Mode, StackOf, UserGs, Switching
  <1>13. LeadsOut(c, Current(c))'
    BY ZenonT(30), <1>0, <1>1, <1>4, <1>7, <1>8, <1>11 DEF LeadsOut, Switching
  <1> QED
    BY Zenon, <1>0, <1>1, <1>4, <1>7, <1>9, <1>10, <1>11, <1>12, <1>13, Within

\* The end of interrupt.
LEMMA AcknowledgeStep ==
    ASSUME CpuInv, NEW c \in Cpus, Acknowledge(c)
    PROVE  CpuInv'
  <1>0. pc[c] = "irq" /\ pc[c] \notin Switching /\ Current(c) # NoTask
    BY ZenonT(30) DEF Acknowledge, Switching, CpuInv, Mode
  <1>1. /\ Current(c) \in Tasks /\ task[Current(c)].status = "Running" /\ Mode(c)
        /\ LeadsOut(c, Current(c))
    BY Zenon, <1>0, Here
  <1>2. \A v \in service[c] : Eoi(v) = Controller(v)
    BY Zenon, <1>0, <1>1 DEF Mode, Vectors, Eoi, Controller
  <1>3. /\ pc' = [pc EXCEPT ![c] = "acked"] /\ service' = [service EXCEPT ![c] = {}]
        /\ UNCHANGED <<if, sp, on, gs, kgs, cr3, rsp0, percpu, frame, plan, handoff, task, own>>
    BY ZenonT(30), <1>2 DEF Acknowledge, Goto, CpuInv, TypeOK
  <1>4. TypeOK'
    BY Zenon, <1>3 DEF CpuInv, TypeOK, Places
  <1>5. \A e \in Cpus \ {c} : Kept(e)
    BY Zenon, <1>3 DEF Kept, CpuInv, TypeOK
  <1>6. pc'[c] = "acked" /\ service'[c] = {} /\ Current(c)' = Current(c)
    BY Zenon, <1>3 DEF CpuInv, TypeOK, Current
  <1>7. Mode(c)'
    BY Zenon, <1>0, <1>1, <1>3, <1>6 DEF Mode, StackOf, UserGs, Switching
  <1>8. LeadsOut(c, Current(c))'
    BY Zenon, <1>0, <1>1, <1>3, <1>6 DEF LeadsOut, Switching
  <1> QED
    BY ZenonT(30), <1>0, <1>1, <1>3, <1>4, <1>5, <1>6, <1>7, <1>8, Within

\* reschedule_if_needed.
LEMMA RescheduleStep ==
    ASSUME CpuInv, NEW c \in Cpus, Reschedule(c)
    PROVE  CpuInv'
  <1>0. pc[c] = "acked" /\ pc[c] \notin Switching /\ Current(c) # NoTask
    BY Zenon DEF Reschedule, Switching, CpuInv, Mode
  <1>1. /\ Current(c) \in Tasks /\ task[Current(c)].status = "Running" /\ Mode(c)
        /\ LeadsOut(c, Current(c))
    BY Zenon, <1>0, Here
  <1> DEFINE resched == percpu[c].need_resched
  <1>2. resched => frame[c].how = "tick" /\ gs[c] \in Cpus
    BY Zenon, <1>0, <1>1, Names DEF Mode, UserGs
  <1>3. /\ pc' = [pc EXCEPT ![c] = IF resched THEN "sched" ELSE "exit"]
        /\ percpu' = IF resched THEN [percpu EXCEPT ![c].need_resched = FALSE] ELSE percpu
    <2>1. CASE resched
      BY ZenonT(30), <1>2, <2>1 DEF Reschedule, Goto
    <2>2. CASE ~resched
      BY ZenonT(30), <2>2 DEF Reschedule, Goto
    <2> QED
      BY Zenon, <2>1, <2>2
  <1>4. UNCHANGED <<if, sp, on, gs, kgs, cr3, rsp0, frame, service, plan, handoff, task, own>>
    BY Zenon DEF Reschedule
  <1>5. /\ percpu' \in [Cpus -> PercpuData] /\ \A e \in Cpus \ {c} : percpu'[e] = percpu[e]
        /\ Current(c)' = Current(c) /\ percpu'[c].user_stack = percpu[c].user_stack
        /\ percpu'[c].kernel_stack = percpu[c].kernel_stack /\ percpu'[c].idle = percpu[c].idle
        /\ ~percpu'[c].need_resched
    BY ZenonT(30), <1>3 DEF CpuInv, TypeOK, PercpuData, Current
  <1>6. TypeOK'
    BY Zenon, <1>3, <1>4, <1>5 DEF CpuInv, TypeOK, Places
  <1>7. \A e \in Cpus \ {c} : Kept(e)
    BY Zenon, <1>3, <1>4, <1>5 DEF Kept, CpuInv, TypeOK
  <1>8. pc'[c] = IF resched THEN "sched" ELSE "exit"
    BY Zenon, <1>3 DEF CpuInv, TypeOK
  <1>a. LeadsOut(c, Current(c))'
    BY Zenon, <1>0, <1>1, <1>2, <1>4, <1>5, <1>8 DEF LeadsOut, Switching, LeadsBack
  <1>b. frame[c].how # "call"
    BY Zenon, <1>0, <1>1 DEF LeadsOut
  <1>9. Mode(c)'
    BY Zenon, <1>0, <1>1, <1>2, <1>4, <1>5, <1>8, <1>b DEF Mode, StackOf, UserGs, Switching
  <1> QED
    BY Zenon, <1>0, <1>1, <1>4, <1>5, <1>6, <1>7, <1>8, <1>9, <1>a, Within

\* An interrupt in the kernel only ever ends a hlt.
LEMMA KernelIrqStep ==
    ASSUME CpuInv, NEW c \in Cpus, NEW expired \in BOOLEAN, KernelIrq(c, expired)
    PROVE  CpuInv'
  <1>1. Mode(c)
    BY Zenon DEF CpuInv
  <1>2. ~expired /\ pc[c] \notin {"irq", "acked"}
    BY Zenon DEF KernelIrq, Charges
  <1>3. gs[c] \in Cpus => gs[c] = c /\ ~percpu[gs[c]].need_resched
    BY Zenon, <1>1, <1>2, Names DEF Mode
  <1>4. pc[c] = "halt" /\ pc' = [pc EXCEPT ![c] = "idle"]
    BY Zenon, <1>2, <1>3 DEF KernelIrq, Goto
  <1>5. UNCHANGED <<if, sp, on, gs, kgs, cr3, rsp0, percpu, frame, service, plan, handoff,
                    task, own>>
    BY Zenon DEF KernelIrq
  <1>6. Current(c)' = Current(c) /\ Current(c) = NoTask /\ pc'[c] = "idle"
    BY ZenonT(30), <1>1, <1>4, <1>5 DEF Mode, Current, CpuInv, TypeOK
  <1>7. TypeOK'
    BY Zenon, <1>4, <1>5 DEF CpuInv, TypeOK, Places
  <1>8. \A e \in Cpus \ {c} : Kept(e)
    BY Zenon, <1>4, <1>5 DEF Kept, CpuInv, TypeOK
  <1>9. Mode(c)'
    BY ZenonT(30), <1>1, <1>4, <1>5, <1>6 DEF Mode, StackOf, UserGs, Switching
  <1>10. pc[c] \notin Switching
    BY Zenon, <1>4 DEF Switching
  <1> QED
    BY Zenon, <1>5, <1>6, <1>7, <1>8, <1>9, <1>10, Names, Within

\* A turn of the scheduler loop.
LEMMA IdleTurnStep ==
    ASSUME CpuInv, NEW c \in Cpus, IdleTurn(c)
    PROVE  CpuInv'
  <1>1. Mode(c)
    BY Zenon DEF CpuInv
  <1>2. /\ pc[c] = "idle" /\ pc' = [pc EXCEPT ![c] = "sched"]
        /\ UNCHANGED <<if, sp, on, gs, kgs, cr3, rsp0, percpu, frame, service, plan, handoff,
                       task, own>>
    BY Zenon DEF IdleTurn, Goto
  <1>3. Current(c)' = Current(c) /\ Current(c) = NoTask /\ pc'[c] = "sched"
    BY ZenonT(30), <1>1, <1>2 DEF Mode, Current, CpuInv, TypeOK
  <1>4. TypeOK'
    BY Zenon, <1>2 DEF CpuInv, TypeOK, Places
  <1>5. \A e \in Cpus \ {c} : Kept(e)
    BY Zenon, <1>2 DEF Kept, CpuInv, TypeOK
  <1>6. Mode(c)'
    BY ZenonT(30), <1>1, <1>2, <1>3 DEF Mode, StackOf, UserGs, Switching
  <1>7. pc[c] \notin Switching
    BY Zenon, <1>2 DEF Switching
  <1> QED
    BY Zenon, <1>2, <1>3, <1>4, <1>5, <1>6, <1>7, Names, Within

\* sti and hlt.
LEMMA HaltStep ==
    ASSUME CpuInv, NEW c \in Cpus, Halt(c)
    PROVE  CpuInv'
  <1>1. Mode(c)
    BY Zenon DEF CpuInv
  <1>2. /\ pc[c] = "tail" /\ pc' = [pc EXCEPT ![c] = "halt"] /\ if' = [if EXCEPT ![c] = TRUE]
        /\ UNCHANGED <<sp, on, gs, kgs, cr3, rsp0, percpu, frame, service, plan, handoff,
                       task, own>>
    BY Zenon DEF Halt, Sti, Flag, Goto
  <1>3. Current(c)' = Current(c) /\ Current(c) = NoTask /\ pc'[c] = "halt" /\ if'[c]
    BY ZenonT(30), <1>1, <1>2 DEF Mode, Current, CpuInv, TypeOK
  <1>4. TypeOK'
    BY Zenon, <1>2 DEF CpuInv, TypeOK, Places
  <1>5. \A e \in Cpus \ {c} : Kept(e)
    BY Zenon, <1>2 DEF Kept, CpuInv, TypeOK
  <1>6. Mode(c)'
    BY ZenonT(30), <1>1, <1>2, <1>3 DEF Mode, StackOf, UserGs, Switching
  <1>7. pc[c] \notin Switching
    BY Zenon, <1>2 DEF Switching
  <1> QED
    BY Zenon, <1>2, <1>3, <1>4, <1>5, <1>6, <1>7, Names, Within

\* mov rsp, gs:[8].
LEMMA CallReturnsStep ==
    ASSUME CpuInv, NEW c \in Cpus, CallReturns(c)
    PROVE  CpuInv'
  <1>0. pc[c] = "call" /\ pc[c] \notin Switching /\ Current(c) # NoTask
    BY ZenonT(30) DEF CallReturns, Switching, CpuInv, Mode
  <1>1. /\ Current(c) \in Tasks /\ task[Current(c)].status = "Running" /\ Mode(c)
        /\ LeadsOut(c, Current(c))
    BY Zenon, <1>0, Here
  <1>2. /\ pc' = [pc EXCEPT ![c] = "exit"] /\ on' = [on EXCEPT ![c] = NoTask]
        /\ sp' = [sp EXCEPT ![c] = percpu[c].user_stack]
        /\ UNCHANGED <<if, gs, kgs, cr3, rsp0, percpu, frame, service, plan, handoff, task, own>>
    BY Zenon DEF CallReturns, Goto
  <1>3. percpu[c].user_stack \in Rsps
    BY Zenon DEF CpuInv, TypeOK, PercpuData
  <1>4. TypeOK'
    BY Zenon, <1>2, <1>3, Names DEF CpuInv, TypeOK, Places
  <1>5. \A e \in Cpus \ {c} : Kept(e)
    BY Zenon, <1>2 DEF Kept, CpuInv, TypeOK
  <1>6. /\ pc'[c] = "exit" /\ on'[c] = NoTask /\ sp'[c] = percpu[c].user_stack
        /\ Current(c)' = Current(c)
    BY Zenon, <1>2 DEF CpuInv, TypeOK, Current
  <1>7. frame[c].how = "call" /\ percpu[c].user_stack = own[Current(c)]
    BY Zenon, <1>0, <1>1 DEF LeadsOut
  <1>8. Mode(c)'
    BY Zenon, <1>0, <1>1, <1>2, <1>6, <1>7 DEF Mode, StackOf, UserGs, Switching
  <1>9. LeadsOut(c, Current(c))'
    BY Zenon, <1>2, <1>6, <1>7 DEF LeadsOut, Switching
  <1> QED
    BY ZenonT(30), <1>0, <1>1, <1>2, <1>4, <1>5, <1>6, <1>8, <1>9, Within

\* The SWAPGS on the way out.
LEMMA ExitStep ==
    ASSUME CpuInv, NEW c \in Cpus, Exit(c)
    PROVE  CpuInv'
  <1>0. pc[c] = "exit" /\ pc[c] \notin Switching /\ Current(c) # NoTask
    BY Zenon DEF Exit, Switching, CpuInv, Mode
  <1>1. /\ Current(c) \in Tasks /\ task[Current(c)].status = "Running" /\ Mode(c)
        /\ LeadsOut(c, Current(c))
    BY Zenon, <1>0, Here
  <1>2. /\ pc' = [pc EXCEPT ![c] = "return"]
        /\ UNCHANGED <<if, sp, on, cr3, rsp0, percpu, frame, service, plan, handoff, task, own>>
    BY Zenon DEF Exit, Goto
  <1>3. gs' = [gs EXCEPT ![c] = Null] /\ kgs' = [kgs EXCEPT ![c] = c]
    <2>1. CASE frame[c].how = "wake"
      <3>1. gs[c] = Null /\ kgs[c] = c /\ UNCHANGED <<gs, kgs>>
        BY Zenon, <1>0, <1>1, <2>1 DEF Mode, UserGs, Exit, LeavesGs, KeepGs
      <3> QED
        BY Zenon, <3>1 DEF CpuInv, TypeOK
    <2>2. CASE frame[c].how # "wake"
      <3>1. gs[c] = c /\ kgs[c] = Null
        BY Zenon, <1>0, <1>1, <2>2 DEF Mode, UserGs
      <3> QED
        BY Zenon, <2>2, <3>1 DEF Exit, LeavesGs, Swapgs
    <2> QED
      BY Zenon, <2>1, <2>2
  <1>4. TypeOK'
    BY Zenon, <1>2, <1>3 DEF CpuInv, TypeOK, Places
  <1>5. \A e \in Cpus \ {c} : Kept(e)
    BY Zenon, <1>2, <1>3 DEF Kept, CpuInv, TypeOK
  <1>6. pc'[c] = "return" /\ gs'[c] = Null /\ kgs'[c] = c /\ Current(c)' = Current(c)
    BY Zenon, <1>2, <1>3 DEF CpuInv, TypeOK, Current
  <1>7. Mode(c)'
    BY ZenonT(30), <1>0, <1>1, <1>2, <1>6 DEF Mode, StackOf, UserGs, Switching
  <1>8. LeadsOut(c, Current(c))'
    BY ZenonT(30), <1>0, <1>1, <1>2, <1>6 DEF LeadsOut, Switching
  <1> QED
    BY Zenon, <1>0, <1>1, <1>2, <1>4, <1>5, <1>6, <1>7, <1>8, Within

\* SYSRETQ and IRETQ.
LEMMA ReturnStep ==
    ASSUME CpuInv, NEW c \in Cpus, Return(c)
    PROVE  CpuInv'
  <1>0. pc[c] = "return" /\ pc[c] \notin Switching /\ Current(c) # NoTask
    BY Zenon DEF Return, Switching, CpuInv, Mode
  <1>1. /\ Current(c) \in Tasks /\ task[Current(c)].status = "Running" /\ Mode(c)
        /\ LeadsOut(c, Current(c)) /\ own[Current(c)] \in Rsps
    BY Zenon, <1>0, Here
  <1>2. /\ pc' = [pc EXCEPT ![c] = "user"] /\ if' = [if EXCEPT ![c] = TRUE]
        /\ on' = [on EXCEPT ![c] = NoTask]
        /\ frame' = [frame EXCEPT ![c] = [how |-> "none", rsp |-> NoRsp]]
        /\ UNCHANGED <<gs, kgs, cr3, rsp0, percpu, service, plan, handoff, task, own>>
    BY Zenon DEF Return, Goto, Flag, NoFrame, Frame
  <1>3. sp' = [sp EXCEPT ![c] = own[Current(c)]]
    BY ZenonT(30), <1>0, <1>1 DEF LeadsOut, Return, CpuInv, TypeOK
  <1>4. TypeOK'
    BY Zenon, <1>1, <1>2, <1>3, Names DEF CpuInv, TypeOK, Places, Frames
  <1>5. \A e \in Cpus \ {c} : Kept(e)
    BY Zenon, <1>2, <1>3 DEF Kept, CpuInv, TypeOK
  <1>6. /\ pc'[c] = "user" /\ if'[c] /\ on'[c] = NoTask /\ sp'[c] = own[Current(c)]
        /\ Current(c)' = Current(c)
    BY Zenon, <1>2, <1>3 DEF CpuInv, TypeOK, Current
  <1>7. Mode(c)'
    BY Zenon, <1>0, <1>1, <1>2, <1>6 DEF Mode, StackOf, UserGs, Switching
  <1>8. LeadsOut(c, Current(c))'
    BY ZenonT(30), <1>2, <1>6 DEF LeadsOut, Switching
  <1> QED
    BY ZenonT(30), <1>0, <1>1, <1>2, <1>4, <1>5, <1>6, <1>7, <1>8, Within

\* exception_handler, which ends the task.
LEMMA FaultStep ==
    ASSUME CpuInv, NEW c \in Cpus, Fault(c)
    PROVE  CpuInv'
  <1>0. pc[c] = "user" /\ pc[c] \notin Switching /\ Current(c) # NoTask
    BY Zenon DEF Fault, Trap, Switching, CpuInv, Mode
  <1>1. /\ Current(c) \in Tasks /\ task[Current(c)].status = "Running" /\ Mode(c)
    BY Zenon, <1>0, Here
  <1>2. gs[c] = Null /\ kgs[c] = c
    BY Zenon, <1>0, <1>1 DEF Mode, UserGs
  <1>3. gs' = [gs EXCEPT ![c] = c] /\ kgs' = [kgs EXCEPT ![c] = Null]
    BY Zenon, <1>2 DEF Fault, FaultGs, Swapgs
  <1>4. /\ pc' = [pc EXCEPT ![c] = "sched"] /\ if' = [if EXCEPT ![c] = FALSE]
        /\ on' = [on EXCEPT ![c] = rsp0[c]] /\ sp' = [sp EXCEPT ![c] = NoRsp]
        /\ frame' = [frame EXCEPT ![c] = [how |-> "fault", rsp |-> sp[c]]]
        /\ UNCHANGED <<cr3, rsp0, plan, handoff, own, percpu, service>>
    BY Zenon DEF Fault, Trap, Goto, Flag, Frame
  <1>5. /\ task' \in [Tasks -> TaskRecords] /\ task'[Current(c)].status = "Zombie"
        /\ \A t \in Tasks : t # Current(c) => task'[t] = task[t]
        /\ \A t \in Tasks : task'[t].left = task[t].left
    BY ZenonT(40), <1>1 DEF Fault, CpuInv, TypeOK, TaskRecords
  <1>6. TypeOK'
    BY Zenon, <1>3, <1>4, <1>5, Names DEF CpuInv, TypeOK, Frames, Places
  <1>7. \A e \in Cpus \ {c} : Kept(e)
    BY Zenon, <1>3, <1>4 DEF Kept, CpuInv, TypeOK
  <1>8. /\ pc'[c] = "sched" /\ gs'[c] = c /\ kgs'[c] = Null /\ on'[c] = rsp0[c]
        /\ Current(c)' = Current(c)
    BY Zenon, <1>3, <1>4 DEF CpuInv, TypeOK, Current
  <1>9. Mode(c)'
    BY ZenonT(30), <1>0, <1>1, <1>4, <1>8 DEF Mode, StackOf, UserGs, Switching
  <1>10. LeadsOut(c, Current(c))'
    BY ZenonT(30), <1>5, <1>8 DEF LeadsOut, Switching
  <1> QED
    BY Zenon, <1>0, <1>1, <1>4, <1>5, <1>6, <1>7, <1>8, <1>9, <1>10, Within

\* A call yields, blocks or exits.
LEMMA CallSwitchesStep ==
    ASSUME CpuInv, NEW c \in Cpus, NEW s \in {"Running", "Waiting", "Zombie"},
           CallSwitches(c, s)
    PROVE  CpuInv'
  <1>0. pc[c] = "call" /\ pc[c] \notin Switching /\ Current(c) # NoTask
    BY Zenon DEF CallSwitches, Switching, CpuInv, Mode
  <1>1. /\ Current(c) \in Tasks /\ task[Current(c)].status = "Running" /\ Mode(c)
        /\ LeadsOut(c, Current(c))
    BY Zenon, <1>0, Here
  <1>2. /\ pc' = [pc EXCEPT ![c] = "sched"]
        /\ UNCHANGED <<if, sp, on, gs, kgs, cr3, rsp0, percpu, frame, service, plan, handoff, own>>
    BY Zenon DEF CallSwitches, Goto
  <1>3. /\ task' \in [Tasks -> TaskRecords] /\ task'[Current(c)].status = s
        /\ \A t \in Tasks : t # Current(c) => task'[t] = task[t]
        /\ \A t \in Tasks : task'[t].left = task[t].left
    BY SMTT(30), <1>1 DEF CallSwitches, CpuInv, TypeOK, TaskRecords
  <1>4. TypeOK'
    BY Zenon, <1>2, <1>3 DEF CpuInv, TypeOK, Places
  <1>5. \A e \in Cpus \ {c} : Kept(e)
    BY Zenon, <1>2 DEF Kept, CpuInv, TypeOK
  <1>6. pc'[c] = "sched" /\ Current(c)' = Current(c)
    BY Zenon, <1>2 DEF CpuInv, TypeOK, Current
  <1>7. Mode(c)'
    BY ZenonT(30), <1>0, <1>1, <1>2, <1>6 DEF Mode, StackOf, UserGs, Switching
  <1>8. LeadsOut(c, Current(c))'
    BY ZenonT(30), <1>0, <1>1, <1>2, <1>6 DEF LeadsOut, LeadsBack, Switching
  <1> QED
    BY Zenon, <1>0, <1>1, <1>2, <1>3, <1>4, <1>5, <1>6, <1>7, <1>8, Within

----------------------------------------------------------------------------
(* The switch from one task to another.                                    *)

\* A step of CPU c that leaves the tasks of the other CPUs alone.
LEMMA Across ==
    ASSUME CpuInv, TypeOK', NEW c \in Cpus, \A d \in Cpus \ {c} : Kept(d),
           \A d \in Cpus \ {c}, t \in Tasks :
               Holds(d, t) => task'[t] = task[t] /\ own'[t] = own[t],
           OwnerInv', StoppedInv', Mode(c)', Status(c)', Back(c)'
    PROVE  CpuInv'
  <1>1. ASSUME NEW d \in Cpus \ {c} PROVE Mode(d)' /\ Status(d)' /\ Back(d)'
    BY Zenon, Elsewhere DEF CpuInv
  <1> QED
    BY Zenon, <1>1 DEF CpuInv

\* An event or a deadline.
LEMMA WakeStep ==
    ASSUME CpuInv, NEW w \in Tasks, Wake(w)
    PROVE  CpuInv'
  <1>1. /\ task[w].status = "Waiting" /\ task[w].left
        /\ UNCHANGED <<pc, if, sp, on, gs, kgs, cr3, rsp0, percpu, frame, service, plan,
                       handoff, own>>
    BY Zenon DEF Wake
  <1>2. /\ task' \in [Tasks -> TaskRecords] /\ task'[w].status = "Ready"
        /\ \A t \in Tasks : t # w => task'[t] = task[t]
        /\ task'[w].left = task[w].left /\ task'[w].frame = task[w].frame
        /\ task'[w].user_rsp = task[w].user_rsp
    BY ZenonT(30) DEF Wake, CpuInv, TypeOK, TaskRecords
  <1>3. TypeOK'
    BY Zenon, <1>1, <1>2 DEF CpuInv, TypeOK
  <1>4. \A d \in Cpus : ~Holds(d, w) /\ handoff[d] # w
    BY Zenon, <1>1 DEF CpuInv, OwnerInv
  <1>5. \A d \in Cpus, t \in Tasks : Holds(d, t)' <=> Holds(d, t)
    BY Zenon, <1>1 DEF Holds, Current
  <1>6. OwnerInv'
    <2>1. \A d \in Cpus, t \in Tasks : Holds(d, t)' =>
              ~task'[t].left /\ \A e \in Cpus : Holds(e, t)' => e = d
      BY Zenon, <1>2, <1>4, <1>5 DEF CpuInv, OwnerInv
    <2>2. \A d \in Cpus, t \in Tasks : handoff'[d] = t =>
              /\ task'[t].left /\ task'[t].status = "SwitchingOut"
              /\ \A e \in Cpus : handoff'[e] = t => e = d
      <3>1. \A d \in Cpus, t \in Tasks : handoff[d] = t =>
                /\ task[t].left /\ task[t].status = "SwitchingOut"
                /\ \A e \in Cpus : handoff[e] = t => e = d
        BY ZenonT(30) DEF CpuInv, OwnerInv
      <3> QED
        BY <1>1, <1>2, <1>4, <3>1
    <2> QED
      BY ZenonT(30), <1>1, <1>2, <2>1, <2>2 DEF CpuInv, OwnerInv, Current
  <1>7. StoppedInv'
    BY <1>1, <1>2 DEF CpuInv, StoppedInv, LeadsBack
  <1>8. ASSUME NEW d \in Cpus PROVE Mode(d)' /\ Status(d)' /\ Back(d)'
    <2>1. Kept(d)
      BY Zenon, <1>1 DEF Kept
    <2>2. \A t \in Tasks : Holds(d, t) => task'[t] = task[t] /\ own'[t] = own[t]
      BY Zenon, <1>1, <1>2, <1>4
    <2> QED
      BY Zenon, <2>1, <2>2, Elsewhere DEF CpuInv
  <1> QED
    BY Zenon, <1>3, <1>6, <1>7, <1>8 DEF CpuInv

\* CR3, RSP0, gs:[0], gs:[8] and the GS base of the incoming task.
LEMMA LoadStep ==
    ASSUME CpuInv, NEW c \in Cpus, Load(c)
    PROVE  CpuInv'
  <1> DEFINE n == Current(c)
  <1>0. pc[c] = "load" /\ Mode(c) /\ Status(c) /\ Back(c)
    BY Zenon DEF Load, CpuInv
  <1>1. n \in Stacks /\ plan[c].rsp \in Rsps /\ plan[c].gs = Null
    BY Zenon DEF CpuInv, TypeOK, PercpuData, SwitchPlans, Current
  <1>2. /\ pc' = [pc EXCEPT ![c] = "switch"] /\ cr3' = [cr3 EXCEPT ![c] = n]
        /\ rsp0' = IF n = NoTask THEN rsp0 ELSE [rsp0 EXCEPT ![c] = n]
        /\ kgs' = IF n = NoTask THEN kgs ELSE [kgs EXCEPT ![c] = Null]
        /\ UNCHANGED <<if, sp, on, gs, frame, service, plan, handoff, task, own>>
    BY Zenon, <1>1 DEF Load, Goto, Loaded, LoadedIdle
  <1>3. percpu' = IF n = NoTask THEN percpu
                  ELSE [percpu EXCEPT ![c].kernel_stack = n, ![c].user_stack = plan[c].rsp]
    BY Zenon DEF Load, Loaded, LoadedIdle
  <1>4. /\ percpu' \in [Cpus -> PercpuData] /\ \A e \in Cpus \ {c} : percpu'[e] = percpu[e]
        /\ Current(c)' = n /\ percpu'[c].idle = percpu[c].idle
        /\ percpu'[c].need_resched = percpu[c].need_resched
        /\ n # NoTask => percpu'[c].kernel_stack = n /\ percpu'[c].user_stack = plan[c].rsp
    BY ZenonT(30), <1>1, <1>3 DEF CpuInv, TypeOK, PercpuData, Current
  <1>5. /\ pc'[c] = "switch" /\ cr3'[c] = n /\ (n # NoTask => rsp0'[c] = n /\ kgs'[c] = Null)
    BY Zenon, <1>2 DEF CpuInv, TypeOK
  <1>6. \A e \in Cpus : Current(e)' = Current(e)
    BY Zenon, <1>4 DEF Current
  <1> HIDE DEF n
  <1>7. TypeOK'
    BY ZenonT(30), <1>1, <1>2, <1>4 DEF CpuInv, TypeOK, Places
  <1>8. \A e \in Cpus \ {c} : Kept(e)
    BY ZenonT(30), <1>2, <1>4 DEF Kept, CpuInv, TypeOK
  <1>9. OwnerInv'
    <2>1. \A e \in Cpus, t \in Tasks : Holds(e, t)' <=> Holds(e, t)
      BY ZenonT(30), <1>2, <1>6 DEF Holds
    <2>2. \A e \in Cpus : Current(e)' = Current(e)
      BY Zenon, <1>6
    <2> QED
      BY <1>2, <2>1, <2>2 DEF CpuInv, OwnerInv
  <1>10. StoppedInv'
    BY Zenon, <1>2 DEF CpuInv, StoppedInv, LeadsBack
  <1> USE DEF n
  <1>11. Mode(c)'
    BY ZenonT(30), <1>0, <1>2, <1>4, <1>5 DEF Mode, StackOf, UserGs, Switching
  <1>12. Status(c)'
    BY ZenonT(30), <1>0, <1>2, <1>4, <1>5 DEF Status
  <1>13. Back(c)'
    <2>1. ASSUME NEW t \in Tasks, plan[c].from = t, task[t].status # "Zombie"
          PROVE  LeadsBack(t, frame[c], task[t].user_rsp)'
      BY Zenon, <1>0, <1>2, <2>1 DEF Back, LeadsBack
    <2>2. ASSUME NEW t \in Tasks, n = t PROVE LeadsOut(c, t)'
      <3>1. LeadsOut(c, t)
        BY ZenonT(30), <1>0, <2>2 DEF Back
      <3> QED
        BY ZenonT(30), <1>0, <1>2, <1>4, <1>5, <2>2, <3>1, Names DEF LeadsOut, LeadsBack, Switching
    <2> QED
      BY ZenonT(30), <1>2, <1>4, <2>1, <2>2 DEF Back
  <1> QED
    BY Zenon, <1>2, <1>7, <1>8, <1>9, <1>10, <1>11, <1>12, <1>13, Across

\* context_switch.
LEMMA ContextSwitchStep ==
    ASSUME CpuInv, NEW c \in Cpus, ContextSwitch(c)
    PROVE  CpuInv'
  <1> DEFINE n == Current(c)
             from == plan[c].from
             out == plan[c].out
  <1>0. pc[c] = "switch" /\ Mode(c) /\ Status(c) /\ Back(c)
    BY ZenonT(30) DEF ContextSwitch, CpuInv
  <1>1. n \in Stacks /\ from \in Stacks /\ out \in Stacks /\ frame[c] \in Frames
    BY Zenon DEF CpuInv, TypeOK, PercpuData, SwitchPlans, Current
  <1>2. (from # NoTask => from # n) /\ (out # NoTask => out = from)
    BY Zenon DEF CpuInv, OwnerInv
  <1>3. /\ on' = [on EXCEPT ![c] = n] /\ handoff' = [handoff EXCEPT ![c] = out]
        /\ frame' = [frame EXCEPT ![c] = IF n = NoTask THEN NoFrame ELSE task[n].frame]
        /\ plan' = [plan EXCEPT ![c] = NoPlan]
        /\ pc' = [pc EXCEPT ![c] = IF n = NoTask THEN "tail" ELSE ResumeAt(task[n].frame.how)]
        /\ UNCHANGED <<if, sp, gs, kgs, cr3, rsp0, service, own>>
    BY ZenonT(30) DEF ContextSwitch, Goto
  <1>4. percpu' = [percpu EXCEPT ![c].idle = @ \/ from = NoTask]
    BY ZenonT(30) DEF ContextSwitch
  <1>5. /\ percpu' \in [Cpus -> PercpuData] /\ \A e \in Cpus \ {c} : percpu'[e] = percpu[e]
        /\ Current(c)' = n /\ percpu'[c].user_stack = percpu[c].user_stack
        /\ percpu'[c].kernel_stack = percpu[c].kernel_stack
        /\ percpu'[c].idle = (percpu[c].idle \/ from = NoTask)
        /\ percpu'[c].need_resched = percpu[c].need_resched
    BY ZenonT(30), <1>4 DEF CpuInv, TypeOK, PercpuData, Current
  <1>6. /\ task' \in [Tasks -> TaskRecords]
        /\ \A t \in Tasks : t # from => task'[t] = task[t]
        /\ from \in Tasks => /\ task'[from].frame = frame[c] /\ task'[from].left
                             /\ task'[from].status = task[from].status
                             /\ task'[from].user_rsp = task[from].user_rsp
    <2> DEFINE saved(t) == IF t = from THEN [task[t] EXCEPT !.frame = frame[c], !.left = TRUE]
                                       ELSE task[t]
    <2>1. task' = [t \in Tasks |-> saved(t)]
      BY ZenonT(30) DEF ContextSwitch
    <2>2. \A t \in Tasks : task[t] \in TaskRecords
      BY ZenonT(30) DEF CpuInv, TypeOK
    <2>3. \A t \in Tasks : saved(t) \in TaskRecords
      BY ZenonT(30), <1>1, <2>2 DEF TaskRecords
    <2>4. \A t \in Tasks : task'[t] = saved(t)
      BY ZenonT(30), <2>1
    <2>5. task' \in [Tasks -> TaskRecords]
      BY ZenonT(30), <2>1, <2>3
    <2> QED
      BY ZenonT(30), <2>2, <2>4, <2>5 DEF TaskRecords
  <1>7. ASSUME n # NoTask
        PROVE  /\ n \in Tasks /\ task[n].frame \in Frames /\ task[n].status = "Running"
               /\ \/ task[n].frame.how = "call" /\ percpu[c].user_stack = own[n]
                  \/ task[n].frame.how \in {"new", "tick"} /\ task[n].frame.rsp = own[n]
    <2>1. n \in Tasks
      BY Zenon, <1>1, <1>7, Names
    <2>2. LeadsOut(c, n)
      BY ZenonT(30), <1>0, <2>1 DEF Back
    <2>3. LeadsBack(n, task[n].frame, percpu[c].user_stack)
      BY Zenon, <1>0, <2>2 DEF LeadsOut, Switching
    <2>4. task[n].frame \in Frames
      BY Zenon, <2>1 DEF CpuInv, TypeOK, TaskRecords
    <2>5. task[n].status = "Running"
      BY Zenon, <1>0, <2>1 DEF Status
    <2> QED
      BY Zenon, <2>1, <2>3, <2>4, <2>5 DEF LeadsBack
  <1>8. /\ on'[c] = n /\ plan'[c] = NoPlan /\ handoff'[c] = out
        /\ frame'[c] = IF n = NoTask THEN NoFrame ELSE task[n].frame
        /\ pc'[c] = IF n = NoTask THEN "tail" ELSE ResumeAt(task[n].frame.how)
    BY Zenon, <1>3 DEF CpuInv, TypeOK
  <1>9. \A e \in Cpus \ {c} : Kept(e) /\ handoff'[e] = handoff[e]
    BY ZenonT(40), <1>3, <1>5 DEF Kept, CpuInv, TypeOK
  <1>10. NoFrame \in Frames /\ NoPlan \in SwitchPlans /\ NoPlan.from = NoTask
    BY Zenon, Names DEF NoFrame, Frame, Frames, NoPlan, SwitchPlans
  <1>11. TypeOK'
    BY ZenonT(30), <1>1, <1>3, <1>5, <1>6, <1>7, <1>10 DEF CpuInv, TypeOK, Places, ResumeAt
  <1>12. \A d \in Cpus \ {c}, t \in Tasks :
             Holds(d, t) => task'[t] = task[t] /\ own'[t] = own[t]
    <2>1. \A d \in Cpus \ {c} : from \in Tasks => ~Holds(d, from)
      BY ZenonT(40) DEF CpuInv, OwnerInv, Holds
    <2> QED
      BY Zenon, <1>3, <1>6, <2>1
  <1>13. /\ \A t \in Tasks : Holds(c, t)' <=> t = n
         /\ \A d \in Cpus \ {c}, t \in Tasks : Holds(d, t)' <=> Holds(d, t)
    BY Zenon, <1>5, <1>8, <1>9, <1>10, Names DEF Holds, Kept, Current
  <1>14. OwnerInv'
    <2>0. OwnerInv /\ Holds(c, n) /\ Holds(c, from)
      BY Zenon DEF CpuInv, Holds
    <2>1. ASSUME NEW d \in Cpus, NEW t \in Tasks, Holds(d, t)'
          PROVE  ~task'[t].left /\ \A e \in Cpus : Holds(e, t)' => e = d
      <3>1. Holds(d, t) /\ t # from
        <4>1. CASE d = c
          BY Zenon, <1>2, <1>13, <2>0, <2>1, <4>1, Names
        <4>2. CASE d # c
          <5>1. Holds(d, t)
            BY Zenon, <1>13, <2>1, <4>2
          <5>2. ~Holds(c, t)
            BY Zenon, <2>0, <4>2, <5>1 DEF OwnerInv
          <5> QED
            BY ZenonT(30), <2>0, <5>1, <5>2
        <4> QED
          BY Zenon, <4>1, <4>2
      <3>2. \A e \in Cpus : Holds(e, t)' => Holds(e, t)
        BY Zenon, <1>13, <2>0
      <3>3. ~task[t].left /\ \A e \in Cpus : Holds(e, t) => e = d
        BY Zenon, <2>0, <3>1 DEF OwnerInv
      <3>4. task'[t] = task[t]
        BY Zenon, <1>6, <3>1
      <3> QED
        BY ZenonT(30), <3>2, <3>3, <3>4
    <2>2. \A d \in Cpus : plan'[d].from # NoTask => plan'[d].from # Current(d)'
      BY <1>8, <1>9, <2>0 DEF OwnerInv, Kept, Current, NoPlan
    <2>7. \A d \in Cpus : plan'[d].out # NoTask => plan'[d].out = plan'[d].from
      BY <1>8, <1>9, <2>0 DEF OwnerInv, Kept, NoPlan
    <2>3. \A t \in Tasks : task'[t].status = "Ready" => task'[t].left
      BY Zenon, <1>6, <2>0 DEF OwnerInv
    <2>4. ASSUME NEW d \in Cpus, NEW t \in Tasks, handoff'[d] = t
          PROVE  /\ task'[t].left /\ task'[t].status = "SwitchingOut"
                 /\ \A e \in Cpus : handoff'[e] = t => e = d
      <3>1. CASE d = c
        <4>1. t = out /\ t = from
          BY Zenon, <1>2, <1>8, <2>4, <3>1, Names
        <4>2. task[t].status = "SwitchingOut"
          BY Zenon, <1>0, <4>1 DEF Status
        <4>3. ~task[t].left
          BY ZenonT(40), <2>0, <4>1 DEF OwnerInv
        <4>4. \A e \in Cpus \ {c} : handoff[e] # t
          BY Zenon, <2>0, <4>3 DEF OwnerInv
        <4> QED
          BY Zenon, <1>6, <1>9, <3>1, <4>1, <4>2, <4>4
      <3>2. CASE d # c
        <4>1. /\ handoff[d] = t /\ task[t].left /\ task[t].status = "SwitchingOut"
              /\ \A e \in Cpus : handoff[e] = t => e = d
          BY Zenon, <1>9, <2>0, <2>4, <3>2 DEF OwnerInv
        <4>2. t # from
          BY Zenon, <2>0, <4>1 DEF OwnerInv
        <4>3. handoff'[c] # t
          BY Zenon, <1>2, <1>8, <4>2, Names
        <4> QED
          BY Zenon, <1>6, <1>9, <4>1, <4>2, <4>3
      <3> QED
        BY Zenon, <3>1, <3>2
    <2>5. \A d \in Cpus, t \in Tasks : handoff'[d] = t =>
              /\ task'[t].left /\ task'[t].status = "SwitchingOut"
              /\ \A e \in Cpus : handoff'[e] = t => e = d
      BY ZenonT(30), <2>4
    <2>6. \A d \in Cpus, t \in Tasks : Holds(d, t)' =>
              ~task'[t].left /\ \A e \in Cpus : Holds(e, t)' => e = d
      BY ZenonT(30), <2>1
    <2> QED
      BY ZenonT(30), <2>2, <2>3, <2>5, <2>6, <2>7 DEF OwnerInv
  <1>15. StoppedInv'
    <2> SUFFICES ASSUME NEW t \in Tasks, task'[t].left, task'[t].status # "Zombie"
                 PROVE  LeadsBack(t, task[t].frame, task[t].user_rsp)'
      BY Zenon DEF StoppedInv
    <2>1. CASE t = from
      <3>1. LeadsBack(t, frame[c], task[t].user_rsp)
        BY Zenon, <1>0, <1>6, <2>1 DEF Back
      <3> QED
        BY Zenon, <1>3, <1>6, <2>1, <3>1 DEF LeadsBack
    <2>2. CASE t # from
      BY Zenon, <1>3, <1>6, <2>2 DEF CpuInv, StoppedInv, LeadsBack
    <2> QED
      BY Zenon, <2>1, <2>2
  <1>16. n # NoTask => task'[n] = task[n]
    BY Zenon, <1>2, <1>6, <1>7
  <1>17. Mode(c)'
    <2>1. CASE n = NoTask
      BY <1>0, <1>3, <1>5, <1>8, <2>1 DEF Mode, StackOf, UserGs, Switching
    <2>2. CASE n # NoTask
      <3>1. /\ pc'[c] \in {"call", "exit"} /\ frame'[c].how \in {"call", "new", "tick"}
            /\ pc'[c] = "exit" => frame'[c].how # "call"
        BY Zenon, <1>7, <1>8, <2>2 DEF ResumeAt
      <3> QED
        BY ZenonT(60), <1>0, <1>3, <1>5, <1>8, <2>2, <3>1 DEF Mode, StackOf, UserGs, Switching
    <2> QED
      BY Zenon, <2>1, <2>2
  <1>18. Status(c)'
    BY ZenonT(40), <1>5, <1>7, <1>8, <1>10, <1>16, Names DEF Status, ResumeAt
  <1>19. Back(c)'
    <2>1. ASSUME n # NoTask PROVE LeadsOut(c, n)'
      BY <1>3, <1>5, <1>7, <1>8, <2>1 DEF LeadsOut, ResumeAt, Switching
    <2> QED
      BY Zenon, <1>5, <1>8, <1>10, <2>1, Names DEF Back
  <1> QED
    BY Zenon, <1>9, <1>11, <1>12, <1>14, <1>15, <1>17, <1>18, <1>19, Across

\* finish_switched_out_task: the task in the handoff slot becomes Ready; no
\* CPU holds it.
LEMMA Drain ==
    ASSUME CpuInv, NEW c \in Cpus
    PROVE  /\ Drained(c) \in [Tasks -> TaskRecords]
           /\ \A t \in Tasks :
                /\ Drained(c)[t].status = IF t = handoff[c] THEN "Ready" ELSE task[t].status
                /\ Drained(c)[t].left = task[t].left /\ Drained(c)[t].frame = task[t].frame
                /\ Drained(c)[t].user_rsp = task[t].user_rsp
                /\ t # handoff[c] => Drained(c)[t] = task[t]
           /\ \A d \in Cpus, t \in Tasks : Holds(d, t) => t # handoff[c] /\ Drained(c)[t] = task[t]
           /\ \A t \in Tasks : Drained(c)[t].status = "Ready" =>
                /\ task[t].left /\ task[t].status # "Zombie"
                /\ \A d \in Cpus : ~Holds(d, t) /\ (d # c => handoff[d] # t)
  <1>1. \A t \in Tasks : task[t] \in TaskRecords
    BY ZenonT(30) DEF CpuInv, TypeOK
  <1> DEFINE drained(t) == IF t = handoff[c] THEN [task[t] EXCEPT !.status = "Ready"] ELSE task[t]
  <1>2. \A t \in Tasks : drained(t) \in TaskRecords
    BY Zenon, <1>1 DEF TaskRecords
  <1>3. /\ Drained(c) = [t \in Tasks |-> drained(t)]
        /\ \A t \in Tasks : Drained(c)[t] = drained(t)
    BY ZenonT(30) DEF Drained
  <1>4. Drained(c) \in [Tasks -> TaskRecords]
    BY ZenonT(30), <1>2, <1>3
  <1>5. ASSUME NEW t \in Tasks
        PROVE  /\ drained(t).status = IF t = handoff[c] THEN "Ready" ELSE task[t].status
               /\ drained(t).left = task[t].left /\ drained(t).frame = task[t].frame
               /\ drained(t).user_rsp = task[t].user_rsp
               /\ t # handoff[c] => drained(t) = task[t]
    BY Zenon, <1>1 DEF TaskRecords
  <1> HIDE DEF drained
  <1>6. OwnerInv
    BY Zenon DEF CpuInv
  <1>7. \A d \in Cpus, t \in Tasks : Holds(d, t) => t # handoff[c]
    BY Zenon, <1>6 DEF OwnerInv
  <1>8. ASSUME NEW t \in Tasks, Drained(c)[t].status = "Ready"
        PROVE  /\ task[t].left /\ task[t].status # "Zombie"
               /\ \A d \in Cpus : ~Holds(d, t) /\ (d # c => handoff[d] # t)
    <2>1. task[t].status = "Ready" \/ t = handoff[c]
      BY Zenon, <1>3, <1>5, <1>8
    <2>2. CASE t = handoff[c]
      BY Zenon, <1>6, <2>2 DEF OwnerInv
    <2>3. CASE task[t].status = "Ready"
      BY Zenon, <1>6, <2>3 DEF OwnerInv
    <2> QED
      BY Zenon, <2>1, <2>2, <2>3
  <1> QED
    BY ZenonT(60), <1>3, <1>4, <1>5, <1>7, <1>8

\* Nothing is Ready and the task goes on, or there is none.
LEMMA GoOnStep ==
    ASSUME CpuInv, NEW c \in Cpus, pc[c] = "sched", GoOn(c),
           handoff' = [handoff EXCEPT ![c] = NoTask],
           UNCHANGED <<if, sp, on, gs, cr3, rsp0, frame, service, own>>
    PROVE  CpuInv'
  <1> DEFINE n == Current(c)
  <1>0. Mode(c) /\ Status(c) /\ Back(c) /\ n \in Stacks /\ plan[c].from = NoTask
    BY DEF CpuInv, TypeOK, PercpuData, Current, Mode, Switching, NoPlan
  <1>1. /\ task' = Drained(c) /\ UNCHANGED <<percpu, kgs, plan>>
        /\ pc' = [pc EXCEPT ![c] = IF n = NoTask THEN "tail" ELSE ResumeAt(frame[c].how)]
        /\ n # NoTask => task[n].status \notin {"Waiting", "Zombie"} \/ ~percpu[c].idle
    BY Zenon DEF GoOn, Goto
  <1>2. ASSUME n # NoTask
        PROVE  /\ n \in Tasks /\ task[n].status = "Running"
               /\ \/ frame[c].how = "call" /\ percpu[c].user_stack = own[n]
                  \/ frame[c].how \in {"new", "tick"} /\ frame[c].rsp = own[n]
    <2>1. n \in Tasks /\ percpu[c].idle
      BY Zenon, <1>0, <1>2, Names DEF Mode, Switching
    <2>2. task[n].status \in {"Running", "Waiting", "Zombie"}
      BY Zenon, <1>0, <2>1 DEF Status
    <2>3. LeadsOut(c, n)
      BY ZenonT(30), <1>0, <2>1 DEF Back
    <2>4. task[n].status = "Running" /\ LeadsBack(n, frame[c], percpu[c].user_stack)
      BY Zenon, <1>1, <1>2, <2>1, <2>2, <2>3 DEF LeadsOut
    <2> QED
      BY Zenon, <2>1, <2>4 DEF LeadsBack
  <1>3. /\ pc'[c] = IF n = NoTask THEN "tail" ELSE ResumeAt(frame[c].how)
        /\ handoff'[c] = NoTask /\ \A e \in Cpus \ {c} : handoff'[e] = handoff[e]
    BY Zenon, <1>1 DEF CpuInv, TypeOK
  <1>4. \A e \in Cpus : Current(e)' = Current(e)
    BY Zenon, <1>1 DEF Current
  <1>5. \A e \in Cpus \ {c} : Kept(e)
    BY Zenon, <1>1 DEF Kept, CpuInv, TypeOK
  <1>6. TypeOK'
    <2>1. task' \in [Tasks -> TaskRecords]
      BY Zenon, <1>1, Drain
    <2>2. pc'[c] \in Places
      BY Zenon, <1>3 DEF Places, ResumeAt
    <2> QED
      BY Zenon, <1>1, <1>3, <2>1, <2>2, Names DEF CpuInv, TypeOK
  <1>7. \A d \in Cpus, t \in Tasks : Holds(d, t) => task'[t] = task[t]
    BY <1>1, Drain
  <1>8. \A d \in Cpus, t \in Tasks : Holds(d, t)' <=> Holds(d, t)
    BY Zenon, <1>1, <1>4 DEF Holds
  <1>9. OwnerInv'
    <2>0. OwnerInv
      BY Zenon DEF CpuInv
    <2>1. \A d \in Cpus, t \in Tasks : Holds(d, t)' =>
              ~task'[t].left /\ \A e \in Cpus : Holds(e, t)' => e = d
      BY <1>7, <1>8, <2>0 DEF OwnerInv
    <2>2. \A d \in Cpus : plan'[d].from # NoTask => plan'[d].from # Current(d)'
      BY Zenon, <1>1, <1>4, <2>0 DEF OwnerInv
    <2>3. \A t \in Tasks : task'[t].status = "Ready" => task'[t].left
      BY <1>1, Drain
    <2>4. \A d \in Cpus : plan'[d].out # NoTask => plan'[d].out = plan'[d].from
      BY Zenon, <1>1, <2>0 DEF OwnerInv
    <2>5. ASSUME NEW d \in Cpus, NEW t \in Tasks, handoff'[d] = t
          PROVE  /\ task'[t].left /\ task'[t].status = "SwitchingOut"
                 /\ \A e \in Cpus : handoff'[e] = t => e = d
      <3>1. d # c /\ handoff[d] = t
        BY Zenon, <1>3, <2>5, Names
      <3>2. /\ task[t].left /\ task[t].status = "SwitchingOut"
            /\ \A e \in Cpus : handoff[e] = t => e = d
        BY Zenon, <2>0, <3>1 DEF OwnerInv
      <3>3. task'[t] = task[t]
        BY <1>1, <3>1, <3>2, Drain
      <3> QED
        BY <1>3, <3>1, <3>2, <3>3, Names
    <2>6. \A d \in Cpus, t \in Tasks : handoff'[d] = t =>
              /\ task'[t].left /\ task'[t].status = "SwitchingOut"
              /\ \A e \in Cpus : handoff'[e] = t => e = d
      BY ZenonT(30), <2>5
    <2> QED
      BY ZenonT(30), <2>1, <2>2, <2>3, <2>4, <2>6 DEF OwnerInv
  <1>10. StoppedInv'
    <2> SUFFICES ASSUME NEW t \in Tasks, task'[t].left, task'[t].status # "Zombie"
                 PROVE  LeadsBack(t, task[t].frame, task[t].user_rsp)'
      BY Zenon DEF StoppedInv
    <2>1. task[t].left /\ task[t].status # "Zombie"
      BY <1>1, Drain
    <2>2. LeadsBack(t, task[t].frame, task[t].user_rsp)
      BY Zenon, <2>1 DEF CpuInv, StoppedInv
    <2>3. task'[t].frame = task[t].frame /\ task'[t].user_rsp = task[t].user_rsp
      BY <1>1, Drain
    <2> QED
      BY Zenon, <2>2, <2>3 DEF LeadsBack
  <1>11. n # NoTask => task'[n] = task[n]
    BY Zenon, <1>2, <1>7 DEF Holds
  <1>12. Mode(c)'
    <2>1. CASE n = NoTask
      BY <1>0, <1>1, <1>3, <1>4, <2>1 DEF Mode, StackOf, UserGs, Switching
    <2>2. CASE n # NoTask
      <3>1. pc'[c] \in {"call", "exit"} /\ frame[c].how # "wake"
            /\ (pc'[c] = "exit" => frame[c].how # "call")
        BY Zenon, <1>2, <1>3, <2>2 DEF ResumeAt
      <3> QED
        BY Zenon, <1>0, <1>1, <1>3, <1>4, <2>2, <3>1 DEF Mode, StackOf, UserGs, Switching
    <2> QED
      BY Zenon, <2>1, <2>2
  <1>13. Status(c)'
    BY <1>0, <1>1, <1>2, <1>3, <1>4, <1>11, Names DEF Status, ResumeAt
  <1>14. Back(c)'
    <2>1. ASSUME NEW t \in Tasks, t = n PROVE LeadsOut(c, t)'
      <3>1. /\ pc'[c] = ResumeAt(frame[c].how)
            /\ \/ frame[c].how = "call" /\ percpu[c].user_stack = own[t]
               \/ frame[c].how \in {"new", "tick"} /\ frame[c].rsp = own[t]
        BY Zenon, <1>2, <1>3, <2>1, Names
      <3> QED
        BY <1>1, <3>1 DEF LeadsOut, ResumeAt, Switching
    <2> QED
      BY Zenon, <1>0, <1>1, <1>4, <2>1, Names DEF Back
  <1> QED
    BY Zenon, <1>5, <1>6, <1>7, <1>9, <1>10, <1>12, <1>13, <1>14, Across

\* What SwitchTo and GoIdle share: CPU c leaves task t, which may be none, for
\* task n or, n being none, for the idle loop.
LeavesCpu(c, t, n) ==
    /\ pc[c] = "sched" /\ Current(c) = t /\ n # t /\ (n = NoTask => percpu[c].idle)
    /\ pc'[c] = "load" /\ percpu'[c].current = n
    /\ percpu'[c].idle = percpu[c].idle /\ ~percpu'[c].need_resched
    /\ plan'[c].from = t /\ plan'[c].out \in {t, NoTask}
    /\ UNCHANGED <<on, gs, cr3, rsp0, frame, service, own>>
LeavesOthers(c, n) ==
    /\ \A d \in Cpus : n # NoTask => ~Holds(d, n)
    /\ \A d \in Cpus \ {c} : n # NoTask => handoff[d] # n
    /\ \A d \in Cpus \ {c} : Kept(d)
    /\ handoff'[c] = NoTask
    /\ \A d \in Cpus \ {c} : handoff'[d] = handoff[d]
LeavesTasks(c, t, n) ==
    /\ \A u \in Tasks \ {n, t} : task'[u] = Drained(c)[u]
    /\ n # NoTask =>
           /\ task'[n].status = "Running" /\ ~task'[n].left
           /\ LeadsBack(n, task'[n].frame, plan'[c].rsp)
    /\ t # NoTask =>
           /\ ~task'[t].left /\ task'[t].user_rsp = percpu[c].user_stack
           /\ task[t].status = "Zombie" => task'[t].status = "Zombie"
           /\ task'[t].status \in IF plan'[c].out = t THEN {"SwitchingOut"}
                                  ELSE {"Waiting", "Zombie"}

\* Such a step keeps the invariant.
LEMMA LeaveStep ==
    ASSUME CpuInv, TypeOK', NEW c \in Cpus, NEW t \in Stacks, NEW n \in Stacks,
           LeavesCpu(c, t, n), LeavesOthers(c, n), LeavesTasks(c, t, n)
    PROVE  CpuInv'
  <1>0. Mode(c) /\ Status(c) /\ Back(c) /\ OwnerInv
    BY Zenon DEF CpuInv
  <1>1. Current(c)' = n /\ plan[c].from = NoTask /\ plan'[c].from = t
    <2>1. Current(c)' = n /\ plan'[c].from = t
      BY Zenon DEF Current, LeavesCpu
    <2>2. pc[c] \notin Switching
      BY Zenon DEF Switching, LeavesCpu
    <2>3. plan[c] = NoPlan
      BY ZenonT(30), <1>0, <2>2 DEF Mode
    <2> QED
      BY <2>1, <2>3 DEF NoPlan
  <1>2. \A d \in Cpus \ {c} :
            /\ Current(d)' = Current(d) /\ plan'[d] = plan[d] /\ handoff'[d] = handoff[d]
    BY ZenonT(30) DEF Current, Kept, LeavesOthers
  <1>3. \A u \in Tasks : Holds(c, u)' <=> u \in {n, t}
    BY ZenonT(30), <1>1 DEF Holds
  <1>4. \A d \in Cpus \ {c}, u \in Tasks : Holds(d, u)' <=> Holds(d, u)
    BY ZenonT(30), <1>2 DEF Holds
  <1>5. \A d \in Cpus \ {c}, u \in Tasks : Holds(d, u) =>
            u \notin {n, t} /\ task'[u] = task[u]
    <2> SUFFICES ASSUME NEW d \in Cpus \ {c}, NEW u \in Tasks, Holds(d, u)
                 PROVE  u \notin {n, t} /\ task'[u] = task[u]
      OBVIOUS
    <2>1. u # n
      BY ZenonT(30), Names DEF LeavesOthers
    <2>2. u # t
      <3>1. u = t => Holds(c, u)
        BY Zenon DEF Holds, LeavesCpu
      <3> QED
        BY Zenon, <1>0, <3>1 DEF OwnerInv
    <2>3. d \in Cpus
      OBVIOUS
    <2>4. Drained(c)[u] = task[u]
      BY <2>3, Drain
    <2> QED
      BY Zenon, <2>1, <2>2, <2>4 DEF LeavesTasks
  <1>6. \A u \in Tasks \ {n, t} :
            /\ task'[u].left = task[u].left /\ task'[u].frame = task[u].frame
            /\ task'[u].user_rsp = task[u].user_rsp
            /\ u # handoff[c] => task'[u] = task[u]
            /\ task'[u].status = "Ready" => task[u].left
    <2> SUFFICES ASSUME NEW u \in Tasks \ {n, t}
                 PROVE  /\ task'[u].left = task[u].left /\ task'[u].frame = task[u].frame
                        /\ task'[u].user_rsp = task[u].user_rsp
                        /\ u # handoff[c] => task'[u] = task[u]
                        /\ task'[u].status = "Ready" => task[u].left
      OBVIOUS
    <2>1. task'[u] = Drained(c)[u]
      BY ZenonT(30) DEF LeavesTasks
    <2> QED
      BY <2>1, Drain
  <1>7. n # NoTask => ~task'[n].left /\ task'[n].status = "Running"
    BY Zenon DEF LeavesTasks
  <1>8. t # NoTask =>
            /\ ~task'[t].left
            /\ task'[t].status \in IF plan'[c].out = t THEN {"SwitchingOut"}
                                   ELSE {"Waiting", "Zombie"}
    BY ZenonT(30) DEF LeavesTasks
  <1>9. \A u \in Tasks : u \in {n, t} =>
            ~task'[u].left /\ task'[u].status # "Ready"
    BY Zenon, <1>7, <1>8, Names
  <1>10. OwnerInv'
    <2>1. ASSUME NEW d \in Cpus, NEW u \in Tasks, Holds(d, u)'
          PROVE  ~task'[u].left /\ \A e \in Cpus : Holds(e, u)' => e = d
      <3>1. CASE d = c
        BY ZenonT(30), <1>3, <1>4, <1>5, <1>9, <2>1, <3>1
      <3>2. CASE d # c
        <4>1. Holds(d, u) /\ u \notin {n, t} /\ task'[u] = task[u]
          BY ZenonT(30), <1>4, <1>5, <2>1, <3>2
        <4>2. ~task[u].left /\ \A e \in Cpus : Holds(e, u) => e = d
          BY ZenonT(30), <1>0, <4>1 DEF OwnerInv
        <4> QED
          BY ZenonT(30), <1>3, <1>4, <4>1, <4>2
      <3> QED
        BY Zenon, <3>1, <3>2
    <2>2. \A d \in Cpus : plan'[d].from # NoTask => plan'[d].from # Current(d)'
      <3>1. n # t
        BY Zenon DEF LeavesCpu
      <3>2. \A d \in Cpus : plan[d].from # NoTask => plan[d].from # Current(d)
        BY Zenon, <1>0 DEF OwnerInv
      <3> QED
        BY ZenonT(30), <1>1, <1>2, <3>1, <3>2
    <2>3. \A u \in Tasks : task'[u].status = "Ready" => task'[u].left
      BY ZenonT(30), <1>6, <1>9
    <2>4. \A d \in Cpus : plan'[d].out # NoTask => plan'[d].out = plan'[d].from
      <3>1. \A d \in Cpus : plan[d].out # NoTask => plan[d].out = plan[d].from
        BY Zenon, <1>0 DEF OwnerInv
      <3>2. plan'[c].out \in {t, NoTask}
        BY Zenon DEF LeavesCpu
      <3> QED
        BY ZenonT(30), <1>1, <1>2, <3>1, <3>2
    <2>5. ASSUME NEW d \in Cpus, NEW u \in Tasks, handoff'[d] = u
          PROVE  /\ task'[u].left /\ task'[u].status = "SwitchingOut"
                 /\ \A e \in Cpus : handoff'[e] = u => e = d
      <3>1. d # c /\ handoff[d] = u /\ handoff'[c] # u
        BY ZenonT(30), <1>2, <2>5, Names DEF LeavesOthers
      <3>2. /\ task[u].left /\ task[u].status = "SwitchingOut"
            /\ \A e \in Cpus : handoff[e] = u => e = d
        BY ZenonT(30), <1>0, <3>1 DEF OwnerInv
      <3>3. u # n
        BY ZenonT(30), <3>1, Names DEF LeavesOthers
      <3>4. u # t
        <4>1. ~Holds(c, u)
          BY ZenonT(30), <1>0, <3>2 DEF OwnerInv
        <4> QED
          BY Zenon, <4>1 DEF Holds, LeavesCpu
      <3>5. u # handoff[c]
        BY ZenonT(30), <3>1, <3>2
      <3>6. task'[u] = task[u]
        BY ZenonT(30), <1>6, <3>3, <3>4, <3>5
      <3> QED
        BY ZenonT(30), <1>2, <3>1, <3>2, <3>6
    <2>6. \A d \in Cpus, u \in Tasks : handoff'[d] = u =>
              /\ task'[u].left /\ task'[u].status = "SwitchingOut"
              /\ \A e \in Cpus : handoff'[e] = u => e = d
      BY ZenonT(30), <2>5
    <2>7. \A d \in Cpus, u \in Tasks : Holds(d, u)' =>
              ~task'[u].left /\ \A e \in Cpus : Holds(e, u)' => e = d
      BY ZenonT(30), <2>1
    <2> QED
      BY ZenonT(30), <2>2, <2>3, <2>4, <2>6, <2>7 DEF OwnerInv
  <1>11. StoppedInv'
    <2> SUFFICES ASSUME NEW u \in Tasks, task'[u].left, task'[u].status # "Zombie"
                 PROVE  LeadsBack(u, task[u].frame, task[u].user_rsp)'
      BY ZenonT(30) DEF StoppedInv
    <2>1. u \notin {n, t}
      BY ZenonT(30), <1>9
    <2>2. task[u].left /\ task[u].status # "Zombie"
      <3>1. u = handoff[c] => task[u].status = "SwitchingOut"
        BY ZenonT(30), <1>0 DEF OwnerInv
      <3> QED
        BY <1>6, <2>1, <3>1
    <2>3. LeadsBack(u, task[u].frame, task[u].user_rsp)
      BY ZenonT(30), <2>2 DEF CpuInv, StoppedInv
    <2>4. /\ task'[u].frame = task[u].frame /\ task'[u].user_rsp = task[u].user_rsp
          /\ own' = own
      BY ZenonT(30), <1>6, <2>1 DEF LeavesCpu
    <2> QED
      BY Zenon, <2>3, <2>4 DEF LeadsBack
  <1>12. Mode(c)'
    <2>0. /\ pc[c] = "sched" /\ pc'[c] = "load" /\ Current(c) = t
          /\ on' = on /\ gs' = gs /\ service' = service
          /\ percpu'[c].idle = percpu[c].idle /\ ~percpu'[c].need_resched
      BY Zenon DEF LeavesCpu
    <2>1. on'[c] = StackOf(c)'
      BY ZenonT(30), <1>0, <1>1, <2>0 DEF Mode, StackOf, Switching
    <2>2. n # NoTask /\ t # NoTask => percpu'[c].idle
      BY Zenon, <1>0, <2>0 DEF Mode, Switching
    <2>3. gs'[c] = c /\ ~UserGs(c)' /\ service'[c] \subseteq {}
      BY Zenon, <1>0, <2>0 DEF Mode, UserGs
    <2> QED
      BY Zenon, <1>1, <2>0, <2>1, <2>2, <2>3 DEF Mode, Switching
  <1>13. Status(c)'
    <2>1. pc'[c] = "load"
      BY Zenon DEF LeavesCpu
    <2> QED
      BY Zenon, <1>1, <1>7, <1>8, <2>1, Names DEF Status
  <1>14. Back(c)'
    <2>0. pc[c] = "sched" /\ pc'[c] = "load" /\ own' = own /\ frame' = frame /\ Current(c) = t
      BY Zenon DEF LeavesCpu
    <2>1. ASSUME NEW u \in Tasks, u = n PROVE LeadsOut(c, u)'
      <3>1. LeadsBack(u, task'[u].frame, plan'[c].rsp)
        BY ZenonT(30), <2>1, Names DEF LeavesTasks
      <3>2. LeadsBack(u, task[u].frame, plan[c].rsp)'
        BY Zenon, <2>0, <3>1 DEF LeadsBack
      <3> QED
        BY Zenon, <2>0, <3>2 DEF LeadsOut
    <2>2. ASSUME NEW u \in Tasks, u = t, task'[u].status # "Zombie"
          PROVE  LeadsBack(u, frame[c], task[u].user_rsp)'
      <3>1. task[u].status # "Zombie" /\ task'[u].user_rsp = percpu[c].user_stack
        BY ZenonT(30), <2>2, Names DEF LeavesTasks
      <3>2. LeadsOut(c, u)
        BY ZenonT(30), <1>0, <2>0, <2>2 DEF Back
      <3>3. LeadsBack(u, frame[c], percpu[c].user_stack)
        BY Zenon, <2>0, <3>1, <3>2 DEF LeadsOut
      <3> QED
        BY Zenon, <2>0, <3>1, <3>3 DEF LeadsBack
    <2> QED
      BY ZenonT(30), <1>1, <2>1, <2>2 DEF Back
  <1>15. \A d \in Cpus \ {c}, u \in Tasks :
             Holds(d, u) => task'[u] = task[u] /\ own'[u] = own[u]
    BY Zenon, <1>5 DEF LeavesCpu
  <1>16. \A d \in Cpus \ {c} : Kept(d)
    BY Zenon DEF LeavesOthers
  <1> QED
    BY ZenonT(30), <1>10, <1>11, <1>12, <1>13, <1>14, <1>15, <1>16, Across

\* The task cannot go on and nothing is Ready.
LEMMA GoIdleStep ==
    ASSUME CpuInv, NEW c \in Cpus, pc[c] = "sched", GoIdle(c),
           handoff' = [handoff EXCEPT ![c] = NoTask],
           UNCHANGED <<if, sp, on, gs, cr3, rsp0, frame, service, own>>
    PROVE  CpuInv'
  <1> DEFINE t == Current(c)
  <1>0. t \in Tasks
    BY ZenonT(30) DEF CpuInv, TypeOK, PercpuData, Current, GoIdle, Stacks
  <1>1. /\ task[t].status \in {"Waiting", "Zombie"} /\ percpu[c].idle
        /\ task' = [Drained(c) EXCEPT ![t] = SavedForIdle(@, c)]
        /\ percpu' = [percpu EXCEPT ![c].current = NoTask, ![c].user_stack = NoRsp,
                                    ![c].need_resched = FALSE]
        /\ kgs' = [kgs EXCEPT ![c] = Null]
        /\ plan' = [plan EXCEPT ![c] = [NoPlan EXCEPT !.from = t]]
        /\ pc' = [pc EXCEPT ![c] = "load"]
    BY Zenon DEF GoIdle, Goto
  <1>2. ~task[t].left /\ Drained(c)[t] = task[t]
    <2>1. Holds(c, t)
      BY ZenonT(30) DEF Holds
    <2>2. Drained(c)[t] = task[t]
      BY ZenonT(120), <1>0, <2>1, Drain
    <2>3. ~task[t].left
      BY ZenonT(30), <1>0, <2>1 DEF CpuInv, OwnerInv
    <2> QED
      BY Zenon, <2>2, <2>3
  <1>3. /\ task[t] \in TaskRecords /\ percpu[c] \in PercpuData
        /\ plan \in [Cpus -> SwitchPlans] /\ percpu \in [Cpus -> PercpuData]
    BY ZenonT(30), <1>0 DEF CpuInv, TypeOK
  <1>4. /\ percpu'[c] = [percpu[c] EXCEPT !.current = NoTask, !.user_stack = NoRsp,
                                          !.need_resched = FALSE]
        /\ percpu' = [percpu EXCEPT ![c] = percpu'[c]]
    BY ZenonT(30), <1>1, <1>3
  <1>5. /\ percpu'[c] \in PercpuData /\ percpu'[c].current = NoTask
        /\ percpu'[c].idle = percpu[c].idle /\ ~percpu'[c].need_resched
    BY ZenonT(30), <1>3, <1>4, Names DEF PercpuData
  <1>6. SavedForIdle(task[t], c) \in TaskRecords
    BY Zenon, <1>3 DEF SavedForIdle, TaskRecords, PercpuData
  <1>7. /\ task' \in [Tasks -> TaskRecords] /\ task'[t] = SavedForIdle(task[t], c)
        /\ \A u \in Tasks \ {t} : task'[u] = Drained(c)[u]
    <2>1. Drained(c) \in [Tasks -> TaskRecords]
      BY ZenonT(30), Drain
    <2> HIDE DEF t
    <2> QED
      BY Zenon, <1>0, <1>1, <1>2, <1>6, <2>1
  <1>8. /\ ~task'[t].left /\ task'[t].user_rsp = percpu[c].user_stack
        /\ task'[t].status = task[t].status
    BY Zenon, <1>2, <1>3, <1>7 DEF SavedForIdle, TaskRecords
  <1>9. /\ plan'[c] \in SwitchPlans /\ plan'[c].from = t /\ plan'[c].out = NoTask
    BY Zenon, <1>0, <1>1, <1>3, Names DEF NoPlan, SwitchPlans, Stacks, Rsps
  <1>10. /\ pc'[c] = "load" /\ handoff'[c] = NoTask
         /\ \A d \in Cpus \ {c} : handoff'[d] = handoff[d]
    BY Zenon, <1>1 DEF CpuInv, TypeOK
  <1>11. \A d \in Cpus \ {c} : Kept(d)
    BY ZenonT(40), <1>1, <1>4 DEF Kept, CpuInv, TypeOK
  <1>12. TypeOK'
    <2>1. percpu' \in [Cpus -> PercpuData] /\ plan' \in [Cpus -> SwitchPlans]
      BY Zenon, <1>1, <1>3, <1>4, <1>5, <1>9
    <2>2. /\ pc' \in [Cpus -> Places] /\ kgs' \in [Cpus -> Cpus \cup {Null}]
          /\ handoff' \in [Cpus -> Stacks]
      BY Zenon, <1>1 DEF CpuInv, TypeOK, Places, Stacks
    <2> QED
      BY Zenon, <1>7, <2>1, <2>2 DEF CpuInv, TypeOK
  <1>13. t \in Stacks /\ NoTask \in Stacks /\ t # NoTask
    BY Zenon, <1>0, Names DEF Stacks
  <1> HIDE DEF t
  <1> DEFINE n == NoTask
  <1>14. /\ task'[t].status \in IF plan'[c].out = t THEN {"SwitchingOut"}
                                ELSE {"Waiting", "Zombie"}
         /\ plan'[c].out \in {t, NoTask} /\ n # t
         /\ percpu[c].idle
         /\ \A u \in Tasks \ {n, t} : task'[u] = Drained(c)[u]
    BY Zenon, <1>1, <1>7, <1>8, <1>9, <1>13
  <1>15. t = Current(c)
    BY Zenon DEF t
  <1>16. n = NoTask /\ percpu'[c].current = n /\ n \in Stacks
    BY Zenon, <1>5, <1>13
  <1> HIDE DEF n
  <1>17. /\ \A d \in Cpus : n # NoTask => ~Holds(d, n)
         /\ \A d \in Cpus \ {c} : n # NoTask => handoff[d] # n
         /\ n # NoTask =>
               /\ task'[n].status = "Running" /\ ~task'[n].left
               /\ LeadsBack(n, task'[n].frame, plan'[c].rsp)
    BY Zenon, <1>16
  <1> QED
    <2>1. LeavesCpu(c, t, n)
      BY ZenonT(30), <1>5, <1>9, <1>10, <1>14, <1>15, <1>16 DEF LeavesCpu
    <2>2. LeavesOthers(c, n)
      BY ZenonT(30), <1>10, <1>11, <1>17 DEF LeavesOthers
    <2>3. LeavesTasks(c, t, n)
      BY ZenonT(30), <1>8, <1>14, <1>17 DEF LeavesTasks
    <2> QED
      BY Zenon, <1>12, <1>13, <1>16, <2>1, <2>2, <2>3, LeaveStep

\* Task n, which is Ready, is chosen.
LEMMA SwitchToStep ==
    ASSUME CpuInv, NEW c \in Cpus, NEW n \in Tasks, pc[c] = "sched",
           Drained(c)[n].status = "Ready", SwitchTo(c, n),
           handoff' = [handoff EXCEPT ![c] = NoTask],
           UNCHANGED <<if, sp, on, gs, cr3, rsp0, frame, service, own>>
    PROVE  CpuInv'
  <1> DEFINE t == Current(c)
             chosen == [Drained(c)[n] EXCEPT !.status = "Running", !.left = FALSE]
             left == Saved(Outgoing(Drained(c)[t]), c)
             go == [from |-> t, out |-> IF t # NoTask /\ task[t].status = "Running" THEN t ELSE NoTask,
                    rsp |-> Drained(c)[n].user_rsp, gs |-> Drained(c)[n].gs_base]
  <1>0. /\ t \in Stacks /\ n \in Stacks /\ n # NoTask /\ (t # NoTask => t \in Tasks)
    BY ZenonT(30), Names DEF CpuInv, TypeOK, PercpuData, Current, Stacks
  <1>1. /\ task' = [u \in Tasks |-> IF u = n THEN chosen ELSE IF u # t THEN Drained(c)[u]
                                    ELSE left]
        /\ percpu' = [percpu EXCEPT ![c].current = n, ![c].need_resched = FALSE]
        /\ plan' = [plan EXCEPT ![c] = go]
        /\ pc' = [pc EXCEPT ![c] = "load"] /\ UNCHANGED kgs
    BY ZenonT(30) DEF SwitchTo, Goto
  <1>2. /\ task[n].left /\ task[n].status # "Zombie"
        /\ \A d \in Cpus : ~Holds(d, n) /\ (d # c => handoff[d] # n)
    BY Drain
  <1>3. n # t
    BY Zenon, <1>2 DEF Holds
  <1>4. /\ Drained(c)[n] \in TaskRecords
        /\ Drained(c)[n].frame = task[n].frame /\ Drained(c)[n].user_rsp = task[n].user_rsp
    BY Drain
  <1>5. /\ percpu[c] \in PercpuData /\ kgs[c] \in Cpus \cup {Null}
        /\ plan \in [Cpus -> SwitchPlans] /\ percpu \in [Cpus -> PercpuData]
    BY ZenonT(30), <1>0 DEF CpuInv, TypeOK
  <1>6. /\ chosen \in TaskRecords /\ chosen.status = "Running" /\ ~chosen.left
        /\ chosen.frame = task[n].frame
    BY ZenonT(30), <1>4 DEF TaskRecords
  <1>7. /\ go \in SwitchPlans /\ go.from = t /\ go.out \in {t, NoTask}
        /\ go.rsp = task[n].user_rsp
    BY Zenon, <1>0, <1>4, Names DEF SwitchPlans, TaskRecords, Stacks
  <1>8. ASSUME t # NoTask
        PROVE  /\ left \in TaskRecords /\ ~left.left /\ left.user_rsp = percpu[c].user_stack
               /\ task[t].status = "Zombie" => left.status = "Zombie"
               /\ left.status \in IF go.out = t THEN {"SwitchingOut"} ELSE {"Waiting", "Zombie"}
    <2>1. /\ t \in Tasks /\ Holds(c, t)
      BY Zenon, <1>0, <1>8 DEF Holds
    <2>2. /\ ~task[t].left /\ Drained(c)[t] = task[t] /\ task[t] \in TaskRecords
      <3>1. Drained(c)[t] = task[t]
        BY ZenonT(60), <2>1, Drain
      <3>2. ~task[t].left
        BY ZenonT(30), <2>1 DEF CpuInv, OwnerInv
      <3>3. task[t] \in TaskRecords
        BY ZenonT(30), <2>1 DEF CpuInv, TypeOK
      <3> QED
        BY Zenon, <3>1, <3>2, <3>3
    <2>3. task[t].status \in {"Running", "Waiting", "Zombie"}
      BY Zenon, <2>1 DEF CpuInv, Status
    <2>4. kgs[c] = Null
      <3>1. Mode(c)
        BY Zenon DEF CpuInv
      <3> QED
        BY Zenon, <1>8, <3>1 DEF Mode, UserGs
    <2>5. /\ Outgoing(task[t]) \in TaskRecords /\ ~Outgoing(task[t]).left
          /\ Outgoing(task[t]).status =
                IF task[t].status = "Running" THEN "SwitchingOut" ELSE task[t].status
      BY Zenon, <2>2 DEF Outgoing, TaskRecords
    <2>6. /\ left \in TaskRecords /\ ~left.left /\ left.user_rsp = percpu[c].user_stack
          /\ left.status = Outgoing(task[t]).status
      BY ZenonT(30), <1>5, <2>2, <2>4, <2>5 DEF Saved, TaskRecords, PercpuData
    <2>7. go.out = IF task[t].status = "Running" THEN t ELSE NoTask
      BY ZenonT(30), <1>8
    <2> HIDE DEF go, left, t
    <2> QED
      BY Zenon, <1>8, <2>3, <2>5, <2>6, <2>7
  <1>9. /\ percpu'[c] = [percpu[c] EXCEPT !.current = n, !.need_resched = FALSE]
        /\ percpu' = [percpu EXCEPT ![c] = percpu'[c]]
    BY ZenonT(30), <1>1, <1>5
  <1>10. /\ percpu'[c] \in PercpuData /\ percpu'[c].current = n
         /\ percpu'[c].idle = percpu[c].idle /\ ~percpu'[c].need_resched
    BY ZenonT(30), <1>0, <1>5, <1>9 DEF PercpuData
  <1>11. LeadsBack(n, task[n].frame, task[n].user_rsp)
    BY ZenonT(30), <1>2 DEF CpuInv, StoppedInv
  <1> HIDE DEF chosen, left, go, t
  <1>12. /\ task' \in [Tasks -> TaskRecords] /\ task'[n] = chosen
         /\ t # NoTask => task'[t] = left
         /\ \A u \in Tasks \ {n, t} : task'[u] = Drained(c)[u]
    <2>1. \A u \in Tasks : Drained(c)[u] \in TaskRecords
      <3>1. Drained(c) \in [Tasks -> TaskRecords]
        BY ZenonT(30), Drain
      <3> QED
        BY ZenonT(30), <3>1
    <2>2. \A u \in Tasks : u = t => t # NoTask
      BY ZenonT(30), Names
    <2> QED
      BY Zenon, <1>0, <1>1, <1>3, <1>6, <1>8, <2>1, <2>2
  <1>13. /\ pc'[c] = "load" /\ handoff'[c] = NoTask /\ plan'[c] = go
         /\ \A d \in Cpus \ {c} : handoff'[d] = handoff[d]
    BY Zenon, <1>1 DEF CpuInv, TypeOK
  <1>14. \A d \in Cpus \ {c} : Kept(d)
    BY ZenonT(40), <1>1, <1>9 DEF Kept, CpuInv, TypeOK
  <1>15. TypeOK'
    <2>1. percpu' \in [Cpus -> PercpuData] /\ plan' \in [Cpus -> SwitchPlans]
      BY Zenon, <1>1, <1>5, <1>7, <1>9, <1>10
    <2>2. pc' \in [Cpus -> Places] /\ handoff' \in [Cpus -> Stacks]
      BY Zenon, <1>1 DEF CpuInv, TypeOK, Places, Stacks
    <2> QED
      BY Zenon, <1>1, <1>12, <2>1, <2>2 DEF CpuInv, TypeOK
  <1>16. LeadsBack(n, task'[n].frame, plan'[c].rsp)
    BY Zenon, <1>6, <1>7, <1>11, <1>12, <1>13
  <1>17. /\ t = Current(c) /\ plan'[c].from = t /\ plan'[c].out \in {t, NoTask}
         /\ task'[n].status = "Running" /\ ~task'[n].left
    BY Zenon, <1>6, <1>7, <1>12, <1>13 DEF t
  <1>18. t # NoTask =>
           /\ ~task'[t].left /\ task'[t].user_rsp = percpu[c].user_stack
           /\ task[t].status = "Zombie" => task'[t].status = "Zombie"
           /\ task'[t].status \in IF plan'[c].out = t THEN {"SwitchingOut"}
                                  ELSE {"Waiting", "Zombie"}
    BY Zenon, <1>8, <1>12, <1>13
  <1> QED
    <2>1. LeavesCpu(c, t, n)
      BY ZenonT(30), <1>0, <1>3, <1>10, <1>13, <1>17 DEF LeavesCpu
    <2>2. LeavesOthers(c, n)
      BY ZenonT(30), <1>2, <1>13, <1>14 DEF LeavesOthers
    <2>3. LeavesTasks(c, t, n)
      BY ZenonT(30), <1>12, <1>16, <1>17, <1>18 DEF LeavesTasks
    <2> QED
      BY Zenon, <1>0, <1>15, <2>1, <2>2, <2>3, LeaveStep

\* switch_task up to the point where it drops the lock.
LEMMA SwitchTaskStep ==
    ASSUME CpuInv, NEW c \in Cpus, SwitchTask(c)
    PROVE  CpuInv'
  <1>1. /\ pc[c] = "sched" /\ handoff' = [handoff EXCEPT ![c] = NoTask]
        /\ UNCHANGED <<if, sp, on, gs, cr3, rsp0, frame, service, own>>
    BY Zenon DEF SwitchTask
  <1>2. \/ \E n \in Tasks : Drained(c)[n].status = "Ready" /\ SwitchTo(c, n)
        \/ GoIdle(c) \/ GoOn(c)
    BY ZenonT(30) DEF SwitchTask
  <1>3. ASSUME NEW n \in Tasks, Drained(c)[n].status = "Ready", SwitchTo(c, n)
        PROVE  CpuInv'
    BY ZenonT(30), <1>1, <1>3, SwitchToStep
  <1>4. GoIdle(c) => CpuInv'
    BY ZenonT(30), <1>1, GoIdleStep
  <1>5. GoOn(c) => CpuInv'
    BY ZenonT(30), <1>1, GoOnStep
  <1> QED
    BY ZenonT(30), <1>2, <1>3, <1>4, <1>5

----------------------------------------------------------------------------
(* The invariant and what follows from it.                                 *)

\* Every step keeps the invariant.
LEMMA CpuStep == CpuInv /\ [Next]_vars => CpuInv'
  <1> SUFFICES ASSUME CpuInv, [Next]_vars PROVE CpuInv'
    OBVIOUS
  <1>1. CASE UNCHANGED vars
    <2>1. TypeOK' /\ OwnerInv' /\ StoppedInv'
      <3>1. TypeOK'
        BY Zenon, <1>1 DEF CpuInv, TypeOK, vars
      <3>2. OwnerInv'
        BY ZenonT(40), <1>1 DEF CpuInv, OwnerInv, Holds, Current, vars
      <3>3. StoppedInv'
        BY Zenon, <1>1 DEF CpuInv, StoppedInv, LeadsBack, vars
      <3> QED
        BY Zenon, <3>1, <3>2, <3>3
    <2>2. ASSUME NEW c \in Cpus PROVE Mode(c)' /\ Status(c)' /\ Back(c)'
      <3>1. Kept(c) /\ UNCHANGED <<task, own>>
        BY ZenonT(30), <1>1 DEF Kept, vars
      <3> QED
        BY ZenonT(30), <3>1, Elsewhere DEF CpuInv
    <2> QED
      BY Zenon, <2>1, <2>2 DEF CpuInv
  <1>2. ASSUME NEW t \in Tasks, Wake(t) PROVE CpuInv'
    BY Zenon, <1>2, WakeStep
  <1>3. ASSUME NEW c \in Cpus,
               \/ Syscall(c) \/ Fault(c) \/ Acknowledge(c) \/ Reschedule(c)
               \/ CallReturns(c) \/ Exit(c) \/ Return(c)
        PROVE  CpuInv'
    BY Zenon, <1>3, SyscallStep, FaultStep, AcknowledgeStep, RescheduleStep, CallReturnsStep,
       ExitStep, ReturnStep
  <1>4. ASSUME NEW c \in Cpus,
               \/ SwitchTask(c) \/ Load(c) \/ ContextSwitch(c) \/ IdleTurn(c) \/ Halt(c)
        PROVE  CpuInv'
    BY Zenon, <1>4, SwitchTaskStep, LoadStep, ContextSwitchStep, IdleTurnStep, HaltStep
  <1>5. ASSUME NEW c \in Cpus, NEW expired \in BOOLEAN, KernelIrq(c, expired) PROVE CpuInv'
    BY Zenon, <1>5, KernelIrqStep
  <1>6. ASSUME NEW c \in Cpus, NEW d \in 0 .. MaxDepth, UserMoves(c, d) PROVE CpuInv'
    BY Zenon, <1>6, UserMovesStep
  <1>7. ASSUME NEW c \in Cpus, NEW v \in Vectors(c), NEW expired \in BOOLEAN,
               UserIrq(c, v, expired)
        PROVE  CpuInv'
    BY Zenon, <1>7, UserIrqStep
  <1>8. ASSUME NEW c \in Cpus, NEW s \in {"Running", "Waiting", "Zombie"}, CallSwitches(c, s)
        PROVE  CpuInv'
    BY Zenon, <1>8, CallSwitchesStep
  <1> QED
    BY ZenonT(60), <1>1, <1>2, <1>3, <1>4, <1>5, <1>6, <1>7, <1>8 DEF Next

\* With any number of CPUs, of tasks and of stack positions, a CPU in any
\* place of the entry code, the scheduler and the switch has the stack, the
\* GS bases, the page tables and the saved frame that the place calls for.
THEOREM CpusInductive == Spec => []CpuInv
  BY InitCpus, CpuStep, PTL DEF Spec

\* syscall_handler, the interrupt stubs and context_switch: a task always goes
\* on in user mode on its own stack pointer and its own page tables.
THEOREM UserResumes == Spec => []UserResumesOwn
  <1>1. CpuInv => UserResumesOwn
    BY Zenon, Implied
  <1> QED
    BY CpusInductive, <1>1, PTL

\* The next entry finds the kernel stack and the per-CPU data it needs, no
\* interrupt stays in service and no kernel stack is shared by two CPUs.
THEOREM KernelIsReady == Spec => []KernelReady
  <1>1. CpuInv => KernelReady
    BY Zenon, Implied
  <1> QED
    BY CpusInductive, <1>1, PTL

=============================================================================
