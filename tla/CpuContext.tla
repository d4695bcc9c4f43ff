----------------------------- MODULE CpuContext -----------------------------
(***************************************************************************)
(* How a CPU of the Rust kernel gets from a task to the kernel and back:   *)
(* the system call entry (syscall.rs), the interrupt and exception stubs   *)
(* and handlers (interrupts.rs, pic.rs) and what switch_task and           *)
(* context_switch (process/mod.rs) do to the registers these rely on: GS   *)
(* and KERNEL_GS_BASE, which SWAPGS exchanges, the interrupt flag, CR3,    *)
(* RSP0 of the TSS, and kernel_stack and user_stack of PercpuData.         *)
(*                                                                         *)
(* Which task runs next is Process's subject; here any Ready task may be.  *)
(* A task is woken once it has left its CPU.  A stack is named by the task *)
(* that owns it, NoTask standing for the CPU's own; a user stack pointer   *)
(* is the task with a depth.  No user program can set its GS base, which   *)
(* is Null in user mode.                                                   *)
(***************************************************************************)
EXTENDS Integers, FiniteSets

CONSTANTS
    NumCpus,    \* online CPUs, the boot processor being 0
    NumTasks,   \* user tasks
    MaxDepth    \* bound on the depth of a user stack

ASSUME SizesAssumption == {NumCpus, NumTasks, MaxDepth} \subseteq Nat \ {0}

Cpus == 0 .. (NumCpus - 1)
Tasks == 1 .. NumTasks
NoTask == 0
Null == -1      \* a GS base of 0
NoRsp == <<NoTask, 0>>

VARIABLES
    pc,         \* [Cpus -> where the CPU is]
    if,         \* [Cpus -> interrupt flag]
    sp,         \* [Cpus -> RSP while in user mode and on the way there]
    on,         \* [Cpus -> owner of the kernel stack in use]
    gs, kgs,    \* [Cpus -> GS base], [Cpus -> IA32_KERNEL_GS_BASE]
    cr3, rsp0,  \* [Cpus -> owner of the page tables], [Cpus -> RSP0's owner]
    percpu,     \* [Cpus -> PercpuData]
    frame,      \* [Cpus -> how the kernel stack in use leads back to user mode]
    service,    \* [Cpus -> vectors in service]
    plan,       \* [Cpus -> SwitchPlan]
    handoff,    \* CPU_SWITCHED_OUT
    task,       \* [Tasks -> Task]
    own         \* [Tasks -> RSP the task left user mode with]

vars == <<pc, if, sp, on, gs, kgs, cr3, rsp0, percpu, frame, service, plan,
          handoff, task, own>>

\* How a kernel stack is left: through the end of syscall_handler, the end
\* of an interrupt stub, or user_task_trampoline.
Frame(how, rsp) == [how |-> how, rsp |-> rsp]
NoFrame == Frame("none", NoRsp)
NoPlan == [from |-> NoTask, out |-> NoTask, rsp |-> NoRsp, gs |-> Null]

----------------------------------------------------------------------------
(* syscall::init, ap_rust_entry and add_new_user_task: every CPU is about  *)
(* to enter its scheduler loop, every task has the frame that the          *)
(* trampoline returns through.                                             *)
Init ==
    /\ pc = [c \in Cpus |-> "idle"]
    /\ if = [c \in Cpus |-> TRUE]
    /\ sp = [c \in Cpus |-> NoRsp]
    /\ on = [c \in Cpus |-> NoTask]
    /\ gs = [c \in Cpus |-> c]
    /\ kgs = [c \in Cpus |-> IF c = 0 THEN 0 ELSE Null]
    /\ cr3 = [c \in Cpus |-> NoTask]
    /\ rsp0 = [c \in Cpus |-> NoTask]
    /\ percpu = [c \in Cpus |-> [kernel_stack |-> NoTask, user_stack |-> NoRsp,
                                 current |-> NoTask, idle |-> FALSE,
                                 need_resched |-> FALSE]]
    /\ frame = [c \in Cpus |-> NoFrame]
    /\ service = [c \in Cpus |-> {}]
    /\ plan = [c \in Cpus |-> NoPlan]
    /\ handoff = [c \in Cpus |-> NoTask]
    /\ task = [t \in Tasks |-> [status |-> "Ready", frame |-> Frame("new", <<t, 0>>),
                                user_rsp |-> <<t, 0>>, gs_base |-> Null,
                                left |-> TRUE]]
    /\ own = [t \in Tasks |-> <<t, 0>>]

Goto(c, p) == pc' = [pc EXCEPT ![c] = p]
Current(c) == percpu[c].current
Swapgs(c) ==
    /\ gs' = [gs EXCEPT ![c] = kgs[c]]
    /\ kgs' = [kgs EXCEPT ![c] = gs[c]]
KeepGs(c) == UNCHANGED <<gs, kgs>>
Flag(c, b) == if' = [if EXCEPT ![c] = b]

----------------------------------------------------------------------------
(* Out of user mode.                                                       *)

\* The program pushes and pops.
UserMoves(c, d) ==
    /\ pc[c] = "user"
    /\ sp' = [sp EXCEPT ![c] = <<Current(c), d>>]
    /\ own' = [own EXCEPT ![Current(c)] = <<Current(c), d>>]
    /\ UNCHANGED <<pc, if, on, gs, kgs, cr3, rsp0, percpu, frame, service, plan,
                   handoff, task>>

\* SYSCALL with IF masked, SWAPGS, gs:[8] and gs:[0].
Syscall(c) ==
    /\ pc[c] = "user"
    /\ Swapgs(c) /\ Flag(c, FALSE)
    /\ percpu' = [d \in Cpus |-> IF d = gs'[c]
            THEN [percpu[d] EXCEPT !.user_stack = sp[c]] ELSE percpu[d]]
    /\ on' = [on EXCEPT ![c] = percpu[c].kernel_stack]
    /\ frame' = [frame EXCEPT ![c] = Frame("call", NoRsp)]
    /\ sp' = [sp EXCEPT ![c] = NoRsp]
    /\ Goto(c, "call")
    /\ UNCHANGED <<cr3, rsp0, service, plan, handoff, task, own>>

\* The CPU takes an interrupt or exception in user mode: the frame goes to
\* the stack of RSP0.
Trap(c, how) ==
    /\ pc[c] = "user" /\ Flag(c, FALSE)
    /\ on' = [on EXCEPT ![c] = rsp0[c]]
    /\ frame' = [frame EXCEPT ![c] = Frame(how, sp[c])]
    /\ sp' = [sp EXCEPT ![c] = NoRsp]
    /\ UNCHANGED <<cr3, rsp0, plan, handoff, own>>

\* The vectors each CPU gets, and the controller behind each: the PIC's two
\* unmasked lines and the network card (through the I/O APIC) on the BSP,
\* the LAPIC timer and the wake-up IPI on the others.
Vectors(c) == IF c = 0 THEN {"pit", "irq1", "nic"} ELSE {"timer", "wake"}
Controller(v) == IF v \in {"pit", "irq1"} THEN "pic" ELSE "lapic"

\* irq_common, lapic_timer_common and scheduler_wake_irq, which leaves GS
\* alone.  Only a timer that interrupts user mode charges the quantum.
Timer(v) == v \in {"pit", "timer"}
Charges(mode) == mode = "user"
EntersGs(v) == v # "wake"
UserIrq(c, v, expired) ==
    /\ if[c] /\ v \in Vectors(c) /\ (expired => Timer(v) /\ Charges("user"))
    /\ Trap(c, IF Timer(v) THEN "tick" ELSE IF v = "wake" THEN "wake" ELSE "irq")
    /\ IF EntersGs(v) THEN Swapgs(c) ELSE KeepGs(c)
    /\ service' = [service EXCEPT ![c] = {v}]
    /\ percpu' = [d \in Cpus |-> IF d = gs'[c] /\ expired
            THEN [percpu[d] EXCEPT !.need_resched = TRUE] ELSE percpu[d]]
    /\ Goto(c, "irq")
    /\ UNCHANGED task

\* The end of interrupt each handler sends: irq_handler to the LAPIC for the
\* network card's line and to the PIC for all others.
EoiPic(v) == IF v \in {"timer", "wake"} THEN "lapic" ELSE "pic"
Eoi(v) == IF v \in {"timer", "wake", "nic"} THEN "lapic" ELSE "pic"
Acknowledge(c) ==
    /\ pc[c] = "irq"
    /\ service' = [service EXCEPT ![c] = {v \in @ : Eoi(v) # Controller(v)}]
    /\ Goto(c, "acked")
    /\ UNCHANGED <<if, sp, on, gs, kgs, cr3, rsp0, percpu, frame, plan, handoff,
                   task, own>>

\* reschedule_if_needed, which the timer handlers call, and their return.
Reschedule(c) ==
    /\ pc[c] = "acked"
    /\ IF frame[c].how = "tick" /\ gs[c] \in Cpus /\ percpu[c].need_resched
       THEN /\ percpu' = [percpu EXCEPT ![c].need_resched = FALSE]
            /\ Goto(c, "sched")
       ELSE Goto(c, "exit") /\ UNCHANGED percpu
    /\ UNCHANGED <<if, sp, on, gs, kgs, cr3, rsp0, frame, service, plan, handoff,
                   task, own>>

\* An interrupt in the kernel: no SWAPGS, no quantum; hlt ends.  Were a
\* reschedule pending, it would switch in the middle of kernel code.
KernelIrq(c, expired) ==
    /\ if[c] /\ pc[c] \notin {"user", "irq", "acked"}
    /\ expired => Charges("kernel")
    /\ IF gs[c] \in Cpus /\ (expired \/ percpu[gs[c]].need_resched)
       THEN Goto(c, "preempted")
       ELSE pc[c] = "halt" /\ Goto(c, "idle")
    /\ UNCHANGED <<if, sp, on, gs, kgs, cr3, rsp0, percpu, frame, service, plan,
                   handoff, task, own>>

\* exception_handler: SWAPGS and terminate_task.
FaultGs(c) == Swapgs(c)
Fault(c) ==
    /\ Trap(c, "fault") /\ FaultGs(c)
    /\ task' = [task EXCEPT ![Current(c)].status = "Zombie"]
    /\ Goto(c, "sched")
    /\ UNCHANGED <<percpu, service>>

----------------------------------------------------------------------------
(* Back to user mode.                                                      *)

\* A call ends: mov rsp, gs:[8].
CallReturns(c) ==
    /\ pc[c] = "call"
    /\ sp' = [sp EXCEPT ![c] = percpu[c].user_stack]
    /\ on' = [on EXCEPT ![c] = NoTask]
    /\ Goto(c, "exit")
    /\ UNCHANGED <<if, gs, kgs, cr3, rsp0, percpu, frame, service, plan, handoff,
                   task, own>>

\* The SWAPGS of syscall_handler, of the stubs and of the trampoline.
LeavesGs(how) == how # "wake"
Exit(c) ==
    /\ pc[c] = "exit"
    /\ IF LeavesGs(frame[c].how) THEN Swapgs(c) ELSE KeepGs(c)
    /\ Goto(c, "return")
    /\ UNCHANGED <<if, sp, on, cr3, rsp0, percpu, frame, service, plan, handoff,
                   task, own>>

\* SYSRETQ or IRETQ.
Return(c) ==
    /\ pc[c] = "return"
    /\ sp' = [sp EXCEPT ![c] = IF frame[c].how = "call" THEN @ ELSE frame[c].rsp]
    /\ on' = [on EXCEPT ![c] = NoTask]
    /\ frame' = [frame EXCEPT ![c] = NoFrame]
    /\ Flag(c, TRUE) /\ Goto(c, "user")
    /\ UNCHANGED <<gs, kgs, cr3, rsp0, percpu, service, plan, handoff, task, own>>

----------------------------------------------------------------------------
(* switch_task and context_switch.                                         *)

\* A call yields, blocks or exits.
CallSwitches(c, status) ==
    /\ pc[c] = "call"
    /\ task' = [task EXCEPT ![Current(c)].status = status]
    /\ Goto(c, "sched")
    /\ UNCHANGED <<if, sp, on, gs, kgs, cr3, rsp0, percpu, frame, service, plan,
                   handoff, own>>

\* finish_switched_out_task.
Drained(c) ==
    [t \in Tasks |-> IF t = handoff[c] THEN [task[t] EXCEPT !.status = "Ready"]
                     ELSE task[t]]

\* Where a kernel stack goes on.
ResumeAt(how) == IF how = "call" THEN "call" ELSE "exit"

\* Nothing to claim: a task that cannot go on leaves for the idle loop.
SavedForIdle(r, c) == [r EXCEPT !.user_rsp = percpu[c].user_stack]
GoIdle(c) ==
    LET t == Current(c)
    IN  /\ t # NoTask /\ task[t].status \in {"Waiting", "Zombie"} /\ percpu[c].idle
        /\ task' = [Drained(c) EXCEPT ![t] = SavedForIdle(@, c)]
        /\ percpu' = [percpu EXCEPT ![c].current = NoTask, ![c].user_stack = NoRsp,
                                    ![c].need_resched = FALSE]
        /\ kgs' = [kgs EXCEPT ![c] = Null]
        /\ plan' = [plan EXCEPT ![c] = [NoPlan EXCEPT !.from = t]]
        /\ Goto(c, "load")

GoOn(c) ==
    LET t == Current(c)
    IN  /\ t # NoTask => task[t].status \notin {"Waiting", "Zombie"} \/ ~percpu[c].idle
        /\ task' = Drained(c)
        /\ Goto(c, IF t = NoTask THEN "tail" ELSE ResumeAt(frame[c].how))
        /\ UNCHANGED <<percpu, kgs, plan>>

\* The outgoing task keeps its user stack pointer and GS base.
SavedNothing(r, c) == r
Saved(r, c) == [r EXCEPT !.user_rsp = percpu[c].user_stack, !.gs_base = kgs[c]]
Outgoing(r) == IF r.status = "Running" THEN [r EXCEPT !.status = "SwitchingOut"] ELSE r
SwitchTo(c, n) ==
    LET t == Current(c)
        tasks == Drained(c)
        running == t # NoTask /\ task[t].status = "Running"
    IN  /\ task' = [u \in Tasks |->
             IF u = n THEN [tasks[u] EXCEPT !.status = "Running", !.left = FALSE]
             ELSE IF u # t THEN tasks[u]
             ELSE Saved(Outgoing(tasks[u]), c)]
        /\ percpu' = [percpu EXCEPT ![c].current = n, ![c].need_resched = FALSE]
        /\ plan' = [plan EXCEPT ![c] =
             [from |-> t, out |-> IF running THEN t ELSE NoTask,
              rsp |-> tasks[n].user_rsp, gs |-> tasks[n].gs_base]]
        /\ Goto(c, "load")
        /\ UNCHANGED kgs

\* Which of the Ready tasks a CPU may claim is for the run queues to say
\* (TaskScheduler): here any of them, or none, since a task that waits alone in
\* the queue of another CPU is not stolen.
SwitchTask(c) ==
    /\ pc[c] = "sched" /\ gs[c] \in Cpus
    /\ \/ \E n \in Tasks : Drained(c)[n].status = "Ready" /\ SwitchTo(c, n)
       \/ GoIdle(c) \/ GoOn(c)
    /\ handoff' = [handoff EXCEPT ![c] = NoTask]
    /\ UNCHANGED <<if, sp, on, gs, cr3, rsp0, frame, service, own>>

\* The registers of the incoming task; the idle loop needs only the kernel's
\* page tables.
LoadedIdle(c) == UNCHANGED <<percpu, rsp0, kgs>>
Loaded(c) ==
    /\ percpu' = [percpu EXCEPT ![c].kernel_stack = Current(c),
                                ![c].user_stack = plan[c].rsp]
    /\ rsp0' = [rsp0 EXCEPT ![c] = Current(c)]
    /\ kgs' = [kgs EXCEPT ![c] = plan[c].gs]
Load(c) ==
    /\ pc[c] = "load"
    /\ cr3' = [cr3 EXCEPT ![c] = Current(c)]
    /\ IF Current(c) = NoTask THEN LoadedIdle(c) ELSE Loaded(c)
    /\ Goto(c, "switch")
    /\ UNCHANGED <<if, sp, on, gs, frame, service, plan, handoff, task, own>>

\* The outgoing stack is saved, the incoming one goes on where it stopped;
\* the interrupt flag stays as it is.
ContextSwitch(c) ==
    LET n == Current(c)
        from == plan[c].from
    IN  /\ pc[c] = "switch"
        /\ task' = [t \in Tasks |-> IF t = from
                THEN [task[t] EXCEPT !.frame = frame[c], !.left = TRUE] ELSE task[t]]
        /\ percpu' = [percpu EXCEPT ![c].idle = @ \/ from = NoTask]
        /\ on' = [on EXCEPT ![c] = n]
        /\ frame' = [frame EXCEPT ![c] = IF n = NoTask THEN NoFrame ELSE task[n].frame]
        /\ handoff' = [handoff EXCEPT ![c] = plan[c].out]
        /\ plan' = [plan EXCEPT ![c] = NoPlan]
        /\ Goto(c, IF n = NoTask THEN "tail" ELSE ResumeAt(task[n].frame.how))
        /\ UNCHANGED <<if, sp, gs, kgs, cr3, rsp0, service, own>>

\* The scheduler loops: switch_task, then sti and hlt.
IdleTurn(c) ==
    /\ pc[c] = "idle" /\ Goto(c, "sched")
    /\ UNCHANGED <<if, sp, on, gs, kgs, cr3, rsp0, percpu, frame, service, plan,
                   handoff, task, own>>
Sti(c) == Flag(c, TRUE)
Halt(c) ==
    /\ pc[c] = "tail" /\ Sti(c) /\ Goto(c, "halt")
    /\ UNCHANGED <<sp, on, gs, kgs, cr3, rsp0, percpu, frame, service, plan,
                   handoff, task, own>>

\* An event or a deadline.
Wake(t) ==
    /\ task[t].status = "Waiting" /\ task[t].left
    /\ task' = [task EXCEPT ![t].status = "Ready"]
    /\ UNCHANGED <<pc, if, sp, on, gs, kgs, cr3, rsp0, percpu, frame, service,
                   plan, handoff, own>>

Next ==
    \/ \E t \in Tasks : Wake(t)
    \/ \E c \in Cpus :
        \/ Syscall(c) \/ Fault(c) \/ Acknowledge(c) \/ Reschedule(c)
        \/ \E expired \in BOOLEAN : KernelIrq(c, expired)
        \/ CallReturns(c) \/ Exit(c) \/ Return(c)
        \/ SwitchTask(c) \/ Load(c) \/ ContextSwitch(c) \/ IdleTurn(c) \/ Halt(c)
        \/ \E d \in 0 .. MaxDepth : UserMoves(c, d)
        \/ \E v \in Vectors(c), expired \in BOOLEAN : UserIrq(c, v, expired)
        \/ \E s \in {"Running", "Waiting", "Zombie"} : CallSwitches(c, s)

Spec == Init /\ [][Next]_vars

----------------------------------------------------------------------------
(* Properties.                                                             *)

Stacks == Tasks \cup {NoTask}
Rsps == Stacks \X (0 .. MaxDepth)
Frames == [how : {"none", "new", "call", "tick", "irq", "wake", "fault"}, rsp : Rsps]
Switching == {"load", "switch"}
Places == {"idle", "tail", "halt", "user", "call", "irq", "acked", "sched", "load",
           "switch", "exit", "return", "preempted"}
AllVectors == {"pit", "irq1", "nic", "timer", "wake"}
PercpuData == [kernel_stack : Stacks, user_stack : Rsps, current : Stacks,
               idle : BOOLEAN, need_resched : BOOLEAN]
SwitchPlans == [from : Stacks, out : Stacks, rsp : Rsps, gs : {Null}]
TaskRecords == [status : {"Ready", "Running", "SwitchingOut", "Waiting", "Zombie"},
                frame : Frames, user_rsp : Rsps, gs_base : {Null}, left : BOOLEAN]

\* The kind of every variable.
TypeOK ==
    /\ pc \in [Cpus -> Places] /\ if \in [Cpus -> BOOLEAN]
    /\ sp \in [Cpus -> Rsps] /\ own \in [Tasks -> Rsps]
    /\ on \in [Cpus -> Stacks] /\ cr3 \in [Cpus -> Stacks] /\ rsp0 \in [Cpus -> Stacks]
    /\ gs \in [Cpus -> Cpus \cup {Null}] /\ kgs \in [Cpus -> Cpus \cup {Null}]
    /\ percpu \in [Cpus -> PercpuData] /\ frame \in [Cpus -> Frames]
    /\ service \in [Cpus -> SUBSET AllVectors]
    /\ plan \in [Cpus -> SwitchPlans] /\ handoff \in [Cpus -> Stacks]
    /\ task \in [Tasks -> TaskRecords]

\* CPU c still uses the stack of task t: it runs t, or is leaving it.
Holds(c, t) == Current(c) = t \/ plan[c].from = t

\* A task has one CPU at a time, and none once it has left its stack; it is
\* Ready, and can be chosen, only then.  A preempted task is SwitchingOut from
\* the plan of the switch to the drained handoff, on one CPU.
OwnerInv ==
    /\ \A c \in Cpus, t \in Tasks : Holds(c, t) =>
           ~task[t].left /\ \A d \in Cpus : Holds(d, t) => d = c
    /\ \A c \in Cpus : plan[c].from # NoTask => plan[c].from # Current(c)
    /\ \A t \in Tasks : task[t].status = "Ready" => task[t].left
    /\ \A c \in Cpus : plan[c].out # NoTask => plan[c].out = plan[c].from
    /\ \A c \in Cpus, t \in Tasks : handoff[c] = t =>
           /\ task[t].left /\ task[t].status = "SwitchingOut"
           /\ \A d \in Cpus : handoff[d] = t => d = c

\* What the place of a CPU says of its task, of the stack it is on and of its
\* registers.  SWAPGS has or has not been executed, and the idle context has
\* been saved before any task runs.
UserGs(c) ==
    \/ pc[c] \in {"user", "return"}
    \/ pc[c] \in {"irq", "acked", "exit"} /\ frame[c].how = "wake"
StackOf(c) ==
    IF pc[c] \in Switching THEN plan[c].from
    ELSE IF pc[c] = "user" \/ (pc[c] \in {"exit", "return"} /\ frame[c].how = "call")
    THEN NoTask ELSE Current(c)
Mode(c) ==
    /\ pc[c] \in {"idle", "tail", "halt"} => Current(c) = NoTask
    /\ pc[c] \in {"user", "irq", "acked", "call", "exit", "return"} => Current(c) # NoTask
    /\ pc[c] \notin Switching => plan[c] = NoPlan
    /\ on[c] = StackOf(c)
    /\ Current(c) # NoTask /\ pc[c] # "load" =>
           rsp0[c] = Current(c) /\ percpu[c].kernel_stack = Current(c) /\ cr3[c] = Current(c)
    /\ Current(c) # NoTask /\ ~(pc[c] \in Switching /\ plan[c].from = NoTask) => percpu[c].idle
    /\ IF UserGs(c) THEN gs[c] = Null /\ kgs[c] = c
       ELSE gs[c] = c /\ (Current(c) # NoTask /\ pc[c] # "load" => kgs[c] = Null)
    /\ percpu[c].need_resched => pc[c] \in {"irq", "acked"} /\ frame[c].how = "tick"
    /\ service[c] \subseteq IF pc[c] = "irq" THEN Vectors(c) ELSE {}
    /\ pc[c] \in {"user", "halt"} => if[c]
    /\ pc[c] # "preempted"

\* The status of a task that has a CPU.
Status(c) ==
    \A t \in Tasks :
        /\ Current(c) = t => task[t].status \in
               IF pc[c] = "sched" THEN {"Running", "Waiting", "Zombie"} ELSE {"Running"}
        /\ plan[c].from = t => task[t].status \in
               IF plan[c].out = t THEN {"SwitchingOut"} ELSE {"Waiting", "Zombie"}

\* Frame f leads task t back to its user stack, rsp being gs:[8] by then.
LeadsBack(t, f, rsp) ==
    \/ f.how = "call" /\ rsp = own[t]
    \/ f.how \in {"new", "tick"} /\ f.rsp = own[t]

\* The kernel stack of every task that is alive leads back to where the task
\* left user mode: the one of a task that is stopped, in the middle of a
\* switch, in the scheduler, in a handler or on its way out.
LeadsOut(c, t) ==
    /\ pc[c] \in Switching => LeadsBack(t, task[t].frame, plan[c].rsp)
    /\ pc[c] = "switch" => percpu[c].user_stack = plan[c].rsp
    /\ pc[c] = "sched" /\ task[t].status # "Zombie" =>
           LeadsBack(t, frame[c], percpu[c].user_stack)
    /\ pc[c] = "call" => frame[c].how = "call" /\ percpu[c].user_stack = own[t]
    /\ pc[c] \in {"irq", "acked"} =>
           frame[c].how \in {"tick", "irq", "wake"} /\ frame[c].rsp = own[t]
    /\ pc[c] \in {"exit", "return"} =>
           \/ frame[c].how = "call" /\ sp[c] = own[t]
           \/ frame[c].how \in {"new", "tick", "irq", "wake"} /\ frame[c].rsp = own[t]
    /\ pc[c] = "user" => sp[c] = own[t]
Back(c) ==
    \A t \in Tasks :
        /\ plan[c].from = t /\ task[t].status # "Zombie" =>
               LeadsBack(t, frame[c], task[t].user_rsp)
        /\ Current(c) = t => LeadsOut(c, t)
StoppedInv ==
    \A t \in Tasks : task[t].left /\ task[t].status # "Zombie" =>
        LeadsBack(t, task[t].frame, task[t].user_rsp)

\* All of it.
CpuInv ==
    TypeOK /\ OwnerInv /\ StoppedInv /\ \A c \in Cpus : Mode(c) /\ Status(c) /\ Back(c)

\* A task that is back in user mode has the stack pointer it left with and
\* its own page tables, however often it was preempted or blocked, whoever
\* made system calls on the CPU meanwhile, and wherever it resumed
\* (user_stack and user_rsp, the interrupt frames, CR3).
UserResumesOwn ==
    \A c \in Cpus : pc[c] = "user" =>
        sp[c] = own[Current(c)] /\ cr3[c] = Current(c)

\* User mode is entered ready to be left: GS is the program's, SWAPGS will
\* bring this CPU's PercpuData, the stacks that SYSCALL and the CPU will use
\* are the task's own, and interrupts can arrive.
EntryReady ==
    \A c \in Cpus : pc[c] = "user" =>
        /\ gs[c] = Null /\ kgs[c] = c /\ if[c]
        /\ rsp0[c] = Current(c) /\ percpu[c].kernel_stack = Current(c)

\* Kernel code that uses PercpuData has GS pointing at its own CPU's
\* ("switch to this CPU's kernel per-CPU base before calling Rust scheduler
\* code", interrupts.rs).
KernelHasPercpu ==
    \A c \in Cpus :
        \/ pc[c] \in {"call", "sched", "load", "switch", "tail", "halt", "idle"}
        \/ pc[c] \in {"irq", "acked"} /\ frame[c].how # "wake"
        => gs[c] = c

\* No CPU leaves a handler, for user mode, the scheduler or another stack,
\* with an interrupt still in service: no later one is held back
\* ("Acknowledge before switching away", lapic_timer_handler).
NothingLeftInService ==
    \A c \in Cpus : pc[c] # "irq" => service[c] = {}

\* Kernel code is never preempted: a pending reschedule is gone before
\* an interrupt in kernel mode could act on it ("Kernel execution remains
\* non-preemptive", scheduler_tick).
KernelStays == \A c \in Cpus : pc[c] # "preempted"

\* A CPU halts with interrupts on, though the context it came from may have
\* had them off (the loop of main.rs).
HaltsOpen == \A c \in Cpus : pc[c] = "halt" => if[c]

\* No two CPUs execute on the same kernel stack.
StacksExclusive ==
    \A c, d \in Cpus : c # d /\ on[c] = on[d] => on[c] = NoTask

\* Every way into and out of the kernel leaves the CPU as the next one needs
\* it: all of the above except what the program itself sees.
KernelReady ==
    /\ CpuInv /\ EntryReady /\ KernelHasPercpu /\ NothingLeftInService /\ KernelStays
    /\ HaltsOpen /\ StacksExclusive
=============================================================================
