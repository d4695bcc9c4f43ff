# A formal model of KaguyaOS

KaguyaOS is a small multiprocessor kernel in Rust, with a second implementation
of its scheduler and of parts around it in the Jihoo language
(`src/src/jihoo`). This directory holds a TLA+ model of the parts in which
something can go wrong between two steps: schedulers, context switches, locks,
wakeups, memory, the file system, the network stack, the device rings and boot.
TLC checks the models on small instances. TLAPS proves the most important
properties for every number of CPUs, tasks, threads and slots.

Paths of the form `process/mod.rs:861` are relative to `src/src`.
`PROJECT.json` maps every definition that models code to the lines it stands for.

## The parts and how they interact

Every CPU runs tasks. A task enters the kernel through `syscall` or an
interrupt (`CpuContext`), calls into files, pipes, sockets or memory, and blocks
by giving up its CPU to the scheduler (`Process`, or `TaskScheduler` in the
Jihoo kernel). What blocks is woken by an *event*: a wait key with a generation.
The waiter reads the generation, looks at the data, and the scheduler refuses to
block it when the generation has changed since. Pipes, TCP, UDP, ARP, DNS and
the keyboard all use this protocol, so the same hazard (a wakeup between the
look and the wait) has a property in each of their modules. Those modules do not
contain the scheduler again. They use what the scheduler modules show of it: a
wakeup ends every wait on the key, and it outdates every generation read before.

| Part | Modules | Code |
|---|---|---|
| Scheduler of the Jihoo kernel | `TaskScheduler`, `TaskSchedulerInv`, `TaskSchedulerSteps`, `TaskSchedulerProofs` | `jihoo/task.jh`, `jihoo/standalone/task.S`, `task_arch.jh` |
| Scheduler of the Rust kernel | `Process`, `ProcessSteps`, `ProcessProofs` | `process/mod.rs`, `interrupts.rs`, `syscall.rs` |
| Kernel entry and exit | `CpuContext`, `CpuContextProofs` | `syscall.rs`, `interrupts.rs`, `pic.rs`, `process/mod.rs` |
| Spinlocks | `Spinlock`, `SpinlockProofs` | `sync/mod.rs` |
| Pipes | `Pipe`, `PipeChannel`, `PipeInv`, `PipeProofs` | `pipe.rs`, `jihoo/pipe.rs`, `jihoo/pipe.jh`, `jihoo/pipe_owner.jh` |
| File descriptors | `FileTable` | `file.rs` |
| File system | `FileSystem`, `FileStore`, `FileSystemStore` | `fs.rs`, `jihoo/fat.rs` |
| TCP, UDP, ARP, DNS | `Tcp`, `Udp`, `Arp` and `ArpProofs`, `Dns` | `drivers/net/*.rs`, `syscall.rs` |
| Network card | `NetReceive`, `E1000Transmit` | `drivers/net/mod.rs`, `drivers/net/e1000.rs` |
| Disk, USB, keyboard | `Nvme`, `Usb`, `Keyboard` | `drivers/nvme.rs`, `drivers/xhci.rs`, `drivers/keyboard.rs` |
| Kernel heap, frames and page tables | `Heap`, `AddressSpace` | `memory/*.rs`, `loader.rs` |
| Boot | `ApStartup`, `Acpi` | `processor.rs`, `acpi.rs`, `main.rs` |

### State and actions

An action is everything the code does between two points at which somebody else
can see a difference: one critical section, one atomic instruction, one register
that the hardware reads, one disk transfer.

* **TaskScheduler, Process.** A critical section of the scheduler lock is one
  step (in `TaskScheduler`, entering and leaving the lock and the scans under it
  are steps of their own). The work after the lock is released is one step each:
  load CR3, store the outgoing stack pointer and enter the other stack, publish
  the handoff, publish the retired stack. `pc[c]` is where CPU `c` is in that
  sequence. `saved` says whether a task's stored stack pointer is where the task
  really stopped; `seen`/`observed` and `join`/`joining` are what a blocked
  caller has read. In `Process` a CPU that loads a stack pointer that was not
  saved goes to `pc = "lost"`, and nothing is said of the machine after that.
* **CpuContext.** The interrupt flag, `GS` and `KERNEL_GS_BASE` (which `swapgs`
  exchanges), CR3, RSP0, the two stack fields of `PercpuData`, and the frame on
  the kernel stack, with an interrupt possible wherever the flag allows it.
  The flag can be on in the kernel, because a call that is resumed from an idle
  loop goes on with interrupts on; so an interrupt between `mov rsp, gs:[8]` and
  `sysretq`, and one with a null GS base, are in the model. They do no harm: in
  kernel mode no handler exchanges GS, charges the quantum or switches tasks.
* **Spinlock.** One step per instruction group of `lock`, `try_lock` and the drop
  of a guard, a thread and an interrupt handler on each CPU.
* **Pipe, FileTable.** A thread clones an end or an object out of its table slot
  under the table lock, drops the lock, works, and drops the clone; each is a
  step. `spawn` owns the table it has inherited until the child takes it over or
  the load fails. `PipeChannel` is the abstract channel.
* **FileSystem.** One step per transfer that writes, with the reads before it;
  a transfer may fail and the machine may restart after any of them.
  `FileStore` is a map from names to contents.
* **Tcp, Udp, Arp, Dns.** Threads, CPUs that process packets, and a network that
  loses, repeats, delays and reorders. Time is a choice: an armed deadline may
  expire whenever the code would look at it.
* **NetReceive, E1000Transmit, Nvme, Usb.** The driver's and the device's view
  of a ring, with the device moving between any two accesses of the driver, and
  `shutdown`, which stops disk and USB under whoever uses them.
* **Keyboard.** The sets of keys held one after the other, the reports told of
  them, and what became of every key pushed: kept, or dropped for want of room.
* **Heap, AddressSpace.** Memory as words: headers, free-list links and page
  table entries lie in the memory they describe.
* **ApStartup, Acpi.** The boot processor and the other CPUs through one
  trampoline page; firmware tables as data, and every access recorded against
  what is mapped at that moment.

## The runs

Components that share no state are checked together: an MC module instantiates
each, and its variable `part`, chosen in `MCInit` and never changed, says which
one moves. A safety property of one of them fails in a behaviour of all exactly
when it fails where only that one moves, so nothing is lost. Properties with
several conjuncts (`DescriptorsExact`, `SocketsExact`, `RingsExact`, ...) collect
the invariants of their parts, type invariants included; each is stated and
explained in the module of its part.

| Run | Configuration | What it shows |
|---|---|---|
| `scheduler` | `MCTaskScheduler.cfg` | Jihoo scheduler, 2 CPUs, 3 tasks. The inductive invariant `SchedulerInv`; no context is loaded before it is saved, no stack or page table in use is freed, no wakeup is lost, every task is accounted for exactly once, calls return right, exit is final. |
| `scheduler_live` | `MCTaskSchedulerLive.cfg` | Runnable tasks run, sleeps end, exited tasks are reclaimed, `wait_task` returns, as long as RETIRED has room. |
| `process` | `MCProcess.cfg` | Rust scheduler: as above up to the first stale load; on two CPUs where no task blocks, and on one CPU without timed waits for an event, there is none. Every `Ready` task is queued once and every preempted one is carried by a CPU. Also `ProcessInv` and `PreemptInv`. |
| `process_stale` | `MCProcessStale.cfg` | Expected violation, see *Findings*. |
| `descriptors` | `MCDescriptors.cfg` | Pipes implement `PipeChannel`; ends are counted exactly; descriptors and the objects behind them are dropped once, by the last user. |
| `filesystem` | `MCFileSystem.cfg` | Chains stay whole and separate, a handle reaches its own file only, every operation is one of `FileStore` (with failures and restarts), and is exact when nothing fails. |
| `tcp`, `tcp_live` | `MCTcp.cfg`, `MCTcpLive.cfg` | Both byte streams arrive exactly, the window is respected, nothing gets stuck; calls return. |
| `network` | `MCNetwork.cfg` | ARP, UDP and DNS: no reply, datagram or answer is slept through; cache and port table are exact. Also `ArpInv`. |
| `machine` | `MCMachine.cfg` | Kernel entry and exit, AP startup, ACPI, and the rings of network card, disk and USB, and the key buffer. |
| `kernel` | `MCKernel.cfg` | Spinlocks exclude, mask and give back the interrupt flag, and never wait for their own CPU (`LocksSafe`); no two heap blocks overlap; every frame has one owner. |
| `live` | `MCLive.cfg` | ARP, DNS and disk calls return; received frames and piped data arrive. |

### Bounds, and why they are enough

* *Schedulers.* Two CPUs are the least with which a task can be seen by another
  CPU in the middle of a switch; three tasks allow one leaving, one entering and
  one that wakes or joins. `RetiredSlots` is 1 in `scheduler`, where the table of
  retired stacks does fill, and the number of stacks in `scheduler_live`. A generation changes once (`MaxGen`) and the clock
  ticks once or twice (`MaxTick`): a waiter compares for equality and passes one
  deadline. In `scheduler` all three stacks are in use only before the first
  tick and the first event (`FewStacksLater`), which keeps the run short; stacks
  are symmetric. `process` has five parts: two CPUs and three tasks with events;
  the same with joins; two tasks and all blocking calls with the clock; four
  tasks that only preempt; one CPU, with three tasks and every blocking call but
  the timed wait. A quantum is one tick. What these bounds cut off is what the
  proofs add.
* *Pipes and descriptors.* A ring of two bytes wraps and fills; two threads and
  three slots in two tables allow every overlap of clone, close and inherit.
  Three users in two processes share three objects through tables of two slots,
  so that a pipe can find room for one end only. A call writes ascending bytes
  (`Ascending`), which is enough to see a byte out of place.
* *File system.* Two clusters of two bytes, two names and two directory slots:
  files that span clusters, a full volume, a write past the end with a gap, a
  slot used again under an open handle. Transfers fail in open, write and read;
  in a second part nothing fails. Generations start at 1, or at 0 after a
  restart. With failures they reach 1, so a slot is used again after a restart
  only; in the reliable part they reach 3 (`MaxGen`), so each slot is given up
  twice, by delete, create over a file or format.
* *TCP.* Sequence numbers wrap at 24, which is larger than twice what can be
  outstanding, and start at 22 and 23 so that they do wrap. The window may close
  and open, the send buffer holds less than is written, one retry is allowed.
* *Network.* Two hosts and a cache of two entries, two sockets and three ports,
  the DNS client's among them; in `live` the cache has one entry and overflows.
* *Machine.* Two CPUs exchange two tasks, one of which moves its user stack
  pointer (`OneMoves`). Rings of three to five elements go round at least once:
  receive bursts of one frame, seven disk transfers of which the first three are
  fixed (`LastIsAny`), two ports, or one with more reports. Keys change four
  times, three of them can be held and two be told of; they go down in turn
  (`KeysInTurn`). Three APs start, each as slowly as it likes and one never.
  Every MADT of up to three entries, whole or cut short, and tables and entries
  that are shorter than what is read of them.
* *Kernel.* 24 words of heap with two size classes; 17 usable pages of memory
  with tables of 8 entries in three levels, so that a load and a growth run out
  of frames at every point; a growth of two pages can need a new table for the
  second.

### Fairness

* `scheduler_live`: a CPU finishes a critical section and a switch; the timer
  interrupt stays pending across a system call, so `schedule()` is called again
  and again (strong fairness); the compare-and-swap of the lock is arbitrated by
  the hardware and the lock is free after every critical section (strong
  fairness of taking it); the clock ticks.
* `tcp_live`: every poll runs the timer before it looks at a segment; a thread in
  a call goes on. Nothing is assumed of peer and network. The windows of this
  run are never closed: a peer that keeps its window closed may keep a writer
  forever, as TCP allows.
* `live`: threads that can run do, deadlines pass, a latched interrupt is
  delivered, and the disk controller works on its queues until it is shut down.
  The last is needed because `submit_io` waits without a timeout. Of the receive
  path, a burst once begun goes on, and while the flag is set some CPU comes to
  take it; no particular CPU has to. Every scheduler loop and every `switch_task`
  call polls (`main.rs:545`, `syscall.rs:386`). This leaves out a machine on
  which every CPU runs a task that neither yields nor blocks: preemption calls
  the scheduler and does not poll. The network owes nothing.

## What is proved

All theorems hold for every value of the constants that satisfies the named
assumptions of the module (`NumCpusAssumption`, `CapacityAssumption`, ...): sizes
are natural numbers, positive where the code needs one, and the special values
are different from the ordinary ones. TLC evaluates these assumptions on every
run. Each proof has the same shape: an inductive invariant, one lemma for each
action (and under it one step for each conjunct the action disturbs), and the
properties as consequences.

**TaskScheduler** (`TaskSchedulerSteps`, `TaskSchedulerProofs`). `SchedulerInv` of
`TaskSchedulerInv` is inductive. Its
first half, `ContextInv`, is needed because the properties speak of a task whose
lock has already been dropped: it ties the place of each CPU in the switch to who
owns which stack (`OwnerInv`, `PlaceInv`, `StackInv`), to which stack pointers
are saved (`SavedInv`) and to what a handoff may name (`HandoffInv`). Its second
half, `AccountInv`, says where every task is: `Ready` tasks are in one queue
once, a `SwitchingOut` one is carried by one CPU, a pinned one is at home, and
deadlines, generations and joins belong to tasks that really wait. From these
follow `TypeOK`, `ResumesSavedContext`, `ExclusiveStacks`,
`StackInUseNotFreed`, `LoadedRootAlive`, `NoLostWakeup`, `TasksAccounted`,
`ReturnsRight` and the action property `ZombieIsFinal`.

**Process** (`ProcessSteps`, `ProcessProofs`). `ProcessInv` is inductive. A task that a CPU uses,
as its current one or as the one whose stack it is still to leave, is used by no
other CPU and its stack pointer is not saved (`ExclusiveInv`). This part holds as
long as no CPU is lost; the rest (types, roots, retirement, pins, waits) holds
always. Consequences: `StackInUseNotFreed`, `LoadedRootAlive`, `NoLostWakeup`,
`OnlyRunningReturns`, `WaitTaskSeesExit` and `PinnedStaysHome`. Because the model
stops when a CPU is lost, they say what is true up to that point, which
`process_stale` shows can be reached. `PreemptionSafe` says when it cannot: if no
task makes a blocking call (`Blocking = {}`), then no stale stack pointer is ever
loaded and no preempted task is forgotten, on any number of CPUs. Its
invariant, `PreemptInv`, says that a task is `SwitchingOut` exactly while one CPU
carries it, in its plan or its handoff slot, and is `Ready` only once it is
saved. So preemption, stealing, exit and reaping are safe by themselves, and the
stale context needs a wakeup.

**CpuContext** (`CpuContextProofs`). `CpuInv` gives, for each place of the entry
code, the scheduler and the switch, the GS bases, the stack, CR3, RSP0 and the
frame that the place calls for, and for each stopped task the way back
(`LeadsBack`). It implies `UserResumesOwn` and `KernelReady`.

**Pipe** (`PipeProofs`). `PipeInvariant` adds to the types that ends, clones in
flight and reference counts agree (`EndsInv`, `EndsCounted`) and what a call has
done at each of its places (`CallInv`). It gives `NoLostWakeup`, `EndsCounted`
and `InUseNotFreed`; with lemmas on the ring's index arithmetic it gives the
refinement `RingIsChannel`: the ring, for every capacity and transfer length,
implements the bounded channel of `PipeChannel` (`ChannelSpec`, without
liveness).

**Spinlock** (`SpinlockProofs`). `Inductive` relates the lock words, the guards
and the saved flags of every context. It gives `MutualExclusion`, that a held
guard keeps interrupts masked, that the flag is restored, and that no context
spins on a lock of its own CPU; `LocksSafe` is the four together.

**Arp** (`ArpProofs`). `ArpInv` says why no reply is slept through: a reply that
has come is in the cache or was dropped by a full one, and a thread that did not
find it has a changed generation or a CPU that is still to change it. It gives
`CacheIsLatest`, and `NoLostReply` when the cache has a slot for every host.

### What is only model-checked

* Liveness (`TasksGoOn`, both `CallsReturn`, `DataArrives`) and the `ENABLED`
  conjuncts of `BootExact`: outside what the prover handles. Liveness of
  `Process`, of a spinning `lock`, of USB enumeration, of keyboard readers, of a
  timed UDP receive and of boot is not stated in a run.
* `ReadyIffQueuedOnce` of `Process`: it counts queue entries with a fold over the
  CPUs, and a fold is induction over data. (In `TaskScheduler` the same fact is
  stated with positions and proved.)
* `ChainsWhole`, `HandlesNameTheirFile`, `ImplementsStore`, `ExactWhenReliable`:
  a chain is what a walk over the allocation table returns, so a proof needs
  induction over its length.
* `HeapExact`, `FramesOwned`: free lists and page-table trees are walked in the
  same way.
* `StreamsExact`, `GoesOn`, `WindowRespected`: no proof was written. It would
  rest on modular sequence arithmetic for every size of the sequence space and on
  what a send buffer holds between two sequence numbers.
* `DescriptorsExact`, `SocketsExact` (UDP and DNS), `BootExact`, `RingsExact`,
  `KeysExact`: no proof was written. Each collects the invariants of several
  small components and would need an inductive invariant for each of them.

## Findings

`process_stale` is a disagreement between the code and its comment. A *preempted*
task is kept out of the run queues until its stack pointer is saved. A task that
*blocks* is not: it is `Waiting` or `Sleeping` when `switch_task` publishes the
next task and drops the lock. `wake_waiters` on another CPU (`process/mod.rs:861`)
no longer finds it current, makes it `Ready` and queues it. Another CPU can then
claim it and load `stack_top` before `context_switch` has stored the outgoing
stack pointer there. The comment at `process/mod.rs:523` says of the handoff that
it "closes the SMP window where another CPU could otherwise claim a stale
context". `TaskScheduler`, whose `on_cpu` flag covers blocked tasks too, does not
have the window.

The following were met while modelling. They are not runs of this project. TLC
finds each of them in the models when their constants allow the case, except the
short write at `fs.rs:895`, which is from reading the code.

* `jihoo/standalone/task.S:33`: with all 64 slots of RETIRED taken the switch
  does not record the retired stack, so the task is never reclaimed and its
  waiters stay blocked (`RetiredSlots` below the number of exits between two
  sweeps). `docs/jihoo-full-port.md:348` says waiters wake after reclamation. The
  Rust scheduler drops a retirement in the same way (`process/mod.rs:1043`), but
  wakes waiters at exit.
* `process/mod.rs:727`: a call resumed with interrupts on can be made `Ready` by
  the timer on its own CPU between `wait_current_until` and `switch_task`, and is
  then switched to itself. With three tasks the stale pointer can be loaded on one
  CPU (`Process` with `NumCpus = 1` and `"deadline"` in `Blocking`), which is why
  the one-CPU part of `process` leaves timed waits out.
* `fs.rs:895`: a write is short after any device error, not "only when the disk
  fills up" (`docs/syscall.md:46`).
* `fs.rs:681`: delete and create free the old chain before they clear the entry;
  a transfer that fails in between leaves an entry whose clusters go to other
  files, against `fs.rs:701`. This is why `FaultCalls` of the run has open, write
  and read only.
* `drivers/net/arp.rs:66`: a frame shorter than a header ends a burst like an
  empty ring does, and the rest is not announced (`"runt"` frames), against
  `drivers/net/mod.rs:293`.
* `drivers/net/mod.rs:179`: after 65535 echo requests the sequence number 0 is
  used, which `mod.rs:177` says means failure.
* `drivers/net/e1000.rs:287`: transmit fills the last descriptor too; then tail
  equals head, which the card reads as an empty ring (`driver.rs:19`).
* `drivers/net/mod.rs:50`: a full ARP cache drops a new entry, and `arp_resolve`
  returns None without the timeout `mod.rs:72` mentions.
* `syscall.rs:962`: two concurrent callers of `dns_resolve` can get each other's
  answers, against `syscall.rs:953`. A wakeup left from an earlier answer can make
  even a single caller return 0 before its timeout.
* `drivers/xhci.rs:1012`: after a roll-over report, keys held all along are pushed
  again as new presses (`xhci.rs:1003`). `PressesDealt` says which keys are pushed,
  these among them.
* `drivers/xhci.rs:1017`: a report shorter than the eight bytes asked for (code 13)
  is not followed by a new request, so that keyboard is silent from then on.
* `drivers/net/e1000.rs:193`: the diagnostic read of ICR after the interrupt is
  enabled takes away the cause of a frame stored in between; the frame waits for
  the next one (`main.rs:434`).
* `processor.rs:458`: an AP that the boot processor gives up on before it has read
  the trampoline page reads the stack of the next one from it, against "Assign a
  unique stack for this AP" (`processor.rs:660`). `OwnStack` excepts such an AP
  (`Overtaken`) and no other.
* `process/mod.rs:180`: the number of APs that came up is used as the range of
  their indices (`Dead` in `ApStartup`, with a dead AP before a live one), against
  `process/mod.rs:183`.
* `acpi.rs:822`: table signatures are read before the tables are mapped, against
  `main.rs:180` and `acpi.rs:996`.
* `acpi.rs:619`: `x_dsdt` is read whatever the length of the FADT, against
  `acpi.rs:613`. In the same way the headers of MADT and HPET and the structure of
  a MADT entry are read whole although the table or the entry says it is shorter
  (`acpi.rs:574`); the fields are then what lies behind it. `WithinTable`,
  `MappedFirst` and `MadtExact` hold for everything else.

Comments at `process/mod.rs:173` and `:1167` say the APs start before
`process::init()`. `main.rs` calls it first (355, then 374); nothing depends on it.

## Assumptions and abstractions

* Memory is sequentially consistent in every model. The code orders most of its
  atomics with acquire and release; counters such as `SCHEDULER_TICKS` are
  `Relaxed`, and what weaker ordering could add is not examined.
* Spinlocks: nested locks are taken in one order and guards dropped in the
  opposite one. `force_unlock` has no caller.
* User programs never set their GS base, and may otherwise make any call.
* NVMe: the status of queue creation is ignored by the code and by the model. The
  wait for a completion has no timeout, so `IoReturns` assumes an answer.
* USB: a stall at a data stage ends in a timeout, after which the driver gives the
  controller up; `POLL_LIMIT` is a choice.
* Keyboard: a reader that is killed leaves `WAITERS` one too high, which only
  makes the tick poll more often.
* TCP: time is left out, so the doubling of the timeout is too; port allocation
  and resets for unknown connections are not modelled.
* Scheduler, heap and device counters are bounded by constants in the guards,
  each marked as a bound where it is declared.

## What is not modelled

UEFI start and `main.rs` before the second CPU runs, PCI enumeration, console,
framebuffer and GPU, the GDT and IDT contents, the KEF header, the hardware shell
and tests, wire formats and checksums, and user programs. Each is straight-line,
stateless or about how the screen looks. Of the modelled parts, functions without
a caller are left out (`force_unlock`, `add_new_task`, `ioapic_route_gsi`,
`allocate_contiguous`, `send_noop_command`, the ACPI lookups by signature). The
rest of the Jihoo port follows the protocols of the Rust parts; the scheduler and
the pipe owner, which differ, are modelled from the port itself.
