-------------------------------- MODULE Nvme --------------------------------
(***************************************************************************)
(* The NVMe driver: bringing the controller up, its admin queue and its    *)
(* I/O queue, and block reads and writes by tasks that hold FS_LOCK.       *)
(*                                                                         *)
(* A command is its identifier, what it asks for and where its data are:   *)
(* two page pointers and the number of blocks.  Addresses count units of   *)
(* memory; a block is LbaSize and a page PageSize of them.                 *)
(***************************************************************************)
EXTENDS Integers, Sequences, FiniteSets

CONSTANTS
    Tasks,
    QueueSize,      \* entries of a queue
    LbaSize, PageSize,
    ListLen,        \* pointers the PRP list holds
    CountRange,     \* 2^16: the block count field
    Buffers,        \* addresses of the callers' buffers
    Counts,         \* block counts they ask for
    MaxIo           \* bound: reads and writes

\* What the instances choose the constants to satisfy.
NvmeAssumption ==
    /\ QueueSize > 1 /\ PageSize % LbaSize = 0
    /\ (ListLen + 1) * PageSize <= CountRange * LbaSize

Queues == {"admin", "io"}
NoCmd == [cid |-> 0, serial |-> 0, prp1 |-> 0, prp2 |-> 0, blocks |-> 0]
NoRequest == [buffer |-> 0, count |-> 0, cid |-> 0]
ListAddress == 1000     \* PRP_LIST

VARIABLES
    q,          \* [Queues -> [tail, head, phase]]: the driver's side
    sq, cq,     \* [Queues -> sequence of entries]: the rings in memory
    ctl,        \* the controller: [on, tail, head, put, phase] per queue
    list,       \* PRP_LIST
    boot,       \* how far init is, "off" after shutdown
    lock,       \* FS_LOCK
    pc, req, res,   \* [Tasks -> ...]: reads and writes under way
    wait,       \* [Tasks \cup {"boot"} -> <<command id, serial>> waited for]
    serial,     \* history: commands submitted
    done,       \* history: the commands carried out
    got         \* history: <<waited for, received>> of the last completion

vars == <<q, sq, cq, ctl, list, boot, lock, pc, req, res, wait, serial, done, got>>

NewQueue == [tail |-> 0, head |-> 0, phase |-> 1]
Init ==
    /\ q = [x \in Queues |-> NewQueue]
    /\ sq = [x \in Queues |-> [i \in 0 .. QueueSize - 1 |-> NoCmd]]
    /\ cq = [x \in Queues |-> [i \in 0 .. QueueSize - 1 |-> [cid |-> 0, phase |-> 0, status |-> 0, serial |-> 0]]]
    /\ ctl = [x \in Queues |-> [on |-> FALSE, tail |-> 0, head |-> 0, put |-> 0, phase |-> 1]]
    /\ list = <<>> /\ boot = "disable" /\ lock = "free"
    /\ pc = [t \in Tasks |-> "idle"] /\ req = [t \in Tasks |-> NoRequest]
    /\ res = [t \in Tasks |-> 0]
    /\ wait = [w \in Tasks \cup {"boot"} |-> <<>>] /\ serial = 0 /\ done = <<>> /\ got = <<0, 0>>

----------------------------------------------------------------------------
(* Data pointers.                                                          *)

End(buffer, count) == buffer + count * LbaSize
FirstPage(buffer) == buffer - (buffer % PageSize)
Pages(buffer, count) == (End(buffer, count) - FirstPage(buffer) + PageSize - 1) \div PageSize

\* set_prps: none, one page or the list; more than one list is refused.
Fits(n) == n - 1 <= ListLen
PrpList(buffer, n) == [i \in 1 .. n - 1 |-> FirstPage(buffer) + i * PageSize]
Prp2(buffer, n) ==
    CASE n <= 1 -> 0
      [] n = 2 -> FirstPage(buffer) + PageSize
      [] OTHER -> ListAddress

\* What the controller makes of them: the units of memory it moves, in order.
ToPageEnd(a) == PageSize - (a % PageSize)
PageOf(cmd, i) == IF cmd.prp2 = ListAddress THEN (IF i \in 1 .. ListLen THEN list[i] ELSE 0) ELSE cmd.prp2
Moved(cmd) ==
    [i \in 1 .. cmd.blocks * LbaSize |->
        IF i <= ToPageEnd(cmd.prp1) THEN cmd.prp1 + i - 1
        ELSE LET j == i - ToPageEnd(cmd.prp1) - 1
             IN  PageOf(cmd, (j \div PageSize) + 1) + (j % PageSize)]

----------------------------------------------------------------------------
(* The queues.                                                             *)

NextIndex(i) == IF i + 1 >= QueueSize THEN 0 ELSE i + 1

\* nvme_submit_command: the entry, the tail, the doorbell.
Submit(x, cmd, who) ==
    /\ sq' = [sq EXCEPT ![x][q[x].tail] = cmd]
    /\ q' = [q EXCEPT ![x].tail = NextIndex(@)]
    /\ ctl' = [ctl EXCEPT ![x].tail = q'[x].tail]
    /\ serial' = cmd.serial
    /\ wait' = [wait EXCEPT ![who] = <<cmd.cid, cmd.serial>>]

\* nvme_wait_for_completion: a new entry at the head, with the identifier
\* waited for, is the answer.  (One with another identifier would be consumed
\* and the wait go on: CompletionMine shows that there never is one.)
IsNew(x) == cq[x][q[x].head].phase = q[x].phase
NextPhase(x) == IF q[x].head + 1 >= QueueSize THEN 1 - q[x].phase ELSE q[x].phase
Consumed(x) == [q EXCEPT ![x].head = NextIndex(@), ![x].phase = NextPhase(x)]

Completed(x, who) ==
    /\ wait[who] # <<>> /\ IsNew(x) /\ cq[x][q[x].head].cid = wait[who][1]
    /\ q' = Consumed(x)
    /\ got' = <<wait[who][2], cq[x][q[x].head].serial>>
    /\ wait' = [wait EXCEPT ![who] = <<>>]

----------------------------------------------------------------------------
(* init, on the boot CPU.                                                  *)

Rest == <<list, lock, pc, req, res>>

\* Disable it, describe the admin queue, enable it.
Enable ==
    /\ boot = "disable" /\ boot' = "identify"
    /\ q' = [q EXCEPT !["admin"] = NewQueue]
    /\ ctl' = [ctl EXCEPT !["admin"].on = TRUE]
    /\ UNCHANGED <<sq, cq, wait, serial, done, got, Rest>>

AdminCid == [identify |-> 1, iocq |-> 2, iosq |-> 3]
AdminNext == [identify |-> "iocq", iocq |-> "iosq", iosq |-> "setup"]

\* nvme_identify_controller and the first half of nvme_setup_io_queues
AdminSubmit ==
    /\ boot \in DOMAIN AdminCid /\ wait["boot"] = <<>>
    /\ Submit("admin", [NoCmd EXCEPT !.cid = AdminCid[boot], !.serial = serial + 1], "boot")
    /\ UNCHANGED <<cq, boot, done, got, Rest>>

AdminDone ==
    /\ boot \in DOMAIN AdminCid /\ Completed("admin", "boot")
    /\ boot' = AdminNext[boot]
    /\ UNCHANGED <<sq, cq, ctl, serial, done, Rest>>

\* ... and the second: the driver's own side of the I/O queue.
SetUpIo ==
    /\ boot = "setup" /\ boot' = "ready"
    /\ q' = [q EXCEPT !["io"] = NewQueue]
    /\ UNCHANGED <<sq, cq, ctl, wait, serial, done, got, Rest>>

----------------------------------------------------------------------------
(* nvme_read and nvme_write.                                               *)

\* fs.rs takes FS_LOCK and asks default_nsid.
LockTakenAnyway == TRUE
LockFree == lock = "free"
Begin(t, b, c, id) ==
    /\ boot \in {"ready", "off"} /\ pc[t] = "idle" /\ LockFree /\ serial < MaxIo
    /\ lock' = t
    /\ req' = [req EXCEPT ![t] = [buffer |-> b, count |-> c, cid |-> id]]
    /\ pc' = [pc EXCEPT ![t] = "submit"]
    /\ UNCHANGED <<q, sq, cq, ctl, list, boot, res, wait, serial, done, got>>

Return(t, status) ==
    /\ res' = [res EXCEPT ![t] = status]
    /\ pc' = [pc EXCEPT ![t] = "idle"]
    /\ lock' = "free"
    /\ req' = [req EXCEPT ![t] = NoRequest]

Refuse(t) ==
    /\ pc[t] = "submit" /\ (req[t].count = 0 \/ ~Fits(Pages(req[t].buffer, req[t].count)))
    /\ Return(t, -1)
    /\ UNCHANGED <<q, sq, cq, ctl, list, boot, wait, serial, done, got>>

SubmitIo(t) ==
    /\ pc[t] = "submit"
    /\ LET b == req[t].buffer
           n == Pages(b, req[t].count)
       IN  /\ req[t].count # 0 /\ Fits(n)
           /\ list' = IF n > 2 THEN PrpList(b, n) ELSE list
           /\ Submit("io", [cid |-> req[t].cid, serial |-> serial + 1, prp1 |-> b, prp2 |-> Prp2(b, n),
                            blocks |-> ((req[t].count - 1) % CountRange) + 1], t)
    /\ pc' = [pc EXCEPT ![t] = "wait"]
    /\ UNCHANGED <<cq, boot, lock, req, res, done, got>>

Complete(t) ==
    /\ pc[t] = "wait" /\ Completed("io", t)
    /\ Return(t, IF cq["io"][q["io"].head].status = 0 THEN 0 ELSE -1)
    /\ done' = <<>>
    /\ UNCHANGED <<sq, cq, ctl, list, boot, serial>>

\* shutdown, from a system call on any CPU, which takes no lock: the controller
\* carries out nothing more.
Shutdown ==
    /\ boot = "ready" /\ boot' = "off"
    /\ ctl' = [x \in Queues |-> [ctl[x] EXCEPT !.on = FALSE]]
    /\ UNCHANGED <<q, sq, cq, wait, serial, done, got, Rest>>

----------------------------------------------------------------------------
(* The controller.                                                         *)

CompletionRoom(x) == (ctl[x].put + 1) % QueueSize # q[x].head
Execute(x) ==
    /\ ctl[x].on /\ ctl[x].head # ctl[x].tail /\ CompletionRoom(x)
    /\ LET cmd == sq[x][ctl[x].head] IN
         \E status \in IF x = "admin" THEN {0} ELSE {0, 1} :
            /\ cq' = [cq EXCEPT ![x][ctl[x].put] =
                        [cid |-> cmd.cid, phase |-> ctl[x].phase, status |-> status, serial |-> cmd.serial]]
            /\ done' = [serial |-> cmd.serial, from |-> cmd.prp1, moved |-> Moved(cmd)]
    /\ ctl' = [c \in Queues |->
                 CASE c = x -> [ctl[x] EXCEPT !.head = (@ + 1) % QueueSize, !.put = (@ + 1) % QueueSize,
                                              !.phase = IF ctl[x].put + 1 = QueueSize THEN 1 - @ ELSE @]
                   [] c # x -> [ctl[c] EXCEPT !.on = @ \/ (x = "admin" /\ boot = "iosq")]]
    /\ UNCHANGED <<q, sq, list, boot, lock, pc, req, res, wait, serial, got>>

Task(t) == \/ \E b \in Buffers, c \in Counts, id \in {100, 101} : Begin(t, b, c, id)
           \/ Refuse(t) \/ SubmitIo(t) \/ Complete(t)
Boot == Enable \/ AdminSubmit \/ AdminDone \/ SetUpIo
Next == Boot \/ Shutdown \/ (\E t \in Tasks : Task(t)) \/ (\E x \in Queues : Execute(x))

Spec == Init /\ [][Next]_vars

----------------------------------------------------------------------------
TypeOK ==
    /\ \A x \in Queues : /\ q[x].tail \in 0 .. QueueSize - 1 /\ q[x].head \in 0 .. QueueSize - 1
                         /\ q[x].phase \in {0, 1}
    /\ Len(list) <= ListLen

\* The controller moves exactly the caller's buffer, whatever its alignment
\* and length: set_prps names every page once and nothing else, and the list
\* is still the one of this command when the controller reads it.
DmaExact ==
    done # <<>> /\ lock \in Tasks /\ done.serial = serial /\ pc[lock] = "wait" =>
        done.moved = [i \in 1 .. req[lock].count * LbaSize |-> req[lock].buffer + i - 1]

\* A completion answers the very command its receiver waits for, though every
\* read uses identifier 100 and every write 101; and none that shows up in a
\* queue carries an identifier nobody waits for.
CompletionMine ==
    /\ got[1] = got[2]
    /\ \A x \in Queues : IsNew(x) => \E w \in DOMAIN wait : wait[w] # <<>> /\ wait[w][1] = cq[x][q[x].head].cid

\* The driver sees a completion exactly when the controller has put one the
\* driver has not consumed, after any number of turns of the queue: head, wrap
\* and phase bit stay in step with the controller's.
SeesCompletions == \A x \in Queues : IsNew(x) <=> q[x].head # ctl[x].put

\* Every read and write returns, unless the machine is being switched off.
IoReturns == \A t \in Tasks : pc[t] # "idle" ~> pc[t] = "idle" \/ boot = "off"
=============================================================================
