------------------------------ MODULE MCLive ------------------------------
(* What must eventually happen, for TLC: address and name resolution, the   *)
(* receive path of the network card, pipes and the disk.  They share no     *)
(* state, so a property of one of them fails in some behaviour of all       *)
(* exactly when it fails in a behaviour in which only that one moves:       *)
(* MCInit picks the one.                                                    *)
EXTENDS Integers, Sequences, TLC

VARIABLES
    part,
    aCache, aLast, aCall, aWoken, aAnswered, aWaking, aResult,
    dSlot, dAsked, dCall, dWoken, dWaking, dResult,
    rRdh, rRdt, rDesc, rKindOf, rSeen, rCause, rEnabled, rSince, rRxNext, rPending, rPoll,
    rTaken, rIcmp, rKept, rPing,
    pBuf, pHead, pLength, pReaders, pWriters, pRefs, pSlot, pTable, pPc, pEnd, pDest, pWant,
    pLeft, pFresh, pOut, pResult,
    nQ, nSq, nCq, nCtl, nList, nBoot, nLock, nPc, nReq, nRes, nWait, nSerial, nDone, nGot

arp == <<aCache, aLast, aCall, aWoken, aAnswered, aWaking, aResult>>
dns == <<dSlot, dAsked, dCall, dWoken, dWaking, dResult>>
receive == <<rRdh, rRdt, rDesc, rKindOf, rSeen, rCause, rEnabled, rSince, rRxNext,
        rPending, rPoll, rTaken, rIcmp, rKept, rPing>>
pipe == <<pBuf, pHead, pLength, pReaders, pWriters, pRefs, pSlot, pTable, pPc, pEnd, pDest,
        pWant, pLeft, pFresh, pOut, pResult>>
disk == <<nQ, nSq, nCq, nCtl, nList, nBoot, nLock, nPc, nReq, nRes, nWait, nSerial, nDone,
        nGot>>

Arp == INSTANCE Arp WITH
    Threads <- {1, 2}, CPUs <- {1}, Hosts <- {"h1", "h2"}, Macs <- {"m"}, CacheSize <- 1,
    cache <- aCache, last <- aLast, call <- aCall, woken <- aWoken, answered <- aAnswered,
    waking <- aWaking, result <- aResult
Dns == INSTANCE Dns WITH
    Threads <- {1, 2}, CPUs <- {1}, Names <- {"n1", "n2"}, slot <- dSlot, asked <- dAsked,
    call <- dCall, woken <- dWoken, waking <- dWaking, result <- dResult
Rx == INSTANCE NetReceive WITH
    CPUs <- {1, 2}, Ring <- 3, Budget <- 1, IcmpCap <- 2, Kinds <- {"reply", "other"},
    MaxFrames <- 3, SeqSize <- 3, MaxPings <- 0, rdh <- rRdh, rdt <- rRdt, desc <- rDesc,
    kindOf <- rKindOf, seen <- rSeen, cause <- rCause, enabled <- rEnabled, since <- rSince,
    rxNext <- rRxNext, pending <- rPending, poll <- rPoll, taken <- rTaken, icmp <- rIcmp,
    kept <- rKept, ping <- rPing
Pipe == INSTANCE Pipe WITH
    Capacity <- 1, Threads <- {"t1", "t2"}, Slots <- {"r", "w", "c"},
    TableOf <- [r |-> "parent", w |-> "parent", c |-> "child"], ReadSlot <- "r",
    WriteSlot <- "w", Bytes <- {0}, MaxLen <- 1, NONE <- "none", buf <- pBuf, head <- pHead,
    length <- pLength, readers <- pReaders, writers <- pWriters, refs <- pRefs,
    slot <- pSlot, table <- pTable, pc <- pPc, end <- pEnd, dest <- pDest, want <- pWant,
    left <- pLeft, fresh <- pFresh, out <- pOut, result <- pResult
Disk == INSTANCE Nvme WITH
    Tasks <- {"t1", "t2"}, QueueSize <- 2, LbaSize <- 2, PageSize <- 4, ListLen <- 2,
    CountRange <- 8, Buffers <- {17}, Counts <- {1, 5}, MaxIo <- 6, q <- nQ, sq <- nSq,
    cq <- nCq, ctl <- nCtl, list <- nList, boot <- nBoot, lock <- nLock, pc <- nPc,
    req <- nReq, res <- nRes, wait <- nWait, serial <- nSerial, done <- nDone, got <- nGot

MCInit ==
    /\ part \in {"arp", "dns", "receive", "pipe", "disk"}
    /\ Arp!Init /\ Dns!Init /\ Rx!Init /\ Pipe!Init /\ Disk!Init

MCNext ==
    /\ UNCHANGED part
    /\ \/ part = "arp" /\ Arp!Next /\ UNCHANGED <<dns, receive, pipe, disk>>
       \/ part = "dns" /\ Dns!Next /\ UNCHANGED <<arp, receive, pipe, disk>>
       \/ part = "receive" /\ Rx!Next /\ UNCHANGED <<arp, dns, pipe, disk>>
       \/ part = "pipe" /\ Pipe!Next /\ UNCHANGED <<arp, dns, receive, disk>>
       \/ part = "disk" /\ Disk!Next /\ UNCHANGED <<arp, dns, receive, pipe>>

all == <<part, arp, dns, receive, pipe, disk>>

Resolving(t) == Arp!Snapshot(t) \/ Arp!Check(t) \/ Arp!Wait(t) \/ Arp!Timeout(t) \/ Arp!LastLookup(t)
Asking(t) ==
    \/ \E sent \in BOOLEAN : Dns!Transmit(t, sent)
    \/ Dns!Snapshot(t) \/ Dns!Check(t) \/ Dns!Wait(t) \/ Dns!Timeout(t) \/ Dns!TakeResult(t)
Polling(c) == Rx!PollRx(c) \/ Rx!Handle(c) \/ Rx!PollEnd(c)
Draining == \E c \in {1, 2} : Rx!TakeRxWorkPending(c) /\ rPending
Reading(t) == Disk!Refuse(t) \/ Disk!SubmitIo(t) \/ Disk!Complete(t)

\* A thread that can run does, and the clock passes every deadline; a latched
\* interrupt is delivered; a CPU that has begun to drain the ring goes on, and
\* when the flag stays up some CPU calls poll, from its scheduler loop or from
\* a task that yields; the disk controller works on its queues.  The network
\* owes nothing.
Fairness ==
    /\ \A t \in {1, 2} : /\ WF_arp(part = "arp" /\ Resolving(t))
                         /\ WF_dns(part = "dns" /\ Asking(t))
    /\ WF_receive(part = "receive" /\ (Rx!EnableRxInterrupt \/ Rx!InterruptState))
    /\ WF_receive(part = "receive" /\ Rx!Irq) /\ WF_receive(part = "receive" /\ Draining)
    /\ \A c \in {1, 2} : WF_receive(part = "receive" /\ Polling(c))
    /\ \A t \in {"t1", "t2"} : /\ WF_pipe(part = "pipe" /\ Pipe!Step(t))
                               /\ WF_disk(part = "disk" /\ Reading(t))
    /\ WF_disk(part = "disk" /\ Disk!Boot)
    /\ \A x \in Disk!Queues : WF_disk(part = "disk" /\ Disk!Execute(x))

MCSpec == MCInit /\ [][MCNext]_all /\ Fairness

\* Calls that wait for a device end: a resolution of an address or of a name
\* returns, answered or not, and a transfer that the controller answers
\* returns to the task that asked (arp_resolve, dns_resolve, submit_io).
CallsReturn == Arp!ResolveReturns /\ Dns!ResolveReturns /\ Disk!IoReturns

\* What has arrived is delivered: every frame in the ring is taken once the
\* interrupt is on, although interrupts are masked and polls have a budget;
\* a blocked reader gets the bytes or the end of the stream, and a blocked
\* writer learns that nobody reads (poll_rx, Pipe.read, Pipe.write).
DataArrives ==
    /\ Rx!EveryFrameTaken
    /\ Pipe!DataReachesReaders /\ Pipe!EofReachesReaders /\ Pipe!BrokenPipeReachesWriters
============================================================================
