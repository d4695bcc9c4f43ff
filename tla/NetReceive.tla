----------------------------- MODULE NetReceive -----------------------------
(***************************************************************************)
(* The receive path: the e1000 descriptor ring, its interrupt, the flag    *)
(* the interrupt handler leaves for the schedulers, and net::poll on every *)
(* CPU, which drains a bounded burst and dispatches it; with the ring of   *)
(* ICMP echo replies that user programs read.                              *)
(*                                                                         *)
(* Frames are numbered in the order the device stores them.  The device    *)
(* fills descriptors from its head up to, and not including, the tail the  *)
(* driver wrote last, and raises a cause bit for a stored frame as for one *)
(* it had no descriptor for.                                               *)
(***************************************************************************)
EXTENDS Integers, Sequences, SequencesExt, FiniteSets, FiniteSetsExt

CONSTANTS
    CPUs,
    Ring,       \* RING_SIZE
    Budget,     \* RX_DRAIN_BUDGET
    IcmpCap,    \* ICMP_RX_CAPACITY
    Kinds,      \* frames that arrive, out of "reply", "other" and "runt"
    MaxFrames,  \* bound on the frames the device sees
    SeqSize,    \* 2^16, the number of echo sequence numbers
    MaxPings    \* bound on echo requests

\* What the instances choose the constants to satisfy.
RingAssumption == Ring \in Nat \ {0, 1} /\ Budget \in Nat \ {0}
IcmpAssumption == IcmpCap \in Nat \ {0, 1} /\ SeqSize \in Nat \ {0}

VARIABLES
    rdh, rdt,   \* the device's head, the tail register
    desc,       \* [0 .. Ring-1 -> frame stored there, 0 when DD is clear]
    kindOf,     \* kinds of the frames stored so far
    seen,       \* frames the device has seen, stored or not
    cause,      \* a receive cause is set in ICR
    enabled,    \* the interrupt: "off", "sampled" when main has yet to read ICR, "on"
    since,      \* a frame was stored since it was "on"
    rxNext,     \* ctx.rx_next
    pending,    \* RX_WORK_PENDING
    poll,       \* [CPUs -> where net::poll is]
    taken,      \* frames poll_rx has returned, in order
    icmp,       \* [ring, head, tail] of the echo replies
    kept,       \* replies accepted by the ring and not yet read
    ping        \* [next, sent, last]: PING_SEQ, requests, last result

vars == <<rdh, rdt, desc, kindOf, seen, cause, enabled, since, rxNext, pending, poll,
          taken, icmp, kept, ping>>
device == <<rdh, desc, kindOf, seen, since>>
software == <<rxNext, pending, poll, taken, icmp, kept, ping>>

Idle == [at |-> "idle", left |-> 0, frame |-> 0]

\* setup_rx_ring leaves all but one descriptor to the device.
Init ==
    /\ rdh = 0 /\ rdt = Ring - 1 /\ desc = [i \in 0 .. Ring - 1 |-> 0]
    /\ kindOf = <<>> /\ seen = 0
    /\ cause = FALSE /\ enabled = "off" /\ since = FALSE
    /\ rxNext = 0 /\ pending = FALSE
    /\ poll = [c \in CPUs |-> Idle]
    /\ taken = <<>>
    /\ icmp = [ring |-> [i \in 0 .. IcmpCap - 1 |-> 0], head |-> 0, tail |-> 0]
    /\ kept = <<>> /\ ping = [next |-> 1, sent |-> 0, last |-> "none"]

----------------------------------------------------------------------------
(* The device.                                                             *)

Arrive(kind) ==
    /\ seen < MaxFrames
    /\ seen' = seen + 1 /\ cause' = TRUE
    /\ IF rdh # rdt
       THEN /\ kindOf' = Append(kindOf, kind)
            /\ desc' = [desc EXCEPT ![rdh] = Len(kindOf')]
            /\ rdh' = (rdh + 1) % Ring
            /\ since' = (enabled = "on")
       ELSE UNCHANGED <<kindOf, desc, rdh, since>>   \* overrun
    /\ UNCHANGED <<rdt, enabled, software>>

\* enable_rx_interrupt: reads ICR, which clears it, and writes IMS ...
EnableRxInterrupt ==
    /\ enabled = "off"
    /\ cause' = FALSE /\ enabled' = "sampled"
    /\ UNCHANGED <<device, rdt, software>>

\* ... and main reads ICR once more, for its boot message: the cause of a frame
\* that came in between is gone, unless the interrupt was quicker.
InterruptState ==
    /\ enabled = "sampled"
    /\ cause' = FALSE /\ enabled' = "on"
    /\ UNCHANGED <<device, rdt, software>>

\* irq_handler: acknowledge_rx_interrupt reads ICR, which clears it.
MarkRxWorkPending == pending' = TRUE
Irq ==
    /\ enabled # "off" /\ cause
    /\ cause' = FALSE /\ MarkRxWorkPending
    /\ UNCHANGED <<device, rdt, enabled, rxNext, poll, taken, icmp, kept, ping>>

----------------------------------------------------------------------------
(* net::poll.                                                              *)

TakeRxWorkPending(c) ==
    /\ poll[c].at = "idle"
    /\ pending' = FALSE
    /\ poll' = [poll EXCEPT ![c] = IF pending THEN [at |-> "drain", left |-> Budget, frame |-> 0]
                                              ELSE Idle]
    /\ UNCHANGED <<device, rdt, cause, enabled, rxNext, taken, icmp, kept, ping>>

\* e1000 poll_rx under the lock of the NIC: one done descriptor is copied,
\* cleared and given back.
Cleared(i) == [desc EXCEPT ![i] = 0]
RxNext(i) == (i + 1) % Ring
EmptyRing(c) == [at |-> "done", left |-> poll[c].left, frame |-> 0]
PollRx(c) ==
    /\ poll[c].at = "drain" /\ poll[c].left > 0
    /\ IF desc[rxNext] = 0
       THEN /\ poll' = [poll EXCEPT ![c] = EmptyRing(c)]
            /\ UNCHANGED <<desc, rdt, rxNext, taken>>
       ELSE /\ poll' = [poll EXCEPT ![c].at = "handle", ![c].frame = desc[rxNext]]
            /\ taken' = Append(taken, desc[rxNext])
            /\ desc' = Cleared(rxNext)
            /\ rdt' = rxNext
            /\ rxNext' = RxNext(rxNext)
    /\ UNCHANGED <<rdh, kindOf, seen, since, cause, enabled, pending, icmp, kept, ping>>

\* push_icmp_reply: one slot stays empty.
IcmpFull == (icmp.head + 1) % IcmpCap = icmp.tail
PushIcmpReply(f) ==
    IF IcmpFull
    THEN UNCHANGED <<icmp, kept>>
    ELSE /\ icmp' = [icmp EXCEPT !.ring[icmp.head] = f, !.head = (@ + 1) % IcmpCap]
         /\ kept' = Append(kept, f)

\* The rest of handle_incoming_packets.  A frame shorter than an Ethernet
\* header ends the burst as an empty ring does; one of the budget is used
\* for any other.
Handle(c) ==
    /\ poll[c].at = "handle"
    /\ LET f == poll[c].frame
       IN  /\ poll' = [poll EXCEPT ![c] = IF kindOf[f] = "runt" THEN EmptyRing(c)
                                          ELSE [at |-> "drain", left |-> poll[c].left - 1,
                                                frame |-> 0]]
           /\ IF kindOf[f] = "reply" THEN PushIcmpReply(f) ELSE UNCHANGED <<icmp, kept>>
    /\ UNCHANGED <<device, rdt, cause, enabled, rxNext, pending, taken, ping>>

RearmNever(c) == FALSE
Rearm(c) == poll[c].left = 0
PollEnd(c) ==
    /\ poll[c].at = "done" \/ (poll[c].at = "drain" /\ poll[c].left = 0)
    /\ pending' = (pending \/ Rearm(c))
    /\ poll' = [poll EXCEPT ![c] = Idle]
    /\ UNCHANGED <<device, rdt, cause, enabled, rxNext, taken, icmp, kept, ping>>

----------------------------------------------------------------------------
(* User programs: pop_icmp_reply and send_icmp_echo_request.               *)

PopIcmpReply ==
    /\ icmp.tail # icmp.head
    /\ icmp' = [icmp EXCEPT !.tail = (@ + 1) % IcmpCap]
    /\ kept' = Tail(kept)
    /\ UNCHANGED <<device, rdt, cause, enabled, rxNext, pending, poll, taken, ping>>

\* The result is the sequence number, or 0 when the packet was not sent.
SendIcmpEchoRequest(sent) ==
    /\ ping.sent < MaxPings
    /\ ping' = [next |-> (ping.next + 1) % SeqSize, sent |-> ping.sent + 1,
                last |-> IF sent /\ ping.next = 0 THEN "zero" ELSE "none"]
    /\ UNCHANGED <<device, rdt, cause, enabled, rxNext, pending, poll, taken, icmp, kept>>

Next ==
    \/ \E kind \in Kinds : Arrive(kind)
    \/ EnableRxInterrupt \/ InterruptState \/ Irq \/ PopIcmpReply
    \/ \E c \in CPUs : TakeRxWorkPending(c) \/ PollRx(c) \/ Handle(c) \/ PollEnd(c)
    \/ \E sent \in BOOLEAN : SendIcmpEchoRequest(sent)

Spec == Init /\ [][Next]_vars

----------------------------------------------------------------------------
(* Properties.                                                             *)

\* The kind of every variable; every index is inside its ring.
TypeOK ==
    /\ {rdh, rdt, rxNext} \subseteq 0 .. Ring - 1
    /\ \A i \in 0 .. Ring - 1 : desc[i] \in 0 .. Len(kindOf)
    /\ \A c \in CPUs : poll[c].at \in {"idle", "drain", "handle", "done"}
                       /\ poll[c].left \in 0 .. Budget
    /\ {icmp.head, icmp.tail} \subseteq 0 .. IcmpCap - 1
    /\ ping.next \in 0 .. SeqSize - 1 /\ enabled \in {"off", "sampled", "on"}

\* Every stored frame is taken exactly once and in order: what has been
\* taken, followed by what lies in the ring from rx_next on, is everything
\* the device stored.  A descriptor given back too early loses a frame.
Waiting ==
    [k \in 1 .. Cardinality({i \in 0 .. Ring - 1 : desc[i] # 0}) |->
        desc[(rxNext + k - 1) % Ring]]
FramesInOrder == taken \o Waiting = [i \in 1 .. Len(kindOf) |-> i]

\* A frame that waits in the ring is announced: a cause is set, the flag is
\* up, or a CPU is going to look at the ring again.  ("waiting for a new
\* hardware IRQ could otherwise leave that backlog stuck")
Draining(c) == poll[c].at \in {"drain", "handle"}
BacklogAnnounced ==
    since /\ Waiting # <<>> => cause \/ pending \/ \E c \in CPUs : Draining(c)

\* The ring of echo replies holds what was accepted and not read, in the
\* order of the pushes of both CPUs.
IcmpRingExact ==
    kept = [k \in 1 .. (icmp.head - icmp.tail + IcmpCap) % IcmpCap |->
                icmp.ring[(icmp.tail + k - 1) % IcmpCap]]

\* Every frame is taken, once one has been stored since main's own read of
\* ICR.
EveryFrameTaken ==
    \A f \in 1 .. MaxFrames : (since /\ Len(kindOf) >= f) ~> Contains(taken, f)
=============================================================================
