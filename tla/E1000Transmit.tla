--------------------------- MODULE E1000Transmit ---------------------------
(***************************************************************************)
(* The transmit ring of the e1000 driver.  transmit runs under the lock of *)
(* the NIC, so each call is one step; the device fetches the descriptors   *)
(* between its head and the tail the driver wrote, sends the buffers, and  *)
(* later reports each descriptor done.  Frames are numbered in the order   *)
(* transmit accepts them.                                                  *)
(***************************************************************************)
EXTENDS Integers, Sequences

CONSTANTS
    Ring,       \* RING_SIZE
    MaxFrames   \* bound on accepted frames

\* What the instances choose the constants to satisfy.
RingAssumption == Ring \in Nat \ {0, 1}

VARIABLES
    buf,        \* [0 .. Ring-1 -> frame in the packet buffer]
    used,       \* [0 .. Ring-1 -> desc.cmd # 0]
    dd,         \* [0 .. Ring-1 -> TX_STATUS_DD]
    txNext, tdt, tdh,
    done,       \* descriptors the device has reported
    accepted,   \* frames for which transmit returned true
    sent        \* frames the device put on the wire, in order

vars == <<buf, used, dd, txNext, tdt, tdh, done, accepted, sent>>

Slots == 0 .. Ring - 1

\* setup_tx_ring
Init ==
    /\ buf = [i \in Slots |-> 0]
    /\ used = [i \in Slots |-> FALSE] /\ dd = [i \in Slots |-> FALSE]
    /\ txNext = 0 /\ tdt = 0 /\ tdh = 0 /\ done = 0
    /\ accepted = 0 /\ sent = <<>>

Busy == used[txNext] /\ ~dd[txNext]

TxNext(i) == (i + 1) % Ring

Transmit ==
    /\ accepted < MaxFrames /\ ~Busy
    /\ accepted' = accepted + 1
    /\ buf' = [buf EXCEPT ![txNext] = accepted']
    /\ used' = [used EXCEPT ![txNext] = TRUE]
    /\ dd' = [dd EXCEPT ![txNext] = FALSE]
    /\ txNext' = TxNext(txNext)
    /\ tdt' = txNext'
    /\ UNCHANGED <<tdh, done, sent>>

\* The device: send the buffer at the head, report a descriptor done.
Fetch ==
    /\ tdh # tdt
    /\ sent' = Append(sent, buf[tdh])
    /\ tdh' = (tdh + 1) % Ring
    /\ UNCHANGED <<buf, used, dd, txNext, tdt, done, accepted>>

Report ==
    /\ done < Len(sent)
    /\ dd' = [dd EXCEPT ![done % Ring] = TRUE]
    /\ done' = done + 1
    /\ UNCHANGED <<buf, used, txNext, tdt, tdh, accepted, sent>>

Next == Transmit \/ Fetch \/ Report

Spec == Init /\ [][Next]_vars

----------------------------------------------------------------------------
(* Properties.                                                             *)

\* The indices stay inside the ring, and the driver's index is the tail it
\* wrote.
TypeOK == /\ {txNext, tdt, tdh} \subseteq Slots /\ tdt = txNext
          /\ done <= Len(sent) /\ Len(sent) <= accepted

\* What goes out on the wire is what was accepted, in that order: no buffer
\* is overwritten before the device has sent it.
SentAsAccepted == \A i \in DOMAIN sent : sent[i] = i

=============================================================================
