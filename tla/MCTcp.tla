------------------------------- MODULE MCTcp -------------------------------
(* Tcp for TLC.  The configuration describes a connection on which the peer *)
(* sends, and may refuse or reset; Sender is one that only sends, more than *)
(* the send buffer holds, to a peer with a small window.                    *)
EXTENDS Tcp, TLC

VARIABLE sends      \* which of the two connections this is

Sender == INSTANCE Tcp WITH Pollers <- {CHOOSE p \in Pollers : TRUE}, SendCap <- 2, Out <- 3,
                            In <- 0, Windows <- {0, 1, 3}, Faults <- FALSE

ASSUME SeqSpaceAssumption /\ MssAssumption /\ Sender!SeqSpaceAssumption

MCInit == Init /\ sends \in BOOLEAN
MCNext == IF sends THEN Sender!Next /\ UNCHANGED sends ELSE Next /\ UNCHANGED sends
MCSpec == MCInit /\ [][MCNext]_<<vars, sends>>

Symmetry == Permutations(Threads) \cup Permutations(Pollers)

\* The bytes arrive: the peer receives what write accepted, in order, without
\* a gap or a repetition, whatever is retransmitted; read returns what the
\* peer sent; the end of a stream is reported after its last byte in both
\* directions; send_buf holds exactly what the peer has not acknowledged, and
\* the send cursor is between snd_una and snd_max, also after going back to
\* snd_una (output, on_segment, on_timer, read).
StreamsExact == IF sends THEN Sender!TypeOK /\ Sender!Streams /\ Sender!SendBufferExact
                ELSE TypeOK /\ Streams /\ SendBufferExact

\* Nothing gets stuck: while something is outstanding a deadline is
\* set, and a window that was announced as closed is opened again once the
\* reader has made room, and a thread blocks only while the control block has
\* nothing for it, unless its wakeup is on the way (arm, on_timer, read, the
\* generation read before the look).
GoesOn == IF sends THEN Sender!RetransmitArmed /\ Sender!WindowReopened /\ Sender!NoLostWakeup
          ELSE RetransmitArmed /\ WindowReopened /\ NoLostWakeup
=============================================================================
