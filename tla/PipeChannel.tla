----------------------------- MODULE PipeChannel -----------------------------
(***************************************************************************)
(* What a pipe promises: a bounded byte channel between its read ends and  *)
(* its write ends.  Bytes come out in the order they went in; a read       *)
(* reports the end of the stream only when nothing is left and no write    *)
(* end remains; a write falls short only when no read end remains.         *)
(***************************************************************************)
EXTENDS Integers, Sequences

CONSTANTS Capacity, Threads, Bytes, MaxLen

VARIABLES
    chan,       \* the bytes in the pipe, oldest first
    readers,    \* open read ends
    writers,    \* open write ends
    want,       \* [Threads -> the length this read asks for]
    left,       \* [Threads -> bytes of this write not yet accepted]
    out,        \* [Threads -> bytes the last read delivered]
    result      \* [Threads -> how the thread's last call on the pipe ended]

chVars == <<chan, readers, writers, want, left, out, result>>

Data == UNION {[1 .. n -> Bytes] : n \in 0 .. MaxLen}

ChInit ==
    /\ chan = <<>> /\ readers = 1 /\ writers = 1
    /\ left = [t \in Threads |-> <<>>]
    /\ want = [t \in Threads |-> 0]
    /\ out = [t \in Threads |-> <<>>]
    /\ result = [t \in Threads |-> "ready"]

\* A call begins, a read for some length or a write of some bytes.
Begin(t) ==
    /\ result[t] = "ready"
    /\ \E n \in 0 .. MaxLen, d \in Data :
         /\ n = 0 \/ d = <<>>
         /\ want' = [want EXCEPT ![t] = n]
         /\ left' = [left EXCEPT ![t] = d]
    /\ result' = [result EXCEPT ![t] = "busy"]
    /\ UNCHANGED <<chan, readers, writers, out>>

\* It returns once it has a result.
Return(t) ==
    /\ result[t] # "busy"
    /\ want' = [want EXCEPT ![t] = 0]
    /\ left' = [left EXCEPT ![t] = <<>>]
    /\ out' = [out EXCEPT ![t] = <<>>]
    /\ result' = [result EXCEPT ![t] = "ready"]
    /\ UNCHANGED <<chan, readers, writers>>

Deliver(t) ==
    /\ result[t] = "busy"
    /\ \E n \in 1 .. want[t] :
         /\ n <= Len(chan)
         /\ out' = [out EXCEPT ![t] = SubSeq(chan, 1, n)]
         /\ chan' = SubSeq(chan, n + 1, Len(chan))
    /\ result' = [result EXCEPT ![t] = "data"]
    /\ UNCHANGED <<readers, writers, want, left>>

EndOfStream(t) ==
    /\ result[t] = "busy" /\ want[t] > 0 /\ chan = <<>> /\ writers = 0
    /\ result' = [result EXCEPT ![t] = "eof"]
    /\ UNCHANGED <<chan, readers, writers, want, left, out>>

Accept(t) ==
    /\ result[t] = "busy" /\ readers > 0
    /\ \E n \in 1 .. Len(left[t]) :
         /\ Len(chan) + n <= Capacity
         /\ chan' = chan \o SubSeq(left[t], 1, n)
         /\ left' = [left EXCEPT ![t] = SubSeq(@, n + 1, Len(@))]
    /\ UNCHANGED <<readers, writers, want, out, result>>

\* Every byte was accepted, or no reader remains; a call for no bytes ends
\* with nothing done.
Finished(t) ==
    /\ result[t] = "busy"
    /\ \/ /\ want[t] = 0 /\ left[t] = <<>>
          /\ result' = [result EXCEPT ![t] = "done"]
       \/ /\ left[t] # <<>> /\ readers = 0
          /\ result' = [result EXCEPT ![t] = "broken"]
    /\ UNCHANGED <<chan, readers, writers, want, left, out>>

\* Ends are cloned from ends and closed; a side that is gone stays gone.
Ends ==
    /\ \/ /\ readers > 0 /\ readers' \in {readers - 1, readers + 1}
          /\ UNCHANGED writers
       \/ /\ writers > 0 /\ writers' \in {writers - 1, writers + 1}
          /\ UNCHANGED readers
    /\ UNCHANGED <<chan, want, left, out, result>>

ChNext ==
    \/ Ends
    \/ \E t \in Threads : \/ Begin(t) \/ Deliver(t) \/ EndOfStream(t)
                          \/ Accept(t) \/ Finished(t) \/ Return(t)

ChSpec == ChInit /\ [][ChNext]_chVars
=============================================================================
