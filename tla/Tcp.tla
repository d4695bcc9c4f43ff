-------------------------------- MODULE Tcp --------------------------------
(***************************************************************************)
(* One TCP client connection, drivers/net/tcp.rs: its control block, the   *)
(* threads that connect, read, write and close, the receive path and the   *)
(* retransmission timer, and a peer behind a network that loses, repeats,  *)
(* delays and reorders segments.                                           *)
(*                                                                         *)
(* The network keeps no segment: what the peer may have sent so far (any   *)
(* of PeerSegments) can arrive at any time and any number of times, and so *)
(* can every segment of `sent' at the peer.  Time is left out: an armed    *)
(* deadline can expire whenever a poll looks at it, so rto and the clock   *)
(* are not needed.  Bytes are their position in their stream, sequence     *)
(* numbers wrap at SeqSpace.                                               *)
(***************************************************************************)
EXTENDS Integers, Sequences, FiniteSets, FiniteSetsExt

CONSTANTS
    Threads,        \* user threads that share the descriptor
    Pollers,        \* CPUs that run net::poll
    SeqSpace,       \* 2^32 in the code
    Iss, PeerIss,   \* the initial sequence numbers
    SendCap, RecvCap, Mss, MaxRetries,
    Out, In,        \* bytes the user writes and the peer sends, at most
    Windows,        \* the windows the peer advertises
    Faults          \* TRUE: the peer may refuse or reset, and strays arrive

\* What the instances choose the constants to satisfy.
SeqSpaceAssumption == SeqSpace > 2 * (Out + In + RecvCap + 4)
MssAssumption == Mss \in Nat \ {0}

VARIABLES
    tcb,        \* the Tcb
    listed,     \* the connection is in CONNS
    call,       \* [Threads -> the call it is in]
    owed,       \* pollers that have still to call wake_waiters
    dropped,    \* the last descriptor is closed
    wrote, got, \* bytes accepted by write, bytes returned by read
    eof,        \* a read has returned 0
    sent,       \* the segments with SYN, FIN or data sent so far
    peer        \* [state, got, fin]: what the peer has received

vars == <<tcb, listed, call, owed, dropped, wrote, got, eof, sent, peer>>
user == <<call, wrote, got, eof>>

----------------------------------------------------------------------------
(* Sequence arithmetic: seq_lt, seq_le.                                    *)

Plus(a, n) == (a + n) % SeqSpace
Distance(a, b) == (b - a) % SeqSpace
SeqLt(a, b) == Distance(a, b) \in 1 .. (SeqSpace \div 2)
SeqLe(a, b) == a = b \/ SeqLt(a, b)

Bytes(from, n) == [i \in 1 .. n |-> from + i]
Stream(n) == Bytes(0, n)
IsPrefix(s, n) == Len(s) <= n /\ s = Stream(Len(s))
Monus(a, b) == IF a > b THEN a - b ELSE 0

----------------------------------------------------------------------------
(* Tcb.  The operators take the control block r and return the new one;    *)
(* r.tx collects what is sent.                                             *)

NoFin == -1
NewTcb ==
    [state |-> "Idle", una |-> Iss, nxt |-> Iss, max |-> Iss, wnd |-> 0,
     buf |-> <<>>, finQueued |-> FALSE, finSeq |-> NoFin, finAcked |-> FALSE,
     rcvNxt |-> 0, rbuf |-> <<>>, peerFin |-> FALSE, userClosed |-> FALSE,
     adv |-> 0, error |-> "none", retries |-> 0, armed |-> FALSE, tx |-> {}]

Seg(flags, seq, data) == [flags |-> flags, seq |-> seq, data |-> data]

Room(r) == RecvCap - Len(r.rbuf)
Send(r, flags, seq, data) ==
    [r EXCEPT !.adv = Room(r),
              !.tx = IF flags = {"ACK"} /\ data = <<>> THEN @
                     ELSE @ \cup {Seg(flags, seq, data)}]
SendAck(r) == Send(r, {"ACK"}, r.max, <<>>)

Advance(r, n) ==
    LET nxt == Plus(r.nxt, n)
    IN  [r EXCEPT !.nxt = nxt, !.max = IF SeqLt(@, nxt) THEN nxt ELSE @]

Arm(r) == [r EXCEPT !.armed = TRUE]

Fail(r, error) ==
    [r EXCEPT !.error = error, !.state = "Closed", !.armed = FALSE, !.buf = <<>>]

\* data_before_cursor.
InFlightNothing(r) == 0
InFlight(r) == Min({Distance(r.una, r.nxt), Len(r.buf)})

\* The data loop of output: segments of at most Mss bytes as far as the
\* window reaches; the timer probes a closed window with one byte.
IgnoreWindow(r, probe) == Len(r.buf) - InFlight(r)
Sendable(r, probe) ==
    LET f == InFlight(r)
        window == IF probe /\ r.wnd = 0 /\ f = 0 THEN 1 ELSE r.wnd
    IN  Min({Len(r.buf) - f, Monus(window, f)})

OutputData(r, probe) ==
    LET f == InFlight(r)
        n == Sendable(r, probe)
        Chunk(i) == SubSeq(r.buf, f + i + 1, f + Min({i + Mss, n}))
        Starts == {i \in 0 .. (n - 1) : i % Mss = 0}
        sending == [r EXCEPT !.adv = Room(r), !.tx = @ \cup
            {Seg({"ACK", "PSH"}, Plus(r.nxt, i), Chunk(i)) : i \in Starts}]
    IN  IF n = 0 THEN r ELSE Arm(Advance(sending, n))

\* The FIN follows the last data byte, the first time and again.
FinDue(r) ==
    /\ r.finQueued /\ ~r.finAcked
    /\ Distance(r.una, r.nxt) = Len(r.buf)
    /\ r.finSeq = NoFin \/ r.finSeq = r.nxt

AfterFin(state) ==
    CASE state = "Established" -> "FinWait1"
      [] state = "CloseWait" -> "LastAck"
      [] OTHER -> state

OutputFin(r) ==
    IF ~FinDue(r) THEN r
    ELSE Arm([Advance(Send(r, {"FIN", "ACK"}, r.nxt, <<>>), 1) EXCEPT
                !.finSeq = r.nxt, !.state = AfterFin(r.state)])

Sending == {"Established", "CloseWait", "FinWait1", "Closing", "LastAck"}

ArmNever(r) == r
ArmIfPending(r) == IF Len(r.buf) > InFlight(r) THEN Arm(r) ELSE r

Output(r, probe) ==
    IF r.state = "SynSent"
    THEN IF r.nxt = Iss THEN Arm(Advance(Send(r, {"SYN"}, Iss, <<>>), 1)) ELSE r
    ELSE IF r.state \in Sending THEN ArmIfPending(OutputFin(OutputData(r, probe)))
    ELSE r

----------------------------------------------------------------------------
(* on_segment.  s is [flags, seq, ack, wnd, data].                         *)

OnSynSent(r, s) ==
    IF "ACK" \in s.flags /\ s.ack # Plus(Iss, 1) THEN r
    ELSE IF "RST" \in s.flags
    THEN IF "ACK" \in s.flags THEN Fail(r, "ConnectionRefused") ELSE r
    ELSE IF {"SYN", "ACK"} \subseteq s.flags
    THEN Output(SendAck([r EXCEPT !.rcvNxt = Plus(s.seq, 1), !.una = s.ack,
                            !.wnd = s.wnd, !.state = "Established",
                            !.retries = 0, !.armed = FALSE]), FALSE)
    ELSE r

InWindow(r, seq) ==
    SeqLe(r.rcvNxt, seq) /\ SeqLt(seq, Plus(r.rcvNxt, Max({Room(r), 1})))

\* An acknowledgement of something sent and not yet acknowledged.
Closes(state) ==
    CASE state = "FinWait1" -> "FinWait2"
      [] state \in {"Closing", "LastAck"} -> "Closed"
      [] OTHER -> state

CursorAfter(r, ack) == IF SeqLt(r.nxt, ack) THEN ack ELSE r.nxt

Acknowledged(r, ack) ==
    LET n == Min({Distance(r.una, ack), Len(r.buf)})
        finAcked == r.finAcked \/ (r.finSeq # NoFin /\ SeqLt(r.finSeq, ack))
        state == IF finAcked THEN Closes(r.state) ELSE r.state
    IN  [r EXCEPT !.buf = SubSeq(@, n + 1, Len(@)), !.finAcked = finAcked,
                  !.una = ack, !.nxt = CursorAfter(r, ack), !.retries = 0,
                  !.state = state,
                  !.armed = ack # r.max \/ (state = "FinWait2" /\ r.state = "FinWait1")]

\* In-order payload and FIN.  After the user has closed, data is discarded.
Taken(r, s) ==
    IF r.userClosed THEN Len(s.data) ELSE Min({Len(s.data), Room(r)})

FinTaken(r, s) == "FIN" \in s.flags /\ Taken(r, s) = Len(s.data)

AfterPeerFin(state) ==
    CASE state = "Established" -> "CloseWait"
      [] state = "FinWait1" -> "Closing"
      [] state = "FinWait2" -> "Closed"

Accepts(r, s) ==
    s.seq = r.rcvNxt /\ r.state \in {"Established", "FinWait1", "FinWait2"}

Received(r, s) ==
    LET n == Taken(r, s)
        fin == FinTaken(r, s)
        state == IF fin THEN AfterPeerFin(r.state) ELSE r.state
    IN  IF ~Accepts(r, s) THEN r
        ELSE [r EXCEPT !.rbuf = IF r.userClosed THEN @ ELSE @ \o SubSeq(s.data, 1, n),
                       !.rcvNxt = Plus(@, IF fin THEN n + 1 ELSE n),
                       !.peerFin = @ \/ fin, !.state = state,
                       !.armed = @ /\ ~(fin /\ state = "Closed")]

\* The window is taken over, then payload and FIN, then output.
Accepted(r, s) ==
    LET open == [r EXCEPT !.wnd = s.wnd]
    IN  Output(IF s.data # <<>> \/ "FIN" \in s.flags
               THEN SendAck(Received(open, s)) ELSE open, FALSE)

AckAdvances(r, ack) == SeqLt(r.una, ack) /\ SeqLe(ack, r.max)

OnSegment(r, s) ==
    CASE r.state \in {"Idle", "Closed"} -> r
      [] r.state = "SynSent" -> OnSynSent(r, s)
      [] OTHER ->
            IF "RST" \in s.flags
            THEN IF InWindow(r, s.seq) THEN Fail(r, "ConnectionReset") ELSE r
            ELSE IF "SYN" \in s.flags THEN SendAck(r)
            ELSE IF "ACK" \notin s.flags THEN r
            ELSE IF AckAdvances(r, s.ack) THEN Accepted(Acknowledged(r, s.ack), s)
            ELSE IF SeqLt(r.max, s.ack) THEN SendAck(r)
            ELSE Accepted([r EXCEPT !.retries =
                    IF s.ack = r.una /\ s.wnd = 0 THEN 0 ELSE @], s)

\* on_timer, its deadline reached: go back to the oldest unacknowledged byte.
OnTimerForever(r) ==
    IF r.state = "FinWait2" THEN [r EXCEPT !.armed = FALSE, !.state = "Closed"]
    ELSE Arm(Output([r EXCEPT !.nxt = IF r.state = "SynSent" THEN Iss ELSE r.una], TRUE))
OnTimer(r) ==
    LET again == [r EXCEPT !.armed = FALSE, !.retries = @ + 1,
                    !.nxt = IF r.state = "SynSent" THEN Iss ELSE r.una]
    IN  IF r.state = "FinWait2"
        THEN [r EXCEPT !.armed = FALSE, !.state = "Closed"]
        ELSE IF again.retries > MaxRetries
        THEN Fail([r EXCEPT !.retries = @ + 1], "TimedOut")
        ELSE Arm(Output(again, TRUE))

----------------------------------------------------------------------------
(* The peer (external): it accepts data in order, acknowledges what it has *)
(* and sends In bytes and a FIN in pieces of any size.                     *)

Acks == {Plus(Iss, 1 + i) : i \in 0 .. (Len(peer.got) + IF peer.fin THEN 1 ELSE 0)}
PeerSeg(flags, seq, ack, wnd, data) ==
    [flags |-> flags, seq |-> seq, ack |-> ack, wnd |-> wnd, data |-> data]

Handshake ==
    {PeerSeg({"SYN", "ACK"}, PeerIss, Plus(Iss, 1), w, <<>>) : w \in Windows}
DataSegments ==
    {PeerSeg(f, Plus(PeerIss, 1 + i), a, w, Bytes(i, n)) :
        f \in {{"ACK"}, {"ACK", "FIN"}}, i \in 0 .. In, n \in 0 .. In,
        a \in Acks, w \in Windows}
FromStream(s) ==
    LET end == Distance(Plus(PeerIss, 1), s.seq) + Len(s.data)
    IN  end <= In /\ ("FIN" \in s.flags => end = In)
Resets == {PeerSeg({"RST"}, Plus(PeerIss, 1 + i), 0, 0, <<>>) : i \in 0 .. (In + 1)}
Refusal == {PeerSeg({"RST", "ACK"}, 0, Plus(Iss, 1), 0, <<>>)}
\* Leftovers of an earlier connection.
Strays == {PeerSeg(f, Plus(PeerIss, SeqSpace - 1), Plus(Iss, Out + 3), 1, <<>>) :
              f \in {{"ACK"}, {"SYN"}, {"RST"}, {}}}

PeerSegments ==
    UNION {IF peer.state \in {"open", "reset"}
           THEN Handshake \cup {s \in DataSegments : FromStream(s)} ELSE {},
           IF peer.state = "reset" THEN Resets ELSE {},
           IF peer.state = "refused" THEN Refusal ELSE {},
           IF Faults THEN Strays ELSE {}}

PeerSyn ==
    /\ peer.state = "listen" /\ \E s \in sent : "SYN" \in s.flags
    /\ \E st \in IF Faults THEN {"open", "refused"} ELSE {"open"} :
         peer' = [peer EXCEPT !.state = st]
    /\ UNCHANGED <<tcb, listed, user, owed, dropped, sent>>

PeerReset ==
    /\ Faults /\ peer.state = "open"
    /\ peer' = [peer EXCEPT !.state = "reset"]
    /\ UNCHANGED <<tcb, listed, user, owed, dropped, sent>>

PeerReceive(s) ==
    LET next == Plus(Iss, 1 + Len(peer.got))
        skip == Distance(s.seq, next)
    IN  /\ peer.state = "open" /\ ~peer.fin /\ "SYN" \notin s.flags
        /\ skip < Len(s.data) \/ ("FIN" \in s.flags /\ skip = 0)
        /\ peer' = [peer EXCEPT !.got = @ \o SubSeq(s.data, skip + 1, Len(s.data)),
                                !.fin = "FIN" \in s.flags]
        /\ UNCHANGED <<tcb, listed, user, owed, dropped, sent>>

----------------------------------------------------------------------------
(* The calls.  Each loops: read the event generation, look at the control  *)
(* block under its lock, wait if the generation is still the same.         *)

NoCall == [op |-> "none", pc |-> "none", fresh |-> FALSE, left |-> 0]
Entered(op, n) == [op |-> op, pc |-> "check", fresh |-> TRUE, left |-> n]

Init ==
    /\ tcb = NewTcb /\ listed = FALSE /\ dropped = FALSE
    /\ call = [t \in Threads |-> NoCall] /\ owed = {}
    /\ wrote = 0 /\ got = <<>> /\ eof = FALSE
    /\ sent = {} /\ peer = [state |-> "listen", got |-> <<>>, fin |-> FALSE]

Commit(r) == tcb' = [r EXCEPT !.tx = {}] /\ sent' = sent \cup r.tx
Become(t, c) == call' = [call EXCEPT ![t] = c]

Connect(t) ==
    /\ call[t] = NoCall /\ ~dropped /\ tcb.state = "Idle"
    /\ Commit(Output([tcb EXCEPT !.state = "SynSent"], FALSE))
    /\ listed' = TRUE
    /\ Become(t, Entered("connect", 0))
    /\ UNCHANGED <<owed, dropped, wrote, got, eof, peer>>

Read(t) ==
    /\ call[t] = NoCall /\ ~dropped /\ tcb.state # "Idle"
    /\ ~eof
    /\ Become(t, Entered("read", 0))
    /\ UNCHANGED <<tcb, listed, owed, dropped, wrote, got, eof, sent, peer>>

Promised == LET Left(t) == call[t].left IN MapThenSumSet(Left, Threads)

Write(t, n) ==
    /\ call[t] = NoCall /\ ~dropped /\ tcb.state # "Idle"
    /\ wrote + Promised + n <= Out
    /\ Become(t, Entered("write", n))
    /\ UNCHANGED <<tcb, listed, owed, dropped, wrote, got, eof, sent, peer>>

At(t, op) == call[t].op = op /\ call[t].pc = "check"
MustWait(t) == Become(t, [call[t] EXCEPT !.pc = "wait"])

ConnectCheck(t) ==
    /\ At(t, "connect")
    /\ IF tcb.state = "SynSent" THEN MustWait(t) ELSE Become(t, NoCall)
    /\ UNCHANGED <<tcb, listed, owed, dropped, wrote, got, eof, sent, peer>>

\* A window that had shrunk below half is announced again.
Reopen(r) ==
    IF /\ r.adv < RecvCap \div 2 /\ Room(r) >= RecvCap \div 2
       /\ r.state \notin {"Idle", "SynSent", "Closed"}
    THEN SendAck(r) ELSE r

ReadCheck(t) ==
    /\ At(t, "read")
    /\ IF tcb.rbuf # <<>>
       THEN \E n \in 1 .. Len(tcb.rbuf) :
              /\ got' = got \o SubSeq(tcb.rbuf, 1, n)
              /\ Commit(Reopen([tcb EXCEPT !.rbuf = SubSeq(@, n + 1, Len(@))]))
              /\ Become(t, NoCall) /\ UNCHANGED eof
       ELSE /\ UNCHANGED <<tcb, sent, got>>
            /\ IF tcb.peerFin \/ tcb.error # "none" \/ tcb.state = "Closed"
               THEN /\ eof' = (eof \/ tcb.peerFin \/ tcb.error = "none")
                    /\ Become(t, NoCall)
               ELSE MustWait(t) /\ UNCHANGED eof
    /\ UNCHANGED <<listed, owed, dropped, wrote, peer>>

Writable ==
    tcb.error = "none" /\ tcb.state \in {"Established", "CloseWait"} /\ ~tcb.finQueued

WriteCheck(t) ==
    /\ At(t, "write")
    /\ LET n == Min({SendCap - Len(tcb.buf), call[t].left})
       IN  IF ~Writable
           THEN Become(t, NoCall) /\ UNCHANGED <<tcb, sent, wrote>>
           ELSE IF n = 0 THEN MustWait(t) /\ UNCHANGED <<tcb, sent, wrote>>
           ELSE /\ Commit(Output([tcb EXCEPT !.buf = @ \o Bytes(wrote, n)], FALSE))
                /\ wrote' = wrote + n
                /\ Become(t, IF n = call[t].left THEN NoCall
                             ELSE Entered("write", call[t].left - n))
    /\ UNCHANGED <<listed, owed, dropped, got, eof, peer>>

\* wait_current_until.
Wait(t) ==
    /\ call[t].pc = "wait"
    /\ Become(t, IF call[t].fresh THEN [call[t] EXCEPT !.pc = "blocked"]
                 ELSE Entered(call[t].op, call[t].left))
    /\ UNCHANGED <<tcb, listed, owed, dropped, wrote, got, eof, sent, peer>>

\* Drop for TcpSocket: the last descriptor is closed, no call is using it.
Drop ==
    /\ ~dropped /\ \A t \in Threads : call[t] = NoCall
    /\ dropped' = TRUE
    /\ LET r == [tcb EXCEPT !.userClosed = TRUE, !.rbuf = <<>>]
           closed == IF r.state = "SynSent" THEN [r EXCEPT !.state = "Closed"]
                     ELSE IF r.state \in {"Established", "CloseWait"}
                     THEN Output([r EXCEPT !.finQueued = TRUE], FALSE) ELSE r
       IN  /\ Commit(closed)
           /\ listed' = (listed /\ closed.state # "Closed")
    /\ UNCHANGED <<user, owed, peer>>

----------------------------------------------------------------------------
(* handle_incoming and on_timer, run by net::poll on any CPU.              *)

Receive(p, s) ==
    /\ p \notin owed /\ listed
    /\ Commit(OnSegment(tcb, s)) /\ owed' = owed \cup {p}
    /\ UNCHANGED <<listed, user, dropped, peer>>

Timer(p) ==
    /\ p \notin owed /\ listed /\ tcb.armed
    /\ Commit(OnTimer(tcb)) /\ owed' = owed \cup {p}
    /\ UNCHANGED <<listed, user, dropped, peer>>

\* wake_waiters, and remove if the connection is over.
Woken(c) ==
    IF c.pc = "blocked" THEN Entered(c.op, c.left) ELSE [c EXCEPT !.fresh = FALSE]

Wake(p) ==
    /\ p \in owed /\ owed' = owed \ {p}
    /\ call' = [t \in Threads |-> Woken(call[t])]
    /\ listed' = (listed /\ tcb.state # "Closed")
    /\ UNCHANGED <<tcb, dropped, wrote, got, eof, sent, peer>>

Call(t) == ConnectCheck(t) \/ ReadCheck(t) \/ WriteCheck(t) \/ Wait(t)

Next ==
    \/ \E t \in Threads : Call(t) \/ Connect(t) \/ Read(t) \/ \E n \in 1 .. Out : Write(t, n)
    \/ Drop
    \/ \E p \in Pollers : Timer(p) \/ Wake(p) \/ \E s \in PeerSegments : Receive(p, s)
    \/ PeerSyn \/ PeerReset \/ \E s \in sent : PeerReceive(s)

Spec == Init /\ [][Next]_vars

\* Nothing is assumed of the peer or of the network.  Every poll runs the
\* timer before it looks at a segment, and segments do not put off a
\* deadline unless they acknowledge something new.  This is strong fairness
\* of Timer and weak fairness of Wake and Call, with the condition that
\* enables each written out.
TimerDue(p) == p \notin owed /\ listed /\ tcb.armed
InCall(t) == call[t].pc \in {"check", "wait"}
Fairness ==
    /\ \A p \in Pollers : /\ <>[](~TimerDue(p)) \/ []<><<Timer(p)>>_vars
                          /\ []<>(p \notin owed) \/ []<><<Wake(p)>>_vars
    /\ \A t \in Threads : []<>(~InCall(t)) \/ []<><<Call(t)>>_vars

FairSpec == Spec /\ Fairness

----------------------------------------------------------------------------
(* Properties.                                                             *)

Live == {"SynSent", "FinWait2"} \cup Sending

\* The kind of every variable; the buffers stay within their capacities.
TypeOK ==
    /\ tcb.state \in Live \cup {"Idle", "Closed"}
    /\ {tcb.una, tcb.nxt, tcb.max, tcb.rcvNxt} \subseteq 0 .. (SeqSpace - 1)
    /\ Len(tcb.buf) <= SendCap /\ Len(tcb.rbuf) <= RecvCap
    /\ tcb.retries \in 0 .. (MaxRetries + 1) /\ tcb.tx = {}
    /\ owed \subseteq Pollers /\ wrote \in 0 .. Out

\* The peer receives the bytes write accepted, in order, without a gap or a
\* repetition, whatever is retransmitted and however it arrives (output and
\* on_timer going back to snd_una).
PeerGetsStream == IsPrefix(peer.got, wrote)

\* A FIN ends the stream after the last byte written ("Closing the last
\* descriptor sends a FIN after queued data", docs/syscall.md).
FinAfterData == peer.fin => dropped /\ Len(peer.got) = wrote

\* read returns the bytes of the peer in order and once each, although
\* segments out of order are dropped and full buffers take part of one.
ReaderGetsStream == IsPrefix(got \o tcb.rbuf, In)

\* read reports the end of the stream only when everything has been read.
EofMeansComplete == eof => Len(got) = In

\* Both directions together.
Streams == PeerGetsStream /\ FinAfterData /\ ReaderGetsStream /\ EofMeansComplete

\* send_buf holds exactly what the peer has not acknowledged, and the send
\* cursor is between snd_una and snd_max.
Unacked == Distance(Plus(Iss, 1), tcb.una)
SendBufferExact ==
    tcb.state \in Sending =>
        /\ tcb.buf = Bytes(Unacked, Len(tcb.buf))
        /\ tcb.finAcked \/ Unacked + Len(tcb.buf) = wrote
        /\ SeqLe(tcb.una, tcb.nxt) /\ SeqLe(tcb.nxt, tcb.max)

\* While something is outstanding a deadline is set: a lost segment, a lost
\* window update or a peer that stays silent cannot leave the connection
\* waiting forever (arm, on_segment, on_timer).
RetransmitArmed ==
    tcb.state \in Live =>
        \/ tcb.armed
        \/ /\ tcb.state \notin {"SynSent", "FinWait2"} /\ tcb.una = tcb.max
           /\ tcb.buf = <<>> /\ (tcb.finQueued => tcb.finAcked)

\* A thread blocks only while the control block has nothing for it, unless
\* its wakeup is on the way (the generation read before the look).
HasWork(c) ==
    CASE c.op = "connect" -> tcb.state # "SynSent"
      [] c.op = "read" -> tcb.rbuf # <<>> \/ tcb.peerFin \/ tcb.state = "Closed"
      [] c.op = "write" -> Len(tcb.buf) < SendCap \/ ~Writable
      [] OTHER -> FALSE
NoLostWakeup ==
    \A t \in Threads : call[t].pc = "blocked" /\ HasWork(call[t]) => owed # {}

\* A window the peer was told is closed does not stay so once the reader has
\* made room (read's window update).
WindowReopened ==
    tcb.state \in Live \ {"SynSent"} /\ ~tcb.userClosed =>
        tcb.adv >= RecvCap \div 2 \/ Room(tcb) < RecvCap \div 2

\* New data goes out only within the peer's window, a probe of one byte
\* excepted (output).
WindowRespected ==
    [][tcb'.max # tcb.max /\ tcb'.finSeq = tcb.finSeq /\ tcb.state # "Idle"
        => Distance(tcb'.una, tcb'.max) <= Max({1, tcb'.wnd})]_vars

\* A closed connection goes away, whatever the peer does or does not answer,
\* unless the peer keeps announcing a closed window (MAX_RETRIES,
\* FIN_WAIT2_TIMEOUT).
CloseEnds == dropped ~> ~listed

\* connect and write return (after 6 retries with an error).
ConnectReturns == \A t \in Threads : call[t].op = "connect" ~> call[t].op # "connect"
WriteReturns == \A t \in Threads : call[t].op = "write" ~> call[t].op # "write"

\* Whatever the peer does, connect and write return and a closed connection
\* goes away.
CallsReturn == CloseEnds /\ ConnectReturns /\ WriteReturns
=============================================================================
