-------------------------------- MODULE Udp --------------------------------
(***************************************************************************)
(* UDP sockets: the table of bound ports with its weak references, the     *)
(* sockets with their queues, threads that share them, CPUs that deliver   *)
(* datagrams, and sockets dropped while any of that goes on.               *)
(*                                                                         *)
(* A socket's strong count is 1 for its descriptor plus 1 for every call   *)
(* and every delivery that works on it.  What a thread can tell of the     *)
(* event generation is whether it changed since it was read (`woken').     *)
(***************************************************************************)
EXTENDS Integers, Sequences, SequencesExt, FiniteSets

CONSTANTS
    Threads, CPUs, Sockets, Senders,
    QueueDatagrams,     \* QUEUE_DATAGRAMS
    DnsPort,            \* dns::SRC_PORT
    EphemeralFirst, EphemeralLast,
    Ports               \* ports programs bind and datagrams are for

\* What the instances choose the constants to satisfy.
PortAssumption ==
    /\ Ports \cup {DnsPort, EphemeralFirst, EphemeralLast} \subseteq Nat \ {0}
    /\ EphemeralFirst <= EphemeralLast
    /\ DnsPort \notin EphemeralFirst .. EphemeralLast

None == "none"

VARIABLES
    ports,      \* PORTS: sequence of [port, sock]
    next,       \* NEXT_EPHEMERAL
    state,      \* [Sockets -> [port, peer, queue]]
    life,       \* [Sockets -> "unborn", "open", "closed", "dropping", "gone"]
    call,       \* [Threads -> the call it is in]
    woken,      \* threads whose generation has changed since they read it
    rx          \* [CPUs -> the delivery it is in]

vars == <<ports, next, state, life, call, woken, rx>>

Idle == [at |-> "idle", sock |-> None, arg |-> None]
NoRx == [at |-> "idle", sock |-> None, from |-> None]

Init ==
    /\ ports = <<>> /\ next = EphemeralFirst
    /\ state = [s \in Sockets |-> [port |-> 0, peer |-> None, queue |-> <<>>]]
    /\ life = [s \in Sockets |-> "unborn"]
    /\ call = [t \in Threads |-> Idle]
    /\ woken = {}
    /\ rx = [c \in CPUs |-> NoRx]

Strong(s) ==
    \/ life[s] = "open"
    \/ \E t \in Threads : call[t].sock = s
    \/ \E c \in CPUs : rx[c].sock = s

At(t, pc) == call[t].at = pc

\* The socket's last reference may go with this one.
LifeWithout(s, calls, deliveries, l) ==
    IF s # None /\ l[s] = "closed"
       /\ (\A t \in Threads : calls[t].sock # s) /\ (\A c \in CPUs : deliveries[c].sock # s)
    THEN [l EXCEPT ![s] = "dropping"] ELSE l

Return(t) ==
    /\ call' = [call EXCEPT ![t] = Idle]
    /\ life' = LifeWithout(call[t].sock, call', rx, life)

----------------------------------------------------------------------------
(* bind_port, under the locks of the table and of the socket.              *)

LivePorts == SelectSeq(ports, LAMBDA e : Strong(e.sock))
InUse(p) == p = DnsPort \/ \E i \in DOMAIN LivePorts : LivePorts[i].port = p

\* The candidates from `next' on, wrapping once around the range.
Span == EphemeralLast - EphemeralFirst + 1
Candidate(k) == EphemeralFirst + ((next - EphemeralFirst + k) % Span)
Chosen == SelectInSeq([k \in 1 .. Span |-> Candidate(k - 1)], LAMBDA p : ~InUse(p))
AfterChosen == Candidate(IF Chosen = 0 THEN Span ELSE Chosen)

BoundPort(s, p) ==
    /\ ports' = Append(LivePorts, [port |-> p, sock |-> s])
    /\ state' = [state EXCEPT ![s].port = p]
BindFails == ports' = LivePorts /\ UNCHANGED state

\* bind_port(0, _) on a socket that has no port.
BindEphemeral(s) ==
    /\ next' = AfterChosen
    /\ IF Chosen # 0 THEN BoundPort(s, Candidate(Chosen - 1)) ELSE BindFails

----------------------------------------------------------------------------
(* Calls of user threads.                                                  *)

New(s) ==
    /\ life[s] = "unborn"
    /\ life' = [life EXCEPT ![s] = "open"]
    /\ UNCHANGED <<ports, next, state, call, woken, rx>>

\* The descriptor is closed; calls in progress keep the socket.
Close(s) ==
    /\ life[s] = "open"
    /\ life' = LifeWithout(s, call, rx, [life EXCEPT ![s] = "closed"])
    /\ UNCHANGED <<ports, next, state, call, woken, rx>>

Bind(t, s, p) ==
    /\ At(t, "idle") /\ life[s] = "open"
    /\ IF state[s].port # 0 THEN BindFails /\ UNCHANGED next
       ELSE IF p = 0 THEN BindEphemeral(s)
       ELSE (IF InUse(p) THEN BindFails ELSE BoundPort(s, p)) /\ UNCHANGED next
    /\ UNCHANGED <<life, call, woken, rx>>

\* connect and send_to: ensure_bound reads the port, unlocks, and binds.
Start(t, s, at, arg) ==
    /\ At(t, "idle") /\ life[s] = "open"
    /\ call' = [call EXCEPT ![t] = [at |-> at, sock |-> s, arg |-> arg]]
    /\ UNCHANGED <<ports, next, state, life, woken, rx>>

Connect(t, s, peer) ==
    Start(t, s, IF state[s].port = 0 THEN "bind" ELSE "peer", peer)
SendTo(t, s) == state[s].port = 0 /\ Start(t, s, "bind", None)

\* Another thread may have bound the socket since: it keeps its port.
AlreadyBound(s) == state[s].port # 0
BindImplicit(t) ==
    /\ At(t, "bind")
    /\ LET s == call[t].sock
       IN  /\ IF AlreadyBound(s) THEN BindFails /\ UNCHANGED next ELSE BindEphemeral(s)
           /\ IF call[t].arg # None /\ (AlreadyBound(s) \/ Chosen # 0)
              THEN call' = [call EXCEPT ![t].at = "peer"] /\ UNCHANGED life
              ELSE Return(t)
    /\ UNCHANGED <<woken, rx>>

RetainAll(q, peer) == q
Retained(q, peer) == SelectSeq(q, LAMBDA from : from = peer)
SetPeer(t) ==
    /\ At(t, "peer")
    /\ LET s == call[t].sock
       IN  state' = [state EXCEPT ![s].peer = call[t].arg,
                                  ![s].queue = Retained(@, call[t].arg)]
    /\ Return(t)
    /\ UNCHANGED <<ports, next, woken, rx>>

----------------------------------------------------------------------------
(* recv_from, with a timeout or without.                                   *)

RecvFrom(t, s, timed) == Start(t, s, "snapshot", timed)

Snapshot(t) ==
    /\ At(t, "snapshot")
    /\ woken' = woken \ {t}
    /\ call' = [call EXCEPT ![t].at = "look"]
    /\ UNCHANGED <<ports, next, state, life, rx>>

Look(t) ==
    /\ At(t, "look")
    /\ LET s == call[t].sock
       IN  IF state[s].port # 0 /\ state[s].queue = <<>>
           THEN call' = [call EXCEPT ![t].at = "wait"] /\ UNCHANGED <<state, life>>
           ELSE /\ state' = IF state[s].port = 0 THEN state
                            ELSE [state EXCEPT ![s].queue = Tail(@)]
                /\ Return(t)
    /\ UNCHANGED <<ports, next, woken, rx>>

\* wait_current_until; a changed generation does not wait.
Sleeps(t) == t \notin woken
Wait(t) ==
    /\ At(t, "wait")
    /\ call' = [call EXCEPT ![t].at = IF Sleeps(t) THEN "asleep" ELSE "snapshot"]
    /\ UNCHANGED <<ports, next, state, life, woken, rx>>

\* The deadline ends the wait, or is found to have passed before it.
Expired(t) == call[t].arg = "timed"
TimedOut(t) ==
    /\ At(t, "wait") \/ At(t, "asleep")
    /\ Expired(t)
    /\ \/ At(t, "wait") /\ Return(t)
       \/ At(t, "asleep") /\ call' = [call EXCEPT ![t].at = "late"] /\ UNCHANGED life
    /\ UNCHANGED <<ports, next, state, woken, rx>>

\* Woken by the clock the call looks once more before it gives up.
LookLate(t) ==
    /\ At(t, "late")
    /\ LET s == call[t].sock
       IN  state' = IF state[s].queue = <<>> THEN state
                    ELSE [state EXCEPT ![s].queue = Tail(@)]
    /\ Return(t)
    /\ UNCHANGED <<ports, next, woken, rx>>

----------------------------------------------------------------------------
(* handle_incoming: find the socket and hold it, queue, wake, let go.      *)

Deliver(c, p, from) ==
    /\ rx[c].at = "idle" /\ p # DnsPort
    /\ \E i \in DOMAIN ports :
         /\ ports[i].port = p /\ \A j \in 1 .. i - 1 : ports[j].port # p
         /\ Strong(ports[i].sock)
         /\ rx' = [rx EXCEPT ![c] = [at |-> "queue", sock |-> ports[i].sock, from |-> from]]
    /\ UNCHANGED <<ports, next, state, life, call, woken>>

Accepts(s, from) ==
    /\ state[s].peer \in {None, from}
    /\ Len(state[s].queue) < QueueDatagrams
Queue(c) ==
    /\ rx[c].at = "queue"
    /\ LET s == rx[c].sock
       IN  IF Accepts(s, rx[c].from)
           THEN /\ state' = [state EXCEPT ![s].queue = Append(@, rx[c].from)]
                /\ rx' = [rx EXCEPT ![c].at = "wake"]
           ELSE UNCHANGED state /\ rx' = [rx EXCEPT ![c].at = "release"]
    /\ UNCHANGED <<ports, next, life, call, woken>>

WakeWaiters(c) ==
    /\ rx[c].at = "wake"
    /\ LET S == {t \in Threads : call[t].sock = rx[c].sock}
       IN  /\ woken' = woken \cup S
           /\ call' = [t \in Threads |-> IF t \in S /\ At(t, "asleep")
                                         THEN [call[t] EXCEPT !.at = "snapshot"] ELSE call[t]]
    /\ rx' = [rx EXCEPT ![c].at = "release"]
    /\ UNCHANGED <<ports, next, state, life>>

Release(c) ==
    /\ rx[c].at = "release"
    /\ rx' = [rx EXCEPT ![c] = NoRx]
    /\ life' = LifeWithout(rx[c].sock, call, rx', life)
    /\ UNCHANGED <<ports, next, state, call, woken>>

\* Drop takes the socket out of the table, if it is still there.
DropSocket(s) ==
    /\ life[s] = "dropping"
    /\ life' = [life EXCEPT ![s] = "gone"]
    /\ ports' = SelectSeq(ports, LAMBDA e : e.sock # s)
    /\ state' = [state EXCEPT ![s] = [port |-> 0, peer |-> None, queue |-> <<>>]]
    /\ UNCHANGED <<next, call, woken, rx>>

Next ==
    \/ \E s \in Sockets : New(s) \/ Close(s) \/ DropSocket(s)
    \/ \E t \in Threads :
         \/ \E s \in Sockets : \/ \E p \in Ports \cup {0} : Bind(t, s, p)
                               \/ \E peer \in Senders : Connect(t, s, peer)
                               \/ SendTo(t, s)
                               \/ \E timed \in {"timed", "forever"} : RecvFrom(t, s, timed)
         \/ BindImplicit(t) \/ SetPeer(t) \/ Snapshot(t) \/ Look(t) \/ Wait(t)
         \/ TimedOut(t) \/ LookLate(t)
    \/ \E c \in CPUs : \/ \E p \in Ports, from \in Senders : Deliver(c, p, from)
                       \/ Queue(c) \/ WakeWaiters(c) \/ Release(c)

Spec == Init /\ [][Next]_vars

----------------------------------------------------------------------------
(* Properties.                                                             *)

\* The kind of every variable; a queue holds at most QueueDatagrams ("Each
\* socket queues at most 16 datagrams; more are dropped").
TypeOK ==
    /\ next \in EphemeralFirst .. EphemeralLast
    /\ \A s \in Sockets : /\ state[s].port \in Nat
                          /\ Len(state[s].queue) <= QueueDatagrams
                          /\ life[s] \in {"unborn", "open", "closed", "dropping", "gone"}

\* No two sockets in use have one port, and none has the DNS client's, also
\* when a port is taken over from a socket whose Drop has not run yet.
PortsUnique ==
    \A s \in Sockets : Strong(s) /\ state[s].port # 0 =>
        /\ state[s].port # DnsPort
        /\ \A r \in Sockets \ {s} : Strong(r) => state[r].port # state[s].port

\* A socket in use has a port exactly when the table lists it, once, so that
\* datagrams for the port reach it and no entry outlives its socket.
ListedIffBound ==
    \A s \in Sockets :
        LET E == {i \in DOMAIN ports : ports[i].sock = s}
        IN  /\ Strong(s) => IF state[s].port = 0 THEN E = {}
                            ELSE \E i \in E : E = {i} /\ ports[i].port = state[s].port
            /\ life[s] = "gone" => E = {}

\* A connected socket holds datagrams of its peer only, whatever arrived
\* before, during and after connect.
OnlyFromPeer ==
    \A s \in Sockets : state[s].peer # None =>
        \A i \in DOMAIN state[s].queue : state[s].queue[i] = state[s].peer

\* A receiver does not sleep while a datagram is queued, unless the CPU that
\* queued it is about to wake it.
NoLostDatagram ==
    \A t \in Threads : At(t, "asleep") /\ state[call[t].sock].queue # <<>> =>
        \E c \in CPUs : rx[c].at = "wake" /\ rx[c].sock = call[t].sock

=============================================================================
