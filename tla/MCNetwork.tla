----------------------------- MODULE MCNetwork -----------------------------
(* Address resolution, UDP sockets and the DNS client for TLC.  They share  *)
(* no state, so a property of one of them fails in some behaviour of all    *)
(* three exactly when it fails in a behaviour in which only that one moves: *)
(* MCInit picks the one.                                                    *)
EXTENDS Arp, TLC
CONSTANT Sockets
VARIABLES
    part,
    ports, next, state, life, udpCall, udpWoken, rx,
    slot, asked, dnsCall, dnsWoken, dnsWaking, dnsResult

arp == <<cache, last, call, woken, answered, waking, result>>
udp == <<ports, next, state, life, udpCall, udpWoken, rx>>
dns == <<slot, asked, dnsCall, dnsWoken, dnsWaking, dnsResult>>

Udp == INSTANCE Udp WITH CPUs <- {CHOOSE c \in CPUs : TRUE}, Senders <- Hosts, QueueDatagrams <- 1,
                         DnsPort <- 1, EphemeralFirst <- 2, EphemeralLast <- 3, Ports <- {1, 2},
                         call <- udpCall, woken <- udpWoken
Dns == INSTANCE Dns WITH Names <- Hosts, call <- dnsCall, woken <- dnsWoken, waking <- dnsWaking,
                         result <- dnsResult

ASSUME Udp!PortAssumption

MCInit == part \in {"arp", "udp", "dns"} /\ Init /\ Udp!Init /\ Dns!Init

MCNext ==
    /\ UNCHANGED part
    /\ \/ part = "arp" /\ Next /\ UNCHANGED <<udp, dns>>
       \/ part = "udp" /\ Udp!Next /\ UNCHANGED <<arp, dns>>
       \/ part = "dns" /\ Dns!Next /\ UNCHANGED <<arp, udp>>

MCSpec == MCInit /\ [][MCNext]_<<part, arp, udp, dns>>

Symmetry == Permutations(Threads) \cup Permutations(CPUs) \cup Permutations(Sockets)
                \cup Permutations(Hosts)

\* A datagram socket is reachable under its port and under no other: ports
\* are unique, a bound socket is listed exactly once, no entry outlives its
\* socket, and a connected one holds datagrams of its peer only (bind,
\* connect, Drop, deliver).  No thread sleeps while a datagram or the DNS
\* answer it waits for is there, unless a CPU is about to wake it: the
\* generation is read before the look.  The first conjunct is the invariant
\* ArpProofs shows to be inductive.
SocketsExact ==
    /\ ArpInv
    /\ Udp!TypeOK /\ Udp!PortsUnique /\ Udp!ListedIffBound /\ Udp!OnlyFromPeer
    /\ Udp!NoLostDatagram /\ Dns!NoLostAnswer
=============================================================================
