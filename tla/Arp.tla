-------------------------------- MODULE Arp --------------------------------
(***************************************************************************)
(* Address resolution: the cache, threads that resolve a host's address    *)
(* and block for the answer, and CPUs that process ARP packets from a      *)
(* network on which any host may announce any of its addresses at any      *)
(* time, so that packets may be lost, repeated and late.                   *)
(*                                                                         *)
(* The event generation of a host's wait key is reduced to what a thread   *)
(* can tell: whether it changed since the thread read it (`woken').        *)
(***************************************************************************)
EXTENDS Integers, Sequences, SequencesExt, FiniteSets

CONSTANTS
    Threads, CPUs, Hosts, Macs,
    CacheSize   \* ARP_CACHE_SIZE

None == "none"

ASSUME NoneAssumption == None \notin Hosts \cup Macs
ASSUME CacheSizeAssumption == CacheSize \in Nat

VARIABLES
    cache,      \* valid entries, in the order of their slots
    last,       \* [Hosts -> address it announced last]
    call,       \* [Threads -> the call it is in]
    woken,      \* threads whose generation has changed since they read it
    answered,   \* threads whose host has replied since they asked
    waking,     \* [CPUs -> host whose waiters it is about to wake, or None]
    result      \* [Threads -> last result of arp_resolve]

vars == <<cache, last, call, woken, answered, waking, result>>

Idle == [at |-> "idle", ip |-> None]
NoResult == [ip |-> None, mac |-> None, timeout |-> FALSE]

Init ==
    /\ cache = <<>> /\ last = [h \in Hosts |-> None]
    /\ call = [t \in Threads |-> Idle]
    /\ woken = {} /\ answered = {}
    /\ waking = [c \in CPUs |-> None]
    /\ result = [t \in Threads |-> NoResult]

----------------------------------------------------------------------------
(* arp_cache_lookup and arp_cache_insert, each under the cache's lock.     *)

Entry(ip) == SelectInSeq(cache, LAMBDA e : e.ip = ip)
Lookup(ip) == IF Entry(ip) = 0 THEN None ELSE cache[Entry(ip)].mac

\* A full cache drops what it does not know.
AppendOnly(ip, mac) == Append(cache, [ip |-> ip, mac |-> mac])
Inserted(ip, mac) ==
    IF Entry(ip) # 0 THEN [cache EXCEPT ![Entry(ip)].mac = mac]
    ELSE IF Len(cache) < CacheSize THEN Append(cache, [ip |-> ip, mac |-> mac])
    ELSE cache

----------------------------------------------------------------------------
(* arp_resolve.  A thread that finds the address returns it at once.       *)

At(t, pc) == call[t].at = pc
Goto(t, pc) == call' = [call EXCEPT ![t].at = pc]
Return(t, timeout) ==
    /\ call' = [call EXCEPT ![t] = Idle]
    /\ result' = [result EXCEPT ![t] = [ip |-> call[t].ip, mac |-> Lookup(call[t].ip),
                                        timeout |-> timeout]]

Resolve(t, ip) ==
    /\ At(t, "idle")
    /\ IF Lookup(ip) # None
       THEN /\ result' = [result EXCEPT ![t] = [ip |-> ip, mac |-> Lookup(ip), timeout |-> FALSE]]
            /\ UNCHANGED call
       ELSE /\ call' = [call EXCEPT ![t] = [at |-> "sent", ip |-> ip]]
            /\ result' = [result EXCEPT ![t] = NoResult]
    /\ answered' = answered \ {t}
    /\ UNCHANGED <<cache, last, woken, waking>>

Snapshot(t) ==
    /\ At(t, "sent")
    /\ woken' = woken \ {t} /\ Goto(t, "check")
    /\ UNCHANGED <<cache, last, answered, waking, result>>

\* The second lookup closes the race between the request and the wait.
CheckNothing(t) == FALSE
CheckFinds(t) == Lookup(call[t].ip) # None
Check(t) ==
    /\ At(t, "check")
    /\ IF CheckFinds(t) THEN Return(t, FALSE) ELSE Goto(t, "wait") /\ UNCHANGED result
    /\ UNCHANGED <<cache, last, woken, answered, waking>>

\* wait_current_until: a changed generation does not wait.
Wait(t) ==
    /\ At(t, "wait")
    /\ Goto(t, IF t \in woken THEN "last" ELSE "asleep")
    /\ UNCHANGED <<cache, last, woken, answered, waking, result>>

Timeout(t) ==
    /\ At(t, "asleep") /\ Return(t, TRUE)
    /\ UNCHANGED <<cache, last, woken, answered, waking>>

LastLookup(t) ==
    /\ At(t, "last") /\ Return(t, FALSE)
    /\ UNCHANGED <<cache, last, woken, answered, waking>>

----------------------------------------------------------------------------
(* handle_incoming_packets.  A request for this host is cached and         *)
(* answered; a reply is cached and then wakes the host's waiters.          *)

Waiters(ip) == {t \in Threads : call[t].ip = ip}

HandleRequest(c, ip, mac) ==
    /\ waking[c] = None
    /\ cache' = Inserted(ip, mac) /\ last' = [last EXCEPT ![ip] = mac]
    /\ UNCHANGED <<call, woken, answered, waking, result>>

HandleReply(c, ip, mac) ==
    /\ waking[c] = None
    /\ cache' = Inserted(ip, mac) /\ last' = [last EXCEPT ![ip] = mac]
    /\ waking' = [waking EXCEPT ![c] = ip]
    /\ answered' = answered \cup Waiters(ip)
    /\ UNCHANGED <<call, woken, result>>

\* wake_arp_waiters changes the generation and readies the sleepers.
WakeArpWaiters(c) ==
    /\ waking[c] # None
    /\ waking' = [waking EXCEPT ![c] = None]
    /\ woken' = woken \cup Waiters(waking[c])
    /\ call' = [t \in Threads |->
                    IF At(t, "asleep") /\ t \in Waiters(waking[c])
                    THEN [call[t] EXCEPT !.at = "last"] ELSE call[t]]
    /\ UNCHANGED <<cache, last, answered, result>>

Next ==
    \/ \E t \in Threads : \/ \E ip \in Hosts : Resolve(t, ip)
                          \/ Snapshot(t) \/ Check(t) \/ Wait(t) \/ Timeout(t) \/ LastLookup(t)
    \/ \E c \in CPUs : \/ \E ip \in Hosts, mac \in Macs : HandleRequest(c, ip, mac)
                       \/ \E ip \in Hosts, mac \in Macs : HandleReply(c, ip, mac)
                       \/ WakeArpWaiters(c)

Spec == Init /\ [][Next]_vars

----------------------------------------------------------------------------
(* Properties.                                                             *)

\* The kind of every variable; the cache does not grow past its slots.
TypeOK ==
    /\ Len(cache) <= CacheSize
    /\ \A i \in DOMAIN cache : cache[i].ip \in Hosts /\ cache[i].mac \in Macs
    /\ \A t \in Threads : call[t].at \in {"idle", "sent", "check", "wait", "asleep", "last"}
    /\ woken \cup answered \subseteq Threads

\* A host has one entry, and it is what the host announced last, whether in
\* a request or in a reply.
CacheIsLatest ==
    /\ \A i, j \in DOMAIN cache : cache[i].ip = cache[j].ip => i = j
    /\ \A i \in DOMAIN cache : cache[i].mac = last[cache[i].ip]

\* A thread does not sleep through the reply it waits for: when the reply
\* came after the request, a CPU is still about to wake it, however the
\* request, the two lookups and the reply interleave.
NoLostReply ==
    \A t \in Threads : At(t, "asleep") /\ t \in answered =>
                           \E c \in CPUs : waking[c] = call[t].ip

\* Why no reply is lost.  A reply that has come is in the cache, or the cache
\* is full of other hosts and will never hold it; a thread that did not find
\* it and is about to sleep has a changed generation, or a CPU that is still
\* to change it.
Cached(ip) == \E i \in DOMAIN cache : cache[i].ip = ip
Dropped(ip) == ~Cached(ip) /\ Len(cache) = CacheSize
ToBeWoken(ip) == \E c \in CPUs : waking[c] = ip

ReplyInv(t) ==
    /\ call[t].at \in {"sent", "check"} => Cached(call[t].ip) \/ Dropped(call[t].ip)
    /\ At(t, "wait") => t \in woken \/ ToBeWoken(call[t].ip) \/ Dropped(call[t].ip)
    /\ At(t, "asleep") => ToBeWoken(call[t].ip) \/ Dropped(call[t].ip)

Entries == [ip : Hosts, mac : Macs]
Calls == {r \in [at : {"idle", "sent", "check", "wait", "asleep", "last"},
                 ip : Hosts \cup {None}] : r.ip = None <=> r.at = "idle"}

\* The state of the calls and of the CPUs, and all of the above.
ArpInv ==
    /\ cache \in Seq(Entries) /\ Len(cache) <= CacheSize
    /\ last \in [Hosts -> Macs \cup {None}]
    /\ call \in [Threads -> Calls]
    /\ woken \subseteq Threads /\ answered \subseteq Threads
    /\ waking \in [CPUs -> Hosts \cup {None}]
    /\ CacheIsLatest
    /\ \A t \in answered : ReplyInv(t)

\* arp_resolve returns, even when the network loses everything.
ResolveReturns == \A t \in Threads : ~At(t, "idle") ~> At(t, "idle")
=============================================================================
