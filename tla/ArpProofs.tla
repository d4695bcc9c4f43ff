----------------------------- MODULE ArpProofs -----------------------------
(***************************************************************************)
(* Proofs about address resolution, for any number of threads, CPUs, hosts *)
(* and cache slots: the cache holds what a host announced last, and a      *)
(* thread does not sleep through the reply it waits for.                   *)
(***************************************************************************)
EXTENDS Arp, TLAPS, FiniteSetTheorems, WellFoundedInduction

\* A set of natural numbers has a least element, the one Min names.
LEMMA MinIn ==
    ASSUME NEW S \in SUBSET Nat, S # {}
    PROVE  Min(S) \in S
<1>1. \E x \in S : \A y \in S : ~ (<<y, x>> \in OpToRel(<, Nat))
  BY Zenon, NatLessThanWellFounded, WFMin
<1>2. OpToRel(<, Nat) = {ss \in Nat \X Nat : ss[1] < ss[2]}
  BY Zenon DEF OpToRel
<1>3. PICK x \in S : \A y \in S : ~ (<<y, x>> \in {ss \in Nat \X Nat : ss[1] < ss[2]})
  BY <1>1, <1>2, Zenon
<1>4. ASSUME NEW y \in S PROVE x <= y
  <2>1. ~ (<<y, x>> \in {ss \in Nat \X Nat : ss[1] < ss[2]})
    BY <1>3, Zenon
  <2>2. x \in Nat /\ y \in Nat
    OBVIOUS
  <2>3. ~ (y < x)
    BY <2>1, <2>2
  <2>4. QED
    BY <2>2, <2>3
<1>5. QED
  BY Zenon, <1>4 DEF Min

\* arp_cache_lookup finds the host's entry if there is one.
LEMMA EntryFound ==
    ASSUME ArpInv, NEW ip
    PROVE  /\ Cached(ip) => /\ Entry(ip) \in 1 .. Len(cache) /\ cache[Entry(ip)].ip = ip
                            /\ Lookup(ip) \in Macs
           /\ ~Cached(ip) => Entry(ip) = 0 /\ Lookup(ip) = None
<1> DEFINE I == {i \in 1 .. Len(cache) : cache[i].ip = ip}
<1>0. cache \in Seq(Entries)
  BY DEF ArpInv
<1>1. DOMAIN cache = 1 .. Len(cache) /\ \A i \in 1 .. Len(cache) : cache[i].mac \in Macs
  <2>1. \A i \in 1 .. Len(cache) : cache[i] \in Entries
    BY <1>0
  <2>2. DOMAIN cache = 1 .. Len(cache)
    BY <1>0
  <2>3. QED
    BY <2>1, <2>2 DEF Entries
<1>2. Entry(ip) = IF I # {} THEN Min(I) ELSE 0
  BY DEF Entry, SelectInSeq
<1>3. I # {} => Min(I) \in I
  <2>1. I \in SUBSET Nat
    BY <1>1 DEF ArpInv
  <2>2. QED
    BY Zenon, <2>1, MinIn
<1>4. Cached(ip) <=> I # {}
  BY <1>1 DEF Cached
<1>5. \A i \in I : i \in 1 .. Len(cache) /\ i # 0 /\ cache[i].ip = ip
  BY DEF ArpInv
<1> HIDE DEF I
<1>6. CASE Cached(ip)
  BY <1>1, <1>2, <1>3, <1>4, <1>5, <1>6 DEF Lookup
<1>7. CASE ~Cached(ip)
  BY <1>2, <1>4, <1>7 DEF Lookup
<1>8. QED
  BY <1>6, <1>7

\* arp_cache_insert keeps one entry to a host, the latest; no entry is ever
\* removed, and only a full cache drops what it is given.
LEMMA InsertedRight ==
    ASSUME ArpInv, NEW ip \in Hosts, NEW mac \in Macs,
           cache' = Inserted(ip, mac), last' = [last EXCEPT ![ip] = mac]
    PROVE  /\ cache' \in Seq(Entries) /\ Len(cache') <= CacheSize
           /\ last' \in [Hosts -> Macs \cup {None}]
           /\ CacheIsLatest'
           /\ Cached(ip)' \/ Dropped(ip)'
           /\ \A h : (Cached(h) => Cached(h)') /\ (Dropped(h) => Dropped(h)')
<1>0. /\ cache \in Seq(Entries) /\ Len(cache) <= CacheSize
      /\ last \in [Hosts -> Macs \cup {None}] /\ CacheSize \in Nat
  BY CacheSizeAssumption DEF ArpInv
<1>1. /\ cache \in Seq(Entries) /\ Len(cache) <= CacheSize
      /\ last \in [Hosts -> Macs \cup {None}] /\ CacheSize \in Nat
      /\ DOMAIN cache = 1 .. Len(cache) /\ Len(cache) \in Nat
      /\ \A i \in 1 .. Len(cache) : cache[i] \in Entries
  <2>1. \A i \in 1 .. Len(cache) : cache[i] \in Entries
    BY <1>0
  <2>2. DOMAIN cache = 1 .. Len(cache) /\ Len(cache) \in Nat
    BY <1>0
  <2>3. QED
    BY <1>0, <2>1, <2>2, Zenon
<1>2. /\ \A i, j \in 1 .. Len(cache) : cache[i].ip = cache[j].ip => i = j
      /\ \A i \in 1 .. Len(cache) : cache[i].mac = last[cache[i].ip]
  BY SMTT(30), <1>1 DEF ArpInv, CacheIsLatest
<1>3. CASE Cached(ip)
  <2> DEFINE e == Entry(ip)
  <2>1. e \in 1 .. Len(cache) /\ cache[e].ip = ip /\ e # 0
    BY <1>1, <1>3, EntryFound
  <2> DEFINE new == [cache[e] EXCEPT !.mac = mac]
  <2>2. cache' = [cache EXCEPT ![e] = new]
    BY <2>1 DEF Inserted
  <2> HIDE DEF e
  <2>3a. cache[e] \in Entries
    BY <1>1, <2>1
  <2>3b. new \in Entries /\ new.ip = ip /\ new.mac = mac
    BY <2>1, <2>3a DEF Entries
  <2> HIDE DEF new
  <2>3c. /\ cache' \in Seq(Entries) /\ Len(cache') = Len(cache)
         /\ DOMAIN cache' = 1 .. Len(cache)
         /\ \A i \in 1 .. Len(cache) \ {e} : cache'[i] = cache[i]
         /\ cache'[e] = new
    BY <1>1, <2>1, <2>2, <2>3b
  <2>3. /\ cache' \in Seq(Entries) /\ Len(cache') = Len(cache)
        /\ DOMAIN cache' = 1 .. Len(cache)
        /\ \A i \in 1 .. Len(cache) : cache'[i].ip = cache[i].ip
        /\ \A i \in 1 .. Len(cache) \ {e} : cache'[i].mac = cache[i].mac
        /\ cache'[e].mac = mac
    BY <2>1, <2>3b, <2>3c
  <2>4. last'[ip] = mac /\ \A h \in Hosts \ {ip} : last'[h] = last[h]
    BY <1>1
  <2>5. CacheIsLatest'
    <3>1. \A i, j \in DOMAIN cache' : cache'[i].ip = cache'[j].ip => i = j
      BY <1>2, <2>3
    <3>2. ASSUME NEW i \in DOMAIN cache' PROVE cache'[i].mac = last'[cache'[i].ip]
      <4>1. CASE i = e
        BY <2>1, <2>3, <2>4, <4>1
      <4>2. CASE i # e
        <5>1. i \in 1 .. Len(cache) \ {e} /\ cache[i].ip \in Hosts
          BY <1>1, <2>3, <4>2 DEF Entries
        <5>2. cache[i].ip # ip
          BY <1>2, <2>1, <4>2, <5>1
        <5>3. QED
          BY SMTT(30), <1>2, <2>3, <2>4, <5>1, <5>2
      <4>3. QED
        BY <4>1, <4>2
    <3>3. QED
      BY <3>1, <3>2 DEF CacheIsLatest
  <2>6. \A h : Cached(h) <=> Cached(h)'
    BY <1>1, <2>3 DEF Cached
  <2>7. QED
    BY Zenon, <1>1, <1>3, <2>3, <2>5, <2>6 DEF Dropped
<1>4. CASE ~Cached(ip) /\ Len(cache) < CacheSize
  <2> DEFINE new == [ip |-> ip, mac |-> mac]
             n == Len(cache)
  <2>1. cache' = Append(cache, new)
    BY <1>4, EntryFound DEF Inserted
  <2>2a. new \in Entries
    BY DEF Entries
  <2>6. new.ip = ip /\ new.mac = mac
    OBVIOUS
  <2> HIDE DEF new
  <2>2. /\ cache' \in Seq(Entries) /\ Len(cache') = n + 1
        /\ DOMAIN cache' = 1 .. n + 1
        /\ \A i \in 1 .. n : cache'[i] = cache[i]
        /\ cache'[n + 1] = new
    BY <1>1, <2>1, <2>2a
  <2>3. last'[ip] = mac /\ \A h \in Hosts \ {ip} : last'[h] = last[h]
    BY <1>1
  <2>4. \A i \in 1 .. n : cache[i].ip \in Hosts \ {ip}
    BY <1>1, <1>4 DEF Cached, Entries
  <2>5. \A i \in 1 .. n + 1 : i \in 1 .. n \/ i = n + 1
    BY <1>1
  <2>7. CacheIsLatest'
    <3>1. \A i, j \in DOMAIN cache' : cache'[i].ip = cache'[j].ip => i = j
      BY SMTT(30), <1>2, <2>2, <2>4, <2>5, <2>6
    <3>2. \A i \in DOMAIN cache' : cache'[i].mac = last'[cache'[i].ip]
      BY SMTT(30), <1>2, <2>2, <2>3, <2>4, <2>5, <2>6
    <3>3. QED
      BY <3>1, <3>2 DEF CacheIsLatest
  <2>8. Cached(ip)'
    BY <1>1, <2>2, <2>6 DEF Cached
  <2>9. ASSUME NEW h, Cached(h) PROVE Cached(h)'
    BY <1>1, <2>2, <2>9 DEF Cached
  <2>10. \A h : ~Dropped(h)
    <3>1. Len(cache) \in Nat /\ CacheSize \in Nat /\ Len(cache) < CacheSize
      BY <1>1, <1>4, Zenon
    <3>2. Len(cache) # CacheSize
      BY <3>1
    <3>3. QED
      BY <3>2, Zenon DEF Dropped
  <2>11. QED
    BY SMTT(30), <1>1, <1>4, <2>2, <2>7, <2>8, <2>9, <2>10
<1>5. CASE ~Cached(ip) /\ ~(Len(cache) < CacheSize)
  <2>1. cache' = cache /\ Len(cache) = CacheSize
    BY <1>1, <1>5, EntryFound DEF Inserted
  <2>2. \A i \in 1 .. Len(cache) : cache[i].ip \in Hosts \ {ip}
    BY <1>1, <1>5 DEF Cached, Entries
  <2>3. \A h \in Hosts \ {ip} : last'[h] = last[h]
    BY <1>1
  <2>4. CacheIsLatest'
    BY <1>1, <1>2, <2>1, <2>2, <2>3 DEF CacheIsLatest
  <2>5. \A h : (Cached(h) <=> Cached(h)') /\ (Dropped(h) <=> Dropped(h)')
    BY <2>1 DEF Cached, Dropped
  <2>6. QED
    BY <1>1, <1>5, <2>1, <2>4, <2>5 DEF Dropped
<1>6. QED
  BY <1>3, <1>4, <1>5

\* A step of thread t that moves it to the call r preserves the invariant if
\* what it must know of its reply is true of r.
LEMMA ThreadStep ==
    ASSUME ArpInv, NEW t \in Threads, NEW r \in Calls,
           call' = [call EXCEPT ![t] = r], UNCHANGED <<cache, last, waking>>,
           woken' \in {woken, woken \ {t}}, answered' \in {answered, answered \ {t}},
           t \in answered' => ReplyInv(t)'
    PROVE  ArpInv'
<1>1. /\ cache' \in Seq(Entries) /\ Len(cache') <= CacheSize
      /\ last' \in [Hosts -> Macs \cup {None}] /\ waking' \in [CPUs -> Hosts \cup {None}]
  BY Zenon DEF ArpInv
<1>2. CacheIsLatest'
  BY Zenon DEF ArpInv, CacheIsLatest
<1>3. call \in [Threads -> Calls] /\ woken \subseteq Threads /\ answered \subseteq Threads
  BY Zenon DEF ArpInv
<1>4. call' \in [Threads -> Calls] /\ woken' \subseteq Threads /\ answered' \subseteq Threads
  BY <1>3
<1>5. ASSUME NEW u \in answered' PROVE ReplyInv(u)'
  <2>1. CASE u = t
    BY <1>5, <2>1, Zenon
  <2>2. CASE u # t
    <3>1. u \in answered /\ call'[u] = call[u] /\ (u \in woken => u \in woken')
      BY <1>3, <2>2
    <3>2. ReplyInv(u)
      BY <3>1, Zenon DEF ArpInv
    <3>3. \A h : (Cached(h)' <=> Cached(h)) /\ (Dropped(h)' <=> Dropped(h))
                /\ (ToBeWoken(h)' <=> ToBeWoken(h))
      BY Zenon DEF Cached, Dropped, ToBeWoken
    <3>4. QED
      BY <3>1, <3>2, <3>3, Zenon DEF ReplyInv, At
  <2>3. QED
    BY <2>1, <2>2
<1>6. QED
  BY <1>1, <1>2, <1>4, <1>5, Zenon DEF ArpInv

\* The steps of arp_resolve.
LEMMA ThreadSteps ==
    ASSUME ArpInv, NEW t \in Threads,
           \/ \E ip \in Hosts : Resolve(t, ip)
           \/ Snapshot(t) \/ Check(t) \/ Wait(t) \/ Timeout(t) \/ LastLookup(t)
    PROVE  ArpInv'
<1>1. /\ call \in [Threads -> Calls] /\ call[t] \in Calls
      /\ woken \subseteq Threads /\ answered \subseteq Threads
  BY DEF ArpInv
<1>2. Idle \in Calls /\ Idle.at = "idle"
  BY DEF Idle, Calls
<1>3. ASSUME Return(t, TRUE) \/ Return(t, FALSE), UNCHANGED <<cache, last, woken, answered, waking>>
      PROVE  ArpInv'
  <2>1. call' = [call EXCEPT ![t] = Idle]
    BY <1>3, Zenon DEF Return
  <2>2. call'[t].at = "idle"
    BY <1>1, <1>2, <2>1
  <2>3. ReplyInv(t)'
    BY <2>2 DEF ReplyInv, At
  <2>4. QED
    BY <1>2, <1>3, <2>1, <2>3, ThreadStep, Zenon
<1>4. ASSUME NEW pc \in {"check", "wait", "asleep", "last"}, ~At(t, "idle")
      PROVE  /\ [call[t] EXCEPT !.at = pc] \in Calls
             /\ Goto(t, pc) => /\ call' = [call EXCEPT ![t] = [call[t] EXCEPT !.at = pc]]
                               /\ call'[t].at = pc /\ call'[t].ip = call[t].ip
  BY <1>1, <1>4 DEF Calls, Goto, At
<1>5. ASSUME NEW pc \in {"check", "wait", "asleep", "last"}, ~At(t, "idle"), Goto(t, pc),
             UNCHANGED <<cache, last, answered, waking>>, woken' \in {woken, woken \ {t}},
             t \in answered => ReplyInv(t)'
      PROVE  ArpInv'
  BY <1>4, <1>5, ThreadStep, Zenon
<1>7. t \in answered => ReplyInv(t)
  BY Zenon DEF ArpInv
<1>8. ASSUME NEW ip \in Hosts, Resolve(t, ip) PROVE ArpInv'
  <2>1. CASE UNCHANGED call
    <3>1. call' = [call EXCEPT ![t] = call[t]]
      BY <1>1, <2>1
    <3>2. answered' = answered \ {t} /\ UNCHANGED <<cache, last, woken, waking>>
      BY <1>8, Zenon DEF Resolve
    <3>3. t \notin answered'
      BY <3>2
    <3>4. QED
      BY <1>1, <3>1, <3>2, <3>3, ThreadStep, Zenon
  <2>2. CASE call' = [call EXCEPT ![t] = [at |-> "sent", ip |-> ip]]
    <3>1. [at |-> "sent", ip |-> ip] \in Calls
      BY NoneAssumption DEF Calls
    <3>2. answered' = answered \ {t} /\ UNCHANGED <<cache, last, woken, waking>>
      BY <1>8, Zenon DEF Resolve
    <3>3. t \notin answered'
      BY <3>2
    <3>4. QED
      BY <2>2, <3>1, <3>2, <3>3, ThreadStep, Zenon
  <2>3. QED
    BY <1>8, <2>1, <2>2, Zenon DEF Resolve
<1>9. CASE Snapshot(t)
  <2>1. /\ At(t, "sent") /\ ~At(t, "idle") /\ woken' = woken \ {t} /\ Goto(t, "check")
        /\ UNCHANGED <<cache, last, answered, waking>>
    BY <1>9 DEF Snapshot, At
  <2>2. call'[t].at = "check" /\ call'[t].ip = call[t].ip
    BY <1>4, <2>1
  <2>3. t \in answered => ReplyInv(t)'
    BY <1>7, <2>1, <2>2 DEF ReplyInv, At, Cached, Dropped
  <2>4. QED
    BY <1>5, <2>1, <2>3
<1>10. CASE Check(t)
  <2>1. CASE CheckFinds(t)
    BY <1>3, <1>10, <2>1, Zenon DEF Check
  <2>2. CASE ~CheckFinds(t)
    <3>1. /\ At(t, "check") /\ ~At(t, "idle") /\ Goto(t, "wait")
          /\ UNCHANGED <<cache, last, woken, answered, waking>>
      BY <1>10, <2>2 DEF Check, At
    <3>2. call'[t].at = "wait" /\ call'[t].ip = call[t].ip
      BY <1>4, <3>1
    <3>3. ~Cached(call[t].ip)
      BY <2>2, EntryFound, NoneAssumption DEF CheckFinds
    <3>4. t \in answered => ReplyInv(t)'
      BY <1>7, <3>1, <3>2, <3>3 DEF ReplyInv, At, Cached, Dropped
    <3>5. QED
      BY <1>5, <3>1, <3>4
  <2>3. QED
    BY <2>1, <2>2
<1>11. CASE Wait(t)
  <2> DEFINE pc == IF t \in woken THEN "last" ELSE "asleep"
  <2>1. /\ At(t, "wait") /\ ~At(t, "idle") /\ Goto(t, pc)
        /\ UNCHANGED <<cache, last, woken, answered, waking>>
    BY <1>11 DEF Wait, At
  <2>2. pc \in {"check", "wait", "asleep", "last"}
    OBVIOUS
  <2>3. call'[t].at = pc /\ call'[t].ip = call[t].ip
    BY SMTT(30), <1>4, <2>1, <2>2
  <2>4. t \in answered => ReplyInv(t)'
    BY <1>7, <2>1, <2>3 DEF ReplyInv, At, Cached, Dropped, ToBeWoken
  <2>5. QED
    BY SMTT(30), <1>5, <2>1, <2>2, <2>4
<1>12. CASE Timeout(t)
  BY <1>3, <1>12, Zenon DEF Timeout
<1>13. CASE LastLookup(t)
  BY <1>3, <1>13, Zenon DEF LastLookup
<1>14. QED
  BY SMTT(30), <1>8, <1>9, <1>10, <1>11, <1>12, <1>13

\* handle_incoming_packets for a request, a reply, and the wake-up after one.
LEMMA RequestStep ==
    ASSUME ArpInv, NEW c \in CPUs, NEW ip \in Hosts, NEW mac \in Macs, HandleRequest(c, ip, mac)
    PROVE  ArpInv'
<1>1. /\ cache' = Inserted(ip, mac) /\ last' = [last EXCEPT ![ip] = mac]
      /\ UNCHANGED <<call, woken, answered, waking>>
  BY Zenon DEF HandleRequest
<1>2. /\ cache' \in Seq(Entries) /\ Len(cache') <= CacheSize
      /\ last' \in [Hosts -> Macs \cup {None}] /\ CacheIsLatest'
      /\ \A h : (Cached(h) => Cached(h)') /\ (Dropped(h) => Dropped(h)')
  BY <1>1, InsertedRight, Zenon
<1>3. /\ call' \in [Threads -> Calls] /\ woken' \subseteq Threads /\ answered' \subseteq Threads
      /\ waking' \in [CPUs -> Hosts \cup {None}]
  BY <1>1, Zenon DEF ArpInv
<1>4. ASSUME NEW u \in answered' PROVE ReplyInv(u)'
  <2>1. ReplyInv(u) /\ call'[u] = call[u] /\ woken' = woken
    BY <1>1, Zenon DEF ArpInv
  <2>2. \A h : ToBeWoken(h) => ToBeWoken(h)'
    BY <1>1, Zenon DEF ToBeWoken
  <2>3. QED
    BY <1>2, <2>1, <2>2, Zenon DEF ReplyInv, At
<1>5. QED
  BY <1>2, <1>3, <1>4, Zenon DEF ArpInv

LEMMA ReplyStep ==
    ASSUME ArpInv, NEW c \in CPUs, NEW ip \in Hosts, NEW mac \in Macs, HandleReply(c, ip, mac)
    PROVE  ArpInv'
<1>1. /\ cache' = Inserted(ip, mac) /\ last' = [last EXCEPT ![ip] = mac]
      /\ waking[c] = None /\ waking' = [waking EXCEPT ![c] = ip]
      /\ answered' = answered \cup Waiters(ip) /\ UNCHANGED <<call, woken>>
  BY Zenon DEF HandleReply
<1>2. /\ cache' \in Seq(Entries) /\ Len(cache') <= CacheSize
      /\ last' \in [Hosts -> Macs \cup {None}] /\ CacheIsLatest'
      /\ Cached(ip)' \/ Dropped(ip)'
      /\ \A h : (Cached(h) => Cached(h)') /\ (Dropped(h) => Dropped(h)')
  BY <1>1, InsertedRight, Zenon
<1>3. /\ call \in [Threads -> Calls] /\ woken \subseteq Threads /\ answered \subseteq Threads
      /\ waking \in [CPUs -> Hosts \cup {None}]
  BY Zenon DEF ArpInv
<1>4. /\ call' \in [Threads -> Calls] /\ woken' \subseteq Threads /\ answered' \subseteq Threads
      /\ waking' \in [CPUs -> Hosts \cup {None}]
  BY <1>1, <1>3 DEF Waiters
<1>5. ToBeWoken(ip)' /\ \A h \in Hosts : ToBeWoken(h) => ToBeWoken(h)'
  BY <1>1, <1>3, NoneAssumption DEF ToBeWoken
<1>6. ASSUME NEW u \in answered' PROVE ReplyInv(u)'
  <2>1. u \in Threads /\ call'[u] = call[u] /\ woken' = woken /\ call[u] \in Calls
    BY <1>1, <1>3, <1>4
  <2>2. CASE call[u].ip = ip
    BY <1>2, <1>5, <2>1, <2>2, Zenon DEF ReplyInv, At
  <2>3. CASE call[u].ip # ip
    <3>1. ReplyInv(u)
      <4>1. u \in answered
        BY <1>1, <2>3 DEF Waiters
      <4>2. QED
        BY <4>1, Zenon DEF ArpInv
    <3>2. At(u, "wait") \/ At(u, "asleep") => call[u].ip \in Hosts
      BY <2>1 DEF Calls, At
    <3>3. QED
      BY <1>2, <1>5, <2>1, <3>1, <3>2, Zenon DEF ReplyInv, At
  <2>4. QED
    BY <2>2, <2>3
<1>7. QED
  BY <1>2, <1>4, <1>6, Zenon DEF ArpInv

LEMMA WakeStep ==
    ASSUME ArpInv, NEW c \in CPUs, WakeArpWaiters(c)
    PROVE  ArpInv'
<1> DEFINE h == waking[c]
<1>1. /\ waking' = [waking EXCEPT ![c] = None] /\ woken' = woken \cup Waiters(h)
      /\ call' = [t \in Threads |-> IF At(t, "asleep") /\ t \in Waiters(h)
                                     THEN [call[t] EXCEPT !.at = "last"] ELSE call[t]]
      /\ UNCHANGED <<cache, last, answered>>
  BY Zenon DEF WakeArpWaiters
<1>2. /\ call \in [Threads -> Calls] /\ woken \subseteq Threads /\ answered \subseteq Threads
      /\ waking \in [CPUs -> Hosts \cup {None}]
  BY Zenon DEF ArpInv
<1>3. /\ cache' \in Seq(Entries) /\ Len(cache') <= CacheSize
      /\ last' \in [Hosts -> Macs \cup {None}] /\ CacheIsLatest'
      /\ \A g : (Cached(g) => Cached(g)') /\ (Dropped(g) => Dropped(g)')
  BY <1>1, Zenon DEF ArpInv, CacheIsLatest, Cached, Dropped
<1>4. woken' \subseteq Threads /\ answered' \subseteq Threads /\ waking' \in [CPUs -> Hosts \cup {None}]
  BY <1>1, <1>2 DEF Waiters
<1>5. ASSUME NEW t \in Threads
      PROVE  /\ call'[t] \in Calls /\ call'[t].ip = call[t].ip
             /\ call'[t] = call[t] \/ call'[t].at = "last"
             /\ call'[t].at = "asleep" => t \notin Waiters(h)
  <2>1. CASE At(t, "asleep") /\ t \in Waiters(h)
    <3>1. call'[t] = [call[t] EXCEPT !.at = "last"]
      BY <1>1, <2>1, Zenon
    <3>2. call[t] \in Calls /\ call[t].at = "asleep"
      BY <1>2, <2>1 DEF At
    <3>3. QED
      BY <3>1, <3>2 DEF Calls
  <2>2. CASE ~(At(t, "asleep") /\ t \in Waiters(h))
    <3>1. call'[t] = call[t]
      BY <1>1, <2>2, Zenon
    <3>2. QED
      BY <1>2, <2>2, <3>1 DEF At
  <2>3. QED
    BY <2>1, <2>2
<1>6. call' \in [Threads -> Calls]
  BY <1>1, <1>5
<1>7. \A g : g # h /\ g # None /\ ToBeWoken(g) => ToBeWoken(g)'
  BY <1>1, <1>2 DEF ToBeWoken
<1>8. ASSUME NEW u \in answered' PROVE ReplyInv(u)'
  <2>1. u \in Threads /\ ReplyInv(u)
    BY <1>1, <1>2, Zenon DEF ArpInv
  <2>2. call'[u].ip = call[u].ip
    BY <1>5, <2>1
  <2>3. CASE call'[u].at = "last"
    BY <2>3 DEF ReplyInv, At
  <2>4. CASE call'[u] = call[u]
    <3>1. call[u] \in Calls
      BY <1>2, <2>1
    <3>2. CASE call[u].ip = h
      <4>1. u \in Waiters(h) /\ u \in woken'
        BY <1>1, <2>1, <3>2 DEF Waiters
      <4>2. ~At(u, "asleep")
        BY <1>5, <2>1, <2>4, <4>1 DEF At
      <4>3. QED
        BY <1>3, <2>1, <2>4, <4>1, <4>2, Zenon DEF ReplyInv, At
    <3>3. CASE call[u].ip # h
      <4>1. At(u, "wait") \/ At(u, "asleep") => call[u].ip # None
        BY <3>1 DEF Calls, At
      <4>2. u \in woken => u \in woken'
        BY <1>1
      <4>3. QED
        BY <1>3, <1>7, <2>1, <2>4, <3>3, <4>1, <4>2, ZenonT(40) DEF ReplyInv, At
    <3>4. QED
      BY <3>2, <3>3
  <2>5. QED
    BY <1>5, <2>1, <2>3, <2>4
<1>9. QED
  BY <1>3, <1>4, <1>6, <1>8, Zenon DEF ArpInv

----------------------------------------------------------------------------
\* The invariant of address resolution is inductive: one entry to a host, the
\* latest; and a thread that has been answered finds the entry, has been or
\* will be woken, or asked for a host the full cache has dropped
\* (arp_resolve, arp_cache_insert, handle_incoming_packets).
THEOREM Resolution == Spec => []ArpInv
<1>1. Init => ArpInv
  <2> SUFFICES ASSUME Init PROVE ArpInv
    OBVIOUS
  <2>1. cache = <<>> /\ woken = {} /\ answered = {}
    BY DEF Init
  <2>2. cache \in Seq(Entries) /\ Len(cache) <= CacheSize /\ DOMAIN cache = {}
    BY <2>1, CacheSizeAssumption
  <2>3. Idle \in Calls
    BY DEF Idle, Calls
  <2>4. /\ last \in [Hosts -> Macs \cup {None}] /\ call \in [Threads -> Calls]
        /\ waking \in [CPUs -> Hosts \cup {None}]
    BY <2>3 DEF Init
  <2>5. CacheIsLatest
    BY <2>2 DEF CacheIsLatest
  <2>6. QED
    BY <2>1, <2>2, <2>4, <2>5 DEF ArpInv
<1>2. ArpInv /\ [Next]_vars => ArpInv'
  <2> SUFFICES ASSUME ArpInv, [Next]_vars PROVE ArpInv'
    OBVIOUS
  <2>1. CASE UNCHANGED vars
    BY <2>1 DEF vars, ArpInv, CacheIsLatest, ReplyInv, At, Cached, Dropped, ToBeWoken
  <2>2. CASE Next
    BY <2>2, ThreadSteps, RequestStep, ReplyStep, WakeStep, Zenon DEF Next
  <2>3. QED
    BY <2>1, <2>2
<1>3. QED
  BY <1>1, <1>2, PTL DEF Spec

\* The cache holds one entry to a host, what it announced last, whatever the
\* order in which the CPUs handle requests and replies.
THEOREM LatestCached == Spec => []CacheIsLatest
<1>1. ArpInv => CacheIsLatest
  BY Zenon DEF ArpInv
<1>2. QED
  BY <1>1, Resolution, PTL

\* A cache with a slot for every host drops none.
LEMMA NoneDropped ==
    ASSUME ArpInv, IsFiniteSet(Hosts), Cardinality(Hosts) <= CacheSize, NEW h \in Hosts
    PROVE  ~Dropped(h)
<1> SUFFICES ASSUME Dropped(h) PROVE FALSE
  OBVIOUS
<1>1. ~Cached(h) /\ Len(cache) = CacheSize
  BY Zenon DEF Dropped
<1>2. cache \in Seq(Entries)
  BY Zenon DEF ArpInv
<1>3. Len(cache) \in Nat /\ DOMAIN cache = 1 .. Len(cache)
  BY <1>2
<1>4. \A i \in 1 .. Len(cache) : cache[i] \in Entries
  BY <1>2
<1>5. \A i \in 1 .. Len(cache) : cache[i].ip \in Hosts \ {h}
  BY <1>1, <1>3, <1>4 DEF Cached, Entries
<1>6. \A i, j \in 1 .. Len(cache) : cache[i].ip = cache[j].ip => i = j
  BY <1>3, Zenon DEF ArpInv, CacheIsLatest
<1> DEFINE S == 1 .. Len(cache)
           f == [i \in S |-> cache[i].ip]
<1>7. f \in [S -> Hosts \ {h}]
  BY <1>5
<1>8. IsFiniteSet(S) /\ Cardinality(S) = Len(cache)
  <2> DEFINE n == Len(cache)
  <2>1. n \in Nat
    BY <1>3
  <2> HIDE DEF n
  <2>2. IsFiniteSet(1 .. n) /\ Cardinality(1 .. n) = IF 1 > n THEN 0 ELSE n - 1 + 1
    BY <2>1, FS_Interval
  <2>3. Cardinality(1 .. n) = n
    BY <2>1, <2>2
  <2>4. QED
    BY <2>2, <2>3 DEF n
<1>9. /\ IsFiniteSet(Hosts \ {h}) /\ Cardinality(Hosts \ {h}) = Cardinality(Hosts) - 1
      /\ Cardinality(Hosts) \in Nat
  BY FS_RemoveElement, FS_CardinalityType
<1>10. Cardinality(Hosts \ {h}) < Cardinality(S)
  BY <1>1, <1>3, <1>8, <1>9
<1>11. \A i \in S : f[i] = cache[i].ip
  OBVIOUS
<1> HIDE DEF S, f
<1>12. \E i, j \in S : i # j /\ f[i] = f[j]
  BY <1>7, <1>8, <1>9, <1>10, FS_PigeonHole
<1>13. QED
  BY <1>6, <1>11, <1>12 DEF S

\* A thread does not sleep through its reply when the cache has a slot for
\* every host (arp_resolve's two lookups around event_generation).
THEOREM RepliesKept ==
    ASSUME IsFiniteSet(Hosts), Cardinality(Hosts) <= CacheSize
    PROVE  Spec => []NoLostReply
<1>1. ArpInv => NoLostReply
  <2> SUFFICES ASSUME ArpInv, NEW t \in Threads, At(t, "asleep"), t \in answered
               PROVE  ToBeWoken(call[t].ip)
    BY DEF NoLostReply, ToBeWoken
  <2>1. call[t] \in Calls /\ call[t].at = "asleep"
    BY DEF ArpInv, At
  <2>2. call[t].ip \in Hosts
    BY <2>1 DEF Calls
  <2>3. ToBeWoken(call[t].ip) \/ Dropped(call[t].ip)
    BY Zenon DEF ArpInv, ReplyInv
  <2>4. QED
    BY <2>2, <2>3, NoneDropped
<1>2. QED
  BY <1>1, Resolution, PTL
=============================================================================
