------------------------- MODULE TaskSchedulerProofs ------------------------
(***************************************************************************)
(* Proofs about TaskScheduler, for any number of CPUs, tasks, stacks and   *)
(* keys.  First, every step preserves AccountInv: the run queues hold      *)
(* exactly the Ready tasks, a CPU's current task runs unless it is         *)
(* blocked, a pinned task stays at home, and no wakeup, deadline or join   *)
(* is lost.  With TaskSchedulerSteps, SchedulerInv is inductive, and the   *)
(* safety theorems follow from it.                                         *)
(***************************************************************************)
EXTENDS TaskSchedulerSteps

----------------------------------------------------------------------------
(* The run queues.                                                         *)

\* The queues are sequences of tasks and hold the Ready tasks, each once.
QueueInv == queues \in [Cpus -> Seq(Tasks)] /\ ReadyIffQueuedOnce

\* Taking the p-th entry out of a queue, whichever order the others are left
\* in: the entries of r are the other entries of q, each once.
Without(r, q, p) ==
    /\ r \in Seq(Tasks)
    /\ \A i \in 1 .. Len(r) : \E j \in (1 .. Len(q)) \ {p} : r[i] = q[j]
    /\ \A j \in (1 .. Len(q)) \ {p} : \E i \in 1 .. Len(r) : r[i] = q[j]
    /\ (\A i, j \in 1 .. Len(q) : q[i] = q[j] => i = j)
       => \A i, j \in 1 .. Len(r) : r[i] = r[j] => i = j

\* The entries of two queues put together.
LEMMA Joined ==
  ASSUME NEW a \in Seq(Tasks), NEW b \in Seq(Tasks)
  PROVE  /\ a \o b \in Seq(Tasks) /\ Len(a \o b) = Len(a) + Len(b)
         /\ \A i \in 1 .. Len(a) : (a \o b)[i] = a[i]
         /\ \A i \in 1 .. Len(b) : (a \o b)[Len(a) + i] = b[i]
OBVIOUS

\* claim_local's queue without its entry p: the entries behind p come first,
\* the ones it passed over follow.
LEMMA RotatedWithout ==
  ASSUME NEW q \in Seq(Tasks), NEW p \in 1 .. Len(q)
  PROVE  Without(SubSeq(q, p + 1, Len(q)) \o SubSeq(q, 1, p - 1), q, p)
<1> DEFINE a == SubSeq(q, p + 1, Len(q))
           b == SubSeq(q, 1, p - 1)
           n == Len(q) - p
           r == a \o b
<1>1. Len(q) \in Nat /\ p \in Nat /\ p >= 1 /\ p <= Len(q)
  OBVIOUS
<1>2. a \in Seq(Tasks) /\ Len(a) = n /\ \A i \in 1 .. n : a[i] = q[p + i]
  BY <1>1
<1>3. b \in Seq(Tasks) /\ Len(b) = p - 1 /\ \A i \in 1 .. (p - 1) : b[i] = q[i]
  BY <1>1
<1> HIDE DEF a, b
<1>4. /\ r \in Seq(Tasks) /\ Len(r) = n + (p - 1)
      /\ \A i \in 1 .. n : r[i] = a[i]
      /\ \A i \in 1 .. (p - 1) : r[n + i] = b[i]
  <2>1. /\ r \in Seq(Tasks) /\ Len(r) = Len(a) + Len(b)
        /\ \A i \in 1 .. Len(a) : r[i] = a[i]
        /\ \A i \in 1 .. Len(b) : r[Len(a) + i] = b[i]
    BY ZenonT(60), <1>2, <1>3, Joined
  <2> HIDE DEF r
  <2> QED
    BY Zenon, <1>1, <1>2, <1>3, <2>1
<1> HIDE DEF r
<1> DEFINE f(i) == IF i <= n THEN p + i ELSE i - n
<1>5. \A i \in 1 .. Len(r) : f(i) \in (1 .. Len(q)) \ {p} /\ r[i] = q[f(i)]
  <2> TAKE i \in 1 .. Len(r)
  <2>1. CASE i <= n
    BY <1>1, <1>2, <1>4, <2>1
  <2>2. CASE i > n
    <3>1. i - n \in 1 .. (p - 1) /\ n + (i - n) = i
      BY <1>1, <1>4, <2>2
    <3>2. r[i] = q[i - n]
      BY Zenon, <1>3, <1>4, <3>1
    <3> QED
      BY <1>1, <2>2, <3>1, <3>2
  <2> QED
    BY <1>1, <1>4, <2>1, <2>2
<1>6. \A j \in (1 .. Len(q)) \ {p} :
        (IF j > p THEN j - p ELSE n + j) \in 1 .. Len(r)
        /\ f(IF j > p THEN j - p ELSE n + j) = j
  BY <1>1, <1>4
<1>7. \A i, j \in 1 .. Len(r) : f(i) = f(j) => i = j
  BY <1>1, <1>4
<1> HIDE DEF f
<1>8. \A i \in 1 .. Len(r) : \E j \in (1 .. Len(q)) \ {p} : r[i] = q[j]
  BY Zenon, <1>5
<1>9. \A j \in (1 .. Len(q)) \ {p} : \E i \in 1 .. Len(r) : r[i] = q[j]
  BY Zenon, <1>5, <1>6
<1>10. (\A i, j \in 1 .. Len(q) : q[i] = q[j] => i = j)
       => \A i, j \in 1 .. Len(r) : r[i] = r[j] => i = j
  BY ZenonT(60), <1>5, <1>7
<1>11. Without(r, q, p)
  BY Zenon, <1>4, <1>8, <1>9, <1>10 DEF Without
<1> QED
  BY Zenon, <1>11 DEF r, a, b

\* steal takes the entry out in place.
LEMMA RemovedWithout ==
  ASSUME NEW q \in Seq(Tasks), NEW p \in 1 .. Len(q)
  PROVE  Without(RemoveAt(q, p), q, p)
<1> DEFINE a == SubSeq(q, 1, p - 1)
           b == SubSeq(q, p + 1, Len(q))
           n == Len(q) - p
           r == a \o b
<1>1. Len(q) \in Nat /\ p \in Nat /\ p >= 1 /\ p <= Len(q)
  OBVIOUS
<1>2. a \in Seq(Tasks) /\ Len(a) = p - 1 /\ \A i \in 1 .. (p - 1) : a[i] = q[i]
  BY <1>1
<1>3. b \in Seq(Tasks) /\ Len(b) = n /\ \A i \in 1 .. n : b[i] = q[p + i]
  BY <1>1
<1> HIDE DEF a, b
<1>4. /\ r \in Seq(Tasks) /\ Len(r) = n + (p - 1)
      /\ \A i \in 1 .. (p - 1) : r[i] = a[i]
      /\ \A i \in 1 .. n : r[(p - 1) + i] = b[i]
  <2>1. /\ r \in Seq(Tasks) /\ Len(r) = Len(a) + Len(b)
        /\ \A i \in 1 .. Len(a) : r[i] = a[i]
        /\ \A i \in 1 .. Len(b) : r[Len(a) + i] = b[i]
    BY ZenonT(60), <1>2, <1>3, Joined
  <2> HIDE DEF r
  <2> QED
    BY <1>1, <1>2, <1>3, <2>1
<1> HIDE DEF r
<1> DEFINE f(i) == IF i < p THEN i ELSE i + 1
<1>5. \A i \in 1 .. Len(r) : f(i) \in (1 .. Len(q)) \ {p} /\ r[i] = q[f(i)]
  <2> TAKE i \in 1 .. Len(r)
  <2>1. CASE i < p
    BY <1>1, <1>2, <1>4, <2>1
  <2>2. CASE i >= p
    <3> DEFINE k == i - (p - 1)
    <3>1. k \in 1 .. n /\ (p - 1) + k = i /\ p + k = i + 1
      BY <1>1, <1>4, <2>2
    <3> HIDE DEF k
    <3>2. r[(p - 1) + k] = q[p + k]
      BY Zenon, <1>3, <1>4, <3>1
    <3>3. r[i] = q[i + 1]
      BY Zenon, <3>1, <3>2
    <3> QED
      BY <1>1, <1>4, <2>2, <3>3
  <2> QED
    BY <1>1, <1>4, <2>1, <2>2
<1>6. \A j \in (1 .. Len(q)) \ {p} :
        (IF j < p THEN j ELSE j - 1) \in 1 .. Len(r)
        /\ f(IF j < p THEN j ELSE j - 1) = j
  BY <1>1, <1>4
<1>7. \A i, j \in 1 .. Len(r) : f(i) = f(j) => i = j
  BY <1>1, <1>4
<1> HIDE DEF f
<1>8. \A i \in 1 .. Len(r) : \E j \in (1 .. Len(q)) \ {p} : r[i] = q[j]
  BY Zenon, <1>5
<1>9. \A j \in (1 .. Len(q)) \ {p} : \E i \in 1 .. Len(r) : r[i] = q[j]
  BY Zenon, <1>5, <1>6
<1>10. (\A i, j \in 1 .. Len(q) : q[i] = q[j] => i = j)
       => \A i, j \in 1 .. Len(r) : r[i] = r[j] => i = j
  BY ZenonT(60), <1>5, <1>7
<1>11. Without(r, q, p)
  BY ZenonT(60), <1>4, <1>8, <1>9, <1>10 DEF Without
<1> QED
  BY Zenon, <1>11 DEF r, a, b, RemoveAt

\* A queue of Ready tasks loses nothing in claim_local.
LEMMA KeepReady ==
  ASSUME NEW q \in Seq(Tasks), \A k \in 1 .. Len(q) : status[q[k]] = "Ready"
  PROVE  Keep(q) = q
<1>1. \A k \in 1 .. Len(q) : q[k] \in Tasks
  OBVIOUS
<1> QED
  BY Zenon, <1>1 DEF Keep

\* Every entry of a queue is Ready, so claim_local drops none.
LEMMA KeepQueue ==
  ASSUME QueueInv, NEW c \in Cpus
  PROVE  /\ Keep(queues[c]) = queues[c]
         /\ \A p \in 1 .. Len(queues[c]) :
              Keep(SubSeq(queues[c], 1, p - 1)) = SubSeq(queues[c], 1, p - 1)
<1> DEFINE q == queues[c]
<1>1. q \in Seq(Tasks) /\ \A k \in 1 .. Len(q) : status[q[k]] = "Ready"
  BY DEF QueueInv, ReadyIffQueuedOnce
<1> HIDE DEF q
<1>2. Keep(q) = q
  BY Zenon, <1>1, KeepReady
<1>3. ASSUME NEW p \in 1 .. Len(q)
      PROVE  Keep(SubSeq(q, 1, p - 1)) = SubSeq(q, 1, p - 1)
  <2> DEFINE b == SubSeq(q, 1, p - 1)
  <2>1. b \in Seq(Tasks) /\ Len(b) = p - 1 /\ \A k \in 1 .. (p - 1) : b[k] = q[k]
    BY <1>1
  <2> HIDE DEF b
  <2>2. \A k \in 1 .. Len(b) : status[b[k]] = "Ready"
    BY <1>1, <2>1
  <2>3. Keep(b) = b
    BY Zenon, <2>1, <2>2, KeepReady
  <2> QED
    BY Zenon, <2>3 DEF b
<1> QED
  BY Zenon, <1>2, <1>3 DEF q

\* Steps that neither touch a queue nor make a task Ready or not Ready.
LEMMA QueueKept ==
  ASSUME QueueInv, UNCHANGED queues,
         \A t \in Tasks : status'[t] = "Ready" <=> status[t] = "Ready"
  PROVE  QueueInv'
BY DEF QueueInv, ReadyIffQueuedOnce

\* A task that was not Ready is made Ready and queued.
LEMMA Enqueued ==
  ASSUME QueueInv, status \in [Tasks -> Statuses], NEW home \in Cpus,
         NEW t \in Tasks, status[t] # "Ready",
         status' = [status EXCEPT ![t] = "Ready"], Enqueue(home, t)
  PROVE  QueueInv'
<1> DEFINE q == queues[home]
           n == Len(q)
<1>1. q \in Seq(Tasks) /\ n \in Nat
  BY DEF QueueInv
<1>2. /\ queues' \in [Cpus -> Seq(Tasks)]
      /\ \A d \in Cpus : d # home => queues'[d] = queues[d]
      /\ queues'[home] = Append(q, t)
  BY <1>1 DEF QueueInv, Enqueue
<1>3. /\ Len(queues'[home]) = n + 1 /\ queues'[home][n + 1] = t
      /\ \A k \in 1 .. n : queues'[home][k] = q[k]
  BY <1>1, <1>2
<1>4. \A d \in Cpus : \A k \in 1 .. Len(queues[d]) :
        k \in 1 .. Len(queues'[d]) /\ queues'[d][k] = queues[d][k]
  <2> SUFFICES ASSUME NEW d \in Cpus, NEW k \in 1 .. Len(queues[d])
               PROVE  k \in 1 .. Len(queues'[d]) /\ queues'[d][k] = queues[d][k]
    OBVIOUS
  <2>1. CASE d # home
    BY Zenon, <1>2, <2>1
  <2>2. CASE d = home
    BY <1>1, <1>3, <2>2
  <2> QED
    BY Zenon, <2>1, <2>2
<1>5. \A d \in Cpus : \A k \in 1 .. Len(queues'[d]) :
        \/ k \in 1 .. Len(queues[d]) /\ queues'[d][k] = queues[d][k]
        \/ d = home /\ k = n + 1 /\ queues'[d][k] = t
  <2> TAKE d \in Cpus
  <2> TAKE k \in 1 .. Len(queues'[d])
  <2>1. CASE d # home
    BY Zenon, <1>2, <2>1
  <2>2. CASE d = home
    <3>1. k \in 1 .. (n + 1)
      BY Zenon, <1>3, <2>2
    <3>2. k \in 1 .. n \/ k = n + 1
      BY <1>1, <3>1
    <3> QED
      BY Zenon, <1>3, <2>2, <3>2
  <2> QED
    BY Zenon, <2>1, <2>2
<1>6. \A d \in Cpus : \A k \in 1 .. Len(queues[d]) : queues[d][k] # t
  BY Zenon DEF QueueInv, ReadyIffQueuedOnce
<1>7. n + 1 \in 1 .. Len(queues'[home])
  BY <1>1, <1>3
<1>8. ASSUME NEW u \in Tasks
      PROVE  status'[u] = "Ready" <=>
             \E d \in Cpus : \E k \in 1 .. Len(queues'[d]) : queues'[d][k] = u
  <2>1. CASE u = t
    BY Zenon, <1>3, <1>7, <2>1
  <2>2. CASE u # t
    <3>1. status'[u] = status[u]
      BY Zenon, <2>2
    <3>2. (\E d \in Cpus : \E k \in 1 .. Len(queues[d]) : queues[d][k] = u) <=>
          \E d \in Cpus : \E k \in 1 .. Len(queues'[d]) : queues'[d][k] = u
      <4>1. ASSUME NEW d \in Cpus, NEW k \in 1 .. Len(queues[d]), queues[d][k] = u
            PROVE  \E e \in Cpus : \E l \in 1 .. Len(queues'[e]) : queues'[e][l] = u
        BY Zenon, <1>4, <4>1
      <4>2. ASSUME NEW d \in Cpus, NEW k \in 1 .. Len(queues'[d]), queues'[d][k] = u
            PROVE  \E e \in Cpus : \E l \in 1 .. Len(queues[e]) : queues[e][l] = u
        BY Zenon, <1>5, <2>2, <4>2
      <4> QED
        BY Zenon, <4>1, <4>2
    <3> QED
      BY Zenon, <3>1, <3>2 DEF QueueInv, ReadyIffQueuedOnce
  <2> QED
    BY Zenon, <2>1, <2>2
<1>9. ASSUME NEW d \in Cpus, NEW e \in Cpus, NEW k \in 1 .. Len(queues'[d]),
             NEW l \in 1 .. Len(queues'[e]), queues'[d][k] = queues'[e][l]
      PROVE  d = e /\ k = l
  <2>1. \A a, b \in Cpus : \A i \in 1 .. Len(queues[a]), j \in 1 .. Len(queues[b]) :
          queues[a][i] = queues[b][j] => a = b /\ i = j
    BY Zenon DEF QueueInv, ReadyIffQueuedOnce
  <2>2. \/ k \in 1 .. Len(queues[d]) /\ queues'[d][k] = queues[d][k]
        \/ d = home /\ k = n + 1 /\ queues'[d][k] = t
    BY Zenon, <1>5
  <2>3. \/ l \in 1 .. Len(queues[e]) /\ queues'[e][l] = queues[e][l]
        \/ e = home /\ l = n + 1 /\ queues'[e][l] = t
    BY Zenon, <1>5
  <2> QED
    BY <1>6, <1>9, <2>1, <2>2, <2>3
<1> QED
  BY Zenon, <1>2, <1>8, <1>9 DEF QueueInv, ReadyIffQueuedOnce

\* A queued task is claimed and taken out of its queue.
LEMMA Dequeued ==
  ASSUME QueueInv, status \in [Tasks -> Statuses], NEW v \in Cpus,
         NEW p \in 1 .. Len(queues[v]), NEW r, Without(r, queues[v], p),
         status' = [status EXCEPT ![queues[v][p]] = "Claimed"],
         queues' = [queues EXCEPT ![v] = r]
  PROVE  QueueInv'
<1> DEFINE t == queues[v][p]
<1>1. t \in Tasks
  BY DEF QueueInv
<1>2. /\ queues' \in [Cpus -> Seq(Tasks)]
      /\ \A d \in Cpus : d # v => queues'[d] = queues[d]
      /\ queues'[v] = r
  BY Zenon DEF QueueInv, Without
<1>3. \A d \in Cpus : \A k \in 1 .. Len(queues'[d]) :
        \E l \in 1 .. Len(queues[d]) :
          queues'[d][k] = queues[d][l] /\ (d = v => l # p)
  <2> SUFFICES ASSUME NEW d \in Cpus, NEW k \in 1 .. Len(queues'[d])
               PROVE  \E l \in 1 .. Len(queues[d]) :
                        queues'[d][k] = queues[d][l] /\ (d = v => l # p)
    OBVIOUS
  <2>1. CASE d = v
    <3>1. PICK l \in (1 .. Len(queues[v])) \ {p} : r[k] = queues[v][l]
      BY Zenon, <1>2, <2>1 DEF Without
    <3> QED
      BY Zenon, <1>2, <2>1, <3>1
  <2>2. CASE d # v
    BY Zenon, <1>2, <2>2
  <2> QED
    BY Zenon, <2>1, <2>2
<1>4. \A d \in Cpus : \A l \in 1 .. Len(queues[d]) :
        queues[d][l] # t =>
          \E k \in 1 .. Len(queues'[d]) : queues'[d][k] = queues[d][l]
  BY ZenonT(60), <1>2 DEF Without
<1>5. \A d, e \in Cpus : \A k \in 1 .. Len(queues[d]), l \in 1 .. Len(queues[e]) :
        queues[d][k] = queues[e][l] => d = e /\ k = l
  BY Zenon DEF QueueInv, ReadyIffQueuedOnce
<1>6. \A k, l \in 1 .. Len(r) : r[k] = r[l] => k = l
  BY <1>5 DEF Without
<1>7. \A d \in Cpus : \A k \in 1 .. Len(queues'[d]) : queues'[d][k] # t
  BY <1>3, <1>5
<1>8. ASSUME NEW u \in Tasks
      PROVE  status'[u] = "Ready" <=>
             \E d \in Cpus : \E k \in 1 .. Len(queues'[d]) : queues'[d][k] = u
  <2>1. CASE u = t
    BY Zenon, <1>1, <1>7, <2>1
  <2>2. CASE u # t
    <3>1. status'[u] = status[u]
      BY Zenon, <2>2
    <3>2. (\E d \in Cpus : \E k \in 1 .. Len(queues[d]) : queues[d][k] = u) <=>
          \E d \in Cpus : \E k \in 1 .. Len(queues'[d]) : queues'[d][k] = u
      <4>1. ASSUME NEW d \in Cpus, NEW k \in 1 .. Len(queues[d]), queues[d][k] = u
            PROVE  \E e \in Cpus : \E l \in 1 .. Len(queues'[e]) : queues'[e][l] = u
        BY Zenon, <1>4, <2>2, <4>1
      <4>2. ASSUME NEW d \in Cpus, NEW k \in 1 .. Len(queues'[d]), queues'[d][k] = u
            PROVE  \E e \in Cpus : \E l \in 1 .. Len(queues[e]) : queues[e][l] = u
        BY Zenon, <1>3, <4>2
      <4> QED
        BY Zenon, <4>1, <4>2
    <3> QED
      BY Zenon, <3>1, <3>2 DEF QueueInv, ReadyIffQueuedOnce
  <2> QED
    BY Zenon, <2>1, <2>2
<1>9. ASSUME NEW d \in Cpus, NEW e \in Cpus, NEW k \in 1 .. Len(queues'[d]),
             NEW l \in 1 .. Len(queues'[e]), queues'[d][k] = queues'[e][l]
      PROVE  d = e /\ k = l
  <2>1. d = e
    BY SMTT(30), <1>3, <1>5, <1>9
  <2>2. CASE d = v
    BY Zenon, <1>2, <1>6, <1>9, <2>1, <2>2
  <2>3. CASE d # v
    BY <1>2, <1>5, <1>9, <2>1, <2>3
  <2> QED
    BY Zenon, <2>1, <2>2, <2>3
<1> QED
  BY ZenonT(60), <1>2, <1>8, <1>9 DEF QueueInv, ReadyIffQueuedOnce
----------------------------------------------------------------------------
(* What the steps do to the tasks.                                         *)

Blocked == {"Zombie", "Sleeping", "Waiting"}

\* A wakeup of t, which is queued on home unless it is still running.
Waking(t, home) ==
    /\ t \in Tasks /\ status[t] \in {"Waiting", "Sleeping"}
    /\ \/ status[t] = "Sleeping" \/ waitingFor[t] \in Keys
       \/ waitingFor[t] \in Tasks /\ Reclaimed(waitingFor[t])
    /\ home \in Cpus /\ pinned[t] \in {NONE, home}
    /\ MakeRunnable(t, home)
    /\ waitingFor' = [waitingFor EXCEPT ![t] = NONE]
    /\ wakeTick' = [wakeTick EXCEPT ![t] = 0]
    /\ todo' = todo \ {t}
    /\ lock' = lock \/ todo' = {}
    /\ UNCHANGED <<affinity, pinned, bottom, observed, joining, cpuVars,
                   handoff, len, gen>>

\* A step that neither blocks a task nor wakes or reclaims one.
Internal ==
    /\ \A t \in Tasks : \/ status'[t] = status[t]
                        \/ status[t] \notin Blocked /\ status'[t] \notin Blocked
    /\ \A t \in Tasks : /\ Reclaimed(t) => bottom'[t] = NULL
                        /\ wakeTick'[t] \in {0, wakeTick[t]}
                        /\ joining'[t] \in {NONE, joining[t]}
    /\ todo # {} => lock' = lock
    /\ UNCHANGED <<waitingFor, observed, gen, todo>>

\* A lock that is free, or held by a CPU past maintenance, leaves nobody to
\* be woken.
LEMMA NobodyToWake ==
  ASSUME LockInv,
         \/ lock = FREE
         \/ \E c \in Cpus : pc[c] \in {"drain", "pick", "switch"}
  PROVE  todo = {}
<1>1. ASSUME NEW c \in Cpus, pc[c] \in {"maint", "collect"} PROVE lock = c
  BY Zenon, <1>1 DEF LockInv, Locked
<1>2. ASSUME NEW c \in Cpus, pc[c] \in {"drain", "pick", "switch"} PROVE lock = c
  BY Zenon, <1>2 DEF LockInv, Locked
<1> QED
  BY Zenon, <1>1, <1>2, Names DEF LockInv

\* wake_event's turn, maintenance's turn for a waiter of a reaped task, and
\* the end of a sleep or of a timed wait are wakeups.
LEMMA WakeupSteps ==
  ASSUME TypeOK, LockInv, PinInv, DeadlineInv, TodoInv,
         \/ WakeEventTask
         \/ \E c \in Cpus : MaintainWakeWaiter(c) \/ MaintainWake(c)
  PROVE  \E t \in Tasks, home \in Cpus : Waking(t, home)
<1>0. /\ todo \subseteq Tasks /\ affinity \in [Tasks -> Cpus]
      /\ pinned \in [Tasks -> {NONE, 0}] /\ wakeTick \in [Tasks -> Nat]
      /\ len \in 0 .. MaxTasks /\ scan \in 0 .. (MaxTasks + 1)
  BY Zenon DEF TypeOK, TaskTypeOK, SharedTypeOK
<1>1. \A t \in Tasks : affinity[t] \in Cpus /\ pinned[t] \in {NONE, affinity[t]}
  BY Zenon, <1>0 DEF PinInv
<1>2. CASE WakeEventTask
  <2>1. PICK t \in todo : /\ MakeRunnable(t, affinity[t])
                          /\ waitingFor' = [waitingFor EXCEPT ![t] = NONE]
                          /\ ClearDeadline(t)
                          /\ todo' = todo \ {t}
    BY ZenonT(60), <1>2 DEF WakeEventTask
  <2>2. t \in Tasks /\ status[t] = "Waiting" /\ waitingFor[t] \in Keys
    BY Zenon, <1>0, <1>2 DEF LockInv, TodoInv, WakeEventTask
  <2>3. /\ lock' = lock \/ todo' = {}
        /\ UNCHANGED <<affinity, pinned, bottom, observed, joining, cpuVars,
                       handoff, len, gen>>
    BY Zenon, <1>2 DEF WakeEventTask
  <2> QED
    BY ZenonT(60), <1>1, <2>1, <2>2, <2>3 DEF Waking, ClearDeadline
<1>3. ASSUME NEW c \in Cpus, MaintainWakeWaiter(c)
      PROVE  \E t \in Tasks, home \in Cpus : Waking(t, home)
  <2>1. PICK t \in todo : /\ MakeRunnable(t, affinity[t])
                          /\ waitingFor' = [waitingFor EXCEPT ![t] = NONE]
                          /\ todo' = todo \ {t}
    BY ZenonT(60), <1>3 DEF MaintainWakeWaiter
  <2>2. lock # WAKER
    BY Zenon, <1>3, Names DEF MaintainWakeWaiter, LockInv, Locked
  <2>3. /\ t \in Tasks /\ status[t] = "Waiting"
        /\ waitingFor[t] \in Tasks /\ Reclaimed(waitingFor[t])
    BY Zenon, <1>0, <2>2 DEF LockInv, TodoInv
  <2>4. wakeTick[t] = 0
    BY Zenon, <2>3, KeysAssumption DEF DeadlineInv, Tasks
  <2>5. /\ lock' = lock /\ wakeTick' = wakeTick
        /\ UNCHANGED <<affinity, pinned, bottom, observed, joining, cpuVars,
                       handoff, len, gen>>
    BY Zenon, <1>3 DEF MaintainWakeWaiter
  <2>6. wakeTick' = [wakeTick EXCEPT ![t] = 0]
    BY Zenon, <1>0, <2>3, <2>4, <2>5
  <2> QED
    BY ZenonT(60), <1>1, <2>1, <2>3, <2>5, <2>6 DEF Waking
<1>4. ASSUME NEW c \in Cpus, MaintainWake(c)
      PROVE  \E t \in Tasks, home \in Cpus : Waking(t, home)
  <2> DEFINE home == IF pinned[scan] # NONE THEN pinned[scan] ELSE affinity[scan]
  <2>1. scan \in Tasks
    BY <1>0, <1>4, MaxTasksAssumption
       DEF MaintainWake, Maintaining, LockInv, Tasks
  <2>2. home \in Cpus /\ pinned[scan] \in {NONE, home}
    BY Zenon, <1>0, <1>1, <2>1, Names
  <2>3. /\ status[scan] \in {"Waiting", "Sleeping"}
        /\ status[scan] = "Sleeping" \/ waitingFor[scan] \in Keys
    BY Zenon, <1>4, <2>1 DEF MaintainWake, TimedOut, DeadlineInv
  <2>4. /\ todo = {} /\ UNCHANGED <<todo, lock>> /\ MakeRunnable(scan, home)
        /\ waitingFor' = [waitingFor EXCEPT ![scan] = NONE]
        /\ wakeTick' = [wakeTick EXCEPT ![scan] = 0]
        /\ UNCHANGED <<affinity, pinned, bottom, observed, joining, cpuVars,
                       handoff, len, gen>>
    BY Zenon, <1>4 DEF MaintainWake, Maintaining, ClearDeadline
  <2> HIDE DEF home
  <2>5. Waking(scan, home)
    BY Zenon, <2>1, <2>2, <2>3, <2>4 DEF Waking
  <2> QED
    BY Zenon, <2>1, <2>2, <2>5
<1> QED
  BY Zenon, <1>2, <1>3, <1>4

\* A pinned task has only been claimed by its own CPU: the branch that hands
\* it back is not taken.
LEMMA NotRefused ==
  ASSUME TypeOK, LockInv, OwnerInv, PinInv, NEW c \in Cpus, Switch(c)
  PROVE  /\ SwitchTo(c) /\ pc[c] = "switch"
         /\ next[c] \in Tasks /\ status[next[c]] = "Claimed"
         /\ pinned[next[c]] \in {NONE, c}
<1>1. /\ next \in [Cpus -> {NONE} \cup Tasks] /\ pinned \in [Tasks -> {NONE, 0}]
  BY Zenon DEF TypeOK, TaskTypeOK, CpuTypeOK
<1>2. pc[c] = "switch" /\ next[c] \in Tasks /\ status[next[c]] = "Claimed"
  BY Zenon, <1>1 DEF Switch, LockInv, OwnerInv
<1>3. pinned[next[c]] \in {NONE, c}
  BY Zenon, <1>1, <1>2 DEF PinInv
<1> QED
  BY Zenon, <1>2, <1>3 DEF Switch

\* Two CPUs have different current tasks.
LEMMA OneCpuEach ==
  ASSUME OwnerInv, TypeOK
  PROVE  \A c, d \in Cpus : cur[c] # NONE /\ cur[c] = cur[d] => c = d
BY Zenon DEF OwnerInv, Holds, TypeOK, CpuTypeOK

\* Every step is an internal one, blocks the caller, wakes a task, reclaims
\* one, or raises or forgets an event.
LEMMA Kinds ==
  ASSUME TypeOK, ContextInv, AccountInv, [Next]_vars
  PROVE  \/ Internal
         \/ \E c \in Cpus : \/ MaintainReap(c) \/ Exit(c)
                            \/ \E u \in Tasks : WaitTask(c, u)
                            \/ \E k \in Keys, d \in {0} \cup Deadlines : WaitEvent(c, k, d)
                            \/ \E d \in Deadlines : Sleep(c, d)
         \/ \E k \in Keys : WakeEvent(k) \/ ForgetEvent(k)
         \/ \E t \in Tasks, home \in Cpus : Waking(t, home)
<1>0. /\ status \in [Tasks -> Statuses] /\ len \in 0 .. MaxTasks
      /\ cur \in [Cpus -> {NONE} \cup Tasks] /\ handoff \in [Cpus -> {NONE} \cup Tasks]
      /\ bottom \in [Tasks -> Stacks \cup {NULL}] /\ wakeTick \in [Tasks -> Nat]
      /\ joining \in [Tasks -> {NONE} \cup Tasks]
  BY Zenon DEF TypeOK, TaskTypeOK, CpuTypeOK, SharedTypeOK
<1> USE <1>0, Names DEF Blocked, Reclaimed
<1>1. ASSUME \/ UNCHANGED vars
             \/ Tick
             \/ \E c \in Cpus : \/ CallSchedule(c) \/ MaintainSkip(c)
                                \/ PrepareSwitch(c) \/ SwitchStack(c)
                                \/ Release(c) \/ PublishHandoff(c)
                                \/ PublishRetired(c)
      PROVE  Internal
  <2>1. UNCHANGED <<status, bottom, wakeTick, joining, lock, waitingFor,
                    observed, gen, todo>>
    BY ZenonT(60), <1>1 DEF CallSchedule, MaintainSkip, PrepareSwitch, SwitchStack, Release,
       PublishHandoff, PublishRetired, Tick, vars, taskVars, sharedVars
  <2> QED
    BY Zenon, <2>1 DEF Internal
<1>2. ASSUME NEW c \in Cpus, \/ ScheduleEnter(c) \/ Collect(c)
                             \/ MaintainDone(c) \/ PickReturn(c) \/ PickIdle(c)
      PROVE  Internal
  <2>1. UNCHANGED <<status, bottom, wakeTick, joining, waitingFor, observed,
                    gen, todo>>
    BY ZenonT(60), <1>2 DEF ScheduleEnter, Collect, MaintainDone, PickReturn, PickIdle, taskVars
  <2>2. todo = {}
    BY Zenon, <1>2, NobodyToWake DEF ScheduleEnter, Collect, MaintainDone, PickReturn,
       PickIdle, NothingToRun, ContextInv
  <2> QED
    BY Zenon, <2>1, <2>2 DEF Internal
<1>3. ASSUME NEW c \in Cpus, WaitTaskReturn(c) PROVE Internal
  BY Zenon, <1>3 DEF WaitTaskReturn, Internal, sharedVars
<1>4. ASSUME NEW c \in Cpus, AddUser(c) PROVE Internal
  <2>1. len + 1 \in Tasks /\ status[len + 1] = "Absent"
    BY <1>4, MaxTasksAssumption DEF AddUser, Tasks, ContextInv, RecordInv
  <2>2. PICK s : bottom' = [bottom EXCEPT ![len + 1] = s]
    BY ZenonT(60), <1>4 DEF AddUser
  <2>3. /\ status' = [status EXCEPT ![len + 1] = "Ready"]
        /\ UNCHANGED <<wakeTick, joining, waitingFor, observed, gen, todo, lock>>
    BY Zenon, <1>4 DEF AddUser
  <2> QED
    BY Zenon, <2>1, <2>2, <2>3 DEF Internal
<1>5. ASSUME NEW c \in Cpus, Drain(c) PROVE Internal
  <2>1. \A t \in Tasks : \/ status'[t] = status[t]
                         \/ status[t] = "SwitchingOut" /\ status'[t] = "Ready"
    BY Zenon, <1>5 DEF Drain
  <2>2. UNCHANGED <<bottom, wakeTick, joining, waitingFor, observed, gen, todo, lock>>
    BY Zenon, <1>5 DEF Drain
  <2> QED
    BY Zenon, <2>1, <2>2 DEF Internal
<1>6. ASSUME NEW c \in Cpus, ClaimLocal(c) \/ Steal(c) PROVE Internal
  <2>1. PICK t \in Tasks : status[t] = "Ready" /\ status' = [status EXCEPT ![t] = "Claimed"]
    BY ZenonT(60), <1>6 DEF ClaimLocal, ClaimsAt, Steal, StealsAt, Stealable, Claimable
  <2>2. UNCHANGED <<bottom, wakeTick, joining, waitingFor, observed, gen, todo, lock>>
    BY Zenon, <1>6 DEF ClaimLocal, Steal
  <2> QED
    BY Zenon, <2>1, <2>2 DEF Internal
<1>7. ASSUME NEW c \in Cpus, Switch(c) PROVE Internal
  <2>1. SwitchTo(c) /\ next[c] \in Tasks /\ status[next[c]] = "Claimed" /\ pc[c] = "switch"
    BY Zenon, <1>7, NotRefused DEF ContextInv, AccountInv
  <2>2. todo = {}
    BY Zenon, <2>1, NobodyToWake DEF ContextInv
  <2>3. \A t \in Tasks : \/ status'[t] = status[t]
                         \/ status[t] \in {"Claimed", "Running"}
                            /\ status'[t] \in {"Running", "SwitchingOut"}
    BY Zenon, <2>1 DEF SwitchTo, Preempts
  <2>4. \A t \in Tasks : wakeTick'[t] \in {0, wakeTick[t]}
    BY Zenon, <2>1 DEF SwitchTo, ClearDeadline
  <2>5. UNCHANGED <<bottom, joining, waitingFor, observed, gen, todo>>
    BY Zenon, <2>1 DEF SwitchTo
  <2> QED
    BY Zenon, <2>2, <2>3, <2>4, <2>5 DEF Internal
<1>8. ASSUME \/ WakeEventTask
             \/ \E c \in Cpus : MaintainWakeWaiter(c) \/ MaintainWake(c)
      PROVE  \E t \in Tasks, home \in Cpus : Waking(t, home)
  BY Zenon, <1>8, WakeupSteps DEF ContextInv, AccountInv
<1> QED
  BY ZenonT(60), <1>1, <1>2, <1>3, <1>4, <1>5, <1>6, <1>7, <1>8
     DEF Next, Critical, SwitchSteps, Call
----------------------------------------------------------------------------
(* Blocking and waking.                                                    *)

\* A call that blocks is made by a running task that is in no other call.
LEMMA Caller ==
  ASSUME TypeOK, LockInv, RunInv, DeadlineInv, NEW c \in Cpus, Calling(c), lock = FREE
  PROVE  /\ cur[c] \in Tasks /\ status[cur[c]] = "Running"
         /\ joining[cur[c]] = NONE /\ wakeTick[cur[c]] = 0
         /\ todo = {}
<1>1. cur[c] \in Tasks /\ joining[cur[c]] = NONE /\ status[cur[c]] = "Running"
  BY Zenon DEF Calling, TypeOK, CpuTypeOK, RunInv
<1>2. wakeTick[cur[c]] = 0
  BY Zenon, <1>1 DEF DeadlineInv
<1> QED
  BY Zenon, <1>1, <1>2, NobodyToWake

\* A reclaimed task stays reclaimed, and a blocked one stays as it is until
\* it is woken.
LEMMA ReclaimedStays ==
  ASSUME TypeOK, ContextInv, AccountInv, [Next]_vars
  PROVE  \A t \in Tasks : /\ status[t] = "Zombie" => status'[t] = "Zombie"
                          /\ Reclaimed(t) => Reclaimed(t)'
<1>0. /\ status \in [Tasks -> Statuses] /\ todo \subseteq Tasks
      /\ bottom \in [Tasks -> Stacks \cup {NULL}]
  BY Zenon DEF TypeOK, TaskTypeOK, SharedTypeOK
<1>1. CASE Internal
  BY Zenon, <1>1 DEF Internal, Blocked, Reclaimed
<1>2. ASSUME NEW c \in Cpus, MaintainReap(c)
      PROVE  \A t \in Tasks : /\ status[t] = "Zombie" => status'[t] = "Zombie"
                              /\ Reclaimed(t) => Reclaimed(t)'
  BY Zenon, <1>0, <1>2 DEF MaintainReap, Reclaimed
<1>3. ASSUME NEW c \in Cpus, \/ Exit(c)
                             \/ \E u \in Tasks : WaitTask(c, u)
                             \/ \E k \in Keys, d \in {0} \cup Deadlines : WaitEvent(c, k, d)
                             \/ \E d \in Deadlines : Sleep(c, d)
      PROVE  \A t \in Tasks : /\ status[t] = "Zombie" => status'[t] = "Zombie"
                              /\ Reclaimed(t) => Reclaimed(t)'
  <2>1. Calling(c) /\ lock = FREE /\ bottom' = bottom
        /\ \E s : status' = [status EXCEPT ![cur[c]] = s]
    BY ZenonT(60), <1>3 DEF Exit, WaitTask, WaitEvent, Sleep
  <2>2. cur[c] \in Tasks /\ status[cur[c]] = "Running"
    BY Zenon, <2>1, Caller DEF ContextInv, AccountInv
  <2> QED
    BY Zenon, <1>0, <2>1, <2>2 DEF Reclaimed
<1>4. ASSUME NEW k \in Keys, WakeEvent(k) \/ ForgetEvent(k)
      PROVE  \A t \in Tasks : /\ status[t] = "Zombie" => status'[t] = "Zombie"
                              /\ Reclaimed(t) => Reclaimed(t)'
  BY Zenon, <1>4 DEF WakeEvent, ForgetEvent, taskVars, Reclaimed
<1>5. ASSUME NEW u \in Tasks, NEW home \in Cpus, Waking(u, home)
      PROVE  \A t \in Tasks : /\ status[t] = "Zombie" => status'[t] = "Zombie"
                              /\ Reclaimed(t) => Reclaimed(t)'
  BY Zenon, <1>0, <1>5 DEF Waking, MakeRunnable, Reclaimed
<1> QED
  BY ZenonT(60), <1>1, <1>2, <1>3, <1>4, <1>5, Kinds

\* Deadlines: only a sleeper or a task that waits on a key has one.
LEMMA DeadlineStep ==
  ASSUME TypeOK, ContextInv, AccountInv, [Next]_vars
  PROVE  DeadlineInv'
<1>0. /\ status \in [Tasks -> Statuses] /\ wakeTick \in [Tasks -> Nat]
      /\ waitingFor \in [Tasks -> {NONE} \cup Tasks \cup Keys]
      /\ LockInv /\ RunInv /\ DeadlineInv
  BY Zenon DEF TypeOK, TaskTypeOK, ContextInv, AccountInv
<1>1. CASE Internal
  BY Zenon, <1>0, <1>1 DEF Internal, Blocked, DeadlineInv
<1>2. ASSUME NEW c \in Cpus, MaintainReap(c) PROVE DeadlineInv'
  BY Zenon, <1>0, <1>2 DEF MaintainReap, DeadlineInv
<1>3. ASSUME NEW c \in Cpus, Exit(c) PROVE DeadlineInv'
  BY ZenonT(40), <1>0, <1>3, Caller DEF Exit, DeadlineInv
<1>4. ASSUME NEW c \in Cpus, NEW u \in Tasks, WaitTask(c, u) PROVE DeadlineInv'
  BY Zenon, <1>0, <1>4, Caller DEF WaitTask, DeadlineInv
<1>5. ASSUME NEW c \in Cpus, NEW k \in Keys, NEW d, WaitEvent(c, k, d)
      PROVE  DeadlineInv'
  BY Zenon, <1>0, <1>5, Caller DEF WaitEvent, DeadlineInv
<1>6. ASSUME NEW c \in Cpus, NEW d, Sleep(c, d) PROVE DeadlineInv'
  BY ZenonT(40), <1>0, <1>6, Caller DEF Sleep, DeadlineInv
<1>7. ASSUME NEW k \in Keys, WakeEvent(k) \/ ForgetEvent(k) PROVE DeadlineInv'
  BY Zenon, <1>0, <1>7 DEF WakeEvent, ForgetEvent, taskVars, DeadlineInv
<1>8. ASSUME NEW t \in Tasks, NEW home \in Cpus, Waking(t, home)
      PROVE  DeadlineInv'
  BY Zenon, <1>0, <1>8 DEF Waking, MakeRunnable, DeadlineInv
<1> QED
  BY ZenonT(60), <1>1, <1>2, <1>3, <1>4, <1>5, <1>6, <1>7, <1>8, Kinds

\* The tasks a wakeup loop has still to wake are waiting for its key, or for
\* the task it has reclaimed.
LEMMA TodoStep ==
  ASSUME TypeOK, ContextInv, AccountInv, [Next]_vars
  PROVE  TodoInv'
<1>0. /\ status \in [Tasks -> Statuses] /\ todo \subseteq Tasks
      /\ waitingFor \in [Tasks -> {NONE} \cup Tasks \cup Keys]
      /\ bottom \in [Tasks -> Stacks \cup {NULL}]
      /\ len \in 0 .. MaxTasks /\ scan \in 0 .. (MaxTasks + 1)
      /\ LockInv /\ RunInv /\ DeadlineInv /\ TodoInv
  BY Zenon DEF TypeOK, TaskTypeOK, SharedTypeOK, ContextInv, AccountInv
<1>9. \A t \in Tasks : Reclaimed(t) => Reclaimed(t)'
  BY Zenon, ReclaimedStays
<1>1. CASE Internal
  BY Zenon, <1>0, <1>1, <1>9 DEF Internal, TodoInv
<1>2. ASSUME NEW c \in Cpus, MaintainReap(c) PROVE TodoInv'
  <2>1. scan \in Tasks
    BY <1>0, <1>2, MaxTasksAssumption
       DEF MaintainReap, Maintaining, LockInv, Tasks
  <2>2. status'[scan] = "Zombie" /\ bottom'[scan] = NULL
    BY Zenon, <1>0, <1>2, <2>1 DEF MaintainReap, Reapable
  <2>4. lock' # WAKER
    BY Zenon, <1>0, <1>2, Names DEF MaintainReap, Maintaining, LockInv, Locked
  <2>3. /\ waitingFor' = waitingFor
        /\ \A t \in todo' : waitingFor[t] = scan
    BY Zenon, <1>2 DEF MaintainReap, Waiters
  <2> QED
    BY Zenon, <2>1, <2>2, <2>3, <2>4 DEF TodoInv, Reclaimed
<1>3. ASSUME NEW c \in Cpus, \/ Exit(c)
                             \/ \E u \in Tasks : WaitTask(c, u)
                             \/ \E k \in Keys, d \in {0} \cup Deadlines : WaitEvent(c, k, d)
                             \/ \E d \in Deadlines : Sleep(c, d)
      PROVE  TodoInv'
  <2>1. lock = FREE /\ todo' = todo
    BY ZenonT(60), <1>3 DEF Exit, WaitTask, WaitEvent, Sleep, sharedVars
  <2>2. todo' = {}
    BY Zenon, <1>0, <2>1, NobodyToWake
  <2> QED
    BY Zenon, <2>2 DEF TodoInv
<1>4. ASSUME NEW k \in Keys, WakeEvent(k) PROVE TodoInv'
  <2>1. /\ \A t \in todo' : waitingFor'[t] = k
        /\ todo' # {} => lock' = WAKER
    BY Zenon, <1>4 DEF WakeEvent, Waiters, taskVars
  <2> QED
    BY Zenon, <2>1 DEF TodoInv
<1>5. ASSUME NEW k \in Keys, ForgetEvent(k) PROVE TodoInv'
  BY Zenon, <1>0, <1>5 DEF ForgetEvent, taskVars, TodoInv, Reclaimed
<1>6. ASSUME NEW t \in Tasks, NEW home \in Cpus, Waking(t, home)
      PROVE  TodoInv'
  <2>1. /\ todo' = todo \ {t} /\ (lock' = lock \/ todo' = {})
        /\ \A u \in todo' : waitingFor'[u] = waitingFor[u]
    BY Zenon, <1>0, <1>6 DEF Waking
  <2> QED
    BY Zenon, <1>0, <1>9, <2>1 DEF TodoInv
<1> QED
  BY ZenonT(60), <1>1, <1>2, <1>3, <1>4, <1>5, <1>6, Kinds

\* A caller of wait_task stays blocked until its target is reclaimed.
LEMMA JoinStep ==
  ASSUME TypeOK, ContextInv, AccountInv, [Next]_vars
  PROVE  JoinInv'
<1>0. /\ status \in [Tasks -> Statuses] /\ todo \subseteq Tasks
      /\ waitingFor \in [Tasks -> {NONE} \cup Tasks \cup Keys]
      /\ joining \in [Tasks -> {NONE} \cup Tasks]
      /\ LockInv /\ RunInv /\ DeadlineInv /\ JoinInv
  BY Zenon DEF TypeOK, TaskTypeOK, SharedTypeOK, ContextInv, AccountInv
<1>9. \A t \in Tasks : Reclaimed(t) => Reclaimed(t)'
  BY Zenon, ReclaimedStays
<1>10. ASSUME \A t \in Tasks : joining'[t] # NONE =>
                 /\ joining'[t] = joining[t]
                 /\ status[t] = "Waiting" =>
                      status'[t] = "Waiting" /\ waitingFor'[t] = waitingFor[t]
       PROVE  JoinInv'
  BY Zenon, <1>0, <1>9, <1>10 DEF JoinInv
<1>1. CASE Internal
  BY Zenon, <1>0, <1>1, <1>10 DEF Internal, Blocked
<1>2. ASSUME NEW c \in Cpus, MaintainReap(c) PROVE JoinInv'
  BY Zenon, <1>2, <1>10 DEF MaintainReap
<1>3. ASSUME NEW c \in Cpus, \/ Exit(c)
                             \/ \E k \in Keys, d \in {0} \cup Deadlines : WaitEvent(c, k, d)
                             \/ \E d \in Deadlines : Sleep(c, d)
      PROVE  JoinInv'
  <2>1. /\ Calling(c) /\ lock = FREE /\ joining' = joining
        /\ \E s : status' = [status EXCEPT ![cur[c]] = s]
        /\ \E k : waitingFor' = [waitingFor EXCEPT ![cur[c]] = k] \/ waitingFor' = waitingFor
    BY ZenonT(60), <1>3 DEF Exit, WaitEvent, Sleep
  <2>2. cur[c] \in Tasks /\ joining[cur[c]] = NONE
    BY Zenon, <1>0, <2>1, Caller
  <2> QED
    BY Zenon, <1>0, <1>10, <2>1, <2>2
<1>4. ASSUME NEW c \in Cpus, NEW u \in Tasks, WaitTask(c, u) PROVE JoinInv'
  <2>1. cur[c] \in Tasks
    BY Zenon, <1>0, <1>4, Caller DEF WaitTask
  <2>2. \A t \in Tasks : t # cur[c] =>
          /\ joining'[t] = joining[t] /\ status'[t] = status[t]
          /\ waitingFor'[t] = waitingFor[t]
    BY Zenon, <1>0, <1>4 DEF WaitTask
  <2>3. status'[cur[c]] = "Waiting" /\ waitingFor'[cur[c]] = joining'[cur[c]]
    BY Zenon, <1>0, <1>4, <2>1 DEF WaitTask
  <2> QED
    BY Zenon, <1>0, <1>9, <2>2, <2>3 DEF JoinInv
<1>5. ASSUME NEW k \in Keys, WakeEvent(k) \/ ForgetEvent(k) PROVE JoinInv'
  BY Zenon, <1>5, <1>10 DEF WakeEvent, ForgetEvent, taskVars
<1>6. ASSUME NEW t \in Tasks, NEW home \in Cpus, Waking(t, home)
      PROVE  JoinInv'
  <2>1. joining[t] # NONE => Reclaimed(joining[t])
    BY Zenon, <1>0, <1>6, KeysAssumption DEF Waking, JoinInv, Tasks
  <2>2. \A u \in Tasks : u # t =>
          joining'[u] = joining[u] /\ status'[u] = status[u] /\ waitingFor'[u] = waitingFor[u]
    BY Zenon, <1>0, <1>6 DEF Waking, MakeRunnable
  <2>3. joining'[t] = joining[t]
    BY Zenon, <1>6 DEF Waking
  <2> QED
    BY Zenon, <1>0, <1>9, <2>1, <2>2, <2>3 DEF JoinInv
<1> QED
  BY ZenonT(60), <1>1, <1>2, <1>3, <1>4, <1>5, <1>6, Kinds

\* No step makes a wakeup come too early for a task that is blocked.
LEMMA WakeupStep ==
  ASSUME TypeOK, ContextInv, AccountInv, [Next]_vars
  PROVE  NoLostWakeup'
<1>0. /\ status \in [Tasks -> Statuses] /\ todo \subseteq Tasks
      /\ waitingFor \in [Tasks -> {NONE} \cup Tasks \cup Keys]
      /\ observed \in [Tasks -> Nat] /\ gen \in [Keys -> Nat]
      /\ LockInv /\ RunInv /\ DeadlineInv /\ NoLostWakeup
  BY Zenon DEF TypeOK, TaskTypeOK, SharedTypeOK, ContextInv, AccountInv
<1>10. ASSUME \A t \in Tasks : status'[t] = "Waiting" /\ waitingFor'[t] \in Keys =>
                 /\ status[t] = "Waiting" /\ waitingFor'[t] = waitingFor[t]
                 /\ observed'[t] = observed[t]
                 /\ lock = WAKER /\ t \in todo => lock' = WAKER /\ t \in todo',
              gen' = gen
       PROVE  NoLostWakeup'
  BY Zenon, <1>0, <1>10 DEF NoLostWakeup
<1>1. CASE Internal
  BY Zenon, <1>0, <1>1, <1>10 DEF Internal, Blocked
<1>2. ASSUME NEW c \in Cpus, MaintainReap(c) PROVE NoLostWakeup'
  <2>1. lock # WAKER
    BY Zenon, <1>0, <1>2, Names DEF MaintainReap, Maintaining, LockInv, Locked
  <2> QED
    BY Zenon, <1>2, <1>10, <2>1 DEF MaintainReap
<1>3. ASSUME NEW c \in Cpus, \/ Exit(c)
                             \/ \E u \in Tasks : WaitTask(c, u)
                             \/ \E d \in Deadlines : Sleep(c, d)
      PROVE  NoLostWakeup'
  <2>1. cur[c] \in Tasks /\ lock = FREE
    BY ZenonT(60), <1>0, <1>3, Caller DEF Exit, WaitTask, Sleep
  <2>2. \A t \in Tasks : t # cur[c] =>
          /\ status'[t] = status[t] /\ waitingFor'[t] = waitingFor[t]
    BY Zenon, <1>0, <1>3 DEF Exit, WaitTask, Sleep
  <2>3. status'[cur[c]] # "Waiting" \/ waitingFor'[cur[c]] \in Tasks
    BY Zenon, <1>0, <1>3, <2>1 DEF Exit, WaitTask, Sleep
  <2>4. UNCHANGED <<observed, gen>>
    BY Zenon, <1>3 DEF Exit, WaitTask, Sleep, sharedVars
  <2>5. \A k \in Keys : k \notin Tasks
    BY Zenon, KeysAssumption DEF Tasks
  <2> QED
    BY Zenon, <1>10, <2>1, <2>2, <2>3, <2>4, <2>5, Names
<1>4. ASSUME NEW c \in Cpus, NEW k \in Keys, NEW d, WaitEvent(c, k, d)
      PROVE  NoLostWakeup'
  <2>1. cur[c] \in Tasks /\ lock = FREE
    BY Zenon, <1>0, <1>4, Caller DEF WaitEvent
  <2>2. \A t \in Tasks : t # cur[c] =>
          /\ status'[t] = status[t] /\ waitingFor'[t] = waitingFor[t]
          /\ observed'[t] = observed[t]
    BY Zenon, <1>0, <1>4 DEF WaitEvent
  <2>3. waitingFor'[cur[c]] = k /\ observed'[cur[c]] = gen[k] /\ gen' = gen
    BY Zenon, <1>0, <1>4, <2>1 DEF WaitEvent, sharedVars
  <2> QED
    BY <1>0, <2>1, <2>2, <2>3, Names DEF NoLostWakeup
<1>5. ASSUME NEW k \in Keys, WakeEvent(k) PROVE NoLostWakeup'
  <2>1. /\ lock = FREE /\ UNCHANGED <<status, waitingFor, observed>>
        /\ todo' = Waiters(k) /\ (todo' # {} => lock' = WAKER)
        /\ \A l \in Keys : l # k => gen'[l] = gen[l]
    BY Zenon, <1>0, <1>5 DEF WakeEvent, taskVars
  <2>2. \A t \in Tasks : status[t] = "Waiting" /\ waitingFor[t] = k =>
          lock' = WAKER /\ t \in todo'
    BY Zenon, <2>1 DEF Waiters
  <2> QED
    BY Zenon, <1>0, <2>1, <2>2, Names DEF NoLostWakeup
<1>6. ASSUME NEW k \in Keys, ForgetEvent(k) PROVE NoLostWakeup'
  <2>1. /\ \A t \in Tasks : ~(status[t] = "Waiting" /\ waitingFor[t] = k)
        /\ \A l \in Keys : l # k => gen'[l] = gen[l]
        /\ UNCHANGED <<status, waitingFor, observed, lock, todo>>
    BY Zenon, <1>0, <1>6 DEF ForgetEvent, Waiters, taskVars
  <2> QED
    BY Zenon, <1>0, <2>1 DEF NoLostWakeup
<1>7. ASSUME NEW t \in Tasks, NEW home \in Cpus, Waking(t, home)
      PROVE  NoLostWakeup'
  BY <1>0, <1>7, <1>10 DEF Waking, MakeRunnable
<1> QED
  BY ZenonT(60), <1>1, <1>2, <1>3, <1>4, <1>5, <1>6, <1>7, Kinds
----------------------------------------------------------------------------
(* Queues, current tasks and handoffs.                                     *)

\* With every entry Ready, ending a scan of the queue leaves it as it was.
LEMMA PickKeepsQueue ==
  ASSUME QueueInv, NEW c \in Cpus, PickReturn(c) \/ PickIdle(c)
  PROVE  queues' = queues
<1>1. queues' = [queues EXCEPT ![c] = Keep(queues[c])] /\ queues \in [Cpus -> Seq(Tasks)]
  BY Zenon DEF PickReturn, PickIdle, QueueInv
<1> QED
  BY Zenon, <1>1, KeepQueue

\* CPU c claims the p-th task of v's queue and leaves r of it.
Takes(c, v, p, r) ==
    /\ Without(r, queues[v], p)
    /\ queues' = [queues EXCEPT ![v] = r]
    /\ queues[v][p] \in Tasks /\ status[queues[v][p]] = "Ready"
    /\ status' = [status EXCEPT ![queues[v][p]] = "Claimed"]
    /\ next' = [next EXCEPT ![c] = queues[v][p]]
    /\ v = c \/ pinned[queues[v][p]] = NONE
    /\ \/ affinity' = affinity
       \/ /\ pinned[queues[v][p]] = NONE
          /\ affinity' = [affinity EXCEPT ![queues[v][p]] = c]

\* claim_local and steal take one Ready task out of one queue; a stolen task
\* is not pinned.
LEMMA ClaimTakes ==
  ASSUME QueueInv, TypeOK, NEW c \in Cpus, ClaimLocal(c) \/ Steal(c)
  PROVE  \E v \in Cpus : \E p \in 1 .. Len(queues[v]) : \E r : Takes(c, v, p, r)
<1>0. queues \in [Cpus -> Seq(Tasks)]
  BY Zenon DEF QueueInv
<1>1. CASE ClaimLocal(c)
  <2>1. PICK p \in 1 .. Len(queues[c]) :
          /\ ClaimsAt(queues[c], p)
          /\ status' = [status EXCEPT ![queues[c][p]] = "Claimed"]
          /\ next' = [next EXCEPT ![c] = queues[c][p]]
          /\ queues' = [queues EXCEPT ![c] = AfterClaim(queues[c], p)]
    BY ZenonT(60), <1>1 DEF ClaimLocal
  <2>2. affinity' = affinity
    BY Zenon, <1>1 DEF ClaimLocal
  <2>3. queues[c] \in Seq(Tasks)
    BY Zenon, <1>0
  <2>4. Without(AfterClaim(queues[c], p), queues[c], p)
    BY ZenonT(60), <2>3, KeepQueue, RotatedWithout DEF AfterClaim
  <2>5. queues[c][p] \in Tasks /\ status[queues[c][p]] = "Ready"
    BY Zenon, <2>1 DEF ClaimsAt, Claimable
  <2> QED
    BY ZenonT(60), <2>1, <2>2, <2>4, <2>5 DEF Takes
<1>2. CASE Steal(c)
  <2>1. PICK v \in Cpus : \E p \in 1 .. Len(queues[v]) :
          /\ IsVictim(c, v) /\ StealsAt(queues[v], p)
          /\ status' = [status EXCEPT ![queues[v][p]] = "Claimed"]
          /\ affinity' = [affinity EXCEPT ![queues[v][p]] = c]
          /\ next' = [next EXCEPT ![c] = queues[v][p]]
          /\ queues' = [queues EXCEPT ![c] = Keep(queues[c]),
                                      ![v] = RemoveAt(queues[v], p)]
    BY ZenonT(60), <1>2 DEF Steal
  <2>2. PICK p \in 1 .. Len(queues[v]) :
          /\ IsVictim(c, v) /\ StealsAt(queues[v], p)
          /\ status' = [status EXCEPT ![queues[v][p]] = "Claimed"]
          /\ affinity' = [affinity EXCEPT ![queues[v][p]] = c]
          /\ next' = [next EXCEPT ![c] = queues[v][p]]
          /\ queues' = [queues EXCEPT ![c] = Keep(queues[c]),
                                      ![v] = RemoveAt(queues[v], p)]
    BY ZenonT(60), <2>1
  <2>3. queues[v] \in Seq(Tasks)
    BY Zenon, <1>0
  <2>4. Without(RemoveAt(queues[v], p), queues[v], p)
    BY Zenon, <2>3, RemovedWithout
  <2>5. /\ queues[v][p] \in Tasks /\ status[queues[v][p]] = "Ready"
        /\ pinned[queues[v][p]] = NONE
    BY Zenon, <2>2 DEF StealsAt, Stealable, Claimable
  <2>6. queues' = [queues EXCEPT ![v] = RemoveAt(queues[v], p)]
    <3>1. [queues EXCEPT ![c] = queues[c]] = queues
      BY Zenon, <1>0
    <3>2. queues' = [[queues EXCEPT ![c] = queues[c]] EXCEPT ![v] = RemoveAt(queues[v], p)]
      BY ZenonT(60), <2>2, KeepQueue
    <3> QED
      BY ZenonT(60), <3>1, <3>2
  <2> QED
    BY ZenonT(60), <2>2, <2>4, <2>5, <2>6 DEF Takes
<1> QED
  BY ZenonT(60), <1>1, <1>2

\* The steps that leave the status of every task and, with every entry
\* Ready, every queue alone.
LEMMA StatusKept ==
  ASSUME QueueInv,
         \/ UNCHANGED vars
         \/ Tick
         \/ \E k \in Keys : WakeEvent(k) \/ ForgetEvent(k)
         \/ \E c \in Cpus :
              \/ CallSchedule(c) \/ ScheduleEnter(c) \/ Collect(c)
              \/ WaitTaskReturn(c) \/ MaintainReap(c) \/ MaintainSkip(c)
              \/ MaintainDone(c) \/ PickReturn(c) \/ PickIdle(c)
              \/ PrepareSwitch(c) \/ SwitchStack(c) \/ Release(c)
              \/ PublishHandoff(c) \/ PublishRetired(c)
  PROVE  UNCHANGED <<status, queues>>
<1>1. CASE UNCHANGED vars \/ Tick \/ \E k \in Keys : WakeEvent(k) \/ ForgetEvent(k)
  BY Zenon, <1>1 DEF vars, taskVars, sharedVars, Tick, WakeEvent, ForgetEvent
<1>2. ASSUME NEW c \in Cpus, PickReturn(c) \/ PickIdle(c)
      PROVE  UNCHANGED <<status, queues>>
  BY Zenon, <1>2, PickKeepsQueue DEF PickReturn, PickIdle, taskVars
<1>3. ASSUME NEW c \in Cpus,
             \/ CallSchedule(c) \/ ScheduleEnter(c) \/ Collect(c)
             \/ WaitTaskReturn(c) \/ MaintainReap(c) \/ MaintainSkip(c)
             \/ MaintainDone(c)
      PROVE  UNCHANGED <<status, queues>>
  BY ZenonT(60), <1>3 DEF CallSchedule, ScheduleEnter, Collect, WaitTaskReturn,
     MaintainReap, MaintainSkip, MaintainDone, taskVars, sharedVars
<1>4. ASSUME NEW c \in Cpus,
             \/ PrepareSwitch(c) \/ SwitchStack(c) \/ Release(c)
             \/ PublishHandoff(c) \/ PublishRetired(c)
      PROVE  UNCHANGED <<status, queues>>
  BY ZenonT(60), <1>4 DEF PrepareSwitch, SwitchStack, Release, PublishHandoff,
     PublishRetired, taskVars, sharedVars
<1> QED
  BY ZenonT(60), <1>1, <1>2, <1>3, <1>4

\* The calls that block change the caller's status and no queue.
LEMMA Blocks ==
  ASSUME TypeOK, ContextInv, AccountInv, NEW c \in Cpus,
         \/ Exit(c)
         \/ \E u \in Tasks : WaitTask(c, u)
         \/ \E k \in Keys, d \in {0} \cup Deadlines : WaitEvent(c, k, d)
         \/ \E d \in Deadlines : Sleep(c, d)
  PROVE  /\ cur[c] \in Tasks /\ status[cur[c]] = "Running"
         /\ \E s \in Blocked : status' = [status EXCEPT ![cur[c]] = s]
         /\ pc' = [pc EXCEPT ![c] = "sched"]
         /\ UNCHANGED <<affinity, pinned, switchVars, queues, handoff>>
<1>1. /\ Calling(c) /\ lock = FREE
      /\ \E s \in Blocked : status' = [status EXCEPT ![cur[c]] = s]
  BY ZenonT(60) DEF Exit, WaitTask, WaitEvent, Sleep, Blocked
<1>2. /\ pc' = [pc EXCEPT ![c] = "sched"]
      /\ UNCHANGED <<affinity, pinned, switchVars, queues, handoff>>
  BY ZenonT(60) DEF Exit, WaitTask, WaitEvent, Sleep, sharedVars
<1>3. cur[c] \in Tasks /\ status[cur[c]] = "Running"
  BY Zenon, <1>1, Caller DEF ContextInv, AccountInv
<1> QED
  BY ZenonT(60), <1>1, <1>2, <1>3

\* The queues hold exactly the Ready tasks after every step.
LEMMA QueueStep ==
  ASSUME TypeOK, ContextInv, AccountInv, [Next]_vars
  PROVE  QueueInv'
<1>0. /\ status \in [Tasks -> Statuses] /\ len \in 0 .. MaxTasks
      /\ handoff \in [Cpus -> {NONE} \cup Tasks] /\ cur \in [Cpus -> {NONE} \cup Tasks]
      /\ QueueInv
  BY Zenon DEF TypeOK, TaskTypeOK, CpuTypeOK, SharedTypeOK, AccountInv, QueueInv
<1>1. ASSUME UNCHANGED <<status, queues>> PROVE QueueInv'
  BY Zenon, <1>0, <1>1, QueueKept
<1>2. ASSUME NEW c \in Cpus, \/ Exit(c)
                             \/ \E u \in Tasks : WaitTask(c, u)
                             \/ \E k \in Keys, d \in {0} \cup Deadlines : WaitEvent(c, k, d)
                             \/ \E d \in Deadlines : Sleep(c, d)
      PROVE  QueueInv'
  <2>1. /\ cur[c] \in Tasks /\ status[cur[c]] = "Running"
        /\ \E s \in Blocked : status' = [status EXCEPT ![cur[c]] = s]
        /\ UNCHANGED queues
    BY Zenon, <1>2, Blocks
  <2> QED
    BY Zenon, <1>0, <2>1, QueueKept DEF Blocked
<1>3. ASSUME NEW c \in Cpus, AddUser(c) PROVE QueueInv'
  <2>1. len + 1 \in Tasks /\ status[len + 1] = "Absent"
    BY <1>0, <1>3, MaxTasksAssumption DEF AddUser, Tasks, ContextInv, RecordInv
  <2>2. PICK home \in Cpus : Enqueue(home, len + 1)
    BY Zenon, <1>3 DEF AddUser
  <2>3. status' = [status EXCEPT ![len + 1] = "Ready"]
    BY Zenon, <1>3 DEF AddUser
  <2> QED
    BY ZenonT(60), <1>0, <2>1, <2>2, <2>3, Enqueued
<1>4. ASSUME NEW t \in Tasks, NEW home \in Cpus, Waking(t, home) PROVE QueueInv'
  <2>1. CASE Published(t)
    BY Zenon, <1>0, <1>4, <2>1, QueueKept DEF Waking, MakeRunnable
  <2>2. CASE ~Published(t)
    <3>1. /\ status' = [status EXCEPT ![t] = "Ready"] /\ Enqueue(home, t)
          /\ status[t] # "Ready"
      BY Zenon, <1>4, <2>2 DEF Waking, MakeRunnable
    <3> QED
      BY ZenonT(60), <1>0, <3>1, Enqueued
  <2> QED
    BY Zenon, <2>1, <2>2
<1>5. ASSUME NEW c \in Cpus, Drain(c) PROVE QueueInv'
  <2>1. CASE handoff[c] # NONE /\ status[handoff[c]] = "SwitchingOut"
    <3>1. /\ status' = [status EXCEPT ![handoff[c]] = "Ready"]
          /\ Enqueue(c, handoff[c]) /\ handoff[c] \in Tasks
      BY Zenon, <1>0, <1>5, <2>1 DEF Drain
    <3> QED
      BY ZenonT(60), <1>0, <2>1, <3>1, Enqueued
  <2>2. CASE ~(handoff[c] # NONE /\ status[handoff[c]] = "SwitchingOut")
    BY Zenon, <1>0, <1>1, <1>5, <2>2 DEF Drain
  <2> QED
    BY Zenon, <2>1, <2>2
<1>6. ASSUME NEW c \in Cpus, ClaimLocal(c) \/ Steal(c) PROVE QueueInv'
  <2>1. PICK v \in Cpus : \E p \in 1 .. Len(queues[v]) : \E r : Takes(c, v, p, r)
    BY Zenon, <1>0, <1>6, ClaimTakes
  <2>2. PICK p \in 1 .. Len(queues[v]) : \E r : Takes(c, v, p, r)
    BY Zenon, <2>1
  <2>3. PICK r : Takes(c, v, p, r)
    BY Zenon, <2>2
  <2> QED
    BY ZenonT(60), <1>0, <2>3, Dequeued DEF Takes
<1>7. ASSUME NEW c \in Cpus, Switch(c) PROVE QueueInv'
  <2>1. SwitchTo(c) /\ next[c] \in Tasks /\ status[next[c]] = "Claimed"
    BY Zenon, <1>7, NotRefused DEF ContextInv, AccountInv
  <2>2. \A t \in Tasks : status'[t] = "Ready" <=> status[t] = "Ready"
    BY Zenon, <1>0, <2>1 DEF SwitchTo, Preempts
  <2>3. queues' = queues
    BY Zenon, <2>1 DEF SwitchTo
  <2> QED
    BY Zenon, <1>0, <2>2, <2>3, QueueKept
<1>8. ASSUME \/ WakeEventTask
             \/ \E c \in Cpus : MaintainWakeWaiter(c) \/ MaintainWake(c)
      PROVE  QueueInv'
  BY Zenon, <1>4, <1>8, WakeupSteps DEF ContextInv, AccountInv
<1>9. ASSUME \/ UNCHANGED vars
             \/ Tick
             \/ \E k \in Keys : WakeEvent(k) \/ ForgetEvent(k)
             \/ \E c \in Cpus :
                  \/ CallSchedule(c) \/ ScheduleEnter(c) \/ Collect(c)
                  \/ WaitTaskReturn(c) \/ MaintainReap(c) \/ MaintainSkip(c)
                  \/ MaintainDone(c) \/ PickReturn(c) \/ PickIdle(c)
                  \/ PrepareSwitch(c) \/ SwitchStack(c) \/ Release(c)
                  \/ PublishHandoff(c) \/ PublishRetired(c)
      PROVE  QueueInv'
  BY ZenonT(60), <1>0, <1>1, <1>9, StatusKept
<1> QED
  BY ZenonT(60), <1>2, <1>3, <1>5, <1>6, <1>7, <1>8, <1>9
     DEF Next, Critical, SwitchSteps, Call
\* A CPU's current task runs, or is blocked on its way into the switch.
LEMMA RunStep ==
  ASSUME TypeOK, ContextInv, AccountInv, [Next]_vars
  PROVE  RunInv'
<1>0. /\ status \in [Tasks -> Statuses] /\ len \in 0 .. MaxTasks
      /\ pc \in [Cpus -> Phases] /\ cur \in [Cpus -> {NONE} \cup Tasks]
      /\ next \in [Cpus -> {NONE} \cup Tasks]
      /\ outgoing \in [Cpus -> {NONE} \cup Tasks]
      /\ handoff \in [Cpus -> {NONE} \cup Tasks]
      /\ idleSaved \in [Cpus -> BOOLEAN]
      /\ RunInv /\ QueueInv /\ LockInv /\ SwitchInv /\ RecordInv /\ OwnerInv
      /\ HandoffInv /\ SavedInv
  BY Zenon DEF TypeOK, TaskTypeOK, CpuTypeOK, SharedTypeOK, AccountInv, ContextInv, QueueInv
<1>a. \A c, d \in Cpus : cur[c] # NONE /\ cur[c] = cur[d] => c = d
  BY Zenon, <1>0, OneCpuEach
<1> USE <1>0, Names DEF OnOldStack
<1>1. ASSUME UNCHANGED <<status, pc, cur, outgoing, idleSaved>> PROVE RunInv'
  BY Zenon, <1>1 DEF RunInv
<1>2. ASSUME NEW c \in Cpus,
             \/ CallSchedule(c) \/ ScheduleEnter(c) \/ Collect(c)
             \/ MaintainDone(c)
      PROVE  RunInv'
  <2>1. UNCHANGED <<status, cur, outgoing, idleSaved>>
    BY ZenonT(60), <1>2 DEF CallSchedule, ScheduleEnter, Collect, MaintainDone, taskVars, switchVars
  <2>2. \E p \in Phases : /\ pc' = [pc EXCEPT ![c] = p]
                          /\ p \in {"run", "collect"} => pc[c] \in {"run", "collect"}
                          /\ p \in {"run", "collect", "sched", "maint", "drain"}
                          /\ pc[c] \notin OnOldStack
    BY Zenon, <1>2 DEF CallSchedule, Calling, ScheduleEnter, Collect, MaintainDone, Phases
  <2> QED
    BY Zenon, <2>1, <2>2 DEF RunInv
<1>3. ASSUME NEW c \in Cpus, \/ Exit(c)
                             \/ \E u \in Tasks : WaitTask(c, u)
                             \/ \E k \in Keys, d \in {0} \cup Deadlines : WaitEvent(c, k, d)
                             \/ \E d \in Deadlines : Sleep(c, d)
      PROVE  RunInv'
  <2>1. /\ cur[c] \in Tasks /\ status[cur[c]] = "Running"
        /\ \E s \in Blocked : status' = [status EXCEPT ![cur[c]] = s]
        /\ pc' = [pc EXCEPT ![c] = "sched"]
        /\ UNCHANGED <<cur, outgoing, idleSaved>>
    BY Zenon, <1>3, Blocks DEF switchVars
  <2>2. pc[c] = "run"
    BY ZenonT(60), <1>3 DEF Exit, WaitTask, WaitEvent, Sleep, Calling
  <2> QED
    BY <1>a, <2>1, <2>2 DEF RunInv, Blocked
<1>4. ASSUME NEW t \in Tasks, NEW home \in Cpus, Waking(t, home) PROVE RunInv'
  <2>1. /\ UNCHANGED <<pc, cur, outgoing, idleSaved>>
        /\ \A u \in Tasks : u # t => status'[u] = status[u]
        /\ Published(t) => status'[t] = "Running"
    BY Zenon, <1>4 DEF Waking, MakeRunnable, cpuVars
  <2>2. \A c \in Cpus : cur[c] = t => status'[t] = "Running"
    BY Zenon, <2>1 DEF Published
  <2> QED
    BY ZenonT(60), <2>1, <2>2 DEF RunInv
<1>5. ASSUME NEW c \in Cpus, AddUser(c) PROVE RunInv'
  <2>1. /\ UNCHANGED <<pc, cur, outgoing, idleSaved>>
        /\ status' = [status EXCEPT ![len + 1] = "Ready"]
    BY Zenon, <1>5 DEF AddUser, cpuVars
  <2>2. \A d \in Cpus : cur[d] # NONE => cur[d] # len + 1
    BY MaxTasksAssumption DEF RecordInv, Tasks
  <2> QED
    BY Zenon, <2>1, <2>2 DEF RunInv
<1>6. ASSUME NEW c \in Cpus, Drain(c) PROVE RunInv'
  <2>1. /\ UNCHANGED <<cur, outgoing, idleSaved>> /\ pc[c] = "drain"
        /\ pc' = [pc EXCEPT ![c] = "pick"]
        /\ \A t \in Tasks : status'[t] = status[t] \/ (handoff[c] # NONE /\ t = handoff[c])
    BY Zenon, <1>6 DEF Drain, switchVars
  <2>2. \A d \in Cpus : handoff[c] # NONE => cur[d] # handoff[c]
    BY Zenon DEF HandoffInv
  <2>3. ASSUME NEW d \in Cpus, cur[d] # NONE PROVE status'[cur[d]] = status[cur[d]]
    <3>1. cur[d] \in Tasks
      BY Zenon, <2>3
    <3> QED
      BY ZenonT(60), <2>1, <2>2, <3>1
  <2> QED
    BY ZenonT(40), <2>1, <2>3 DEF RunInv
<1>7. ASSUME NEW c \in Cpus, ClaimLocal(c) \/ Steal(c) PROVE RunInv'
  <2>1. PICK t \in Tasks : status[t] = "Ready" /\ status' = [status EXCEPT ![t] = "Claimed"]
    BY ZenonT(60), <1>7 DEF ClaimLocal, ClaimsAt, Steal, StealsAt, Stealable, Claimable
  <2>2. /\ UNCHANGED <<cur, outgoing, idleSaved>> /\ pc[c] = "pick"
        /\ pc' = [pc EXCEPT ![c] = "switch"]
    BY Zenon, <1>7 DEF ClaimLocal, Steal
  <2> QED
    BY Zenon, <2>1, <2>2 DEF RunInv
<1>8. ASSUME NEW c \in Cpus, PickReturn(c) PROVE RunInv'
  <2>1. /\ UNCHANGED <<status, cur, outgoing, idleSaved>> /\ pc[c] = "pick"
        /\ pc' = [pc EXCEPT ![c] = "run"] /\ ~CanIdle(c)
    BY Zenon, <1>8 DEF PickReturn, NothingToRun, taskVars, switchVars
  <2>2. cur[c] # NONE => status[cur[c]] = "Running"
    BY Zenon, <2>1 DEF CanIdle, RunInv
  <2> QED
    BY Zenon, <2>1, <2>2 DEF RunInv
<1>9. ASSUME NEW c \in Cpus, PickIdle(c) PROVE RunInv'
  <2>1. /\ UNCHANGED <<status, idleSaved>>
        /\ cur' = [cur EXCEPT ![c] = NONE]
        /\ \A d \in Cpus : d # c => pc'[d] = pc[d] /\ outgoing'[d] = outgoing[d]
    BY Zenon, <1>9 DEF PickIdle, taskVars
  <2> QED
    BY <2>1 DEF RunInv
<1>10. ASSUME NEW c \in Cpus, Switch(c) PROVE RunInv'
  <2>1. /\ SwitchTo(c) /\ pc[c] = "switch"
        /\ next[c] \in Tasks /\ status[next[c]] = "Claimed"
    BY Zenon, <1>10, NotRefused DEF ContextInv, AccountInv
  <2>2. /\ idleSaved' = idleSaved /\ cur' = [cur EXCEPT ![c] = next[c]]
        /\ outgoing' = [outgoing EXCEPT ![c] = cur[c]]
        /\ pc' = [pc EXCEPT ![c] = "prep"]
        /\ \A t \in Tasks : t # next[c] /\ t # cur[c] => status'[t] = status[t]
        /\ status'[next[c]] = "Running"
    BY Zenon, <2>1 DEF SwitchTo
  <2>3. idleSaved'[c] \/ outgoing'[c] = NONE
    BY Zenon, <2>1, <2>2 DEF RunInv
  <2>4. \A d \in Cpus : d # c /\ cur[d] # NONE => cur[d] # next[c] /\ cur[d] # cur[c]
    BY Zenon, <1>a, <2>1 DEF RunInv
  <2>5. ASSUME NEW d \in Cpus, d # c, cur'[d] # NONE
        PROVE  /\ cur'[d] = cur[d] /\ cur[d] # NONE /\ status'[cur[d]] = status[cur[d]]
               /\ pc'[d] = pc[d] /\ outgoing'[d] = outgoing[d] /\ idleSaved'[d] = idleSaved[d]
    BY ZenonT(60), <2>2, <2>4, <2>5
  <2>6. /\ cur'[c] = next[c] /\ status'[cur'[c]] = "Running" /\ pc'[c] = "prep"
    BY Zenon, <2>1, <2>2
  <2> QED
    BY <2>3, <2>5, <2>6 DEF RunInv
<1>11. ASSUME NEW c \in Cpus, PrepareSwitch(c) PROVE RunInv'
  BY Zenon, <1>11 DEF PrepareSwitch, taskVars, RunInv
<1>12. ASSUME NEW c \in Cpus, SwitchStack(c) PROVE RunInv'
  <2>1. /\ UNCHANGED <<status, cur>> /\ pc[c] = "save"
        /\ idleSaved' = [idleSaved EXCEPT ![c] = @ \/ outgoing[c] = NONE]
        /\ pc'[c] \in {"run", "release"}
        /\ \A d \in Cpus : d # c => pc'[d] = pc[d] /\ outgoing'[d] = outgoing[d]
    BY Zenon, <1>12 DEF SwitchStack, Finish, GoOn
  <2>2. cur[c] # NONE => idleSaved'[c] /\ status[cur[c]] = "Running"
    BY ZenonT(60), <2>1 DEF RunInv
  <2>3. \A d \in Cpus : d # c => idleSaved'[d] = idleSaved[d]
    BY Zenon, <2>1
  <2> QED
    BY <2>1, <2>2, <2>3 DEF RunInv
<1>13. ASSUME NEW c \in Cpus, Release(c) \/ PublishHandoff(c) \/ PublishRetired(c)
       PROVE  RunInv'
  <2>1. /\ UNCHANGED <<status, cur, idleSaved>>
        /\ pc[c] \in {"release", "handoff", "retire"}
        /\ pc'[c] \in {"handoff", "retire", "run"}
        /\ \A d \in Cpus : d # c => pc'[d] = pc[d] /\ outgoing'[d] = outgoing[d]
    BY Zenon, <1>13 DEF Release, PublishHandoff, PublishRetired, Finish, GoOn, taskVars
  <2> QED
    BY Zenon, <2>1 DEF RunInv
<1>14. ASSUME \/ WakeEventTask
              \/ \E c \in Cpus : MaintainWakeWaiter(c) \/ MaintainWake(c)
       PROVE  RunInv'
  BY Zenon, <1>4, <1>14, WakeupSteps DEF ContextInv, AccountInv
<1>15. ASSUME \/ UNCHANGED vars
              \/ Tick
              \/ \E k \in Keys : WakeEvent(k) \/ ForgetEvent(k)
              \/ \E c \in Cpus : WaitTaskReturn(c) \/ MaintainReap(c) \/ MaintainSkip(c)
       PROVE  RunInv'
  <2>1. UNCHANGED <<status, pc, cur, outgoing, idleSaved>>
    BY ZenonT(60), <1>15 DEF vars, taskVars, cpuVars, Tick, WakeEvent, ForgetEvent,
       WaitTaskReturn, MaintainReap, MaintainSkip
  <2> QED
    BY Zenon, <1>1, <2>1
<1> QED
  BY ZenonT(60), <1>2, <1>3, <1>5, <1>6, <1>7, <1>8, <1>9, <1>10, <1>11, <1>12, <1>13,
     <1>14, <1>15 DEF Next, Critical, SwitchSteps, Call
\* A task on its way out stays with the CPU that left it.
LEMMA CarryStep ==
  ASSUME TypeOK, ContextInv, AccountInv, [Next]_vars
  PROVE  CarryInv'
<1>0. /\ status \in [Tasks -> Statuses] /\ len \in 0 .. MaxTasks
      /\ pc \in [Cpus -> Phases] /\ cur \in [Cpus -> {NONE} \cup Tasks]
      /\ outgoing \in [Cpus -> {NONE} \cup Tasks] /\ encoded \in [Cpus -> BOOLEAN]
      /\ handoff \in [Cpus -> {NONE} \cup Tasks]
      /\ retiring \in [Cpus -> Stacks \cup {NULL}]
      /\ CarryInv /\ QueueInv /\ LockInv /\ SwitchInv /\ RecordInv /\ HandoffInv
  BY Zenon DEF TypeOK, TaskTypeOK, CpuTypeOK, SharedTypeOK, AccountInv, ContextInv, QueueInv
<1> DEFINE Busy == {"pick", "switch"} \cup Switching
           Carried(t) == \E c \in Cpus : (outgoing[c] = t /\ encoded[c]) \/ handoff[c] = t
<1> USE Names
<1>1. ASSUME \A t \in Tasks : status'[t] = "SwitchingOut" => status[t] = "SwitchingOut",
             UNCHANGED <<outgoing, encoded, handoff>>,
             \A c \in Cpus : pc'[c] \in Busy => pc[c] \in Busy
      PROVE  CarryInv'
  BY Zenon, <1>0, <1>1 DEF CarryInv
<1>2. ASSUME NEW c \in Cpus,
             \/ CallSchedule(c) \/ ScheduleEnter(c) \/ Collect(c)
             \/ WaitTaskReturn(c) \/ MaintainReap(c) \/ MaintainSkip(c)
             \/ MaintainDone(c) \/ PickReturn(c) \/ PrepareSwitch(c)
      PROVE  CarryInv'
  <2>1. UNCHANGED <<status, outgoing, encoded, handoff>>
    BY ZenonT(60), <1>2 DEF CallSchedule, ScheduleEnter, Collect, WaitTaskReturn, MaintainReap,
       MaintainSkip, MaintainDone, PickReturn, PrepareSwitch, taskVars,
       switchVars, sharedVars, cpuVars
  <2>2. \A d \in Cpus : pc'[d] \in Busy => pc[d] \in Busy
    BY ZenonT(40), <1>0, <1>2 DEF CallSchedule, ScheduleEnter, Collect, WaitTaskReturn, MaintainReap,
       MaintainSkip, MaintainDone, PickReturn, PrepareSwitch, cpuVars, Switching
  <2> QED
    BY Zenon, <1>1, <2>1, <2>2
<1>3. ASSUME \/ UNCHANGED vars
             \/ Tick
             \/ \E k \in Keys : WakeEvent(k) \/ ForgetEvent(k)
      PROVE  CarryInv'
  BY Zenon, <1>1, <1>3 DEF vars, taskVars, cpuVars, sharedVars, Tick, WakeEvent, ForgetEvent
<1>4. ASSUME NEW c \in Cpus, \/ Exit(c)
                             \/ \E u \in Tasks : WaitTask(c, u)
                             \/ \E k \in Keys, d \in {0} \cup Deadlines : WaitEvent(c, k, d)
                             \/ \E d \in Deadlines : Sleep(c, d)
      PROVE  CarryInv'
  <2>1. /\ cur[c] \in Tasks
        /\ \E s \in Blocked : status' = [status EXCEPT ![cur[c]] = s]
        /\ pc' = [pc EXCEPT ![c] = "sched"]
        /\ UNCHANGED <<outgoing, encoded, handoff>>
    BY Zenon, <1>4, Blocks DEF switchVars
  <2> QED
    BY Zenon, <1>0, <1>1, <2>1 DEF Blocked, Switching
<1>5. ASSUME NEW t \in Tasks, NEW home \in Cpus, Waking(t, home) PROVE CarryInv'
  BY Zenon, <1>0, <1>1, <1>5 DEF Waking, MakeRunnable, cpuVars
<1>6. ASSUME NEW c \in Cpus, AddUser(c) PROVE CarryInv'
  <2>1. /\ status' = [status EXCEPT ![len + 1] = "Ready"]
        /\ UNCHANGED <<pc, outgoing, encoded, handoff>>
    BY Zenon, <1>6 DEF AddUser, cpuVars
  <2> QED
    BY Zenon, <1>0, <1>1, <2>1
<1>7. ASSUME NEW c \in Cpus, Drain(c) PROVE CarryInv'
  <2>1. /\ UNCHANGED <<outgoing, encoded>> /\ pc' = [pc EXCEPT ![c] = "pick"]
        /\ handoff' = [handoff EXCEPT ![c] = NONE]
        /\ \A t \in Tasks : status'[t] = "SwitchingOut" =>
             status[t] = "SwitchingOut" /\ handoff[c] # t
    BY Zenon, <1>0, <1>7 DEF Drain, switchVars
  <2>2. \A t \in Tasks : status'[t] = "SwitchingOut" => Carried(t)'
    BY <1>0, <2>1 DEF CarryInv
  <2> QED
    BY ZenonT(40), <1>0, <2>1, <2>2 DEF CarryInv
<1>8. ASSUME NEW c \in Cpus, ClaimLocal(c) \/ Steal(c) PROVE CarryInv'
  <2>1. PICK t \in Tasks : status' = [status EXCEPT ![t] = "Claimed"]
    BY ZenonT(60), <1>8 DEF ClaimLocal, ClaimsAt, Steal, StealsAt, Stealable, Claimable
  <2>2. /\ UNCHANGED <<outgoing, encoded, handoff>> /\ pc[c] = "pick"
        /\ pc' = [pc EXCEPT ![c] = "switch"]
    BY Zenon, <1>8 DEF ClaimLocal, Steal
  <2> QED
    BY Zenon, <1>0, <1>1, <2>1, <2>2
<1>9. ASSUME NEW c \in Cpus, PickIdle(c) PROVE CarryInv'
  <2>1. /\ UNCHANGED <<status, handoff>> /\ pc[c] = "pick"
        /\ pc' = [pc EXCEPT ![c] = "prep"]
        /\ outgoing' = [outgoing EXCEPT ![c] = cur[c]]
        /\ encoded' = [encoded EXCEPT ![c] = FALSE]
    BY Zenon, <1>9 DEF PickIdle, NothingToRun, taskVars
  <2>2. ~encoded[c]
    BY Zenon, <1>0, <2>1 DEF SwitchInv, Switching
  <2>3. \A t \in Tasks : status'[t] = "SwitchingOut" => Carried(t)'
    BY <1>0, <2>1, <2>2 DEF CarryInv
  <2> QED
    BY Zenon, <1>0, <2>1, <2>3 DEF CarryInv
<1>10. ASSUME NEW c \in Cpus, Switch(c) PROVE CarryInv'
  <2>1. SwitchTo(c) /\ pc[c] = "switch" /\ next[c] \in Tasks
    BY Zenon, <1>10, NotRefused DEF ContextInv, AccountInv
  <2>2. /\ handoff' = handoff /\ pc' = [pc EXCEPT ![c] = "prep"]
        /\ outgoing' = [outgoing EXCEPT ![c] = cur[c]]
        /\ encoded' = [encoded EXCEPT ![c] = Preempts(c)]
        /\ \A t \in Tasks : status'[t] = "SwitchingOut" =>
             status[t] = "SwitchingOut" \/ (Preempts(c) /\ t = cur[c])
    BY Zenon, <2>1 DEF SwitchTo
  <2>3. ~encoded[c]
    BY Zenon, <1>0, <2>1 DEF SwitchInv, Switching
  <2>4. ASSUME NEW t \in Tasks, status'[t] = "SwitchingOut" PROVE Carried(t)'
    <3>1. CASE Preempts(c) /\ t = cur[c]
      <4>1. outgoing'[c] = t /\ encoded'[c]
        BY Zenon, <1>0, <2>2, <3>1
      <4> QED
        BY Zenon, <4>1
    <3>2. CASE status[t] = "SwitchingOut"
      BY <1>0, <2>2, <2>3, <3>2 DEF CarryInv
    <3> QED
      BY Zenon, <2>2, <2>4, <3>1, <3>2
  <2> QED
    BY Zenon, <1>0, <2>1, <2>2, <2>4 DEF CarryInv
<1>11. ASSUME NEW c \in Cpus, SwitchStack(c) \/ Release(c) \/ PublishRetired(c)
       PROVE  CarryInv'
  <2>4. Finish(c) \/ \E phase : GoOn(c, phase)
    BY ZenonT(60), <1>11 DEF SwitchStack, Release, PublishRetired
  <2>1. /\ UNCHANGED <<status, handoff>> /\ pc[c] \in Switching
        /\ \A d \in Cpus : d # c => pc'[d] = pc[d]
    <3>1. UNCHANGED <<status, handoff>> /\ pc[c] \in Switching
      BY ZenonT(60), <1>11 DEF SwitchStack, Release, PublishRetired, taskVars, sharedVars, Switching
    <3>2. \A d \in Cpus : d # c => pc'[d] = pc[d]
      BY Zenon, <1>0, <2>4 DEF Finish, GoOn
    <3> QED
      BY Zenon, <3>1, <3>2
  <2>2. CASE encoded[c]
    <3>1. /\ outgoing[c] # NONE /\ status[outgoing[c]] = "SwitchingOut"
          /\ retiring[c] = NULL
      BY Zenon, <1>0, <2>2 DEF SwitchInv, HandoffInv
    <3>2. ~PublishRetired(c)
      BY Zenon, <1>0, <3>1 DEF PublishRetired, SwitchInv
    <3>3. UNCHANGED <<outgoing, encoded>>
      BY ZenonT(60), <1>11, <2>2, <3>1, <3>2 DEF SwitchStack, Release, GoOn
    <3> QED
      BY Zenon, <1>0, <1>1, <2>1, <3>3
  <2>3. CASE ~encoded[c]
    <3>1. /\ \A d \in Cpus : d # c => outgoing'[d] = outgoing[d] /\ encoded'[d] = encoded[d]
      BY Zenon, <1>0, <2>4 DEF GoOn, Finish
    <3>2. \A t \in Tasks : status'[t] = "SwitchingOut" => Carried(t)'
      BY Zenon, <1>0, <2>1, <2>3, <3>1 DEF CarryInv
    <3> QED
      BY Zenon, <1>0, <2>1, <3>2 DEF CarryInv
  <2> QED
    BY Zenon, <2>2, <2>3
<1>12. ASSUME NEW c \in Cpus, PublishHandoff(c) PROVE CarryInv'
  <2>1. /\ pc[c] = "handoff" /\ status' = status
        /\ handoff' = [handoff EXCEPT ![c] = outgoing[c]]
        /\ outgoing' = [outgoing EXCEPT ![c] = NONE]
        /\ encoded' = [encoded EXCEPT ![c] = FALSE]
        /\ pc' = [pc EXCEPT ![c] = "run"]
    BY Zenon, <1>12 DEF PublishHandoff, Finish, taskVars
  <2>2. handoff[c] = NONE
    BY Zenon, <1>0, <2>1 DEF CarryInv, Switching
  <2>3. \A t \in Tasks : status'[t] = "SwitchingOut" => Carried(t)'
    BY <1>0, <2>1, <2>2 DEF CarryInv
  <2> QED
    BY Zenon, <1>0, <2>1, <2>3 DEF CarryInv, Switching
<1>13. ASSUME \/ WakeEventTask
              \/ \E c \in Cpus : MaintainWakeWaiter(c) \/ MaintainWake(c)
       PROVE  CarryInv'
  BY Zenon, <1>5, <1>13, WakeupSteps DEF ContextInv, AccountInv
<1> QED
  BY ZenonT(60), <1>2, <1>3, <1>4, <1>6, <1>7, <1>8, <1>9, <1>10, <1>11, <1>12, <1>13
     DEF Next, Critical, SwitchSteps, Call
\* Task t is in the queue of CPU c.
Queued(c, t) == \E p \in 1 .. Len(queues[c]) : queues[c][p] = t

\* Queueing a task adds it to its home queue and to no other.
LEMMA EnqueuedEntries ==
  ASSUME QueueInv, NEW home \in Cpus, NEW t \in Tasks, Enqueue(home, t)
  PROVE  \A c \in Cpus, u \in Tasks : Queued(c, u)' => Queued(c, u) \/ (c = home /\ u = t)
<1> SUFFICES ASSUME NEW c \in Cpus, NEW u \in Tasks, Queued(c, u)'
             PROVE  Queued(c, u) \/ (c = home /\ u = t)
  OBVIOUS
<1>1. queues \in [Cpus -> Seq(Tasks)] /\ queues[home] \in Seq(Tasks)
  BY Zenon DEF QueueInv
<1>2. PICK k \in 1 .. Len(queues'[c]) : queues'[c][k] = u
  BY Zenon DEF Queued
<1>3. CASE c # home
  <2>1. queues'[c] = queues[c]
    BY Zenon, <1>1, <1>3 DEF Enqueue
  <2> QED
    BY Zenon, <1>2, <2>1 DEF Queued
<1>4. CASE c = home
  <2>1. queues'[c] = Append(queues[c], t) /\ queues[c] \in Seq(Tasks)
    BY Zenon, <1>1, <1>4 DEF Enqueue
  <2>2. \/ k \in 1 .. Len(queues[c]) /\ queues[c][k] = u
        \/ u = t
    BY <1>2, <2>1
  <2> QED
    BY Zenon, <1>4, <2>2 DEF Queued
<1> QED
  BY Zenon, <1>3, <1>4

\* A pinned task stays with its CPU.
LEMMA PinStep ==
  ASSUME TypeOK, ContextInv, AccountInv, [Next]_vars
  PROVE  PinInv'
<1>0. /\ status \in [Tasks -> Statuses] /\ len \in 0 .. MaxTasks
      /\ affinity \in [Tasks -> Cpus] /\ pinned \in [Tasks -> {NONE, 0}]
      /\ cur \in [Cpus -> {NONE} \cup Tasks] /\ next \in [Cpus -> {NONE} \cup Tasks]
      /\ outgoing \in [Cpus -> {NONE} \cup Tasks] /\ handoff \in [Cpus -> {NONE} \cup Tasks]
      /\ PinInv /\ QueueInv /\ LockInv /\ OwnerInv /\ RecordInv /\ HandoffInv /\ RunInv
  BY Zenon DEF TypeOK, TaskTypeOK, CpuTypeOK, SharedTypeOK, AccountInv, ContextInv, QueueInv
<1> USE Names
<1> DEFINE Known(c, t) == \/ cur[c] = t \/ next[c] = t \/ outgoing[c] = t \/ handoff[c] = t
                          \/ Queued(c, t)
<1>a. \A t \in Tasks : pinned[t] # NONE =>
        affinity[t] = pinned[t] /\ \A c \in Cpus : Known(c, t) => c = pinned[t]
  BY <1>0 DEF PinInv, Queued
<1>b. ASSUME \A t \in Tasks : pinned'[t] # NONE =>
               affinity'[t] = pinned'[t] /\ \A c \in Cpus : Known(c, t)' => c = pinned'[t]
      PROVE  PinInv'
  BY <1>b DEF PinInv, Queued
<1> HIDE DEF Known
<1>c. ASSUME pinned' = pinned,
             \A t \in Tasks : pinned[t] # NONE => affinity'[t] = affinity[t],
             \A c \in Cpus, t \in Tasks : pinned[t] # NONE /\ Known(c, t)' =>
               Known(c, t) \/ c = pinned[t]
      PROVE  PinInv'
  BY ZenonT(60), <1>a, <1>b, <1>c
<1>1. ASSUME \/ UNCHANGED vars
             \/ Tick
             \/ \E k \in Keys : WakeEvent(k) \/ ForgetEvent(k)
             \/ \E c \in Cpus :
                  \/ CallSchedule(c) \/ ScheduleEnter(c) \/ Collect(c)
                  \/ WaitTaskReturn(c) \/ MaintainReap(c) \/ MaintainSkip(c)
                  \/ MaintainDone(c) \/ PickReturn(c) \/ PickIdle(c)
                  \/ PrepareSwitch(c) \/ SwitchStack(c) \/ Release(c)
                  \/ PublishHandoff(c) \/ PublishRetired(c)
      PROVE  PinInv'
  <2>1. queues' = queues
    BY ZenonT(60), <1>0, <1>1, StatusKept
  <2>2. UNCHANGED <<affinity, pinned>>
    <3>1. CASE UNCHANGED vars \/ Tick \/ \E k \in Keys : WakeEvent(k) \/ ForgetEvent(k)
      BY ZenonT(60), <3>1 DEF vars, taskVars, Tick, WakeEvent, ForgetEvent
    <3>2. ASSUME NEW c \in Cpus,
                 \/ CallSchedule(c) \/ ScheduleEnter(c) \/ Collect(c)
                 \/ WaitTaskReturn(c) \/ MaintainReap(c) \/ MaintainSkip(c)
                 \/ MaintainDone(c)
          PROVE  UNCHANGED <<affinity, pinned>>
      BY ZenonT(60), <3>2 DEF CallSchedule, ScheduleEnter, Collect, WaitTaskReturn,
         MaintainReap, MaintainSkip, MaintainDone, taskVars
    <3>3. ASSUME NEW c \in Cpus,
                 \/ PickReturn(c) \/ PickIdle(c)
                 \/ PrepareSwitch(c) \/ SwitchStack(c) \/ Release(c)
                 \/ PublishHandoff(c) \/ PublishRetired(c)
          PROVE  UNCHANGED <<affinity, pinned>>
      BY ZenonT(60), <3>3 DEF PickReturn, PickIdle, PrepareSwitch, SwitchStack, Release,
         PublishHandoff, PublishRetired, taskVars
    <3> QED
      BY ZenonT(60), <1>1, <3>1, <3>2, <3>3
  <2>3. ASSUME NEW c \in Cpus, NEW t \in Tasks
        PROVE  /\ cur'[c] = t => cur[c] = t
               /\ next'[c] = t => next[c] = t
               /\ outgoing'[c] = t => outgoing[c] = t \/ cur[c] = t
               /\ handoff'[c] = t => handoff[c] = t \/ outgoing[c] = t
    <3>1. CASE UNCHANGED vars \/ Tick \/ \E k \in Keys : WakeEvent(k) \/ ForgetEvent(k)
      BY Zenon, <3>1 DEF vars, cpuVars, sharedVars, Tick, WakeEvent, ForgetEvent
    <3>2. ASSUME NEW d \in Cpus,
                 \/ CallSchedule(d) \/ ScheduleEnter(d) \/ Collect(d)
                 \/ WaitTaskReturn(d) \/ MaintainReap(d) \/ MaintainSkip(d)
                 \/ MaintainDone(d) \/ PickReturn(d) \/ PrepareSwitch(d)
          PROVE  UNCHANGED <<cur, next, outgoing, handoff>>
      BY ZenonT(60), <3>2 DEF CallSchedule, ScheduleEnter, Collect, WaitTaskReturn,
         MaintainReap, MaintainSkip, MaintainDone, PickReturn, PrepareSwitch,
         switchVars, cpuVars, sharedVars
    <3>3. ASSUME NEW d \in Cpus, PickIdle(d)
          PROVE  /\ cur' = [cur EXCEPT ![d] = NONE] /\ UNCHANGED <<next, handoff>>
                 /\ outgoing' = [outgoing EXCEPT ![d] = cur[d]]
      BY Zenon, <3>3 DEF PickIdle
    <3>4. ASSUME NEW d \in Cpus, SwitchStack(d) \/ Release(d) \/ PublishRetired(d)
          PROVE  /\ UNCHANGED <<cur, next, handoff>>
                 /\ outgoing' = outgoing \/ outgoing' = [outgoing EXCEPT ![d] = NONE]
      BY ZenonT(60), <3>4 DEF SwitchStack, Release, PublishRetired, Finish, GoOn, sharedVars
    <3>5. ASSUME NEW d \in Cpus, PublishHandoff(d)
          PROVE  /\ UNCHANGED <<cur, next>> /\ outgoing' = [outgoing EXCEPT ![d] = NONE]
                 /\ handoff' = [handoff EXCEPT ![d] = outgoing[d]]
      BY Zenon, <3>5 DEF PublishHandoff, Finish
    <3> DEFINE Goal == /\ cur'[c] = t => cur[c] = t
                       /\ next'[c] = t => next[c] = t
                       /\ outgoing'[c] = t => outgoing[c] = t \/ cur[c] = t
                       /\ handoff'[c] = t => handoff[c] = t \/ outgoing[c] = t
    <3>6. ASSUME NEW d \in Cpus, PickIdle(d) PROVE Goal
      BY Zenon, <1>0, <3>3, <3>6
    <3>7. ASSUME NEW d \in Cpus, SwitchStack(d) \/ Release(d) \/ PublishRetired(d) PROVE Goal
      BY Zenon, <1>0, <3>4, <3>7
    <3>8. ASSUME NEW d \in Cpus, PublishHandoff(d) PROVE Goal
      BY <1>0, <3>5, <3>8
    <3> QED
      BY ZenonT(60), <1>1, <3>1, <3>2, <3>6, <3>7, <3>8
  <2> QED
    BY <1>c, <2>1, <2>2, <2>3 DEF Known, Queued
<1>2. ASSUME NEW c \in Cpus, \/ Exit(c)
                             \/ \E u \in Tasks : WaitTask(c, u)
                             \/ \E k \in Keys, d \in {0} \cup Deadlines : WaitEvent(c, k, d)
                             \/ \E d \in Deadlines : Sleep(c, d)
      PROVE  PinInv'
  <2>1. UNCHANGED <<affinity, pinned, cur, next, outgoing, queues, handoff>>
    BY Zenon, <1>2, Blocks DEF switchVars
  <2> QED
    BY Zenon, <1>c, <2>1 DEF Known, Queued
<1>3. ASSUME NEW c \in Cpus, AddUser(c) PROVE PinInv'
  <2> DEFINE n == len + 1
  <2>1. n \in Tasks /\ status[n] = "Absent"
    BY <1>0, <1>3, MaxTasksAssumption DEF AddUser, Tasks, RecordInv
  <2>2. PICK home \in Cpus : /\ len = 0 => home = 0
                             /\ affinity' = [affinity EXCEPT ![n] = home]
                             /\ pinned' = [pinned EXCEPT ![n] = PinOf(home)]
                             /\ Enqueue(home, n)
    BY ZenonT(60), <1>3 DEF AddUser
  <2>3. UNCHANGED <<cur, next, outgoing, handoff>>
    BY Zenon, <1>3 DEF AddUser, cpuVars
  <2>4. \A d \in Cpus : ~Known(d, n)
    <3>1. \A d \in Cpus : ~Queued(d, n)
      BY ZenonT(60), <1>0, <2>1 DEF Queued, QueueInv, ReadyIffQueuedOnce
    <3>2. \A d \in Cpus : cur[d] # n /\ outgoing[d] # n
      BY Zenon, <1>0, <2>1 DEF RecordInv
    <3>3. \A d \in Cpus : next[d] # n /\ handoff[d] # n
      BY ZenonT(40), <1>0, <2>1 DEF OwnerInv, HandoffInv
    <3> QED
      BY Zenon, <3>1, <3>2, <3>3 DEF Known
  <2> HIDE DEF n
  <2>5. \A d \in Cpus, t \in Tasks : Known(d, t)' => Known(d, t) \/ (d = home /\ t = n)
    BY Zenon, <1>0, <2>1, <2>2, <2>3, EnqueuedEntries DEF Known
  <2>6. pinned'[n] # NONE => home = 0 /\ pinned'[n] = 0 /\ affinity'[n] = 0
    BY Zenon, <1>0, <2>1, <2>2 DEF PinOf
  <2>7. \A t \in Tasks : t # n => pinned'[t] = pinned[t] /\ affinity'[t] = affinity[t]
    BY Zenon, <1>0, <2>2
  <2> QED
    BY ZenonT(60), <1>a, <1>b, <2>1, <2>4, <2>5, <2>6, <2>7
<1>4. ASSUME NEW t \in Tasks, NEW home \in Cpus, Waking(t, home) PROVE PinInv'
  <2>1. /\ UNCHANGED <<affinity, pinned, cur, next, outgoing, handoff>>
        /\ pinned[t] \in {NONE, home}
        /\ queues' = queues \/ Enqueue(home, t)
    BY Zenon, <1>4 DEF Waking, MakeRunnable, cpuVars
  <2>2. \A d \in Cpus, u \in Tasks : Known(d, u)' => Known(d, u) \/ (d = home /\ u = t)
    <3>1. CASE queues' = queues
      BY Zenon, <2>1, <3>1 DEF Known, Queued
    <3>2. CASE Enqueue(home, t)
      BY Zenon, <1>0, <2>1, <3>2, EnqueuedEntries DEF Known
    <3> QED
      BY Zenon, <2>1, <3>1, <3>2
  <2> QED
    BY Zenon, <1>c, <2>1, <2>2
<1>5. ASSUME NEW c \in Cpus, Drain(c) PROVE PinInv'
  <2>1. /\ UNCHANGED <<pinned, cur, next, outgoing>>
        /\ handoff' = [handoff EXCEPT ![c] = NONE]
    BY Zenon, <1>5 DEF Drain, switchVars
  <2>2. CASE handoff[c] # NONE /\ status[handoff[c]] = "SwitchingOut"
    <3> DEFINE t == handoff[c]
    <3>1. t \in Tasks /\ Enqueue(c, t) /\ affinity' = [affinity EXCEPT ![t] = c]
      BY Zenon, <1>0, <1>5, <2>2 DEF Drain
    <3>2. Known(c, t)
      BY Zenon DEF Known
    <3> HIDE DEF t
    <3>3. \A d \in Cpus, u \in Tasks : Known(d, u)' => Known(d, u) \/ (d = c /\ u = t)
      BY Zenon, <1>0, <2>1, <3>1, EnqueuedEntries DEF Known
    <3>4. \A u \in Tasks : pinned[u] # NONE => affinity'[u] = affinity[u]
      BY Zenon, <1>0, <1>a, <3>1, <3>2
    <3> QED
      BY Zenon, <1>c, <2>1, <3>2, <3>3, <3>4
  <2>3. CASE ~(handoff[c] # NONE /\ status[handoff[c]] = "SwitchingOut")
    <3>1. UNCHANGED <<affinity, queues>>
      BY Zenon, <1>5, <2>3 DEF Drain
    <3>2. \A d \in Cpus, u \in Tasks : Known(d, u)' => Known(d, u)
      BY Zenon, <1>0, <2>1, <3>1 DEF Known, Queued
    <3> QED
      BY Zenon, <1>c, <2>1, <3>1, <3>2
  <2> QED
    BY Zenon, <2>2, <2>3
<1>6. ASSUME NEW c \in Cpus, ClaimLocal(c) \/ Steal(c) PROVE PinInv'
  <2>1. PICK v \in Cpus : \E p \in 1 .. Len(queues[v]) : \E r : Takes(c, v, p, r)
    BY Zenon, <1>0, <1>6, ClaimTakes
  <2>2. PICK p \in 1 .. Len(queues[v]) : \E r : Takes(c, v, p, r)
    BY Zenon, <2>1
  <2>3. PICK r : Takes(c, v, p, r)
    BY Zenon, <2>2
  <2> DEFINE t == queues[v][p]
  <2>4. UNCHANGED <<pinned, cur, outgoing, handoff>>
    BY Zenon, <1>6 DEF ClaimLocal, Steal
  <2>5. /\ t \in Tasks /\ next' = [next EXCEPT ![c] = t] /\ (v = c \/ pinned[t] = NONE)
        /\ affinity' = affinity \/ (pinned[t] = NONE /\ affinity' = [affinity EXCEPT ![t] = c])
        /\ queues' = [queues EXCEPT ![v] = r]
    BY Zenon, <2>3 DEF Takes
  <2>6. Known(v, t)
    BY Zenon DEF Known, Queued
  <2>7. \A d \in Cpus, u \in Tasks : Queued(d, u)' => Queued(d, u)
    <3> SUFFICES ASSUME NEW d \in Cpus, NEW u \in Tasks, Queued(d, u)'
                 PROVE  Queued(d, u)
      OBVIOUS
    <3>0. queues \in [Cpus -> Seq(Tasks)]
      BY Zenon, <1>0 DEF QueueInv
    <3>1. PICK k \in 1 .. Len(queues'[d]) : queues'[d][k] = u
      BY Zenon DEF Queued
    <3>2. CASE d = v
      <4>1. queues'[d] = r
        BY Zenon, <2>5, <3>0, <3>2
      <4>2. PICK l \in 1 .. Len(queues[v]) : r[k] = queues[v][l]
        BY ZenonT(60), <2>3, <3>1, <4>1 DEF Takes, Without
      <4> QED
        BY Zenon, <3>1, <3>2, <4>1, <4>2 DEF Queued
    <3>3. CASE d # v
      <4>1. queues'[d] = queues[d]
        BY Zenon, <2>5, <3>0, <3>3
      <4> QED
        BY Zenon, <3>1, <4>1 DEF Queued
    <3> QED
      BY Zenon, <3>2, <3>3
  <2> HIDE DEF t
  <2>8. \A d \in Cpus, u \in Tasks : Known(d, u)' => Known(d, u) \/ (d = c /\ u = t)
    BY Zenon, <1>0, <2>4, <2>5, <2>7 DEF Known
  <2>9. \A u \in Tasks : pinned[u] # NONE => affinity'[u] = affinity[u]
    BY Zenon, <1>0, <2>5
  <2>10. pinned[t] # NONE => c = pinned[t]
    BY Zenon, <1>a, <2>5, <2>6
  <2> QED
    BY Zenon, <1>c, <2>4, <2>8, <2>9, <2>10
<1>7. ASSUME NEW c \in Cpus, Switch(c) PROVE PinInv'
  <2>1. SwitchTo(c) /\ next[c] \in Tasks /\ pinned[next[c]] \in {NONE, c}
    BY Zenon, <1>7, NotRefused DEF ContextInv, AccountInv
  <2>2. /\ affinity' = [affinity EXCEPT ![next[c]] = c]
        /\ outgoing' = [outgoing EXCEPT ![c] = cur[c]]
        /\ cur' = [cur EXCEPT ![c] = next[c]]
        /\ next' = [next EXCEPT ![c] = NONE]
        /\ UNCHANGED <<pinned, queues, handoff>>
    BY Zenon, <2>1 DEF SwitchTo
  <2>3. \A u \in Tasks : pinned[u] # NONE => affinity'[u] = affinity[u]
    BY Zenon, <1>0, <1>a, <2>1, <2>2
  <2>4. \A d \in Cpus, u \in Tasks : Known(d, u)' => Known(d, u)
    BY Zenon, <1>0, <2>2 DEF Known, Queued
  <2> QED
    BY Zenon, <1>c, <2>2, <2>3, <2>4
<1>8. ASSUME \/ WakeEventTask
             \/ \E c \in Cpus : MaintainWakeWaiter(c) \/ MaintainWake(c)
      PROVE  PinInv'
  BY Zenon, <1>4, <1>8, WakeupSteps DEF ContextInv, AccountInv
<1> QED
  BY ZenonT(60), <1>1, <1>2, <1>3, <1>5, <1>6, <1>7, <1>8
     DEF Next, Critical, SwitchSteps, Call

----------------------------------------------------------------------------
\* Every step preserves AccountInv.
LEMMA AccountStep ==
  ASSUME TypeOK, ContextInv, AccountInv, [Next]_vars
  PROVE  AccountInv'
<1>1. QueueInv'
  BY Zenon, QueueStep
<1>2. RunInv' /\ CarryInv' /\ PinInv'
  BY Zenon, RunStep, CarryStep, PinStep
<1>3. DeadlineInv' /\ TodoInv' /\ JoinInv' /\ NoLostWakeup'
  BY Zenon, DeadlineStep, TodoStep, JoinStep, WakeupStep
<1> QED
  BY Zenon, <1>1, <1>2, <1>3 DEF AccountInv, QueueInv

----------------------------------------------------------------------------
(* The invariant and what follows from it.                                 *)

\* No task exists at first, so nothing is queued, waited for or joined.
LEMMA InitAccount == Init => AccountInv
<1> SUFFICES ASSUME Init PROVE AccountInv
  OBVIOUS
<1>1. queues \in [Cpus -> Seq(Tasks)] /\ \A c \in Cpus : queues[c] = <<>>
  BY DEF Init
<1>2. \A c \in Cpus : Len(queues[c]) = 0
  BY <1>1
<1>3. ReadyIffQueuedOnce
  BY <1>2 DEF Init, ReadyIffQueuedOnce
<1>4. RunInv /\ CarryInv
  BY Zenon, Names DEF Init, RunInv, CarryInv
<1>5. PinInv /\ DeadlineInv /\ TodoInv /\ JoinInv /\ NoLostWakeup
  BY Zenon, Names DEF Init, PinInv, DeadlineInv, TodoInv, JoinInv, NoLostWakeup
<1> QED
  BY Zenon, <1>1, <1>3, <1>4, <1>5 DEF AccountInv

\* SchedulerInv is an inductive invariant: it holds in every reachable state
\* of the scheduler, whatever the number of CPUs and tasks.
THEOREM Invariant == Spec => [](TypeOK /\ SchedulerInv)
<1>1. TypeOK /\ SchedulerInv /\ [Next]_vars => (TypeOK /\ SchedulerInv)'
  <2> SUFFICES ASSUME TypeOK, SchedulerInv, [Next]_vars
               PROVE  TypeOK' /\ SchedulerInv'
    OBVIOUS
  <2>1. LockInv /\ SwitchInv /\ StackPart /\ ContextInv /\ AccountInv
    BY Zenon DEF SchedulerInv, ContextInv, StackPart
  <2>2. TypeOK' /\ LockInv' /\ StackPart'
    BY Zenon, <2>1, TypeStep, LockStep, StackPartStep
  <2>3. AccountInv'
    BY Zenon, <2>1, AccountStep
  <2> QED
    BY Zenon, <2>2, <2>3 DEF SchedulerInv, ContextInv, StackPart
<1>2. Init => TypeOK /\ SchedulerInv
  BY Zenon, InitContext, InitAccount DEF SchedulerInv
<1> QED
  BY <1>1, <1>2, PTL DEF Spec

\* The part of it about stacks, saved contexts and their owners.
THEOREM Context == Spec => [](TypeOK /\ ContextInv)
<1>1. SchedulerInv => ContextInv
  BY Zenon DEF SchedulerInv
<1> QED
  BY <1>1, Invariant, PTL

\* Every variable of the scheduler keeps its type.
THEOREM TypeCorrect == Spec => []TypeOK
BY Context, PTL

\* No CPU loads a context that another CPU is still saving.
THEOREM SavedContexts == Spec => []ResumesSavedContext
<1>1. ContextInv => ResumesSavedContext
  BY Zenon DEF ContextInv, SavedInv, OnOldStack, ResumesSavedContext
<1> QED
  BY <1>1, Context, PTL

\* Two CPUs never run on one kernel stack.
THEOREM StacksExclusive == Spec => []ExclusiveStacks
<1>1. TypeOK /\ ContextInv => ExclusiveStacks
  <2> SUFFICES ASSUME TypeOK, ContextInv, NEW c \in Cpus, NEW d \in Cpus,
                      c # d, rsp[c] # NULL, rsp[c] = rsp[d]
               PROVE  FALSE
    BY Zenon DEF ExclusiveStacks
  <2>1. \A e \in Cpus : rsp[e] # NULL =>
           \E t \in Tasks : Holds(e, t) /\ rsp[e] = bottom[t]
    BY ZenonT(60), Names DEF TypeOK, CpuTypeOK, ContextInv, PlaceInv, OnOldStack, Holds
  <2>2. PICK t \in Tasks : Holds(c, t) /\ rsp[c] = bottom[t]
    BY Zenon, <2>1
  <2>3. PICK u \in Tasks : Holds(d, u) /\ rsp[d] = bottom[u]
    BY Zenon, <2>1
  <2>4. \A v, w \in Tasks : bottom[v] = bottom[w] /\ bottom[v] # NULL => v = w
    BY Zenon DEF ContextInv, StackInv
  <2>5. \A e, f \in Cpus, v \in Tasks : Holds(e, v) /\ Holds(f, v) => e = f
    BY Zenon DEF ContextInv, OwnerInv
  <2>6. t = u
    BY ZenonT(60), <2>2, <2>3, <2>4
  <2> QED
    BY Zenon, <2>2, <2>3, <2>5, <2>6
<1> QED
  BY <1>1, Context, PTL

\* A stack is never freed while a CPU runs on it or a task owns it.
THEOREM StacksNotFreed == Spec => []StackInUseNotFreed
<1>1. TypeOK /\ ContextInv => StackInUseNotFreed
  <2> SUFFICES ASSUME TypeOK, ContextInv
               PROVE  StackInUseNotFreed
    OBVIOUS
  <2>1. \A c \in Cpus : rsp[c] = NULL \/ \E t \in Tasks : rsp[c] = bottom[t]
    BY ZenonT(60), Names DEF TypeOK, CpuTypeOK, ContextInv, PlaceInv, OnOldStack
  <2>2. NULL \notin freeStacks
    BY Zenon, Names DEF TypeOK, SharedTypeOK
  <2> QED
    BY Zenon, <2>1, <2>2 DEF ContextInv, StackInv, StackInUseNotFreed
<1> QED
  BY <1>1, Context, PTL

\* The loaded page table root is never that of a reclaimed task.
THEOREM RootsAlive == Spec => []LoadedRootAlive
<1>1. TypeOK /\ ContextInv => LoadedRootAlive
  BY Zenon, Names DEF TypeOK, CpuTypeOK, ContextInv, PlaceInv, StackInv,
     LoadedRootAlive
<1> QED
  BY <1>1, Context, PTL

\* kaguya_wake_event and kaguya_wait_event lose no wakeup: a task blocked on
\* a key has seen its last generation or is about to be woken.
THEOREM WakeupsKept == Spec => []NoLostWakeup
<1>1. SchedulerInv => NoLostWakeup
  BY Zenon DEF SchedulerInv, AccountInv
<1> QED
  BY <1>1, Invariant, PTL

\* No task is lost between the queues, the CPUs and the handoffs, none is
\* queued twice, and schedule() never has to hand a pinned task back.
THEOREM NoTaskLost == Spec => []TasksAccounted
<1>1. TypeOK /\ SchedulerInv => TasksAccounted
  <2> SUFFICES ASSUME TypeOK, SchedulerInv PROVE TasksAccounted
    OBVIOUS
  <2>1. ReadyIffQueuedOnce
    BY Zenon DEF SchedulerInv, AccountInv
  <2>2. SwitchingOutAccounted
    <3>1. HandoffInv /\ SwitchInv /\ CarryInv
      BY Zenon DEF SchedulerInv, AccountInv, ContextInv
    <3>2. ASSUME NEW t \in Tasks, NEW c \in Cpus,
                 (outgoing[c] = t /\ encoded[c]) \/ handoff[c] = t
          PROVE  status[t] = "SwitchingOut"
      BY Zenon, <3>1, <3>2, Names DEF HandoffInv
    <3> QED
      BY Zenon, <3>1, <3>2 DEF CarryInv, SwitchingOutAccounted
  <2>3. PinnedStaysHome
    BY Zenon DEF SchedulerInv, AccountInv, PinInv, PinnedStaysHome
  <2> QED
    BY Zenon, <2>1, <2>2, <2>3 DEF TasksAccounted
<1> QED
  BY <1>1, Invariant, PTL

\* A call into the scheduler returns to a running task only, wait_task only
\* once its target is reclaimed, and no call leaves a deadline behind.
THEOREM ReturnsAreRight == Spec => []ReturnsRight
<1>1. TypeOK /\ SchedulerInv => ReturnsRight
  <2> SUFFICES ASSUME TypeOK, SchedulerInv PROVE ReturnsRight
    OBVIOUS
  <2>1. RunInv /\ DeadlineInv /\ JoinInv /\ cur \in [Cpus -> {NONE} \cup Tasks]
    BY Zenon DEF SchedulerInv, AccountInv, TypeOK, CpuTypeOK
  <2>2. OnlyRunningReturns
    BY Zenon, <2>1 DEF RunInv, OnlyRunningReturns
  <2>3. WaitTaskSeesReclaimed
    BY Zenon, <2>1, <2>2 DEF JoinInv, Reclaimed, OnlyRunningReturns, WaitTaskSeesReclaimed
  <2>4. NoStaleDeadline
    BY Zenon, <2>1, <2>2 DEF DeadlineInv, OnlyRunningReturns, NoStaleDeadline
  <2> QED
    BY Zenon, <2>2, <2>3, <2>4 DEF ReturnsRight
<1> QED
  BY <1>1, Invariant, PTL

\* No step brings an exited task back or reclaims it twice.
THEOREM ExitIsFinal == Spec => ZombieIsFinal
<1> DEFINE Final == \A t \in Tasks :
                      status[t] = "Zombie" =>
                        /\ status'[t] = "Zombie"
                        /\ bottom[t] = NULL => bottom'[t] = NULL
<1>1. TypeOK /\ SchedulerInv /\ [Next]_vars => Final
  BY Zenon, ReclaimedStays DEF SchedulerInv, Reclaimed
<1> QED
  BY <1>1, Invariant, PTL DEF Spec, ZombieIsFinal
=============================================================================
