---------------------------- MODULE ProcessSteps ----------------------------
(***************************************************************************)
(* Every step of the Rust scheduler other than the critical section of     *)
(* switch_task preserves ProcessInv.  Before that, lemmas about sets,      *)
(* sequences and the sweeps over the task slots.                           *)
(***************************************************************************)
EXTENDS Process, TLAPS, FiniteSetTheorems

----------------------------------------------------------------------------
(* Sets and sequences.                                                     *)

\* A set of natural numbers has a least element, the one Min names.
LEMMA MinIn ==
    ASSUME NEW S \in SUBSET Nat, S # {}
    PROVE  Min(S) \in S /\ \A y \in S : Min(S) <= y
<1>1. \E x \in S : \A y \in S : ~ (<<y, x>> \in OpToRel(<, Nat))
  BY NatLessThanWellFounded, WFMin, Zenon
<1>2. OpToRel(<, Nat) = {ss \in Nat \X Nat : ss[1] < ss[2]}
  BY Zenon DEF OpToRel
<1>3. PICK x \in S : \A y \in S : ~ (<<y, x>> \in {ss \in Nat \X Nat : ss[1] < ss[2]})
  BY <1>1, <1>2, Zenon
<1>4. ASSUME NEW y \in S PROVE x <= y
  <2>1. ~ (<<y, x>> \in {ss \in Nat \X Nat : ss[1] < ss[2]})
    BY <1>3, Zenon
  <2>2. x \in Nat /\ y \in Nat
    BY Zenon
  <2>3. ~ (y < x)
    BY Zenon, <2>1, <2>2
  <2>4. QED
    BY <2>2, <2>3
<1>5. QED
  BY <1>4, Zenon DEF Min

\* A bounded one has a greatest, the one Max names.
LEMMA MaxIn ==
    ASSUME NEW S \in SUBSET Nat, S # {}, NEW n \in Nat, \A s \in S : s <= n
    PROVE  Max(S) \in S
<1> DEFINE D == {n - s : s \in S}
<1>1. D \in SUBSET Nat
  BY \A s \in S : s \in Nat /\ n - s \in Nat
<1>2. D # {}
  BY Zenon
<1>3. Min(D) \in D /\ \A y \in D : Min(D) <= y
  BY <1>1, <1>2, MinIn, Zenon
<1>4. PICK s \in S : Min(D) = n - s
  BY <1>3, Zenon
<1>5. ASSUME NEW y \in S PROVE s >= y
  <2>1. n - y \in D /\ y \in Nat /\ s \in Nat
    BY Zenon
  <2>2. n - s <= n - y
    BY Zenon, <1>3, <1>4, <2>1
  <2>3. QED
    BY <2>1, <2>2
<1>6. QED
  BY <1>5, Zenon DEF Max

\* The sweeps over the slots visit each task of the set.
LEMMA InOrderRight ==
    ASSUME NEW S \in SUBSET Tasks
    PROVE  /\ InOrder(S) \in Seq(S)
           /\ \A t \in S : \E i \in DOMAIN InOrder(S) : InOrder(S)[i] = t
<1> DEFINE n == Cardinality(S)
           Below(t) == {u \in S : u < t}
           rank == [t \in S |-> Cardinality(Below(t)) + 1]
<1>1. S \subseteq Nat /\ IsFiniteSet(S) /\ n \in Nat
  <2>1. IsFiniteSet(Tasks) /\ Tasks \subseteq Nat
    BY MaxTasksAssumption, FS_Interval DEF Tasks
  <2>2. QED
    BY <2>1, FS_Subset, FS_CardinalityType, Zenon
<1>2. ASSUME NEW t \in S
      PROVE  /\ IsFiniteSet(Below(t)) /\ Cardinality(Below(t)) \in Nat
             /\ Cardinality(Below(t)) < n
  <2>1. Below(t) \in SUBSET S /\ t \notin Below(t)
    BY <1>1
  <2>2. IsFiniteSet(Below(t)) /\ Cardinality(Below(t)) <= n /\ n # Cardinality(Below(t))
    BY Zenon, <1>1, <2>1, FS_Subset
  <2>3. Cardinality(Below(t)) \in Nat
    BY Zenon, <2>2, FS_CardinalityType
  <2>4. QED
    BY <1>1, <2>2, <2>3
<1>3. ASSUME NEW t \in S, NEW u \in S, u < t
      PROVE  Cardinality(Below(u)) < Cardinality(Below(t))
  <2>0. u \in Nat /\ t \in Nat /\ \A x \in S : x \in Nat /\ (x < u => x < t)
    BY <1>1, <1>3
  <2>0b. ~(u < u)
    BY <2>0
  <2>1. Below(u) \in SUBSET Below(t) /\ u \in Below(t) /\ u \notin Below(u)
    BY <1>3, <2>0, <2>0b, Zenon
  <2>2. /\ Cardinality(Below(u)) <= Cardinality(Below(t))
        /\ Cardinality(Below(t)) # Cardinality(Below(u))
    BY <1>2, <2>1, FS_Subset, Zenon
  <2>3. QED
    BY <1>2, <2>2
<1>4. ASSUME NEW t \in S, NEW u \in S, Cardinality(Below(u)) = Cardinality(Below(t))
      PROVE  u = t
  <2>1. ~(u < t) /\ ~(t < u)
    BY <1>2, <1>3, <1>4
  <2>2. QED
    BY <1>1, <2>1
<1>5. ASSUME NEW i \in 1 .. n PROVE \E t \in S : Cardinality(Below(t)) = i - 1
  <2> SUFFICES ASSUME \A t \in S : Cardinality(Below(t)) # i - 1 PROVE FALSE
    BY Zenon
  <2> DEFINE T == (1 .. n) \ {i}
  <2>1. IsFiniteSet(T) /\ Cardinality(T) = n - 1
    <3>1. IsFiniteSet(1 .. n) /\ Cardinality(1 .. n) = n
      BY <1>1, FS_Interval
    <3>2. QED
      BY <3>1, FS_RemoveElement, ZenonT(40)
  <2>2. \A t \in S : Cardinality(Below(t)) + 1 \in T
    BY <1>1, <1>2
  <2>3. rank \in [S -> T]
    BY Zenon, <2>2
  <2>4. \A t \in S : rank[t] = Cardinality(Below(t)) + 1
    BY Zenon
  <2>5. Cardinality(T) < Cardinality(S)
    BY <1>1, <2>1
  <2> HIDE DEF T, rank
  <2>6. PICK t \in S, u \in S : t # u /\ rank[t] = rank[u]
    BY <1>1, <2>1, <2>3, <2>5, FS_PigeonHole, Zenon
  <2>6b. Cardinality(Below(t)) + 1 = Cardinality(Below(u)) + 1
    BY <2>4, <2>6, Zenon
  <2>6c. Cardinality(Below(t)) \in Nat /\ Cardinality(Below(u)) \in Nat
    BY <1>2, Zenon
  <2> HIDE DEF Below
  <2>7. Cardinality(Below(t)) = Cardinality(Below(u))
    BY <2>6b, <2>6c
  <2>8. QED
    BY Zenon, <1>4, <2>6, <2>7
<1> DEFINE At(i) == CHOOSE t \in S : Cardinality(Below(t)) = i - 1
<1>6. InOrder(S) = [i \in 1 .. n |-> At(i)]
  BY Zenon DEF InOrder
<1>7. \A i \in 1 .. n : At(i) \in S /\ Cardinality(Below(At(i))) = i - 1
  BY Zenon, <1>5
<1> HIDE DEF At, Below
<1>8. InOrder(S) \in [1 .. n -> S]
  BY Zenon, <1>6, <1>7
<1>9. InOrder(S) \in Seq(S)
  BY <1>1, <1>8
<1>10. ASSUME NEW t \in S PROVE \E i \in 1 .. n : At(i) = t
  <2>1. Cardinality(Below(t)) + 1 \in 1 .. n
    BY <1>1, <1>2
  <2>2. Cardinality(Below(At(Cardinality(Below(t)) + 1))) = Cardinality(Below(t))
    BY <1>2, <1>7, <2>1
  <2>3. At(Cardinality(Below(t)) + 1) = t
    BY Zenon, <1>4, <1>7, <2>1, <2>2
  <2>4. QED
    BY Zenon, <2>1, <2>3
<1>11. QED
  BY Zenon, <1>6, <1>8, <1>9, <1>10

\* The entries of a queue after the first p.
LEMMA TailRight ==
    ASSUME NEW q \in Seq(Tasks), NEW p \in 0 .. Len(q)
    PROVE  /\ SubSeq(q, p + 1, Len(q)) \in Seq(Tasks)
           /\ Len(SubSeq(q, p + 1, Len(q))) = Len(q) - p
           /\ \A i \in 1 .. Len(q) - p : SubSeq(q, p + 1, Len(q))[i] = q[p + i]
<1>1. Len(q) \in Nat /\ p \in Nat /\ p <= Len(q)
  OBVIOUS
<1>2. p + 1 \in Int /\ Len(q) \in Int /\ \A i \in p + 1 .. Len(q) : q[i] \in Tasks
  BY <1>1
<1>3. /\ SubSeq(q, p + 1, Len(q)) \in Seq(Tasks)
      /\ Len(SubSeq(q, p + 1, Len(q))) = IF p + 1 <= Len(q) THEN Len(q) - (p + 1) + 1 ELSE 0
      /\ \A i \in 1 .. Len(q) - (p + 1) + 1 : SubSeq(q, p + 1, Len(q))[i] = q[p + 1 + i - 1]
  BY <1>1, <1>2
<1>4. /\ Len(q) - (p + 1) + 1 = Len(q) - p /\ (~(p + 1 <= Len(q)) => Len(q) - p = 0)
      /\ \A i \in 1 .. Len(q) - p : p + 1 + i - 1 = p + i
  BY <1>1
<1>5. QED
  BY <1>3, <1>4, Zenon

\* What is left of a queue when one entry is taken out, or all up to one.
LEMMA DropAtRight ==
    ASSUME NEW q \in Seq(Tasks), NEW p \in 1 .. Len(q)
    PROVE  /\ DropAt(q, p) \in Seq(Tasks)
           /\ \A i \in DOMAIN DropAt(q, p) : \E j \in DOMAIN q : DropAt(q, p)[i] = q[j]
           /\ \A j \in DOMAIN q \ {p} : \E i \in DOMAIN DropAt(q, p) : DropAt(q, p)[i] = q[j]
<1> DEFINE a == SubSeq(q, 1, p - 1)
           b == SubSeq(q, p + 1, Len(q))
<1>1. Len(q) \in Nat /\ DOMAIN q = 1 .. Len(q) /\ p \in Nat /\ 1 <= p /\ p <= Len(q)
  OBVIOUS
<1>2. a \in Seq(Tasks) /\ Len(a) = p - 1 /\ \A i \in 1 .. p - 1 : a[i] = q[i]
  BY <1>1
<1>3. b \in Seq(Tasks) /\ Len(b) = Len(q) - p /\ \A i \in 1 .. Len(q) - p : b[i] = q[p + i]
  <2>1. p \in 0 .. Len(q)
    BY <1>1
  <2>2. QED
    BY Zenon, <2>1, TailRight
<1>4. DropAt(q, p) = a \o b
  BY Zenon DEF DropAt
<1> HIDE DEF a, b
<1>5. /\ a \o b \in Seq(Tasks) /\ Len(a \o b) = Len(q) - 1
      /\ \A i \in 1 .. Len(q) - 1 : (a \o b)[i] = IF i <= p - 1 THEN a[i] ELSE b[i - (p - 1)]
  <2>1. /\ a \o b \in Seq(Tasks) /\ Len(a \o b) = Len(a) + Len(b)
        /\ \A i \in 1 .. Len(a) + Len(b) :
             (a \o b)[i] = IF i <= Len(a) THEN a[i] ELSE b[i - Len(a)]
    <3>1. a \in Seq(Tasks) /\ b \in Seq(Tasks)
      BY <1>2, <1>3, Zenon
    <3>2. a \o b \in Seq(Tasks) /\ Len(a \o b) = Len(a) + Len(b)
      BY <3>1
    <3>3. ASSUME NEW i \in 1 .. Len(a) + Len(b)
          PROVE  (a \o b)[i] = IF i <= Len(a) THEN a[i] ELSE b[i - Len(a)]
      BY <3>1
    <3>4. QED
      BY Zenon, <3>2, <3>3
  <2>2. Len(a) = p - 1 /\ Len(a) + Len(b) = Len(q) - 1
    BY <1>1, <1>2, <1>3
  <2>3. QED
    BY <2>1, <2>2, Zenon
<1>6. DOMAIN (a \o b) = 1 .. Len(q) - 1
  BY <1>5
<1>7. ASSUME NEW i \in 1 .. Len(q) - 1
      PROVE  /\ i < p => (a \o b)[i] = q[i] /\ i \in 1 .. Len(q)
             /\ ~(i < p) => (a \o b)[i] = q[i + 1] /\ i + 1 \in 1 .. Len(q)
  <2>1. CASE i < p
    <3>1. i \in 1 .. p - 1 /\ i <= p - 1 /\ i \in 1 .. Len(q)
      BY <1>1, <2>1
    <3>2. QED
      BY Zenon, <1>2, <1>5, <2>1, <3>1
  <2>2. CASE ~(i < p)
    <3>1. /\ ~(i <= p - 1) /\ i - (p - 1) \in 1 .. Len(q) - p /\ p + (i - (p - 1)) = i + 1
          /\ i + 1 \in 1 .. Len(q)
      BY <1>1, <2>2
    <3>2. (a \o b)[i] = b[i - (p - 1)]
      BY Zenon, <1>5, <3>1
    <3>3. b[i - (p - 1)] = q[i + 1]
      BY Zenon, <1>3, <3>1
    <3>4. QED
      BY Zenon, <2>2, <3>1, <3>2, <3>3
  <2>3. QED
    BY <2>1, <2>2, Zenon
<1>8. ASSUME NEW i \in 1 .. Len(q) - 1 PROVE \E j \in 1 .. Len(q) : (a \o b)[i] = q[j]
  <2>1. CASE i < p
    BY <1>7, <2>1, Zenon
  <2>2. CASE ~(i < p)
    BY <1>7, <2>2, Zenon
  <2>3. QED
    BY <2>1, <2>2, Zenon
<1>9. ASSUME NEW j \in 1 .. Len(q), j # p PROVE \E i \in 1 .. Len(q) - 1 : (a \o b)[i] = q[j]
  <2>1. CASE j < p
    <3>1. j \in 1 .. Len(q) - 1
      BY <1>1, <2>1
    <3>2. QED
      BY <1>7, <2>1, <3>1, Zenon
  <2>2. CASE ~(j < p)
    <3>1. j - 1 \in 1 .. Len(q) - 1 /\ ~(j - 1 < p) /\ j - 1 + 1 = j
      BY <1>1, <1>9, <2>2
    <3>2. (a \o b)[j - 1] = q[j]
      BY <1>7, <3>1, Zenon
    <3>3. QED
      BY <3>1, <3>2, Zenon
  <2>3. QED
    BY <2>1, <2>2, Zenon
<1>10. QED
  BY <1>1, <1>4, <1>5, <1>6, <1>8, <1>9, ZenonT(40)

LEMMA DropThroughRight ==
    ASSUME NEW q \in Seq(Tasks), NEW p \in 0 .. Len(q)
    PROVE  /\ DropThrough(q, p) \in Seq(Tasks)
           /\ \A i \in DOMAIN DropThrough(q, p) : \E j \in DOMAIN q : DropThrough(q, p)[i] = q[j]
<1> DEFINE b == SubSeq(q, p + 1, Len(q))
<1>1. Len(q) \in Nat /\ DOMAIN q = 1 .. Len(q) /\ p \in Nat /\ p <= Len(q)
  OBVIOUS
<1>2. b \in Seq(Tasks) /\ Len(b) = Len(q) - p /\ \A i \in 1 .. Len(q) - p : b[i] = q[p + i]
  BY <1>1, TailRight, Zenon
<1>3. DropThrough(q, p) = b
  BY Zenon DEF DropThrough
<1> HIDE DEF b
<1>4. DOMAIN b = 1 .. Len(q) - p
  BY <1>2
<1>5. ASSUME NEW i \in 1 .. Len(q) - p PROVE \E j \in DOMAIN q : b[i] = q[j]
  BY SMTT(30), <1>1, <1>2
<1>6. QED
  BY Zenon, <1>2, <1>3, <1>4, <1>5

\* s holds the entries of q and of r and no others, as their concatenation does.
Joins(s, q, r) ==
    /\ \A i \in DOMAIN q : \E k \in DOMAIN s : s[k] = q[i]
    /\ \A i \in DOMAIN r : \E k \in DOMAIN s : s[k] = r[i]
    /\ \A k \in DOMAIN s : \/ \E i \in DOMAIN q : s[k] = q[i]
                           \/ \E i \in DOMAIN r : s[k] = r[i]

LEMMA ConcatRight ==
    ASSUME NEW q \in Seq(Tasks), NEW r \in Seq(Tasks), NEW s, s = q \o r
    PROVE  s \in Seq(Tasks) /\ Joins(s, q, r)
<1>1. /\ Len(q) \in Nat /\ Len(r) \in Nat /\ DOMAIN q = 1 .. Len(q) /\ DOMAIN r = 1 .. Len(r)
      /\ s \in Seq(Tasks) /\ Len(s) = Len(q) + Len(r)
  OBVIOUS
<1>2. DOMAIN s = 1 .. Len(q) + Len(r)
  BY <1>1
<1>3. \A i \in 1 .. Len(q) : s[i] = q[i]
  BY <1>1
<1>4. \A i \in 1 .. Len(r) : s[Len(q) + i] = r[i]
  BY <1>1
<1>5. ASSUME NEW k \in 1 .. Len(q) + Len(r)
      PROVE  k \in 1 .. Len(q) \/ \E i \in 1 .. Len(r) : k = Len(q) + i
  <2>1. k \in Nat /\ (k \in 1 .. Len(q) \/ (k - Len(q) \in 1 .. Len(r) /\ k = Len(q) + (k - Len(q))))
    BY <1>1
  <2>2. QED
    BY Zenon, <2>1
<1>6. \A i \in 1 .. Len(q) : i \in 1 .. Len(q) + Len(r)
  BY <1>1
<1>7. \A i \in 1 .. Len(r) : Len(q) + i \in 1 .. Len(q) + Len(r)
  BY <1>1
<1>8. \A i \in DOMAIN q : \E k \in DOMAIN s : s[k] = q[i]
  BY Zenon, <1>1, <1>2, <1>3, <1>6
<1>9. \A i \in DOMAIN r : \E k \in DOMAIN s : s[k] = r[i]
  BY <1>1, <1>2, <1>4, <1>7, Zenon
<1>10. ASSUME NEW k \in DOMAIN s
       PROVE  \/ \E i \in DOMAIN q : s[k] = q[i]
              \/ \E i \in DOMAIN r : s[k] = r[i]
  <2>1. CASE k \in 1 .. Len(q)
    BY Zenon, <1>1, <1>3, <2>1
  <2>2. CASE \E i \in 1 .. Len(r) : k = Len(q) + i
    BY Zenon, <1>1, <1>4, <2>2
  <2>3. QED
    BY Zenon, <1>2, <1>5, <2>1, <2>2
<1>11. QED
  BY <1>1, <1>8, <1>9, <1>10, Zenon DEF Joins

----------------------------------------------------------------------------
(* Steps that switch no CPU.                                               *)

\* What such a step does to a task in a filled slot.
Keeps(t) ==
    task[t].status # "Absent" =>
        /\ task'[t].stack = task[t].stack /\ task'[t].space = task[t].space
        /\ task'[t].pin = task[t].pin /\ task'[t].home = task[t].home
        /\ task'[t].saved = task[t].saved
        /\ task'[t].status # "Absent"
        /\ task[t].status = "Zombie" => task'[t].status = "Zombie"

\* And to a CPU: it may enter switch_task.
Enters(c) == pc'[c] = pc[c] \/ (pc[c] = "run" /\ pc'[c] = "sched")
CurKept(c) ==
    cur[c] # NoTask =>
        /\ pc'[c] \in {"load", "switch", "publish", "run"} => task'[cur[c]].status = "Running"
        /\ pc'[c] = "sched" => task'[cur[c]].status # "SwitchingOut"
        /\ task'[cur[c]].status = "Ready" /\ task[cur[c]].status # "Ready"
             => \E i \in DOMAIN queue'[c] : queue'[c][i] = cur[c]
QueueKept(c) ==
    /\ \A i \in DOMAIN queue[c] : \E j \in DOMAIN queue'[c] : queue'[c][j] = queue[c][i]
    /\ \A i \in DOMAIN queue'[c] : /\ task'[queue'[c][i]].status # "Absent"
                                   /\ task'[queue'[c][i]].pin \in {-1, c}

\* Such a step preserves what the invariant says of CPUs.
LEMMA KeepsUse ==
    ASSUME ProcessInv, ResumesSavedContext,
           UNCHANGED <<cur, plan, on, root, handoff, idleSaved, retired>>,
           \A t \in Tasks : Keeps(t),
           \A c \in Cpus : Enters(c) /\ CurKept(c) /\ QueueKept(c)
    PROVE  /\ \A c \in Cpus : /\ UseInv(c)' /\ PlaceInv(c)' /\ CurInv(c)'
                              /\ RetireInv(c)' /\ PinInv(c)' /\ ExclusiveInv(c)'
           /\ GoneInv'
<1>1. ASSUME NEW c \in Cpus
      PROVE  /\ Leaving(c)' = Leaving(c) /\ Using(c)' = Using(c)
             /\ StackOf(c)' = StackOf(c) /\ RootOf(c)' = RootOf(c)
  <2>1. Enters(c) /\ cur' = cur /\ plan' = plan
    BY Zenon
  <2>2. Leaving(c)' = Leaving(c) /\ StackOf(c)' = StackOf(c) /\ RootOf(c)' = RootOf(c)
    BY Zenon, <2>1 DEF Enters, Leaving, StackOf, RootOf
  <2>3. QED
    BY Zenon, <2>1, <2>2 DEF Using
<1>2. ASSUME NEW c \in Cpus
      PROVE  /\ cur[c] \in TasksOrNone /\ plan[c] \in Plans /\ handoff[c] \in TasksOrNone
             /\ plan[c].from \in TasksOrNone /\ plan[c].out \in TasksOrNone
             /\ plan[c].retires \in TasksOrNone
             /\ StackOf(c) \in TasksOrNone /\ RootOf(c) \in TasksOrNone
             /\ Leaving(c) \in TasksOrNone /\ Using(c) \subseteq Tasks
  <2>1. cur[c] \in TasksOrNone /\ plan[c] \in Plans /\ handoff[c] \in TasksOrNone
    BY Zenon DEF ProcessInv, Types
  <2>2. /\ plan[c].from \in TasksOrNone /\ plan[c].out \in TasksOrNone
        /\ plan[c].retires \in TasksOrNone /\ NoTask \in TasksOrNone
    BY Zenon, <2>1 DEF Plans, TasksOrNone
  <2>3. QED
    BY Zenon, <2>1, <2>2 DEF StackOf, RootOf, Leaving, Using, TasksOrNone
<1>3. \A c \in Cpus : UseInv(c) /\ PlaceInv(c) /\ CurInv(c) /\ RetireInv(c) /\ PinInv(c) /\ ExclusiveInv(c)
  BY Zenon DEF ProcessInv
<1>4. \A t \in TasksOrNone : t # NoTask => t \in Tasks
  BY Zenon DEF TasksOrNone
<1>5. ASSUME NEW c \in Cpus PROVE UseInv(c)'
  BY Zenon, <1>1, <1>2, <1>3 DEF UseInv, Keeps
<1>6. ASSUME NEW c \in Cpus PROVE PlaceInv(c)'
  <2>1. PlaceInv(c) /\ on' = on /\ root' = root
    BY <1>3, Zenon
  <2>2. ASSUME RootOf(c) # NoTask
        PROVE  task'[RootOf(c)].space = task[RootOf(c)].space
    <3>1. RootOf(c) \in Tasks /\ RootOf(c) \in Using(c)
      BY Zenon, <1>2, <1>4, <2>2 DEF RootOf, Using, Leaving
    <3>2. task[RootOf(c)].status # "Absent"
      BY <1>3, <3>1, Zenon DEF UseInv
    <3>3. QED
      BY <3>1, <3>2, Zenon DEF Keeps
  <2>3. QED
    BY <1>1, <2>1, <2>2, Zenon DEF PlaceInv
<1>7. ASSUME NEW c \in Cpus PROVE CurInv(c)'
  <2>1. CurInv(c) /\ CurKept(c) /\ Enters(c) /\ cur' = cur /\ plan' = plan /\ idleSaved' = idleSaved
    BY <1>3, Zenon
  <2>2. QED
    BY Zenon, <2>1 DEF CurInv, CurKept, Enters
<1>8. ASSUME NEW c \in Cpus PROVE RetireInv(c)'
  <2>1. RetireInv(c) /\ Enters(c) /\ plan' = plan
    BY <1>3, Zenon
  <2>2. ASSUME plan[c].retires # NoTask, task[plan[c].retires].status = "Zombie"
        PROVE  task'[plan[c].retires].status = "Zombie"
    BY Zenon, <1>2, <1>4, <2>2 DEF Keeps
  <2>3. QED
    BY Zenon, <2>1, <2>2 DEF RetireInv, Enters
<1>9. ASSUME NEW c \in Cpus PROVE PinInv(c)'
  <2>1. PinInv(c) /\ Enters(c) /\ QueueKept(c) /\ cur' = cur /\ plan' = plan /\ handoff' = handoff
    BY <1>3, Zenon
  <2>2. ASSUME NEW t \in TasksOrNone, t # NoTask, MayBeAt(t, c) PROVE MayBeAt(t, c)'
    BY Zenon, <1>4, <2>2 DEF MayBeAt, Keeps
  <2>3. (cur[c] # NoTask => MayBeAt(cur[c], c))'
    BY Zenon, <1>2, <2>1, <2>2 DEF PinInv
  <2>4. (\A i \in DOMAIN queue[c] : MayBeAt(queue[c][i], c))'
    BY Zenon, <2>1 DEF QueueKept, MayBeAt
  <2>5. (handoff[c] # NoTask => MayBeAt(handoff[c], c))'
    BY Zenon, <1>2, <2>1, <2>2 DEF PinInv
  <2>6. (pc[c] \in {"load", "switch", "publish"} /\ plan[c].out # NoTask => MayBeAt(plan[c].out, c))'
    BY Zenon, <1>2, <2>1, <2>2 DEF PinInv, Enters
  <2>7. QED
    BY <2>3, <2>4, <2>5, <2>6, Zenon DEF PinInv
<1>10. ASSUME NEW t \in Tasks, Gone(t) PROVE Gone(t)'
  <2>1. task'[t].status = "Zombie"
    BY Zenon, <1>10 DEF Gone, Keeps
  <2>2. QED
    BY <1>1, <1>10, <2>1, Zenon DEF Gone
<1>11. GoneInv'
  <2>1. retired' = retired /\ plan' = plan /\ retired \subseteq Tasks
    BY Zenon DEF ProcessInv, Types
  <2>2. GoneInv
    BY Zenon DEF ProcessInv
  <2>3. \A c \in Cpus : pc'[c] = "publish" => pc[c] = "publish"
    BY Zenon DEF Enters
  <2>4. QED
    BY Zenon, <1>2, <1>4, <1>10, <2>1, <2>2, <2>3 DEF GoneInv
<1>12. ASSUME NEW c \in Cpus PROVE ExclusiveInv(c)'
  <2>1. ExclusiveInv(c) /\ UseInv(c) /\ CurKept(c) /\ QueueKept(c) /\ cur' = cur
    BY <1>3, Zenon
  <2>2. ASSUME NEW t \in Using(c)
        PROVE  ~task'[t].saved /\ task'[t].home = task[t].home /\ \A d \in Cpus \ {c} : t \notin Using(d)'
    <3>1. t \in Tasks /\ task[t].status # "Absent" /\ ~task[t].saved
      BY Zenon, <1>2, <2>1 DEF UseInv, ExclusiveInv
    <3>2. \A d \in Cpus \ {c} : t \notin Using(d)'
      BY Zenon, <1>1, <2>1, <2>2 DEF ExclusiveInv
    <3>3. QED
      BY Zenon, <3>1, <3>2 DEF Keeps
  <2>3. cur[c] # NoTask => cur[c] \in Using(c)
    BY Zenon DEF Using
  <2>4. ASSUME cur[c] # NoTask, task'[cur[c]].status = "Ready"
        PROVE  \E i \in DOMAIN queue'[c] : queue'[c][i] = cur[c]
    <3>1. CASE task[cur[c]].status = "Ready"
      <4>1. PICK i \in DOMAIN queue[c] : queue[c][i] = cur[c]
        BY Zenon, <2>1, <2>4, <3>1 DEF ExclusiveInv
      <4>2. QED
        BY ZenonT(40), <2>1, <4>1 DEF QueueKept
    <3>2. CASE task[cur[c]].status # "Ready"
      BY Zenon, <2>1, <2>4, <3>2 DEF CurKept
    <3>3. QED
      BY Zenon, <3>1, <3>2
  <2>5. ASSUME cur[c] # NoTask PROVE cur[c] # Leaving(c) /\ task[cur[c]].home = c
    BY Zenon, <2>1, <2>5 DEF ExclusiveInv
  <2>6. QED
    BY Zenon, <1>1, <2>1, <2>2, <2>3, <2>4, <2>5 DEF ExclusiveInv
<1>13. QED
  BY <1>5, <1>6, <1>7, <1>8, <1>9, <1>11, <1>12, Zenon

\* A task whose record a step leaves alone keeps what the invariant says of it.
LEMMA TaskKept ==
    ASSUME NEW t \in Tasks, Types, TaskInv(t), task'[t] = task[t], len' \in {len, len + 1},
           task[t].status = "Waiting" /\ task[t].wf \in Keys => gen'[task[t].wf] = gen[task[t].wf],
           \A u \in Tasks : task[u].status = "Zombie" => task'[u].status = "Zombie"
    PROVE  TaskInv(t)'
<1>1. len \in Nat /\ t \in Nat /\ task[t].join \in TasksOrNone
  BY MaxTasksAssumption DEF Types, Tasks, Records
<1>2. t > len' => t > len
  BY <1>1
<1>3. task[t].join # NoTask => task[t].join \in Tasks
  BY Zenon, <1>1 DEF TasksOrNone
<1>4. QED
  BY Zenon, <1>2, <1>3 DEF TaskInv

\* A CPU enters switch_task, or the clock ticks.
LEMMA EnterStep ==
    ASSUME ProcessInv, ResumesSavedContext,
           UNCHANGED <<task, len, queue, cur, plan, idleSaved, on, root, handoff, retired, gen>>,
           clock' \in Nat,
           pc' = pc \/ \E c \in Cpus : pc[c] = "run" /\ pc' = [pc EXCEPT ![c] = "sched"]
    PROVE  ProcessInv'
<1>1. Types /\ pc \in [Cpus -> {"run", "sched", "load", "switch", "publish", "lost"}]
  BY Zenon DEF ProcessInv, Types
<1>2. Types'
  <2>1. pc' \in [Cpus -> {"run", "sched", "load", "switch", "publish", "lost"}]
    BY Zenon, <1>1
  <2>2. QED
    BY <1>1, <2>1, Zenon DEF Types
<1>3. \A t \in Tasks : TaskInv(t)'
  BY Zenon, <1>1, TaskKept DEF ProcessInv
<1>4. \A t \in Tasks : Keeps(t)
  BY Zenon DEF Keeps
<1>5. ASSUME NEW c \in Cpus PROVE Enters(c) /\ CurKept(c) /\ QueueKept(c)
  <2>1. Enters(c)
    BY Zenon, <1>1 DEF Enters
  <2>2. CurInv(c) /\ PinInv(c)
    BY Zenon DEF ProcessInv
  <2>3. CurKept(c)
    BY Zenon, <2>1, <2>2 DEF CurKept, CurInv, Enters
  <2>4. QueueKept(c)
    BY Zenon, <2>2 DEF QueueKept, PinInv, MayBeAt
  <2>5. QED
    BY Zenon, <2>1, <2>3, <2>4
<1>6. QED
  BY <1>2, <1>3, <1>4, <1>5, KeepsUse, Zenon DEF ProcessInv

\* The task t that CPU c executes changes what it waits for or has read.
LEMMA CurrentStep ==
    ASSUME ProcessInv, ResumesSavedContext, NEW c \in Cpus, NEW t \in Tasks, NEW r \in Records,
           pc[c] = "run", cur[c] = t, task' = [task EXCEPT ![t] = r],
           (pc' = pc /\ r.status = "Running") \/ pc' = [pc EXCEPT ![c] = "sched"],
           r.status \in {"Running", "Sleeping", "Waiting"},
           r.home = task[t].home, r.pin = task[t].pin, r.stack = task[t].stack,
           r.space = task[t].space, r.saved = task[t].saved, TaskInv(t)',
           UNCHANGED <<len, queue, cur, plan, idleSaved, on, root, handoff, retired, clock, gen>>
    PROVE  ProcessInv'
<1>1. /\ Types /\ pc \in [Cpus -> {"run", "sched", "load", "switch", "publish", "lost"}]
      /\ task \in [Tasks -> Records] /\ cur \in [Cpus -> TasksOrNone]
  BY Zenon DEF ProcessInv, Types
<1>2. task'[t] = r /\ \A u \in Tasks \ {t} : task'[u] = task[u]
  BY Zenon, <1>1
<1>3. task[t].status = "Running" /\ t # NoTask
  <2>1. CurInv(c)
    BY Zenon DEF ProcessInv
  <2>2. t # NoTask
    BY DEF Tasks, NoTask
  <2>3. QED
    BY Zenon, <2>1, <2>2 DEF CurInv
<1>4. Types'
  <2>1. pc' \in [Cpus -> {"run", "sched", "load", "switch", "publish", "lost"}]
    BY Zenon, <1>1
  <2>2. task' \in [Tasks -> Records]
    BY Zenon, <1>1
  <2>3. QED
    BY <1>1, <2>1, <2>2, Zenon DEF Types
<1>5. \A u \in Tasks : Keeps(u)
  BY <1>2, <1>3 DEF Keeps
<1>6. \A u \in Tasks : TaskInv(u)'
  <2>1. ASSUME NEW u \in Tasks, u # t PROVE TaskInv(u)'
    <3>1. \A v \in Tasks : task[v].status = "Zombie" => task'[v].status = "Zombie"
      BY Zenon, <1>2, <1>3
    <3>2. task'[u] = task[u] /\ TaskInv(u)
      BY Zenon, <1>2, <2>1 DEF ProcessInv
    <3>3. QED
      BY Zenon, <1>1, <3>1, <3>2, TaskKept
  <2>2. QED
    BY Zenon, <2>1
<1>7. ASSUME NEW d \in Cpus PROVE Enters(d) /\ CurKept(d) /\ QueueKept(d)
  <2>1. Enters(d)
    BY Zenon, <1>1 DEF Enters
  <2>2. CurInv(d) /\ PinInv(d) /\ cur[d] \in TasksOrNone
    BY Zenon, <1>1 DEF ProcessInv
  <2>3. CurKept(d)
    <3>1. CASE d = c
      BY Zenon, <1>1, <1>2, <2>2, <3>1 DEF CurKept, CurInv
    <3>2. CASE d # c
      <4>1. cur[d] # NoTask => cur[d] # t /\ cur[d] \in Tasks
        <5>1. ExclusiveInv(c) /\ t \in Using(c)
          BY Zenon, <1>3 DEF ProcessInv, Using
        <5>2. t \notin Using(d)
          BY Zenon, <3>2, <5>1 DEF ExclusiveInv
        <5>3. QED
          BY Zenon, <2>2, <5>2 DEF Using, TasksOrNone
      <4>2. pc'[d] = pc[d]
        BY Zenon, <1>1, <3>2
      <4>3. QED
        BY Zenon, <1>2, <2>2, <4>1, <4>2 DEF CurKept, CurInv
    <3>3. QED
      BY Zenon, <3>1, <3>2
  <2>4. QueueKept(d)
    <3>1. queue[d] \in Seq(Tasks) /\ queue' = queue
      BY Zenon, <1>1 DEF Types
    <3>2. \A i \in DOMAIN queue[d] : queue[d][i] \in Tasks
      BY <3>1
    <3>3. QED
      BY <1>5, <2>2, <3>1, <3>2 DEF QueueKept, PinInv, MayBeAt, Keeps
  <2>5. QED
    BY Zenon, <2>1, <2>3, <2>4
<1>8. QED
  BY <1>4, <1>5, <1>6, <1>7, KeepsUse, Zenon DEF ProcessInv

\* What is known of the task a CPU executes.
LEMMA CurrentFacts ==
    ASSUME ProcessInv, NEW c \in Cpus, pc[c] = "run", cur[c] # NoTask
    PROVE  /\ cur[c] \in Tasks /\ task[cur[c]] \in Records /\ TaskInv(cur[c])
           /\ task[cur[c]].status = "Running" /\ task[cur[c]].stack /\ task[cur[c]].wake = 0
           /\ ~(cur[c] > len)
<1>1. cur[c] \in Tasks /\ task[cur[c]] \in Records
  BY Zenon DEF ProcessInv, Types, TasksOrNone
<1>2. TaskInv(cur[c]) /\ CurInv(c)
  BY <1>1, Zenon DEF ProcessInv
<1>3. task[cur[c]].status = "Running"
  BY Zenon, <1>2 DEF CurInv
<1>4. QED
  BY Zenon, <1>1, <1>2, <1>3 DEF TaskInv

\* sys_switch_task and the timers.
LEMMA TimerSteps ==
    ASSUME ProcessInv, ResumesSavedContext,
           Pit \/ \E c \in Cpus : Yield(c) \/ LapicTimer(c)
    PROVE  ProcessInv'
<1>1. clock \in Nat /\ 0 \in Cpus
  BY NumCpusAssumption DEF ProcessInv, Types, Cpus
<1>2. ASSUME NEW c \in Cpus, Charge(c), InUser(c)
      PROVE  pc' = pc \/ \E d \in Cpus : pc[d] = "run" /\ pc' = [pc EXCEPT ![d] = "sched"]
  BY <1>2, Zenon DEF Charge, Goto, InUser
<1>3. CASE Pit
  <2>1. UNCHANGED <<task, len, queue, cur, plan, idleSaved, on, root, handoff, retired, gen>>
    BY <1>3, Zenon DEF Pit
  <2>2. clock' \in Nat
    BY <1>1, <1>3 DEF Pit
  <2>3. pc' = pc \/ \E c \in Cpus : pc[c] = "run" /\ pc' = [pc EXCEPT ![c] = "sched"]
    BY <1>1, <1>2, <1>3, Zenon DEF Pit
  <2>4. QED
    BY <2>1, <2>2, <2>3, EnterStep, Zenon
<1>4. ASSUME NEW c \in Cpus, Yield(c) PROVE ProcessInv'
  <2>1. /\ UNCHANGED <<task, len, queue, cur, plan, idleSaved, on, root, handoff, retired, gen>>
        /\ clock' = clock /\ pc[c] = "run" /\ pc' = [pc EXCEPT ![c] = "sched"]
    BY <1>4, Zenon DEF Yield, Goto, InUser, Idle
  <2>2. QED
    BY <1>1, <2>1, EnterStep, Zenon
<1>5. ASSUME NEW c \in Cpus, LapicTimer(c) PROVE ProcessInv'
  <2>1. /\ UNCHANGED <<task, len, queue, cur, plan, idleSaved, on, root, handoff, retired, gen>>
        /\ clock' = clock /\ Charge(c) /\ InUser(c)
    BY <1>5, Zenon DEF LapicTimer
  <2>2. QED
    BY <1>1, <1>2, <2>1, EnterStep, Zenon
<1>6. QED
  BY Zenon, <1>3, <1>4, <1>5

\* Calls that block.
LEMMA BlockStep ==
    ASSUME ProcessInv, ResumesSavedContext, NEW c \in Cpus, NEW r \in Records,
           pc[c] = "run", cur[c] # NoTask, Block(c, r), r.status \in {"Sleeping", "Waiting"},
           r.home = task[cur[c]].home, r.pin = task[cur[c]].pin, r.stack = task[cur[c]].stack,
           r.space = task[cur[c]].space, r.saved = task[cur[c]].saved,
           r.status = "Waiting" /\ r.wf \in Keys => r.seen = <<r.wf, gen[r.wf]>>,
           r.join # NoTask => /\ r.seen = <<>> /\ r.join \in Tasks
                              /\ r.status = "Waiting" /\ r.wf = r.join /\ r.wake = 0
    PROVE  ProcessInv'
<1>0. PICK t \in Tasks : t = cur[c]
  BY CurrentFacts, Zenon
<1>1. task[t] \in Records /\ TaskInv(t) /\ task[t].stack /\ ~(t > len)
  BY <1>0, CurrentFacts, Zenon
<1>2. /\ task' = [task EXCEPT ![t] = r] /\ pc' = [pc EXCEPT ![c] = "sched"]
      /\ UNCHANGED <<len, queue, cur, plan, idleSaved, on, root, handoff, retired, clock, gen>>
  BY <1>0, Zenon DEF Block, Update, Goto
<1>3. task'[t] = r
  BY Zenon, <1>2 DEF ProcessInv, Types
<1>4. TaskInv(t)'
  <2>1. ~(t > len') /\ gen' = gen
    BY <1>1, <1>2, Zenon
  <2>2. r.stack /\ r.pin \in {-1, r.home}
    BY Zenon, <1>0, <1>1 DEF TaskInv
  <2>3. QED
    BY Zenon, <1>3, <2>1, <2>2 DEF TaskInv
<1>5. QED
  BY <1>0, <1>2, <1>4, CurrentStep, Zenon

\* The deadline is a clock value.
LEMMA DeadlineNat ==
    ASSUME ProcessInv, NEW c, NEW now \in DeadlineFrom(c)
    PROVE  now \in Nat
BY Zenon DEF ProcessInv, Types, DeadlineFrom

LEMMA SleepStep ==
    ASSUME ProcessInv, ResumesSavedContext, NEW c \in Cpus, SleepCurrent(c)
    PROVE  ProcessInv'
<1>1. pc[c] = "run" /\ cur[c] # NoTask /\ task[cur[c]].join = NoTask
  BY Zenon DEF SleepCurrent, InUser, InCall
<1> DEFINE old == task[cur[c]]
<1>2. PICK now \in DeadlineFrom(c) :
        Block(c, [old EXCEPT !.status = "Sleeping", !.wake = now + 1])
  BY Zenon DEF SleepCurrent
<1>3. now + 1 \in Nat
  BY DeadlineNat
<1> DEFINE r == [old EXCEPT !.status = "Sleeping", !.wake = now + 1]
<1>4. old \in Records
  BY <1>1, CurrentFacts, Zenon
<1> HIDE DEF old
<1>5. /\ r \in Records /\ r.status = "Sleeping" /\ r.home = old.home /\ r.pin = old.pin
      /\ r.stack = old.stack /\ r.space = old.space /\ r.saved = old.saved /\ r.join = old.join
  BY <1>3, <1>4, Zenon DEF Records, Statuses
<1>6. Block(c, r)
  BY Zenon, <1>2
<1> HIDE DEF r
<1>7. QED
  BY Zenon, <1>1, <1>5, <1>6, BlockStep DEF old

LEMMA WaitTaskStep ==
    ASSUME ProcessInv, ResumesSavedContext, NEW c \in Cpus, NEW u \in Tasks, WaitTask(c, u)
    PROVE  ProcessInv'
<1>1. pc[c] = "run" /\ cur[c] # NoTask /\ task[cur[c]].seen = <<>>
  BY Zenon DEF WaitTask, InUser, InCall
<1> DEFINE old == task[cur[c]]
           r == [old EXCEPT !.status = "Waiting", !.wf = u, !.join = u]
<1>2. Block(c, r)
  BY Zenon DEF WaitTask
<1>3. old \in Records /\ old.wake = 0 /\ old.seen = <<>>
  BY <1>1, CurrentFacts, Zenon
<1> HIDE DEF old
<1>4. /\ r \in Records /\ r.status = "Waiting" /\ r.home = old.home /\ r.pin = old.pin
      /\ r.stack = old.stack /\ r.space = old.space /\ r.saved = old.saved /\ r.join = u
      /\ r.wf = u /\ r.wake = 0 /\ r.seen = <<>>
  BY <1>3, Zenon DEF Records, Statuses, TasksOrNone
<1> HIDE DEF r
<1>5. u \notin Keys
  BY Zenon, KeysAssumption
<1>6. QED
  BY Zenon, <1>1, <1>2, <1>4, <1>5, BlockStep DEF old

LEMMA WaitUntilStep ==
    ASSUME ProcessInv, ResumesSavedContext, NEW c \in Cpus, NEW timed \in BOOLEAN,
           WaitCurrentUntil(c, timed)
    PROVE  ProcessInv'
<1> DEFINE old == task[cur[c]]
           k == old.seen[1]
<1>1. pc[c] = "run" /\ cur[c] # NoTask /\ old.seen # <<>>
  BY Zenon DEF WaitCurrentUntil
<1>2. PICK now \in IF timed THEN DeadlineFrom(c) ELSE {-1} :
        /\ IsCurrentGeneration(k, old.seen[2])
        /\ Block(c, [old EXCEPT !.status = "Waiting", !.wf = k, !.wake = now + 1])
  BY Zenon DEF WaitCurrentUntil
<1>3. now + 1 \in Nat
  BY DeadlineNat
<1> DEFINE r == [old EXCEPT !.status = "Waiting", !.wf = k, !.wake = now + 1]
<1>4. old \in Records /\ (old.join # NoTask => old.seen = <<>>)
  BY Zenon, <1>1, CurrentFacts DEF TaskInv
<1>5. gen[k] = old.seen[2]
  BY Zenon, <1>2 DEF IsCurrentGeneration
<1>6. Block(c, r)
  BY Zenon, <1>2
<1> HIDE DEF old
<1>7. old.seen \in Keys \X Nat
  BY Zenon, <1>1, <1>4 DEF Records
<1>8. k \in Keys /\ old.seen = <<k, gen[k]>>
  BY <1>5, <1>7
<1> HIDE DEF k
<1>9. /\ r \in Records /\ r.status = "Waiting" /\ r.home = old.home /\ r.pin = old.pin
      /\ r.stack = old.stack /\ r.space = old.space /\ r.saved = old.saved /\ r.join = old.join
      /\ r.wf = k /\ r.seen = old.seen
  BY <1>3, <1>4, <1>8, Zenon DEF Records, Statuses
<1> HIDE DEF r
<1>10. QED
  BY Zenon, <1>1, <1>4, <1>6, <1>8, <1>9, BlockStep DEF old

\* Calls that go on: the task changes what it has read or joins.
LEMMA CallStep ==
    ASSUME ProcessInv, ResumesSavedContext, NEW c \in Cpus,
           NEW seen \in {<<>>} \cup (Keys \X Nat), NEW join \in TasksOrNone,
           pc[c] = "run", cur[c] # NoTask,
           join # NoTask => seen = <<>> /\ join = task[cur[c]].join,
           Update(cur[c], [task[cur[c]] EXCEPT !.seen = seen, !.join = join]),
           UNCHANGED <<len, queue, cur, pc, plan, idleSaved, on, root, handoff, retired, clock, gen>>
    PROVE  ProcessInv'
<1>0. PICK t \in Tasks : t = cur[c]
  BY CurrentFacts, Zenon
<1> DEFINE old == task[t]
           r == [old EXCEPT !.seen = seen, !.join = join]
<1>1. /\ old \in Records /\ TaskInv(t) /\ old.stack /\ ~(t > len)
      /\ old.status = "Running" /\ old.wake = 0
  BY <1>0, CurrentFacts, Zenon
<1>2. task' = [task EXCEPT ![t] = r]
  BY <1>0, Zenon DEF Update
<1>3. /\ r \in Records /\ r.status = old.status /\ r.home = old.home /\ r.pin = old.pin
      /\ r.stack = old.stack /\ r.space = old.space /\ r.saved = old.saved /\ r.join = join
      /\ r.wf = old.wf /\ r.wake = old.wake /\ r.seen = seen
  <2> HIDE DEF old
  <2>1. QED
    BY <1>1, Zenon DEF Records
<1> HIDE DEF r
<1>4. task'[t] = r
  BY Zenon, <1>2 DEF ProcessInv, Types
<1>5. join # NoTask => task[join].status = "Zombie" /\ join # t
  BY Zenon, <1>0, <1>1 DEF TaskInv
<1>6. join # NoTask => task'[join].status = "Zombie"
  <2>1. join # NoTask => join \in Tasks
    BY Zenon DEF TasksOrNone
  <2>2. QED
    BY Zenon, <1>2, <1>5, <2>1 DEF ProcessInv, Types
<1>7. TaskInv(t)'
  <2>1. ~(t > len')
    BY Zenon, <1>1
  <2>2. r.pin \in {-1, r.home}
    BY Zenon, <1>1, <1>3 DEF TaskInv
  <2>3. QED
    BY <1>1, <1>3, <1>4, <1>6, <2>1, <2>2, Zenon DEF TaskInv
<1>8. QED
  BY <1>0, <1>1, <1>2, <1>3, <1>7, CurrentStep, Zenon

LEMMA CallSteps ==
    ASSUME ProcessInv, ResumesSavedContext, NEW c \in Cpus,
           WaitTaskReturn(c) \/ EventFound(c) \/ \E k \in Keys : EventGeneration(c, k)
    PROVE  ProcessInv'
<1> DEFINE old == task[cur[c]]
<1>1. pc[c] = "run" /\ cur[c] # NoTask
  BY Zenon DEF WaitTaskReturn, EventFound, EventGeneration
<1>2. old \in Records /\ TaskInv(cur[c])
  BY <1>1, CurrentFacts, Zenon
<1>3. /\ old.join \in TasksOrNone /\ old.seen \in {<<>>} \cup (Keys \X Nat)
      /\ old.join # NoTask => old.seen = <<>>
  BY Zenon, <1>2 DEF TaskInv, Records
<1>4. ASSUME NEW s, NEW j
      PROVE  /\ [old EXCEPT !.seen = s] = [old EXCEPT !.seen = s, !.join = old.join]
             /\ [old EXCEPT !.join = j] = [old EXCEPT !.seen = old.seen, !.join = j]
  <2> HIDE DEF old
  <2>1. QED
    BY <1>2, Zenon DEF Records
<1>5. <<>> \in {<<>>} \cup (Keys \X Nat) /\ NoTask \in TasksOrNone
  BY Zenon DEF TasksOrNone
<1>6. CASE WaitTaskReturn(c)
  <2>1. /\ Update(cur[c], [old EXCEPT !.seen = old.seen, !.join = NoTask])
        /\ UNCHANGED <<len, queue, cur, pc, plan, idleSaved, on, root, handoff, retired, clock, gen>>
    BY <1>4, <1>6, Zenon DEF WaitTaskReturn
  <2>2. QED
    BY <1>1, <1>3, <1>5, <2>1, CallStep, Zenon
<1>7. CASE EventFound(c)
  <2>1. /\ Update(cur[c], [old EXCEPT !.seen = <<>>, !.join = old.join])
        /\ UNCHANGED <<len, queue, cur, pc, plan, idleSaved, on, root, handoff, retired, clock, gen>>
    BY <1>4, <1>7, Zenon DEF EventFound
  <2>2. QED
    BY <1>1, <1>3, <1>5, <2>1, CallStep, Zenon
<1>8. ASSUME NEW k \in Keys, EventGeneration(c, k) PROVE ProcessInv'
  <2>1. /\ Update(cur[c], [old EXCEPT !.seen = <<k, gen[k]>>, !.join = old.join])
        /\ UNCHANGED <<len, queue, cur, pc, plan, idleSaved, on, root, handoff, retired, clock, gen>>
        /\ old.join = NoTask
    BY <1>4, <1>8, Zenon DEF EventGeneration, cpuVars
  <2>2. <<k, gen[k]>> \in {<<>>} \cup (Keys \X Nat)
    BY Zenon DEF ProcessInv, Types
  <2>3. QED
    BY <1>1, <1>3, <2>1, <2>2, CallStep, Zenon
<1>9. QED
  BY Zenon, <1>6, <1>7, <1>8

LEMMA ForgetStep ==
    ASSUME ProcessInv, ResumesSavedContext, NEW c \in Cpus, NEW k \in Keys, ForgetWaitKey(c, k)
    PROVE  ProcessInv'
<1>1. /\ UNCHANGED <<task, len, queue, cur, pc, plan, idleSaved, on, root, handoff, retired, clock>>
      /\ gen' = [gen EXCEPT ![k] = 0] /\ \A t \in Tasks : task[t].wf # k
  BY Zenon DEF ForgetWaitKey, cpuVars
<1>2. Types /\ gen \in [Keys -> Nat]
  BY Zenon DEF ProcessInv, Types
<1>3. gen' \in [Keys -> Nat] /\ \A j \in Keys \ {k} : gen'[j] = gen[j]
  BY Zenon, <1>1, <1>2
<1>4. Types'
  BY <1>1, <1>2, <1>3, Zenon DEF Types
<1>5. ASSUME NEW t \in Tasks PROVE TaskInv(t)'
  <2>1. TaskInv(t) /\ task[t].wf # k
    BY Zenon, <1>1 DEF ProcessInv
  <2>2. task[t].wf \in Keys => gen'[task[t].wf] = gen[task[t].wf]
    BY Zenon, <1>3, <2>1
  <2>3. QED
    BY Zenon, <1>1, <2>1, <2>2 DEF TaskInv
<1>6. \A t \in Tasks : Keeps(t)
  BY <1>1, Zenon DEF Keeps
<1>7. ASSUME NEW d \in Cpus PROVE Enters(d) /\ CurKept(d) /\ QueueKept(d)
  BY <1>1, Zenon DEF Enters, CurKept, QueueKept, ProcessInv, CurInv, PinInv, MayBeAt
<1>8. QED
  BY <1>1, <1>4, <1>5, <1>6, <1>7, KeepsUse, Zenon DEF ProcessInv

\* add_new_user_task.
LEMMA AddStep ==
    ASSUME ProcessInv, ResumesSavedContext, NEW c \in Cpus, NEW shares \in BOOLEAN,
           AddTask(c, shares)
    PROVE  ProcessInv'
<1> DEFINE id == len + 1
<1>0. len \in Nat /\ MaxTasks \in Nat /\ len < MaxTasks /\ id \in Tasks
  BY MaxTasksAssumption DEF AddTask, ProcessInv, Types, Tasks
<1>1. TargetCpu \in Cpus
  <2> DEFINE Free == {d \in Cpus \ {0} : cur[d] = NoTask /\ queue[d] = <<>>}
  <2>1. 0 \in Cpus /\ Free \in SUBSET Nat /\ Free \subseteq Cpus
    BY NumCpusAssumption DEF Cpus
  <2>2. Free # {} => Min(Free) \in Free
    BY Zenon, <2>1, MinIn
  <2>3. TargetCpu = IF Free = {} THEN 0 ELSE Min(Free)
    BY Zenon DEF TargetCpu
  <2>4. QED
    BY Zenon, <2>1, <2>2, <2>3
<1> DEFINE target == IF id = 1 THEN 0 ELSE TargetCpu
           space == IF shares THEN task[cur[c]].space ELSE id
           pin == IF id = 1 THEN 0 ELSE -1
           r == [Absent EXCEPT !.status = "Ready", !.home = target, !.pin = pin, !.stack = TRUE,
                               !.space = space, !.saved = TRUE]
<1>2. 0 \in Cpus /\ target \in Cpus /\ pin \in {-1, target} /\ -1 \notin Cpus
  BY <1>1, NumCpusAssumption DEF Cpus
<1>3. /\ task' = [task EXCEPT ![id] = r] /\ len' = id
      /\ queue' = [queue EXCEPT ![target] = Append(queue[target], id)]
      /\ UNCHANGED <<cur, pc, plan, idleSaved, on, root, handoff, retired, clock, gen>>
  BY Zenon DEF AddTask, Update, cpuVars
<1>4. space \in TasksOrNone
  <2>1. CASE ~shares
    BY Zenon, <1>0, <2>1 DEF TasksOrNone
  <2>2. CASE shares
    <3>1. InUser(c)
      BY Zenon, <2>2 DEF AddTask
    <3>2. task[cur[c]] \in Records
      BY Zenon, <3>1, CurrentFacts DEF InUser
    <3>3. QED
      BY Zenon, <2>2, <3>2 DEF Records
  <2>3. QED
    BY Zenon, <2>1, <2>2
<1> HIDE DEF space, pin, target
<1>5. /\ r \in Records /\ r.status = "Ready" /\ r.home = target /\ r.pin = pin /\ r.stack
      /\ r.join = NoTask
  BY <1>2, <1>4, Zenon DEF Absent, Records, Statuses, TasksOrNone
<1> HIDE DEF r
<1>6. /\ Types /\ task \in [Tasks -> Records] /\ queue \in [Cpus -> Seq(Tasks)]
      /\ cur \in [Cpus -> TasksOrNone]
  BY Zenon DEF ProcessInv, Types
<1>7. task[id].status = "Absent"
  <2>1. id > len /\ TaskInv(id)
    BY <1>0 DEF ProcessInv
  <2>2. QED
    BY <2>1, Zenon DEF TaskInv
<1>8. task'[id] = r /\ \A t \in Tasks \ {id} : task'[t] = task[t]
  BY Zenon, <1>0, <1>3, <1>6
<1>9. ASSUME NEW d \in Cpus
      PROVE  /\ queue'[d] \in Seq(Tasks)
             /\ \A i \in DOMAIN queue[d] : \E j \in DOMAIN queue'[d] : queue'[d][j] = queue[d][i]
             /\ \A j \in DOMAIN queue'[d] : \/ \E i \in DOMAIN queue[d] : queue'[d][j] = queue[d][i]
                                            \/ d = target /\ queue'[d][j] = id
  <2>1. CASE d # target
    BY Zenon, <1>2, <1>3, <1>6, <2>1
  <2>2. CASE d = target
    <3>1. queue'[d] = Append(queue[d], id) /\ queue[d] \in Seq(Tasks)
      BY Zenon, <1>2, <1>3, <1>6, <2>2
    <3>2. QED
      BY SMTT(30), <1>0, <2>2, <3>1
  <2>3. QED
    BY Zenon, <2>1, <2>2
<1> HIDE DEF id
<1>10. Types'
  <2>1. task' \in [Tasks -> Records]
    BY Zenon, <1>0, <1>3, <1>5, <1>6
  <2>2. queue' \in [Cpus -> Seq(Tasks)]
    BY <1>3, <1>6, <1>9, Zenon
  <2>3. len' \in 0 .. MaxTasks
    BY <1>0, <1>3 DEF Tasks
  <2>4. QED
    BY <1>3, <1>6, <2>1, <2>2, <2>3, Zenon DEF Types
<1>11. ASSUME NEW t \in Tasks PROVE TaskInv(t)'
  <2>1. CASE t = id
    <3>1. ~(t > len')
      BY <1>0, <1>3, <2>1 DEF Tasks
    <3>2. task'[t] = r
      BY Zenon, <1>8, <2>1
    <3>3. QED
      BY Zenon, <1>2, <1>5, <3>1, <3>2 DEF TaskInv
  <2>2. CASE t # id
    <3>1. TaskInv(t) /\ task'[t] = task[t] /\ gen' = gen /\ len' \in {len, len + 1}
      BY Zenon, <1>3, <1>8, <2>2 DEF ProcessInv, id
    <3>2. \A u \in Tasks : task[u].status = "Zombie" => task'[u].status = "Zombie"
      BY Zenon, <1>7, <1>8
    <3>3. QED
      BY <1>6, <3>1, <3>2, TaskKept, Zenon
  <2>3. QED
    BY Zenon, <2>1, <2>2
<1>12. \A t \in Tasks : Keeps(t)
  BY Zenon, <1>7, <1>8 DEF Keeps
<1>13. ASSUME NEW d \in Cpus PROVE Enters(d) /\ CurKept(d) /\ QueueKept(d)
  <2>1. CurInv(d) /\ PinInv(d) /\ UseInv(d) /\ cur[d] \in TasksOrNone
    BY Zenon, <1>6 DEF ProcessInv
  <2>2. CurKept(d)
    <3>1. cur[d] # NoTask => task'[cur[d]] = task[cur[d]]
      BY Zenon, <1>7, <1>8, <2>1 DEF UseInv, Using, TasksOrNone
    <3>2. QED
      BY Zenon, <1>3, <2>1, <3>1 DEF CurKept, CurInv
  <2>3. ASSUME NEW j \in DOMAIN queue'[d]
        PROVE  task'[queue'[d][j]].status # "Absent" /\ task'[queue'[d][j]].pin \in {-1, d}
    <3>1. CASE d = target /\ queue'[d][j] = id
      BY Zenon, <1>2, <1>5, <1>8, <3>1
    <3>2. ASSUME NEW i \in DOMAIN queue[d], queue'[d][j] = queue[d][i]
          PROVE  task'[queue'[d][j]].status # "Absent" /\ task'[queue'[d][j]].pin \in {-1, d}
      <4>1. queue[d][i] \in Tasks
        BY <1>6
      <4>2. QED
        BY Zenon, <1>12, <2>1, <3>2, <4>1 DEF PinInv, MayBeAt, Keeps
    <3>3. QED
      BY Zenon, <1>9, <3>1, <3>2
  <2>4. QueueKept(d)
    BY Zenon, <1>9, <2>3 DEF QueueKept
  <2>5. QED
    BY Zenon, <1>3, <2>2, <2>4 DEF Enters
<1>14. QED
  BY <1>3, <1>10, <1>11, <1>12, <1>13, KeepsUse, Zenon DEF ProcessInv

\* Tasks that a wakeup queues at their homes.
LEMMA HomeQueues ==
    ASSUME ProcessInv, NEW R \in SUBSET Tasks, \A t \in Tasks : Keeps(t),
           \A t \in R : task[t].status # "Absent",
           queue' = [d \in Cpus |-> queue[d] \o InOrder({t \in R : task[t].home = d})]
    PROVE  /\ queue' \in [Cpus -> Seq(Tasks)] /\ \A d \in Cpus : QueueKept(d)
           /\ \A t \in R, d \in Cpus :
                task[t].home = d => \E i \in DOMAIN queue'[d] : queue'[d][i] = t
<1> DEFINE H(d) == {t \in R : task[t].home = d}
           q(d) == InOrder(H(d))
<1>1. queue \in [Cpus -> Seq(Tasks)]
  BY Zenon DEF ProcessInv, Types
<1>2. ASSUME NEW d \in Cpus
      PROVE  /\ q(d) \in Seq(H(d)) /\ q(d) \in Seq(Tasks) /\ H(d) \subseteq Tasks
             /\ \A t \in H(d) : \E i \in DOMAIN q(d) : q(d)[i] = t
             /\ \A i \in DOMAIN q(d) : q(d)[i] \in H(d)
  <2>1. H(d) \in SUBSET Tasks
    BY Zenon
  <2> HIDE DEF H
  <2>2. q(d) \in Seq(H(d)) /\ \A t \in H(d) : \E i \in DOMAIN q(d) : q(d)[i] = t
    BY <2>1, InOrderRight, Zenon
  <2> HIDE DEF q
  <2>3. QED
    BY <2>1, <2>2
<1>3. \A d \in Cpus : queue'[d] = queue[d] \o q(d)
  BY Zenon
<1> HIDE DEF q
<1>4. ASSUME NEW d \in Cpus
      PROVE  /\ queue[d] \in Seq(Tasks) /\ queue'[d] \in Seq(Tasks)
             /\ \A i \in DOMAIN queue[d] : \E k \in DOMAIN queue'[d] : queue'[d][k] = queue[d][i]
             /\ \A i \in DOMAIN q(d) : \E k \in DOMAIN queue'[d] : queue'[d][k] = q(d)[i]
             /\ \A k \in DOMAIN queue'[d] : \/ \E i \in DOMAIN queue[d] : queue'[d][k] = queue[d][i]
                                            \/ \E i \in DOMAIN q(d) : queue'[d][k] = q(d)[i]
  <2>1. queue[d] \in Seq(Tasks) /\ q(d) \in Seq(Tasks) /\ queue'[d] = queue[d] \o q(d)
    BY <1>1, <1>2, <1>3, Zenon
  <2>2. queue'[d] \in Seq(Tasks) /\ Joins(queue'[d], queue[d], q(d))
    BY <2>1, ConcatRight, Zenon
  <2>3. QED
    BY <2>1, <2>2, Zenon DEF Joins
<1>5. queue' \in [Cpus -> Seq(Tasks)]
  BY <1>4, Zenon
<1>6. ASSUME NEW d \in Cpus PROVE QueueKept(d)
  <2>1. PinInv(d)
    BY Zenon DEF ProcessInv
  <2>2. ASSUME NEW t \in Tasks, task[t].status # "Absent", task[t].pin \in {-1, d}
        PROVE  task'[t].status # "Absent" /\ task'[t].pin \in {-1, d}
    BY Zenon, <2>2 DEF Keeps
  <2>3. ASSUME NEW k \in DOMAIN queue'[d]
        PROVE  /\ queue'[d][k] \in Tasks /\ task[queue'[d][k]].status # "Absent"
               /\ task[queue'[d][k]].pin \in {-1, d}
    <3>1. ASSUME NEW i \in DOMAIN queue[d] PROVE queue[d][i] \in Tasks /\ MayBeAt(queue[d][i], d)
      BY <1>1, <2>1 DEF PinInv
    <3>2. ASSUME NEW i \in DOMAIN q(d)
          PROVE  q(d)[i] \in Tasks /\ MayBeAt(q(d)[i], d)
      <4>1. q(d)[i] \in R /\ q(d)[i] \in Tasks /\ task[q(d)[i]].home = d
        BY <1>2, Zenon
      <4>2. TaskInv(q(d)[i])
        BY <4>1, Zenon DEF ProcessInv
      <4>3. QED
        BY Zenon, <4>1, <4>2 DEF MayBeAt, TaskInv
    <3>3. \/ \E i \in DOMAIN queue[d] : queue'[d][k] = queue[d][i]
          \/ \E i \in DOMAIN q(d) : queue'[d][k] = q(d)[i]
      BY <1>4, Zenon
    <3>4. queue'[d][k] \in Tasks /\ MayBeAt(queue'[d][k], d)
      BY <3>1, <3>2, <3>3, Zenon
    <3>5. QED
      BY <3>4, Zenon DEF MayBeAt
  <2>4. QED
    BY <1>4, <2>2, <2>3, Zenon DEF QueueKept
<1>7. ASSUME NEW t \in R, NEW d \in Cpus, task[t].home = d
      PROVE  \E i \in DOMAIN queue'[d] : queue'[d][i] = t
  <2>1. t \in H(d)
    BY Zenon, <1>7
  <2>2. PICK i \in DOMAIN q(d) : q(d)[i] = t
    BY <1>2, <2>1, Zenon
  <2>3. QED
    BY <1>4, <2>2, Zenon
<1>8. QED
  BY <1>5, <1>6, <1>7, Zenon

\* What becoming ready or running changes in a task.
LEMMA WokenRight ==
    ASSUME NEW r \in Records, NEW status \in Statuses
    PROVE  LET w == Woken(r, status)
           IN  /\ w \in Records /\ w.status = status /\ w.wf = NoTask /\ w.wake = 0
               /\ w.home = r.home /\ w.pin = r.pin /\ w.stack = r.stack /\ w.space = r.space
               /\ w.saved = r.saved /\ w.seen = r.seen /\ w.join = r.join
BY Zenon DEF Woken, Records, TasksOrNone

\* wake_waiters.
LEMMA WakeStep ==
    ASSUME ProcessInv, ResumesSavedContext, NEW c \in Cpus, NEW k \in Keys, WakeWaiters(c, k)
    PROVE  ProcessInv'
<1> DEFINE W == WaitersOf(task, k)
           R == {t \in W : ~StillCurrent(t)}
           Status(t) == IF t \in R THEN "Ready" ELSE "Running"
<1>1. /\ task' = [t \in Tasks |-> IF t \in R THEN Woken(task[t], "Ready")
                                  ELSE IF t \in W THEN Woken(task[t], "Running") ELSE task[t]]
      /\ queue' = [d \in Cpus |-> queue[d] \o InOrder({t \in R : task[t].home = d})]
  BY Zenon DEF WakeWaiters, QueueAll
<1>2. /\ gen' = [gen EXCEPT ![k] = gen[k] + 1]
      /\ UNCHANGED <<len, cur, pc, plan, idleSaved, on, root, handoff, retired, clock>>
  BY Zenon DEF WakeWaiters, cpuVars
<1>3. /\ Types /\ task \in [Tasks -> Records] /\ gen \in [Keys -> Nat]
      /\ cur \in [Cpus -> TasksOrNone]
  BY Zenon DEF ProcessInv, Types
<1>4. /\ W \subseteq Tasks /\ R \subseteq W
      /\ \A t \in W : task[t].status = "Waiting" /\ task[t].wf = k
      /\ \A t \in Tasks : task[t].status = "Waiting" /\ task[t].wf = k => t \in W
  BY Zenon DEF WaitersOf
<1>5. \A t \in R : \A d \in Cpus : cur[d] # t
  BY Zenon DEF StillCurrent, Published
<1> HIDE DEF R, W
<1>6. /\ \A t \in W : task'[t] = Woken(task[t], Status(t))
      /\ \A t \in Tasks \ W : task'[t] = task[t]
  BY Zenon, <1>1, <1>4
<1>7. ASSUME NEW t \in W
      PROVE  /\ t \in Tasks /\ task'[t] \in Records
             /\ task'[t].status = Status(t) /\ task'[t].status \in {"Ready", "Running"}
             /\ task'[t].wf = NoTask /\ task'[t].wake = 0
             /\ task'[t].home = task[t].home /\ task'[t].pin = task[t].pin
             /\ task'[t].stack = task[t].stack /\ task'[t].space = task[t].space
             /\ task'[t].saved = task[t].saved /\ task'[t].seen = task[t].seen
             /\ task'[t].join = task[t].join
  <2>1. t \in Tasks /\ task[t] \in Records /\ Status(t) \in Statuses
    BY Zenon, <1>3, <1>4 DEF Statuses
  <2>2. task'[t] = Woken(task[t], Status(t))
    BY Zenon, <1>6
  <2>3. QED
    BY <2>1, <2>2, WokenRight
<1> HIDE DEF Status
<1>8. \A t \in Tasks : Keeps(t)
  BY Zenon, <1>4, <1>6, <1>7 DEF Keeps
<1>9. \A t \in R : task[t].status # "Absent" /\ t \in Tasks
  BY Zenon, <1>4
<1>10. queue' \in [Cpus -> Seq(Tasks)] /\ \A d \in Cpus : QueueKept(d)
  BY <1>1, <1>8, <1>9, HomeQueues, Zenon
<1>11. gen' \in [Keys -> Nat] /\ \A j \in Keys \ {k} : gen'[j] = gen[j]
  BY <1>2, <1>3
<1>12. Types'
  <2>1. \A t \in Tasks : task'[t] \in Records
    BY Zenon, <1>3, <1>6, <1>7
  <2>2. task' \in [Tasks -> Records]
    BY Zenon, <1>1, <2>1
  <2>3. QED
    BY <1>2, <1>3, <1>10, <1>11, <2>2, Zenon DEF Types
<1>13. \A u \in Tasks : task[u].status = "Zombie" => task'[u].status = "Zombie"
  BY Zenon, <1>4, <1>6
<1>14. ASSUME NEW t \in Tasks PROVE TaskInv(t)'
  <2>1. CASE t \notin W
    <3>1. task'[t] = task[t] /\ TaskInv(t) /\ len' \in {len, len + 1}
      BY Zenon, <1>2, <1>6, <2>1 DEF ProcessInv
    <3>2. task[t].status = "Waiting" /\ task[t].wf \in Keys => gen'[task[t].wf] = gen[task[t].wf]
      BY Zenon, <1>4, <1>11, <2>1
    <3>3. QED
      BY <1>3, <1>13, <3>1, <3>2, TaskKept, Zenon
  <2>2. CASE t \in W
    <3>1. TaskInv(t) /\ task[t].status = "Waiting" /\ task[t].wf = k /\ len' = len
      BY <1>2, <1>4, <2>2, Zenon DEF ProcessInv
    <3>2. task[t].join \in TasksOrNone
      BY Zenon, <1>3 DEF Records
    <3>3. task[t].join # NoTask => task[task[t].join].status = "Zombie" /\ task[t].join \in Tasks
      BY Zenon, <3>1, <3>2, KeysAssumption DEF TaskInv, TasksOrNone
    <3>4. task'[t].join # NoTask => task'[task'[t].join].status = "Zombie"
      BY ZenonT(40), <1>7, <1>13, <2>2, <3>3
    <3>5. ~(t > len') /\ task[t].stack
      BY Zenon, <3>1 DEF TaskInv
    <3>6. QED
      BY <1>7, <2>2, <3>1, <3>4, <3>5, Zenon DEF TaskInv
  <2>3. QED
    BY Zenon, <2>1, <2>2
<1>15. ASSUME NEW d \in Cpus PROVE Enters(d) /\ CurKept(d)
  <2>1. CurInv(d) /\ cur[d] \in TasksOrNone /\ cur' = cur /\ pc' = pc
    BY Zenon, <1>2, <1>3 DEF ProcessInv
  <2>2. ASSUME cur[d] # NoTask
        PROVE  task'[cur[d]] = task[cur[d]]
                \/ (task[cur[d]].status = "Waiting" /\ task'[cur[d]].status = "Running")
    <3>1. cur[d] \in Tasks /\ cur[d] \notin R
      BY Zenon, <1>5, <2>1, <2>2 DEF TasksOrNone
    <3>2. QED
      BY Zenon, <1>4, <1>6, <1>7, <3>1 DEF Status
  <2>3. CurKept(d)
    BY Zenon, <2>1, <2>2 DEF CurKept, CurInv
  <2>4. QED
    BY Zenon, <2>1, <2>3 DEF Enters
<1>16. QED
  BY <1>2, <1>8, <1>10, <1>12, <1>14, <1>15, KeepsUse, Zenon DEF ProcessInv

\* terminate_task.
LEMMA TerminateStep ==
    ASSUME ProcessInv, ResumesSavedContext, NEW c \in Cpus, TerminateTask(c)
    PROVE  ProcessInv'
<1>0. pc[c] = "run" /\ cur[c] # NoTask /\ task[cur[c]].join = NoTask
  BY Zenon DEF TerminateTask, InUser, InCall
<1>1. PICK x \in Tasks : x = cur[c]
  BY <1>0, CurrentFacts, Zenon
<1>2. task[x] \in Records /\ task[x].status = "Running" /\ TaskInv(x) /\ ~(x > len)
  BY <1>0, <1>1, CurrentFacts, Zenon
<1>3. /\ Types /\ task \in [Tasks -> Records] /\ cur \in [Cpus -> TasksOrNone]
      /\ pc \in [Cpus -> {"run", "sched", "load", "switch", "publish", "lost"}]
  BY Zenon DEF ProcessInv, Types
<1> DEFINE dying == Dying(cur[c])
           R == WaitersOf(dying, cur[c])
<1>4. /\ task' = [t \in Tasks |-> IF t \in R THEN Joined(task[t]) ELSE dying[t]]
      /\ queue' = [d \in Cpus |-> queue[d] \o InOrder({t \in R : task[t].home = d})]
  BY Zenon DEF TerminateTask, QueueAll
<1>5. /\ pc' = [pc EXCEPT ![c] = "sched"]
      /\ UNCHANGED <<len, cur, plan, idleSaved, on, root, handoff, retired, clock, gen>>
  BY Zenon DEF TerminateTask, Goto
<1>6. dying[x] = [task[x] EXCEPT !.status = "Zombie"] /\ \A t \in Tasks \ {x} : dying[t] = task[t]
  BY Zenon, <1>1, <1>3 DEF Dying
<1>7. /\ R \subseteq Tasks \ {x}
      /\ \A t \in R : task[t].status = "Waiting" /\ task[t].wf = x
  <2>1. dying[x].status = "Zombie"
    <3> HIDE DEF dying
    <3>1. QED
      BY Zenon, <1>2, <1>6 DEF Records
  <2> HIDE DEF dying
  <2>2. QED
    BY <1>1, <1>6, <2>1, Zenon DEF WaitersOf
<1> HIDE DEF dying, R
<1>8. /\ task'[x] = [task[x] EXCEPT !.status = "Zombie"]
      /\ \A t \in R : task'[t] = Joined(task[t])
      /\ \A t \in Tasks : t \notin R /\ t # x => task'[t] = task[t]
  BY Zenon, <1>4, <1>6, <1>7
<1>9. ASSUME NEW r \in Records, NEW w, w = [r EXCEPT !.status = "Zombie"]
      PROVE  /\ w \in Records /\ w.status = "Zombie" /\ w.stack = r.stack /\ w.space = r.space
             /\ w.pin = r.pin /\ w.home = r.home /\ w.saved = r.saved /\ w.join = r.join
  BY Zenon, <1>9 DEF Records, Statuses
<1>10. ASSUME NEW r \in Records, NEW w, w = [r EXCEPT !.status = "Ready", !.wf = NoTask]
      PROVE  /\ w \in Records /\ w.status = "Ready" /\ w.stack = r.stack /\ w.space = r.space
             /\ w.pin = r.pin /\ w.home = r.home /\ w.saved = r.saved /\ w.join = r.join
             /\ w.seen = r.seen
  BY <1>10, Zenon DEF Records, Statuses, TasksOrNone
<1>11. /\ task'[x] \in Records /\ task'[x].status = "Zombie" /\ task'[x].stack = task[x].stack
       /\ task'[x].space = task[x].space /\ task'[x].pin = task[x].pin
       /\ task'[x].home = task[x].home /\ task'[x].saved = task[x].saved
       /\ task'[x].join = NoTask
  BY <1>0, <1>1, <1>2, <1>8, <1>9
<1>12. ASSUME NEW t \in R
       PROVE  /\ t \in Tasks /\ t # x /\ task'[t] \in Records /\ task'[t].status = "Ready"
              /\ task'[t].stack = task[t].stack /\ task'[t].space = task[t].space
              /\ task'[t].pin = task[t].pin /\ task'[t].home = task[t].home
              /\ task'[t].saved = task[t].saved /\ task'[t].join = task[t].join
              /\ task'[t].seen = task[t].seen
  <2>1. t \in Tasks /\ t # x /\ task[t] \in Records
    BY Zenon, <1>3, <1>7
  <2>2. task'[t] = [task[t] EXCEPT !.status = "Ready", !.wf = NoTask]
    BY <1>8, Zenon DEF Joined
  <2>3. QED
    BY <1>10, <2>1, <2>2, ZenonT(40)
<1>13. \A t \in Tasks : Keeps(t)
  <2>1. Keeps(x)
    BY Zenon, <1>2, <1>11 DEF Keeps
  <2>2. ASSUME NEW t \in R PROVE Keeps(t)
    BY Zenon, <1>7, <1>12 DEF Keeps
  <2>3. ASSUME NEW t \in Tasks, t \notin R, t # x PROVE Keeps(t)
    BY Zenon, <1>8, <2>3 DEF Keeps
  <2>4. QED
    BY Zenon, <2>1, <2>2, <2>3
<1>14. /\ queue' \in [Cpus -> Seq(Tasks)] /\ \A d \in Cpus : QueueKept(d)
       /\ \A t \in R, d \in Cpus :
            task[t].home = d => \E i \in DOMAIN queue'[d] : queue'[d][i] = t
  <2>1. \A t \in R : task[t].status # "Absent" /\ t \in Tasks
    BY Zenon, <1>7
  <2>2. QED
    BY <1>4, <1>13, <2>1, HomeQueues, Zenon
<1>15. Types'
  <2>1. \A t \in Tasks : task'[t] \in Records
    BY Zenon, <1>3, <1>8, <1>11, <1>12
  <2>2. task' \in [Tasks -> Records]
    BY Zenon, <1>4, <2>1
  <2>3. pc' \in [Cpus -> {"run", "sched", "load", "switch", "publish", "lost"}]
    BY Zenon, <1>3, <1>5
  <2>4. QED
    BY <1>3, <1>5, <1>14, <2>2, <2>3, Zenon DEF Types
<1>16. \A u \in Tasks : task[u].status = "Zombie" => task'[u].status = "Zombie"
  BY <1>7, <1>8, <1>11, Zenon
<1>17. ASSUME NEW t \in Tasks PROVE TaskInv(t)'
  <2>0. TaskInv(t) /\ len' = len /\ gen' = gen
    BY Zenon, <1>5 DEF ProcessInv
  <2>1. CASE t = x
    <3>1. task'[t].pin \in {-1, task'[t].home}
      BY Zenon, <1>11, <2>0, <2>1 DEF TaskInv
    <3>2. QED
      BY Zenon, <1>2, <1>11, <2>0, <2>1, <3>1 DEF TaskInv
  <2>2. CASE t \in R
    <3>1. task[t].status = "Waiting" /\ task[t].wf = x
      BY Zenon, <1>7, <2>2
    <3>2. task[t].join \in TasksOrNone
      BY Zenon, <1>3 DEF Records
    <3>3. task[t].join # NoTask => task'[task[t].join].status = "Zombie"
      BY Zenon, <1>11, <1>16, <2>0, <3>1, <3>2 DEF TaskInv, TasksOrNone
    <3>4. ~(t > len') /\ task[t].stack /\ (task[t].join # NoTask => task[t].seen = <<>>)
      BY Zenon, <2>0, <3>1 DEF TaskInv
    <3>5. task'[t].pin \in {-1, task'[t].home}
      BY Zenon, <1>12, <2>0, <2>2 DEF TaskInv
    <3>6. QED
      BY Zenon, <1>12, <2>2, <3>3, <3>4, <3>5 DEF TaskInv
  <2>3. CASE t \notin R /\ t # x
    <3>1. task'[t] = task[t] /\ len' \in {len, len + 1}
      BY Zenon, <1>8, <2>0, <2>3
    <3>2. QED
      BY <1>3, <1>16, <2>0, <3>1, TaskKept, Zenon
  <2>4. QED
    BY Zenon, <2>1, <2>2, <2>3
<1>18. ASSUME NEW d \in Cpus PROVE Enters(d) /\ CurKept(d)
  <2>1. CurInv(d) /\ cur[d] \in TasksOrNone /\ cur' = cur /\ ExclusiveInv(d) /\ pc[d] # "lost"
    BY Zenon, <1>3, <1>5 DEF ProcessInv, ResumesSavedContext
  <2>2. Enters(d)
    BY Zenon, <1>0, <1>3, <1>5 DEF Enters
  <2>3. CASE d = c
    BY <1>1, <1>3, <1>5, <1>11, <2>2, <2>3, Zenon DEF CurKept
  <2>4. CASE d # c
    <3>1. pc'[d] = pc[d]
      BY Zenon, <1>3, <1>5, <2>4
    <3>2. ASSUME cur[d] # NoTask PROVE cur[d] \in Tasks /\ cur[d] # x /\ task[cur[d]].home = d
      <4>1. x \notin Using(d)
        <5>1. ExclusiveInv(c) /\ x \in Using(c)
          BY Zenon, <1>0, <1>1 DEF ProcessInv, Using
        <5>2. QED
          BY Zenon, <2>4, <5>1 DEF ExclusiveInv
      <4>2. QED
        BY <2>1, <3>2, <4>1, Zenon DEF Using, TasksOrNone, ExclusiveInv
    <3>3. CASE cur[d] \in R
      <4>1. task[cur[d]].status = "Waiting" /\ task'[cur[d]].status = "Ready"
        BY Zenon, <1>7, <1>12, <3>3
      <4>2. cur[d] # NoTask => \E i \in DOMAIN queue'[d] : queue'[d][i] = cur[d]
        BY Zenon, <1>14, <3>2, <3>3
      <4>3. pc'[d] \notin {"load", "switch", "publish", "run"} \/ cur[d] = NoTask
        BY Zenon, <2>1, <3>1, <4>1 DEF CurInv
      <4>4. QED
        BY Zenon, <2>2, <4>1, <4>2, <4>3 DEF CurKept
    <3>4. CASE cur[d] \notin R
      <4>1. cur[d] # NoTask => task'[cur[d]] = task[cur[d]]
        BY Zenon, <1>8, <3>2, <3>4
      <4>2. QED
        BY <2>1, <2>2, <3>1, <4>1, Zenon DEF CurKept, CurInv
    <3>5. QED
      BY Zenon, <3>3, <3>4
  <2>5. QED
    BY Zenon, <2>2, <2>3, <2>4
<1>19. QED
  BY <1>5, <1>13, <1>14, <1>15, <1>17, <1>18, KeepsUse, Zenon DEF ProcessInv

----------------------------------------------------------------------------
(* After the lock: the steps of a switch.                                  *)

\* The kinds of what a CPU holds.
LEMMA CpuTypes ==
    ASSUME Types, NEW c \in Cpus
    PROVE  /\ cur[c] \in TasksOrNone /\ handoff[c] \in TasksOrNone /\ queue[c] \in Seq(Tasks)
           /\ plan[c] \in Plans /\ plan[c].from \in TasksOrNone
           /\ plan[c].out \in TasksOrNone /\ plan[c].retires \in TasksOrNone
           /\ Leaving(c) \in TasksOrNone /\ Using(c) \subseteq Tasks
<1>1. cur[c] \in TasksOrNone /\ plan[c] \in Plans /\ handoff[c] \in TasksOrNone
  BY Zenon DEF Types
<1>2. /\ plan[c].from \in TasksOrNone /\ plan[c].out \in TasksOrNone
      /\ plan[c].retires \in TasksOrNone /\ NoTask \in TasksOrNone
  BY Zenon, <1>1 DEF Plans, TasksOrNone
<1>3. Leaving(c) \in TasksOrNone
  BY Zenon, <1>2 DEF Leaving
<1>4. Using(c) \subseteq Tasks
  BY Zenon, <1>1, <1>3 DEF Using, TasksOrNone
<1>5. queue[c] \in Seq(Tasks)
  BY Zenon DEF Types
<1>6. QED
  BY Zenon, <1>1, <1>2, <1>3, <1>4, <1>5

\* Loading CR3.
LEMMA LoadStep ==
    ASSUME ProcessInv, ResumesSavedContext, NEW c \in Cpus, LoadRoot(c)
    PROVE  ProcessInv'
<1>1. /\ pc[c] = "load" /\ pc' = [pc EXCEPT ![c] = "switch"]
      /\ root' = [root EXCEPT ![c] = IF cur[c] = NoTask THEN NoTask ELSE task[cur[c]].space]
      /\ UNCHANGED <<task, len, queue, cur, plan, idleSaved, on, handoff, retired, clock, gen>>
  BY Zenon DEF LoadRoot, Goto
<1>2. /\ Types /\ root \in [Cpus -> TasksOrNone] /\ cur \in [Cpus -> TasksOrNone]
      /\ pc \in [Cpus -> {"run", "sched", "load", "switch", "publish", "lost"}]
      /\ task \in [Tasks -> Records]
  BY Zenon DEF ProcessInv, Types
<1>3. pc'[c] = "switch" /\ \A d \in Cpus \ {c} : pc'[d] = pc[d] /\ root'[d] = root[d]
  BY Zenon, <1>1, <1>2
<1>4. Types'
  <2>1. pc' \in [Cpus -> {"run", "sched", "load", "switch", "publish", "lost"}]
    BY Zenon, <1>1, <1>2
  <2>2. cur[c] # NoTask => task[cur[c]].space \in TasksOrNone
    BY Zenon, <1>2 DEF Records, TasksOrNone
  <2>3. root' \in [Cpus -> TasksOrNone]
    BY Zenon, <1>1, <1>2, <2>2 DEF TasksOrNone
  <2>4. QED
    BY <1>1, <1>2, <2>1, <2>3, Zenon DEF Types
<1>5. \A t \in Tasks : TaskInv(t)'
  BY <1>1, Zenon DEF ProcessInv, TaskInv
<1>6. ASSUME NEW d \in Cpus
      PROVE  Leaving(d)' = Leaving(d) /\ Using(d)' = Using(d) /\ StackOf(d)' = StackOf(d)
  BY Zenon, <1>1, <1>3 DEF Leaving, Using, StackOf
<1>7. ASSUME NEW d \in Cpus PROVE UseInv(d)' /\ CurInv(d)' /\ RetireInv(d)' /\ ExclusiveInv(d)'
  <2>1. UseInv(d) /\ CurInv(d) /\ RetireInv(d) /\ ExclusiveInv(d)
    BY Zenon DEF ProcessInv
  <2>2. UseInv(d)'
    BY <1>1, <1>6, <2>1, Zenon DEF UseInv
  <2>3. CurInv(d)'
    BY Zenon, <1>1, <1>3, <2>1 DEF CurInv
  <2>4. RetireInv(d)'
    BY Zenon, <1>1, <1>3, <2>1 DEF RetireInv
  <2>5. ExclusiveInv(d)'
    BY <1>1, <1>6, <2>1, Zenon DEF ExclusiveInv
  <2>6. QED
    BY Zenon, <2>2, <2>3, <2>4, <2>5
<1>8. ASSUME NEW d \in Cpus PROVE PlaceInv(d)'
  <2>1. PlaceInv(d)
    BY Zenon DEF ProcessInv
  <2>2. CASE d = c
    <3>1. RootOf(c)' = cur[c] /\ root'[c] = IF cur[c] = NoTask THEN NoTask ELSE task[cur[c]].space
      BY Zenon, <1>1, <1>2, <1>3 DEF RootOf
    <3>2. QED
      BY <1>1, <1>6, <2>1, <2>2, <3>1, Zenon DEF PlaceInv
  <2>3. CASE d # c
    <3>1. RootOf(d)' = RootOf(d) /\ root'[d] = root[d]
      BY Zenon, <1>1, <1>3, <2>3 DEF RootOf
    <3>2. QED
      BY <1>1, <1>6, <2>1, <3>1, Zenon DEF PlaceInv
  <2>4. QED
    BY Zenon, <2>2, <2>3
<1>9. ASSUME NEW d \in Cpus PROVE PinInv(d)'
  <2>1. PinInv(d)
    BY Zenon DEF ProcessInv
  <2>2. QED
    BY Zenon, <1>1, <1>3, <2>1 DEF PinInv, MayBeAt
<1>10. GoneInv'
  <2>1. GoneInv
    BY Zenon DEF ProcessInv
  <2>2. \A t : Gone(t) => Gone(t)'
    BY <1>1, <1>6, Zenon DEF Gone
  <2>3. \A d \in Cpus : pc'[d] = "publish" => pc[d] = "publish"
    BY Zenon, <1>3
  <2>4. QED
    BY Zenon, <1>1, <2>1, <2>2, <2>3 DEF GoneInv
<1>11. QED
  BY <1>4, <1>5, <1>7, <1>8, <1>9, <1>10, Zenon DEF ProcessInv

\* The handoff, or the retirement of a dead task's stack.
LEMMA PublishStep ==
    ASSUME ProcessInv, ResumesSavedContext, NEW c \in Cpus, Publish(c)
    PROVE  ProcessInv'
<1>1. /\ pc[c] = "publish" /\ pc' = [pc EXCEPT ![c] = "run"]
      /\ handoff' = IF plan[c].out = NoTask THEN handoff ELSE [handoff EXCEPT ![c] = plan[c].out]
      /\ plan' = [plan EXCEPT ![c] = NoPlan]
      /\ UNCHANGED <<task, len, queue, cur, idleSaved, on, root, clock, gen>>
  BY Zenon DEF Publish, Goto
<1>2. \A t \in retired' : t \in retired \/ (t = plan[c].retires /\ t # NoTask)
  BY Zenon DEF Publish
<1>3. /\ Types /\ handoff \in [Cpus -> TasksOrNone] /\ plan \in [Cpus -> Plans]
      /\ retired \subseteq Tasks
      /\ pc \in [Cpus -> {"run", "sched", "load", "switch", "publish", "lost"}]
  BY Zenon DEF ProcessInv, Types
<1>4. /\ pc'[c] = "run" /\ plan'[c] = NoPlan
      /\ handoff'[c] = IF plan[c].out = NoTask THEN handoff[c] ELSE plan[c].out
      /\ \A d \in Cpus \ {c} : pc'[d] = pc[d] /\ plan'[d] = plan[d] /\ handoff'[d] = handoff[d]
  BY Zenon, <1>1, <1>3
<1>5. Types'
  <2>0. plan[c].out \in TasksOrNone /\ plan[c].retires \in TasksOrNone
    BY Zenon, <1>3, CpuTypes
  <2>1. pc' \in [Cpus -> {"run", "sched", "load", "switch", "publish", "lost"}]
    BY Zenon, <1>1, <1>3
  <2>2. plan' \in [Cpus -> Plans]
    BY Zenon, <1>1, <1>3 DEF Plans, NoPlan, SwitchPlan, TasksOrNone
  <2>3. handoff' \in [Cpus -> TasksOrNone]
    BY Zenon, <1>1, <1>3, <2>0
  <2>4. retired' \subseteq Tasks
    BY Zenon, <1>2, <1>3, <2>0 DEF TasksOrNone
  <2>5. QED
    BY <1>1, <1>3, <2>1, <2>2, <2>3, <2>4, Zenon DEF Types
<1>6. \A t \in Tasks : TaskInv(t)'
  BY Zenon, <1>1 DEF ProcessInv, TaskInv
<1>7. ASSUME NEW d \in Cpus
      PROVE  /\ Leaving(d)' = Leaving(d) /\ Using(d)' = Using(d) /\ StackOf(d)' = StackOf(d)
             /\ RootOf(d)' = RootOf(d)
  BY <1>1, <1>4 DEF Leaving, Using, StackOf, RootOf
<1>8. ASSUME NEW d \in Cpus
      PROVE  UseInv(d)' /\ PlaceInv(d)' /\ CurInv(d)' /\ RetireInv(d)' /\ ExclusiveInv(d)'
  <2>1. UseInv(d) /\ PlaceInv(d) /\ CurInv(d) /\ RetireInv(d) /\ ExclusiveInv(d)
    BY Zenon DEF ProcessInv
  <2>2. UseInv(d)'
    BY <1>1, <1>7, <2>1, Zenon DEF UseInv
  <2>3. CurInv(d)'
    BY Zenon, <1>1, <1>4, <2>1 DEF CurInv
  <2>4. RetireInv(d)'
    BY <1>1, <1>4, <2>1, Zenon DEF RetireInv
  <2>5. ExclusiveInv(d)'
    BY <1>1, <1>7, <2>1, ZenonT(40) DEF ExclusiveInv
  <2>6. PlaceInv(d)'
    BY <1>1, <1>7, <2>1, ZenonT(40) DEF PlaceInv
  <2>7. QED
    BY Zenon, <2>2, <2>3, <2>4, <2>5, <2>6
<1>9. ASSUME NEW d \in Cpus PROVE PinInv(d)'
  <2>1. PinInv(d)
    BY Zenon DEF ProcessInv
  <2>2. CASE d = c
    BY <1>1, <1>4, <2>1, <2>2 DEF PinInv, MayBeAt
  <2>3. CASE d # c
    BY Zenon, <1>1, <1>4, <2>1, <2>3 DEF PinInv, MayBeAt
  <2>4. QED
    BY Zenon, <2>2, <2>3
<1>10. GoneInv'
  <2>1. GoneInv
    BY Zenon DEF ProcessInv
  <2>2. \A t : Gone(t) => Gone(t)'
    BY <1>1, <1>7, Zenon DEF Gone
  <2>3. \A t \in retired' : Gone(t)
    BY Zenon, <1>1, <1>2, <2>1 DEF GoneInv
  <2>4. \A d \in Cpus : pc'[d] = "publish" => pc[d] = "publish" /\ plan'[d] = plan[d]
    BY <1>4, Zenon
  <2>5. QED
    BY <2>1, <2>2, <2>3, <2>4, Zenon DEF GoneInv
<1>11. QED
  BY <1>5, <1>6, <1>8, <1>9, <1>10, Zenon DEF ProcessInv

\* context_switch.
LEMMA StackStep ==
    ASSUME ProcessInv, ResumesSavedContext, NEW c \in Cpus, SwitchStack(c)
    PROVE  ProcessInv'
<1>1. /\ pc[c] = "switch" /\ pc' = [pc EXCEPT ![c] = "publish"]
      /\ on' = [on EXCEPT ![c] = cur[c]]
      /\ UNCHANGED <<len, queue, cur, plan, root, handoff, retired, clock, gen>>
  BY Zenon DEF SwitchStack, Goto
<1>2. /\ Types /\ on \in [Cpus -> TasksOrNone] /\ cur \in [Cpus -> TasksOrNone]
      /\ idleSaved \in [Cpus -> BOOLEAN] /\ task \in [Tasks -> Records]
      /\ pc \in [Cpus -> {"run", "sched", "load", "switch", "publish", "lost"}]
  BY Zenon DEF ProcessInv, Types
<1>3. PICK f \in TasksOrNone : f = plan[c].from
  BY Zenon, <1>2, CpuTypes
<1>4. /\ f = NoTask => idleSaved' = [idleSaved EXCEPT ![c] = TRUE] /\ task' = task
      /\ f # NoTask => task' = [task EXCEPT ![f].saved = TRUE] /\ idleSaved' = idleSaved
  BY Zenon, <1>3 DEF SwitchStack
<1>5. /\ pc'[c] = "publish" /\ on'[c] = cur[c]
      /\ \A d \in Cpus \ {c} : pc'[d] = pc[d] /\ on'[d] = on[d]
  BY Zenon, <1>1, <1>2
<1>6. task' \in [Tasks -> Records] /\ \A t \in Tasks : t # f => task'[t] = task[t]
  <2>1. CASE f = NoTask
    BY Zenon, <1>2, <1>4, <2>1
  <2>2. CASE f # NoTask
    <3>1. f \in Tasks /\ task[f] \in Records
      BY Zenon, <1>2, <2>2 DEF TasksOrNone
    <3>2. [task[f] EXCEPT !.saved = TRUE] \in Records
      BY <3>1, Zenon DEF Records
    <3>3. QED
      BY <1>2, <1>4, <2>2, <3>1, <3>2, Zenon
  <2>3. QED
    BY Zenon, <2>1, <2>2
<1>7. ASSUME NEW t \in Tasks
      PROVE  /\ task'[t].status = task[t].status /\ task'[t].stack = task[t].stack
             /\ task'[t].space = task[t].space /\ task'[t].pin = task[t].pin
             /\ task'[t].home = task[t].home /\ task'[t].wake = task[t].wake
             /\ task'[t].wf = task[t].wf /\ task'[t].seen = task[t].seen
             /\ task'[t].join = task[t].join
  <2>1. CASE t # f
    BY Zenon, <1>6, <2>1
  <2>2. CASE t = f
    <3>1. task'[t] = [task[t] EXCEPT !.saved = TRUE] \/ task'[t] = task[t]
      BY <1>2, <1>4, <2>2, Zenon
    <3>2. task[t] \in Records
      BY Zenon, <1>2
    <3>3. QED
      BY Zenon, <3>1, <3>2 DEF Records
  <2>3. QED
    BY <2>1, <2>2, Zenon
<1>8. Types'
  <2>1. pc' \in [Cpus -> {"run", "sched", "load", "switch", "publish", "lost"}]
    BY Zenon, <1>1, <1>2
  <2>2. on' \in [Cpus -> TasksOrNone] /\ idleSaved' \in [Cpus -> BOOLEAN]
    BY <1>1, <1>2, <1>4, Zenon
  <2>3. QED
    BY <1>1, <1>2, <1>6, <2>1, <2>2, Zenon DEF Types
<1>9. ASSUME NEW t \in Tasks PROVE TaskInv(t)'
  <2>1. TaskInv(t) /\ len' = len /\ gen' = gen
    BY <1>1, Zenon DEF ProcessInv
  <2>2. task[t].join \in TasksOrNone
    BY Zenon, <1>2 DEF Records
  <2>3. task[t].join # NoTask => task'[task[t].join].status = task[task[t].join].status
    BY Zenon, <1>7, <2>2 DEF TasksOrNone
  <2>4. QED
    BY Zenon, <1>7, <2>1, <2>3 DEF TaskInv
<1>10. /\ Leaving(c) = f /\ Leaving(c)' = NoTask /\ Using(c)' = {cur[c]} \ {NoTask}
       /\ StackOf(c)' = cur[c]
  BY Zenon, <1>1, <1>3, <1>5 DEF Leaving, Using, StackOf
<1>11. ASSUME NEW d \in Cpus, d # c
       PROVE  Leaving(d)' = Leaving(d) /\ Using(d)' = Using(d) /\ StackOf(d)' = StackOf(d)
  BY Zenon, <1>1, <1>5, <1>11 DEF Leaving, Using, StackOf
<1>12. ASSUME NEW d \in Cpus
       PROVE  /\ Using(d)' \subseteq Using(d) /\ Using(d) \subseteq Tasks
              /\ RootOf(d)' = RootOf(d) /\ cur[d] \in TasksOrNone
              /\ RootOf(d) \in TasksOrNone
  <2>1. Using(d)' \subseteq Using(d)
    BY Zenon, <1>10, <1>11 DEF Using
  <2>2. RootOf(d)' = RootOf(d)
    BY Zenon, <1>1, <1>5 DEF RootOf
  <2>3. QED
    BY <1>2, <2>1, <2>2, CpuTypes, Zenon DEF RootOf
<1>13. ASSUME NEW d \in Cpus, NEW t \in Using(d)' PROVE task'[t] = task[t]
  <2>1. t # f
    <3>1. CASE d = c
      <4>1. ExclusiveInv(c)
        BY Zenon DEF ProcessInv
      <4>2. QED
        BY Zenon, <1>10, <1>13, <3>1, <4>1 DEF ExclusiveInv
    <3>2. CASE d # c
      <4>1. ExclusiveInv(d) /\ t \in Using(d)
        BY Zenon, <1>12, <1>13 DEF ProcessInv
      <4>2. t \notin Using(c)
        BY Zenon, <3>2, <4>1 DEF ExclusiveInv
      <4>3. QED
        BY Zenon, <1>10, <1>12, <4>1, <4>2 DEF Using, Tasks, NoTask
    <3>3. QED
      BY Zenon, <3>1, <3>2
  <2>2. QED
    BY Zenon, <1>6, <1>12, <1>13, <2>1
<1>14. ASSUME NEW d \in Cpus PROVE UseInv(d)' /\ PlaceInv(d)' /\ CurInv(d)' /\ RetireInv(d)'
  <2>1. UseInv(d) /\ PlaceInv(d) /\ CurInv(d) /\ RetireInv(d)
    BY Zenon DEF ProcessInv
  <2>2. UseInv(d)'
    BY Zenon, <1>12, <1>13, <2>1 DEF UseInv
  <2>3. PlaceInv(d)'
    <3>1. RootOf(d) # NoTask => task'[RootOf(d)].space = task[RootOf(d)].space
      BY Zenon, <1>7, <1>12 DEF TasksOrNone
    <3>2. on'[d] = StackOf(d)'
      BY <1>5, <1>10, <1>11, <2>1, Zenon DEF PlaceInv
    <3>3. QED
      BY Zenon, <1>1, <1>12, <2>1, <3>1, <3>2 DEF PlaceInv
  <2>4. CurInv(d)'
    <3>1. cur[d] # NoTask => task'[cur[d]].status = task[cur[d]].status
      BY Zenon, <1>7, <1>12 DEF TasksOrNone
    <3>2. CASE d = c
      <4>1. cur[c] # NoTask => idleSaved'[c]
        <5>1. CASE f = NoTask
          BY Zenon, <1>2, <1>4, <5>1
        <5>2. CASE f # NoTask
          BY Zenon, <1>1, <1>3, <1>4, <2>1, <3>2, <5>2 DEF CurInv
        <5>3. QED
          BY Zenon, <5>1, <5>2
      <4>2. QED
        BY Zenon, <1>1, <1>5, <2>1, <3>1, <3>2, <4>1 DEF CurInv
    <3>3. CASE d # c
      <4>1. idleSaved'[d] = idleSaved[d]
        BY Zenon, <1>2, <1>4, <3>3
      <4>2. QED
        BY Zenon, <1>1, <1>5, <2>1, <3>1, <3>3, <4>1 DEF CurInv
    <3>4. QED
      BY Zenon, <3>2, <3>3
  <2>5. RetireInv(d)'
    <3>1. plan[d].retires # NoTask => task'[plan[d].retires].status = task[plan[d].retires].status
      BY <1>2, <1>7, CpuTypes, Zenon DEF TasksOrNone
    <3>2. QED
      BY <1>1, <1>5, <2>1, <3>1, Zenon DEF RetireInv
  <2>6. QED
    BY Zenon, <2>2, <2>3, <2>4, <2>5
<1>15. ASSUME NEW d \in Cpus PROVE PinInv(d)'
  <2>1. PinInv(d) /\ cur' = cur /\ queue' = queue /\ handoff' = handoff /\ plan' = plan
    BY <1>1, Zenon DEF ProcessInv
  <2>2. ASSUME NEW t \in TasksOrNone, t # NoTask, MayBeAt(t, d) PROVE MayBeAt(t, d)'
    BY <1>7, <2>2, Zenon DEF MayBeAt, TasksOrNone
  <2>3. /\ cur[d] \in TasksOrNone /\ handoff[d] \in TasksOrNone /\ plan[d].out \in TasksOrNone
        /\ queue[d] \in Seq(Tasks)
    BY Zenon, <1>2, CpuTypes
  <2>4. (cur[d] # NoTask => MayBeAt(cur[d], d))'
    BY Zenon, <2>1, <2>2, <2>3 DEF PinInv
  <2>5. (\A i \in DOMAIN queue[d] : MayBeAt(queue[d][i], d))'
    <3>1. \A i \in DOMAIN queue[d] : queue[d][i] \in Tasks
      BY <2>3
    <3>2. \A t \in Tasks : t \in TasksOrNone /\ t # NoTask
      BY DEF TasksOrNone, Tasks, NoTask
    <3>3. QED
      BY Zenon, <2>1, <2>2, <3>1, <3>2 DEF PinInv
  <2>6. (handoff[d] # NoTask => MayBeAt(handoff[d], d))'
    BY Zenon, <2>1, <2>2, <2>3 DEF PinInv
  <2>7. (pc[d] \in {"load", "switch", "publish"} /\ plan[d].out # NoTask => MayBeAt(plan[d].out, d))'
    BY Zenon, <1>1, <1>5, <2>1, <2>2, <2>3 DEF PinInv
  <2>8. QED
    BY <2>4, <2>5, <2>6, <2>7, Zenon DEF PinInv
<1>16. GoneInv'
  <2>1. GoneInv /\ retired \subseteq Tasks
    BY Zenon DEF ProcessInv, Types
  <2>2. ASSUME NEW t \in Tasks, Gone(t) PROVE Gone(t)'
    BY Zenon, <1>7, <1>12, <2>2 DEF Gone
  <2>3. ASSUME NEW d \in Cpus, pc'[d] = "publish", plan[d].retires # NoTask
        PROVE  Gone(plan[d].retires)'
    <3>0. plan[d].retires \in Tasks
      BY Zenon, <1>2, <2>3, CpuTypes DEF TasksOrNone
    <3>1. CASE d # c
      BY Zenon, <1>1, <1>5, <2>1, <2>2, <2>3, <3>0, <3>1 DEF GoneInv
    <3>2. CASE d = c
      <4>1. plan[c].retires = f /\ task[f].status = "Zombie" /\ f \in Tasks
        <5>1. RetireInv(c)
          BY Zenon DEF ProcessInv
        <5>2. QED
          BY Zenon, <1>1, <1>3, <2>3, <3>0, <3>2, <5>1 DEF RetireInv
      <4>2. f \in Using(c) /\ ExclusiveInv(c)
        BY <1>10, <4>1 DEF Using, Tasks, NoTask, ProcessInv
      <4>3. \A e \in Cpus : f \notin Using(e)'
        BY <1>10, <1>11, <4>2 DEF ExclusiveInv
      <4>4. task'[f].status = "Zombie" /\ plan'[c] = plan[c]
        BY Zenon, <1>1, <1>7, <4>1
      <4>5. QED
        BY Zenon, <1>1, <3>2, <4>1, <4>3, <4>4 DEF Gone
    <3>3. QED
      BY Zenon, <3>1, <3>2
  <2>4. QED
    BY Zenon, <1>1, <2>1, <2>2, <2>3 DEF GoneInv
<1>17. ASSUME NEW d \in Cpus PROVE ExclusiveInv(d)'
  <2>1. ExclusiveInv(d)
    BY Zenon DEF ProcessInv
  <2>2. cur[d] # NoTask => cur[d] \in Using(d)' /\ cur[d] # Leaving(d)'
    BY Zenon, <1>1, <1>10, <1>11, <2>1 DEF Using, ExclusiveInv
  <2>3. \A t \in Using(d)' : ~task'[t].saved /\ \A e \in Cpus \ {d} : t \notin Using(e)'
    BY Zenon, <1>12, <1>13, <2>1 DEF ExclusiveInv
  <2>4. cur[d] # NoTask => task'[cur[d]] = task[cur[d]]
    BY Zenon, <1>13, <2>2
  <2>5. QED
    BY Zenon, <1>1, <2>1, <2>2, <2>3, <2>4 DEF ExclusiveInv
<1>18. QED
  BY <1>8, <1>9, <1>14, <1>15, <1>16, <1>17, Zenon DEF ProcessInv

----------------------------------------------------------------------------
(* What switch_task works out under the lock: the sweeps over the slots,   *)
(* the search of the queues, the task to run next.                         *)

\* What the sweeps do to a task: nothing, or the release of a dead task's
\* memory, the end of a sleep, the end of a preemption.
Maintains(c, t) ==
    LET r == task[t]
        m == Maintained(c).task[t]
    IN  /\ m \in Records /\ m.pin = r.pin /\ m.saved = r.saved /\ m.seen = r.seen /\ m.join = r.join
        /\ \/ m = r
           \/ Gone(t) /\ m.status = "Zombie" /\ m.home = r.home
           \/ /\ t \in Sleepers(c) /\ r.status \in {"Sleeping", "Waiting"} /\ m.status = "Ready"
              /\ r.status = "Waiting" => r.wake # 0
              /\ m.home = r.home /\ m.stack = r.stack /\ m.space = r.space
           \/ /\ t \in SwitchedOut(c) /\ r.status = "SwitchingOut" /\ m.status = "Ready"
              /\ m.home = c /\ r.pin \in {-1, c} /\ m.stack = r.stack /\ m.space = r.space

LEMMA MaintainedTask ==
    ASSUME ProcessInv, NEW c \in Cpus, NEW t \in Tasks
    PROVE  Maintains(c, t)
<1> DEFINE r == task[t]
           m == Maintained(c).task[t]
<1>1. r \in Records
  BY Zenon DEF ProcessInv, Types
<1>2. m = IF t \in Sleepers(c) THEN Woken(r, "Ready")
          ELSE IF t \in Reaped(c) THEN [r EXCEPT !.stack = FALSE, !.space = NoTask]
          ELSE IF t \in SwitchedOut(c) THEN [r EXCEPT !.status = "Ready", !.home = c]
          ELSE r
  BY Zenon DEF Maintained
<1> HIDE DEF m
<1>3. CASE t \in Sleepers(c)
  <2>1. /\ r.status \in {"Sleeping", "Waiting"} /\ (r.status = "Waiting" => r.wake # 0)
    BY Zenon, <1>3 DEF Sleepers, Expired
  <2>2. m = Woken(r, "Ready") /\ "Ready" \in Statuses
    BY Zenon, <1>2, <1>3 DEF Statuses
  <2> HIDE DEF r
  <2>3. /\ m \in Records /\ m.pin = r.pin /\ m.saved = r.saved /\ m.seen = r.seen /\ m.join = r.join
        /\ m.status = "Ready" /\ m.home = r.home /\ m.stack = r.stack /\ m.space = r.space
    BY <1>1, <2>2, WokenRight, Zenon
  <2>4. QED
    BY <1>3, <2>1, <2>3, Zenon DEF Maintains, m, r
<1>4. CASE t \notin Sleepers(c) /\ t \in Reaped(c)
  <2>1. r.status = "Zombie" /\ Gone(t)
    BY Zenon, <1>4 DEF Reaped, Reapable, ProcessInv, GoneInv
  <2>2. m = [r EXCEPT !.stack = FALSE, !.space = NoTask]
    BY Zenon, <1>2, <1>4
  <2> HIDE DEF r
  <2>3. /\ m \in Records /\ m.pin = r.pin /\ m.saved = r.saved /\ m.seen = r.seen /\ m.join = r.join
        /\ m.status = "Zombie" /\ m.home = r.home
    BY <1>1, <2>1, <2>2, Zenon DEF Records, TasksOrNone
  <2>4. QED
    BY <2>1, <2>3, Zenon DEF Maintains, m, r
<1>5. CASE t \notin Sleepers(c) /\ t \notin Reaped(c) /\ t \in SwitchedOut(c)
  <2>1. r.status = "SwitchingOut" /\ handoff[c] = t
    BY Zenon, <1>5 DEF SwitchedOut
  <2>2. r.pin \in {-1, c}
    <3>1. PinInv(c) /\ t # NoTask
      BY DEF ProcessInv, Tasks, NoTask
    <3>2. QED
      BY Zenon, <2>1, <3>1 DEF PinInv, MayBeAt
  <2>3. m = [r EXCEPT !.status = "Ready", !.home = c]
    BY Zenon, <1>2, <1>5
  <2> HIDE DEF r
  <2>4. /\ m \in Records /\ m.pin = r.pin /\ m.saved = r.saved /\ m.seen = r.seen /\ m.join = r.join
        /\ m.status = "Ready" /\ m.home = c /\ m.stack = r.stack /\ m.space = r.space
    BY <1>1, <2>3, Zenon DEF Records, Statuses
  <2>5. QED
    BY <1>5, <2>1, <2>2, <2>4, Zenon DEF Maintains, m, r
<1>6. CASE t \notin Sleepers(c) /\ t \notin Reaped(c) /\ t \notin SwitchedOut(c)
  <2>1. m = r
    BY Zenon, <1>2, <1>6
  <2>2. QED
    BY <1>1, <2>1, Zenon DEF Maintains, m, r
<1>7. QED
  BY Zenon, <1>3, <1>4, <1>5, <1>6

\* The queues after the sweeps: what was there, and the tasks that are ready.
LEMMA MaintainedQueue ==
    ASSUME ProcessInv, NEW c \in Cpus, NEW d \in Cpus
    PROVE  LET q == Maintained(c).queue[d]
           IN  /\ q \in Seq(Tasks)
               /\ \A i \in DOMAIN queue[d] : \E k \in DOMAIN q : q[k] = queue[d][i]
               /\ \A t \in Sleepers(c) :
                    WakeHome(task[t]) = d => \E k \in DOMAIN q : q[k] = t
               /\ \A t \in SwitchedOut(c) : d = c => \E k \in DOMAIN q : q[k] = t
               /\ \A k \in DOMAIN q : MayBeAt(q[k], d)
<1> DEFINE q == Maintained(c).queue[d]
           S == {t \in Sleepers(c) : WakeHome(task[t]) = d}
           X == IF d = c THEN SwitchedOut(c) ELSE {}
           b == queue[d] \o InOrder(S)
           e == IF d = c THEN InOrder(SwitchedOut(c)) ELSE <<>>
<1>1. queue[d] \in Seq(Tasks)
  BY Zenon DEF ProcessInv, Types
<1>2. S \in SUBSET Tasks /\ SwitchedOut(c) \in SUBSET Tasks
  BY Zenon DEF Sleepers, SwitchedOut
<1>3. q = b \o e
  BY Zenon DEF Maintained
<1>4. \A t \in S : t \in Sleepers(c) /\ WakeHome(task[t]) = d
  BY Zenon
<1> HIDE DEF q
<1>5. InOrder(S) \in Seq(S) /\ \A t \in S : \E i \in DOMAIN InOrder(S) : InOrder(S)[i] = t
  <2> HIDE DEF S
  <2>1. QED
    BY <1>2, InOrderRight, Zenon
<1>6. e \in Seq(X) /\ \A t \in X : \E i \in DOMAIN e : e[i] = t
  <2>1. CASE d = c
    <3>1. e = InOrder(SwitchedOut(c)) /\ X = SwitchedOut(c)
      BY Zenon, <2>1
    <3>2. /\ InOrder(SwitchedOut(c)) \in Seq(SwitchedOut(c))
          /\ \A t \in SwitchedOut(c) : \E i \in DOMAIN InOrder(SwitchedOut(c)) :
               InOrder(SwitchedOut(c))[i] = t
      BY <1>2, InOrderRight, Zenon
    <3>3. QED
      BY <3>1, <3>2, Zenon
  <2>2. CASE d # c
    BY <2>2
  <2>3. QED
    BY Zenon, <2>1, <2>2
<1>7. \A t \in X : t \in SwitchedOut(c) /\ d = c
  BY Zenon
<1>8. d = c => X = SwitchedOut(c)
  BY Zenon
<1>9. X \in SUBSET Tasks
  BY Zenon, <1>2, <1>7
<1>10. b = queue[d] \o InOrder(S)
  BY Zenon
<1> HIDE DEF S, X, b, e
<1>11. InOrder(S) \in Seq(Tasks) /\ \A i \in DOMAIN InOrder(S) : InOrder(S)[i] \in S
  BY <1>2, <1>5
<1>12. e \in Seq(Tasks) /\ \A i \in DOMAIN e : e[i] \in X
  BY <1>6, <1>9
<1>13. b \in Seq(Tasks) /\ Joins(b, queue[d], InOrder(S))
  BY <1>1, <1>10, <1>11, ConcatRight, Zenon
<1>14. q \in Seq(Tasks) /\ Joins(q, b, e)
  BY <1>3, <1>12, <1>13, ConcatRight, Zenon
<1>15. ASSUME NEW i \in DOMAIN queue[d] PROVE \E k \in DOMAIN q : q[k] = queue[d][i]
  <2>1. PICK j \in DOMAIN b : b[j] = queue[d][i]
    BY <1>13, Zenon DEF Joins
  <2>2. PICK k \in DOMAIN q : q[k] = b[j]
    BY <1>14, Zenon DEF Joins
  <2>3. QED
    BY Zenon, <2>1, <2>2
<1>16. ASSUME NEW t \in Sleepers(c), WakeHome(task[t]) = d PROVE \E k \in DOMAIN q : q[k] = t
  <2>1. t \in S
    BY Zenon, <1>16 DEF S
  <2>2. PICK i \in DOMAIN InOrder(S) : InOrder(S)[i] = t
    BY <1>5, <2>1, Zenon
  <2>3. PICK j \in DOMAIN b : b[j] = t
    BY <1>13, <2>2, Zenon DEF Joins
  <2>4. PICK k \in DOMAIN q : q[k] = b[j]
    BY <1>14, Zenon DEF Joins
  <2>5. QED
    BY Zenon, <2>3, <2>4
<1>17. ASSUME NEW t \in SwitchedOut(c), d = c PROVE \E k \in DOMAIN q : q[k] = t
  <2>1. PICK i \in DOMAIN e : e[i] = t
    BY Zenon, <1>6, <1>8, <1>17
  <2>2. QED
    BY <1>14, <2>1, Zenon DEF Joins
<1>18. ASSUME NEW k \in DOMAIN q PROVE MayBeAt(q[k], d)
  <2>1. PinInv(d)
    BY Zenon DEF ProcessInv
  <2>2. \A i \in DOMAIN queue[d] : MayBeAt(queue[d][i], d)
    BY <2>1, Zenon DEF PinInv
  <2>3. ASSUME NEW t \in S PROVE MayBeAt(t, d)
    <3>1. t \in Tasks /\ WakeHome(task[t]) = d /\ task[t].status \in {"Sleeping", "Waiting"}
      BY Zenon, <1>2, <1>4 DEF Sleepers, Expired
    <3>2. QED
      BY Zenon, <3>1 DEF MayBeAt, WakeHome
  <2>4. ASSUME NEW t \in X PROVE MayBeAt(t, d)
    <3>1. handoff[d] = t /\ t # NoTask
      BY <1>7, <1>9 DEF SwitchedOut, Tasks, NoTask
    <3>2. QED
      BY Zenon, <2>1, <3>1 DEF PinInv
  <2>5. \A j \in DOMAIN b : MayBeAt(b[j], d)
    BY <1>11, <1>13, <2>2, <2>3, Zenon DEF Joins
  <2>6. QED
    BY <1>12, <1>14, <2>4, <2>5, Zenon DEF Joins
<1>19. QED
  BY <1>14, <1>15, <1>16, <1>17, <1>18, Zenon DEF q

\* claim_local_ready_task finds a ready entry, or there is none.
LEMMA LocalRight ==
    ASSUME ProcessInv, NEW c \in Cpus
    PROVE  LET q == Maintained(c).queue[c]
           IN  /\ LocalAt(c) \in 0 .. Len(q)
               /\ LocalAt(c) > 0 => /\ LocalAt(c) \in DOMAIN q
                                    /\ Maintained(c).task[q[LocalAt(c)]].status = "Ready"
               /\ LocalAt(c) = 0 =>
                    \A k \in DOMAIN q : Maintained(c).task[q[k]].status # "Ready"
<1> DEFINE q == Maintained(c).queue[c]
           I == {i \in DOMAIN q : Maintained(c).task[q[i]].status = "Ready"}
<1>1. q \in Seq(Tasks)
  BY Zenon, MaintainedQueue
<1>2. LocalAt(c) = IF I # {} THEN Min(I) ELSE 0
  BY Zenon DEF LocalAt
<1> HIDE DEF q
<1>3. Len(q) \in Nat /\ DOMAIN q = 1 .. Len(q)
  BY <1>1
<1>4. I \in SUBSET Nat /\ \A i \in I : i \in 1 .. Len(q)
  BY <1>3
<1>5. CASE I # {}
  <2>1. LocalAt(c) \in I
    <3> HIDE DEF I
    <3>1. QED
      BY Zenon, <1>2, <1>4, <1>5, MinIn
  <2>2. LocalAt(c) \in 1 .. Len(q) /\ Maintained(c).task[q[LocalAt(c)]].status = "Ready"
    BY <2>1
  <2>3. LocalAt(c) \in 0 .. Len(q) /\ LocalAt(c) # 0
    BY <1>3, <2>2
  <2>4. QED
    BY Zenon, <1>3, <2>2, <2>3 DEF q
<1>6. CASE I = {}
  <2>1. \A k \in 1 .. Len(q) : Maintained(c).task[q[k]].status # "Ready"
    BY <1>6
  <2>2. LocalAt(c) = 0 /\ ~(0 > 0) /\ 0 \in 0 .. Len(q)
    BY <1>2, <1>3, <1>6
  <2>3. QED
    BY <1>3, <2>1, <2>2, Zenon DEF q
<1>7. QED
  BY Zenon, <1>5, <1>6

\* steal_and_claim_ready_task takes a ready task that is not pinned.
LEMMA StealRight ==
    ASSUME ProcessInv, NEW c \in Cpus, NEW v \in Cpus, StealAt(c, v) > 0
    PROVE  LET q == Maintained(c).queue[v]
           IN  /\ StealAt(c, v) \in 1 .. Len(q)
               /\ Maintained(c).task[q[StealAt(c, v)]].status = "Ready"
               /\ Maintained(c).task[q[StealAt(c, v)]].pin = -1
<1> DEFINE q == Maintained(c).queue[v]
           I == {i \in DOMAIN q : Stealable(Maintained(c).task[q[i]])}
<1>1. q \in Seq(Tasks)
  BY Zenon, MaintainedQueue
<1>2. StealAt(c, v) = IF I # {} THEN Max(I) ELSE 0
  BY Zenon DEF StealAt
<1> HIDE DEF q
<1>3. Len(q) \in Nat
  BY <1>1
<1>4. I \in SUBSET Nat /\ \A i \in I : i <= Len(q)
  BY <1>3
<1>5. I # {}
  <2> HIDE DEF I
  <2>1. QED
    BY <1>2
<1>6. StealAt(c, v) \in I
  <2> HIDE DEF I
  <2>1. QED
    BY <1>2, <1>3, <1>4, <1>5, MaxIn, Zenon
<1>7. StealAt(c, v) \in 1 .. Len(q) /\ Stealable(Maintained(c).task[q[StealAt(c, v)]])
  BY <1>6
<1>8. QED
  BY <1>7, Zenon DEF Stealable, q

\* There is one victim at most.
LEMMA OneVictim ==
    ASSUME ProcessInv, NEW c \in Cpus, NEW v \in Victims(c), NEW w \in Victims(c)
    PROVE  v = w
<1> DEFINE L(d) == Len(Maintained(c).queue[d])
<1>1. \A d \in Cpus : L(d) \in Nat
  BY MaintainedQueue
<1>2. /\ v \in Cpus \ {c} /\ w \in Cpus \ {c}
      /\ L(v) <= L(w) /\ (v < w => L(v) < L(w)) /\ L(w) <= L(v) /\ (w < v => L(w) < L(v))
  BY Zenon DEF Victims
<1> HIDE DEF L
<1>3. QED
  BY <1>1, <1>2, NumCpusAssumption DEF Cpus

\* The task a CPU switches to is ready and may run there; if there is none,
\* no task in its queue is ready.
LEMMA NextRight ==
    ASSUME ProcessInv, NEW c \in Cpus
    PROVE  /\ NextTask(c) \in TasksOrNone
           /\ NextTask(c) # NoTask =>
                /\ Maintained(c).task[NextTask(c)].status = "Ready"
                /\ task[NextTask(c)].pin \in {-1, c}
           /\ NextTask(c) = NoTask =>
                \A k \in DOMAIN Maintained(c).queue[c] :
                    Maintained(c).task[Maintained(c).queue[c][k]].status # "Ready"
<1> DEFINE q == Maintained(c).queue[c]
<1>1. /\ q \in Seq(Tasks) /\ LocalAt(c) \in Nat /\ \A k \in DOMAIN q : MayBeAt(q[k], c)
      /\ LocalAt(c) > 0 => LocalAt(c) \in DOMAIN q /\ Maintained(c).task[q[LocalAt(c)]].status = "Ready"
      /\ LocalAt(c) = 0 => \A k \in DOMAIN q : Maintained(c).task[q[k]].status # "Ready"
  BY LocalRight, MaintainedQueue
<1>2. \A t \in Tasks : t \in TasksOrNone /\ t # NoTask
  BY DEF Tasks, TasksOrNone, NoTask
<1>3. CASE LocalAt(c) > 0
  <2>1. NextTask(c) = q[LocalAt(c)]
    BY Zenon, <1>3 DEF NextTask
  <2> HIDE DEF q
  <2>2. q[LocalAt(c)] \in Tasks
    BY <1>1, <1>3
  <2>3. task[q[LocalAt(c)]].pin \in {-1, c}
    BY <1>1, <1>3, Zenon DEF MayBeAt
  <2>4. QED
    BY Zenon, <1>1, <1>2, <1>3, <2>1, <2>2, <2>3
<1>4. CASE ~(LocalAt(c) > 0)
  <2>1. LocalAt(c) = 0
    BY <1>1, <1>4
  <2>2. CASE Victims(c) = {}
    <3>1. NextTask(c) = NoTask
      BY Zenon, <1>4, <2>2 DEF NextTask
    <3>2. QED
      BY Zenon, <1>1, <2>1, <3>1 DEF TasksOrNone
  <2>3. CASE Victims(c) # {}
    <3>1. PICK v \in Victims(c) : NextTask(c) = Maintained(c).queue[v][StealAt(c, v)]
      BY <1>4, <2>3, Zenon DEF NextTask
    <3>2. v \in Cpus /\ StealAt(c, v) > 0
      BY ZenonT(40) DEF Victims
    <3>3. /\ Maintained(c).queue[v] \in Seq(Tasks)
          /\ StealAt(c, v) \in 1 .. Len(Maintained(c).queue[v])
          /\ Maintained(c).task[NextTask(c)].status = "Ready"
          /\ Maintained(c).task[NextTask(c)].pin = -1
      BY SMTT(30), <3>1, <3>2, StealRight, MaintainedQueue
    <3>4. NextTask(c) \in Tasks
      BY <3>1, <3>3
    <3>5. task[NextTask(c)].pin = -1
      BY <3>3, <3>4, MaintainedTask DEF Maintains
    <3>6. QED
      BY Zenon, <1>2, <3>3, <3>4, <3>5
  <2>4. QED
    BY Zenon, <2>2, <2>3
<1>5. QED
  BY Zenon, <1>3, <1>4

\* The queues after the choice: a CPU that is not choosing loses nothing but
\* the task that is taken.
LEMMA QueuesRight ==
    ASSUME ProcessInv, NEW c \in Cpus
    PROVE  /\ QueuesAfter(c) \in [Cpus -> Seq(Tasks)]
           /\ \A d \in Cpus : \A i \in DOMAIN QueuesAfter(c)[d] : MayBeAt(QueuesAfter(c)[d][i], d)
           /\ \A d \in Cpus \ {c} : \A k \in DOMAIN Maintained(c).queue[d] :
                Maintained(c).queue[d][k] # NextTask(c) =>
                    \E i \in DOMAIN QueuesAfter(c)[d] :
                        QueuesAfter(c)[d][i] = Maintained(c).queue[d][k]
<1> DEFINE a(d) == QueuesAfter(c)[d]
           q(d) == Maintained(c).queue[d]
<1>1. \A d \in Cpus : q(d) \in Seq(Tasks) /\ \A k \in DOMAIN q(d) : MayBeAt(q(d)[k], d)
  BY Zenon, MaintainedQueue
<1>2. ASSUME NEW d \in Cpus
      PROVE  a(d) = IF d = c THEN DropThrough(q(d), IF LocalAt(c) = 0 THEN Len(q(d)) ELSE LocalAt(c))
                    ELSE IF d \in Victims(c) THEN DropAt(q(d), StealAt(c, d))
                    ELSE q(d)
  BY Zenon DEF QueuesAfter
<1>3. \A d \in Victims(c) : /\ LocalAt(c) = 0 /\ StealAt(c, d) > 0 /\ d \in Cpus
                            /\ StealAt(c, d) \in 1 .. Len(q(d))
  <2>1. \A d \in Victims(c) : LocalAt(c) = 0 /\ StealAt(c, d) > 0 /\ d \in Cpus
    BY Zenon DEF Victims
  <2>2. QED
    BY Zenon, <2>1, StealRight
<1>4. LocalAt(c) \in 0 .. Len(q(c))
  BY Zenon, LocalRight
<1>5. \A d \in Victims(c) : NextTask(c) = q(d)[StealAt(c, d)]
  <2>1. ASSUME NEW d \in Victims(c) PROVE NextTask(c) = q(d)[StealAt(c, d)]
    <3>1. (CHOOSE v \in Victims(c) : TRUE) = d
      BY Zenon, OneVictim
    <3>2. ~(LocalAt(c) > 0) /\ Victims(c) # {}
      BY <1>3
    <3>3. QED
      BY <3>1, <3>2, Zenon DEF NextTask
  <2>2. QED
    BY Zenon, <2>1
<1>6. DOMAIN QueuesAfter(c) = Cpus
  BY Zenon DEF QueuesAfter
<1> HIDE DEF q
<1>7. ASSUME NEW d \in Cpus
      PROVE  /\ a(d) \in Seq(Tasks)
             /\ \A i \in DOMAIN a(d) : \E j \in DOMAIN q(d) : a(d)[i] = q(d)[j]
             /\ d # c => \A k \in DOMAIN q(d) :
                  q(d)[k] # NextTask(c) => \E i \in DOMAIN a(d) : a(d)[i] = q(d)[k]
  <2> HIDE DEF a
  <2>0. q(d) \in Seq(Tasks) /\ DOMAIN q(d) = 1 .. Len(q(d)) /\ Len(q(d)) \in Nat
    BY <1>1
  <2>1. CASE d = c
    <3>1. PICK p \in 0 .. Len(q(d)) : a(d) = DropThrough(q(d), p)
      BY <1>2, <1>4, <2>0, <2>1
    <3>2. /\ DropThrough(q(d), p) \in Seq(Tasks)
          /\ \A i \in DOMAIN DropThrough(q(d), p) :
               \E j \in DOMAIN q(d) : DropThrough(q(d), p)[i] = q(d)[j]
      BY <2>0, DropThroughRight, Zenon
    <3>3. /\ a(d) \in Seq(Tasks)
          /\ \A i \in DOMAIN a(d) : \E j \in DOMAIN q(d) : a(d)[i] = q(d)[j]
      BY <3>1, <3>2, Zenon
    <3>4. QED
      BY Zenon, <2>1, <3>3
  <2>2. CASE d # c /\ d \in Victims(c)
    <3>1. a(d) = DropAt(q(d), StealAt(c, d)) /\ StealAt(c, d) \in 1 .. Len(q(d))
      BY Zenon, <1>2, <1>3, <2>2
    <3>2. /\ a(d) \in Seq(Tasks)
          /\ \A i \in DOMAIN a(d) : \E j \in DOMAIN q(d) : a(d)[i] = q(d)[j]
          /\ \A j \in DOMAIN q(d) \ {StealAt(c, d)} : \E i \in DOMAIN a(d) : a(d)[i] = q(d)[j]
      <4> DEFINE p == StealAt(c, d)
      <4> HIDE DEF p
      <4>1. /\ DropAt(q(d), p) \in Seq(Tasks)
            /\ \A i \in DOMAIN DropAt(q(d), p) :
                 \E j \in DOMAIN q(d) : DropAt(q(d), p)[i] = q(d)[j]
            /\ \A j \in DOMAIN q(d) \ {p} :
                 \E i \in DOMAIN DropAt(q(d), p) : DropAt(q(d), p)[i] = q(d)[j]
        BY <2>0, <3>1, DropAtRight, Zenon DEF p
      <4>2. a(d) = DropAt(q(d), p)
        BY Zenon, <3>1 DEF p
      <4>3. QED
        BY <4>1, <4>2, Zenon DEF p
    <3>3. NextTask(c) = q(d)[StealAt(c, d)]
      BY Zenon, <1>5, <2>2
    <3>4. QED
      BY Zenon, <3>2, <3>3
  <2>3. CASE d # c /\ d \notin Victims(c)
    <3>1. a(d) = q(d)
      BY Zenon, <1>2, <2>3
    <3>2. QED
      BY Zenon, <2>0, <3>1
  <2>4. QED
    BY Zenon, <2>1, <2>2, <2>3
<1>8. ASSUME NEW d \in Cpus, NEW i \in DOMAIN a(d) PROVE MayBeAt(a(d)[i], d)
  BY <1>1, <1>7, ZenonT(40)
<1>9. QueuesAfter(c) \in [Cpus -> Seq(Tasks)]
  BY Zenon, <1>6, <1>7 DEF QueuesAfter
<1>10. QED
  BY <1>7, <1>8, <1>9, Zenon DEF q
=============================================================================
