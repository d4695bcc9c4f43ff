----------------------------- MODULE PipeProofs -----------------------------
(***************************************************************************)
(* For every capacity, every number of threads and tables and every        *)
(* transfer length: no wakeup is lost, the counts of ends and references   *)
(* are exact, and a pipe in use is not freed.  Before that, lemmas about   *)
(* the ring's index arithmetic and about counting ends.                    *)
(***************************************************************************)
EXTENDS PipeInv, TLAPS, FiniteSetTheorems

----------------------------------------------------------------------------
(* Arithmetic of the ring.                                                 *)

\* Remainders of positions that passed the end of the ring at most once.
LEMMA Wrap ==
    \A a \in Nat : a < 2 * Capacity =>
        a % Capacity = IF a < Capacity THEN a ELSE a - Capacity
  BY CapacityAssumption

\* Two sequences are equal when their elements are.
LEMMA SameSeq ==
    ASSUME NEW S, NEW s \in Seq(S), NEW q \in Seq(S), Len(s) = Len(q),
           \A i \in 1 .. Len(s) : s[i] = q[i]
    PROVE  s = q
  OBVIOUS

\* The pieces jihoo_pipe_read copies are bytes of the ring.
LEMMA CopyOutType ==
    ASSUME TypeOK, NEW count \in Nat, count <= length
    PROVE  /\ CopyOut(count) \in Seq(Bytes)
           /\ Len(CopyOut(count)) = count
           /\ \A i \in 1 .. count : CopyOut(count)[i] = At(i - 1)
  <1> DEFINE first == Least(count, Capacity - head)
             p == [i \in 1 .. first |-> buf[head + i - 1]]
             q == [i \in 1 .. (count - first) |-> buf[i - 1]]
  <1>1. /\ first \in Nat /\ first <= count /\ first <= Capacity - head
        /\ head + first < Capacity => first = count
        /\ count <= Capacity /\ head \in Nat /\ head < Capacity
    BY CapacityAssumption DEF TypeOK, Least
  <1> HIDE DEF first
  <1>2. p \in Seq(Bytes) /\ Len(p) = first
    BY <1>1, CapacityAssumption DEF TypeOK
  <1>3. q \in Seq(Bytes) /\ Len(q) = count - first
    BY <1>1, CapacityAssumption DEF TypeOK
  <1>4. CopyOut(count) = p \o q
    BY Zenon DEF CopyOut, first
  <1>5. ASSUME NEW i \in 1 .. count
        PROVE  (p \o q)[i] = At(i - 1)
    <2>1. CASE i <= first
      <3>1. (head + (i - 1)) % Capacity = head + i - 1
        BY <1>1, <2>1, Wrap, CapacityAssumption
      <3>2. (p \o q)[i] = p[i]
        BY <1>1, <1>2, <1>3, <2>1
      <3>3. QED  BY <1>1, <2>1, <3>1, <3>2 DEF At
    <2>2. CASE i > first
      <3>1. (head + (i - 1)) % Capacity = i - first - 1
        BY <1>1, <2>2, Wrap, CapacityAssumption
      <3>2. (p \o q)[i] = q[i - first]
        BY <1>1, <1>2, <1>3, <2>2
      <3>3. QED  BY <1>1, <2>2, <3>1, <3>2 DEF At
    <2>3. QED  BY <1>1, <2>1, <2>2
  <1> HIDE DEF p, q
  <1>6. QED  BY <1>1, <1>2, <1>3, <1>4, <1>5

\* What jihoo_pipe_write copies in keeps the ring a ring of bytes, leaves
\* the queued bytes alone and puts the new ones behind them.
LEMMA CopyInRing ==
    ASSUME TypeOK, NEW d \in Seq(Bytes), NEW count \in Nat,
           count <= Len(d), count <= Capacity - length
    PROVE  /\ CopyIn(d, count) \in [0 .. (Capacity - 1) -> Bytes]
           /\ \A i \in 0 .. (length - 1) :
                  CopyIn(d, count)[(head + i) % Capacity] = At(i)
           /\ \A i \in 1 .. count :
                  CopyIn(d, count)[(head + length + i - 1) % Capacity] = d[i]
  <1> DEFINE tail == (head + length) % Capacity
             first == Least(count, Capacity - tail)
             ring == CopyIn(d, count)
  <1>1. /\ head \in Nat /\ head < Capacity /\ length \in Nat
        /\ length <= Capacity /\ Capacity \in Nat \ {0}
        /\ buf \in [0 .. (Capacity - 1) -> Bytes]
    BY CapacityAssumption DEF TypeOK
  <1>2. tail = IF head + length < Capacity THEN head + length
               ELSE head + length - Capacity
    <2> DEFINE a == head + length
    <2>1. a \in Nat /\ a < 2 * Capacity
      BY <1>1
    <2> HIDE DEF a
    <2>2. a % Capacity = IF a < Capacity THEN a ELSE a - Capacity
      BY Zenon, <2>1, Wrap
    <2>3. QED  BY <1>1, <2>2 DEF a
  <1>3. tail \in 0 .. (Capacity - 1)
    BY <1>1, <1>2
  <1> HIDE DEF tail
  <1>4. /\ first \in Nat /\ first <= count /\ first <= Capacity - tail
        /\ tail + first < Capacity => first = count
    BY <1>1, <1>3 DEF Least
  <1>5. ring = [j \in 0 .. (Capacity - 1) |->
                   IF tail <= j /\ j < tail + first THEN d[j - tail + 1]
                   ELSE IF j < count - first THEN d[first + j + 1]
                   ELSE buf[j]]
    BY Zenon DEF CopyIn, tail
  <1> HIDE DEF first, ring
  <1>6. ring \in [0 .. (Capacity - 1) -> Bytes]
    <2> SUFFICES ASSUME NEW j \in 0 .. (Capacity - 1)
                 PROVE  ring[j] \in Bytes
      BY Zenon, <1>5
    <2>1. CASE tail <= j /\ j < tail + first
      BY <1>1, <1>3, <1>4, <1>5, <2>1
    <2>2. CASE ~(tail <= j /\ j < tail + first) /\ j < count - first
      BY <1>1, <1>3, <1>4, <1>5, <2>2
    <2>3. CASE ~(tail <= j /\ j < tail + first) /\ ~(j < count - first)
      BY Zenon, <1>1, <1>5, <2>3
    <2>4. QED  BY Zenon, <2>1, <2>2, <2>3
  <1>7. ASSUME NEW i \in 0 .. (length - 1)
        PROVE  ring[(head + i) % Capacity] = At(i)
    <2> DEFINE j == (head + i) % Capacity
    <2>1. j = IF head + i < Capacity THEN head + i ELSE head + i - Capacity
      <3> DEFINE a == head + i
      <3>1. a \in Nat /\ a < 2 * Capacity
        BY <1>1
      <3> HIDE DEF a
      <3>2. a % Capacity = IF a < Capacity THEN a ELSE a - Capacity
        BY Zenon, <3>1, Wrap
      <3>3. QED  BY <1>1, <3>2 DEF a
    <2> HIDE DEF j
    <2>2. /\ j \in 0 .. (Capacity - 1)
          /\ ~(tail <= j /\ j < tail + first) /\ ~(j < count - first)
      BY <1>1, <1>2, <1>3, <1>4, <2>1
    <2>3. QED  BY Zenon, <1>5, <2>2 DEF At, j
  <1>8. ASSUME NEW i \in 1 .. count
        PROVE  ring[(head + length + i - 1) % Capacity] = d[i]
    <2> DEFINE a == head + length + i - 1
    <2>0. a % Capacity = IF a < Capacity THEN a ELSE a - Capacity
      <3>1. a \in Nat /\ a < 2 * Capacity
        BY <1>1
      <3> HIDE DEF a
      <3>2. QED  BY Zenon, <3>1, Wrap
    <2>1. CASE i <= first
      <3>1. a % Capacity = tail + i - 1
        BY <1>1, <1>2, <1>4, <2>0, <2>1
      <3>2. QED  BY <1>1, <1>3, <1>4, <1>5, <2>1, <3>1
    <2>2. CASE i > first
      <3>1. a % Capacity = i - first - 1
        BY <1>1, <1>2, <1>4, <2>0, <2>2
      <3>2. QED  BY <1>1, <1>3, <1>4, <1>5, <2>2, <3>1
    <2>3. QED  BY <1>4, <2>1, <2>2
  <1>9. QED  BY Zenon, <1>6, <1>7, <1>8 DEF ring

----------------------------------------------------------------------------
(* Counting ends.                                                          *)

\* Cardinalities of a set that gains or loses one element.
LEMMA OneMore ==
    ASSUME NEW S, IsFiniteSet(S), NEW x, x \notin S
    PROVE  Cardinality(S \cup {x}) = Cardinality(S) + 1
  BY Zenon, FS_AddElement

\* Two different elements make a set of two.
LEMMA TwoOf ==
    ASSUME NEW a, NEW b, a # b
    PROVE  Cardinality({a} \cup {b}) = 2
  <1>1. IsFiniteSet({a}) /\ Cardinality({a}) = 1
    BY ZenonT(60), FS_Singleton
  <1>2. b \notin {a}
    OBVIOUS
  <1>3. Cardinality({a} \cup {b}) = Cardinality({a}) + 1
    BY ZenonT(60), <1>1, <1>2, OneMore
  <1>4. QED  BY <1>1, <1>3

\* Taking an element out of a finite set takes one off its size.
LEMMA OneLess ==
    ASSUME NEW S, IsFiniteSet(S), NEW x \in S
    PROVE  /\ Cardinality(S \ {x}) = Cardinality(S) - 1
           /\ Cardinality(S) > 0
  <1>1. Cardinality(S \ {x}) = Cardinality(S) - 1
    BY Zenon, FS_RemoveElement
  <1>2. Cardinality(S \ {x}) \in Nat /\ Cardinality(S) \in Nat
    BY Zenon, FS_RemoveElement, FS_CardinalityType
  <1>3. QED  BY <1>1, <1>2

\* The sets EndsCounted counts are finite.
LEMMA FiniteEnds ==
    /\ \A kind : /\ IsFiniteSet(EndSlots(kind)) /\ Cardinality(EndSlots(kind)) \in Nat
                 /\ IsFiniteSet(EndThreads(kind)) /\ Cardinality(EndThreads(kind)) \in Nat
    /\ IsFiniteSet(RefSlots) /\ Cardinality(RefSlots) \in Nat
    /\ IsFiniteSet(RefThreads) /\ Cardinality(RefThreads) \in Nat
  <1>1. \A kind : EndSlots(kind) \subseteq Slots /\ EndThreads(kind) \subseteq Threads
    BY Zenon DEF EndSlots, EndThreads
  <1>2. RefSlots \subseteq Slots /\ RefThreads \subseteq Threads
    BY Zenon DEF RefSlots, RefThreads
  <1>3. \A S : S \subseteq Slots \/ S \subseteq Threads
               => IsFiniteSet(S) /\ Cardinality(S) \in Nat
    BY Zenon, SlotAssumption, FS_Subset, FS_CardinalityType
  <1> HIDE DEF EndSlots, EndThreads, RefSlots, RefThreads
  <1>4. QED  BY Zenon, <1>1, <1>2, <1>3

\* An end a thread holds is counted, and so is its reference.
LEMMA HeldIsCounted ==
    ASSUME TypeOK, EndsInv, EndsCounted, NEW t \in Threads
    PROVE  /\ end[t] = "R" /\ pc[t] \notin {"lastwake", "release"} => readers > 0
           /\ end[t] = "W" /\ pc[t] \notin {"lastwake", "release"} => writers > 0
           /\ end[t] # NONE => refs > 0
  <1>0. /\ \A k \in EndKinds : /\ Cardinality(EndSlots(k)) \in Nat
                               /\ Cardinality(EndThreads(k)) \in Nat
        /\ Cardinality(RefSlots) \in Nat /\ Cardinality(RefThreads) \in Nat
    BY Zenon, FiniteEnds
  <1>1. ASSUME NEW kind \in EndKinds, end[t] = kind,
               pc[t] \notin {"lastwake", "release"}
        PROVE  Counted(kind) > 0
    <2>1. CASE pc[t] = "clone"
      <3>1. PICK s \in Slots : slot[s] = kind
        BY Zenon, <1>1, <2>1 DEF EndsInv, Taking
      <3>2. s \in EndSlots(kind)
        BY Zenon, <3>1 DEF EndSlots
      <3>3. Cardinality(EndSlots(kind)) > 0
        BY ZenonT(60), <3>2, OneLess, FiniteEnds
      <3>4. QED  BY <1>0, <3>3 DEF Counted
    <2>2. CASE pc[t] # "clone"
      <3>1. t \in EndThreads(kind)
        BY Zenon, <1>1, <2>2 DEF EndThreads
      <3>2. Cardinality(EndThreads(kind)) > 0
        BY ZenonT(60), <3>1, OneLess, FiniteEnds
      <3>3. QED  BY <1>0, <3>2 DEF Counted
    <2>3. QED  BY Zenon, <2>1, <2>2
  <1>2. ASSUME end[t] # NONE
        PROVE  refs > 0
    <2>1. CASE pc[t] \in Taking
      <3>1. PICK s \in Slots : slot[s] = end[t]
        BY Zenon, <2>1 DEF EndsInv
      <3>2. s \in RefSlots
        BY Zenon, <1>2, <3>1 DEF RefSlots
      <3>3. Cardinality(RefSlots) > 0
        BY ZenonT(60), <3>2, OneLess, FiniteEnds
      <3>4. QED  BY <1>0, <3>3 DEF EndsCounted
    <2>2. CASE pc[t] \notin Taking
      <3>1. t \in RefThreads
        BY Zenon, <1>2, <2>2 DEF RefThreads, Taking
      <3>2. Cardinality(RefThreads) > 0
        BY ZenonT(60), <3>1, OneLess, FiniteEnds
      <3>3. QED  BY <1>0, <3>2 DEF EndsCounted
    <2>3. QED  BY Zenon, <2>1, <2>2
  <1>3. QED  BY Zenon, <1>1, <1>2 DEF EndsCounted, EndKinds

----------------------------------------------------------------------------
(* TypeOK is preserved.                                                    *)

\* Every step keeps the types: indices stay in the ring, counts natural.
LEMMA TypeStep ==
    TypeOK /\ EndsInv /\ EndsCounted /\ [Next]_vars => TypeOK'
  <1> SUFFICES ASSUME TypeOK, EndsInv, EndsCounted, [Next]_vars
               PROVE  TypeOK'
    OBVIOUS
  <1> USE SlotAssumption, CapacityAssumption, MaxLenAssumption
  <1>1. ASSUME NEW t \in Threads, NEW s \in Slots, NEW n \in 0 .. MaxLen,
               ReadCall(t, s, n)
        PROVE  TypeOK'
    BY Zenon, <1>1 DEF ReadCall, LockTable, Goto, TypeOK, ringVars, EndKinds, Places,
                Results, Tables
  <1>2. ASSUME NEW t \in Threads, NEW s \in Slots, NEW d \in Data,
               WriteCall(t, s, d)
        PROVE  TypeOK'
    <2>1. d \in Seq(Bytes)
      BY DEF Data
    <2>2. QED
      BY Zenon, <1>2, <2>1 DEF WriteCall, LockTable, Goto, TypeOK, ringVars, EndKinds,
                        Places, Results, Tables
  <1>3. ASSUME NEW t \in Threads, NEW s \in Slots, NEW d \in Slots,
               Inherit(t, s, d)
        PROVE  TypeOK'
    BY Zenon, <1>3 DEF Inherit, LockTable, Goto, TypeOK, ringVars, callVars, EndKinds,
                Places, Tables
  <1>4. ASSUME NEW t \in Threads, CloneEnd(t)
        PROVE  TypeOK'
    BY <1>4 DEF CloneEnd, CountEnd, Goto, TypeOK, ringVars, callVars, Places
  <1>5. ASSUME NEW t \in Threads, ShareEnd(t)
        PROVE  TypeOK'
    <2>1. table' \in [Tables -> Threads \cup {NONE}]
      BY Zenon, <1>5 DEF ShareEnd, UnlockTable, TypeOK
    <2>2. CASE dest[t] = NONE
      <3>1. /\ refs' = refs + 1 /\ pc' = [pc EXCEPT ![t] = "call"]
            /\ UNCHANGED <<ringVars, callVars, readers, writers, fresh, slot, end, dest>>
        BY Zenon, <1>5, <2>2 DEF ShareEnd, Goto
      <3>2. QED  BY <2>1, <3>1 DEF TypeOK, ringVars, callVars, Places
    <2>3. CASE dest[t] # NONE
      <3>1. /\ refs' = refs + 1 /\ pc' = [pc EXCEPT ![t] = "idle"]
            /\ slot' = [slot EXCEPT ![dest[t]] = end[t]]
            /\ end' = [end EXCEPT ![t] = NONE]
            /\ dest' = [dest EXCEPT ![t] = NONE]
            /\ UNCHANGED <<ringVars, callVars, readers, writers, fresh>>
        BY Zenon, <1>5, <2>3 DEF ShareEnd, Goto
      <3>2. QED  BY <2>1, <2>3, <3>1 DEF TypeOK, ringVars, callVars, Places
    <2>4. QED  BY Zenon, <2>2, <2>3
  <1>6. ASSUME NEW t \in Threads, NEW s \in Slots, Close(t, s)
        PROVE  TypeOK'
    BY Zenon, <1>6 DEF Close, Goto, TypeOK, ringVars, callVars, Places, EndKinds
  <1>7. ASSUME NEW t \in Threads, CloseEnd(t)
        PROVE  TypeOK'
    <2>1. readers' \in Nat /\ writers' \in Nat
      <3>1. end[t] = "R" \/ end[t] = "W"
        BY <1>7 DEF CloseEnd, EndsInv, TypeOK, EndKinds
      <3>2. (end[t] = "R" => readers > 0) /\ (end[t] = "W" => writers > 0)
        BY Zenon, <1>7, HeldIsCounted DEF CloseEnd
      <3>3. QED
        BY <1>7, <3>1, <3>2 DEF CloseEnd, TypeOK
    <2>2. QED
      BY Zenon, <1>7, <2>1 DEF CloseEnd, Goto, TypeOK, ringVars, callVars, Places
  <1>8. ASSUME NEW t \in Threads, WakeLast(t)
        PROVE  TypeOK'
    BY Zenon, <1>8 DEF WakeLast, Wake, TypeOK, ringVars, endVars, callVars, Places
  <1>9. ASSUME NEW t \in Threads, Release(t)
        PROVE  TypeOK'
    <2>1. refs' \in Nat
      <3>1. end[t] # NONE
        BY Zenon, <1>9 DEF Release, EndsInv
      <3>2. refs > 0
        BY Zenon, <3>1, HeldIsCounted
      <3>3. QED  BY <1>9, <3>2 DEF Release, TypeOK
    <2>2. QED
      BY <1>9, <2>1 DEF Release, Goto, TypeOK, ringVars, Places, Results
  <1>10. ASSUME NEW t \in Threads, Enter(t)
         PROVE  TypeOK'
    BY ZenonT(60), <1>10 DEF Enter, Return, Goto, TypeOK, ringVars, endVars, Places, Results
  <1>11. ASSUME NEW t \in Threads, Generation(t)
         PROVE  TypeOK'
    BY Zenon, <1>11 DEF Generation, Goto, TypeOK, ringVars, endVars, callVars, Places
  <1>12. ASSUME NEW t \in Threads, ReadRing(t)
         PROVE  TypeOK'
    <2>1. CASE length > 0
      <3> DEFINE count == Least(want[t], length)
      <3>1. count \in Nat /\ count <= length
        BY DEF TypeOK, Least
      <3> HIDE DEF count
      <3>2. CopyOut(count) \in Seq(Bytes)
        BY Zenon, <3>1, CopyOutType
      <3>3. Advance(count) \in 0 .. (Capacity - 1)
        BY <3>1 DEF Advance, TypeOK
      <3>4. length - count \in 0 .. Capacity
        BY <3>1 DEF TypeOK
      <3>5. /\ out' = [out EXCEPT ![t] = CopyOut(count)]
            /\ head' = Advance(count) /\ length' = length - count
            /\ result' = [result EXCEPT ![t] = "data"] /\ Goto(t, "wake")
            /\ UNCHANGED <<buf, endVars, want, left, fresh>>
        BY <1>12, <2>1 DEF ReadRing, count
      <3>6. QED
        BY Zenon, <3>2, <3>3, <3>4, <3>5 DEF Goto, TypeOK, endVars, Places, Results
    <2>2. CASE ~(length > 0)
      BY ZenonT(60), <1>12, <2>2 DEF ReadRing, Return, Goto, TypeOK, ringVars, endVars,
                         Places, Results
    <2>3. QED  BY Zenon, <2>1, <2>2
  <1>13. ASSUME NEW t \in Threads, WriteRing(t)
         PROVE  TypeOK'
    <2>1. CASE readers > 0 /\ length < Capacity
      <3> DEFINE count == Least(Len(left[t]), Capacity - length)
      <3>1. /\ count \in Nat /\ count <= Capacity - length
            /\ left[t] \in Seq(Bytes) /\ count <= Len(left[t])
        BY DEF TypeOK, Least
      <3> HIDE DEF count
      <3>2. CopyIn(left[t], count) \in [0 .. (Capacity - 1) -> Bytes]
        BY Zenon, <3>1, CopyInRing
      <3>3. SubSeq(left[t], count + 1, Len(left[t])) \in Seq(Bytes)
        BY <3>1
      <3>4. length + count \in 0 .. Capacity
        BY <3>1, <2>1 DEF TypeOK
      <3>5. /\ buf' = CopyIn(left[t], count) /\ length' = length + count
            /\ left' = [left EXCEPT ![t] = SubSeq(@, count + 1, Len(@))]
            /\ Goto(t, "wake")
            /\ UNCHANGED <<head, result, endVars, want, out, fresh>>
        BY SMTT(30), <1>13, <2>1, CapacityAssumption DEF WriteRing, TypeOK, count
      <3>6. QED
        BY Zenon, <3>2, <3>3, <3>4, <3>5 DEF Goto, TypeOK, endVars, Places
    <2>2. CASE ~(readers > 0 /\ length < Capacity)
      BY ZenonT(60), <1>13, <2>2 DEF WriteRing, Return, Goto, TypeOK, ringVars, endVars,
                         Places, Results
    <2>3. QED  BY Zenon, <2>1, <2>2
  <1>14. ASSUME NEW t \in Threads, Announce(t)
         PROVE  TypeOK'
    BY Zenon, <1>14 DEF Announce, Wake, TypeOK, ringVars, endVars, callVars, Places
  <1>15. ASSUME NEW t \in Threads, Wait(t)
         PROVE  TypeOK'
    BY Zenon, <1>15 DEF Wait, BlockIfFresh, Goto, TypeOK, ringVars, endVars, callVars,
                 Places
  <1>16. CASE UNCHANGED vars
    BY Zenon, <1>16 DEF vars, ringVars, endVars, callVars, TypeOK
  <1>17. QED
    BY Zenon, <1>1, <1>2, <1>3, <1>4, <1>5, <1>6, <1>7, <1>8, <1>9, <1>10, <1>11,
       <1>12, <1>13, <1>14, <1>15, <1>16 DEF Next, Step

----------------------------------------------------------------------------
(* Ends, tables and the place of a thread.                                 *)

\* A step that moves threads between places of a call, after the end is
\* taken, and leaves the ends alone.
LEMMA EndsKept ==
    ASSUME EndsInv, slot' = slot, table' = table, end' = end, dest' = dest,
           \A u \in Threads : /\ pc'[u] \in Taking <=> pc[u] \in Taking
                              /\ pc'[u] = "idle" <=> pc[u] = "idle"
    PROVE  EndsInv'
  <1>1. \A u \in Threads : end[u] # NONE <=> pc'[u] # "idle"
    BY Zenon DEF EndsInv
  <1>2. \A u \in Threads : dest[u] # NONE => /\ pc'[u] \in Taking
                                             /\ slot[dest[u]] = NONE
    BY Zenon DEF EndsInv
  <1>3. \A u \in Threads : pc'[u] \in Taking =>
            \E q \in Slots : slot[q] = end[u] /\ table[TableOf[q]] = u
    BY Zenon DEF EndsInv
  <1>4. \A u, v \in Threads : dest[u] # NONE /\ dest[u] = dest[v] => u = v
    BY Zenon DEF EndsInv
  <1>5. QED  BY Zenon, <1>1, <1>2, <1>3, <1>4 DEF EndsInv

\* A call takes the end in slot s, for its own use or for slot d of another
\* table.
LEMMA EndTaken ==
    ASSUME TypeOK, EndsInv, NEW t \in Threads, NEW s \in Slots,
           pc[t] = "idle", slot[s] # NONE, LockTable(t, s), Goto(t, "clone"),
           end' = [end EXCEPT ![t] = slot[s]], UNCHANGED slot,
           \/ UNCHANGED dest
           \/ \E d \in Slots : /\ slot[d] = NONE /\ \A u \in Threads : dest[u] # d
                               /\ dest' = [dest EXCEPT ![t] = d]
    PROVE  EndsInv'
  <1> USE SlotAssumption
  <1>1. TableOf[s] \in Tables
    BY Zenon DEF Tables
  <1>2. \A u \in Threads : /\ pc'[u] = IF u = t THEN "clone" ELSE pc[u]
                           /\ end'[u] = IF u = t THEN slot[s] ELSE end[u]
    BY Zenon DEF Goto, TypeOK
  <1>3. table'[TableOf[s]] = t
    BY Zenon, <1>1 DEF LockTable, TypeOK
  <1>4. \A q \in Slots : table[TableOf[q]] # NONE => table'[TableOf[q]] = table[TableOf[q]]
    <2> TAKE q \in Slots
    <2>1. TableOf[q] \in Tables
      BY Zenon DEF Tables
    <2>2. QED  BY Zenon, <1>1, <2>1 DEF LockTable, TypeOK
  <1>5. \A u \in Threads : dest'[u] # NONE => /\ pc'[u] \in Taking
                                              /\ slot'[dest'[u]] = NONE
    BY <1>2 DEF EndsInv, Taking, TypeOK
  <1>6. \A u, v \in Threads : dest'[u] # NONE /\ dest'[u] = dest'[v] => u = v
    <2>1. CASE UNCHANGED dest
      BY Zenon, <2>1 DEF EndsInv
    <2>2. ASSUME NEW d \in Slots, \A u \in Threads : dest[u] # d,
                 dest' = [dest EXCEPT ![t] = d]
          PROVE  \A u, v \in Threads : dest'[u] # NONE /\ dest'[u] = dest'[v] => u = v
      <3>1. \A u \in Threads : dest'[u] = IF u = t THEN d ELSE dest[u]
        BY Zenon, <2>2 DEF TypeOK
      <3>2. QED  BY <2>2, <3>1 DEF EndsInv
    <2>3. QED  BY Zenon, <2>1, <2>2
  <1>7. ASSUME NEW u \in Threads, pc'[u] \in Taking
        PROVE  \E q \in Slots : slot'[q] = end'[u] /\ table'[TableOf[q]] = u
    <2>1. CASE u = t
      BY Zenon, <1>2, <1>3, <2>1
    <2>2. CASE u # t
      <3>1. PICK q \in Slots : slot[q] = end[u] /\ table[TableOf[q]] = u
        BY Zenon, <1>2, <1>7, <2>2 DEF EndsInv
      <3>2. table'[TableOf[q]] = u
        BY Zenon, <1>4, <3>1
      <3>3. QED  BY Zenon, <1>2, <2>2, <3>1, <3>2
    <2>3. QED  BY Zenon, <2>1, <2>2
  <1>8. \A u \in Threads : end'[u] # NONE <=> pc'[u] # "idle"
    BY <1>2 DEF EndsInv
  <1>9. QED  BY Zenon, <1>5, <1>6, <1>7, <1>8 DEF EndsInv

\* Every step keeps what EndsInv says of ends, tables and threads.
LEMMA EndsStep ==
    TypeOK /\ EndsInv /\ [Next]_vars => EndsInv'
  <1> SUFFICES ASSUME TypeOK, EndsInv, [Next]_vars
               PROVE  EndsInv'
    OBVIOUS
  <1> USE SlotAssumption
  <1>0. \A s \in Slots : TableOf[s] \in Tables
    BY Zenon DEF Tables
  <1>1. ASSUME NEW t \in Threads, NEW s \in Slots, NEW n \in 0 .. MaxLen,
               ReadCall(t, s, n)
        PROVE  EndsInv'
    BY ZenonT(60), <1>1, EndTaken DEF ReadCall
  <1>2. ASSUME NEW t \in Threads, NEW s \in Slots, NEW d \in Data,
               WriteCall(t, s, d)
        PROVE  EndsInv'
    BY ZenonT(60), <1>2, EndTaken DEF WriteCall
  <1>3. ASSUME NEW t \in Threads, NEW s \in Slots, NEW d \in Slots,
               Inherit(t, s, d)
        PROVE  EndsInv'
    BY ZenonT(60), <1>3, EndTaken DEF Inherit
  <1>4. ASSUME NEW t \in Threads, CloneEnd(t)
        PROVE  EndsInv'
    BY <1>4 DEF CloneEnd, Goto, TypeOK, EndsInv, Taking
  <1>5. ASSUME NEW t \in Threads, ShareEnd(t)
        PROVE  EndsInv'
    <2>1. \A u \in Threads \ {t}, s \in Slots :
              table[TableOf[s]] = u => table'[TableOf[s]] = u
      BY SMTT(60), <1>0, <1>5 DEF ShareEnd, UnlockTable, TypeOK
    <2>2. CASE dest[t] = NONE
      <3>1. pc' = [pc EXCEPT ![t] = "call"] /\ UNCHANGED <<slot, end, dest>>
        BY ZenonT(60), <1>5, <2>2 DEF ShareEnd, Goto
      <3>2. /\ pc[t] = "share" /\ "share" \in Taking
            /\ \A u \in Threads : pc'[u] = IF u = t THEN "call" ELSE pc[u]
        BY Zenon, <1>5, <3>1 DEF ShareEnd, TypeOK, Taking
      <3>3. "call" \notin Taking /\ "call" # "idle" /\ "share" # "idle"
        BY Zenon DEF Taking
      <3>4. \A u \in Threads : end[u] # NONE <=> pc'[u] # "idle"
        BY <3>2, <3>3 DEF EndsInv
      <3>5. \A u \in Threads : dest[u] # NONE => pc'[u] \in Taking /\ slot[dest[u]] = NONE
        BY Zenon, <2>2, <3>2 DEF EndsInv
      <3>6. \A u \in Threads : pc'[u] \in Taking =>
                \E s \in Slots : slot[s] = end[u] /\ table'[TableOf[s]] = u
        BY Zenon, <2>1, <3>2, <3>3 DEF EndsInv
      <3>7. QED  BY ZenonT(60), <3>1, <3>4, <3>5, <3>6 DEF EndsInv
    <2>3. CASE dest[t] # NONE
      <3>1. /\ pc' = [pc EXCEPT ![t] = "idle"]
            /\ slot' = [slot EXCEPT ![dest[t]] = end[t]]
            /\ end' = [end EXCEPT ![t] = NONE]
            /\ dest' = [dest EXCEPT ![t] = NONE]
        BY Zenon, <1>5, <2>3 DEF ShareEnd, Goto
      <3>2. QED  BY SMTT(30), <2>1, <2>3, <3>1 DEF TypeOK, EndsInv, Taking
    <2>4. QED  BY Zenon, <2>2, <2>3
  <1>6. ASSUME NEW t \in Threads, NEW s \in Slots, Close(t, s)
        PROVE  EndsInv'
    BY <1>0, <1>6 DEF Close, Goto, TypeOK, EndsInv, Taking
  <1>7. ASSUME NEW t \in Threads,
               CloseEnd(t) \/ WakeLast(t) \/ Enter(t) \/ Generation(t)
               \/ ReadRing(t) \/ WriteRing(t) \/ Announce(t) \/ Wait(t)
        PROVE  EndsInv'
    <2>1. pc[t] \notin Taking \cup {"idle"}
      BY Zenon, <1>7 DEF CloseEnd, WakeLast, Enter, Generation, ReadRing, WriteRing,
                  Announce, Wait, Taking
    <2>2. slot' = slot /\ table' = table /\ end' = end /\ dest' = dest
      BY Zenon, <1>7 DEF CloseEnd, WakeLast, Enter, Generation, ReadRing, WriteRing,
                  Announce, Wait, endVars
    <2>3. \A u \in Threads : /\ pc'[u] \in Taking <=> pc[u] \in Taking
                             /\ pc'[u] = "idle" <=> pc[u] = "idle"
      <3>1. CASE WakeLast(t) \/ Announce(t)
        <4>1. PICK p \in {"release", "close", "call"} : Wake(t, p)
          BY Zenon, <3>1 DEF WakeLast, Announce
        <4>2. QED  BY Zenon, <2>1, <4>1 DEF Wake, TypeOK, Taking
      <3>2. CASE ~(WakeLast(t) \/ Announce(t))
        <4>1. PICK p \in Places \ (Taking \cup {"idle"}) : Goto(t, p)
          BY SMTT(30), <1>7, <3>2 DEF CloseEnd, Enter, Generation, ReadRing, WriteRing,
                            Wait, BlockIfFresh, Return, Places, Taking
        <4>2. QED  BY Zenon, <2>1, <4>1 DEF Goto, TypeOK
      <3>3. QED  BY Zenon, <3>1, <3>2
    <2>4. QED  BY Zenon, <2>2, <2>3, EndsKept
  <1>8. ASSUME NEW t \in Threads, Release(t)
        PROVE  EndsInv'
    <2>1. /\ pc[t] = "release" /\ slot' = slot /\ table' = table /\ dest' = dest
          /\ \A u \in Threads : /\ pc'[u] = IF u = t THEN "idle" ELSE pc[u]
                                /\ end'[u] = IF u = t THEN NONE ELSE end[u]
      BY Zenon, <1>8 DEF Release, Goto, TypeOK
    <2>2. "release" \notin Taking /\ "idle" \notin Taking
      BY Zenon DEF Taking
    <2>3. \A u \in Threads : end'[u] # NONE <=> pc'[u] # "idle"
      BY <2>1 DEF EndsInv
    <2>4. \A u \in Threads : dest'[u] # NONE => pc'[u] \in Taking /\ slot'[dest'[u]] = NONE
      BY <2>1, <2>2 DEF EndsInv
    <2>5. \A u \in Threads : pc'[u] \in Taking =>
              \E s \in Slots : slot'[s] = end'[u] /\ table'[TableOf[s]] = u
      BY <2>1, <2>2 DEF EndsInv
    <2>6. QED  BY ZenonT(60), <2>1, <2>3, <2>4, <2>5 DEF EndsInv
  <1>9. CASE UNCHANGED vars
    BY ZenonT(60), <1>9 DEF vars, endVars, EndsInv
  <1>10. QED
    BY Zenon, <1>1, <1>2, <1>3, <1>4, <1>5, <1>6, <1>7, <1>8, <1>9 DEF Next, Step

----------------------------------------------------------------------------
(* The counts.                                                             *)

\* A step that changes none of the counted sets and none of the counts.
LEMMA CountsKept ==
    ASSUME EndsCounted, UNCHANGED <<readers, writers, refs, slot>>,
           \A kind \in EndKinds : EndThreads(kind)' = EndThreads(kind),
           RefThreads' = RefThreads
    PROVE  EndsCounted'
  <1>1. /\ \A kind \in EndKinds : EndSlots(kind)' = EndSlots(kind)
        /\ RefSlots' = RefSlots
    BY Zenon DEF EndSlots, RefSlots
  <1>2. QED  BY Zenon, <1>1 DEF EndsCounted, Counted, EndKinds

\* Every step keeps the counts of ends and references exact.
LEMMA CountStep ==
    TypeOK /\ EndsInv /\ EndsCounted /\ [Next]_vars => EndsCounted'
  <1> SUFFICES ASSUME TypeOK, EndsInv, EndsCounted, [Next]_vars
               PROVE  EndsCounted'
    OBVIOUS
  <1> USE SlotAssumption
  <1>1. ASSUME NEW t \in Threads, NEW s \in Slots, pc[t] = "idle",
               pc' = [pc EXCEPT ![t] = "clone"], end' = [end EXCEPT ![t] = slot[s]],
               UNCHANGED <<readers, writers, refs, slot>>
        PROVE  EndsCounted'
    <2>1. end[t] = NONE
      BY Zenon, <1>1 DEF EndsInv
    <2>2. \A kind \in EndKinds : EndThreads(kind)' = EndThreads(kind)
      BY Zenon, <1>1, <2>1 DEF EndThreads, TypeOK, EndKinds
    <2>3. RefThreads' = RefThreads
      BY Zenon, <1>1, <2>1 DEF RefThreads, TypeOK
    <2>4. QED  BY Zenon, <1>1, <2>2, <2>3, CountsKept
  <1>2. ASSUME NEW t \in Threads, CloneEnd(t)
        PROVE  EndsCounted'
    <2>1. end[t] \in EndKinds /\ end' = end /\ slot' = slot /\ refs' = refs
      BY SMTT(30), <1>2 DEF CloneEnd, EndsInv, TypeOK
    <2>2. EndThreads(end[t])' = EndThreads(end[t]) \cup {t} /\ t \notin EndThreads(end[t])
      BY <1>2, <2>1 DEF CloneEnd, Goto, EndThreads, TypeOK
    <2>3. \A kind \in EndKinds \ {end[t]} : EndThreads(kind)' = EndThreads(kind)
      BY Zenon, <1>2, <2>1 DEF CloneEnd, Goto, EndThreads, TypeOK
    <2>4. RefThreads' = RefThreads
      BY Zenon, <1>2, <2>1 DEF CloneEnd, Goto, RefThreads, TypeOK
    <2>5. Cardinality(EndThreads(end[t])') = Cardinality(EndThreads(end[t])) + 1
      BY Zenon, <2>2, OneMore, FiniteEnds
    <2>6. EndSlots("R")' = EndSlots("R") /\ EndSlots("W")' = EndSlots("W") /\ RefSlots' = RefSlots
      BY Zenon, <2>1 DEF EndSlots, RefSlots
    <2>7. CASE end[t] = "R"
      BY SMTT(30), <1>2, <2>1, <2>3, <2>4, <2>5, <2>6, <2>7, FiniteEnds
         DEF CloneEnd, CountEnd, EndsCounted, Counted, EndKinds
    <2>8. CASE end[t] = "W"
      BY SMTT(30), <1>2, <2>1, <2>3, <2>4, <2>5, <2>6, <2>8, FiniteEnds
         DEF CloneEnd, CountEnd, EndsCounted, Counted, EndKinds
    <2>9. QED  BY Zenon, <2>1, <2>7, <2>8 DEF EndKinds
  <1>3. ASSUME NEW t \in Threads, ShareEnd(t), dest[t] = NONE
        PROVE  EndsCounted'
    <2>1. /\ pc[t] = "share" /\ pc' = [pc EXCEPT ![t] = "call"] /\ refs' = refs + 1
          /\ UNCHANGED <<slot, end, readers, writers>> /\ end[t] # NONE
      BY Zenon, <1>3 DEF ShareEnd, Goto, EndsInv
    <2>2. \A kind \in EndKinds : /\ EndThreads(kind)' = EndThreads(kind)
                                 /\ EndSlots(kind)' = EndSlots(kind)
      BY Zenon, <2>1 DEF EndThreads, EndSlots, TypeOK
    <2>3. RefThreads' = RefThreads \cup {t} /\ t \notin RefThreads /\ RefSlots' = RefSlots
      BY SMTT(30), <2>1 DEF RefThreads, RefSlots, TypeOK
    <2>4. Cardinality(RefThreads') = Cardinality(RefThreads) + 1
      BY Zenon, <2>3, OneMore, FiniteEnds
    <2>5. QED
      BY <2>1, <2>2, <2>3, <2>4, FiniteEnds DEF EndsCounted, Counted, EndKinds
  <1>4. ASSUME NEW t \in Threads, ShareEnd(t), dest[t] # NONE
        PROVE  EndsCounted'
    <2>0. PICK k \in EndKinds, d \in Slots : end[t] = k /\ dest[t] = d
      BY SMTT(30), <1>4 DEF ShareEnd, EndsInv, TypeOK
    <2>1. /\ pc[t] = "share" /\ pc' = [pc EXCEPT ![t] = "idle"] /\ refs' = refs + 1
          /\ slot' = [slot EXCEPT ![d] = k] /\ end' = [end EXCEPT ![t] = NONE]
          /\ UNCHANGED <<readers, writers>>
      BY Zenon, <1>4, <2>0 DEF ShareEnd, Goto
    <2>2. slot[d] = NONE
      BY Zenon, <1>4, <2>0 DEF EndsInv
    <2>3. EndThreads(k)' = EndThreads(k) \ {t} /\ t \in EndThreads(k)
      BY Zenon, <2>0, <2>1 DEF EndThreads, TypeOK, EndKinds
    <2>4. EndSlots(k)' = EndSlots(k) \cup {d} /\ d \notin EndSlots(k)
      BY <2>1, <2>2 DEF EndSlots, TypeOK, EndKinds
    <2>5. \A kind \in EndKinds \ {k} : /\ EndThreads(kind)' = EndThreads(kind)
                                       /\ EndSlots(kind)' = EndSlots(kind)
      BY Zenon, <2>0, <2>1, <2>2 DEF EndThreads, EndSlots, TypeOK, EndKinds
    <2>6. RefThreads' = RefThreads
      BY Zenon, <2>1 DEF RefThreads, TypeOK
    <2>7. RefSlots' = RefSlots \cup {d} /\ d \notin RefSlots
      BY <2>1, <2>2 DEF RefSlots, TypeOK, EndKinds
    <2>8. /\ Cardinality(EndThreads(k)') = Cardinality(EndThreads(k)) - 1
          /\ Cardinality(EndSlots(k)') = Cardinality(EndSlots(k)) + 1
          /\ Cardinality(RefSlots') = Cardinality(RefSlots) + 1
      BY Zenon, <2>3, <2>4, <2>7, OneMore, OneLess, FiniteEnds
    <2>9. \A kind \in EndKinds : Counted(kind)' = Counted(kind)
      BY <2>5, <2>8, FiniteEnds DEF Counted
    <2>10. QED
      BY SMTT(30), <2>1, <2>6, <2>8, <2>9, FiniteEnds DEF EndsCounted, EndKinds
  <1>5. ASSUME NEW t \in Threads, NEW s \in Slots, Close(t, s)
        PROVE  EndsCounted'
    <2>0. PICK k \in EndKinds : slot[s] = k
      BY Zenon, <1>5 DEF Close, TypeOK
    <2>1. /\ pc[t] = "idle" /\ pc' = [pc EXCEPT ![t] = "close"]
          /\ slot' = [slot EXCEPT ![s] = NONE] /\ end' = [end EXCEPT ![t] = k]
          /\ UNCHANGED <<readers, writers, refs>>
      BY Zenon, <1>5, <2>0 DEF Close, Goto
    <2>2. end[t] = NONE
      BY Zenon, <1>5 DEF Close, EndsInv
    <2>3. EndThreads(k)' = EndThreads(k) \cup {t} /\ t \notin EndThreads(k)
      BY <2>1, <2>2 DEF EndThreads, TypeOK, EndKinds
    <2>4. EndSlots(k)' = EndSlots(k) \ {s} /\ s \in EndSlots(k)
      BY Zenon, <2>0, <2>1 DEF EndSlots, TypeOK, EndKinds
    <2>5. \A kind \in EndKinds \ {k} : /\ EndThreads(kind)' = EndThreads(kind)
                                       /\ EndSlots(kind)' = EndSlots(kind)
      BY Zenon, <2>0, <2>1, <2>2 DEF EndThreads, EndSlots, TypeOK, EndKinds
    <2>6. RefThreads' = RefThreads \cup {t} /\ t \notin RefThreads
      BY <2>1, <2>2 DEF RefThreads, TypeOK, EndKinds
    <2>7. RefSlots' = RefSlots \ {s} /\ s \in RefSlots
      BY Zenon, <2>0, <2>1 DEF RefSlots, TypeOK, EndKinds
    <2>8. /\ Cardinality(EndThreads(k)') = Cardinality(EndThreads(k)) + 1
          /\ Cardinality(EndSlots(k)') = Cardinality(EndSlots(k)) - 1
          /\ Cardinality(RefSlots') = Cardinality(RefSlots) - 1
          /\ Cardinality(RefThreads') = Cardinality(RefThreads) + 1
      BY Zenon, <2>3, <2>4, <2>6, <2>7, OneMore, OneLess, FiniteEnds
    <2>9. \A kind \in EndKinds : Counted(kind)' = Counted(kind)
      BY <2>5, <2>8, FiniteEnds DEF Counted
    <2>10. QED
      BY <2>1, <2>8, <2>9, FiniteEnds DEF EndsCounted, EndKinds
  <1>6. ASSUME NEW t \in Threads, CloseEnd(t)
        PROVE  EndsCounted'
    <2>1. /\ end[t] \in EndKinds /\ end' = end /\ slot' = slot /\ refs' = refs
          /\ pc[t] = "close"
          /\ \/ pc' = [pc EXCEPT ![t] = "lastwake"]
             \/ pc' = [pc EXCEPT ![t] = "release"]
      <3>1. /\ pc[t] = "close" /\ end' = end /\ slot' = slot /\ refs' = refs
            /\ \/ pc' = [pc EXCEPT ![t] = "lastwake"]
               \/ pc' = [pc EXCEPT ![t] = "release"]
        BY ZenonT(60), <1>6 DEF CloseEnd, Goto
      <3>2. end[t] \in EndKinds
        BY SMTT(30), <3>1 DEF EndsInv, TypeOK
      <3>3. QED  BY Zenon, <3>1, <3>2
    <2>2. EndThreads(end[t])' = EndThreads(end[t]) \ {t} /\ t \in EndThreads(end[t])
      BY Zenon, <2>1 DEF EndThreads, TypeOK
    <2>3. \A kind \in EndKinds \ {end[t]} : EndThreads(kind)' = EndThreads(kind)
      BY Zenon, <2>1 DEF EndThreads, TypeOK
    <2>4. RefThreads' = RefThreads
      BY Zenon, <2>1 DEF RefThreads, TypeOK
    <2>5. Cardinality(EndThreads(end[t])') = Cardinality(EndThreads(end[t])) - 1
      BY Zenon, <2>2, OneLess, FiniteEnds
    <2>6. EndSlots("R")' = EndSlots("R") /\ EndSlots("W")' = EndSlots("W") /\ RefSlots' = RefSlots
      BY Zenon, <2>1 DEF EndSlots, RefSlots
    <2>7. CASE end[t] = "R"
      BY SMTT(30), <1>6, <2>1, <2>3, <2>4, <2>5, <2>6, <2>7, FiniteEnds
         DEF CloseEnd, EndsCounted, Counted, EndKinds
    <2>8. CASE end[t] = "W"
      BY SMTT(30), <1>6, <2>1, <2>3, <2>4, <2>5, <2>6, <2>8, FiniteEnds
         DEF CloseEnd, EndsCounted, Counted, EndKinds
    <2>9. QED  BY Zenon, <2>1, <2>7, <2>8 DEF EndKinds
  <1>7. ASSUME NEW t \in Threads, Release(t)
        PROVE  EndsCounted'
    <2>1. /\ pc[t] = "release" /\ pc' = [pc EXCEPT ![t] = "idle"] /\ refs' = refs - 1
          /\ end[t] # NONE /\ end' = [end EXCEPT ![t] = NONE]
          /\ UNCHANGED <<readers, writers, slot>>
      BY Zenon, <1>7 DEF Release, Goto, EndsInv
    <2>2. \A kind \in EndKinds : /\ EndThreads(kind)' = EndThreads(kind)
                                 /\ EndSlots(kind)' = EndSlots(kind)
      BY Zenon, <2>1 DEF EndThreads, EndSlots, TypeOK, EndKinds
    <2>3. RefThreads' = RefThreads \ {t} /\ t \in RefThreads /\ RefSlots' = RefSlots
      BY Zenon, <2>1 DEF RefThreads, RefSlots, TypeOK
    <2>4. Cardinality(RefThreads') = Cardinality(RefThreads) - 1
      BY Zenon, <2>3, OneLess, FiniteEnds
    <2>5. QED
      BY <2>1, <2>2, <2>3, <2>4, FiniteEnds DEF EndsCounted, Counted, EndKinds
  <1>8. ASSUME NEW t \in Threads,
               WakeLast(t) \/ Enter(t) \/ Generation(t) \/ ReadRing(t)
               \/ WriteRing(t) \/ Announce(t) \/ Wait(t)
        PROVE  EndsCounted'
    <2>1. UNCHANGED <<readers, writers, refs, slot, end>>
      BY Zenon, <1>8 DEF WakeLast, Enter, Generation, ReadRing, WriteRing, Announce,
                  Wait, endVars
    <2>2. \A u \in Threads :
              /\ pc'[u] \in {"clone", "lastwake", "release"}
                 <=> pc[u] \in {"clone", "lastwake", "release"}
              /\ pc'[u] \in {"clone", "share"} <=> pc[u] \in {"clone", "share"}
      <3>1. CASE WakeLast(t)
        BY Zenon, <3>1 DEF WakeLast, Wake, TypeOK
      <3>2. CASE Announce(t)
        BY Zenon, <3>2 DEF Announce, Wake, TypeOK
      <3>3. CASE Enter(t) \/ Generation(t) \/ Wait(t)
        BY ZenonT(40), <3>3 DEF Enter, Return, Generation, Wait, BlockIfFresh, Goto, TypeOK
      <3>4. CASE ReadRing(t) \/ WriteRing(t)
        BY ZenonT(40), <3>4 DEF ReadRing, WriteRing, Return, Goto, TypeOK
      <3>5. QED  BY ZenonT(30), <1>8, <3>1, <3>2, <3>3, <3>4
    <2>3. \A kind \in EndKinds : EndThreads(kind)' = EndThreads(kind)
      BY Zenon, <2>1, <2>2 DEF EndThreads
    <2>4. RefThreads' = RefThreads
      BY Zenon, <2>1, <2>2 DEF RefThreads
    <2>5. QED  BY Zenon, <2>1, <2>3, <2>4, CountsKept
  <1>9. CASE UNCHANGED vars
    BY Zenon, <1>9 DEF vars, endVars, EndsCounted, Counted, EndSlots, EndThreads,
                RefSlots, RefThreads
  <1>10. ASSUME NEW t \in Threads, NEW s \in Slots, NEW n \in 0 .. MaxLen,
                ReadCall(t, s, n)
         PROVE  EndsCounted'
    BY Zenon, <1>1, <1>10, ZenonT(60) DEF ReadCall, Goto
  <1>11. ASSUME NEW t \in Threads, NEW s \in Slots, NEW d \in Data,
                WriteCall(t, s, d)
         PROVE  EndsCounted'
    BY Zenon, <1>1, <1>11, ZenonT(60) DEF WriteCall, Goto
  <1>12. ASSUME NEW t \in Threads, NEW s \in Slots, NEW d \in Slots,
                Inherit(t, s, d)
         PROVE  EndsCounted'
    BY Zenon, <1>1, <1>12, ZenonT(60) DEF Inherit, Goto
  <1>13. QED
    BY Zenon, <1>2, <1>3, <1>4, <1>5, <1>6, <1>7, <1>8, <1>9, <1>10, <1>11, <1>12
       DEF Next, Step

----------------------------------------------------------------------------
(* Waiting.                                                                *)

\* No step leaves a thread asleep on a pipe that could serve it.
LEMMA WakeupStep ==
    TypeOK /\ TypeOK' /\ NoLostWakeup /\ [Next]_vars => NoLostWakeup'
  <1> SUFFICES ASSUME TypeOK, TypeOK', NoLostWakeup, [Next]_vars
               PROVE  NoLostWakeup'
    OBVIOUS
  <1> DEFINE Waking == \E u \in Threads : pc[u] \in {"wake", "lastwake"}
  \* It is enough that t's step leaves the others waiting for the same reason.
  <1>0. ASSUME NEW t \in Threads, pc[t] \notin {"wake", "lastwake"},
               \A u \in Threads \ {t} : /\ pc'[u] = pc[u] /\ fresh'[u] = fresh[u]
                                        /\ end'[u] = end[u],
               length' = length,
               readers' > 0 \/ readers' = readers,
               writers' > 0 \/ writers' = writers,
               Waits(t)' => MayWait(t)' \/ (Waits(t) /\ end'[t] = end[t])
        PROVE  NoLostWakeup'
    <2> SUFFICES ASSUME NEW u \in Threads, Waits(u)'
                 PROVE  MayWait(u)' \/ Waking'
      BY Zenon DEF NoLostWakeup
    <2>1. Waking => Waking'
      BY Zenon, <1>0
    <2>2. CASE u = t /\ MayWait(t)'
      BY Zenon, <2>2
    <2>3. CASE Waits(u) /\ end'[u] = end[u]
      <3>1. MayWait(u) \/ Waking
        BY Zenon, <2>3 DEF NoLostWakeup
      <3>2. MayWait(u) => MayWait(u)'
        BY SMTT(30), <1>0, <2>3 DEF MayWait, TypeOK
      <3>3. QED  BY Zenon, <2>1, <3>1, <3>2
    <2>4. u # t => Waits(u) /\ end'[u] = end[u]
      BY Zenon, <1>0 DEF Waits
    <2>5. QED  BY Zenon, <1>0, <2>2, <2>3, <2>4
  \* A step that puts a thread where it is about to wake the others.
  <1>1. ASSUME NEW t \in Threads, pc'[t] \in {"wake", "lastwake"}
        PROVE  NoLostWakeup'
    BY Zenon, <1>1 DEF NoLostWakeup
  \* A wakeup ends every wait.
  <1>2. ASSUME NEW t \in Threads, WakeLast(t) \/ Announce(t)
        PROVE  NoLostWakeup'
    <2>1. \A u \in Threads : pc'[u] # "blocked" /\ ~fresh'[u]
      BY ZenonT(60), <1>2 DEF WakeLast, Announce, Wake, TypeOK
    <2>2. QED  BY Zenon, <2>1 DEF NoLostWakeup, Waits
  <1> USE DEF TypeOK
  <1>3. ASSUME NEW t \in Threads, NEW s \in Slots, NEW n \in 0 .. MaxLen,
               ReadCall(t, s, n)
        PROVE  NoLostWakeup'
    BY ZenonT(60), <1>0, <1>3 DEF ReadCall, Goto, ringVars, Waits
  <1>4. ASSUME NEW t \in Threads, NEW s \in Slots, NEW d \in Data,
               WriteCall(t, s, d)
        PROVE  NoLostWakeup'
    BY ZenonT(60), <1>0, <1>4 DEF WriteCall, Goto, ringVars, Waits
  <1>5. ASSUME NEW t \in Threads, NEW s \in Slots, NEW d \in Slots,
               Inherit(t, s, d)
        PROVE  NoLostWakeup'
    BY ZenonT(60), <1>0, <1>5 DEF Inherit, Goto, ringVars, Waits
  <1>6. ASSUME NEW t \in Threads, CloneEnd(t)
        PROVE  NoLostWakeup'
    <2>1. (readers' > 0 \/ readers' = readers) /\ (writers' > 0 \/ writers' = writers)
      BY SMTT(30), <1>6 DEF CloneEnd, CountEnd
    <2>2. QED  BY ZenonT(60), <1>0, <1>6, <2>1 DEF CloneEnd, Goto, ringVars, Waits
  <1>7. ASSUME NEW t \in Threads, ShareEnd(t)
        PROVE  NoLostWakeup'
    BY ZenonT(60), <1>0, <1>7 DEF ShareEnd, Goto, ringVars, Waits
  <1>8. ASSUME NEW t \in Threads, NEW s \in Slots, Close(t, s)
        PROVE  NoLostWakeup'
    BY ZenonT(60), <1>0, <1>8 DEF Close, Goto, ringVars, Waits
  <1>9. ASSUME NEW t \in Threads, CloseEnd(t)
        PROVE  NoLostWakeup'
    <2>1. CASE pc'[t] = "lastwake"
      BY Zenon, <1>1, <2>1
    <2>2. CASE pc'[t] # "lastwake"
      <3>1. /\ pc[t] = "close" /\ pc' = [pc EXCEPT ![t] = "release"]
            /\ length' = length /\ fresh' = fresh /\ end' = end
        BY ZenonT(60), <1>9, <2>2 DEF CloseEnd, Goto, ringVars
      <3>2. (readers' > 0 \/ readers' = readers) /\ (writers' > 0 \/ writers' = writers)
        BY SMTT(30), <1>9, <2>2 DEF CloseEnd, LastOfSide, Goto
      <3>3. QED  BY ZenonT(60), <1>0, <3>1, <3>2 DEF Waits
    <2>3. QED  BY Zenon, <2>1, <2>2
  <1>10. ASSUME NEW t \in Threads, Release(t) \/ Generation(t)
         PROVE  NoLostWakeup'
    BY ZenonT(60), <1>0, <1>10 DEF Release, Generation, Goto, ringVars, endVars, Waits
  <1>11. ASSUME NEW t \in Threads, Enter(t)
         PROVE  NoLostWakeup'
    BY ZenonT(60), <1>0, <1>11 DEF Enter, Return, Goto, ringVars, endVars, Waits
  <1>12. ASSUME NEW t \in Threads, ReadRing(t)
         PROVE  NoLostWakeup'
    <2>1. CASE length > 0
      BY <1>1, <1>12, <2>1 DEF ReadRing, Goto
    <2>2. CASE ~(length > 0)
      BY ZenonT(60), <1>0, <1>12, <2>2 DEF ReadRing, Return, Goto, ringVars, endVars, Waits,
                               MayWait
    <2>3. QED  BY Zenon, <2>1, <2>2
  <1>13. ASSUME NEW t \in Threads, WriteRing(t)
         PROVE  NoLostWakeup'
    <2>1. CASE readers > 0 /\ length < Capacity
      BY <1>1, <1>13, <2>1, CapacityAssumption DEF WriteRing, Goto
    <2>2. CASE ~(readers > 0 /\ length < Capacity)
      BY ZenonT(60), <1>0, <1>13, <2>2 DEF WriteRing, Return, Goto, ringVars, endVars, Waits,
                               MayWait
    <2>3. QED  BY Zenon, <2>1, <2>2
  <1>14. ASSUME NEW t \in Threads, Wait(t)
         PROVE  NoLostWakeup'
    BY ZenonT(60), <1>0, <1>14 DEF Wait, BlockIfFresh, Goto, ringVars, endVars, Waits
  <1>15. CASE UNCHANGED vars
    BY Zenon, <1>15 DEF vars, ringVars, endVars, NoLostWakeup, Waits, MayWait
  <1> HIDE DEF TypeOK
  <1>16. QED
    BY ZenonT(40), <1>2, <1>3, <1>4, <1>5, <1>6, <1>7, <1>8, <1>9, <1>10, <1>11, <1>12,
       <1>13, <1>14, <1>15 DEF Next, Step

----------------------------------------------------------------------------
(* The theorems.                                                           *)

\* One read end and one write end, nobody inside a call.
LEMMA InitEnds == Init => TypeOK /\ EndsInv /\ EndsCounted /\ NoLostWakeup
  <1> SUFFICES ASSUME Init PROVE TypeOK /\ EndsInv /\ EndsCounted /\ NoLostWakeup
    OBVIOUS
  <1> USE SlotAssumption DEF Init
  <1>1. TypeOK
    BY CapacityAssumption, MaxLenAssumption, BytesAssumption
       DEF TypeOK, Places, Results, EndKinds
  <1>2. EndsInv
    BY Zenon DEF EndsInv, Taking
  <1>3. NoLostWakeup
    BY Zenon DEF NoLostWakeup, Waits
  <1>4. EndsCounted
    <2>1. /\ EndSlots("R") = {ReadSlot} /\ EndSlots("W") = {WriteSlot}
          /\ RefSlots = {ReadSlot} \cup {WriteSlot}
          /\ EndThreads("R") = {} /\ EndThreads("W") = {} /\ RefThreads = {}
      BY Zenon DEF EndSlots, RefSlots, EndThreads, RefThreads
    <2>2. Cardinality({}) = 0
      BY Zenon, FS_EmptySet
    <2>3. \A x : Cardinality({x}) = 1 /\ IsFiniteSet({x})
      BY ZenonT(60), FS_Singleton
    <2>a. ReadSlot # WriteSlot
      BY Zenon, SlotAssumption
    <2>4. Cardinality({ReadSlot} \cup {WriteSlot}) = 2
      BY ZenonT(60), <2>a, TwoOf
    <2>5. Counted("R") = 1 /\ Counted("W") = 1
      <3>1. /\ Cardinality(EndSlots("R")) = 1 /\ Cardinality(EndThreads("R")) = 0
            /\ Cardinality(EndSlots("W")) = 1 /\ Cardinality(EndThreads("W")) = 0
        BY ZenonT(60), <2>1, <2>2, <2>3
      <3>2. QED  BY <3>1 DEF Counted
    <2>6. Cardinality(RefSlots) = 2 /\ Cardinality(RefThreads) = 0
      BY ZenonT(60), <2>1, <2>2, <2>4
    <2>7. QED  BY <2>5, <2>6 DEF EndsCounted
  <1>5. QED  BY Zenon, <1>1, <1>2, <1>3, <1>4

\* The part of the invariant that does not speak of what calls have done.
LEMMA EndsInductive ==
    Spec => [](TypeOK /\ EndsInv /\ EndsCounted /\ NoLostWakeup)
  <1> DEFINE I == TypeOK /\ EndsInv /\ EndsCounted /\ NoLostWakeup
  <1>1. Init => I
    BY Zenon, InitEnds
  <1>2. I /\ [Next]_vars => I'
    BY Zenon, TypeStep, EndsStep, CountStep, WakeupStep
  <1>3. QED  BY <1>1, <1>2, PTL DEF Spec

\* Ring indices stay inside the ring, counts stay natural numbers, and every
\* variable keeps its type (jihoo_pipe_read, jihoo_pipe_write).
THEOREM TypeCorrect == Spec => []TypeOK
  BY EndsInductive, PTL

\* Nobody waits on a pipe that could serve it without a wakeup being on its
\* way (Pipe.read, Pipe.write, Pipe.close_end).
THEOREM NoWakeupLost == Spec => []NoLostWakeup
  BY EndsInductive, PTL

\* readers, writers and the reference count are exact under every
\* interleaving of clones and drops (Clone and Drop of Reader and Writer).
THEOREM CountsExact == Spec => []EndsCounted
  BY EndsInductive, PTL

\* A thread that holds an end works on a pipe that has not been freed
\* (FileTable.read, FileTable.write, Drop for Shared).
THEOREM NotFreedInUse == Spec => []InUseNotFreed
  <1>1. TypeOK /\ EndsInv /\ EndsCounted => InUseNotFreed
    BY Zenon, HeldIsCounted DEF InUseNotFreed
  <1>2. QED  BY <1>1, EndsInductive, PTL

----------------------------------------------------------------------------
(* What a call has done at each place of it.                               *)

\* The other threads of a step: their call is as it was, except that a
\* wakeup may have ended their wait.
LEMMA CallOthers ==
    ASSUME NEW u \in Threads, CallOK(u),
           pc'[u] = pc[u] \/ (pc[u] = "blocked" /\ pc'[u] = "gen"),
           result'[u] = result[u], out'[u] = out[u], want'[u] = want[u],
           left'[u] = left[u], end'[u] = end[u], dest'[u] = dest[u]
    PROVE  CallOK(u)'
  BY DEF CallOK, Taking, Looping, Dropping

\* Every step keeps what CallInv says of a call in progress.
LEMMA CallStep ==
    TypeOK /\ EndsInv /\ CallInv /\ [Next]_vars => CallInv'
  <1> SUFFICES ASSUME TypeOK, EndsInv, CallInv, [Next]_vars
               PROVE  CallInv'
    OBVIOUS
  <1> DEFINE Others(t) == \A u \in Threads \ {t} :
                 /\ pc'[u] = pc[u] \/ (pc[u] = "blocked" /\ pc'[u] = "gen")
                 /\ result'[u] = result[u] /\ out'[u] = out[u]
                 /\ want'[u] = want[u] /\ left'[u] = left[u]
                 /\ end'[u] = end[u] /\ dest'[u] = dest[u]
  <1>0. ASSUME NEW t \in Threads, Others(t), CallOK(t)'
        PROVE  CallInv'
    <2> SUFFICES ASSUME NEW u \in Threads, u # t
                 PROVE  CallOK(u)'
      BY ZenonT(30), <1>0 DEF CallInv
    <2>1. CallOK(u)
      BY Zenon DEF CallInv
    <2>2. QED  BY ZenonT(30), <1>0, <2>1, CallOthers
  <1> USE SlotAssumption DEF TypeOK
  <1>1. ASSUME NEW t \in Threads, NEW s \in Slots, NEW n \in 0 .. MaxLen,
               ReadCall(t, s, n)
        PROVE  CallInv'
    <2>1. Others(t)
      BY ZenonT(30), <1>1 DEF ReadCall, Goto
    <2>2. CallOK(t)'
      <3>1. dest[t] = NONE /\ out[t] = <<>> /\ left[t] = <<>>
        BY ZenonT(60), <1>1 DEF ReadCall, CallInv, CallOK, EndsInv, Taking
      <3>2. /\ pc'[t] = "clone" /\ end'[t] = "R" /\ result'[t] = "busy"
            /\ dest'[t] = NONE /\ out'[t] = <<>> /\ left'[t] = <<>>
        BY ZenonT(30), <1>1, <3>1 DEF ReadCall, Goto
      <3>3. QED  BY ZenonT(30), <3>2 DEF CallOK, Taking, Looping, Dropping
    <2>3. QED  BY ZenonT(30), <1>0, <2>1, <2>2
  <1>2. ASSUME NEW t \in Threads, NEW s \in Slots, NEW d \in Data,
               WriteCall(t, s, d)
        PROVE  CallInv'
    <2>1. Others(t)
      BY Zenon, <1>2 DEF WriteCall, Goto
    <2>2. CallOK(t)'
      <3>1. dest[t] = NONE /\ out[t] = <<>> /\ want[t] = 0
        BY ZenonT(60), <1>2 DEF WriteCall, CallInv, CallOK, EndsInv, Taking
      <3>2. /\ pc'[t] = "clone" /\ end'[t] = "W" /\ result'[t] = "busy"
            /\ dest'[t] = NONE /\ out'[t] = <<>> /\ want'[t] = 0
        BY ZenonT(30), <1>2, <3>1 DEF WriteCall, Goto
      <3>3. QED  BY ZenonT(30), <3>2 DEF CallOK, Taking, Looping, Dropping
    <2>3. QED  BY Zenon, <1>0, <2>1, <2>2
  <1>3. ASSUME NEW t \in Threads, NEW s \in Slots, NEW d \in Slots,
               Inherit(t, s, d)
        PROVE  CallInv'
    <2>1. Others(t)
      BY Zenon, <1>3 DEF Inherit, Goto, callVars
    <2>2. CallOK(t)'
      <3>1. /\ want[t] = 0 /\ left[t] = <<>> /\ out[t] = <<>> /\ result[t] = "ready"
        BY ZenonT(60), <1>3 DEF Inherit, CallInv, CallOK, EndsInv, Taking
      <3>2. /\ pc'[t] = "clone" /\ dest'[t] = d /\ want'[t] = 0 /\ left'[t] = <<>>
            /\ out'[t] = <<>> /\ result'[t] = "ready" /\ d # NONE
        BY ZenonT(30), <1>3, <3>1 DEF Inherit, Goto, callVars
      <3>3. QED  BY ZenonT(30), <3>2 DEF CallOK, Taking, Looping, Dropping
    <2>3. QED  BY Zenon, <1>0, <2>1, <2>2
  <1>4. ASSUME NEW t \in Threads, CloneEnd(t)
        PROVE  CallInv'
    <2>1. Others(t)
      BY ZenonT(30), <1>4 DEF CloneEnd, Goto, callVars
    <2>2. CallOK(t)'
      BY Zenon, <1>4 DEF CloneEnd, Goto, callVars, CallInv, CallOK, Taking, Looping, Dropping
    <2>3. QED  BY ZenonT(30), <1>0, <2>1, <2>2
  <1>5. ASSUME NEW t \in Threads, ShareEnd(t)
        PROVE  CallInv'
    <2>1. CASE dest[t] = NONE
      <3>1. /\ pc' = [pc EXCEPT ![t] = "call"] /\ pc[t] = "share"
            /\ UNCHANGED <<end, dest, callVars>>
        BY ZenonT(30), <1>5, <2>1 DEF ShareEnd, Goto
      <3>2. Others(t) /\ CallOK(t)'
        BY SMTT(30), <2>1, <3>1 DEF callVars, CallInv, CallOK, Taking, Looping, Dropping
      <3>3. QED  BY Zenon, <1>0, <3>2
    <2>2. CASE dest[t] # NONE
      <3>1. /\ pc' = [pc EXCEPT ![t] = "idle"] /\ pc[t] = "share"
            /\ end' = [end EXCEPT ![t] = NONE]
            /\ dest' = [dest EXCEPT ![t] = NONE]
            /\ UNCHANGED callVars
        BY ZenonT(30), <1>5, <2>2 DEF ShareEnd, Goto
      <3>2. Others(t) /\ CallOK(t)'
        BY Zenon, <2>2, <3>1 DEF callVars, CallInv, CallOK, Taking, Looping, Dropping
      <3>3. QED  BY Zenon, <1>0, <3>2
    <2>3. QED  BY ZenonT(30), <2>1, <2>2
  <1>6. ASSUME NEW t \in Threads, NEW s \in Slots, Close(t, s)
        PROVE  CallInv'
    <2>1. Others(t)
      BY ZenonT(30), <1>6 DEF Close, Goto, callVars
    <2>2. CallOK(t)'
      <3>1. /\ dest[t] = NONE /\ want[t] = 0 /\ left[t] = <<>> /\ out[t] = <<>>
            /\ result[t] = "ready"
        BY ZenonT(60), <1>6 DEF Close, CallInv, CallOK, EndsInv, Taking
      <3>2. /\ pc'[t] = "close" /\ dest'[t] = NONE /\ want'[t] = 0 /\ left'[t] = <<>>
            /\ out'[t] = <<>> /\ result'[t] = "ready"
        BY ZenonT(30), <1>6, <3>1 DEF Close, Goto, callVars
      <3>3. QED  BY ZenonT(30), <3>2 DEF CallOK, Taking, Looping, Dropping
    <2>3. QED  BY ZenonT(30), <1>0, <2>1, <2>2
  <1>7. ASSUME NEW t \in Threads, CloseEnd(t)
        PROVE  CallInv'
    <2>1. Others(t)
      BY Zenon, <1>7 DEF CloseEnd, Goto, callVars
    <2>2. CallOK(t)'
      BY Zenon, <1>7 DEF CloseEnd, Goto, callVars, CallInv, CallOK, Taking, Looping, Dropping
    <2>3. QED  BY ZenonT(30), <1>0, <2>1, <2>2
  <1>8. ASSUME NEW t \in Threads, WakeLast(t)
        PROVE  CallInv'
    <2>1. Others(t)
      BY ZenonT(30), <1>8 DEF WakeLast, Wake, callVars, endVars
    <2>2. CallOK(t)'
      BY Zenon, <1>8 DEF WakeLast, Wake, callVars, endVars, CallInv, CallOK, Taking,
                  Looping, Dropping
    <2>3. QED  BY ZenonT(30), <1>0, <2>1, <2>2
  <1>9. ASSUME NEW t \in Threads, Release(t)
        PROVE  CallInv'
    <2>1. Others(t)
      BY ZenonT(30), <1>9 DEF Release, Goto
    <2>2. CallOK(t)'
      BY Zenon, <1>9 DEF Release, Goto, CallInv, CallOK, Taking, Looping, Dropping
    <2>3. QED  BY ZenonT(30), <1>0, <2>1, <2>2
  <1>10. ASSUME NEW t \in Threads, Enter(t)
         PROVE  CallInv'
    <2>1. Others(t)
      BY ZenonT(30), <1>10 DEF Enter, Return, Goto, endVars
    <2>2. CallOK(t)'
      BY <1>10 DEF Enter, Return, Goto, endVars, CallInv, CallOK, EndsInv, Taking,
                   Looping, Dropping, EndKinds
    <2>3. QED  BY ZenonT(30), <1>0, <2>1, <2>2
  <1>11. ASSUME NEW t \in Threads, Generation(t) \/ Wait(t)
         PROVE  CallInv'
    <2>1. Others(t)
      BY Zenon, <1>11 DEF Generation, Wait, BlockIfFresh, Goto, callVars, endVars
    <2>2. CallOK(t)'
      BY ZenonT(40), <1>11 DEF Generation, Wait, BlockIfFresh, Goto, callVars, endVars,
                   CallInv, CallOK, Taking, Looping, Dropping
    <2>3. QED  BY ZenonT(30), <1>0, <2>1, <2>2
  <1>12. ASSUME NEW t \in Threads, ReadRing(t)
         PROVE  CallInv'
    <2>1. Others(t)
      BY ZenonT(30), <1>12 DEF ReadRing, Return, Goto, endVars
    <2>2. CallOK(t)'
      BY ZenonT(30), <1>12 DEF ReadRing, Return, Goto, endVars, CallInv, CallOK, Taking,
                   Looping, Dropping
    <2>3. QED  BY ZenonT(30), <1>0, <2>1, <2>2
  <1>13. ASSUME NEW t \in Threads, WriteRing(t)
         PROVE  CallInv'
    <2>1. Others(t)
      BY ZenonT(30), <1>13 DEF WriteRing, Return, Goto, endVars
    <2>2. CallOK(t)'
      BY ZenonT(30), <1>13 DEF WriteRing, Return, Goto, endVars, CallInv, CallOK, Taking,
                   Looping, Dropping
    <2>3. QED  BY ZenonT(30), <1>0, <2>1, <2>2
  <1>14. ASSUME NEW t \in Threads, Announce(t)
         PROVE  CallInv'
    <2>1. Others(t)
      BY ZenonT(30), <1>14 DEF Announce, Wake, callVars, endVars
    <2>2. CallOK(t)'
      BY Zenon, <1>14 DEF Announce, Wake, callVars, endVars, CallInv, CallOK, Taking,
                   Looping, Dropping
    <2>3. QED  BY ZenonT(30), <1>0, <2>1, <2>2
  <1>15. CASE UNCHANGED vars
    BY ZenonT(30), <1>15 DEF vars, endVars, callVars, CallInv, CallOK
  <1> HIDE DEF TypeOK, Others
  <1>16. QED
    BY ZenonT(40), <1>1, <1>2, <1>3, <1>4, <1>5, <1>6, <1>7, <1>8, <1>9, <1>10, <1>11,
       <1>12, <1>13, <1>14, <1>15 DEF Next, Step
----------------------------------------------------------------------------
(* The ring as a sequence.                                                 *)

\* The queued bytes, oldest first.
ContentsOK ==
    /\ Contents \in Seq(Bytes) /\ Len(Contents) = length
    /\ \A i \in 1 .. length : Contents[i] = At(i - 1)

\* The contents of the ring are a sequence of length bytes.
LEMMA ContentsType == TypeOK => ContentsOK
  <1> SUFFICES ASSUME TypeOK PROVE ContentsOK
    OBVIOUS
  <1>1. ASSUME NEW i \in 1 .. length
        PROVE  At(i - 1) \in Bytes
    <2>1. (head + (i - 1)) % Capacity \in 0 .. (Capacity - 1)
      BY CapacityAssumption DEF TypeOK
    <2>2. QED  BY Zenon, <2>1 DEF At, TypeOK
  <1>2. length \in Nat
    BY DEF TypeOK
  <1> HIDE DEF At
  <1>3. QED  BY <1>1, <1>2 DEF Contents, ContentsOK

\* Taking count bytes out of the ring takes them off the front.
LEMMA Taken ==
    ASSUME TypeOK, TypeOK', NEW count \in 1 .. length,
           head' = Advance(count), length' = length - count, buf' = buf
    PROVE  /\ CopyOut(count) = SubSeq(Contents, 1, count)
           /\ Contents' = SubSeq(Contents, count + 1, Len(Contents))
  <1>1. /\ head \in Nat /\ head < Capacity /\ length \in Nat
        /\ length <= Capacity /\ Capacity \in Nat \ {0}
    BY CapacityAssumption DEF TypeOK
  <1>2. /\ Contents \in Seq(Bytes) /\ Len(Contents) = length
        /\ \A i \in 1 .. length : Contents[i] = At(i - 1)
    BY Zenon, ContentsType DEF ContentsOK
  <1>3. /\ Contents' \in Seq(Bytes) /\ Len(Contents') = length - count
        /\ \A i \in 1 .. length - count : Contents'[i] = At(i - 1)'
    <2>1. ContentsOK'
      BY ContentsType, PTL
    <2>2. QED  BY Zenon, <2>1 DEF ContentsOK
  <1>4. CopyOut(count) = SubSeq(Contents, 1, count)
    <2> DEFINE q == SubSeq(Contents, 1, count)
    <2>1. q \in Seq(Bytes) /\ Len(q) = count /\ \A i \in 1 .. count : q[i] = Contents[i]
      BY <1>1, <1>2
    <2>2. /\ CopyOut(count) \in Seq(Bytes) /\ Len(CopyOut(count)) = count
          /\ \A i \in 1 .. count : CopyOut(count)[i] = At(i - 1)
      BY <1>1, CopyOutType
    <2> HIDE DEF q
    <2>3. \A i \in 1 .. count : CopyOut(count)[i] = q[i]
      BY <1>1, <1>2, <2>1, <2>2
    <2>4. CopyOut(count) = q
      BY Zenon, <2>1, <2>2, <2>3, SameSeq
    <2>5. QED  BY Zenon, <2>4 DEF q
  <1>5. ASSUME NEW i \in 1 .. length - count
        PROVE  At(i - 1)' = At(count + i - 1)
    <2> DEFINE a == head + count  b == head' + (i - 1)  c == head + (count + i - 1)
    <2>1. a \in Nat /\ a < 2 * Capacity /\ c \in Nat /\ c < 2 * Capacity
      BY <1>1
    <2>2. head' = IF a < Capacity THEN a ELSE a - Capacity
      BY Zenon, <2>1, Wrap DEF Advance
    <2>3. b \in Nat /\ b < 2 * Capacity
      BY <1>1, <2>2
    <2>4. /\ b % Capacity = IF b < Capacity THEN b ELSE b - Capacity
          /\ c % Capacity = IF c < Capacity THEN c ELSE c - Capacity
      <3> HIDE DEF b, c
      <3>1. QED  BY Zenon, <2>1, <2>3, Wrap
    <2>5. b % Capacity = c % Capacity
      BY <1>1, <2>2, <2>4
    <2>6. QED  BY Zenon, <2>5 DEF At
  <1>6. Contents' = SubSeq(Contents, count + 1, Len(Contents))
    <2> DEFINE q == SubSeq(Contents, count + 1, Len(Contents))
    <2>1. /\ q \in Seq(Bytes) /\ Len(q) = length - count
          /\ \A i \in 1 .. length - count : q[i] = Contents[count + i]
      BY <1>1, <1>2
    <2>2. \A i \in 1 .. length - count : Contents[count + i] = At(count + i - 1)
      BY <1>1, <1>2
    <2> HIDE DEF q
    <2>3. \A i \in 1 .. Len(Contents') : Contents'[i] = q[i]
      BY ZenonT(60), <1>3, <1>5, <2>1, <2>2
    <2>4. Contents' = q
      BY Zenon, <1>3, <2>1, <2>3, SameSeq
    <2>5. QED  BY Zenon, <2>4 DEF q
  <1>7. QED  BY Zenon, <1>4, <1>6

\* The elements of a concatenation.
LEMMA Concatenation ==
    ASSUME NEW S, NEW s \in Seq(S), NEW q \in Seq(S)
    PROVE  /\ s \o q \in Seq(S) /\ Len(s \o q) = Len(s) + Len(q)
           /\ \A i \in 1 .. Len(s) : (s \o q)[i] = s[i]
           /\ \A i \in 1 .. Len(q) : (s \o q)[Len(s) + i] = q[i]
  OBVIOUS

\* Copying count bytes into the ring appends them.
LEMMA Added ==
    ASSUME TypeOK, TypeOK', NEW d \in Seq(Bytes), NEW count \in 1 .. Len(d),
           count <= Capacity - length,
           buf' = CopyIn(d, count), length' = length + count, head' = head
    PROVE  Contents' = Contents \o SubSeq(d, 1, count)
  <1>1. /\ length \in Nat /\ head \in Nat
    BY DEF TypeOK
  <1>2. /\ Contents \in Seq(Bytes) /\ Len(Contents) = length
        /\ \A i \in 1 .. length : Contents[i] = At(i - 1)
    BY Zenon, ContentsType DEF ContentsOK
  <1>3. /\ Contents' \in Seq(Bytes) /\ Len(Contents') = length + count
        /\ \A i \in 1 .. length + count : Contents'[i] = At(i - 1)'
    <2>1. ContentsOK'
      BY ContentsType, PTL
    <2>2. QED  BY Zenon, <2>1 DEF ContentsOK
  <1>4. /\ \A i \in 0 .. (length - 1) : buf'[(head + i) % Capacity] = At(i)
        /\ \A i \in 1 .. count : buf'[(head + length + i - 1) % Capacity] = d[i]
    BY CopyInRing
  <1> DEFINE p == SubSeq(d, 1, count)
             q == Contents \o p
  <1>5. p \in Seq(Bytes) /\ Len(p) = count /\ \A i \in 1 .. count : p[i] = d[i]
    OBVIOUS
  <1> HIDE DEF p
  <1>6. /\ q \in Seq(Bytes) /\ Len(q) = length + count
        /\ \A i \in 1 .. length : q[i] = Contents[i]
        /\ \A i \in 1 .. count : q[length + i] = p[i]
    <2>1. /\ q \in Seq(Bytes) /\ Len(q) = Len(Contents) + Len(p)
          /\ \A i \in 1 .. Len(Contents) : q[i] = Contents[i]
          /\ \A i \in 1 .. Len(p) : q[Len(Contents) + i] = p[i]
      <3>1. Contents \in Seq(Bytes) /\ p \in Seq(Bytes)
        BY Zenon, <1>2, <1>5
      <3>2. QED  BY <3>1, Concatenation
    <2>2. Len(Contents) = length /\ Len(p) = count
      BY Zenon, <1>2, <1>5
    <2> HIDE DEF q
    <2>3. QED  BY Zenon, <2>1, <2>2
  <1> HIDE DEF q
  <1>7. ASSUME NEW i \in 1 .. length + count
        PROVE  Contents'[i] = q[i]
    <2>1. Contents'[i] = buf'[(head + (i - 1)) % Capacity]
      BY Zenon, <1>3 DEF At
    <2>2. CASE i <= length
      <3>1. i - 1 \in 0 .. (length - 1)
        BY <1>1, <2>2
      <3>2. buf'[(head + (i - 1)) % Capacity] = At(i - 1)
        BY Zenon, <1>4, <3>1
      <3>3. QED  BY <1>1, <1>2, <1>6, <2>1, <2>2, <3>2
    <2>3. CASE i > length
      <3> DEFINE j == i - length
      <3>1. j \in 1 .. count /\ length + j = i
        BY <1>1, <2>3
      <3>2. head + length + j - 1 = head + (i - 1)
        BY <1>1, <3>1
      <3>3. buf'[(head + length + j - 1) % Capacity] = d[j] /\ q[length + j] = d[j]
        BY Zenon, <1>4, <1>5, <1>6, <3>1
      <3>4. QED  BY Zenon, <2>1, <3>1, <3>2, <3>3
    <2>4. QED  BY <1>1, <2>2, <2>3
  <1>8. Contents' = q
    BY Zenon, <1>3, <1>6, <1>7, SameSeq
  <1>9. QED  BY Zenon, <1>8 DEF q, p

----------------------------------------------------------------------------
(* The refinement.                                                         *)

\* An empty ring is an empty channel.
LEMMA InitRefines == Init => Channel!ChInit /\ CallInv
  <1> SUFFICES ASSUME Init PROVE Channel!ChInit /\ CallInv
    OBVIOUS
  <1>1. Contents = <<>>
    BY DEF Init, Contents
  <1>2. Channel!ChInit
    BY Zenon, <1>1 DEF Init, Channel!ChInit
  <1>3. CallInv
    BY Zenon, SlotAssumption DEF Init, CallInv, CallOK, Taking, Looping, Dropping
  <1>4. QED  BY Zenon, <1>2, <1>3

\* A step that leaves the ring alone leaves its contents alone.
LEMMA SameContents == UNCHANGED ringVars => Contents' = Contents
  BY Zenon DEF ringVars, Contents, At

\* Every step of the ring is a step of the channel, or none.
LEMMA StepRefines ==
    TypeOK /\ TypeOK' /\ EndsInv /\ EndsCounted /\ CallInv /\ [Next]_vars
        => [Channel!ChNext]_(Channel!chVars)
  <1> SUFFICES ASSUME TypeOK, TypeOK', EndsInv, EndsCounted, CallInv, [Next]_vars
               PROVE  Channel!ChNext \/ UNCHANGED Channel!chVars
    OBVIOUS
  <1> USE SlotAssumption
  <1>1. ASSUME NEW t \in Threads, NEW s \in Slots, NEW n \in 0 .. MaxLen,
               ReadCall(t, s, n)
        PROVE  Channel!Begin(t)
    <2>1. result[t] = "ready" /\ left[t] = <<>> /\ Contents' = Contents
      BY ZenonT(30), <1>1, SameContents DEF ReadCall, CallInv, CallOK, EndsInv
    <2>2. <<>> \in Channel!Data
      <3>1. <<>> \in [1 .. 0 -> Bytes] /\ 0 \in 0 .. MaxLen
        BY MaxLenAssumption
      <3>2. QED  BY Zenon, <3>1 DEF Channel!Data
    <2>3. left' = [left EXCEPT ![t] = <<>>]
      BY ZenonT(30), <1>1, <2>1 DEF ReadCall, TypeOK
    <2>4. QED  BY Zenon, <1>1, <2>1, <2>2, <2>3, ZenonT(60) DEF ReadCall, Channel!Begin
  <1>2. ASSUME NEW t \in Threads, NEW s \in Slots, NEW d \in Data,
               WriteCall(t, s, d)
        PROVE  Channel!Begin(t)
    <2>1. result[t] = "ready" /\ want[t] = 0 /\ Contents' = Contents
      BY ZenonT(30), <1>2, SameContents DEF WriteCall, CallInv, CallOK, EndsInv
    <2>2. 0 \in 0 .. MaxLen /\ d \in Channel!Data /\ want' = [want EXCEPT ![t] = 0]
      BY ZenonT(30), <1>2, <2>1, MaxLenAssumption DEF WriteCall, Data, Channel!Data, TypeOK
    <2>3. QED  BY ZenonT(60), <1>2, <2>1, <2>2 DEF WriteCall, Channel!Begin
  <1>3. ASSUME NEW t \in Threads, NEW s \in Slots, NEW d \in Slots,
               Inherit(t, s, d)
        PROVE  UNCHANGED Channel!chVars
    BY Zenon, <1>3, SameContents DEF Inherit, callVars, Channel!chVars
  <1>4. ASSUME NEW t \in Threads, CloneEnd(t)
        PROVE  Channel!Ends
    <2>1. end[t] \in EndKinds
      BY SMTT(30), <1>4 DEF CloneEnd, EndsInv, TypeOK
    <2>2. (end[t] = "R" => readers > 0) /\ (end[t] = "W" => writers > 0)
      BY SMTT(30), <1>4, HeldIsCounted DEF CloneEnd
    <2>3. UNCHANGED <<want, left, out, result>> /\ Contents' = Contents
      BY ZenonT(30), <1>4, SameContents DEF CloneEnd, callVars
    <2>4. QED  BY SMTT(30), <1>4, <2>1, <2>2, <2>3 DEF CloneEnd, CountEnd, Channel!Ends, EndKinds
  <1>5. ASSUME NEW t \in Threads, ShareEnd(t)
        PROVE  UNCHANGED Channel!chVars
    BY Zenon, <1>5, SameContents DEF ShareEnd, callVars, Channel!chVars
  <1>6. ASSUME NEW t \in Threads, NEW s \in Slots, Close(t, s)
        PROVE  UNCHANGED Channel!chVars
    BY Zenon, <1>6, SameContents DEF Close, callVars, Channel!chVars
  <1>7. ASSUME NEW t \in Threads, CloseEnd(t)
        PROVE  Channel!Ends
    <2>1. end[t] \in EndKinds
      BY SMTT(30), <1>7 DEF CloseEnd, EndsInv, TypeOK
    <2>2. (end[t] = "R" => readers > 0) /\ (end[t] = "W" => writers > 0)
      BY Zenon, <1>7, HeldIsCounted DEF CloseEnd
    <2>3. UNCHANGED <<want, left, out, result>> /\ Contents' = Contents
      BY Zenon, <1>7, SameContents DEF CloseEnd, callVars
    <2>4. QED  BY ZenonT(40), <1>7, <2>1, <2>2, <2>3 DEF CloseEnd, Channel!Ends, EndKinds
  <1>8. ASSUME NEW t \in Threads,
               WakeLast(t) \/ Generation(t) \/ Announce(t) \/ Wait(t)
        PROVE  UNCHANGED Channel!chVars
    BY Zenon, <1>8, SameContents DEF WakeLast, Generation, Announce, Wait, endVars,
                              callVars, Channel!chVars
  <1>9. ASSUME NEW t \in Threads, Release(t)
        PROVE  Channel!Return(t)
    <2>1. result[t] # "busy" /\ Contents' = Contents
      BY ZenonT(40), <1>9, SameContents DEF Release, CallInv, CallOK, Dropping
    <2>2. QED  BY Zenon, <1>9, <2>1 DEF Release, Channel!Return
  <1>10. ASSUME NEW t \in Threads, Enter(t)
         PROVE  Channel!Finished(t) \/ UNCHANGED Channel!chVars
    <2>1. result[t] = "busy" /\ Contents' = Contents
      BY ZenonT(30), <1>10, SameContents DEF Enter, CallInv, CallOK
    <2>2. CASE (end[t] = "R" /\ want[t] > 0) \/ (end[t] = "W" /\ left[t] # <<>>)
      BY ZenonT(60), <1>10, <2>1, <2>2 DEF Enter, endVars, Channel!chVars
    <2>3. CASE ~((end[t] = "R" /\ want[t] > 0) \/ (end[t] = "W" /\ left[t] # <<>>))
      <3>1. want[t] = 0 /\ left[t] = <<>>
        BY SMTT(60), <2>3 DEF CallInv, CallOK, TypeOK
      <3>2. QED
        BY ZenonT(30), <1>10, <2>1, <2>3, <3>1 DEF Enter, Return, endVars, Channel!Finished
    <2>4. QED  BY SMTT(30), <2>2, <2>3
  <1>11. ASSUME NEW t \in Threads, ReadRing(t)
         PROVE  \/ Channel!Deliver(t) \/ Channel!EndOfStream(t)
                \/ UNCHANGED Channel!chVars
    <2>1. result[t] = "busy" /\ want[t] > 0 /\ want[t] \in Nat /\ length \in Nat
      BY SMTT(30), <1>11 DEF ReadRing, CallInv, CallOK, Looping, TypeOK
    <2>2. CASE length > 0
      <3> DEFINE count == Least(want[t], length)
      <3>1. /\ out' = [out EXCEPT ![t] = CopyOut(count)]
            /\ head' = Advance(count) /\ length' = length - count /\ buf' = buf
            /\ result' = [result EXCEPT ![t] = "data"]
            /\ UNCHANGED <<readers, writers, want, left>>
        <4>1. length # 0
          BY <2>1, <2>2
        <4>2. QED  BY Zenon, <1>11, <4>1, ZenonT(60) DEF ReadRing, endVars
      <3>2. count \in 1 .. length /\ count \in 1 .. want[t]
        BY <2>1, <2>2 DEF Least
      <3> HIDE DEF count
      <3>3. /\ CopyOut(count) = SubSeq(Contents, 1, count)
            /\ Contents' = SubSeq(Contents, count + 1, Len(Contents))
        BY Zenon, <3>1, <3>2, Taken
      <3>4. count <= Len(Contents)
        BY <3>2, ContentsType DEF ContentsOK
      <3>5. Channel!Deliver(t)
        BY ZenonT(60), <2>1, <3>1, <3>2, <3>3, <3>4 DEF Channel!Deliver
      <3>6. QED  BY Zenon, <3>5
    <2>3. CASE length = 0 /\ writers = 0
      <3>1. Contents = <<>>
        BY SMTT(30), <2>3 DEF Contents
      <3>2. Contents' = Contents
        BY SMTT(30), <1>11, <2>3, SameContents DEF ReadRing
      <3>3. Channel!EndOfStream(t)
        BY SMTT(30), <1>11, <2>1, <2>3, <3>1, <3>2
           DEF ReadRing, Return, endVars, Channel!EndOfStream
      <3>4. QED  BY Zenon, <3>3
    <2>0. writers \in Nat
      BY SMTT(30) DEF TypeOK
    <2>4. CASE length = 0 /\ writers > 0
      <3>1. ~(length > 0) /\ writers # 0
        BY <2>4
      <3>2. UNCHANGED <<ringVars, out, result, endVars, want, left>>
        BY ZenonT(60), <1>11, <3>1 DEF ReadRing
      <3>3. Contents' = Contents
        BY ZenonT(60), <3>2, SameContents DEF ringVars
      <3>4. QED
        BY ZenonT(60), <3>2, <3>3 DEF endVars, Channel!chVars
    <2>5. \/ length > 0
          \/ length = 0 /\ writers = 0
          \/ length = 0 /\ writers > 0
      BY SMTT(30), <2>0, <2>1
    <2>6. QED  BY ZenonT(60), <2>2, <2>3, <2>4, <2>5
  <1>12. ASSUME NEW t \in Threads, WriteRing(t)
         PROVE  \/ Channel!Accept(t) \/ Channel!Finished(t)
                \/ UNCHANGED Channel!chVars
    <2>0. length \in 0 .. Capacity /\ readers \in Nat
      BY SMTT(60) DEF TypeOK
    <2>1. result[t] = "busy" /\ left[t] # <<>> /\ left[t] \in Seq(Bytes)
      BY ZenonT(30), <1>12 DEF WriteRing, CallInv, CallOK, Looping, TypeOK
    <2>2. CASE readers > 0 /\ length < Capacity
      <3> DEFINE count == Least(Len(left[t]), Capacity - length)
      <3>1. /\ buf' = CopyIn(left[t], count) /\ length' = length + count /\ head' = head
            /\ left' = [left EXCEPT ![t] = SubSeq(@, count + 1, Len(@))]
            /\ UNCHANGED <<result, readers, writers, want, out>>
        <4>1. length # Capacity /\ readers # 0
          BY SMTT(30), <2>0, <2>2, CapacityAssumption
        <4>2. QED  BY Zenon, <1>12, <2>2, <4>1, ZenonT(60) DEF WriteRing, endVars
      <3>2. count \in 1 .. Len(left[t]) /\ count <= Capacity - length
        BY SMTT(60), <2>1, <2>2, CapacityAssumption DEF Least, TypeOK
      <3> HIDE DEF count
      <3>3. Contents' = Contents \o SubSeq(left[t], 1, count)
        BY Zenon, <2>1, <3>1, <3>2, Added
      <3>4. Len(Contents) + count <= Capacity
        <4>1. Len(Contents) = length
          BY Zenon, ContentsType DEF ContentsOK
        <4>2. QED  BY <2>0, <3>2, <4>1, CapacityAssumption
      <3>5. Channel!Accept(t)
        BY ZenonT(60), <2>1, <2>2, <3>1, <3>2, <3>3, <3>4 DEF Channel!Accept
      <3>6. QED  BY Zenon, <3>5
    <2>3. CASE readers = 0
      <3>1. Contents' = Contents
        BY SMTT(30), <1>12, <2>3, SameContents DEF WriteRing
      <3>2. Channel!Finished(t)
        BY SMTT(30), <1>12, <2>1, <2>3, <3>1 DEF WriteRing, Return, endVars, Channel!Finished
      <3>3. QED  BY Zenon, <3>2
    <2>4. CASE readers > 0 /\ length = Capacity
      <3>1. Contents' = Contents
        BY <1>12, <2>4, SameContents, CapacityAssumption DEF WriteRing
      <3>2. QED
        BY SMTT(30), <1>12, <2>4, <3>1, CapacityAssumption DEF WriteRing, endVars, Channel!chVars
    <2>5. \/ readers > 0 /\ length < Capacity
          \/ readers = 0
          \/ readers > 0 /\ length = Capacity
      BY <2>0, CapacityAssumption
    <2>6. QED  BY SMTT(60), <2>2, <2>3, <2>4, <2>5
  <1>13. CASE UNCHANGED vars
    BY Zenon, <1>13, SameContents DEF vars, endVars, callVars, Channel!chVars
  <1>14. QED
    BY SMTT(30), <1>1, <1>2, <1>3, <1>4, <1>5, <1>6, <1>7, <1>8, <1>9, <1>10, <1>11,
       <1>12, <1>13 DEF Next, Step, Channel!ChNext

\* The whole invariant of the pipe, inductive for every value of the
\* constants.
THEOREM InvariantHolds == Spec => []PipeInvariant
  <1>1. Init => CallInv
    BY Zenon, InitRefines
  <1>2. TypeOK /\ EndsInv /\ CallInv /\ [Next]_vars => CallInv'
    BY Zenon, CallStep
  <1>3. QED  BY <1>1, <1>2, EndsInductive, PTL DEF Spec, PipeInvariant

\* jihoo_pipe_read and jihoo_pipe_write, with wrap-around, partial transfers
\* and concurrent clones and drops, implement the bounded channel.
THEOREM RingIsChannel == Spec => ChannelSpec
  <1>1. Init => Channel!ChInit
    BY Zenon, InitRefines
  <1>2. PipeInvariant /\ PipeInvariant' /\ [Next]_vars => [Channel!ChNext]_(Channel!chVars)
    BY Zenon, StepRefines DEF PipeInvariant
  <1>3. QED
    BY <1>1, <1>2, InvariantHolds, PTL DEF Spec, ChannelSpec, Channel!ChSpec
=============================================================================
