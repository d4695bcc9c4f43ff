-------------------------------- MODULE Heap --------------------------------
(***************************************************************************)
(* The kernel heap: size classes carved from an arena and kept on free     *)
(* lists, and a list of large blocks with headers in place, split on       *)
(* allocation and merged on release.  Threads allocate, free and           *)
(* reallocate; every call takes the lock for each step of its own.         *)
(*                                                                         *)
(* The unit is a machine word: sizes and addresses are counted in words.   *)
(* `word' is what the allocator left in the word before a payload.         *)
(***************************************************************************)
EXTENDS Integers, Sequences, SequencesExt, FiniteSets, TLC

CONSTANTS
    Threads,
    Start, Size,        \* the region given to init
    ArenaQuarters,      \* how many quarters of it are the arena (3 in the code)
    BucketSizes,        \* BUCKET_SIZES, ascending
    SlabCount,          \* slab_count
    Header,             \* LARGE_BLOCK_SIZE
    MinSplit,           \* the least remainder worth a block of its own
    Sizes, Aligns,      \* what callers ask for
    MaxLive             \* bound: allocations at a time

Buckets == DOMAIN BucketSizes
ArenaSize == (Size \div 4) * ArenaQuarters
ArenaEnd == Start + ArenaSize
End == Start + Size

\* What the instances choose the constants to satisfy.
HeapAssumption ==
    /\ Start > Len(BucketSizes) /\ Size > 0 /\ ArenaQuarters \in 1 .. 3
    /\ \A b \in 1 .. Len(BucketSizes) - 1 : BucketSizes[b] < BucketSizes[b + 1]
    /\ Size - ArenaSize > Header

Null == 0
NoMove == [old |-> Null, new |-> Null, size |-> 0]

VARIABLES
    heap,   \* [lists, arena, blk, word]
    live,   \* payload address -> [size, align] the caller asked for
    move    \* [Threads -> the reallocation it is in]

vars == <<heap, live, move>>

Init ==
    /\ heap = [lists |-> [b \in Buckets |-> <<>>], arena |-> Start,
               blk |-> (ArenaEnd :> [size |-> Size - ArenaSize - Header,
                                     next |-> Null, prev |-> Null, free |-> TRUE]),
               word |-> <<>>]
    /\ live = <<>>
    /\ move = [t \in Threads |-> NoMove]

Without(f, x) == [y \in DOMAIN f \ {x} |-> f[y]]

----------------------------------------------------------------------------
(* The list of large blocks.                                               *)

Linked(blk, a, field, v) == IF a = Null THEN blk ELSE [blk EXCEPT ![a][field] = v]

\* The first free block of the list that is large enough.
FirstFit(blk, size) ==
    LET from[a \in DOMAIN blk \cup {Null}] ==
            IF a = Null \/ (blk[a].free /\ blk[a].size >= size) THEN a ELSE from[blk[a].next]
    IN  from[ArenaEnd]

Splits(block, size) == block.size >= size + Header + MinSplit

\* The rest of block a becomes a free block behind it.
Split(blk, a, size) ==
    LET n == a + Header + size
        rest == [size |-> blk[a].size - size - Header,
                 next |-> blk[a].next, prev |-> a, free |-> TRUE]
    IN  Linked([(n :> rest) @@ blk EXCEPT ![a].size = size, ![a].next = n], rest.next, "prev", n)

\* What alloc_large_raw leaves and returns: the block, or Null.
AllocLargeRaw(blk, size) ==
    LET a == FirstFit(blk, size)
    IN  IF a = Null THEN [at |-> Null, blk |-> blk]
        ELSE [at |-> a,
              blk |-> [(IF Splits(blk[a], size) THEN Split(blk, a, size) ELSE blk) EXCEPT ![a].free = FALSE]]

Mergeable(blk, a, b) == a # Null /\ b # Null /\ blk[a].free /\ blk[b].free

\* Block a takes over its successor b.
Absorb(blk, a, b) ==
    LET grown == [blk EXCEPT ![a].size = @ + blk[b].size + Header, ![a].next = blk[b].next]
    IN  Without(Linked(grown, blk[b].next, "prev", a), b)

CoalesceNext(blk, a) ==
    IF Mergeable(blk, a, blk[a].next) THEN Absorb(blk, a, blk[a].next) ELSE blk
CoalescePrev(blk, a) ==
    IF Mergeable(blk, blk[a].prev, a) THEN Absorb(blk, blk[a].prev, a) ELSE blk

FreeLargeRaw(blk, a) ==
    IF blk[a].free THEN blk
    ELSE CoalescePrev(CoalesceNext([blk EXCEPT ![a].free = TRUE], a), a)

----------------------------------------------------------------------------
(* Small blocks: one word for the bucket, then the payload.                *)

BucketFor(size) == SelectInSeq(BucketSizes, LAMBDA c : size <= c)

ArenaFits(total) == heap.arena + total <= ArenaEnd

SlabSize(total) == total * SlabCount

Given(block, b, h) == [ptr |-> block + 1, heap |-> [h EXCEPT !.word = (block + 1 :> b) @@ @]]
Refused == [ptr |-> Null, heap |-> heap]

AllocSmall(b) ==
    LET total == 1 + BucketSizes[b]
        slab == AllocLargeRaw(heap.blk, SlabSize(total))
        base == slab.at + Header
        cut == [i \in 1 .. SlabCount - 1 |-> base + (SlabCount - i) * total]
    IN  IF heap.lists[b] # <<>>
        THEN Given(Head(heap.lists[b]), b, [heap EXCEPT !.lists[b] = Tail(@)])
        ELSE IF ArenaFits(total)
        THEN Given(heap.arena, b, [heap EXCEPT !.arena = @ + total])
        ELSE IF slab.at = Null THEN Refused
        ELSE Given(base, b, [heap EXCEPT !.blk = slab.blk, !.lists[b] = cut])

FreeSmall(p) ==
    [heap EXCEPT !.lists[heap.word[p]] = <<p - 1>> \o @, !.word = Without(@, p)]

----------------------------------------------------------------------------
(* The interface of the allocator.                                         *)

Padding(at, align) == (align - (at % align)) % align

\* The block needs room for the two words before the payload and the padding.
ExtraShort(align) == align
Extra(align) == align + 2

AllocLarge(size, align) ==
    LET raw == AllocLargeRaw(heap.blk, size + Extra(align))
        candidate == raw.at + Header + 2
        ptr == candidate + Padding(candidate, align)
    IN  IF raw.at = Null THEN Refused
        ELSE [ptr |-> ptr, heap |-> [heap EXCEPT !.blk = raw.blk, !.word = (ptr :> raw.at) @@ @]]

AllocAligned(size, align) ==
    IF align <= 1 /\ BucketFor(size) # 0 THEN AllocSmall(BucketFor(size)) ELSE AllocLarge(size, align)

\* The word before the payload tells a bucket from the address of a block.
IsSmall(p) == heap.word[p] \in Buckets

DeallocAligned(p) ==
    IF IsSmall(p) THEN FreeSmall(p)
    ELSE [heap EXCEPT !.blk = FreeLargeRaw(@, heap.word[p]), !.word = Without(@, p)]

CapacityOf(p) ==
    IF IsSmall(p) THEN BucketSizes[heap.word[p]]
    ELSE heap.word[p] + Header + heap.blk[heap.word[p]].size - p

----------------------------------------------------------------------------
(* What threads call.                                                      *)

Idle(t) == move[t] = NoMove
Moving == {move[t].old : t \in Threads} \cup {move[t].new : t \in Threads}
Layouts == [size : Sizes, align : Aligns]

Alloc(t) ==
    /\ Idle(t) /\ Cardinality(DOMAIN live) < MaxLive
    /\ \E l \in Layouts :
         LET r == AllocAligned(l.size, l.align)
         IN  /\ heap' = r.heap
             /\ live' = IF r.ptr = Null THEN live ELSE (r.ptr :> l) @@ live
    /\ UNCHANGED move

Dealloc(t) ==
    /\ Idle(t)
    /\ \E p \in DOMAIN live \ Moving :
         heap' = DeallocAligned(p) /\ live' = Without(live, p)
    /\ UNCHANGED move

\* realloc, first lock: the new block, with the alignment of the old one.
Realloc(t) ==
    /\ Idle(t) /\ Cardinality(DOMAIN live) < MaxLive
    /\ \E p \in DOMAIN live \ Moving, n \in Sizes :
         LET r == AllocAligned(n, live[p].align)
         IN  /\ heap' = r.heap
             /\ live' = IF r.ptr = Null THEN live ELSE (r.ptr :> [size |-> n, align |-> live[p].align]) @@ live
             /\ move' = IF r.ptr = Null THEN move
                        ELSE [move EXCEPT ![t] = [old |-> p, new |-> r.ptr, size |-> 0]]

\* Second lock: the capacity of the old block bounds the copy.
CopySize(t) ==
    LET asked == live[move[t].new].size
        cap == CapacityOf(move[t].old)
    IN  IF asked < cap THEN asked ELSE cap
Copy(t) ==
    /\ ~Idle(t) /\ move[t].size = 0
    /\ move' = [move EXCEPT ![t].size = CopySize(t)]
    /\ UNCHANGED <<heap, live>>

\* Third lock: the old block is released.
Release(t) ==
    /\ ~Idle(t) /\ move[t].size > 0
    /\ heap' = DeallocAligned(move[t].old)
    /\ live' = Without(live, move[t].old)
    /\ move' = [move EXCEPT ![t] = NoMove]

Next == \E t \in Threads : Alloc(t) \/ Dealloc(t) \/ Realloc(t) \/ Copy(t) \/ Release(t)

Spec == Init /\ [][Next]_vars

----------------------------------------------------------------------------
(* Properties.                                                             *)

TypeOK ==
    /\ heap.arena \in Start .. ArenaEnd
    /\ \A b \in Buckets : heap.lists[b] \in Seq(Start .. End - 1)
    /\ DOMAIN heap.word = DOMAIN live
    /\ \A a \in DOMAIN heap.blk : heap.blk[a].size > 0 /\ heap.blk[a].free \in BOOLEAN
    /\ \A p \in DOMAIN live : live[p] \in Layouts
    /\ \A t \in Threads : ~Idle(t) => {move[t].old, move[t].new} \subseteq DOMAIN live

\* Everything somebody owns: what callers hold with the words in front of it,
\* free small blocks, the untouched arena, block headers, free large blocks.
Owned ==
    {<<p - (IF IsSmall(p) THEN 1 ELSE 2), p + live[p].size, "held">> : p \in DOMAIN live}
    \cup UNION {{<<a, a + 1 + BucketSizes[b], "small">> : a \in Range(heap.lists[b])} : b \in Buckets}
    \cup {<<a, a + Header, "header">> : a \in DOMAIN heap.blk}
    \cup {<<a + Header, a + Header + heap.blk[a].size, "large">> : a \in {x \in DOMAIN heap.blk : heap.blk[x].free}}
    \cup {<<heap.arena, ArenaEnd, "arena">>}

Apart(x, y) == x[2] <= y[1] \/ y[2] <= x[1]

\* No two owners share a word: an allocation never overlaps another one, a
\* header of the allocator, a free block or the untouched arena, and lies in
\* the region given to init, whatever was split, merged or cut before.
NoOverlap ==
    /\ \A x, y \in Owned : x # y => Apart(x, y)
    /\ \A x \in Owned : Start <= x[1] /\ x[2] <= End
    /\ \A b \in Buckets : Cardinality(Range(heap.lists[b])) = Len(heap.lists[b])

\* The large blocks cover their part of the region without gap, in the order
\* of the list, and both links agree.
ListCovers ==
    \A a \in DOMAIN heap.blk :
        LET b == heap.blk[a]
            behind == a + Header + b.size
        IN  /\ b.next = IF behind = End THEN Null ELSE behind
            /\ b.next # Null => b.next \in DOMAIN heap.blk /\ heap.blk[b.next].prev = a
            /\ b.prev = Null <=> a = ArenaEnd

\* Merging is complete: two neighbours are never both free.
NoFreeNeighbours ==
    \A a \in DOMAIN heap.blk :
        heap.blk[a].next # Null => ~(heap.blk[a].free /\ heap.blk[heap.blk[a].next].free)

\* An allocation has the alignment and the room that were asked for, as
\* capacity_of reports it, and its capacity stays inside its block.
AsAsked ==
    \A p \in DOMAIN live :
        /\ p % live[p].align = 0
        /\ CapacityOf(p) >= live[p].size
        /\ \A q \in DOMAIN live : p < q => p + CapacityOf(p) <= q - (IF IsSmall(q) THEN 1 ELSE 2)

\* A reallocation copies everything that fits: the shorter of what the old
\* block was asked for and the new one, and never past either block.
CopyFits ==
    \A t \in Threads : move[t].size > 0 =>
        LET m == move[t]
            least == IF live[m.old].size < live[m.new].size THEN live[m.old].size ELSE live[m.new].size
        IN  least <= m.size /\ m.size <= live[m.new].size /\ m.size <= CapacityOf(m.old)
=============================================================================
