---------------------------- MODULE AddressSpace ----------------------------
(***************************************************************************)
(* Physical frames and page tables: the boot allocator that walks the      *)
(* memory map, the pool of frames after boot with its free list kept in    *)
(* the free frames themselves, the kernel's identity map, and address      *)
(* spaces that are created, loaded, grown and dropped by processes that    *)
(* share the pool.                                                         *)
(*                                                                         *)
(* A frame holds N words; a table entry and a link of a list are words.    *)
(* Addresses count words, a page has N of them, and a page number is read  *)
(* as Levels digits of base N.                                             *)
(***************************************************************************)
EXTENDS Integers, Sequences, SequencesExt, FiniteSets, TLC

CONSTANTS
    N, Levels,                  \* entries of a table, levels of tables: 512, 4
    MemoryMap,                  \* sequence of [usable, start, pages]
    DevicePages,                \* pages of device registers mapped at boot
    Spaces,                     \* the processes
    UserFirst, UserEnd,         \* USER_PML4_FIRST, USER_PML4_END
    HeapBase, HeapLimit,        \* USER_HEAP_BASE, USER_HEAP_LIMIT, in pages
    StackTop, StackPages,       \* USER_STACK_TOP, STACK_PAGES, in pages
    CodeSizes,                  \* pages of code an image may have
    GrowSizes,                  \* words a heap is grown by
    AddressMax,                 \* u64::MAX
    ProbeStarts, ProbeLengths   \* user ranges that are checked

Index == 0 .. N - 1
Descriptors == DOMAIN MemoryMap
Frames == 0 .. MemoryMap[Len(MemoryMap)].start + MemoryMap[Len(MemoryMap)].pages - 1
TopUnit == N ^ (Levels - 1)     \* pages under one PML4 slot
UserStart == UserFirst * TopUnit
UserLimit == UserEnd * TopUnit
KernelSlots == Index \ (UserFirst .. UserEnd - 1)

\* What the instances choose the constants to satisfy.
LayoutAssumption ==
    /\ UserStart < HeapBase /\ HeapBase <= HeapLimit /\ HeapLimit < StackTop - StackPages
    /\ StackTop <= UserLimit /\ 2 * UserEnd <= N
    /\ \A i \in Descriptors : MemoryMap[i].start + MemoryMap[i].pages - 1 \in Frames

Zero == [to |-> 0, present |-> FALSE, user |-> FALSE]
Link(f) == [to |-> f, present |-> FALSE, user |-> FALSE]
Entry(f, u) == [to |-> f, present |-> TRUE, user |-> u]
Data == [to |-> 1, present |-> TRUE, user |-> TRUE]     \* anything, even what looks like an entry
ZeroFrame == [i \in Index |-> Zero]

VARIABLES
    pool,   \* [mem, head, bump, used]: the frames and FRAMES
    boot,   \* pages boot still has to map
    kernel, \* KERNEL_PML4
    space,  \* [Spaces -> the address space and the call in progress on it]
    pages   \* history: [Spaces -> page -> its frame, or 0 when it has been written to]

vars == <<pool, boot, kernel, space, pages>>

NoSpace == [at |-> "none", pml4 |-> 0, end |-> HeapBase, todo |-> <<>>, new |-> 0, chain |-> 0]

----------------------------------------------------------------------------
(* Frames.                                                                 *)

\* FrameAllocator::allocate_frame: the next usable page from the cursor on.
\* A region that starts at address 0 is given up whole.
Bump(b) ==
    LET from[d \in 1 .. Len(MemoryMap) + 1] ==
            LET page == IF d = b.desc THEN b.page ELSE 0
            IN  IF d > Len(MemoryMap) THEN [frame |-> 0, bump |-> [desc |-> d, page |-> 0]]
                ELSE IF MemoryMap[d].usable /\ page < MemoryMap[d].pages /\ MemoryMap[d].start + page > 0
                THEN [frame |-> MemoryMap[d].start + page, bump |-> [desc |-> d, page |-> page + 1]]
                ELSE from[d + 1]
    IN  from[b.desc]

Zeroed(p, f) == [p EXCEPT !.mem[f] = ZeroFrame]

\* alloc_frame: from the free list, else from the boot allocator; 0 is None.
AllocFrame(p) ==
    LET b == Bump(p.bump)
    IN  IF p.head # 0
        THEN [frame |-> p.head,
              pool |-> Zeroed([p EXCEPT !.head = p.mem[p.head][0].to, !.used = @ + 1], p.head)]
        ELSE IF b.frame = 0 THEN [frame |-> 0, pool |-> [p EXCEPT !.bump = b.bump]]
        ELSE [frame |-> b.frame, pool |-> Zeroed([p EXCEPT !.bump = b.bump, !.used = @ + 1], b.frame)]

FreeFrame(p, f) ==
    [p EXCEPT !.mem[f][0] = Link(p.head), !.head = f, !.used = @ - 1]

----------------------------------------------------------------------------
(* Tables.                                                                 *)

Digit(page, l) == (page \div (N ^ (l - 1))) % N
Downward == [k \in 1 .. Levels - 1 |-> Levels + 1 - k]      \* Levels, ..., 2

\* One level down: the table an entry points to, made of what the allocator
\* gives (a) when it is missing.
Descend(w, page, l, a) ==
    LET i == Digit(page, l)
    IN  IF w.table = 0 THEN w
        ELSE IF w.pool.mem[w.table][i].present THEN [w EXCEPT !.table = w.pool.mem[w.table][i].to]
        ELSE IF a.frame = 0 THEN [pool |-> a.pool, table |-> 0]
        ELSE [pool |-> [a.pool EXCEPT !.mem[w.table][i] = Entry(a.frame, TRUE)], table |-> a.frame]

\* leaf_table: the table of the last level; 0 when the address is not a
\* user's or memory runs out on the way (what was made stays).
LeafTable(p, root, page) ==
    FoldLeft(LAMBDA w, l : Descend(w, page, l, AllocFrame(w.pool)),
             [pool |-> p, table |-> IF page \in UserStart .. UserLimit - 1 THEN root ELSE 0], Downward)

\* map: refuses a page that is mapped.
Mapped(leaf, page) == leaf.pool.mem[leaf.table][Digit(page, 1)].present
Map(p, root, page, f) ==
    LET leaf == LeafTable(p, root, page)
    IN  IF leaf.table = 0 \/ Mapped(leaf, page) THEN [ok |-> FALSE, pool |-> leaf.pool]
        ELSE [ok |-> TRUE, pool |-> [leaf.pool EXCEPT !.mem[leaf.table][Digit(page, 1)] = Entry(f, TRUE)]]

ReturnUnmapped(p, f) == FreeFrame(p, f)

MapNewPage(p, root, page) ==
    LET a == AllocFrame(p)
        r == Map(a.pool, root, page, a.frame)
    IN  IF a.frame = 0 THEN [frame |-> 0, pool |-> a.pool]
        ELSE IF r.ok THEN [frame |-> a.frame, pool |-> r.pool]
        ELSE [frame |-> 0, pool |-> ReturnUnmapped(r.pool, a.frame)]

\* free_table: the frames below an entry, in the order they are freed.
Tree(mem, root) ==
    LET below[l \in 0 .. Levels, f \in Frames] ==
            (IF l = 0 THEN <<>>
             ELSE FlattenSeq([k \in 1 .. N |->
                      IF mem[f][k - 1].present /\ (l < Levels \/ k - 1 \in UserFirst .. UserEnd - 1)
                      THEN below[l - 1, mem[f][k - 1].to] ELSE <<>>]))
            \o <<f>>
    IN  below[Levels, root]

----------------------------------------------------------------------------
(* Boot: the kernel's own table, with the boot allocator.                  *)

BootFrame(p) ==
    LET b == Bump(p.bump) IN [frame |-> b.frame, pool |-> Zeroed([p EXCEPT !.bump = b.bump], b.frame)]

AllPages == FlattenSeq([d \in Descriptors |->
                [k \in 1 .. MemoryMap[d].pages |-> MemoryMap[d].start + k - 1]])

Init ==
    LET raw == [mem |-> [f \in Frames |-> [i \in Index |-> Data]],
                head |-> 0, bump |-> [desc |-> 1, page |-> 0], used |-> 0]
    IN  /\ pool = BootFrame(raw).pool
        /\ boot = AllPages \o DevicePages
        /\ kernel = BootFrame(raw).frame
        /\ space = [s \in Spaces |-> NoSpace]
        /\ pages = [s \in Spaces |-> <<>>]

\* map_page at the page's own address, as init_paging and the drivers call it.
\* When the last page is mapped the allocator is committed to the pool.
MapPage ==
    /\ boot # <<>>
    /\ LET page == Head(boot)
           leaf == FoldLeft(LAMBDA w, l : Descend(w, page, l, BootFrame(w.pool)),
                            [pool |-> pool, table |-> kernel], Downward)
       IN  pool' = [leaf.pool EXCEPT !.mem[leaf.table][Digit(page, 1)] = Entry(page, FALSE)]
    /\ boot' = Tail(boot)
    /\ UNCHANGED <<kernel, space, pages>>

Committed == boot = <<>>

----------------------------------------------------------------------------
(* A process is created, loaded and dropped.                               *)

SharedSlots == KernelSlots

\* The pages load_kef maps: the code, then the stack from its lowest page up.
Image(code) == [k \in 1 .. code |-> UserStart + k - 1]
               \o [k \in 1 .. StackPages |-> StackTop - StackPages + k - 1]

New(s) ==
    /\ Committed /\ space[s].at = "none"
    /\ LET a == AllocFrame(pool)
       IN  IF a.frame = 0 THEN pool' = a.pool /\ UNCHANGED space
           ELSE /\ pool' = [a.pool EXCEPT !.mem[a.frame] =
                              [i \in Index |-> IF i \in SharedSlots THEN a.pool.mem[kernel][i] ELSE @[i]]]
                /\ \E code \in CodeSizes :
                     space' = [space EXCEPT ![s] = [NoSpace EXCEPT !.at = "load", !.pml4 = a.frame,
                                                                   !.todo = Image(code)]]
    /\ UNCHANGED <<boot, kernel, pages>>

\* load_kef, one page; when memory runs out the space is dropped.
LoadPage(s) ==
    /\ space[s].at = "load" /\ space[s].todo # <<>>
    /\ LET page == Head(space[s].todo)
           r == MapNewPage(pool, space[s].pml4, page)
       IN  /\ pool' = r.pool
           /\ space' = [space EXCEPT ![s].at = IF r.frame = 0 THEN "drop" ELSE @, ![s].todo = Tail(@)]
           /\ pages' = IF r.frame = 0 THEN pages ELSE [pages EXCEPT ![s] = [x \in {page} |-> r.frame] @@ @]
    /\ UNCHANGED <<boot, kernel>>

Loaded(s) ==
    /\ space[s].at = "load" /\ space[s].todo = <<>>
    /\ space' = [space EXCEPT ![s].at = "ready"]
    /\ UNCHANGED <<pool, boot, kernel, pages>>

Drop(s) ==
    /\ space[s].at \in {"drop", "ready"}
    /\ pool' = FoldLeft(FreeFrame, pool, Tree(pool.mem, space[s].pml4))
    /\ space' = [space EXCEPT ![s] = [NoSpace EXCEPT !.at = "gone"]]
    /\ pages' = [pages EXCEPT ![s] = <<>>]
    /\ UNCHANGED <<boot, kernel>>

\* The program writes to its pages.
Write(s) ==
    /\ space[s].at = "ready"
    /\ \E page \in DOMAIN pages[s] : pages[s][page] # 0
    /\ pool' = [pool EXCEPT !.mem = [f \in Frames |->
                   IF \E page \in DOMAIN pages[s] : f # 0 /\ pages[s][page] = f THEN [i \in Index |-> Data] ELSE @[f]]]
    /\ pages' = [pages EXCEPT ![s] = [page \in DOMAIN @ |-> 0]]
    /\ UNCHANGED <<boot, kernel, space>>

----------------------------------------------------------------------------
(* grow_heap, under the lock of the heap's end.                            *)

PagesOf(words) == (words + N - 1) \div N
Overflows(words) == words + N - 1 > AddressMax
NewEnd(s, words) == space[s].end + PagesOf(words)
TooLarge(s, words) == Overflows(words) \/ NewEnd(s, words) > HeapLimit

Grow(s) ==
    /\ space[s].at = "ready"
    /\ \E words \in GrowSizes :
         /\ ~TooLarge(s, words)
         /\ space' = [space EXCEPT ![s].at = "tables", ![s].new = NewEnd(s, words),
                                   ![s].todo = [k \in 1 .. PagesOf(words) |-> space[s].end + k - 1]]
    /\ UNCHANGED <<pool, boot, kernel, pages>>

\* First pass: the tables of the range.
GrowTable(s) ==
    /\ space[s].at = "tables" /\ space[s].todo # <<>>
    /\ LET leaf == LeafTable(pool, space[s].pml4, Head(space[s].todo))
       IN  /\ pool' = leaf.pool
           /\ space' = [space EXCEPT ![s].todo = IF leaf.table = 0 THEN <<>> ELSE Tail(@),
                                     ![s].at = IF leaf.table = 0 THEN "ready" ELSE @]
    /\ UNCHANGED <<boot, kernel, pages>>

GrowTablesDone(s) ==
    /\ space[s].at = "tables" /\ space[s].todo = <<>>
    /\ space' = [space EXCEPT ![s].at = "frames",
                              ![s].todo = [k \in 1 .. space[s].new - space[s].end |-> space[s].end + k - 1]]
    /\ UNCHANGED <<pool, boot, kernel, pages>>

\* Second pass: the frames, chained through their first words.
GrowFrame(s) ==
    /\ space[s].at = "frames" /\ space[s].todo # <<>>
    /\ LET a == AllocFrame(pool)
       IN  IF a.frame = 0
           THEN pool' = a.pool /\ space' = [space EXCEPT ![s].at = "unwind", ![s].todo = <<>>]
           ELSE /\ pool' = [a.pool EXCEPT !.mem[a.frame][0] = Link(space[s].chain)]
                /\ space' = [space EXCEPT ![s].chain = a.frame, ![s].todo = Tail(@)]
    /\ UNCHANGED <<boot, kernel, pages>>

\* The next frame is read before free_frame overwrites the link.
NextOfChain(p, f) == p.mem[f][0].to

Unwind(s) ==
    /\ space[s].at = "unwind"
    /\ IF space[s].chain = 0
       THEN space' = [space EXCEPT ![s].at = "ready"] /\ UNCHANGED pool
       ELSE /\ space' = [space EXCEPT ![s].chain = NextOfChain(pool, @)]
            /\ pool' = FreeFrame(pool, space[s].chain)
    /\ UNCHANGED <<boot, kernel, pages>>

LinkLeft(p, f) == p
LinkCleared(p, f) == [p EXCEPT !.mem[f][0] = Zero]

\* Third pass: nothing can fail any more.
GrowMap(s) ==
    /\ space[s].at = "frames" /\ space[s].todo = <<>>
    /\ LET range == [k \in 1 .. space[s].new - space[s].end |-> space[s].end + k - 1]
           done == FoldLeft(
               LAMBDA w, page :
                   LET r == Map(LinkCleared(w.pool, w.chain), space[s].pml4, page, w.chain)
                   IN  [pool |-> r.pool, chain |-> NextOfChain(w.pool, w.chain),
                        pages |-> [x \in {page} |-> w.chain] @@ w.pages],
               [pool |-> pool, chain |-> space[s].chain, pages |-> pages[s]], range)
       IN  /\ pool' = done.pool
           /\ space' = [space EXCEPT ![s].at = "ready", ![s].end = space[s].new, ![s].chain = done.chain]
           /\ pages' = [pages EXCEPT ![s] = done.pages]
    /\ UNCHANGED <<boot, kernel>>

Next ==
    \/ MapPage
    \/ \E s \in Spaces :
        \/ New(s) \/ LoadPage(s) \/ Loaded(s) \/ Drop(s) \/ Write(s)
        \/ Grow(s) \/ GrowTable(s) \/ GrowTablesDone(s) \/ GrowFrame(s) \/ Unwind(s) \/ GrowMap(s)

Spec == Init /\ [][Next]_vars
----------------------------------------------------------------------------
(* What system calls ask before they touch a program's memory.             *)

\* page_present: the flags are required at every level of the walk.
PagePresent(root, page) ==
    LET from[l \in 1 .. Levels, f \in Frames] ==
            LET e == pool.mem[f][Digit(page, l)]
            IN  /\ e.present /\ e.user
                /\ l > 1 => from[l - 1, e.to]
    IN  from[Levels, root]

Half == (N ^ (Levels + 1)) \div 2      \* words of one canonical half
Region(a) == a \div Half
PageOf(a) == (a \div N) % (N ^ Levels)

LastOfRange(start, len) == start + len - 1

RangeMapped(root, start, len) ==
    \/ len = 0
    \/ /\ start + len <= AddressMax
       /\ Region(start) \in {0, Region(AddressMax)}
       /\ Region(LastOfRange(start, len)) = Region(start)
       /\ \A page \in PageOf(start) .. PageOf(LastOfRange(start, len)) : PagePresent(root, page)

----------------------------------------------------------------------------
(* Properties.                                                             *)

Live == {s \in Spaces : space[s].at \notin {"none", "gone"}}

TypeOK ==
    /\ pool.head \in Frames /\ pool.used \in 0 .. Cardinality(Frames)
    /\ \A s \in Live :
         /\ space[s].pml4 \in Frames \ {0, kernel} /\ space[s].chain \in Frames
         /\ space[s].end \in HeapBase .. HeapLimit
         /\ DOMAIN pages[s] \subseteq UserStart .. UserLimit - 1

\* The tables under some slots of a PML4.
Tables(root, slots) ==
    LET level[l \in 1 .. Levels] ==
            IF l = Levels THEN {root}
            ELSE LET used == IF l + 1 = Levels THEN slots ELSE Index
                 IN  UNION {{pool.mem[f][i].to : i \in {j \in used : pool.mem[f][j].present}} : f \in level[l + 1]}
    IN  UNION {level[l] : l \in 1 .. Levels}

\* The frames on the free list, and on the chain of a growing heap.
Chain(f) ==
    LET from[k \in 0 .. Cardinality(Frames), g \in Frames] ==
            IF g = 0 \/ k = 0 THEN <<>> ELSE <<g>> \o from[k - 1, pool.mem[g][0].to]
    IN  from[Cardinality(Frames), f]
\* What a space owns, and what the boot allocator has not reached.
HeldBy(s) ==
    IF s \in Live THEN Tree(pool.mem, space[s].pml4) \o Chain(space[s].chain) ELSE <<>>
Left(b) ==
    {f \in Frames : \E d \in Descriptors :
        /\ MemoryMap[d].usable /\ MemoryMap[d].start > 0
        /\ f \in MemoryMap[d].start .. MemoryMap[d].start + MemoryMap[d].pages - 1
        /\ (d > b.desc) \/ (d = b.desc /\ f >= MemoryMap[d].start + b.page)}

\* The frames the pool never gives out: unusable ones and the kernel's tables.
BootFrames ==
    {f \in Frames : \E d \in Descriptors :
        /\ f \in MemoryMap[d].start .. MemoryMap[d].start + MemoryMap[d].pages - 1
        /\ ~MemoryMap[d].usable \/ MemoryMap[d].start = 0}
    \cup Tables(kernel, KernelSlots)

\* Every frame taken from the pool has exactly one owner: it is a table or a
\* page of one address space, or on the chain of one growing heap, or on the
\* free list; `in_use' counts the ones that are not free.  So nothing leaks
\* when a load or a growth fails half way, or a space is dropped.
FramesExact ==
    LET held == FoldLeft(LAMBDA all, s : all \o HeldBy(s), <<>>, SetToSeq(Spaces))
        free == Chain(pool.head)
    IN  /\ pool.used = Len(held)
        /\ IsInjective(held \o free)
        /\ Range(held) \cup Range(free) = Frames \ (Left(pool.bump) \cup BootFrames)

\* A page a program has not written to reads as zero: nothing of an earlier
\* owner, of a table or of a list link shows through, also after growing.
FreshZeroed ==
    \A s \in Live : \A page \in DOMAIN pages[s] :
        pages[s][page] # 0 => pool.mem[pages[s][page]] = ZeroFrame

\* The heap is mapped exactly up to its end: a growth that fails leaves no
\* page behind, and the page under the stack and above the heap stay unmapped.
HeapExact ==
    \A s \in Live :
        {page \in HeapBase .. StackTop - StackPages - 1 : PagePresent(space[s].pml4, page)}
            = HeapBase .. space[s].end - 1

\* Every address space shares the kernel's part, so a frame the kernel may
\* reach by its physical address is mapped there whatever space is loaded.
KernelShared ==
    \A s \in Live : \A i \in KernelSlots : pool.mem[space[s].pml4][i] = pool.mem[kernel][i]

\* The check of a user range says yes exactly when every word of it lies on a
\* page mapped for the program, at page ends, across the halves and when the
\* range would wrap.
UserRangeExact ==
    \A s \in Live : \A start \in ProbeStarts, len \in ProbeLengths :
        RangeMapped(space[s].pml4, start, len)
            <=> \A a \in start .. start + len - 1 : \E page \in DOMAIN pages[s] : a \div N = page
=============================================================================
