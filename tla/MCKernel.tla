------------------------------ MODULE MCKernel ------------------------------
(* Spin locks, the kernel heap and address spaces for TLC.  They share no   *)
(* state, so a property of one of them fails in some behaviour of all three *)
(* exactly when it fails in a behaviour in which only that one moves:       *)
(* MCInit picks the one.  The CPUs are also the threads that allocate and   *)
(* two of the processes.                                                    *)
EXTENDS Spinlock, Sequences, TLC
VARIABLES
    part,
    heap, live, move,
    pool, boot, kernel, space, pages

locks == <<flag, IF_, level, pc, want, try, rflags, guards, enabled, left>>
allocator == <<heap, live, move>>
memory == <<pool, boot, kernel, space, pages>>

Heap == INSTANCE Heap WITH Threads <- CPUs, Start <- 8, Size <- 24, ArenaQuarters <- 1,
                           BucketSizes <- <<1, 2>>, SlabCount <- 2, Header <- 1, MinSplit <- 2,
                           Sizes <- {1, 2, 3}, Aligns <- {1, 2}, MaxLive <- 3

\* Page 0, unusable pages between usable ones, and a device outside them
Usable(from, n) == [usable |-> TRUE, start |-> from, pages |-> n]
Reserved(from, n) == [usable |-> FALSE, start |-> from, pages |-> n]
Map22 == <<Usable(0, 2), Reserved(2, 1), Usable(3, 8), Reserved(11, 1), Usable(12, 8)>>

Spaces == INSTANCE AddressSpace WITH
    Spaces <- CPUs \cup {"third"}, N <- 8, Levels <- 3, MemoryMap <- Map22, DevicePages <- <<70>>,
    UserFirst <- 2, UserEnd <- 4, HeapBase <- 135, HeapLimit <- 137, StackTop <- 152,
    StackPages <- 1, CodeSizes <- {1}, GrowSizes <- {9, 32765}, AddressMax <- 32767,
    ProbeStarts <- {16, 1023, 1024, 1031, 1079, 1087, 1095, 1214, 2047, 32767},
    ProbeLengths <- {0, 1, 2, 9}

ASSUME Heap!HeapAssumption /\ Spaces!LayoutAssumption

MCInit == part \in {"locks", "heap", "spaces"} /\ Init /\ Heap!Init /\ Spaces!Init

MCNext ==
    /\ UNCHANGED part
    /\ \/ part = "locks" /\ Next /\ UNCHANGED <<allocator, memory>>
       \/ part = "heap" /\ Heap!Next /\ UNCHANGED <<locks, memory>>
       \/ part = "spaces" /\ Spaces!Next /\ UNCHANGED <<locks, allocator>>

MCSpec == MCInit /\ [][MCNext]_<<part, locks, allocator, memory>>

Symmetry == Permutations(CPUs)

\* What the allocator hands out is the caller's alone: no two allocations
\* overlap each other, a header, a free block or the untouched arena, each has
\* the alignment and the room asked for, the list of large blocks covers its
\* part of the region and two neighbours are never both free (alloc, dealloc,
\* realloc, split and merge).
HeapExact ==
    part = "heap" => /\ Heap!TypeOK /\ Heap!NoOverlap /\ Heap!ListCovers /\ Heap!NoFreeNeighbours
                     /\ Heap!AsAsked /\ Heap!CopyFits

\* Every frame of the pool has exactly one owner, so that nothing leaks when a
\* load or a growth fails half way or a space is dropped; a page a program has
\* not written reads as zero; its heap is mapped exactly up to its end; every
\* space shares the kernel's part; and the check of a user range says yes
\* exactly when every word of it lies on a page mapped for the program, at page
\* ends, across the halves and when the range would wrap (FramePool,
\* AddressSpace, user_range_mapped).
FramesOwned ==
    part = "spaces" => /\ Spaces!TypeOK /\ Spaces!FramesExact /\ Spaces!FreshZeroed /\ Spaces!HeapExact
                       /\ Spaces!KernelShared /\ Spaces!UserRangeExact
=============================================================================
