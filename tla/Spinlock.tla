------------------------------ MODULE Spinlock ------------------------------
(***************************************************************************)
(* The kernel's spinlocks (sync/mod.rs) on several CPUs with interrupts:   *)
(* lock and try_lock save the interrupt flag, mask interrupts and take the *)
(* lock; dropping the guard gives it back and restores the flag.           *)
(*                                                                         *)
(* A CPU runs a thread and, on top of it, at most one interrupt handler;   *)
(* both use locks, one inside the other.  Nested locks are taken in one    *)
(* order, the order of the numbers, and guards are dropped in the opposite *)
(* one, as scopes do.                                                      *)
(***************************************************************************)
EXTENDS Integers, FiniteSets

CONSTANTS
    CPUs,
    Locks,          \* a set of numbers: the order of nesting
    Rounds          \* bound: lock operations of a thread; interrupts and their
                    \* lock operations

ASSUME SpinlockAssumption == Locks \subseteq Nat /\ Locks # {} /\ Rounds \in Nat

Levels == {"thread", "irq"}
Ctx == CPUs \X Levels

VARIABLES
    flag,       \* [Locks -> BOOLEAN]: the word of each lock
    IF_,        \* [CPUs -> BOOLEAN]: the interrupt flag
    level,      \* [CPUs -> Levels]: what the CPU executes
    pc,         \* [Ctx -> ...]: where in lock, try_lock or drop
    want,       \* [Ctx -> Locks]: the lock that is about
    try,        \* [Ctx -> BOOLEAN]: by try_lock
    rflags,     \* [Ctx -> BOOLEAN]: the flag lock has read
    guards,     \* [Ctx -> SUBSET Locks]: the guards held
    enabled,    \* [Ctx -> [Locks -> BOOLEAN]]: interrupts_enabled of each guard
    left        \* [Ctx -> 0 .. Rounds]: lock operations still to do

vars == <<flag, IF_, level, pc, want, try, rflags, guards, enabled, left>>

Init ==
    /\ flag = [l \in Locks |-> FALSE]
    /\ IF_ = [c \in CPUs |-> TRUE] /\ level = [c \in CPUs |-> "thread"]
    /\ pc = [k \in Ctx |-> "run"] /\ want = [k \in Ctx |-> CHOOSE l \in Locks : TRUE]
    /\ try = [k \in Ctx |-> FALSE] /\ rflags = [k \in Ctx |-> FALSE]
    /\ guards = [k \in Ctx |-> {}] /\ enabled = [k \in Ctx |-> [l \in Locks |-> FALSE]]
    /\ left = [k \in Ctx |-> Rounds]

Running(k) == level[k[1]] = k[2]
Inner(k, l) == \A g \in guards[k] : g < l

----------------------------------------------------------------------------
(* lock and try_lock.                                                      *)

Pushfq(k) == IF_[k[1]]

\* The flag is read,
ReadFlags(k, l, t) ==
    /\ Running(k) /\ pc[k] = "run" /\ left[k] > 0 /\ Inner(k, l)
    /\ want' = [want EXCEPT ![k] = l] /\ try' = [try EXCEPT ![k] = t]
    /\ rflags' = [rflags EXCEPT ![k] = Pushfq(k)]
    /\ pc' = [pc EXCEPT ![k] = "cli"]
    /\ left' = [left EXCEPT ![k] = @ - 1]
    /\ UNCHANGED <<flag, IF_, level, guards, enabled>>

\* then interrupts are masked.
Cli(k) ==
    /\ Running(k) /\ pc[k] = "cli"
    /\ IF_' = [IF_ EXCEPT ![k[1]] = FALSE]
    /\ pc' = [pc EXCEPT ![k] = "cas"]
    /\ UNCHANGED <<flag, level, want, try, rflags, guards, enabled, left>>

\* The compare-and-swap; lock repeats it, try_lock does it once.
FreeAlways(l) == TRUE
Free(l) == ~flag[l]

Acquire(k) ==
    /\ Running(k) /\ pc[k] = "cas" /\ Free(want[k])
    /\ flag' = [flag EXCEPT ![want[k]] = TRUE]
    /\ guards' = [guards EXCEPT ![k] = @ \cup {want[k]}]
    /\ enabled' = [enabled EXCEPT ![k] = [@ EXCEPT ![want[k]] = rflags[k]]]
    /\ pc' = [pc EXCEPT ![k] = "run"] /\ try' = [try EXCEPT ![k] = FALSE]
    /\ UNCHANGED <<IF_, level, want, rflags, left>>

Restore(k) == [IF_ EXCEPT ![k[1]] = @ \/ rflags[k]]

TryFails(k) ==
    /\ Running(k) /\ pc[k] = "cas" /\ try[k] /\ ~Free(want[k])
    /\ IF_' = Restore(k)
    /\ pc' = [pc EXCEPT ![k] = "run"] /\ try' = [try EXCEPT ![k] = FALSE]
    /\ UNCHANGED <<flag, level, want, rflags, guards, enabled, left>>

----------------------------------------------------------------------------
(* Dropping the innermost guard: first the word, then the flag.            *)

Innermost(k, l) == l \in guards[k] /\ \A g \in guards[k] : g <= l

Release(k, l) ==
    /\ Running(k) /\ pc[k] = "run" /\ Innermost(k, l)
    /\ flag' = [flag EXCEPT ![l] = FALSE]
    /\ guards' = [guards EXCEPT ![k] = @ \ {l}]
    /\ want' = [want EXCEPT ![k] = l]
    /\ pc' = [pc EXCEPT ![k] = "sti"]
    /\ UNCHANGED <<IF_, level, try, rflags, enabled, left>>

Sti(k) ==
    /\ Running(k) /\ pc[k] = "sti"
    /\ IF_' = [IF_ EXCEPT ![k[1]] = @ \/ enabled[k][want[k]]]
    /\ pc' = [pc EXCEPT ![k] = "run"]
    /\ UNCHANGED <<flag, level, want, try, rflags, guards, enabled, left>>

----------------------------------------------------------------------------
(* Interrupts: taken at any instruction while the flag is set, with the    *)
(* flag clear in the handler; the return restores it.                      *)

Interrupt(c) ==
    /\ level[c] = "thread" /\ IF_[c] /\ left[<<c, "irq">>] > 0
    /\ level' = [level EXCEPT ![c] = "irq"]
    /\ IF_' = [IF_ EXCEPT ![c] = FALSE]
    /\ left' = [left EXCEPT ![<<c, "irq">>] = @ - 1]
    /\ UNCHANGED <<flag, pc, want, try, rflags, guards, enabled>>

Iretq(c) ==
    /\ level[c] = "irq" /\ pc[<<c, "irq">>] = "run" /\ guards[<<c, "irq">>] = {}
    /\ level' = [level EXCEPT ![c] = "thread"]
    /\ IF_' = [IF_ EXCEPT ![c] = TRUE]
    /\ UNCHANGED <<flag, pc, want, try, rflags, guards, enabled, left>>

Step(k) ==
    \/ \E l \in Locks, t \in BOOLEAN : ReadFlags(k, l, t)
    \/ Cli(k) \/ Acquire(k) \/ TryFails(k)
    \/ \E l \in Locks : Release(k, l)
    \/ Sti(k)

Idle == \A k \in Ctx : pc[k] = "run" /\ left[k] = 0 /\ guards[k] = {} /\ level[k[1]] = "thread"
Finished == Idle /\ UNCHANGED vars

Next == \/ \E k \in Ctx : Step(k)
        \/ \E c \in CPUs : Interrupt(c) \/ Iretq(c)
        \/ Finished

\* Every CPU goes on executing; an interrupt need not come.
Spec == Init /\ [][Next]_vars

----------------------------------------------------------------------------
TypeOK ==
    /\ flag \in [Locks -> BOOLEAN]
    /\ IF_ \in [CPUs -> BOOLEAN] /\ level \in [CPUs -> Levels]
    /\ pc \in [Ctx -> {"run", "cli", "cas", "sti"}]
    /\ want \in [Ctx -> Locks]
    /\ try \in [Ctx -> BOOLEAN] /\ rflags \in [Ctx -> BOOLEAN]
    /\ guards \in [Ctx -> SUBSET Locks]
    /\ enabled \in [Ctx -> [Locks -> BOOLEAN]]
    /\ left \in [Ctx -> 0 .. Rounds]

\* At most one guard of a lock exists, on any CPU, in a thread or a handler.
MutualExclusion == \A j, k \in Ctx : j # k => guards[j] \cap guards[k] = {}

\* While a guard is held on a CPU its interrupts are masked, so that no
\* handler there can wait for it (lock).
MaskedWhileHeld == \A k \in Ctx : guards[k] # {} => ~IF_[k[1]]

\* With its last guard gone, and after a try_lock that failed, a thread has
\* interrupts enabled again, and a handler still has them masked.
FlagRestored ==
    \A k \in Ctx : Running(k) /\ pc[k] = "run" /\ guards[k] = {} => (IF_[k[1]] <=> k[2] = "thread")

\* No context waits for a lock that its own CPU holds, which could never end.
NoSelfDeadlock ==
    \A c \in CPUs, v, w \in Levels :
        Running(<<c, v>>) /\ pc[<<c, v>>] = "cas" => want[<<c, v>>] \notin guards[<<c, w>>]

\* A lock is safe to use in threads and in handlers: one guard at a time,
\* nobody waits for a lock of its own CPU, and the interrupt flag comes back.
LocksSafe == MutualExclusion /\ MaskedWhileHeld /\ FlagRestored /\ NoSelfDeadlock

\* Why this is so: a word is set exactly while its guard exists; of nested
\* guards only the outermost one, and only a thread's, has seen interrupts
\* enabled; an interrupted thread holds nothing, and a CPU that runs its
\* thread has no handler half-way.
FlagExact == \A l \in Locks : flag[l] <=> \E k \in Ctx : l \in guards[k]
Outermost(k, l) == k[2] = "thread" /\ \A g \in guards[k] : l <= g
Masked(k) == guards[k] # {} \/ pc[k] \in {"cas", "sti"}
MaskOK(k) ==
    /\ Masked(k) => ~IF_[k[1]] /\ Running(k)
    /\ k[2] = "irq" => (~Running(k) /\ pc[k] = "run") \/ (Running(k) /\ ~IF_[k[1]])
    /\ k[2] = "thread" /\ Running(k) /\ ~Masked(k) => IF_[k[1]]
WantOK(k) ==
    pc[k] \in {"cli", "cas"} => Inner(k, want[k]) /\ (rflags[k] <=> k[2] = "thread" /\ guards[k] = {})
GuardsOK(k) ==
    /\ pc[k] = "sti" => (enabled[k][want[k]] <=> k[2] = "thread" /\ guards[k] = {})
    /\ \A l \in guards[k] : enabled[k][l] <=> Outermost(k, l)
Inductive == TypeOK /\ FlagExact /\ MutualExclusion
             /\ \A k \in Ctx : MaskOK(k) /\ WantOK(k) /\ GuardsOK(k)

=============================================================================
