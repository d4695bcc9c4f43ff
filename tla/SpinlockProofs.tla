--------------------------- MODULE SpinlockProofs ---------------------------
(***************************************************************************)
(* For any number of CPUs, any locks and any nesting: the spinlocks        *)
(* exclude, keep interrupts masked while a guard is held, restore the flag *)
(* and never wait for a lock of their own CPU.                             *)
(***************************************************************************)
EXTENDS Spinlock, TLAPS

\* What a step on context k may change is k itself and, through the flag and
\* the level, the other context of the same CPU.
LEMMA Contexts ==
    ASSUME NEW k \in Ctx
    PROVE  k[1] \in CPUs /\ k[2] \in Levels /\ k = <<k[1], k[2]>>
BY DEF Ctx, Levels

\* The invariant holds at boot.
LEMMA InitInductive == Init => Inductive
<1> SUFFICES ASSUME Init PROVE Inductive
    OBVIOUS
<1>1. TypeOK
    BY SpinlockAssumption DEF Init, TypeOK, Levels
<1>2. FlagExact /\ MutualExclusion
    BY DEF Init, FlagExact, MutualExclusion
<1>3. ASSUME NEW k \in Ctx PROVE MaskOK(k) /\ WantOK(k) /\ GuardsOK(k)
    BY Contexts DEF Init, MaskOK, WantOK, GuardsOK, Masked, Running, Levels
<1> QED
    BY <1>1, <1>2, <1>3 DEF Inductive

\* pushfq keeps it: the flag read is set exactly for a thread with no guard.
LEMMA ReadFlagsStep ==
    ASSUME Inductive, NEW k \in Ctx, NEW l \in Locks, NEW t \in BOOLEAN, ReadFlags(k, l, t)
    PROVE  Inductive'
<1>1. TypeOK'
    BY Contexts, SpinlockAssumption DEF Inductive, TypeOK, ReadFlags, Pushfq
<1>2. FlagExact'
    BY DEF Inductive, TypeOK, FlagExact, MutualExclusion, ReadFlags
<1>3. MutualExclusion'
    BY DEF Inductive, TypeOK, FlagExact, MutualExclusion, ReadFlags
<1>4. ASSUME NEW j \in Ctx PROVE MaskOK(j)'
    <2>1. CASE j = k
        BY Zenon, <2>1, Contexts DEF Inductive, TypeOK, MaskOK, WantOK, GuardsOK, Masked, Running, Levels, ReadFlags, Pushfq
    <2>2. CASE j # k /\ j[1] = k[1]
        BY Zenon, <2>2, Contexts DEF Inductive, TypeOK, MaskOK, Masked, Running, Levels, ReadFlags, Pushfq
    <2>3. CASE j[1] # k[1]
        BY <2>3, Contexts DEF Inductive, TypeOK, MaskOK, Masked, Running, ReadFlags, Pushfq
    <2> QED BY <2>1, <2>2, <2>3
<1>5. ASSUME NEW j \in Ctx PROVE WantOK(j)'
    <2>1. CASE j = k
        BY <2>1, Contexts, SpinlockAssumption DEF Inductive, TypeOK, MaskOK, WantOK, GuardsOK, Masked, Running, Inner, Outermost, Levels, ReadFlags, Pushfq
    <2>2. CASE j # k
        BY <2>2 DEF Inductive, TypeOK, WantOK, Inner, Outermost, ReadFlags, Pushfq
    <2> QED BY <2>1, <2>2
<1>6. ASSUME NEW j \in Ctx PROVE GuardsOK(j)'
    <2>1. CASE j = k
        BY <2>1, Contexts, SpinlockAssumption DEF Inductive, TypeOK, MaskOK, WantOK, GuardsOK, Masked, Running, Inner, Outermost, Levels, ReadFlags, Pushfq
    <2>2. CASE j # k
        BY <2>2 DEF Inductive, TypeOK, GuardsOK, Inner, Outermost, ReadFlags, Pushfq
    <2> QED BY <2>1, <2>2
<1> QED
    BY <1>1, <1>2, <1>3, <1>4, <1>5, <1>6 DEF Inductive

\* cli keeps it.
LEMMA CliStep ==
    ASSUME Inductive, NEW k \in Ctx, Cli(k)
    PROVE  Inductive'
<1>1. TypeOK'
    BY Contexts, SpinlockAssumption DEF Inductive, TypeOK, Cli
<1>2. FlagExact'
    BY DEF Inductive, TypeOK, FlagExact, MutualExclusion, Cli
<1>3. MutualExclusion'
    BY DEF Inductive, TypeOK, FlagExact, MutualExclusion, Cli
<1>4. ASSUME NEW j \in Ctx PROVE MaskOK(j)'
    <2>1. CASE j = k
        BY <2>1, Contexts DEF Inductive, TypeOK, MaskOK, WantOK, GuardsOK, Masked, Running, Levels, Cli
    <2>2. CASE j # k /\ j[1] = k[1]
        BY SMTT(30), <2>2, Contexts DEF Inductive, TypeOK, MaskOK, Masked, Running, Levels, Cli
    <2>3. CASE j[1] # k[1]
        BY <2>3, Contexts DEF Inductive, TypeOK, MaskOK, Masked, Running, Cli
    <2> QED BY <2>1, <2>2, <2>3
<1>5. ASSUME NEW j \in Ctx PROVE WantOK(j)'
    <2>1. CASE j = k
        BY <2>1, Contexts, SpinlockAssumption DEF Inductive, TypeOK, MaskOK, WantOK, GuardsOK, Masked, Running, Inner, Outermost, Levels, Cli
    <2>2. CASE j # k
        BY <2>2 DEF Inductive, TypeOK, WantOK, Inner, Outermost, Cli
    <2> QED BY <2>1, <2>2
<1>6. ASSUME NEW j \in Ctx PROVE GuardsOK(j)'
    <2>1. CASE j = k
        BY <2>1, Contexts, SpinlockAssumption DEF Inductive, TypeOK, MaskOK, WantOK, GuardsOK, Masked, Running, Inner, Outermost, Levels, Cli
    <2>2. CASE j # k
        BY <2>2 DEF Inductive, TypeOK, GuardsOK, Inner, Outermost, Cli
    <2> QED BY <2>1, <2>2
<1> QED
    BY <1>1, <1>2, <1>3, <1>4, <1>5, <1>6 DEF Inductive

\* A compare-and-swap that succeeds keeps it: the new guard is the innermost.
LEMMA AcquireStep ==
    ASSUME Inductive, NEW k \in Ctx, Acquire(k)
    PROVE  Inductive'
<1>1. TypeOK'
    BY Contexts, SpinlockAssumption DEF Inductive, TypeOK, Acquire
<1>2. FlagExact'
    BY DEF Inductive, TypeOK, FlagExact, MutualExclusion, Acquire, Free
<1>3. MutualExclusion'
    BY DEF Inductive, TypeOK, FlagExact, MutualExclusion, Acquire, Free
<1>4. ASSUME NEW j \in Ctx PROVE MaskOK(j)'
    <2>1. CASE j = k
        BY <2>1, Contexts DEF Inductive, TypeOK, MaskOK, WantOK, GuardsOK, Masked, Running, Levels, Acquire
    <2>2. CASE j # k /\ j[1] = k[1]
        BY <2>2, Contexts DEF Inductive, TypeOK, MaskOK, Masked, Running, Levels, Acquire
    <2>3. CASE j[1] # k[1]
        BY <2>3, Contexts DEF Inductive, TypeOK, MaskOK, Masked, Running, Acquire
    <2> QED BY <2>1, <2>2, <2>3
<1>5. ASSUME NEW j \in Ctx PROVE WantOK(j)'
    <2>1. CASE j = k
        BY <2>1, Contexts, SpinlockAssumption DEF Inductive, TypeOK, MaskOK, WantOK, GuardsOK, Masked, Running, Inner, Outermost, Levels, Acquire
    <2>2. CASE j # k
        BY <2>2 DEF Inductive, TypeOK, WantOK, Inner, Outermost, Acquire
    <2> QED BY <2>1, <2>2
<1>6. ASSUME NEW j \in Ctx PROVE GuardsOK(j)'
    <2>1. CASE j = k
        BY <2>1, Contexts, SpinlockAssumption DEF Inductive, TypeOK, MaskOK, WantOK, GuardsOK, Masked, Running, Inner, Outermost, Levels, Acquire
    <2>2. CASE j # k
        BY <2>2 DEF Inductive, TypeOK, GuardsOK, Inner, Outermost, Acquire
    <2> QED BY <2>1, <2>2
<1> QED
    BY <1>1, <1>2, <1>3, <1>4, <1>5, <1>6 DEF Inductive

\* try_lock gives the flag back as it was.
LEMMA TryFailsStep ==
    ASSUME Inductive, NEW k \in Ctx, TryFails(k)
    PROVE  Inductive'
<1>1. TypeOK'
    BY Contexts, SpinlockAssumption DEF Inductive, TypeOK, TryFails, Restore
<1>2. FlagExact'
    BY DEF Inductive, TypeOK, FlagExact, MutualExclusion, TryFails
<1>3. MutualExclusion'
    BY DEF Inductive, TypeOK, FlagExact, MutualExclusion, TryFails
<1>4. ASSUME NEW j \in Ctx PROVE MaskOK(j)'
    <2>1. CASE j = k
        BY <2>1, Contexts DEF Inductive, TypeOK, MaskOK, WantOK, GuardsOK, Masked, Running, Levels, TryFails, Restore
    <2>2. CASE j # k /\ j[1] = k[1]
        <3>1. ~Running(j) /\ ~Running(j)'
            BY <2>2, Contexts DEF Running, TryFails
        <3>2. ~Masked(j) /\ pc'[j] = pc[j] /\ guards'[j] = guards[j]
            BY <2>2, <3>1 DEF Inductive, TypeOK, MaskOK, TryFails
        <3> QED BY <3>1, <3>2 DEF Inductive, MaskOK, Masked
    <2>3. CASE j[1] # k[1]
        BY <2>3, Contexts DEF Inductive, TypeOK, MaskOK, Masked, Running, TryFails, Restore
    <2> QED BY <2>1, <2>2, <2>3
<1>5. ASSUME NEW j \in Ctx PROVE WantOK(j)'
    <2>1. CASE j = k
        BY <2>1, Contexts, SpinlockAssumption DEF Inductive, TypeOK, MaskOK, WantOK, GuardsOK, Masked, Running, Inner, Outermost, Levels, TryFails, Restore
    <2>2. CASE j # k
        BY <2>2 DEF Inductive, TypeOK, WantOK, Inner, Outermost, TryFails, Restore
    <2> QED BY <2>1, <2>2
<1>6. ASSUME NEW j \in Ctx PROVE GuardsOK(j)'
    <2>1. CASE j = k
        BY <2>1, Contexts, SpinlockAssumption DEF Inductive, TypeOK, MaskOK, WantOK, GuardsOK, Masked, Running, Inner, Outermost, Levels, TryFails, Restore
    <2>2. CASE j # k
        BY <2>2 DEF Inductive, TypeOK, GuardsOK, Inner, Outermost, TryFails, Restore
    <2> QED BY <2>1, <2>2
<1> QED
    BY <1>1, <1>2, <1>3, <1>4, <1>5, <1>6 DEF Inductive

\* Dropping the innermost guard keeps it: the rest is as if it had never been.
LEMMA ReleaseStep ==
    ASSUME Inductive, NEW k \in Ctx, NEW l \in Locks, Release(k, l)
    PROVE  Inductive'
<1>1. TypeOK'
    BY Contexts, SpinlockAssumption DEF Inductive, TypeOK, Release
<1>2. FlagExact'
    BY DEF Inductive, TypeOK, FlagExact, MutualExclusion, Release, Innermost
<1>3. MutualExclusion'
    BY DEF Inductive, TypeOK, FlagExact, MutualExclusion, Release
<1>4. ASSUME NEW j \in Ctx PROVE MaskOK(j)'
    <2>1. CASE j = k
        BY <2>1, Contexts DEF Inductive, TypeOK, MaskOK, WantOK, GuardsOK, Masked, Running, Levels, Release, Innermost
    <2>2. CASE j # k /\ j[1] = k[1]
        BY <2>2, Contexts DEF Inductive, TypeOK, MaskOK, Masked, Running, Levels, Release
    <2>3. CASE j[1] # k[1]
        BY <2>3, Contexts DEF Inductive, TypeOK, MaskOK, Masked, Running, Release
    <2> QED BY <2>1, <2>2, <2>3
<1>5. ASSUME NEW j \in Ctx PROVE WantOK(j)'
    <2>1. CASE j = k
        BY <2>1, Contexts, SpinlockAssumption DEF Inductive, TypeOK, MaskOK, WantOK, GuardsOK, Masked, Running, Inner, Outermost, Levels, Release, Innermost
    <2>2. CASE j # k
        BY <2>2 DEF Inductive, TypeOK, WantOK, Inner, Outermost, Release
    <2> QED BY <2>1, <2>2
<1>6. ASSUME NEW j \in Ctx PROVE GuardsOK(j)'
    <2>1. CASE j = k
        <3>1. /\ pc'[k] = "sti" /\ want'[k] = l /\ enabled'[k] = enabled[k]
              /\ guards'[k] = guards[k] \ {l} /\ guards[k] \subseteq Nat
            BY Zenon, SpinlockAssumption DEF Inductive, TypeOK, Release
        <3>2. l \in guards[k] /\ \A g \in guards[k] : g <= l /\ (enabled[k][g] <=> Outermost(k, g))
            BY DEF Inductive, GuardsOK, Release, Innermost
        <3>3. enabled[k][l] <=> k[2] = "thread" /\ guards'[k] = {}
            BY <3>1, <3>2 DEF Outermost
        <3>4. ASSUME NEW h \in guards'[k] PROVE enabled[k][h] <=> Outermost(k, h)'
            BY <3>1, <3>2 DEF Outermost
        <3> QED BY <2>1, <3>1, <3>3, <3>4 DEF GuardsOK
    <2>2. CASE j # k
        BY <2>2 DEF Inductive, TypeOK, GuardsOK, Inner, Outermost, Release
    <2> QED BY <2>1, <2>2
<1> QED
    BY <1>1, <1>2, <1>3, <1>4, <1>5, <1>6 DEF Inductive

\* sti comes only after the outermost guard of a thread.
LEMMA StiStep ==
    ASSUME Inductive, NEW k \in Ctx, Sti(k)
    PROVE  Inductive'
<1>1. TypeOK'
    BY Contexts, SpinlockAssumption DEF Inductive, TypeOK, Sti
<1>2. FlagExact'
    BY DEF Inductive, TypeOK, FlagExact, MutualExclusion, Sti
<1>3. MutualExclusion'
    BY DEF Inductive, TypeOK, FlagExact, MutualExclusion, Sti
<1>4. ASSUME NEW j \in Ctx PROVE MaskOK(j)'
    <2>1. CASE j = k
        BY <2>1, Contexts DEF Inductive, TypeOK, MaskOK, WantOK, GuardsOK, Masked, Running, Levels, Sti
    <2>2. CASE j # k /\ j[1] = k[1]
        <3>1. ~Running(j) /\ ~Running(j)'
            BY <2>2, Contexts DEF Running, Sti
        <3>2. ~Masked(j) /\ pc'[j] = pc[j] /\ guards'[j] = guards[j]
            BY <2>2, <3>1 DEF Inductive, TypeOK, MaskOK, Sti
        <3> QED BY <3>1, <3>2 DEF Inductive, MaskOK, Masked
    <2>3. CASE j[1] # k[1]
        BY <2>3, Contexts DEF Inductive, TypeOK, MaskOK, Masked, Running, Sti
    <2> QED BY <2>1, <2>2, <2>3
<1>5. ASSUME NEW j \in Ctx PROVE WantOK(j)'
    <2>1. CASE j = k
        BY <2>1, Contexts, SpinlockAssumption DEF Inductive, TypeOK, MaskOK, WantOK, GuardsOK, Masked, Running, Inner, Outermost, Levels, Sti
    <2>2. CASE j # k
        BY <2>2 DEF Inductive, TypeOK, WantOK, Inner, Outermost, Sti
    <2> QED BY <2>1, <2>2
<1>6. ASSUME NEW j \in Ctx PROVE GuardsOK(j)'
    <2>1. CASE j = k
        BY <2>1, Contexts, SpinlockAssumption DEF Inductive, TypeOK, MaskOK, WantOK, GuardsOK, Masked, Running, Inner, Outermost, Levels, Sti
    <2>2. CASE j # k
        BY <2>2 DEF Inductive, TypeOK, GuardsOK, Inner, Outermost, Sti
    <2> QED BY <2>1, <2>2
<1> QED
    BY <1>1, <1>2, <1>3, <1>4, <1>5, <1>6 DEF Inductive

\* Interrupts come, and handlers return, with no guard on the CPU.
LEMMA InterruptStep ==
    ASSUME Inductive, NEW c \in CPUs, Interrupt(c) \/ Iretq(c)
    PROVE  Inductive'
<1>1. TypeOK'
    <2>1. <<c, "irq">> \in Ctx
        BY DEF Ctx, Levels
    <2>2. CASE Interrupt(c)
        BY <2>1, <2>2, SpinlockAssumption DEF Inductive, TypeOK, Interrupt, Levels
    <2>3. CASE Iretq(c)
        BY <2>3 DEF Inductive, TypeOK, Iretq, Levels
    <2> QED BY <2>2, <2>3
<1>2. FlagExact' /\ MutualExclusion'
    BY DEF Inductive, FlagExact, MutualExclusion, Interrupt, Iretq
<1>3. ASSUME NEW j \in Ctx PROVE MaskOK(j)'
    <2>1. CASE j[1] # c
        BY Zenon, <2>1, Contexts DEF Inductive, TypeOK, MaskOK, Masked, Running, Interrupt, Iretq
    <2>2. CASE j[1] = c /\ Interrupt(c)
        BY <2>2, Contexts DEF Inductive, TypeOK, MaskOK, Masked, Running, Interrupt, Levels
    <2>3. CASE j[1] = c /\ Iretq(c)
        BY Zenon, <2>3, Contexts DEF Inductive, TypeOK, MaskOK, Masked, Running, Iretq, Levels
    <2> QED BY <2>1, <2>2, <2>3
<1>4. ASSUME NEW j \in Ctx PROVE WantOK(j)' /\ GuardsOK(j)'
    BY DEF Inductive, WantOK, GuardsOK, Inner, Outermost, Interrupt, Iretq
<1> QED
    BY <1>1, <1>2, <1>3, <1>4 DEF Inductive

\* Steps that change nothing.
LEMMA StutterStep ==
    ASSUME Inductive, UNCHANGED vars
    PROVE  Inductive'
<1>1. TypeOK' /\ FlagExact' /\ MutualExclusion'
    BY DEF Inductive, TypeOK, FlagExact, MutualExclusion, vars
<1>2. ASSUME NEW k \in Ctx PROVE MaskOK(k)'
    BY DEF Inductive, MaskOK, Masked, Running, vars
<1>3. ASSUME NEW k \in Ctx PROVE WantOK(k)' /\ GuardsOK(k)'
    BY DEF Inductive, WantOK, GuardsOK, Inner, Outermost, vars
<1> QED
    BY <1>1, <1>2, <1>3 DEF Inductive

\* Every step keeps the invariant.
LEMMA NextInductive == Inductive /\ [Next]_vars => Inductive'
<1> SUFFICES ASSUME Inductive, [Next]_vars PROVE Inductive'
    OBVIOUS
<1>1. ASSUME NEW k \in Ctx, Step(k) PROVE Inductive'
    BY <1>1, ReadFlagsStep, CliStep, AcquireStep, TryFailsStep, ReleaseStep, StiStep DEF Step
<1>2. CASE Finished
    BY <1>2, StutterStep DEF Finished
<1> QED
    BY <1>1, <1>2, InterruptStep, StutterStep DEF Next

\* What follows from it.
LEMMA InductiveGives ==
    Inductive => MutualExclusion /\ MaskedWhileHeld /\ FlagRestored /\ NoSelfDeadlock
<1> SUFFICES ASSUME Inductive PROVE MutualExclusion /\ MaskedWhileHeld /\ FlagRestored /\ NoSelfDeadlock
    OBVIOUS
<1>1. MutualExclusion
    BY DEF Inductive
<1>2. MaskedWhileHeld
    BY DEF Inductive, MaskedWhileHeld, MaskOK, Masked
<1>3. FlagRestored
    BY Zenon, Contexts DEF Inductive, TypeOK, FlagRestored, MaskOK, Masked, Levels
<1>4. NoSelfDeadlock
    <2> SUFFICES ASSUME NEW c \in CPUs, NEW v \in Levels, NEW w \in Levels,
                        Running(<<c, v>>), pc[<<c, v>>] = "cas"
                 PROVE  want[<<c, v>>] \notin guards[<<c, w>>]
        BY DEF NoSelfDeadlock
    <2>1. <<c, v>> \in Ctx /\ <<c, w>> \in Ctx
        BY DEF Ctx
    <2>2. CASE v = w
        <3>1. Inner(<<c, v>>, want[<<c, v>>])
            BY <2>1 DEF Inductive, WantOK
        <3>2. want[<<c, v>>] \in Nat
            BY Zenon, <2>1, SpinlockAssumption DEF Inductive, TypeOK
        <3> QED BY <2>2, <3>1, <3>2 DEF Inner
    <2>3. CASE v # w
        <3>1. ~Running(<<c, w>>)
            BY <2>3 DEF Running
        <3> QED BY <2>1, <3>1 DEF Inductive, MaskOK, Masked
    <2> QED BY <2>2, <2>3
<1> QED
    BY <1>1, <1>2, <1>3, <1>4

\* The spinlocks of sync/mod.rs exclude each other on any number of CPUs, with
\* interrupts at every instruction and locks nested in any depth.
THEOREM Exclusion == Spec => []MutualExclusion
BY InitInductive, NextInductive, InductiveGives, PTL DEF Spec

\* A held guard keeps the interrupts of its CPU masked.
THEOREM Masking == Spec => []MaskedWhileHeld
BY InitInductive, NextInductive, InductiveGives, PTL DEF Spec

\* Dropping the last guard, or a failed try_lock, restores the flag.
THEOREM Restoring == Spec => []FlagRestored
BY InitInductive, NextInductive, InductiveGives, PTL DEF Spec

\* No context spins on a lock held by its own CPU.
THEOREM NoSelfWait == Spec => []NoSelfDeadlock
BY InitInductive, NextInductive, InductiveGives, PTL DEF Spec

\* All of it together, which is what makes a lock safe in threads and handlers.
THEOREM LocksAreSafe == Spec => []LocksSafe
<1>1. LocksSafe <=> MutualExclusion /\ MaskedWhileHeld /\ FlagRestored /\ NoSelfDeadlock
    BY DEF LocksSafe
<1> QED
    BY <1>1, Exclusion, Masking, Restoring, NoSelfWait, PTL
=============================================================================
