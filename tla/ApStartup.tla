------------------------------ MODULE ApStartup ------------------------------
(***************************************************************************)
(* Bringing up the application processors (APs).  The boot processor       *)
(* calibrates the timer, then for each AP fills its per-CPU slot and the   *)
(* one trampoline page all APs share, sends INIT and two start-up IPIs,    *)
(* and waits a limited time for the online flag in that page.  The APs run *)
(* the trampoline and ap_entry meanwhile.  Last, it routes the network     *)
(* card's interrupt through the I/O APIC.                                  *)
(***************************************************************************)
EXTENDS Integers, Sequences, FiniteSets, FiniteSetsExt

CONSTANTS
    Madt,       \* the APIC ids of the MADT, in its order
    BspId,      \* the one of the boot processor
    MaxAp,      \* MAX_AP_COUNT
    Dead,       \* APs that never start
    Elapsed     \* what the timer may have counted down during calibration

Ids == {Madt[i] : i \in DOMAIN Madt}
Aps == Ids \ {BspId}

\* On a single CPU start_all_aps returns at once.
\* What the instances choose the constants to satisfy.
ApAssumption ==
    /\ Len(Madt) > 1
    /\ Ids \subseteq 0 .. 255 /\ BspId \in Ids /\ Cardinality(Ids) = Len(Madt)
    /\ MaxAp > 0 /\ Dead \subseteq Aps /\ Elapsed \subseteq Nat

VARIABLES
    pc,         \* the boot processor
    at,         \* where it is in the MADT
    apIndex,    \* APs it has tried to start
    timerCount, \* LAPIC_TIMER_10MS_COUNT
    slots,      \* PERCPU_DATA_SLOTS
    tramp,      \* the trampoline page: the online flag and the stack to use
    ap,         \* [Aps -> [pc, stack, cpu, timer, passed]]; passed is history:
                \* where it was when the boot processor went on to the next
    online,     \* AP_ONLINE_COUNT
    redir,      \* the redirection entry of the card's interrupt line
    rxOn        \* the card may interrupt

vars == <<pc, at, apIndex, timerCount, slots, tramp, ap, online, redir, rxOn>>
route == <<redir, rxOn>>

Slots == 0 .. MaxAp
EmptySlot == [apic |-> 0, cpu |-> 0, stack |-> 0]
Target == Madt[at]

Init ==
    /\ pc = "calibrate" /\ at = 1 /\ apIndex = 0 /\ timerCount = 0
    /\ slots = [i \in Slots |-> IF i = 0 THEN [EmptySlot EXCEPT !.apic = BspId] ELSE EmptySlot]
    /\ tramp = [flag |-> 0, rsp |-> 0]
    /\ ap = [a \in Aps |-> [pc |-> "off", stack |-> 0, cpu |-> 0, timer |-> 0, passed |-> "not"]]
    /\ online = 0 /\ rxOn = FALSE
    /\ redir \in {[vector |-> "other", dest |-> d, level |-> FALSE, masked |-> b] : d \in {BspId, 9}, b \in BOOLEAN}

----------------------------------------------------------------------------
(* The boot processor.                                                     *)

\* calibrate_lapic_timer over ten ticks, and LAPIC_TIMER_10MS_COUNT
PerTick(elapsed) == Max({elapsed \div 10, 1})
Calibrate ==
    /\ pc = "calibrate"
    /\ \E elapsed \in Elapsed : timerCount' = PerTick(elapsed)
    /\ pc' = "pick"
    /\ UNCHANGED <<at, apIndex, slots, tramp, ap, online, route>>

Skips == Target = BspId \/ apIndex >= MaxAp

Skip ==
    /\ pc = "pick" /\ at <= Len(Madt) /\ Skips
    /\ at' = at + 1
    /\ UNCHANGED <<pc, apIndex, timerCount, slots, tramp, ap, online, route>>

\* The stack, the slot and write_trampoline_params
Filled(i) == [slots EXCEPT ![i + 1] = [apic |-> Target, cpu |-> i + 1, stack |-> i + 1]]
OneStack(i) == 1
StackTop(i) == i + 1
Prepare ==
    /\ pc = "pick" /\ at <= Len(Madt) /\ ~Skips
    /\ slots' = Filled(apIndex)
    /\ tramp' = [flag |-> 0, rsp |-> StackTop(apIndex)]
    /\ pc' = "init"
    /\ UNCHANGED <<at, apIndex, timerCount, ap, online, route>>

\* start_ap: INIT puts the AP in wait for a start-up IPI, whatever it did.
SendInit ==
    /\ pc = "init" /\ pc' = "sipi1"
    /\ tramp' = [tramp EXCEPT !.flag = 0]
    /\ ap' = [ap EXCEPT ![Target].pc = "reset"]
    /\ UNCHANGED <<at, apIndex, timerCount, slots, online, route>>

\* A start-up IPI starts an AP that waits for one, and no other.
SendSipi ==
    /\ \/ pc = "sipi1" /\ pc' = "sipi2"
       \/ pc = "sipi2" /\ pc' = "await"
    /\ ap' = IF ap[Target].pc = "reset" /\ Target \notin Dead
             THEN [ap EXCEPT ![Target].pc = "trampoline"] ELSE ap
    /\ UNCHANGED <<at, apIndex, timerCount, slots, tramp, online, route>>

\* The loop goes on to the next AP: when the flag is set, or when the wait has
\* been too long, for an AP that is slow as for one that is not there.
NextAp ==
    /\ pc' = "pick" /\ at' = at + 1 /\ apIndex' = apIndex + 1
    /\ ap' = [ap EXCEPT ![Target].passed = ap[Target].pc]
    /\ UNCHANGED <<timerCount, slots, tramp, online, route>>
AwaitFlag == pc = "await" /\ tramp.flag # 0 /\ NextAp
TimeOut == pc = "await" /\ tramp.flag = 0 /\ NextAp

\* main: the card's line is usable and within the I/O APIC, or it stays polled.
AllStarted ==
    /\ pc = "pick" /\ at > Len(Madt)
    /\ pc' \in {"mask", "done"}
    /\ UNCHANGED <<at, apIndex, timerCount, slots, tramp, ap, online, route>>

\* ioapic_route_pci_intx: three register writes, then the card is unmasked.
Wanted == [vector |-> "card", dest |-> BspId, level |-> TRUE, masked |-> FALSE]
FirstLow == [redir EXCEPT !.vector = "card", !.level = TRUE, !.masked = TRUE]
RouteStep(from, to, entry, on) ==
    /\ pc = from /\ pc' = to
    /\ redir' = entry /\ rxOn' = on
    /\ UNCHANGED <<at, apIndex, timerCount, slots, tramp, ap, online>>
WriteMasked == RouteStep("mask", "high", FirstLow, FALSE)
WriteHigh == RouteStep("high", "low", [redir EXCEPT !.dest = BspId], FALSE)
WriteLow == RouteStep("low", "card", [redir EXCEPT !.masked = FALSE], FALSE)
EnableRx == RouteStep("card", "done", redir, TRUE)

----------------------------------------------------------------------------
(* An AP.                                                                  *)

ApOnly == UNCHANGED <<pc, at, apIndex, timerCount, slots, route>>

\* The stub goes to long mode and takes the stack of the page.
Trampoline(a) ==
    /\ ap[a].pc = "trampoline"
    /\ ap' = [ap EXCEPT ![a].pc = "entry", ![a].stack = tramp.rsp]
    /\ UNCHANGED <<tramp, online>> /\ ApOnly

\* ap_entry looks for its slot (an AP without one would park for good) ...
Matches(a) == {i \in Slots : slots[i].apic = a}
FindSlot(a) ==
    /\ ap[a].pc = "entry"
    /\ ap' = [ap EXCEPT ![a] =
                IF Matches(a) = {} THEN [@ EXCEPT !.pc = "parked"]
                ELSE [@ EXCEPT !.pc = "setup", !.cpu = slots[Min(Matches(a))].cpu]]
    /\ UNCHANGED <<tramp, online>> /\ ApOnly

\* ... sets up its tables, GS base, Local APIC, system calls and timer ...
SetUpCpu(a) ==
    /\ ap[a].pc = "setup"
    /\ ap' = [ap EXCEPT ![a].pc = "ready", ![a].timer = timerCount]
    /\ UNCHANGED <<tramp, online>> /\ ApOnly

\* ... and reports, in two steps, before it enters its scheduler loop.
SignalOnline(a) ==
    /\ ap[a].pc = "ready"
    /\ ap' = [ap EXCEPT ![a].pc = "flagged"]
    /\ tramp' = [tramp EXCEPT !.flag = 1]
    /\ UNCHANGED online /\ ApOnly
CountOnline(a) ==
    /\ ap[a].pc = "flagged"
    /\ ap' = [ap EXCEPT ![a].pc = "scheduler"]
    /\ online' = online + 1
    /\ UNCHANGED tramp /\ ApOnly

----------------------------------------------------------------------------
Bsp == \/ Calibrate \/ Skip \/ Prepare \/ SendInit \/ SendSipi \/ AwaitFlag \/ TimeOut
       \/ AllStarted \/ WriteMasked \/ WriteHigh \/ WriteLow \/ EnableRx
Ap(a) == Trampoline(a) \/ FindSlot(a) \/ SetUpCpu(a) \/ SignalOnline(a) \/ CountOnline(a)
Booted == pc = "done" /\ (\A a \in Aps : ap[a].pc \in {"off", "reset", "scheduler"}) /\ UNCHANGED vars
Next == Bsp \/ (\E a \in Aps : Ap(a)) \/ Booted

Spec == Init /\ [][Next]_vars

----------------------------------------------------------------------------
Running == {a \in Aps : ap[a].pc \in {"setup", "ready", "flagged", "scheduler"}}
Up == {a \in Aps : ap[a].pc \in {"flagged", "scheduler"}}

TypeOK ==
    /\ at \in 1 .. Len(Madt) + 1 /\ apIndex \in 0 .. MaxAp
    /\ online \in 0 .. MaxAp /\ tramp.flag \in {0, 1}
    /\ \A a \in Aps : ap[a].stack \in 0 .. MaxAp /\ ap[a].cpu \in Slots

\* All APs read their stack from the same page, and yet each runs on the stack
\* of its own slot, and only it ("Assign a unique stack for this AP"): unless
\* the boot processor went on before the AP had read the page.
Overtaken(a) == ap[a].passed = "trampoline"
OwnStack ==
    /\ \A a \in Running : ap[a].stack = slots[ap[a].cpu].stack \/ Overtaken(a)
    /\ \A a, b \in Aps : a # b /\ ap[a].stack # 0 /\ ap[a].stack = ap[b].stack => Overtaken(a) \/ Overtaken(b)

\* An AP takes the slot that was filled for it, never the boot processor's or
\* one still empty, so that send_ipi reaches the CPU whose index it is given.
SlotMine == \A a \in Aps : /\ ap[a].pc # "parked"
                           /\ a \in Running => ap[a].cpu # 0 /\ slots[ap[a].cpu].apic = a

\* The flag that ends the wait is the one of the AP waited for, or of one the
\* boot processor had given up waiting for.
FlagMine ==
    pc = "await" /\ tramp.flag # 0 =>
        \E a \in Up : a = Target \/ ap[a].passed \notin {"not", "flagged", "scheduler"}

\* An AP that goes to its scheduler loop, which halts, has a running timer.
TimerRuns == \A a \in Up : ap[a].timer # 0

\* "A partially configured route cannot fire": from the first write on, the
\* entry is masked or complete, and the card interrupts only through the latter.
RouteWhole ==
    /\ pc \in {"high", "low", "card"} /\ ~redir.masked => redir = Wanted
    /\ rxOn => redir = Wanted

==============================================================================
