-------------------------------- MODULE Dns --------------------------------
(***************************************************************************)
(* The kernel's DNS client: sys_dns_resolve, the one result slot and the   *)
(* one wait key that all callers share, and CPUs that process answers.     *)
(* Every query carries the same port and identifier, so an answer to any   *)
(* query ever sent is taken; the network loses, repeats and delays them.   *)
(***************************************************************************)
EXTENDS Integers

CONSTANTS Threads, CPUs, Names

None == "none"

VARIABLES
    slot,       \* DNS_RESULT: the name the stored address belongs to
    asked,      \* names queried so far
    call,       \* [Threads -> the call it is in]
    woken,      \* threads whose generation has changed since they read it
    waking,     \* CPUs about to wake the waiters
    result      \* [Threads -> last result]

vars == <<slot, asked, call, woken, waking, result>>

Idle == [at |-> "idle", name |-> None]
NoResult == [name |-> None, answer |-> None, timeout |-> FALSE]

Init ==
    /\ slot = None /\ asked = {}
    /\ call = [t \in Threads |-> Idle]
    /\ woken = {} /\ waking = {}
    /\ result = [t \in Threads |-> NoResult]

At(t, pc) == call[t].at = pc
Goto(t, pc) == call' = [call EXCEPT ![t].at = pc]
Return(t, answer, timeout) ==
    /\ call' = [call EXCEPT ![t] = Idle]
    /\ result' = [result EXCEPT ![t] = [name |-> call[t].name, answer |-> answer,
                                        timeout |-> timeout]]

----------------------------------------------------------------------------
(* send_query empties the slot before it transmits; transmit_ipv4 may      *)
(* block for the server's hardware address, and may fail.                  *)

SendQuery(t, name) ==
    /\ At(t, "idle")
    /\ slot' = None
    /\ call' = [call EXCEPT ![t] = [at |-> "sending", name |-> name]]
    /\ result' = [result EXCEPT ![t] = NoResult]
    /\ UNCHANGED <<asked, woken, waking>>

Transmit(t, sent) ==
    /\ At(t, "sending")
    /\ IF sent THEN /\ asked' = asked \cup {call[t].name}
                    /\ Goto(t, "sent") /\ UNCHANGED result
               ELSE Return(t, None, TRUE) /\ UNCHANGED asked
    /\ UNCHANGED <<slot, woken, waking>>

\* The generation is read before the slot is looked at.
Snapshot(t) ==
    /\ At(t, "sent")
    /\ woken' = woken \ {t} /\ Goto(t, "check")
    /\ UNCHANGED <<slot, asked, waking, result>>

Look == slot
Check(t) ==
    /\ At(t, "check")
    /\ IF Look # None THEN Return(t, slot, FALSE) /\ slot' = None
                      ELSE Goto(t, "wait") /\ UNCHANGED <<slot, result>>
    /\ UNCHANGED <<asked, woken, waking>>

Sleeps(t) == t \notin woken
Wait(t) ==
    /\ At(t, "wait")
    /\ Goto(t, IF Sleeps(t) THEN "asleep" ELSE "take")
    /\ UNCHANGED <<slot, asked, woken, waking, result>>

Timeout(t) ==
    /\ At(t, "asleep") /\ Return(t, slot, TRUE) /\ slot' = None
    /\ UNCHANGED <<asked, woken, waking>>

\* Whoever takes the result first empties the slot for all others.
TakeResult(t) ==
    /\ At(t, "take") /\ Return(t, slot, FALSE) /\ slot' = None
    /\ UNCHANGED <<asked, woken, waking>>

----------------------------------------------------------------------------
(* handle_udp: a well-formed answer is stored and the waiters are woken.   *)

HandleUdp(c, name) ==
    /\ c \notin waking /\ name \in asked
    /\ slot' = name /\ waking' = waking \cup {c}
    /\ UNCHANGED <<asked, call, woken, result>>

WakeWaiters(c) ==
    /\ c \in waking
    /\ waking' = waking \ {c}
    /\ woken' = {t \in Threads : ~At(t, "idle")}
    /\ call' = [t \in Threads |-> IF At(t, "asleep") THEN [call[t] EXCEPT !.at = "take"]
                                                    ELSE call[t]]
    /\ UNCHANGED <<slot, asked, result>>

Next ==
    \/ \E t \in Threads : \/ \E name \in Names : SendQuery(t, name)
                          \/ \E sent \in BOOLEAN : Transmit(t, sent)
                          \/ Snapshot(t) \/ Check(t) \/ Wait(t) \/ Timeout(t) \/ TakeResult(t)
    \/ \E c \in CPUs : WakeWaiters(c) \/ \E name \in Names : HandleUdp(c, name)

Spec == Init /\ [][Next]_vars

----------------------------------------------------------------------------
(* Properties.                                                             *)

\* A thread does not sleep while an answer lies in the slot, unless a CPU is
\* about to wake it: the generation is read before the slot, so an answer
\* between the look and the sleep is noticed.
NoLostAnswer ==
    \A t \in Threads : At(t, "asleep") /\ slot # None => waking # {}

\* A call returns whatever the network does.
ResolveReturns == \A t \in Threads : ~At(t, "idle") ~> At(t, "idle")
=============================================================================
