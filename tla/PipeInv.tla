------------------------------ MODULE PipeInv ------------------------------
(***************************************************************************)
(* The inductive invariant behind the safety properties of Pipe and behind *)
(* the fact that it implements PipeChannel.                                *)
(***************************************************************************)
EXTENDS Pipe

Taking == {"clone", "share"}
Looping == {"gen", "ring", "wait", "blocked"}
Dropping == {"close", "lastwake", "release"}

\* Who holds an end, and why the end being cloned cannot go away: the table
\* of the slot it comes from is locked.
EndsInv ==
    /\ \A t \in Threads : end[t] # NONE <=> pc[t] # "idle"
    /\ \A t \in Threads : dest[t] # NONE => /\ pc[t] \in Taking
                                            /\ slot[dest[t]] = NONE
    /\ \A t, u \in Threads : dest[t] # NONE /\ dest[t] = dest[u] => t = u
    /\ \A t \in Threads : pc[t] \in Taking =>
           \E s \in Slots : slot[s] = end[t] /\ table[TableOf[s]] = t

\* What a thread has to show for its call at each place of it.
CallOK(t) ==
    /\ pc[t] = "idle" => result[t] = "ready" /\ out[t] = <<>>
    /\ pc[t] \in Taking => result[t] = IF dest[t] = NONE THEN "busy" ELSE "ready"
    /\ pc[t] \in Taking => out[t] = <<>>
    /\ dest[t] # NONE => want[t] = 0 /\ left[t] = <<>>
    /\ pc[t] \in Looping \cup {"call"} => result[t] = "busy"
    /\ pc[t] = "wake" => result[t] = IF end[t] = "R" THEN "data" ELSE "busy"
    /\ pc[t] \in Dropping => result[t] # "busy"
    /\ end[t] # "R" => want[t] = 0
    /\ end[t] # "W" => left[t] = <<>>
    /\ pc[t] \in Looping => IF end[t] = "R" THEN want[t] > 0 ELSE left[t] # <<>>

CallInv == \A t \in Threads : CallOK(t)

\* The whole invariant.
PipeInvariant ==
    TypeOK /\ EndsInv /\ CallInv /\ EndsCounted /\ NoLostWakeup
============================================================================
