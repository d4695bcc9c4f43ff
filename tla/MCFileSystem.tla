---------------------------- MODULE MCFileSystem ----------------------------
(* FileSystemStore for TLC, in two ways chosen by MCInit: on a small volume *)
(* whose transfers may fail in open, write and read and that restarts, and  *)
(* where nothing fails but slots are used again more often.                 *)
EXTENDS FileSystemStore, TLC

VARIABLE part

Fill(b, n) == [i \in 1 .. n |-> b]
MCContents == {Fill(1, 1), Fill(1, 3)}
MCSymmetry == Permutations(Names)

Exact == INSTANCE FileSystemStore WITH MaxGen <- 3, FaultCalls <- {}

MCInit ==
    /\ part \in {"faults", "reliable"}
    /\ IF part = "faults" THEN StoreInit ELSE Exact!StoreInit

MCNext ==
    /\ UNCHANGED part
    /\ IF part = "faults" THEN StoreNext ELSE Exact!StoreNext

MCSpec == MCInit /\ [][MCNext]_<<part, vars, shown>>

\* When no transfer fails, every operation takes effect exactly as FileStore
\* says of a reliable device, also when files are created over others, deleted
\* and formatted away, and chains and entries stay whole.
ExactWhenReliable ==
    [][part = "reliable" => /\ Exact!TypeOK' /\ Exact!ChainsWhole'
                            /\ Exact!Store!Next \/ UNCHANGED <<shown, ret>>]_<<vars, shown>>
=============================================================================
