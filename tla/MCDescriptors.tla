--------------------------- MODULE MCDescriptors ---------------------------
(* Pipes and the file descriptor tables for TLC.  Pipe has its own model of *)
(* the table slots its ends are in, so the two share no state, and a        *)
(* property of one of them fails in some behaviour of both exactly when it  *)
(* fails in a behaviour in which only that one moves: MCInit picks the one. *)
(* The tables are checked twice, with pipes and sockets and with disk files.*)
EXTENDS PipeInv, TLC

CONSTANTS r, w, c, Users, Procs, Opened

VARIABLES part, home, fds, lock, call, refcount, dead, size

pipes == <<buf, head, length, readers, writers, refs, slot, table, end, dest,
           want, left, out, result, pc, fresh>>
tables == <<home, fds, lock, call, refcount, dead, size>>

\* A parent's table with the two ends, a child's table that can inherit one.
MCTableOf == (r :> "parent") @@ (w :> "parent") @@ (c :> "child")

Shared == INSTANCE FileTable WITH Threads <- Users, refs <- refcount, Modes <- {},
                                   Objects <- Opened, Stdio <- 1, MaxFds <- 2, MaxOffset <- 0
Files == INSTANCE FileTable WITH Threads <- {"a", "b"}, refs <- refcount, Modes <- {"rw", "a"},
                                 Objects <- {}, Stdio <- 1, MaxFds <- 2, MaxOffset <- 1
ASSUME Shared!StdioAssumption /\ Files!StdioAssumption

NoTables == /\ home = 0 /\ fds = 0 /\ lock = 0 /\ call = 0 /\ refcount = 0
            /\ dead = 0 /\ size = 0

\* To bound the pipe, writes of ascending bytes when no end is inherited, of one
\* kind of byte when one may be.
Ascending == \A t \in Threads : \A i, j \in DOMAIN left[t] : i < j => left[t][i] < left[t][j]
OneByte == \A t \in Threads : \A i \in DOMAIN left[t] : left[t][i] = 0

MCInit ==
    /\ part \in {"ring", "inherit", "objects", "files"}
    /\ Init
    /\ CASE part = "objects" -> Shared!Init [] part = "files" -> Files!Init
         [] OTHER -> NoTables

MCNext ==
    /\ UNCHANGED part
    /\ \/ part = "ring" /\ Next /\ slot'[c] = NONE /\ Ascending' /\ UNCHANGED tables
       \/ part = "inherit" /\ Next /\ OneByte' /\ UNCHANGED tables
       \/ part = "objects" /\ Shared!Next /\ UNCHANGED pipes
       \/ part = "files" /\ Files!Next /\ UNCHANGED pipes

MCSpec == MCInit /\ [][MCNext]_<<part, pipes, tables>>

Symmetry == Permutations(Opened)

\* A pipe end or socket is counted once for every descriptor and every call
\* that refers to it and dropped with the last of them, descriptors are closed
\* when the last thread of a process is gone, and the offset of a descriptor
\* is where it was last set plus what its transfers have moved since, whoever
\* shares, closes, spawns or exits (file.rs).
DescriptorsExact ==
    /\ part = "objects" => /\ Shared!TypeOK /\ Shared!ReferencesExact /\ Shared!NoUseAfterDrop
                           /\ Shared!ClosedAtExit
    /\ part = "files" => Files!TypeOK /\ Files!OffsetCounts
=============================================================================
