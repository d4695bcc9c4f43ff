-------------------------- MODULE FileSystemStore --------------------------
(***************************************************************************)
(* FileSystem seen by its callers.  The volume lock hides the states       *)
(* inside an operation, so what callers can know of the volume is its      *)
(* content when the lock was last free: the history variable shown.  Under *)
(* that mapping FileSystem implements FileStore.                           *)
(***************************************************************************)
EXTENDS FileSystem

CONSTANTS ABSENT, CLOSED, STALE

VARIABLE shown

\* The files of the volume, read the way read_file and list read them.
FileOf(n) ==
    IF Find(n) = {} THEN ABSENT
    ELSE LET e == dir[Min(Find(n))] IN ReadData(e, 0, e.size)

\* What a handle refers to, decided the way opened() decides it.
HandleOf(h) ==
    IF handles[h] = NONE THEN CLOSED
    ELSE IF Opened(h) THEN dir[handles[h].slot].name ELSE STALE

View == [files |-> [n \in Names |-> FileOf(n)],
         open |-> [h \in Handles |-> HandleOf(h)]]

StoreInit == Init /\ shown = View

StoreNext == Next /\ shown' = IF pc' = "idle" THEN View' ELSE shown

StoreSpec == StoreInit /\ [][StoreNext]_<<vars, shown>>

Store == INSTANCE FileStore WITH
    files <- shown.files, open <- shown.open, Unreliable <- FaultCalls # {}

\* Every operation of the volume takes effect on whole files as FileStore
\* says: reads return what was written, gaps read as zeros, a full disk
\* stores a prefix, and a handle stays bound to the file it was opened on.
ImplementsStore == Store!Spec
============================================================================
