----------------------------- MODULE FileSystem -----------------------------
(***************************************************************************)
(* The KAGFAT16 volume of fs.rs: an allocation table, a flat root          *)
(* directory and data clusters.  A caller holds FS_LOCK for a whole        *)
(* operation, so operations do not interleave; but an operation is a       *)
(* sequence of transfers, and each transfer may fail or be the last one    *)
(* before the machine stops.  One step is one transfer that writes, with   *)
(* the reads that lead to it.                                              *)
(***************************************************************************)
EXTENDS Integers, Sequences, FiniteSetsExt

CONSTANTS
    Clusters,      \* data clusters of the volume, numbered from 2
    NumSlots,      \* entries of the root directory, 256 in the code
    ClusterSize,   \* bytes in a cluster, 4096 in the code
    Names,
    Handles,
    Contents,      \* the byte sequences callers write
    Offsets,       \* the offsets callers read and write at
    Lengths,       \* the lengths callers read
    APPEND,        \* the offset of a write in append mode
    NONE,          \* no name, no handle
    MaxSize,       \* the largest file size, 2^32 - 1 in the code
    MaxGen,        \* bound: slot generations, 2^32 - 1 in the code
    FaultCalls     \* the calls whose transfers may fail

Slots == 0 .. NumSlots - 1
Calls == {"create", "delete", "open", "write", "read"}

ASSUME SizeAssumption ==
    /\ \E n \in 1 .. 16382 : Clusters = 2 .. n + 1
    /\ NumSlots \in Nat \ {0} /\ ClusterSize \in Nat \ {0}
    /\ MaxSize \in Nat /\ MaxGen \in Nat

ASSUME CallAssumption ==
    /\ APPEND \notin Nat /\ Offsets \subseteq Nat
    /\ NONE \notin Names /\ NONE \notin Handles
    /\ FaultCalls \subseteq Calls

VARIABLES
    \* on the disk
    fat,       \* Clusters -> next cluster, FREE or EOC
    dir,       \* Slots -> directory entry
    data,      \* Clusters -> contents
    \* in memory
    gens,      \* Slots -> generation
    handles,   \* Handles -> FileId held by a descriptor, or NONE
    \* the operation holding the lock
    pc,        \* the transfer it is about to make
    call,      \* its arguments
    slot,      \* the directory slot it works on
    first, prev, cluster, fresh, start, reached, status,
    ret        \* what the last operation returned

disk == <<fat, dir, data>>
locals == <<call, slot, first, prev, cluster, fresh, start, reached, status>>
vars == <<fat, dir, data, gens, handles, pc, locals, ret>>

FREE == 0
EOC == 65535

NoSpace == -5
NotFound == -6
DeviceError == -3

Ok(v) == [code |-> 0, value |-> v]
Err(e) == [code |-> e, value |-> <<>>]

\* The value of ret while an operation holds the lock.
Pending == [code |-> 1, value |-> <<>>]

DataCluster(c) == c >= 2 /\ c < 65520

Zeros == [i \in 1 .. ClusterSize |-> 0]
Unused == [used |-> FALSE, name |-> NONE, first |-> 0, size |-> 0]
Entry(n, f, s) == [used |-> TRUE, name |-> n, first |-> f, size |-> s]
NoCall == [kind |-> "none", name |-> NONE, handle |-> NONE, offset |-> 0,
           input |-> <<>>, truncate |-> FALSE]

----------------------------------------------------------------------------
(* Searching the table and the directory.                                  *)

AnyClusters == {c \in Clusters : fat[c] \in {FREE, EOC}}
FreeClusters == {c \in Clusters : fat[c] = FREE}

\* walk_chain_unlocked: the cluster after n links from f, and DeviceError when
\* the chain ends before.
Walk(f, n) ==
    LET at[i \in 0 .. n] ==
            IF i = 0 THEN f
            ELSE IF DataCluster(at[i - 1]) THEN fat[at[i - 1]] ELSE DeviceError
    IN  at[n]

Find(n) == {s \in Slots : dir[s].used /\ dir[s].name = n}
FreeSlots(d) == {s \in Slots : ~d[s].used}

\* A handle is accepted while its slot keeps the generation it was opened at.
Opened(h) ==
    /\ handles[h] # NONE
    /\ gens[handles[h].slot] = handles[h].gen
    /\ dir[handles[h].slot].used

ClusterAt(e, p) == Walk(e.first, p \div ClusterSize)

\* The bytes of a file from an offset on, following the chain.  Bytes past a
\* chain that ends early are the zeros of the caller's buffer.
ReadData(e, offset, length) ==
    [i \in 1 .. Max({0, Min({length, e.size - offset})}) |->
        LET p == offset + i - 1
            c == ClusterAt(e, p)
        IN  IF DataCluster(c) THEN data[c][(p % ClusterSize) + 1] ELSE 0]

\* read_at_unlocked reports a chain that ends early, read_file_unlocked does not.
ReadAt(e, offset, length) ==
    IF \E i \in DOMAIN ReadData(e, offset, length) :
          ~DataCluster(ClusterAt(e, offset + i - 1))
    THEN Err(DeviceError)
    ELSE Ok(ReadData(e, offset, length))

----------------------------------------------------------------------------
(* One transfer of the current operation: it takes effect and the          *)
(* operation goes on, or it fails with or without having taken effect.     *)

Faulty == call.kind \in FaultCalls

\* The operation ends and the lock is dropped.
Return(r) ==
    /\ pc' = "idle"
    /\ ret' = r
    /\ call' = NoCall
    /\ slot' = 0 /\ first' = 0 /\ prev' = 0 /\ cluster' = 0
    /\ fresh' = FALSE /\ start' = 0 /\ reached' = 0 /\ status' = 0

\* A failed transfer ends every operation except a write, which still
\* updates the directory entry with what it has stored.
Failed(code) ==
    IF call.kind = "write" /\ pc # "entry"
    THEN /\ pc' = "entry"
         /\ status' = code
         /\ UNCHANGED <<call, slot, first, prev, cluster, fresh, start, reached, ret>>
    ELSE Return(Err(code))

TransferFails == Faulty /\ Failed(DeviceError)

WriteFat(c, v) == fat' = [fat EXCEPT ![c] = v] /\ UNCHANGED <<dir, data>>
WriteEntry(s, e) == dir' = [dir EXCEPT ![s] = e] /\ UNCHANGED <<fat, data>>
WriteData(c, d) == data' = [data EXCEPT ![c] = d] /\ UNCHANGED <<fat, dir>>

----------------------------------------------------------------------------
(* The calls.  Each begins with the lookups that precede its first write.  *)

Idle == pc = "idle"

\* The locals at the start of an operation that will write.
Begin(k, s, f, p, c) ==
    /\ call' = k
    /\ slot' = s
    /\ first' = f
    /\ prev' = p
    /\ cluster' = c
    /\ fresh' = FALSE
    /\ status' = IF c = DeviceError THEN DeviceError ELSE 0
    /\ ret' = Pending
    /\ UNCHANGED <<disk, gens, handles>>

Answer(r) ==
    /\ ret' = r
    /\ UNCHANGED <<disk, gens, handles, pc, locals>>

\* Where create goes once it has its slot.
CreateLoop(at, input) == IF at < Len(input) THEN "alloc" ELSE "entry"

Create(n, input) ==
    LET k == [NoCall EXCEPT !.kind = "create", !.name = n, !.input = input]
    IN  /\ Idle
        /\ \/ \E s \in Find(n) :
                 /\ gens[s] < MaxGen
                 /\ Begin(k, s, 0, 0, dir[s].first)
                 /\ pc' = IF DataCluster(dir[s].first) THEN "free" ELSE "clear"
                 /\ start' = 0 /\ reached' = 0
           \/ /\ Find(n) = {} /\ FreeSlots(dir) # {}
              /\ Begin(k, Min(FreeSlots(dir)), 0, 0, 0)
              /\ pc' = CreateLoop(0, input)
              /\ start' = 0 /\ reached' = 0
           \/ Find(n) = {} /\ FreeSlots(dir) = {} /\ Answer(Err(NoSpace))

Delete(n) ==
    /\ Idle
    /\ \/ \E s \in Find(n) :
             /\ gens[s] < MaxGen
             /\ Begin([NoCall EXCEPT !.kind = "delete", !.name = n],
                      s, 0, 0, dir[s].first)
             /\ pc' = IF DataCluster(dir[s].first) THEN "free" ELSE "clear"
             /\ start' = 0 /\ reached' = 0
       \/ Find(n) = {} /\ Answer(Err(NotFound))

\* The FileId a descriptor keeps; its name is there for the properties only.
OpenResult(h, s, n) ==
    handles' = [handles EXCEPT ![h] = [slot |-> s, gen |-> gens[s], name |-> n]]

Open(n, h, create, truncate) ==
    LET k == [NoCall EXCEPT !.kind = "open", !.name = n, !.handle = h,
                            !.truncate = truncate]
    IN  /\ Idle
        /\ \/ \E s \in Find(n) :
                 IF truncate /\ (dir[s].first # 0 \/ dir[s].size # 0)
                 THEN /\ Begin(k, s, 0, 0, dir[s].first)
                      /\ pc' = "truncate"
                      /\ start' = 0 /\ reached' = 0
                 ELSE /\ OpenResult(h, s, n)
                      /\ ret' = Ok(<<>>)
                      /\ UNCHANGED <<disk, gens, pc, locals>>
           \/ /\ Find(n) = {} /\ create /\ FreeSlots(dir) # {}
              /\ Begin(k, Min(FreeSlots(dir)), 0, 0, 0)
              /\ pc' = "entry"
              /\ start' = 0 /\ reached' = 0
           \/ /\ Find(n) = {} /\ ~(create /\ FreeSlots(dir) # {})
              /\ Answer(Err(IF create THEN NoSpace ELSE NotFound))

\* write_at_unlocked up to its first transfer.
Write(h, o, input) ==
    /\ Idle /\ handles[h] # NONE
    /\ \/ ~Opened(h) /\ Answer(Err(NotFound))
       \/ /\ Opened(h)
          /\ LET s == handles[h].slot
                 e == dir[s]
                 offset == IF o = APPEND THEN e.size ELSE o
                 from == Min({offset, e.size})
                 at == from - (from % ClusterSize)
                 c == Walk(e.first, at \div ClusterSize)
             IN  IF input = <<>> THEN Answer(Ok(<<0>>))
                 ELSE IF offset + Len(input) > MaxSize THEN Answer(Err(NoSpace))
                 ELSE /\ Begin([NoCall EXCEPT !.kind = "write", !.handle = h,
                                   !.offset = offset, !.input = input],
                               s, e.first,
                               IF at = 0 THEN 0
                               ELSE Walk(e.first, (at \div ClusterSize) - 1), c)
                      /\ pc' = IF c = DeviceError THEN "entry"
                               ELSE IF DataCluster(c) THEN "data" ELSE "alloc"
                      /\ start' = at
                      /\ reached' = from

\* The operations that only read.  A failed read returns the error.
Read(h, o, length) ==
    /\ Idle /\ handles[h] # NONE
    /\ \/ Answer(IF Opened(h) THEN ReadAt(dir[handles[h].slot], o, length)
                 ELSE Err(NotFound))
       \/ Opened(h) /\ "read" \in FaultCalls /\ Answer(Err(DeviceError))

ReadFile(n) ==
    /\ Idle
    /\ \/ \E s \in Find(n) : Answer(Ok(ReadData(dir[s], 0, dir[s].size)))
       \/ Find(n) = {} /\ Answer(Err(NotFound))
       \/ "read" \in FaultCalls /\ Answer(Err(DeviceError))

Format ==
    /\ Idle /\ \A s \in Slots : gens[s] < MaxGen
    /\ Begin([NoCall EXCEPT !.kind = "format"], 0, 0, 0, 0)
    /\ pc' = "table"
    /\ start' = 0 /\ reached' = 0

\* A descriptor is closed; the volume does not notice.
Close(h) ==
    /\ Idle /\ handles[h] # NONE
    /\ handles' = [handles EXCEPT ![h] = NONE]
    /\ UNCHANGED <<disk, gens, pc, locals, ret>>

----------------------------------------------------------------------------
(* The transfers.                                                          *)

\* free_cluster_chain_unlocked, one link at a time.
FreeCluster ==
    /\ pc = "free"
    /\ \/ /\ WriteFat(cluster, FREE)
          /\ IF DataCluster(fat[cluster])
             THEN /\ cluster' = fat[cluster]
                  /\ UNCHANGED <<pc, call, slot, first, prev, fresh, start,
                                 reached, status, handles, ret>>
             ELSE IF call.kind = "open"
             THEN OpenResult(call.handle, slot, call.name) /\ Return(Ok(<<>>))
             ELSE /\ pc' = "clear"
                  /\ UNCHANGED <<locals, handles, ret>>
       \/ /\ TransferFails
          /\ UNCHANGED disk \/ WriteFat(cluster, FREE)
          /\ UNCHANGED handles
    /\ UNCHANGED gens

\* retire_slot_unlocked
RetiredNever(s) == gens
Retired(s) == [gens EXCEPT ![s] = IF @ = MaxGen THEN 0 ELSE @ + 1]

\* write_dir_entry_unlocked of an empty entry, which retires the handles of
\* the slot before the transfer.  create then takes the first free slot, which
\* need not be this one.
ClearEntry ==
    /\ pc = "clear"
    /\ gens' = Retired(slot)
    /\ \/ /\ WriteEntry(slot, Unused)
          /\ IF call.kind = "delete" THEN Return(Ok(<<>>))
             ELSE /\ slot' = Min(FreeSlots(dir'))
                  /\ pc' = CreateLoop(0, call.input)
                  /\ UNCHANGED <<call, first, prev, cluster, fresh, start,
                                 reached, status, ret>>
       \/ /\ TransferFails
          /\ UNCHANGED disk \/ WriteEntry(slot, Unused)
    /\ UNCHANGED handles

\* alloc_cluster_unlocked takes the first free cluster and marks it as a chain of
\* one; the first cluster of a file is remembered for its directory entry.
Allocate ==
    /\ pc = "alloc"
    /\ \/ /\ FreeClusters # {}
          /\ LET c == Min(FreeClusters) IN
             \/ /\ WriteFat(c, EOC)
                /\ cluster' = c
                /\ fresh' = TRUE
                /\ first' = IF prev = 0 THEN c ELSE first
                /\ pc' = IF prev = 0 THEN "data" ELSE "link"
                /\ UNCHANGED <<call, slot, prev, start, reached, status, ret>>
             \/ /\ TransferFails
                /\ UNCHANGED disk \/ WriteFat(c, EOC)
       \/ FreeClusters = {} /\ Failed(NoSpace) /\ UNCHANGED disk
    /\ UNCHANGED <<gens, handles>>

Link ==
    /\ pc = "link"
    /\ \/ /\ WriteFat(prev, cluster)
          /\ pc' = "data"
          /\ UNCHANGED <<locals, ret>>
       \/ /\ TransferFails
          /\ UNCHANGED disk \/ WriteFat(prev, cluster)
    /\ UNCHANGED <<gens, handles>>

\* The same without clearing anything.
StoredOverGap ==
    LET end == call.offset + Len(call.input)
    IN  [i \in 1 .. ClusterSize |->
            LET p == start + i - 1
            IN  IF p >= call.offset /\ p < end THEN call.input[p - call.offset + 1]
                ELSE data[cluster][i]]

\* The bytes write_at_unlocked puts in the cluster at start: what was there (or
\* zeros in a fresh cluster), zeros from the old end of the file up to the
\* offset, and the part of the input that falls in the cluster.
Stored ==
    LET size == dir[slot].size
        offset == call.offset
        end == offset + Len(call.input)
    IN  [i \in 1 .. ClusterSize |->
            LET p == start + i - 1
            IN  IF p >= offset /\ p < end THEN call.input[p - offset + 1]
                ELSE IF p >= size /\ p < offset THEN 0
                ELSE IF fresh THEN 0 ELSE data[cluster][i]]

Piece ==
    [i \in 1 .. ClusterSize |->
        IF start + i <= Len(call.input) THEN call.input[start + i] ELSE 0]

StoreCreated ==
    /\ pc = "data" /\ call.kind = "create"
    /\ \/ /\ WriteData(cluster, Piece)
          /\ prev' = cluster
          /\ start' = Min({start + ClusterSize, Len(call.input)})
          /\ pc' = CreateLoop(start', call.input)
          /\ UNCHANGED <<call, slot, first, cluster, fresh, reached, status, ret>>
       \/ /\ TransferFails
          /\ UNCHANGED disk \/ WriteData(cluster, Piece)
    /\ UNCHANGED <<gens, handles>>

StoreWritten ==
    LET clusterEnd == start + ClusterSize
        end == call.offset + Len(call.input)
    IN  /\ pc = "data" /\ call.kind = "write"
        /\ \/ /\ WriteData(cluster, Stored)
              /\ reached' = Max({Min({end, clusterEnd}),
                                 Min({call.offset, clusterEnd})})
              /\ IF clusterEnd >= end
                 THEN /\ pc' = "entry"
                      /\ UNCHANGED <<prev, cluster, fresh, start>>
                 ELSE /\ start' = clusterEnd
                      /\ prev' = cluster
                      /\ cluster' = fat[cluster]
                      /\ fresh' = FALSE
                      /\ pc' = IF DataCluster(fat[cluster]) THEN "data" ELSE "alloc"
              /\ UNCHANGED <<call, slot, first, status, ret>>
           \/ /\ TransferFails
              /\ UNCHANGED disk \/ WriteData(cluster, Stored)
        /\ UNCHANGED <<gens, handles>>

EntryCreated ==
    /\ pc = "entry" /\ call.kind = "create"
    /\ LET e == Entry(call.name, first, Len(call.input)) IN
       \/ WriteEntry(slot, e) /\ Return(Ok(<<>>))
       \/ TransferFails /\ (UNCHANGED disk \/ WriteEntry(slot, e))
    /\ UNCHANGED <<gens, handles>>

EntryOpened ==
    /\ pc = "entry" /\ call.kind = "open"
    /\ \/ /\ WriteEntry(slot, Entry(call.name, 0, 0))
          /\ OpenResult(call.handle, slot, call.name)
          /\ Return(Ok(<<>>))
       \/ /\ TransferFails
          /\ UNCHANGED disk \/ WriteEntry(slot, Entry(call.name, 0, 0))
          /\ UNCHANGED handles
    /\ UNCHANGED gens

\* write_at records the size it reached even when a transfer failed, and
\* reports a short write rather than the error.
Written == IF reached > call.offset THEN reached - call.offset ELSE 0

EntryWritten ==
    LET e == Entry(dir[slot].name, first,
                   IF Written > 0 THEN Max({dir[slot].size, reached})
                   ELSE dir[slot].size)
    IN  /\ pc = "entry" /\ call.kind = "write"
        /\ \/ /\ WriteEntry(slot, e)
              /\ Return(IF status = 0 THEN Ok(<<Len(call.input)>>)
                        ELSE IF Written > 0 THEN Ok(<<Written>>)
                        ELSE Err(status))
           \/ /\ TransferFails
              /\ UNCHANGED disk \/ WriteEntry(slot, e)
        /\ UNCHANGED <<gens, handles>>

\* open with O_TRUNC empties the entry first and frees the chain after.
Truncate ==
    LET e == Entry(call.name, 0, 0)
    IN  /\ pc = "truncate"
        /\ \/ /\ WriteEntry(slot, e)
              /\ IF DataCluster(cluster)
                 THEN pc' = "free" /\ UNCHANGED <<locals, handles, ret>>
                 ELSE OpenResult(call.handle, slot, call.name) /\ Return(Ok(<<>>))
           \/ /\ TransferFails
              /\ UNCHANGED disk \/ WriteEntry(slot, e)
              /\ UNCHANGED handles
        /\ UNCHANGED gens

\* format clears the table, retires every handle and clears the directory.
FormatTable ==
    /\ pc = "table"
    /\ fat' = [c \in Clusters |-> FREE]
    /\ gens' = [s \in Slots |-> Retired(s)[s]]
    /\ pc' = "root"
    /\ UNCHANGED <<dir, data, handles, locals, ret>>

FormatRoot ==
    /\ pc = "root"
    /\ dir' = [s \in Slots |-> Unused]
    /\ Return(Ok(<<>>))
    /\ UNCHANGED <<fat, data, gens, handles>>

\* The machine stops and the volume is mounted again: the disk is what the
\* transfers made so far have left, the memory is new.
Reboot ==
    /\ FaultCalls # {}
    /\ pc = "idle" \/ Faulty
    /\ Return(Ok(<<>>))
    /\ gens' = [s \in Slots |-> 0]
    /\ handles' = [h \in Handles |-> NONE]
    /\ UNCHANGED disk

----------------------------------------------------------------------------

Init ==
    /\ fat = [c \in Clusters |-> FREE]
    /\ dir = [s \in Slots |-> Unused]
    /\ data = [c \in Clusters |-> Zeros]
    /\ gens = [s \in Slots |-> 1]
    /\ handles = [h \in Handles |-> NONE]
    /\ pc = "idle"
    /\ call = NoCall
    /\ slot = 0 /\ first = 0 /\ prev = 0 /\ cluster = 0
    /\ fresh = FALSE /\ start = 0 /\ reached = 0 /\ status = 0
    /\ ret = Ok(<<>>)

Request ==
    \/ \E n \in Names :
          \/ \E c \in Contents : Create(n, c)
          \/ Delete(n)
          \/ ReadFile(n)
          \/ \E h \in Handles, create, truncate \in BOOLEAN :
                Open(n, h, create, truncate)
    \/ \E h \in Handles :
          \/ \E o \in Offsets \cup {APPEND}, c \in Contents : Write(h, o, c)
          \/ \E o \in Offsets, k \in Lengths : Read(h, o, k)
          \/ Close(h)
    \/ Format

Transfer ==
    \/ FreeCluster \/ ClearEntry \/ Allocate \/ Link
    \/ StoreCreated \/ StoreWritten
    \/ EntryCreated \/ EntryOpened \/ EntryWritten
    \/ Truncate \/ FormatTable \/ FormatRoot

Next == Request \/ Transfer \/ Reboot

Spec == Init /\ [][Next]_vars

----------------------------------------------------------------------------
(* The clusters of a volume between operations.                            *)

TypeOK ==
    /\ fat \in [Clusters -> Clusters \cup {FREE, EOC}]
    /\ data \in [Clusters -> [1 .. ClusterSize -> Nat]]
    /\ \A s \in Slots :
          /\ dir[s].name \in Names \cup {NONE}
          /\ dir[s].first \in Clusters \cup {0}
          /\ dir[s].size \in 0 .. MaxSize
    /\ gens \in [Slots -> 0 .. MaxGen]

\* What points at a cluster: links of the table and entries of the directory.
Links(c) == {x \in Clusters : fat[x] = c}
Owners(c) == {s \in Slots : dir[s].used /\ dir[s].first = c}

\* A volume no operation is working on: every cluster that something points
\* at is allocated and nothing else points at it, so two files, or two places
\* of one file, never share a cluster and no chain has a loop that a file
\* enters.
NoSharedCluster ==
    pc = "idle" =>
        \A c \in Clusters :
            /\ Cardinality(Links(c)) + Cardinality(Owners(c)) <= 1
            /\ Links(c) \cup Owners(c) # {} => fat[c] # FREE

\* A directory entry of a file has clusters for every byte of its size, so
\* read_at never meets the end of a chain inside a file.
EntriesIntact ==
    pc = "idle" =>
        \A s \in Slots : dir[s].used =>
            \A p \in 0 .. dir[s].size - 1 : DataCluster(ClusterAt(dir[s], p))

\* Files and the clusters they are made of: each cluster belongs to one place
\* of one file, and no file is shorter than its entry says.
ChainsWhole == NoSharedCluster /\ EntriesIntact

\* Whatever fails and whenever the machine stops, a name is in one slot, and a
\* handle that is accepted is for the name it was opened with: a slot taken by
\* another file has another generation.
HandlesNameTheirFile ==
    /\ \A s \in Slots : dir[s].used => Find(dir[s].name) = {s}
    /\ \A h \in Handles : handles[h] # NONE /\ Opened(h) =>
          dir[handles[h].slot].name = handles[h].name

============================================================================
