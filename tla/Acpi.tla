-------------------------------- MODULE Acpi --------------------------------
(***************************************************************************)
(* Finding, mapping and reading the ACPI tables at boot.  The firmware's   *)
(* layout is data: addresses count units of memory, and a table is its     *)
(* signature and length, with the addresses a root table lists or the      *)
(* entries of a MADT.  Every access is recorded against the pages mapped   *)
(* at that moment.                                                         *)
(***************************************************************************)
EXTENDS Integers, Sequences, SequencesExt, FiniteSetsExt

CONSTANTS
    Layouts,        \* what firmware may have left in memory
    PageSize,
    RsdpLen,        \* [v1, v2] -> size of the RSDP
    HeaderLen,      \* size of SdtHeader
    TableLen,       \* signature -> size of the fixed part that is read of the table
    EntryLen,       \* type -> size of the structure that is read of a MADT entry
    Junk,           \* what may lie in memory behind an entry
    MaxIds          \* length of MadtInfo::apic_ids

VARIABLES
    fw,         \* the layout of this machine
    pc,
    mapped,     \* pages mapped
    root,       \* address of the XSDT or RSDT taken, or 0
    found,      \* signature -> table kept in AcpiTables, or 0
    todo,       \* tables still to be mapped
    bad,        \* pc values at which an unmapped page was read
    past,       \* signatures of tables read past their end
    cur, i, info    \* parse_madt: offset, entry and MadtInfo

vars == <<fw, pc, mapped, root, found, todo, bad, past, cur, i, info>>
parse == <<cur, i, info>>

\* What the instances choose the constants to satisfy.
AcpiAssumption ==
    /\ PageSize > 0 /\ HeaderLen > 0 /\ MaxIds > 0
    /\ \A l \in Layouts : \A a \in DOMAIN l.tables : l.tables[a].len >= HeaderLen

Signatures == {"APIC", "FACP", "HPET", "MCFG"}
NoInfo == [lapic |-> 0, ids |-> <<>>, ioapic |-> 0]

Init ==
    /\ fw \in Layouts
    /\ mapped = fw.premapped        \* by init_paging, after the memory map
    /\ pc = "validate" /\ root = 0 /\ found = [s \in Signatures |-> 0]
    /\ todo = <<>> /\ bad = {} /\ past = {}
    /\ cur = 0 /\ i = 1 /\ info = NoInfo

----------------------------------------------------------------------------
PagesOf(a, len) == (a \div PageSize) .. ((a + len - 1) \div PageSize)

\* The next step after reading these regions; an unmapped page is a fault.
Reading(regions, next) ==
    IF \A r \in regions : PagesOf(r[1], r[2]) \subseteq mapped
    THEN pc' = next /\ UNCHANGED bad
    ELSE pc' = "fault" /\ bad' = bad \cup {pc}

\* map_region: whole pages from the one of base on.
Region(base, len) == (base \div PageSize) .. (((base + len + PageSize - 1) \div PageSize) - 1)

\* rsdp_from_address, if the firmware named an RSDP: main panics when the
\* checksum is wrong.
Validate ==
    /\ pc = "validate"
    /\ IF fw.rsdp = 0 THEN pc' = "done" /\ UNCHANGED bad
       ELSE Reading({<<fw.rsdp, RsdpLen.v1>>}, IF fw.valid THEN "index" ELSE "panic")
    /\ UNCHANGED <<fw, mapped, root, found, todo, past, parse>>

\* The root table: the XSDT of a version 2 RSDP, else the RSDT, if any.
Root == IF fw.rev >= 2 /\ fw.xsdt # 0 THEN fw.xsdt ELSE fw.rsdt
EntrySize(a) == IF a = fw.xsdt THEN 2 ELSE 1
Children(a) == SubSeq(fw.tables[a].kids, 1, (fw.tables[a].len - HeaderLen) \div EntrySize(a))

RsdpSize == IF fw.rev >= 2 THEN RsdpLen.v2 ELSE RsdpLen.v1

\* AcpiTables::from_rsdp walks the root table and looks at every signature.
FromRsdp ==
    /\ pc = "index" /\ root' = Root
    /\ IF Root = 0 THEN Reading({<<fw.rsdp, RsdpSize>>}, "rsdp") /\ UNCHANGED found
       ELSE /\ Reading({<<fw.rsdp, RsdpSize>>, <<Root, fw.tables[Root].len>>} \cup {<<a, HeaderLen>> : a \in ToSet(Children(Root))}, "rsdp")
            /\ found' = [s \in Signatures |->
                 LET same == SelectSeq(Children(Root), LAMBDA a : fw.tables[a].sig = s)
                 IN  IF same = <<>> THEN 0 ELSE Last(same)]
    /\ UNCHANGED <<fw, mapped, todo, past, parse>>

\* map_acpi_tables: the RSDP, then header and rest of the root and its children.
MapRsdp ==
    /\ pc = "rsdp" /\ Reading({<<fw.rsdp, RsdpLen.v1>>}, "header")
    /\ mapped' = mapped \cup Region(fw.rsdp, RsdpSize)
    /\ todo' = IF root = 0 THEN <<>> ELSE <<root>>
    /\ UNCHANGED <<fw, root, found, past, parse>>

MapHeader ==
    /\ pc = "header" /\ todo # <<>>
    /\ mapped' = mapped \cup Region(Head(todo), HeaderLen)
    /\ pc' = "rest"
    /\ UNCHANGED <<fw, root, found, todo, bad, past, parse>>

Rest(a) == IF fw.tables[a].len > HeaderLen THEN Region(a, fw.tables[a].len) ELSE {}
MapRest ==
    /\ pc = "rest"
    /\ LET a == Head(todo) IN
         /\ Reading({<<a, HeaderLen>>}, "header")
         /\ mapped' = mapped \cup Rest(a)
         /\ todo' = IF a = root THEN Children(root) ELSE Tail(todo)
    /\ UNCHANGED <<fw, root, found, past, parse>>

\* dump_tables reads the MADT's own header, the DSDT's address in the FADT and
\* the block's address in the HPET table whatever the length of the table; of
\* the MCFG only the allocations within its length.
ReadLen(s) == IF s = "MCFG" THEN fw.tables[found[s]].len ELSE TableLen[s]
Present == {s \in Signatures : found[s] # 0}
Dump ==
    /\ pc = "header" /\ todo = <<>>
    /\ Reading({<<found[s], ReadLen(s)>> : s \in Present}, IF found["APIC"] = 0 THEN "done" ELSE "madt")
    /\ past' = {s \in Present : ReadLen(s) > fw.tables[found[s]].len}
    /\ cur' = TableLen["APIC"] /\ info' = [info EXCEPT !.lapic = fw.lapic] /\ UNCHANGED i
    /\ UNCHANGED <<fw, mapped, root, found, todo>>

----------------------------------------------------------------------------
(* parse_madt, one entry at a time.                                        *)

Madt == fw.tables[found["APIC"]]
EntryHeaderLen == 2
Fits == cur + EntryHeaderLen <= Madt.len
Malformed(e) == e.len < 2 \/ cur + e.len > Madt.len

HasRoom(ids) == Len(ids) < MaxIds
FirstIoApic(e) == IF info.ioapic = 0 THEN [info EXCEPT !.ioapic = e.value] ELSE info
Taken(e) ==
    CASE e.type = "LocalApic" /\ e.enabled /\ HasRoom(info.ids) -> [info EXCEPT !.ids = Append(@, e.value)]
      [] e.type = "IoApic" -> FirstIoApic(e)
      [] e.type = "LocalApicAddressOverride" -> [info EXCEPT !.lapic = e.value]
      [] OTHER -> info

\* The structure of the entry's type is read whole, even when the entry's own
\* length is less: then its fields are whatever follows in memory.
Size(e) == IF e.type = "IoApic" /\ info.ioapic # 0 THEN EntryHeaderLen ELSE EntryLen[e.type]
AsRead(e) ==
    IF e.len >= EntryLen[e.type] THEN {e}
    ELSE {[e EXCEPT !.value = v, !.enabled = on] : v \in Junk, on \in BOOLEAN}
ParseEntry ==
    /\ pc = "madt" /\ Fits /\ ~Malformed(Madt.entries[i])
    /\ LET e == Madt.entries[i] IN
         /\ \E r \in AsRead(e) : info' = Taken(r)
         /\ cur' = cur + e.len /\ i' = (IF e.len = 0 THEN i ELSE i + 1)
         /\ Reading({<<found["APIC"] + cur, Size(e)>>}, "madt")
         /\ past' = IF cur + Size(e) > Madt.len THEN past \cup {"APIC"} ELSE past
    /\ UNCHANGED <<fw, mapped, root, found, todo>>

ParseEnd ==
    /\ pc = "madt" /\ (Fits => Malformed(Madt.entries[i]))
    /\ pc' = "done"
    /\ UNCHANGED <<fw, mapped, root, found, todo, bad, past, parse>>

Stopped == pc \in {"done", "panic", "fault"} /\ UNCHANGED vars
Next == Validate \/ FromRsdp \/ MapRsdp \/ MapHeader \/ MapRest \/ Dump \/ ParseEntry \/ ParseEnd \/ Stopped
Spec == Init /\ [][Next]_vars

----------------------------------------------------------------------------
TypeOK == /\ pc \in {"validate", "index", "rsdp", "header", "rest", "madt", "done", "panic", "fault"}
          /\ Len(info.ids) <= MaxIds

\* The entries that lie wholly within the table's length
Ends == [k \in 1 .. Len(Madt.entries) |->
            TableLen["APIC"] + FoldLeft(LAMBDA n, e : n + e.len, 0, SubSeq(Madt.entries, 1, k))]
Whole == SubSeq(Madt.entries, 1,
                Max({0} \cup {k \in DOMAIN Ends : \A j \in 1 .. k : Ends[j] <= Madt.len /\ Madt.entries[j].len >= 2}))

\* Firmware made the table, or one of its entries, shorter than what ACPI
\* prescribes for it.
ShortEntry == \E k \in DOMAIN Whole : Whole[k].len < EntryLen[Whole[k].type]
Short(s) == fw.tables[found[s]].len < TableLen[s] \/ (s = "APIC" /\ ShortEntry)

\* A table is read past the length its header gives only if it is short.
WithinTable == \A s \in past : s # "MCFG" /\ Short(s)

\* No page is read that is not mapped, except behind the end of such a table.
\* When init_paging has mapped the root table and the headers, the rest of
\* each table is mapped, to its last byte, before it is read, wherever it
\* lies and however long it is.
MappedFirst == bad # {} => past # {}

\* parse_madt finds what a table without short entries says: the enabled
\* processors in its order up to its limit, the first I/O APIC and the last
\* override.
ValuesOf(type) == LET es == SelectSeq(Whole, LAMBDA e : e.type = type /\ e.enabled)
                  IN  [k \in DOMAIN es |-> es[k].value]
MadtExact ==
    pc = "done" /\ found["APIC"] # 0 /\ ~Short("APIC") =>
        /\ info.ids = SubSeq(ValuesOf("LocalApic"), 1, Min({MaxIds, Len(ValuesOf("LocalApic"))}))
        /\ info.ioapic = IF ValuesOf("IoApic") = <<>> THEN 0 ELSE ValuesOf("IoApic")[1]
        /\ info.lapic = IF ValuesOf("LocalApicAddressOverride") = <<>> THEN fw.lapic
                        ELSE Last(ValuesOf("LocalApicAddressOverride"))

=============================================================================
