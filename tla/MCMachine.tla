----------------------------- MODULE MCMachine -----------------------------
(* Entry to and exit from user mode, the start of the machine and its       *)
(* device drivers for TLC.  They share no state, so a property of one of    *)
(* them fails in some behaviour of all of them exactly when it fails in a   *)
(* behaviour in which only that one moves: MCInit picks the one, and leaves *)
(* the variables of the other devices out of the picture.                   *)
EXTENDS CpuContext, Sequences, SequencesExt, TLC
VARIABLES
    part,
    bspPc, at, apIndex, timerCount, slots, tramp, ap, online, redir, rxOn,
    fw, bootPc, mapped, root, found, todo, bad, past, cur, i, info,
    rdh, rdt, desc, kindOf, seen, cause, enabled, since, rxNext, pending, poll,
    taken, icmp, kept, ping,
    buf, used, dd, txNext, tdt, tdh, done, accepted, sent,
    ring, hc, ev, drv, expected, code, lastSlot, failed, ready, dev, reports, notices,
    held, wire, prev, keys, head, tail, dealt, read, xhciLock, waiters, readerPc,
    moved, bsp, others, kills,
    q, sq, cq, ctl, list, boot, fsLock, ioPc, req, res, wait, serial, moves, got

cpus == <<pc, if, sp, on, gs, kgs, cr3, rsp0, percpu, frame, service, plan, handoff, task, own>>
startup == <<bspPc, at, apIndex, timerCount, slots, tramp, ap, online, redir, rxOn>>
tables == <<fw, bootPc, mapped, root, found, todo, bad, past, cur, i, info>>
receive == <<rdh, rdt, desc, kindOf, seen, cause, enabled, since, rxNext, pending, poll,
             taken, icmp, kept, ping>>
transmit == <<buf, used, dd, txNext, tdt, tdh, done, accepted, sent>>
usb == <<ring, hc, ev, drv, expected, code, lastSlot, failed, ready, dev, reports, notices>>
keyboard == <<held, wire, prev, keys, head, tail, dealt, read, xhciLock, waiters,
              readerPc, moved, bsp, others, kills>>
disk == <<q, sq, cq, ctl, list, boot, fsLock, ioPc, req, res, wait, serial, moves, got>>

----------------------------------------------------------------------------
(* What firmware may have left in memory: tables of a few units, pages of   *)
(* 16.                                                                      *)

Entry(type, value, on1, len) == [type |-> type, value |-> value, enabled |-> on1, len |-> len]
Sizes == [LocalApic |-> 4, IoApic |-> 6, LocalApicAddressOverride |-> 6, Other |-> 2]
FullEntries ==
    {Entry("LocalApic", 1, TRUE, 4), Entry("LocalApic", 2, TRUE, 4), Entry("LocalApic", 3, FALSE, 4),
     Entry("IoApic", 7, TRUE, 6), Entry("IoApic", 8, TRUE, 6), Entry("LocalApicAddressOverride", 9, TRUE, 6),
     Entry("Other", 0, TRUE, 3)}
\* Shorter than their type, and malformed
ShortEntries == {Entry("LocalApic", 4, TRUE, 2), Entry("IoApic", 5, TRUE, 3), Entry("Other", 0, TRUE, 0)}
Entries == FullEntries \cup ShortEntries
SumLen(es) == FoldLeft(LAMBDA n, e : n + e.len, 0, es)
Plain(sig, len) == [sig |-> sig, len |-> len, kids |-> <<>>, entries |-> <<>>]
\* Pages of the RSDP, the roots and every header
Headers(madt) == 1 .. 4 \cup {11, 13} \cup (madt \div 16) .. ((madt + 3) \div 16)
Layout(rev, valid, xsdt, rsdt, madt, es, cut) ==
    [rev |-> rev, valid |-> valid, rsdp |-> 20, xsdt |-> xsdt, rsdt |-> rsdt, lapic |-> 5,
     premapped |-> Headers(madt),
     tables |-> [a \in {40, 60, madt, 188, 220} |->
        CASE a = 40 -> [Plain("XSDT", 10) EXCEPT !.kids = <<madt, 188, 220>>]
          [] a = 60 -> [Plain("RSDT", 7) EXCEPT !.kids = <<madt, 188, 220>>]
          [] a = madt -> [Plain("APIC", 6 + SumLen(es) - cut) EXCEPT !.entries = es]
          [] a = 188 -> Plain("FACP", 12)
          [] a = 220 -> Plain("HPET", 6)]]
\* Every MADT of up to three entries, whole or cut short, in a page and across
Madts == {Layout(2, TRUE, 40, 60, madt, es, cut) :
            madt \in {144, 155}, es \in SeqOf(Entries, 3) \ {<<>>}, cut \in {0, 1}}
\* The roots an RSDP may name, and firmware that names no RSDP
Roots == {Layout(rev, valid, x, r, 144, <<Entry("IoApic", 7, TRUE, 6)>>, 0) :
            rev \in {0, 2}, valid \in BOOLEAN, x \in {0, 40}, r \in {0, 60}}
\* A MADT, a FADT and an HPET table shorter than what is read of them
ShortTables == {[l EXCEPT !.tables[a].len = n] : l \in Roots, a \in {144, 188, 220}, n \in 4 .. 5}
Firmware == {l \in Madts : \A a \in DOMAIN l.tables : l.tables[a].len >= 4}
                  \cup Roots \cup ShortTables \cup {[l EXCEPT !.rsdp = 0] : l \in Roots}

----------------------------------------------------------------------------
\* The boot processor has APIC id 1, so an AP has the id that an empty slot
\* holds.
Startup == INSTANCE ApStartup WITH Madt <- <<1, 2, 0, 3>>, BspId <- 1, MaxAp <- 3, Dead <- {0},
                Elapsed <- {3, 40}, pc <- bspPc
Acpi == INSTANCE Acpi WITH Layouts <- Firmware, PageSize <- 16, RsdpLen <- [v1 |-> 5, v2 |-> 9],
                HeaderLen <- 4, TableLen <- [APIC |-> 6, FACP |-> 12, HPET |-> 6],
                EntryLen <- Sizes, Junk <- {0, 6}, MaxIds <- 2, pc <- bootPc
Rx == INSTANCE NetReceive WITH CPUs <- Cpus, Ring <- 3, Budget <- 1, IcmpCap <- 3,
                Kinds <- {"reply", "other"}, MaxFrames <- 4, SeqSize <- 3, MaxPings <- 1
Tx == INSTANCE E1000Transmit WITH Ring <- 4, MaxFrames <- 30
\* One port in the build with the hardware shell and two in the other
OnePort == INSTANCE Usb WITH Ports <- 1, RingSize <- 5, EventSize <- 4, HardwareShell <- TRUE,
                MaxReports <- 6, MaxNotices <- 3, sent <- reports
TwoPorts == INSTANCE Usb WITH Ports <- 2, RingSize <- 5, EventSize <- 3, HardwareShell <- FALSE,
                MaxReports <- 1, MaxNotices <- 0, sent <- reports
Keyboard == INSTANCE Keyboard WITH Readers <- Cpus, Keys <- {1, 2, 3}, MaxDown <- 2, BufSize <- 3,
                MaxChanges <- 4, MaxOther <- 1, MaxKills <- 1, buf <- keys, taken <- read,
                lock <- xhciLock, pc <- readerPc
Disk == INSTANCE Nvme WITH Tasks <- {"t1", "t2"}, QueueSize <- 3, LbaSize <- 2, PageSize <- 4, ListLen <- 2,
                CountRange <- 8, Buffers <- {16, 17, 18, 19}, Counts <- 0 .. 7, MaxIo <- 7,
                lock <- fsLock, pc <- ioPc, done <- moves

ASSUME /\ Startup!ApAssumption /\ Acpi!AcpiAssumption
       /\ Rx!RingAssumption /\ Rx!IcmpAssumption /\ Tx!RingAssumption
       /\ OnePort!UsbAssumption /\ TwoPorts!UsbAssumption
       /\ Keyboard!KeyboardAssumption /\ Disk!NvmeAssumption

----------------------------------------------------------------------------
\* The variables of a device that is not there
NoStartup ==
    /\ bspPc = 0 /\ at = 0 /\ apIndex = 0 /\ timerCount = 0 /\ slots = 0 /\ tramp = 0
    /\ ap = 0 /\ online = 0 /\ redir = 0 /\ rxOn = 0
NoTables ==
    /\ fw = 0 /\ bootPc = 0 /\ mapped = 0 /\ root = 0 /\ found = 0 /\ todo = 0 /\ bad = 0
    /\ past = 0 /\ cur = 0 /\ i = 0 /\ info = 0
NoReceive ==
    /\ rdh = 0 /\ rdt = 0 /\ desc = 0 /\ kindOf = 0 /\ seen = 0 /\ cause = 0 /\ enabled = 0
    /\ since = 0 /\ rxNext = 0 /\ pending = 0 /\ poll = 0 /\ taken = 0 /\ icmp = 0
    /\ kept = 0 /\ ping = 0
NoTransmit ==
    /\ buf = 0 /\ used = 0 /\ dd = 0 /\ txNext = 0 /\ tdt = 0 /\ tdh = 0 /\ done = 0
    /\ accepted = 0 /\ sent = 0
NoUsb ==
    /\ ring = 0 /\ hc = 0 /\ ev = 0 /\ drv = 0 /\ expected = 0 /\ code = 0 /\ lastSlot = 0
    /\ failed = 0 /\ ready = 0 /\ dev = 0 /\ reports = 0 /\ notices = 0
NoKeyboard ==
    /\ held = 0 /\ wire = 0 /\ prev = 0 /\ keys = 0 /\ head = 0 /\ tail = 0
    /\ dealt = 0 /\ read = 0 /\ xhciLock = 0 /\ waiters = 0 /\ readerPc = 0 /\ moved = 0
    /\ bsp = 0 /\ others = 0 /\ kills = 0
NoDisk ==
    /\ q = 0 /\ sq = 0 /\ cq = 0 /\ ctl = 0 /\ list = 0 /\ boot = 0 /\ fsLock = 0
    /\ ioPc = 0 /\ req = 0 /\ res = 0 /\ wait = 0 /\ serial = 0 /\ moves = 0 /\ got = 0

MCInit ==
    /\ part \in {"cpus", "startup", "tables", "receive", "transmit",
                "one_port", "two_ports", "keyboard", "disk"}
    /\ Init
    /\ IF part = "startup" THEN Startup!Init ELSE NoStartup
    /\ IF part = "tables" THEN Acpi!Init ELSE NoTables
    /\ IF part = "receive" THEN Rx!Init ELSE NoReceive
    /\ IF part = "transmit" THEN Tx!Init ELSE NoTransmit
    /\ CASE part = "one_port" -> OnePort!Init [] part = "two_ports" -> TwoPorts!Init [] OTHER -> NoUsb
    /\ IF part = "keyboard" THEN Keyboard!Init ELSE NoKeyboard
    /\ IF part = "disk" THEN Disk!Init ELSE NoDisk

\* To bound the CPUs, only task 1 moves its stack pointer.
OneMoves == \A t \in Tasks \ {1} : own[t] = <<t, 0>>
\* The keys are alike: each is first pressed after the one before it.
KeysInTurn == \A n \in DOMAIN held : \A k \in held[n] \ {1} : \E m \in 1 .. n : k - 1 \in held[m]
\* Three transfers with a PRP list bring the I/O queue to its second turn; the
\* fourth is of any buffer.
LastIsAny == serial < 6 => \A t \in DOMAIN req : <<req[t].buffer, req[t].count>> \in {<<0, 0>>, <<17, 5>>}

MCNext ==
    /\ UNCHANGED part
    /\ \/ part = "cpus" /\ Next /\ OneMoves' /\ UNCHANGED <<startup, tables, receive, transmit, usb, keyboard, disk>>
       \/ part = "startup" /\ Startup!Next /\ UNCHANGED <<cpus, tables, receive, transmit, usb, keyboard, disk>>
       \/ part = "tables" /\ Acpi!Next /\ UNCHANGED <<cpus, startup, receive, transmit, usb, keyboard, disk>>
       \/ part = "receive" /\ Rx!Next /\ UNCHANGED <<cpus, startup, tables, transmit, usb, keyboard, disk>>
       \/ part = "transmit" /\ Tx!Next /\ UNCHANGED <<cpus, startup, tables, receive, usb, keyboard, disk>>
       \/ part = "one_port" /\ OnePort!Next /\ UNCHANGED <<cpus, startup, tables, receive, transmit, keyboard, disk>>
       \/ part = "two_ports" /\ TwoPorts!Next /\ UNCHANGED <<cpus, startup, tables, receive, transmit, keyboard, disk>>
       \/ part = "keyboard" /\ Keyboard!Next /\ KeysInTurn' /\ UNCHANGED <<cpus, startup, tables, receive, transmit, usb, disk>>
       \/ part = "disk" /\ Disk!Next /\ LastIsAny' /\ UNCHANGED <<cpus, startup, tables, receive, transmit, usb, keyboard>>

MCSpec == MCInit /\ [][MCNext]_<<part, cpus, startup, tables, receive, transmit, usb, keyboard, disk>>

\* An AP runs on the stack of its own slot, filled for it, and only it does,
\* though all read it from the same page, unless it had not read the page when
\* the boot processor went on; it has a running timer before it halts; the flag
\* that ends the wait is the one of the AP waited for or of one given up on; a
\* redirection entry is masked or complete.  Boot finds the enabled processors,
\* the first I/O APIC and the last override a MADT lists, maps each page before
\* it is read and reads past a table's end only where firmware made the table
\* or its last entry too short.  Neither gets stuck (start_all_aps, ap_entry,
\* ioapic_route, map_acpi_tables, parse_madt).
BootExact ==
    /\ part = "startup" => /\ Startup!TypeOK /\ Startup!OwnStack /\ Startup!SlotMine
                           /\ Startup!FlagMine /\ Startup!TimerRuns /\ Startup!RouteWhole
                           /\ ENABLED Startup!Next
    /\ part = "tables" => /\ Acpi!TypeOK /\ Acpi!MappedFirst /\ Acpi!MadtExact
                          /\ Acpi!WithinTable /\ ENABLED Acpi!Next

\* The rings shared with the network card, the disk and the xHCI controller
\* stay in step through every turn.  Frames are received and sent once each
\* and in order, and a waiting frame is announced to somebody who will look;
\* the disk moves exactly the caller's buffer and a completion answers the
\* command its receiver waits for; xHCI runs each TRB once and in order, a
\* completion code is the one of the TRB issued last, and a ready keyboard is
\* configured and has exactly one request under way.
RingsExact ==
    /\ part = "receive" => /\ Rx!TypeOK /\ Rx!FramesInOrder /\ Rx!BacklogAnnounced
                           /\ Rx!IcmpRingExact
    /\ part = "transmit" => Tx!TypeOK /\ Tx!SentAsAccepted
    /\ part = "disk" => /\ Disk!TypeOK /\ Disk!DmaExact /\ Disk!CompletionMine
                        /\ Disk!SeesCompletions
    /\ part = "one_port" => /\ OnePort!TypeOK /\ OnePort!RunsInOrder /\ OnePort!MissesNothing
                            /\ OnePort!SeesPending /\ OnePort!CodeIsMine
                            /\ OnePort!ReadyIsConfigured /\ OnePort!OneRequest
    /\ part = "two_ports" => /\ TwoPorts!TypeOK /\ TwoPorts!RunsInOrder /\ TwoPorts!MissesNothing
                             /\ TwoPorts!SeesPending /\ TwoPorts!CodeIsMine
                             /\ TwoPorts!ReadyIsConfigured /\ TwoPorts!OneRequest

\* Every key the keyboard tells reaches the key buffer once and in order,
\* through roll-over too, and is dropped only when the buffer is full; what the
\* buffer keeps reaches the readers once and in order; and a reader that sleeps
\* is counted, so that ticks poll for it (push_key, get_key, read_blocking).
KeysExact ==
    part = "keyboard" => /\ Keyboard!TypeOK /\ Keyboard!BufferExact /\ Keyboard!PressesDealt
                         /\ Keyboard!SleeperCounted
=============================================================================
