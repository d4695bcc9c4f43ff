-------------------------------- MODULE Usb ---------------------------------
(***************************************************************************)
(* The USB driver: the command ring, the transfer rings and the event ring *)
(* it shares with the host controller, and the enumeration that brings the *)
(* keyboard of every port into service while the controller completes      *)
(* commands, reports port changes and delivers the reports of keyboards    *)
(* that already work.                                                      *)
(*                                                                         *)
(* A ring element (TRB) is its cycle bit and a serial number; what a       *)
(* device answers is a choice.  A wait that reaches POLL_LIMIT is a choice *)
(* too: the controller may be late, or may never answer.                   *)
(***************************************************************************)
EXTENDS Integers, Sequences, FiniteSets

CONSTANTS
    Ports,          \* number of root ports, and of device slots
    RingSize,       \* TRBs of a command or transfer ring, the link included
    EventSize,      \* TRBs of the event ring
    HardwareShell,  \* the hardware-shell build stops at the first keyboard
    MaxReports,     \* bound: reports the keyboards send
    MaxNotices      \* bound: port status changes

\* What the instances choose the constants to satisfy.
UsbAssumption == Ports \in Nat \ {0} /\ RingSize > 4 /\ EventSize > 1 /\ HardwareShell \in BOOLEAN

Slots == 1 .. Ports
Cmd == <<"cmd", 0>>
Ep0(s) == <<"ep0", s>>
Kbd(s) == <<"kbd", s>>
NoRing == <<"none", 0>>
Rings == {Cmd} \cup {Ep0(s) : s \in Slots} \cup {Kbd(s) : s \in Slots}

Success == 1
Stall == 6
Short == 13     \* fewer bytes than asked for

VARIABLES
    ring,       \* [Rings -> [trb, index, cycle, issued]]: what the driver writes
    hc,         \* [Rings -> [index, cycle, run, ran, short]]: where the controller is
    ev,         \* the event ring: [trb, put, putCycle, get, getCycle, erdp]
    drv,        \* the driver: [at, step, port, slot, n]
    expected,   \* EXPECTED_EVENT: <<ring, index in it>>
    code,       \* LAST_COMPLETION_CODE, and which TRB it is of
    lastSlot,   \* LAST_SLOT_ID
    failed,     \* FAILED
    ready,      \* the slots READY_KEYBOARDS counts
    dev,        \* [Slots -> the requests carried out for the device]
    sent,       \* reports sent
    notices     \* port changes reported

ports == <<sent, notices>>
vars == <<ring, hc, ev, drv, expected, code, lastSlot, failed, ready, dev, ports>>

----------------------------------------------------------------------------
(* The rings.                                                              *)

Blank == [cycle |-> FALSE, id |-> 0]
NewRing == [trb |-> [i \in 0 .. RingSize - 1 |-> Blank], index |-> 0, cycle |-> TRUE, issued |-> 0]
NewHc == [index |-> 0, cycle |-> TRUE, run |-> "stopped", ran |-> 0, short |-> FALSE]
NoEvent == [cycle |-> FALSE, of |-> <<NoRing, 0, 0>>, code |-> 0, slot |-> 0]

LinkUpdated(r) == [r.trb EXCEPT ![RingSize - 1].cycle = r.cycle]

\* enqueue: write the TRB; behind the last one give the link the same cycle
\* bit and start over with the other one.
Enqueue(r) ==
    LET w == [r EXCEPT !.trb[r.index] = [cycle |-> r.cycle, id |-> r.issued + 1],
                       !.index = @ + 1, !.issued = @ + 1]
    IN  IF w.index < RingSize - 1 THEN w
        ELSE [w EXCEPT !.trb = LinkUpdated(w), !.index = 0, !.cycle = ~@]

\* The place of the TRB written last: its address is what an event names.
LastIndex(r) == IF r.index = 0 THEN RingSize - 2 ELSE r.index - 1

\* The doorbell starts a ring that is stopped, not one that is halted.
Rung(q) == [hc EXCEPT ![q].run = IF @ = "stopped" THEN "running" ELSE @]
Halted == [r \in Rings |-> [hc[r] EXCEPT !.run = "halted"]]

Init ==
    /\ ring = [r \in Rings |-> NewRing]
    /\ hc = [r \in Rings |-> NewHc]
    /\ ev = [trb |-> [i \in 0 .. EventSize - 1 |-> NoEvent],
             put |-> 0, putCycle |-> TRUE, get |-> 0, getCycle |-> TRUE, erdp |-> 0]
    /\ drv = [at |-> "claim", step |-> "go", port |-> 0, slot |-> 0, n |-> 0]
    /\ expected = <<NoRing, 0>> /\ code = [value |-> 0, of |-> <<NoRing, 0>>]
    /\ lastSlot = 0 /\ failed = FALSE /\ ready = {}
    /\ dev = [s \in Slots |-> {}]
    /\ sent = 0 /\ notices = 0

----------------------------------------------------------------------------
(* Bringing the controller up and walking over the ports.                  *)

AtGo(at) == drv.at = at /\ drv.step = "go"
GoTo(at) == drv' = [drv EXCEPT !.at = at, !.step = "go"]
Rest == <<ring, hc, ev, expected, code, lastSlot, failed, ready, dev, ports>>

\* init: every wait for the controller may fail, and then there is no context
\* and no controller.  Taking it over from the firmware:
ClaimController == AtGo("claim") /\ (GoTo("reset") \/ GoTo("absent")) /\ UNCHANGED Rest
\* ... halting and resetting it:
ResetController == AtGo("reset") /\ (GoTo("setup") \/ GoTo("absent")) /\ UNCHANGED Rest
\* ... what it can address, the slots, the rings and the scratchpads:
SetUpController == AtGo("setup") /\ (GoTo("start") \/ GoTo("absent")) /\ UNCHANGED Rest
\* ... and starting it:
StartController == AtGo("start") /\ (GoTo("port") \/ GoTo("absent")) /\ UNCHANGED Rest

MorePorts == drv.port < Ports /\ ~failed /\ ~(HardwareShell /\ ready # {})

\* poll_ports: the next port.  There may be nothing there, its reset may time
\* out, or the device is not one of those supported.
NextPort ==
    /\ AtGo("port")
    /\ IF MorePorts
       THEN \E at \in {"port", "enable"} : drv' = [drv EXCEPT !.port = @ + 1, !.at = at]
       ELSE GoTo("done")
    /\ UNCHANGED Rest

----------------------------------------------------------------------------
(* The enumeration of one device: commands and control transfers.          *)

\* A command: write, remember its place, ring the doorbell.
Command(at, rings) ==
    /\ AtGo(at)
    /\ ring' = [rings EXCEPT ![Cmd] = Enqueue(@)]
    /\ expected' = <<Cmd, LastIndex(ring'[Cmd])>>
    /\ code' = [value |-> 0, of |-> <<NoRing, 0>>]
    /\ hc' = Rung(Cmd)
    /\ drv' = [drv EXCEPT !.step = "wait", !.n = 0]
    /\ UNCHANGED <<ev, failed, ready, dev, ports>>

EnableSlot == Command("enable", ring) /\ lastSlot' = 0
\* address_device makes the ring of endpoint 0 anew,
AddressDevice == Command("address", [ring EXCEPT ![Ep0(drv.slot)] = NewRing]) /\ UNCHANGED lastSlot
\* get_descriptor corrects the packet size of a full-speed device,
EvaluateContext == Command("evaluate", ring) /\ UNCHANGED lastSlot
\* and setup_keyboard_endpoint makes the keyboard's ring.
ConfigureEndpoint == Command("configure", [ring EXCEPT ![Kbd(drv.slot)] = NewRing]) /\ UNCHANGED lastSlot

WithData == {"device", "header", "config"}
Transfers == WithData \cup {"setconf", "setidle", "setproto"}

\* control_transfer: the setup stage, the data stage if there is one, and the
\* status stage, which is the one waited for.
ControlTransfer ==
    /\ drv.at \in Transfers /\ drv.step = "go" /\ ~failed
    /\ LET q == Ep0(drv.slot) IN
         /\ ring' = [ring EXCEPT ![q] = IF drv.at \in WithData THEN Enqueue(Enqueue(Enqueue(@)))
                                        ELSE Enqueue(Enqueue(@))]
         /\ expected' = <<q, LastIndex(ring'[q])>>
         /\ hc' = Rung(q)
    /\ code' = [value |-> 0, of |-> <<NoRing, 0>>]
    /\ drv' = [drv EXCEPT !.step = "wait", !.n = 0]
    /\ UNCHANGED <<ev, lastSlot, failed, ready, dev, ports>>

\* On a controller that has failed it returns at once.
SkipTransfer ==
    /\ drv.at \in Transfers /\ drv.step = "go" /\ failed
    /\ drv' = [drv EXCEPT !.step = "answer"] /\ UNCHANGED Rest

\* wait_completion: after every look at the event ring, the code.
Answered ==
    /\ drv.step = "check" /\ code.value # 0
    /\ drv' = [drv EXCEPT !.step = "answer"] /\ UNCHANGED Rest

LookAgain ==
    /\ drv.step = "check" /\ code.value = 0
    /\ drv' = [drv EXCEPT !.step = "wait", !.n = 0] /\ UNCHANGED Rest

\* POLL_LIMIT is reached: the controller is stopped for this boot.
GiveUp ==
    /\ drv.step = "check" /\ code.value = 0
    /\ failed' = TRUE
    /\ hc' = Halted
    /\ drv' = [drv EXCEPT !.step = "answer"]
    /\ UNCHANGED <<ring, ev, expected, code, lastSlot, ready, dev, ports>>

\* The answer to SET_IDLE is the only one not looked at.
IgnoresAnswer(at) == at = "setidle"

\* What follows: the packet size may be odd, or have to be corrected,
AfterDevice == {"port", "evaluate", "header"}
\* the total length may be out of range,
AfterHeader == {"port", "config"}
\* the descriptors malformed or without a boot keyboard,
AfterConfig == {"port", "setconf"}
\* the interval out of range.
AfterProtocol == {"port", "configure"}

After(at) ==
    CASE at = "enable"    -> {"address"}
      [] at = "address"   -> {"device"}
      [] at = "device"    -> AfterDevice
      [] at = "evaluate"  -> {"header"}
      [] at = "header"    -> AfterHeader
      [] at = "config"    -> AfterConfig
      [] at = "setconf"   -> {"setidle"}
      [] at = "setidle"   -> {"setproto"}
      [] at = "setproto"  -> AfterProtocol
      [] at = "configure" -> {"keyboard"}

Decide ==
    /\ drv.step = "answer"
    /\ LET slot == IF drv.at = "enable" THEN lastSlot ELSE drv.slot
       IN  IF IgnoresAnswer(drv.at) \/ (code.value = Success /\ slot # 0)
           THEN \E at \in After(drv.at) : drv' = [drv EXCEPT !.at = at, !.step = "go", !.slot = slot]
           ELSE GoTo("port")
    /\ UNCHANGED Rest

\* queue_keyboard_report_request, which leaves what is waited for alone.
Requested(rings, s) == [rings EXCEPT ![Kbd(s)] = Enqueue(@)]

KeyboardReady ==
    /\ AtGo("keyboard")
    /\ ready' = ready \cup {drv.slot}
    /\ ring' = Requested(ring, drv.slot)
    /\ hc' = Rung(Kbd(drv.slot))
    /\ GoTo("port")
    /\ UNCHANGED <<ev, expected, code, lastSlot, failed, dev, ports>>

----------------------------------------------------------------------------
(* process_events, called while waiting and, later on, by polls.           *)

Poll ==
    /\ AtGo("done") /\ ~failed
    /\ drv' = [drv EXCEPT !.step = "wait", !.n = 0] /\ UNCHANGED Rest

EventThere == ev.trb[ev.get].cycle = ev.getCycle

GetCycleKept == ev.getCycle
GetCycleNext == IF ev.get = EventSize - 1 THEN ~ev.getCycle ELSE ev.getCycle

IsExpected(e) == <<e.of[1], e.of[2]>> = expected

\* One event.  A complete report is asked for again; the answer to a command
\* or a transfer counts when it is of the TRB waited for.
ProcessEvent ==
    /\ drv.step = "wait" /\ drv.n < EventSize /\ EventThere
    /\ LET e == ev.trb[ev.get]
           report == e.of[1][1] = "kbd"
           mine == ~report /\ e.of[1] # NoRing /\ IsExpected(e)
           again == report /\ e.code = Success
       IN  /\ ev' = [ev EXCEPT !.get = (@ + 1) % EventSize, !.getCycle = GetCycleNext]
           /\ code' = IF mine THEN [value |-> e.code, of |-> <<e.of[1], e.of[3]>>] ELSE code
           /\ lastSlot' = IF mine /\ e.of[1] = Cmd THEN e.slot ELSE lastSlot
           /\ ring' = IF again THEN Requested(ring, e.slot) ELSE ring
           /\ hc' = IF again THEN Rung(e.of[1]) ELSE hc
    /\ drv' = [drv EXCEPT !.n = @ + 1]
    /\ UNCHANGED <<expected, failed, ready, dev, ports>>

\* The end of the events or of the loop: tell the controller how far we are.
EventsEnd ==
    /\ drv.step = "wait" /\ (drv.n = EventSize \/ ~EventThere)
    /\ ev' = [ev EXCEPT !.erdp = ev.get]
    /\ drv' = [drv EXCEPT !.step = IF drv.at = "done" THEN "go" ELSE "check"]
    /\ UNCHANGED <<ring, hc, expected, code, lastSlot, failed, ready, dev, ports>>

\* shutdown, from a system call on any CPU, which takes no lock.
Shutdown ==
    /\ drv.at = "done" /\ hc' = Halted
    /\ UNCHANGED <<ring, ev, drv, expected, code, lastSlot, failed, ready, dev, ports>>

----------------------------------------------------------------------------
(* The controller and the devices.                                         *)

EventRoom == (ev.put + 1) % EventSize # ev.erdp
Posted(of, c, s) ==
    [ev EXCEPT !.trb[ev.put] = [cycle |-> ev.putCycle, of |-> of, code |-> c, slot |-> s],
               !.put = (@ + 1) % EventSize,
               !.putCycle = IF ev.put = EventSize - 1 THEN ~@ ELSE @]

Current(r) == ring[r].trb[hc[r].index]
HasTrb(r) == hc[r].run = "running" /\ Current(r).cycle = hc[r].cycle
HasWork(r) == HasTrb(r) /\ hc[r].index < RingSize - 1
Ran(r) == [hc EXCEPT ![r].index = @ + 1, ![r].ran = Current(r).id]
Completion(r) == <<r, hc[r].index, Current(r).id>>

\* Over the link: back to the start with the other cycle bit.
FollowLink ==
    /\ \E r \in Rings : /\ HasTrb(r) /\ hc[r].index = RingSize - 1
                        /\ hc' = [hc EXCEPT ![r].index = 0, ![r].cycle = ~@]
    /\ UNCHANGED <<ring, ev, drv, expected, code, lastSlot, failed, ready, dev, ports>>

\* A command is carried out, or refused.
RunCommand ==
    /\ HasWork(Cmd) /\ EventRoom
    /\ \E s \in Slots, c \in {Success, Stall} :
         /\ IF drv.at = "enable" THEN dev[s] = {} /\ (\A t \in 1 .. s - 1 : dev[t] # {}) ELSE s = drv.slot
         /\ ev' = Posted(Completion(Cmd), c, s)
         /\ dev' = IF c = Success THEN [dev EXCEPT ![s] = @ \cup {drv.at}] ELSE dev
    /\ hc' = Ran(Cmd)
    /\ UNCHANGED <<ring, drv, expected, code, lastSlot, failed, ready, ports>>

\* A stage of a control transfer.  The status stage completes it; a device
\* that refuses the request halts the endpoint, at the stage it refuses.
RunControl ==
    /\ \E s \in Slots : LET r == Ep0(s) IN
         /\ HasWork(r)
         /\ \/ /\ Current(r).id < ring[r].issued
               /\ hc' = Ran(r) /\ UNCHANGED <<ev, dev>>
            \/ /\ Current(r).id = ring[r].issued /\ EventRoom
               /\ hc' = Ran(r)
               /\ ev' = Posted(Completion(r), Success, s)
               /\ dev' = [dev EXCEPT ![s] = @ \cup {drv.at}]
            \/ /\ EventRoom
               /\ hc' = [Ran(r) EXCEPT ![r].run = "halted"]
               /\ ev' = Posted(Completion(r), Stall, s)
               /\ UNCHANGED dev
    /\ UNCHANGED <<ring, drv, expected, code, lastSlot, failed, ready, ports>>

\* A keyboard answers a queued request, with a whole report or a short one; a
\* bad report halts its endpoint.
Report ==
    /\ sent < MaxReports /\ EventRoom
    /\ \E s \in Slots, c \in {Success, Short, Stall} : LET r == Kbd(s) IN
         /\ HasWork(r)
         /\ ev' = Posted(Completion(r), c, s)
         /\ hc' = [Ran(r) EXCEPT ![r].run = IF c = Stall THEN "halted" ELSE @, ![r].short = (c = Short)]
    /\ sent' = sent + 1
    /\ UNCHANGED <<ring, drv, expected, code, lastSlot, failed, ready, dev, notices>>

PortChange ==
    /\ notices < MaxNotices /\ EventRoom /\ hc[Cmd].run # "halted" /\ drv.at \notin {"claim", "reset", "setup", "start", "absent"}
    /\ ev' = Posted(<<NoRing, 0, 0>>, Success, 0)
    /\ notices' = notices + 1
    /\ UNCHANGED <<ring, hc, drv, expected, code, lastSlot, failed, ready, dev, sent>>

Enumeration ==
    \/ ClaimController \/ ResetController \/ SetUpController \/ StartController \/ NextPort
    \/ EnableSlot \/ AddressDevice \/ EvaluateContext \/ ConfigureEndpoint
    \/ ControlTransfer \/ SkipTransfer \/ Answered \/ GiveUp \/ Decide \/ KeyboardReady
Driver == Enumeration \/ LookAgain \/ Poll \/ ProcessEvent \/ EventsEnd \/ Shutdown
Controller == FollowLink \/ RunCommand \/ RunControl \/ Report \/ PortChange

\* Nothing of the driver runs any more.
Over == /\ drv.at = "absent" \/ (AtGo("done") /\ failed)
        /\ UNCHANGED vars
Next == Driver \/ Controller \/ Over

Spec == Init /\ [][Next]_vars

----------------------------------------------------------------------------
TypeOK ==
    /\ \A r \in Rings : /\ ring[r].index \in 0 .. RingSize - 2 /\ ring[r].issued \in Nat
                        /\ hc[r].index \in 0 .. RingSize - 1 /\ hc[r].run \in {"stopped", "running", "halted"}
    /\ ev.put \in 0 .. EventSize - 1 /\ ev.get \in 0 .. EventSize - 1 /\ ev.erdp \in 0 .. EventSize - 1
    /\ drv.step \in {"go", "wait", "check", "answer"} /\ drv.slot \in 0 .. Ports /\ drv.port \in 0 .. Ports
    /\ code.value \in {0, Success, Stall} /\ lastSlot \in 0 .. Ports
    /\ ready \subseteq Slots /\ failed \in BOOLEAN

\* What the controller finds next on a ring is the TRB after the last one it
\* ran: the cycle bit and the link keep it from running one twice, or an old
\* one, however often the ring has gone round (the two enqueue functions).
RunsInOrder == \A r \in Rings : HasWork(r) => Current(r).id = hc[r].ran + 1

\* ... and an idle ring has nothing the driver wrote and the controller missed.
MissesNothing ==
    \A r \in Rings : hc[r].run = "running" /\ ~HasTrb(r) => hc[r].ran = ring[r].issued

\* process_events sees an event exactly when one is pending, through every
\* turn of the event ring and every bounded pass over it.
SeesPending == EventThere <=> ev.get # ev.put

\* A completion code is the one of the command or transfer issued last, not of
\* an earlier one that answers late or used the same place of the ring
\* (EXPECTED_EVENT).
CodeIsMine == code.value # 0 => code.of = <<expected[1], ring[expected[1]].issued>>

\* A keyboard is counted as ready only when its device has taken the
\* configuration and the boot protocol and the controller its endpoint
\* (setup_keyboard_endpoint).
ReadyIsConfigured == \A s \in ready : {"address", "setconf", "setproto", "configure"} \subseteq dev[s]

\* A ready keyboard has exactly one request under way: still queued, or
\* answered by a report not processed yet; none once a short or a bad report
\* has been processed.
Pending(s) == {i \in 0 .. EventSize - 1 :
                 /\ ev.trb[i].of[1] = Kbd(s)
                 /\ (i + EventSize - ev.get) % EventSize < (ev.put + EventSize - ev.get) % EventSize}
OneRequest ==
    \A s \in ready : LET n == Cardinality(Pending(s)) + ring[Kbd(s)].issued - hc[Kbd(s)].ran
                     IN  IF hc[Kbd(s)].run = "halted" \/ hc[Kbd(s)].short THEN n <= 1 ELSE n = 1

=============================================================================
