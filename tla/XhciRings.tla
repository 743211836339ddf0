------------------------------ MODULE XhciRings ------------------------------
(***************************************************************************)
(* The xHCI driver's root-port registration (modules/usb/xhci/xhci.c) as  *)
(* bl_usb_root_hub_register drives it: port_device_connected, port_init   *)
(* (port reset for USB2 ports, Enable Slot, bl_xhci_device_slot_init with *)
(* Address Device) and the control transfers of bl_usb_device_register,  *)
(* over the command ring, the one event ring and each device's ep0       *)
(* transfer ring.  The controller is the other actor: it completes port   *)
(* resets, runs commands and transfers and posts their events.           *)
(*                                                                         *)
(* Every wait of the driver takes the next event of the ring whatever its *)
(* type (bl_xhci_get_last_event); events are records of the fields the   *)
(* driver reads: the TRB type, the port ID, the slot ID and the          *)
(* completion code.                                                        *)
(***************************************************************************)
EXTENDS Naturals, Sequences, FiniteSets, FiniteSetsExt

CONSTANTS NumPorts,   \* root_hub.ports
          Present,    \* the ports with a device attached at boot
          Usb3Ports,  \* the ports whose port_usb_type is 3
          MaxSlots,   \* the slots the controller can enable
          CrSize,     \* BL_XHCI_CR_TRBS
          ErSize,     \* BL_XHCI_ER_TRBS
          NumCtl,     \* control transfers bl_usb_device_register issues
          Timeout,    \* the `while (--timeout)' budget of a wait
          Timely,     \* the controller answers every wait within its budget
          NULL

Ports == 0 .. NumPorts - 1
Slots == 1 .. MaxSlots
Addrs == 1 .. NumPorts

(* The event TRBs the controller posts.  A port status change event has   *)
(* no slot ID (the field is 0); command and transfer events carry one.    *)
Psc(p) == [type |-> "psc", port |-> p, slot |-> 0, cc |-> "ok"]
CmdEvent(s, cc) == [type |-> "cmd", port |-> NULL, slot |-> s, cc |-> cc]
XferEvent(s) == [type |-> "xfer", port |-> NULL, slot |-> s, cc |-> "ok"]

(* The PORTSC bits the driver uses.  CSC, PED and PRC are write-1-to-clear *)
(* (a 1 written to PED disables the port), PR is write-1-to-set.          *)
PortFlags == {"CCS", "PED", "PR", "CSC", "PRC"}
RW1C == {"CSC", "PED", "PRC"}

(* `portsc |= bits': the register is read and written back with bits     *)
(* added, so every set write-1-to-clear flag is written with a 1 too.    *)
Rmw(flags, bits) ==
    (flags \ ((flags \cup bits) \cap RW1C)) \cup (bits \cap {"PR"})

(* BL_XHCI_TRB_PORT_ID(parameter): a port event's port number; in other   *)
(* events bits 24..31 of a TRB pointer, any value the heap address gives. *)
PortIds(ev) == IF ev.type = "psc" THEN {ev.port + 1} ELSE {0} \cup {q + 1 : q \in Ports}

-----------------------------------------------------------------------------
VARIABLES er,         \* the events the controller has written, in ring order
          erDeq,      \* xhci->er_dequeue, as the number of events taken
          cr,         \* the command ring slots: a command, or NULL (C bit clear)
          crEnq,      \* xhci->cr_enqueue
          hcCrDeq,    \* the controller's command ring dequeue pointer
          portsc,     \* the PORTSC flags of each root port
          pscPending, \* a port status change the controller has still to post
          slotState,  \* "disabled", "enabled", "addressed"
          ringOf,     \* the ep0 transfer ring (its device's address) of each slot
          rung,       \* the slots whose doorbell the driver has rung
          tds,        \* the control TDs queued on each address's ep0 ring
          pc,         \* "conn", "reset", "enable", "address", "ctl", "done"
          port,       \* the root port bl_usb_root_hub_register is at
          count,      \* hc->devices_count
          tmo,        \* the loop counter of the current wait
          slotId,     \* the slot ID bl_xhci_cr_enable_slot returned
          ctl,        \* the control transfers still to issue for the device
          devices,    \* xhci->devices[address]->slot_id
          hub         \* root_hub.devices: the linked device's address, or NULL

hcVars == <<er, hcCrDeq, portsc, pscPending, slotState, ringOf, tds>>
drvVars == <<erDeq, cr, crEnq, rung, pc, port, count, tmo, slotId, ctl, devices, hub>>
vars == <<hcVars, drvVars>>

(* The controller writes an event only while the ring is not full; the    *)
(* driver never advances ERDP from the segment start.                    *)
CanPost == Len(er) < ErSize - 1

EventReady == erDeq < Len(er)
NextEvent == er[erDeq + 1]

(* bl_xhci_init_command_ring, bl_xhci_init_event_ring, and the port status *)
(* change events the running controller has posted for the ports with a   *)
(* device by the time bl_usb_setup runs, in any order.                   *)
Init ==
    /\ erDeq = 0 /\ cr = [i \in 0 .. CrSize - 1 |-> NULL] /\ crEnq = 0 /\ hcCrDeq = 0
    /\ \E order \in {s \in [1 .. Cardinality(Present) -> Present] :
                         \A i, j \in DOMAIN s : i /= j => s[i] /= s[j]} :
           er = [i \in DOMAIN order |-> Psc(order[i])]
    /\ portsc = [p \in Ports |-> IF p \notin Present THEN {}
                                 ELSE IF p \in Usb3Ports THEN {"CCS", "CSC", "PED"}
                                 ELSE {"CCS", "CSC"}]
    /\ pscPending = [p \in Ports |-> FALSE]
    /\ slotState = [s \in Slots |-> "disabled"] /\ ringOf = [s \in Slots |-> NULL]
    /\ rung = {} /\ tds = [a \in Addrs |-> 0]
    /\ pc = "conn" /\ port = 0 /\ count = 0 /\ tmo = 0 /\ slotId = 0 /\ ctl = 0
    /\ devices = [a \in Addrs |-> NULL] /\ hub = [p \in Ports |-> NULL]

-----------------------------------------------------------------------------
(* The loop of bl_usb_root_hub_register moves to the next port. *)
NextPort ==
    /\ port' = port + 1
    /\ pc' = IF port + 1 \in Ports THEN "conn" ELSE "done"

(* bl_xhci_cr_queue_trb writes the command at cr_enqueue (slot i) and     *)
(* rings the command doorbell; the wait follows.                          *)
QueueCommand(i, c, next) ==
    /\ cr' = [cr EXCEPT ![i] = c]
    /\ pc' = next /\ tmo' = Timeout

(* bl_xhci_port_init after the speed checks: Enable Slot. *)
EnableSlot == QueueCommand(crEnq, [kind |-> "enable", slot |-> 0, addr |-> NULL, port |-> NULL], "enable")

(* bl_xhci_device_slot_init: the input context names the root port and   *)
(* the new ep0 ring of the device at `address'; Address Device follows.  *)
AddressDevice(slot) ==
    QueueCommand(crEnq + 1, [kind |-> "address", slot |-> slot, addr |-> count, port |-> port],
                 "address")

(* bl_xhci_control_transfer: SETUP, DATA and STATUS TRBs on the device's  *)
(* ep0 ring, the doorbell of its slot, then the wait.                    *)
IssueControl(a, slot) ==
    /\ tds' = [tds EXCEPT ![a] = @ + 1]
    /\ rung' = rung \cup {slot}
    /\ pc' = "ctl" /\ tmo' = Timeout

SetPortsc(flags) == portsc' = [portsc EXCEPT ![port] = flags]

(* bl_xhci_port_init with the flags port_device_connected left: a USB3    *)
(* port must already be enabled and out of reset; a USB2 port is reset    *)
(* through `portsc |= PR' and checked after bl_time_sleep(50).            *)
PortInit(sc) ==
    /\ count' = count + 1
    /\ IF port \in Usb3Ports
       THEN /\ SetPortsc(sc)
            /\ IF "PED" \in sc /\ "PR" \notin sc
               THEN EnableSlot /\ UNCHANGED port
               ELSE NextPort /\ UNCHANGED <<cr, tmo>>
       ELSE /\ SetPortsc(Rmw(sc, {"PR"}))
            /\ pc' = "reset" /\ UNCHANGED <<port, cr, tmo>>

(* bl_xhci_port_device_connected and bl_usb_root_hub_register's use of    *)
(* it: a set CSC is cleared with `portsc |= CSC'; with CCS set, the next  *)
(* event, if there is one, must be a successful one of this port; a      *)
(* device found takes address ++devices_count and goes to port_init.     *)
PortDeviceConnected ==
    /\ pc = "conn"
    /\ LET sc == IF "CSC" \in portsc[port] THEN Rmw(portsc[port], {"CSC"}) ELSE portsc[port]
       IN  \/ /\ "CCS" \notin sc
              /\ SetPortsc(sc) /\ NextPort /\ UNCHANGED <<erDeq, count, cr, tmo>>
           \/ /\ "CCS" \in sc /\ ~EventReady
              /\ PortInit(sc) /\ UNCHANGED erDeq
           \/ /\ "CCS" \in sc /\ EventReady
              /\ erDeq' = erDeq + 1
              /\ \E id \in PortIds(NextEvent) :
                    IF NextEvent.cc = "ok" /\ id = port + 1
                    THEN PortInit(sc)
                    ELSE SetPortsc(sc) /\ NextPort /\ UNCHANGED <<count, cr, tmo>>
    /\ UNCHANGED <<er, hcCrDeq, pscPending, slotState, ringOf, tds,
                   crEnq, rung, slotId, ctl, devices, hub>>

(* The controller has finished the port reset and posted its event.      *)
ResetSettled(p) == "PR" \notin portsc[p] /\ ~(pscPending[p] /\ CanPost)

(* bl_xhci_port_init after the 50 ms sleep: one look at the event ring;  *)
(* the port must show PRC and PED and the event be a successful one of   *)
(* this port; PRC is then cleared with `portsc |= PRC'.                  *)
ResetCheck ==
    /\ pc = "reset"
    /\ Timely => ResetSettled(port)
    /\ \/ /\ ~EventReady
          /\ NextPort /\ UNCHANGED <<erDeq, portsc, cr, tmo>>
       \/ /\ EventReady
          /\ erDeq' = erDeq + 1
          /\ \E id \in PortIds(NextEvent) :
                IF {"PRC", "PED"} \subseteq portsc[port] /\ NextEvent.cc = "ok" /\ id = port + 1
                THEN SetPortsc(Rmw(portsc[port], {"PRC"})) /\ EnableSlot /\ UNCHANGED port
                ELSE NextPort /\ UNCHANGED <<portsc, cr, tmo>>
    /\ UNCHANGED <<er, hcCrDeq, pscPending, slotState, ringOf, tds,
                   crEnq, rung, count, slotId, ctl, devices, hub>>

(* The controller can still run the command at its dequeue pointer, or   *)
(* a queued TD of slot s.                                                  *)
CmdRunnable == hcCrDeq < CrSize - 1 /\ cr[hcCrDeq] /= NULL /\ CanPost
XferRunnable(s) ==
    /\ s \in Slots /\ slotState[s] = "addressed" /\ s \in rung
    /\ tds[ringOf[s]] > 0 /\ CanPost

(* bl_xhci_device_slot_init has saved the device; port_init returns the  *)
(* speed and bl_usb_device_register issues its first control transfer.   *)
SaveDevice ==
    /\ devices' = [devices EXCEPT ![count] = slotId]
    /\ ctl' = NumCtl
    /\ IssueControl(count, slotId)

(* One pass of bl_xhci_cr_queue_trb's loop, and what enable_slot and     *)
(* address_device then do.  An event ends the wait and advances          *)
(* cr_enqueue; the last empty pass returns NULL and leaves cr_enqueue on *)
(* the command just written.                                             *)
CommandPass ==
    /\ pc \in {"enable", "address"}
    /\ \/ /\ EventReady
          /\ erDeq' = erDeq + 1 /\ crEnq' = crEnq + 1
          /\ IF pc = "enable"
             THEN IF NextEvent.cc = "ok"
                  THEN /\ slotId' = NextEvent.slot
                       /\ AddressDevice(NextEvent.slot)
                       /\ UNCHANGED <<port, ctl, devices, tds, rung>>
                  ELSE NextPort /\ UNCHANGED <<cr, tmo, slotId, ctl, devices, tds, rung>>
             ELSE SaveDevice /\ UNCHANGED <<port, cr, slotId>>
       \/ /\ ~EventReady /\ tmo > 1
          /\ tmo' = tmo - 1
          /\ UNCHANGED <<erDeq, crEnq, pc, port, cr, slotId, ctl, devices, tds, rung>>
       \/ /\ ~EventReady /\ tmo = 1
          /\ Timely => ~CmdRunnable
          /\ UNCHANGED <<erDeq, crEnq>>
          /\ IF pc = "enable"
             THEN NextPort /\ UNCHANGED <<cr, tmo, slotId, ctl, devices, tds, rung>>
             ELSE SaveDevice /\ UNCHANGED <<port, cr, slotId>>
    /\ UNCHANGED <<er, hcCrDeq, portsc, pscPending, slotState, ringOf, count, hub>>

(* One pass of bl_xhci_control_transfer's wait, which returns SUCCESS    *)
(* whether or not an event came; after the last transfer the device is   *)
(* linked into root_hub.devices[port].                                    *)
FinishControl ==
    IF ctl > 1
    THEN ctl' = ctl - 1 /\ IssueControl(count, devices[count]) /\ UNCHANGED <<port, hub>>
    ELSE /\ ctl' = 0 /\ hub' = [hub EXCEPT ![port] = count] /\ NextPort
         /\ UNCHANGED <<tds, rung, tmo>>

ControlPass ==
    /\ pc = "ctl"
    /\ \/ /\ EventReady
          /\ erDeq' = erDeq + 1 /\ FinishControl
       \/ /\ ~EventReady /\ tmo > 1
          /\ tmo' = tmo - 1
          /\ UNCHANGED <<erDeq, pc, port, ctl, tds, rung, hub>>
       \/ /\ ~EventReady /\ tmo = 1
          /\ Timely => ~XferRunnable(devices[count])
          /\ UNCHANGED erDeq /\ FinishControl
    /\ UNCHANGED <<er, hcCrDeq, portsc, pscPending, slotState, ringOf,
                   cr, crEnq, count, slotId, devices>>

-----------------------------------------------------------------------------
(* The controller ends a port reset: PR clears, the port is enabled and   *)
(* PRC set, and a port status change event is due.                        *)
CompleteReset(p) ==
    /\ "PR" \in portsc[p]
    /\ portsc' = [portsc EXCEPT ![p] = (@ \ {"PR"}) \cup {"PED", "PRC"}]
    /\ pscPending' = [pscPending EXCEPT ![p] = TRUE]
    /\ UNCHANGED <<er, hcCrDeq, slotState, ringOf, tds, drvVars>>

PostPortEvent(p) ==
    /\ pscPending[p] /\ CanPost
    /\ er' = Append(er, Psc(p))
    /\ pscPending' = [pscPending EXCEPT ![p] = FALSE]
    /\ UNCHANGED <<hcCrDeq, portsc, slotState, ringOf, tds, drvVars>>

(* The controller runs the command at its dequeue pointer.  Enable Slot  *)
(* takes a free slot; Address Device needs an enabled slot and an        *)
(* enabled root port (SET_ADDRESS goes out through it), and otherwise    *)
(* fails and leaves the slot as it was.                                   *)
RunCommand ==
    /\ CmdRunnable
    /\ LET c == cr[hcCrDeq]
           free == {s \in Slots : slotState[s] = "disabled"}
       IN  IF c.kind = "enable"
           THEN /\ IF free /= {}
                   THEN /\ slotState' = [slotState EXCEPT ![Min(free)] = "enabled"]
                        /\ er' = Append(er, CmdEvent(Min(free), "ok"))
                   ELSE er' = Append(er, CmdEvent(0, "err")) /\ UNCHANGED slotState
                /\ UNCHANGED ringOf
           ELSE IF c.slot \in Slots /\ slotState[c.slot] = "enabled" /\ "PED" \in portsc[c.port]
                THEN /\ slotState' = [slotState EXCEPT ![c.slot] = "addressed"]
                     /\ ringOf' = [ringOf EXCEPT ![c.slot] = c.addr]
                     /\ er' = Append(er, CmdEvent(c.slot, "ok"))
                ELSE er' = Append(er, CmdEvent(c.slot, "err")) /\ UNCHANGED <<slotState, ringOf>>
    /\ hcCrDeq' = hcCrDeq + 1
    /\ UNCHANGED <<portsc, pscPending, tds, drvVars>>

(* The controller runs a control TD of a rung, addressed slot; the STATUS *)
(* TRB's IOC gives one transfer event.                                    *)
RunTransfer(s) ==
    /\ XferRunnable(s)
    /\ tds' = [tds EXCEPT ![ringOf[s]] = @ - 1]
    /\ er' = Append(er, XferEvent(s))
    /\ UNCHANGED <<hcCrDeq, portsc, pscPending, slotState, ringOf, drvVars>>

Driver == PortDeviceConnected \/ ResetCheck \/ CommandPass \/ ControlPass

Controller ==
    \/ RunCommand
    \/ \E p \in Ports : CompleteReset(p) \/ PostPortEvent(p)
    \/ \E s \in Slots : RunTransfer(s)

Next == Driver \/ Controller

Spec == Init /\ [][Next]_vars

-----------------------------------------------------------------------------
Events == {Psc(p) : p \in Ports} \cup {CmdEvent(s, c) : s \in 0 .. MaxSlots, c \in {"ok", "err"}}
          \cup {XferEvent(s) : s \in Slots}

TypeOK ==
    /\ er \in Seq(Events) /\ Len(er) < ErSize /\ erDeq \in 0 .. Len(er)
    /\ crEnq \in 0 .. CrSize - 1 /\ hcCrDeq \in 0 .. CrSize - 1
    /\ portsc \in [Ports -> SUBSET PortFlags] /\ pscPending \in [Ports -> BOOLEAN]
    /\ slotState \in [Slots -> {"disabled", "enabled", "addressed"}]
    /\ ringOf \in [Slots -> Addrs \cup {NULL}] /\ rung \subseteq 0 .. MaxSlots
    /\ tds \in [Addrs -> Nat]
    /\ pc \in {"conn", "reset", "enable", "address", "ctl", "done"}
    /\ port \in 0 .. NumPorts /\ count \in 0 .. NumPorts /\ tmo \in 0 .. Timeout
    /\ slotId \in 0 .. MaxSlots /\ ctl \in 0 .. NumCtl
    /\ devices \in [Addrs -> 0 .. MaxSlots \cup {NULL}]
    /\ hub \in [Ports -> Addrs \cup {NULL}]

(* Hub invariant of the data model and end-to-end scenario 1: once        *)
(* bl_usb_root_hub_register has walked every port, root_hub.devices[i]   *)
(* holds a device for every port with a device attached, when the        *)
(* controller answers each wait in time.  port_device_connected,         *)
(* port_init and the command waits each take whatever event is next.     *)
ConnectedDevicesRegistered == pc = "done" => \A p \in Present : hub[p] /= NULL

(* A device linked into the root hub is reachable: the slot ID saved in   *)
(* xhci->devices[address] is a slot the controller addressed with that  *)
(* device's ep0 ring, so its control transfers run.  port_init clears    *)
(* PRC with `portsc |= PRC', which also writes PED.                      *)
RegisteredDevicesAddressed ==
    \A p \in Ports : hub[p] /= NULL =>
        LET s == devices[hub[p]]
        IN  s \in Slots /\ slotState[s] = "addressed" /\ ringOf[s] = hub[p]
=============================================================================
