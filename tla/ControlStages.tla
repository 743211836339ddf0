---------------------------- MODULE ControlStages ----------------------------
(***************************************************************************)
(* The stages of a USB control transfer as each of the four host          *)
(* controller drivers lays them out (bl_uhci_control_transfer,             *)
(* bl_ohci_control_transfer, bl_ehci_control_transfer,                     *)
(* bl_xhci_control_transfer), compared with the stages the USB standard    *)
(* and spec 3 / 8 require.  A stage is the pid, the data toggle and the   *)
(* byte count of one transaction the device sees.  Buffers and addresses  *)
(* are left out: they do not change which transactions the device sees.   *)
(*                                                                         *)
(* Every caller in the tree issues either an IN request with a data stage *)
(* (GET_DESCRIPTOR, hub GET_STATUS, GET_MAX_LUN) or an OUT request without *)
(* one (SET_ADDRESS, SET_CONFIGURATION, SET/CLEAR_FEATURE, SET_PROTOCOL,   *)
(* SET_IDLE); the requests of the model are those.                         *)
(***************************************************************************)
EXTENDS Naturals, Sequences

CONSTANTS MaxLength,    \* the largest wLength enumerated
          PacketSizes,  \* values of dev_desc.max_packet_size (0 before the first fetch)
          XhciCtxMps    \* ep_context0.max_packet_size set by bl_xhci_device_slot_init

Stage(pid, toggle, len) == [pid |-> pid, toggle |-> toggle, len |-> len]

SetupLen == 8   \* sizeof(struct bl_usb_setup_data)

MinOf(a, b) == IF a < b THEN a ELSE b

(* bl_usb_direction_pid: the data direction is the setup's direction bit. *)
bl_usb_direction_pid(dir) == dir

(* bl_usb_status_pid: the complement of the data pid. *)
bl_usb_status_pid(p) == IF p = "OUT" THEN "IN" ELSE "OUT"

(* The request a caller can issue: direction bit, wLength, packet size.   *)
Requests ==
    [dir : {"IN"}, length : 1 .. MaxLength, mps : PacketSizes]
    \cup [dir : {"OUT"}, length : {0}, mps : PacketSizes]

(* `if (!packet_size) packet_size = 8;` in the three legacy drivers. *)
LegacyMps(r) == IF r.mps = 0 THEN 8 ELSE r.mps

(* bl_xhci_control_transfer takes the endpoint context's size when 0.    *)
XhciMps(r) == IF r.mps = 0 THEN XhciCtxMps ELSE r.mps

-----------------------------------------------------------------------------
(* What the standard requires: SETUP with toggle 0, ceil(length/mps)     *)
(* DATA stages in the setup's direction with toggles 1, 0, 1, ..., the    *)
(* last one short, and a zero-length STATUS stage with toggle 1 in the    *)
(* opposite direction (IN when there is no data stage).                   *)
NumData(len, mps) == (len + mps - 1) \div mps

ReferenceStages(dir, len, mps) ==
    LET n == NumData(len, mps)
    IN  <<Stage("SETUP", 0, SetupLen)>>
        \o [i \in 1 .. n |-> Stage(dir, i % 2,
                                   IF i < n THEN mps ELSE len - (n - 1) * mps)]
        \o <<Stage(IF n = 0 THEN "IN" ELSE bl_usb_status_pid(dir), 1, 0)>>

-----------------------------------------------------------------------------
(* The data loop the drivers share:                                       *)
(*   while (length > 0) { toggle = !toggle;                               *)
(*       td(pid, toggle, MIN(length, packet_size)); length -= packet_size; } *)
RECURSIVE DataLoop(_, _, _, _)
DataLoop(pid, toggle, length, mps) ==
    IF length > 0
    THEN <<Stage(pid, 1 - toggle, MinOf(length, mps))>>
         \o DataLoop(pid, 1 - toggle, length - mps, mps)
    ELSE <<>>

(* A variant of UHCI's builder whose STATUS TD keeps the loop's toggle    *)
(* instead of the constant 1.                                             *)
UhciStatusToggleFromLoop(r) ==
    LET dp == bl_usb_direction_pid(r.dir)
        d  == DataLoop(dp, 0, r.length, LegacyMps(r))
    IN  <<Stage("SETUP", 0, SetupLen)>> \o d
        \o <<Stage(bl_usb_status_pid(dp), IF d = <<>> THEN 0 ELSE 1 - d[Len(d)].toggle, 0)>>

(* bl_uhci_control_transfer: SETUP TD, the data loop, a STATUS TD with   *)
(* toggle 1 and the complement pid; the QH walks every TD of the chain.   *)
UhciControlTransfer(r) ==
    LET dp == bl_usb_direction_pid(r.dir)
    IN  <<Stage("SETUP", 0, SetupLen)>>
        \o DataLoop(dp, 0, r.length, LegacyMps(r))
        \o <<Stage(bl_usb_status_pid(dp), 1, 0)>>

(* bl_ohci_control_transfer: with no data an extra zero-length TD with    *)
(* the status pid and toggle 1 takes the place of the data stage; then    *)
(* the STATUS TD, which becomes the ED's tail.  The controller stops when *)
(* head reaches tail, so the device sees every TD but the last.           *)
OhciControlTransfer(r) ==
    LET dp    == bl_usb_direction_pid(r.dir)
        sp    == bl_usb_status_pid(dp)
        built == <<Stage("SETUP", 0, SetupLen)>>
                 \o (IF r.length = 0 THEN <<Stage(sp, 1, 0)>>
                     ELSE DataLoop(dp, 0, r.length, LegacyMps(r)))
                 \o <<Stage(sp, 1, 0)>>
    IN  SubSeq(built, 1, Len(built) - 1)

(* bl_ehci_control_transfer: with no data one IN qTD with toggle 1;       *)
(* otherwise the data loop and a STATUS qTD with toggle 1 whose pid is    *)
(* again taken from the setup's direction bit.                            *)
EhciControlTransfer(r) ==
    LET dp == IF r.dir = "IN" THEN "IN" ELSE "OUT"
    IN  <<Stage("SETUP", 0, SetupLen)>>
        \o (IF r.length = 0 THEN <<Stage("IN", 1, 0)>>
            ELSE DataLoop(dp, 0, r.length, LegacyMps(r))
                 \o <<Stage(dp, 1, 0)>>)

(* bl_xhci_control_transfer: a Setup TRB, Data TRBs with dir = 1 (IN)     *)
(* and a Status TRB with dir = 0 (OUT), whatever the request.  The xHC    *)
(* generates the toggles itself, in the standard order.                   *)
XhciControlTransfer(r) ==
    <<Stage("SETUP", 0, SetupLen)>>
    \o DataLoop("IN", 0, r.length, XhciMps(r))
    \o <<Stage("OUT", 1, 0)>>

-----------------------------------------------------------------------------
(* The caller issues one request after another, any of them.              *)
VARIABLE req

TypeOK == req \in Requests

Init == req \in Requests

Issue(r) == req' = r

Next == \E r \in Requests : Issue(r)

Spec == Init /\ [][Next]_req

(* Each driver's transactions are the standard's, for every request the   *)
(* boot loader issues: SETUP/0, DATA chunks with alternating toggles from *)
(* 1, STATUS/1 in the opposite direction.                                 *)
UhciStagesStandard ==
    UhciControlTransfer(req) = ReferenceStages(req.dir, req.length, LegacyMps(req))

(* The same for bl_ohci_control_transfer's TDs up to the ED's tail.     *)
OhciStagesStandard ==
    OhciControlTransfer(req) = ReferenceStages(req.dir, req.length, LegacyMps(req))

(* The same for bl_ehci_control_transfer's qTD chain.                   *)
EhciStagesStandard ==
    EhciControlTransfer(req) = ReferenceStages(req.dir, req.length, LegacyMps(req))

(* The same for bl_xhci_control_transfer's Setup/Data/Status TRBs.       *)
XhciStagesStandard ==
    XhciControlTransfer(req) = ReferenceStages(req.dir, req.length, XhciMps(req))
=============================================================================
