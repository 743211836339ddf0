--------------------------- MODULE MCOhciTransfer ---------------------------
(* The OHCI engine serving enumeration and the storage driver: control    *)
(* transfers to address 0 and to two addressed devices (so control_eds[0] *)
(* is handed from one device to another and control_eds[1] is taken),    *)
(* and the bulk-only CBW OUT and CSW IN of a disk on address 1.  Two EDs  *)
(* a list and six TDs: a leaked transfer leaves too few TDs for the next. *)
EXTENDS OhciTransfer

MCRequests ==
    {[kind |-> "control", ae |-> AddressEndpoint(0, 0), dir |-> "OUT", length |-> 0, mps |-> 8],
     [kind |-> "control", ae |-> AddressEndpoint(1, 0), dir |-> "IN", length |-> 8, mps |-> 8],
     [kind |-> "control", ae |-> AddressEndpoint(2, 0), dir |-> "IN", length |-> 8, mps |-> 8],
     [kind |-> "bulk", ae |-> AddressEndpoint(1, 2), dir |-> "OUT", length |-> 31, mps |-> 64],
     [kind |-> "bulk", ae |-> AddressEndpoint(1, 1), dir |-> "IN", length |-> 13, mps |-> 64]}
=============================================================================
