--------------------------- MODULE MCEhciTransfer ---------------------------
(* The EHCI engine serving enumeration: SET_ADDRESS to address 0 on qhs[0] *)
(* and GET_DESCRIPTOR to two addressed devices, each taking a QH of the   *)
(* pool.  Three QHs and six qTDs: a leaked transfer leaves too few qTDs   *)
(* for the next.                                                           *)
EXTENDS EhciTransfer

MCRequests ==
    {[addr |-> 0, dir |-> "OUT", length |-> 0, mps |-> 8],
     [addr |-> 1, dir |-> "IN", length |-> 8, mps |-> 8],
     [addr |-> 2, dir |-> "IN", length |-> 8, mps |-> 8]}
=============================================================================
