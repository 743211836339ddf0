--------------------------- MODULE MCUsbTraversal ---------------------------
(* The traversal queue with two hubs and a five-slot array, so that the   *)
(* capacity (four accepted pushes) is reached with pops interleaved.      *)
EXTENDS UsbTraversal

CONSTANTS h1, h2

MCHubs == {h1, h2}
MCTravSize == 5
=============================================================================
