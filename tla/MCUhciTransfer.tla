---------------------------- MODULE MCUhciTransfer ----------------------------
(* The UHCI engine serving bl_storage_probe, with two QHs and a TD pool   *)
(* that holds one sector read: a transfer that leaks its TDs leaves too   *)
(* few for the read, and two leaks exhaust the QHs.                       *)
EXTENDS UsbStorage

MCRequests == StorageRequests
====
