------------------------------ MODULE UsbStorage ------------------------------
(***************************************************************************)
(* The USB mass-storage path on top of the UHCI engine: bl_storage_probe  *)
(* (core/storage/storage.c) calls the USB SCSI controller's get_info and  *)
(* the partition probe's first sector read, and usb-scsi.c turns each    *)
(* SCSI command into the three bulk-only phases (CBW OUT, data, CSW IN),  *)
(* each a synchronous bl_usb_bulk_transfer whose result nobody sees.     *)
(*                                                                         *)
(* The storage driver is a caller of UhciTransfer's entry points: its     *)
(* next phase is issued when the engine is idle, and the engine, the      *)
(* controller and the device behave as in UhciTransfer.                   *)
(***************************************************************************)
EXTENDS UhciTransfer

CONSTANTS BulkMps,      \* the bulk endpoints' max_packet_size
          ControlMps,    \* dev_desc.max_packet_size
          SectorSize     \* BL_STORAGE_SECTOR_SIZE

(* sizeof the structures usb-scsi.h transfers. *)
CbwLen == 31
CswLen == 13
InquiryLen == 36
SenseLen == 18
Cap10Len == 8
Cap16Len == 32

(* bl_usb_bulk_transfer: direction 1 takes the OUT endpoint, 0 the IN one. *)
Bulk(dir, len) == [kind |-> "bulk", dir |-> dir, length |-> len, mps |-> BulkMps,
                   ep |-> IF dir = "OUT" THEN "out" ELSE "in"]

(* bl_usb_scsi_bbb_execute_command with direction 0 (every command here   *)
(* reads): CBW, data, CSW, whatever each transfer did.                    *)
ExecuteCommand(len) == <<Bulk("OUT", CbwLen), Bulk("IN", len), Bulk("IN", CswLen)>>

SenseData == ExecuteCommand(SenseLen)

(* bl_usb_scsi_get_luns: a class-specific control read of one byte. *)
GetLuns == <<[kind |-> "control", dir |-> "IN", length |-> 1, mps |-> ControlMps, ep |-> "ep0"]>>

Inquiry == ExecuteCommand(InquiryLen) \o SenseData

(* bl_usb_scsi_get_size: READ CAPACITY (10), and (16) when the LBA read   *)
(* is the all-ones sentinel; data1 is whatever the data phase left in it. *)
GetSize(large) ==
    ExecuteCommand(Cap10Len) \o SenseData
    \o (IF large THEN ExecuteCommand(Cap16Len) \o SenseData ELSE <<>>)

(* bl_usb_scsi_get_info after bl_usb_scsi_validate_device has passed.    *)
GetInfo(large) == GetLuns \o Inquiry \o GetSize(large)

(* bl_usb_scsi_read10 of one sector, then the sense data. *)
Read10 == ExecuteCommand(SectorSize) \o SenseData

StorageRequests ==
    UNION {{s[i] : i \in DOMAIN s} : s \in {GetInfo(FALSE), GetInfo(TRUE), Read10}}

-----------------------------------------------------------------------------
VARIABLES disk,    \* disk->controller: "NULL", "GARBAGE" (never written), "SCSI"
          sop,     \* where bl_init is: "none", "info", "read", "done", "error"
          phases   \* the transfers the current SCSI operation still issues

svars == <<vars, disk, sop, phases>>

(* bl_usb_claim_storage_device allocates the disk without zeroing it and  *)
(* never writes disk->controller: the field holds 0 or a stale pointer.   *)
StorageInit ==
    /\ Init
    /\ disk \in {"NULL", "GARBAGE"} /\ sop = "none" /\ phases = <<>>

(* bl_storage_probe on the one USB disk: a non-NULL controller is called  *)
(* through; a NULL one is matched to the USB SCSI controller; get_info     *)
(* validates the interface and sets both toggles to 0, then issues its    *)
(* transfers.                                                              *)
ProbeStart ==
    /\ pc = "idle" /\ sop = "none"
    /\ \/ /\ disk = "GARBAGE"
          /\ pc' = "fault" /\ UNCHANGED <<qh, td, toggle, call, timeout, calls, last, disk, sop, phases>>
       \/ /\ disk = "NULL" /\ disk' = "SCSI"
          /\ \/ sop' = "error" /\ UNCHANGED <<toggle, phases>>
             \/ /\ toggle' = [toggle EXCEPT !["in"] = 0, !["out"] = 0]
                /\ \E large \in BOOLEAN : phases' = GetInfo(large)
                /\ sop' = "info"
          /\ UNCHANGED <<qh, td, pc, call, timeout, calls, last>>

(* The next transfer of the SCSI operation, through the controller's      *)
(* control_transfer or bulk_transfer; the status is dropped.              *)
ScsiPhase ==
    /\ sop \in {"info", "read"} /\ phases /= <<>>
    /\ LET r == Head(phases)
       IN  IF r.kind = "control" THEN ControlTransfer(r) ELSE BulkTransfer(r)
    /\ phases' = Tail(phases)
    /\ UNCHANGED <<disk, sop>>

(* get_info has returned SUCCESS (it cannot fail once validated); the     *)
(* partition probe reads sector 0 through bl_storage_device_read, whose   *)
(* bounce buffer allocation may fail.                                     *)
InfoDone ==
    /\ pc = "idle" /\ sop = "info" /\ phases = <<>>
    /\ \/ sop' = "read" /\ phases' = Read10
       \/ sop' = "done" /\ UNCHANGED phases
    /\ UNCHANGED <<vars, disk>>

(* The read has returned and the first partition table's iterate with it *)
(* (a later table's reads are not modelled); the probe moves to          *)
(* disk->next, which is NULL for the one disk.                            *)
ReadDone ==
    /\ pc = "idle" /\ sop = "read" /\ phases = <<>>
    /\ sop' = "done"
    /\ UNCHANGED <<vars, disk, phases>>

StorageCpu ==
    /\ \/ DriverStep /\ UNCHANGED <<disk, sop, phases>>
       \/ ProbeStart \/ ScsiPhase \/ InfoDone \/ ReadDone
    /\ UNCHANGED devToggle

StorageNext == StorageCpu \/ (HcStep /\ UNCHANGED <<disk, sop, phases>>)

(* One CPU, no preemption: the probe runs to its end. *)
StorageSpec == StorageInit /\ [][StorageNext]_svars /\ WF_svars(StorageCpu)

-----------------------------------------------------------------------------
StorageTypeOK ==
    /\ TypeOK
    /\ disk \in {"NULL", "GARBAGE", "SCSI"}
    /\ sop \in {"none", "info", "read", "done", "error"}
    /\ phases \in Seq(StorageRequests)

(* bl_storage_probe returns: once get_info has started, the probe reaches *)
(* its end (or the CPU has crashed), whatever the device and controller   *)
(* do, because every bulk-only phase is a bounded synchronous transfer.  *)
ProbeTerminates == sop \in {"info", "read"} ~> (sop \in {"done", "error"} \/ pc = "fault")
=============================================================================
