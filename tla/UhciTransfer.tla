----------------------------- MODULE UhciTransfer -----------------------------
(***************************************************************************)
(* The UHCI transfer engine of src/boot-loader/modules/usb/uhci/uhci.c     *)
(* and the host controller that runs its schedule.                        *)
(*                                                                         *)
(* bl_uhci_init_data_structures links every QH of the pool into the       *)
(* schedule, so the controller visits all of them each frame; a QH whose  *)
(* element link pointer has the T bit is skipped.  A transfer takes the   *)
(* first free QH and the first free TDs of the pools (the `used' flags),  *)
(* links the TDs, writes the QH's element pointer last, and then either   *)
(* polls it with a budget (control and bulk, bl_uhci_check_transfer_-     *)
(* timeout).  Only the completion path frees the QH and the TD list.      *)
(* bl_uhci_interrupt_transfer is left out: its one caller, the USB        *)
(* keyboard's getchar, is reached only from bl_keyboard_init and the      *)
(* shell's read loop, both compiled out (init.c:37, shell.c:107).         *)
(*                                                                         *)
(* The controller is the second actor: for any QH whose element is an     *)
(* active TD it runs one transaction, with the result the device gives.  *)
(* TDs keep their stage (pid, toggle, length); buffers and addresses are  *)
(* left out.                                                               *)
(***************************************************************************)
EXTENDS Naturals, Sequences, FiniteSets
LOCAL INSTANCE FiniteSetsExt

CONSTANTS NumQH,     \* BL_UHCI_NUM_QH
          NumTD,     \* BL_UHCI_NUM_TD
          Timeout,   \* the budget passed to bl_uhci_check_transfer_timeout (100)
          Requests,  \* the transfers the class drivers and the core issue
          MaxCalls,  \* how many transfers one behaviour issues
          Outcomes,  \* what one transaction can end in, from the device
          NULL,
          TERM       \* a link pointer whose T bit is set (and address 0)

CS == INSTANCE ControlStages WITH MaxLength <- 1, PacketSizes <- {8},
                                   XhciCtxMps <- 8, req <- NULL

Q == 0 .. NumQH - 1
T == 0 .. NumTD - 1

(* The status bits of a TD's control_status word (uhci.h). *)
Bits == {"ACTIVE", "BITSTUFF", "CRC_TIMEOUT", "NAK", "BABBLE", "DBE", "STALLED"}

(* What the controller writes back after one transaction. *)
ResultBits(o) ==
    CASE o = "ack"    -> {}
      [] o = "nak"    -> {"ACTIVE", "NAK"}
      [] o = "stall"  -> {"STALLED"}
      [] o = "crc3"   -> {"STALLED", "CRC_TIMEOUT"}   \* C_ERR counted down to 0
      [] o = "babble" -> {"STALLED", "BABBLE"}

StatusCodes == {"SUCCESS", "BITSTUFF_ERROR", "TIMEOUT_ERROR", "NAK_RECEIVED",
                "BABBLE_DETECTED", "DATA_BUFFER_ERROR", "STALLED"}

(* bl_uhci_transfer_status: a switch on the status byte whose cases each   *)
(* name a single bit; any other combination is the default, SUCCESS.     *)
bl_uhci_transfer_status(bits) ==
    CASE bits = {"BITSTUFF"}    -> "BITSTUFF_ERROR"
      [] bits = {"CRC_TIMEOUT"} -> "TIMEOUT_ERROR"
      [] bits = {"NAK"}         -> "NAK_RECEIVED"
      [] bits = {"BABBLE"}      -> "BABBLE_DETECTED"
      [] bits = {"DBE"}         -> "DATA_BUFFER_ERROR"
      [] bits = {"STALLED"}     -> "STALLED"
      [] OTHER                  -> "SUCCESS"

(* The data loop of bl_uhci_bulk_interrupt_transfers: toggles start at    *)
(* endp->toggle and alternate, chunks of max_packet_size.                 *)
RECURSIVE BulkLoop(_, _, _, _)
BulkLoop(pid, toggle, length, mps) ==
    IF length > 0
    THEN <<CS!Stage(pid, toggle, CS!MinOf(length, mps))>>
         \o BulkLoop(pid, 1 - toggle, length - mps, mps)
    ELSE <<>>

-----------------------------------------------------------------------------
VARIABLES qh,       \* the QH pool: used, element link pointer, original_element
          td,       \* the TD pool: used, link pointer, status bits, stage
          toggle,   \* endp->toggle of each bulk or interrupt endpoint
          devToggle, \* the device's data toggle of each such endpoint
          pc,       \* "idle", "poll" (timeout loop), "fault"
          call,     \* the transfer in progress: its request, QH and TDs
          timeout,  \* the loop counter of bl_uhci_check_transfer_timeout
          calls,    \* transfers issued so far
          last      \* what the last transfer returned, and the QH and TDs it used

vars == <<qh, td, toggle, devToggle, pc, call, timeout, calls, last>>

Endpoints == {r.ep : r \in {x \in Requests : x.kind /= "control"}}

(* bl_uhci_alloc_qh: the first QH whose used flag is clear, or NULL. *)
FirstFreeQh == LET F == {q \in Q : ~qh[q].used} IN IF F = {} THEN NULL ELSE Min(F)

(* A variant whose scan runs one slot past the end of the pool. *)
FreeTdsPastEnd == {t \in 0 .. NumTD : t = NumTD \/ ~td[t].used}

(* bl_uhci_alloc_td's scan: the TDs whose used flag is clear. *)
FreeTds == {t \in T : ~td[t].used}

(* n calls of bl_uhci_alloc_td: the n lowest free TDs, fewer if the pool  *)
(* runs out.                                                               *)
RECURSIVE Lowest(_, _)
Lowest(S, n) == IF n = 0 \/ S = {} THEN <<>>
                ELSE <<Min(S)>> \o Lowest(S \ {Min(S)}, n - 1)

(* The TD pool after bl_uhci_init_td has filled p[i] with stage st[i] for *)
(* endpoint ep and each TD was linked from the one before it once it was  *)
(* allocated.                                                              *)
Built(p, st, ep) ==
    [t \in T |->
        IF \E i \in DOMAIN p : p[i] = t
        THEN LET i == CHOOSE j \in DOMAIN p : p[j] = t
             IN  [used |-> TRUE, bits |-> {"ACTIVE"}, stage |-> st[i], ep |-> ep,
                  link |-> IF i < Len(p) THEN p[i + 1] ELSE TERM]
        ELSE td[t]]

(* The TDs reached from t through link pointers, as the controller and    *)
(* bl_uhci_free_td_list walk them.                                         *)
RECURSIVE ChainFrom(_)
ChainFrom(t) == IF t = TERM THEN <<>> ELSE <<t>> \o ChainFrom(td[t].link)

ChainSet(t) == {ChainFrom(t)[i] : i \in DOMAIN ChainFrom(t)}

(* The completion path of bl_uhci_transfer_finished: free the TD list     *)
(* from original_element and the QH.                                       *)
FreeTransfer(q) ==
    /\ td' = [t \in T |-> IF t \in ChainSet(qh[q].orig)
                          THEN [td[t] EXCEPT !.used = FALSE] ELSE td[t]]
    /\ qh' = [qh EXCEPT ![q].used = FALSE]

Started(q, p) == [qh EXCEPT ![q] = [used |-> TRUE, elem |-> p[1], orig |-> p[1]]]

Return(r, status, q, tds) ==
    /\ pc' = "idle" /\ call' = NULL /\ timeout' = 0
    /\ last' = [kind |-> r.kind, status |-> status, qh |-> q, tds |-> tds]

TdStatus(q) ==
    IF qh[q].elem = TERM
    THEN StatusCodes  \* td is address 0: whatever the status word there holds
    ELSE {bl_uhci_transfer_status(td[qh[q].elem].bits)}
-----------------------------------------------------------------------------
(* The initial state left by bl_uhci_init_data_structures: every QH free  *)
(* with its element T bit set, every TD free.  The endpoint toggles start *)
(* at 0 (bl_usb_keyboard_initialize, bl_usb_check_storage).              *)
TdInit == [used |-> FALSE, link |-> TERM, bits |-> {}, stage |-> NULL, ep |-> NULL]

Init ==
    /\ qh = [q \in Q |-> [used |-> FALSE, elem |-> TERM, orig |-> NULL]]
    /\ td = [t \in T |-> TdInit]
    /\ toggle = [e \in Endpoints |-> 0] /\ devToggle = [e \in Endpoints |-> 0]
    /\ pc = "idle" /\ call = NULL /\ timeout = 0 /\ calls = 0 /\ last = NULL

Issue(r) == pc = "idle" /\ calls < MaxCalls /\ r \in Requests /\ calls' = calls + 1

(* bl_uhci_control_transfer: QH, then SETUP, DATA and STATUS TDs; a       *)
(* failed allocation returns INTERNAL_ERROR and keeps what it took.       *)
ControlTransfer(r) ==
    /\ Issue(r) /\ r.kind = "control"
    /\ LET st == CS!UhciControlTransfer(r)
           q  == FirstFreeQh
           p  == Lowest(FreeTds, Len(st))
       IN  IF q = NULL
           THEN Return(r, "INTERNAL_ERROR", NULL, {}) /\ UNCHANGED <<qh, td>>
           ELSE /\ td' = Built(p, st, r.ep)
                /\ IF Len(p) < Len(st)
                   THEN /\ qh' = [qh EXCEPT ![q].used = TRUE]
                        /\ Return(r, "INTERNAL_ERROR", q, {p[i] : i \in DOMAIN p})
                   ELSE /\ qh' = Started(q, p)
                        /\ pc' = "poll" /\ timeout' = Timeout
                        /\ call' = [req |-> r, qh |-> q, tds |-> {p[i] : i \in DOMAIN p}]
                        /\ UNCHANGED last
    /\ UNCHANGED toggle

(* bl_uhci_bulk_interrupt_transfers: QH, then one TD per packet from      *)
(* endp->toggle; endp->toggle is written only when every TD was had; the *)
(* QH is NULL when an allocation failed.                                  *)
BIStages(r) == BulkLoop(r.dir, toggle[r.ep], r.length, r.mps)
BITds(r) == Lowest(FreeTds, Len(BIStages(r)))
BIHandle(r) == IF FirstFreeQh /= NULL /\ Len(BITds(r)) = Len(BIStages(r))
               THEN FirstFreeQh ELSE NULL

bl_uhci_bulk_interrupt_transfers(r) ==
    IF FirstFreeQh = NULL
    THEN UNCHANGED <<qh, td, toggle>>
    ELSE /\ td' = Built(BITds(r), BIStages(r), r.ep)
         /\ IF BIHandle(r) = NULL
            THEN qh' = [qh EXCEPT ![FirstFreeQh].used = TRUE] /\ UNCHANGED toggle
            ELSE /\ qh' = Started(FirstFreeQh, BITds(r))
                 /\ toggle' = [toggle EXCEPT ![r.ep] = (@ + Len(BIStages(r))) % 2]

BICall(r) == [req |-> r, qh |-> BIHandle(r),
              tds |-> {BITds(r)[i] : i \in DOMAIN BITds(r)}]

(* bl_uhci_bulk_transfer: polls the QH with the budget; a NULL QH is      *)
(* dereferenced by bl_uhci_transfer_finished.                              *)
BulkTransfer(r) ==
    /\ Issue(r) /\ r.kind = "bulk"
    /\ bl_uhci_bulk_interrupt_transfers(r)
    /\ IF BIHandle(r) = NULL
       THEN pc' = "fault" /\ UNCHANGED <<call, timeout, last>>
       ELSE pc' = "poll" /\ call' = BICall(r) /\ timeout' = Timeout /\ UNCHANGED last

-----------------------------------------------------------------------------
(* One pass of `while (--timeout)' in bl_uhci_check_transfer_timeout.    *)
(* Its three ways out are three actions.                                   *)

(* bl_uhci_transfer_finished sees the T bit: free everything, SUCCESS. *)
PollFinished ==
    /\ pc = "poll" /\ timeout - 1 > 0
    /\ qh[call.qh].elem = TERM
    /\ FreeTransfer(call.qh)
    /\ Return(call.req, "SUCCESS", call.qh, call.tds)
    /\ UNCHANGED <<toggle, calls>>

(* A variant that forgets to count the pass. *)
PollNotFinishedNoCount ==
    /\ pc = "poll" /\ timeout - 1 > 0
    /\ qh[call.qh].elem /= TERM
    /\ UNCHANGED vars

(* ACTION_NOT_FINISHED: sleep 1 ms and go round. *)
PollNotFinished ==
    /\ pc = "poll" /\ timeout - 1 > 0
    /\ qh[call.qh].elem /= TERM
    /\ timeout' = timeout - 1
    /\ UNCHANGED <<qh, td, toggle, pc, call, calls, last>>

(* A variant that returns the QH and TDs to the pools on timeout. *)
PollTimeoutFreeing ==
    /\ pc = "poll" /\ timeout - 1 = 0
    /\ \E s \in TdStatus(call.qh) : Return(call.req, s, call.qh, call.tds)
    /\ FreeTransfer(call.qh)
    /\ UNCHANGED <<toggle, calls>>

(* The budget is spent: decode the status of the TD the element pointer   *)
(* names; the QH stays in the schedule and nothing is freed.             *)
PollTimeout ==
    /\ pc = "poll" /\ timeout - 1 = 0
    /\ \E s \in TdStatus(call.qh) : Return(call.req, s, call.qh, call.tds)
    /\ UNCHANGED <<qh, td, toggle, calls>>

-----------------------------------------------------------------------------
(* The host controller: the TD an active QH element names runs one        *)
(* transaction.  An ACK advances the element to the TD's link pointer;   *)
(* a NAK leaves the TD active; an error halts it where it is.  The       *)
(* device's toggle of a bulk or interrupt endpoint advances with every    *)
(* packet it acknowledges.                                                *)
HcTransaction(q, o) ==
    LET t == qh[q].elem
    IN  /\ t /= TERM /\ "ACTIVE" \in td[t].bits
        /\ td' = [td EXCEPT ![t].bits = ResultBits(o)]
        /\ qh' = IF o = "ack" THEN [qh EXCEPT ![q].elem = td[t].link] ELSE qh
        /\ devToggle' = IF o = "ack" /\ td[t].ep \in Endpoints
                        THEN [devToggle EXCEPT ![td[t].ep] = 1 - @] ELSE devToggle
        /\ UNCHANGED <<toggle, pc, call, timeout, calls, last>>

(* The steps of the driver, whichever caller they serve. *)
DriverStep ==
    \/ PollFinished \/ PollNotFinished \/ PollTimeout

CpuStep ==
    /\ \/ \E r \in Requests : ControlTransfer(r) \/ BulkTransfer(r)
       \/ DriverStep
    /\ UNCHANGED devToggle

HcStep == \E q \in Q, o \in Outcomes : HcTransaction(q, o)

Next == CpuStep \/ HcStep

(* The boot loader runs one thread with no preemption: a transfer it has  *)
(* started is polled to its end.  The controller gets no fairness: the    *)
(* device may NAK for ever.                                               *)
Spec == Init /\ [][Next]_vars /\ WF_vars(CpuStep)

-----------------------------------------------------------------------------
StageSet == [pid : {"SETUP", "IN", "OUT"}, toggle : {0, 1}, len : Nat]

TypeOK ==
    /\ \A q \in Q : /\ qh[q].used \in BOOLEAN
                   /\ (qh[q].elem \in T \/ qh[q].elem = TERM)
                   /\ (qh[q].orig \in T \/ qh[q].orig = NULL)
    /\ \A t \in T : /\ td[t].used \in BOOLEAN /\ td[t].bits \subseteq Bits
                   /\ (td[t].link \in T \/ td[t].link = TERM)
                   /\ (td[t].stage \in StageSet \/ td[t].stage = NULL)
    /\ toggle \in [Endpoints -> {0, 1}] /\ devToggle \in [Endpoints -> {0, 1}]
    /\ pc \in {"idle", "poll", "fault"}
    /\ timeout \in 0 .. Timeout /\ calls \in 0 .. MaxCalls

(* The controller runs the TD a QH's element names when it is active. *)
Executable(q) == qh[q].elem /= TERM /\ "ACTIVE" \in td[qh[q].elem].bits

(* Whatever the controller may still execute belongs to one transfer: its *)
(* QH is in use, its TDs are in use and on the list that QH's original    *)
(* element frees, and no other QH reaches them.  Timed-out and halted     *)
(* transfers stay in the schedule, so this is about the pools' used flags *)
(* surviving every interleaving of timeouts, new transfers and late       *)
(* completions by the controller.                                         *)
ScheduledTdsOwned ==
    \A q \in Q : Executable(q) =>
        /\ qh[q].used
        /\ \A t \in ChainSet(qh[q].elem) :
               /\ td[t].used /\ t \in ChainSet(qh[q].orig)
               /\ \A q2 \in Q \ {q} : qh[q2].elem /= TERM => t \notin ChainSet(qh[q2].elem)

(* While a control transfer is polled, the TD list the controller walks   *)
(* from the QH is the standard SETUP/DATA/STATUS sequence (spec 4.2),     *)
(* whichever TDs of the pool it was built from.                           *)
UhciChainStandard ==
    pc = "poll" /\ call.req.kind = "control" =>
        LET c == ChainFrom(qh[call.qh].orig)
        IN  [i \in DOMAIN c |-> td[c[i]].stage]
                = CS!ReferenceStages(call.req.dir, call.req.length, CS!LegacyMps(call.req))

(* Spec 4.2: a control transfer reports SUCCESS only when the controller  *)
(* completed every one of its TDs; a NAKing, halted or unanswered one     *)
(* reports the error class its status bits give.                          *)
StatusHonest ==
    pc = "idle" /\ last /= NULL /\ last.kind = "control" /\ last.status = "SUCCESS"
        => \A t \in last.tds : td[t].bits = {}

(* Spec 3 and scenario 4: once a control transfer has returned, whatever  *)
(* its result, its QH and TDs are back in their pools.                   *)
ResourcesReturned ==
    pc = "idle" /\ last /= NULL /\ last.kind = "control" =>
        /\ last.qh /= NULL => ~qh[last.qh].used
        /\ \A t \in last.tds : ~td[t].used

(* Spec 4.2 and glossary: the endpoint's toggle is updated after the     *)
(* transfer and must match the device's for each packet.  So between     *)
(* transfers the toggle bl_uhci_bulk_interrupt_transfers will start from  *)
(* is the device's, whatever the last transfer on that endpoint did.     *)
ToggleInSync == pc = "idle" => toggle = devToggle

=============================================================================
