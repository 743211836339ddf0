----------------------------- MODULE EhciTransfer -----------------------------
(***************************************************************************)
(* The EHCI transfer engine of src/boot-loader/modules/usb/ehci/ehci.c    *)
(* (control transfers: the driver has no bulk path) and the host          *)
(* controller walking its asynchronous schedule.                          *)
(*                                                                         *)
(* bl_ehci_init_data_structures gives the controller qh_head, whose link  *)
(* points to itself, a pool of queue heads (qhs[0] kept for address 0's   *)
(* default pipe) and a pool of qTDs.  A transfer finds its QH by address, *)
(* links it after qh_head the first time, takes the first free qTDs,      *)
(* chains them through next_qtd (= original_next_qtd), writes the first   *)
(* into the QH's overlay, clears the overlay's halted and active bits and *)
(* polls with a budget.  The controller copies the qTD the overlay's      *)
(* next pointer names into the overlay, runs it and writes its status     *)
(* back; a halt stops the QH.                                             *)
(*                                                                         *)
(* A qTD keeps its stage (pid, toggle, length); buffers, speed, split and *)
(* max packet fields are left out.  The overlay keeps active, halted and  *)
(* the error bit the controller set.                                      *)
(***************************************************************************)
EXTENDS Naturals, Sequences, FiniteSets
LOCAL INSTANCE FiniteSetsExt
LOCAL INSTANCE Functions

CONSTANTS NumQhs,      \* BL_EHCI_NUM_QHS
          NumQtd,      \* BL_EHCI_NUM_QTDS
          Timeout,     \* the budget passed to bl_ehci_check_transfer_timeout (100)
          Requests,    \* the control transfers the core issues
          MaxCalls,    \* how many transfers one behaviour issues
          Outcomes,    \* what the bus makes of one transaction
          UninitChars, \* the address field of a QH's chars, never initialised
          UninitUsed,  \* what a qTD's used flag may hold, never initialised
          NULL,        \* a link that holds 0
          TERM,        \* a link with the T bit
          GARBAGE      \* an address field holding junk that matches no device

CS == INSTANCE ControlStages WITH MaxLength <- 1, PacketSizes <- {8},
                                   XhciCtxMps <- 8, req <- NULL

Q == 0 .. NumQhs - 1
QhHead == NumQhs   \* qh_head, a QH of its own outside the pool
D == 0 .. NumQtd - 1

(* The error bits of a qTD token's status byte the controller sets. *)
ErrBits == {"none", "XACTERR", "BABBLE", "DATA_BUFFER_ERROR", "MISSED_MICRO_FRAME"}

(* bl_ehci_transfer_status: switch on BL_EHCI_QTD_TOKEN_STATUS(token),    *)
(* the whole status byte (token & 0xff), ACTIVE and HALTED included, with *)
(* one case per single error bit.                                         *)
StatusByte(q) ==
    (IF q.active THEN {"ACTIVE"} ELSE {}) \cup (IF q.halted THEN {"HALTED"} ELSE {})
    \cup (IF q.err = "none" THEN {} ELSE {q.err})

bl_ehci_transfer_status(q) ==
    CASE StatusByte(q) = {"BABBLE"} -> "USB_BABBLE_DETECTED"
      [] StatusByte(q) \in {{"MISSED_MICRO_FRAME"}, {"XACTERR"}, {"DATA_BUFFER_ERROR"}}
                                    -> "USB_DATA_BUFFER_ERROR"
      [] OTHER                      -> "USB_NAK_RECEIVED"

-----------------------------------------------------------------------------
VARIABLES qh,     \* the QH pool: address field, used, link, overlay, current, first/last qTD
          head,   \* qh_head->link
          qtd,    \* the qTD pool: used, active, next_qtd, stage
          pc,     \* "idle", "poll" (bl_ehci_check_transfer_timeout)
          call,   \* the transfer in progress: its request, QH and qTDs
          timeout,\* the loop counter of bl_ehci_check_transfer_timeout
          calls,  \* transfers issued so far
          last    \* what the last transfer returned, why its QH halted, its qTDs

vars == <<qh, head, qtd, pc, call, timeout, calls, last>>

(* bl_ehci_reset_qh: overlay links set to T, then the whole overlay       *)
(* memset to 0 (so next_qtd holds 0, not T), then halted set.             *)
ResetOverlay(q) == [q EXCEPT !.next = NULL, !.active = FALSE, !.halted = TRUE, !.err = "none"]

(* bl_ehci_init_data_structures: each QH unused, its link pointing to     *)
(* itself, its overlay reset; chars is never written, so its address     *)
(* field is whatever the heap held.  The qTD loop writes only the links,  *)
(* not used; the heap block is not zeroed, so used is not known either.   *)
Init ==
    /\ \E a \in [Q -> UninitChars] :
           qh = [i \in Q |-> ResetOverlay([addr |-> a[i], used |-> FALSE, link |-> i,
                                          next |-> TERM, active |-> FALSE, halted |-> FALSE,
                                          err |-> "none", cur |-> NULL, first |-> NULL,
                                          lastq |-> NULL])]
    /\ head = QhHead
    /\ \E u \in [D -> UninitUsed] :
           qtd = [t \in D |-> [used |-> u[t], active |-> FALSE, next |-> TERM, stage |-> NULL]]
    /\ pc = "idle" /\ call = NULL /\ timeout = 0 /\ calls = 0 /\ last = NULL

(* bl_ehci_alloc_qh: from 1, the first QH whose address and endpoint      *)
(* fields are the request's, or both 0.                                    *)
bl_ehci_alloc_qh(addr) ==
    LET F == {i \in Q \ {0} : qh[i].addr \in {addr, 0}} IN IF F = {} THEN NULL ELSE Min(F)

(* bl_ehci_init_qh: qhs[0] for address 0, else the pool's. *)
bl_ehci_init_qh(r) == IF r.addr = 0 THEN 0 ELSE bl_ehci_alloc_qh(r.addr)

(* bl_ehci_set_qh ORs the address into chars: a free QH takes it, junk   *)
(* stays junk.                                                             *)
SetAddr(a, addr) == IF a = GARBAGE THEN GARBAGE ELSE addr

(* A variant of bl_ehci_link_qh that writes qh_head's link first and then *)
(* reads it back for the QH's own link.                                   *)
QhTakenSwapped(i, addr) ==
    IF qh[i].used THEN qh
    ELSE [qh EXCEPT ![i].addr = SetAddr(@, addr), ![i].link = i, ![i].used = TRUE]

(* The QH pool after bl_ehci_init_qh: the first time a QH is used,        *)
(* bl_ehci_set_qh writes its chars, bl_ehci_link_qh gives it qh_head's   *)
(* old link and makes qh_head point to it, and used is set.               *)
QhTaken(i, addr) ==
    IF qh[i].used THEN qh
    ELSE [qh EXCEPT ![i].addr = SetAddr(@, addr), ![i].link = head, ![i].used = TRUE]

HeadAfter(i) == IF qh[i].used THEN head ELSE i

(* A variant whose scan runs one slot past the end of the pool. *)
FreeQtdsPastEnd == {t \in 0 .. NumQtd : t = NumQtd \/ ~qtd[t].used}

(* bl_ehci_alloc_qtd's scan: the qTDs whose used flag is clear. *)
FreeQtds == {t \in D : ~qtd[t].used}

(* n calls of bl_ehci_alloc_qtd: the n lowest free qTDs, fewer if the     *)
(* pool runs out.                                                          *)
RECURSIVE Lowest(_, _)
Lowest(S, n) == IF n = 0 \/ S = {} THEN <<>> ELSE <<Min(S)>> \o Lowest(S \ {Min(S)}, n - 1)

(* The qTD pool after bl_ehci_init_qtd has filled p[k] with stage st[k]   *)
(* (active, links T) and each was linked from the one before it.          *)
Built(p, st) ==
    [t \in D |->
        IF t \in Range(p)
        THEN LET k == CHOOSE j \in DOMAIN p : p[j] = t
             IN  [used |-> TRUE, active |-> TRUE, stage |-> st[k],
                  next |-> IF k < Len(p) THEN p[k + 1] ELSE TERM]
        ELSE qtd[t]]

(* The qTDs bl_ehci_free_qtd_list visits: from first_qtd along            *)
(* original_next_qtd until a link with the T bit.                         *)
RECURSIVE Chain(_, _)
Chain(t, n) == IF t \in {TERM, NULL} \/ n = 0 THEN {} ELSE {t} \cup Chain(qtd[t].next, n - 1)

(* bl_ehci_free_qtd_list: reset the overlay, clear used along the chain. *)
bl_ehci_free_qtd_list(i) ==
    /\ qh' = [qh EXCEPT ![i] = ResetOverlay(@)]
    /\ qtd' = [t \in D |-> IF t \in Chain(qh[i].first, NumQtd)
                           THEN [qtd[t] EXCEPT !.used = FALSE] ELSE qtd[t]]

Issue(r) == pc = "idle" /\ calls < MaxCalls /\ calls' = calls + 1

Return(r, status, cause, tds) ==
    /\ pc' = "idle" /\ call' = NULL /\ timeout' = 0
    /\ last' = [addr |-> r.addr, status |-> status, cause |-> cause, tds |-> tds]

-----------------------------------------------------------------------------
(* bl_ehci_control_transfer: the QH (INTERNAL_ERROR if none), then SETUP, *)
(* the data loop or the zero-length IN qTD, and STATUS; a failed qTD      *)
(* allocation returns INTERNAL_ERROR and keeps the QH linked and the qTDs *)
(* it took.  Otherwise first_qtd and the overlay's next_qtd name the      *)
(* SETUP qTD, last_qtd the last one, halted and active are cleared in the *)
(* overlay (its other bits and current_qtd stay), and the QH is polled.   *)
ControlTransfer(r) ==
    /\ Issue(r)
    /\ LET i  == bl_ehci_init_qh(r)
           st == CS!EhciControlTransfer(r)
           p  == Lowest(FreeQtds, Len(st))
       IN  IF i = NULL
           THEN Return(r, "INTERNAL_ERROR", "none", {}) /\ UNCHANGED <<qh, head, qtd>>
           ELSE /\ qtd' = Built(p, st)
                /\ head' = HeadAfter(i)
                /\ IF Len(p) < Len(st)
                   THEN qh' = QhTaken(i, r.addr) /\ Return(r, "INTERNAL_ERROR", "none", Range(p))
                   ELSE /\ qh' = [QhTaken(i, r.addr) EXCEPT
                                     ![i].first = p[1], ![i].next = p[1], ![i].lastq = p[Len(p)],
                                     ![i].halted = FALSE, ![i].active = FALSE]
                        /\ pc' = "poll" /\ timeout' = Timeout
                        /\ call' = [req |-> r, qh |-> i, tds |-> Range(p)]
                        /\ UNCHANGED last

-----------------------------------------------------------------------------
(* One pass of `while (--timeout)' in bl_ehci_check_transfer_timeout and  *)
(* its ways out.                                                           *)
CallQh == qh[call.qh]

(* Why the polled QH stopped, as the controller recorded it. *)
Cause(q) == IF ~q.halted THEN "none" ELSE IF q.err = "none" THEN "stall" ELSE q.err

(* A variant of bl_ehci_transfer_finished that does not look at active. *)
TransferDoneEager(q) == ~q.halted /\ q.next = TERM /\ q.lastq = q.cur

(* bl_ehci_transfer_finished's SUCCESS: not halted, overlay inactive,     *)
(* next_qtd T and current_qtd the last qTD.                               *)
TransferDone(q) == ~q.halted /\ ~q.active /\ q.next = TERM /\ q.lastq = q.cur

(* SUCCESS: free the qTD list and return. *)
PollSuccess ==
    /\ pc = "poll" /\ timeout - 1 > 0
    /\ TransferDone(CallQh)
    /\ bl_ehci_free_qtd_list(call.qh)
    /\ Return(call.req, "SUCCESS", "none", call.tds)
    /\ UNCHANGED <<head, calls>>

(* SHOULD_CHECK_STATUS: halted; break and decode the overlay. *)
PollHalted ==
    /\ pc = "poll" /\ timeout - 1 > 0
    /\ CallQh.halted
    /\ Return(call.req, bl_ehci_transfer_status(CallQh), Cause(CallQh), call.tds)
    /\ UNCHANGED <<qh, head, qtd, calls>>

(* ACTION_NOT_FINISHED: sleep and go round. *)
PollNotFinished ==
    /\ pc = "poll" /\ timeout - 1 > 0
    /\ ~CallQh.halted /\ ~TransferDone(CallQh)
    /\ timeout' = timeout - 1
    /\ UNCHANGED <<qh, head, qtd, pc, call, calls, last>>

(* A variant that gives the qTDs back on timeout. *)
PollTimeoutFreeing ==
    /\ pc = "poll" /\ timeout - 1 = 0
    /\ qtd' = [t \in D |-> IF t \in call.tds THEN [qtd[t] EXCEPT !.used = FALSE] ELSE qtd[t]]
    /\ Return(call.req, bl_ehci_transfer_status(CallQh), Cause(CallQh), call.tds)
    /\ UNCHANGED <<qh, head, calls>>

(* The budget is spent: decode the overlay; the QH keeps its qTDs, which  *)
(* stay used and in the controller's reach.                               *)
PollTimeout ==
    /\ pc = "poll" /\ timeout - 1 = 0
    /\ Return(call.req, bl_ehci_transfer_status(CallQh), Cause(CallQh), call.tds)
    /\ UNCHANGED <<qh, head, qtd, calls>>

-----------------------------------------------------------------------------
(* The host controller.  It walks the asynchronous schedule from qh_head  *)
(* through the QHs' horizontal links back to qh_head.                     *)
RECURSIVE Walk(_, _)
Walk(x, n) == IF x = QhHead \/ n = 0 THEN {} ELSE {x} \cup Walk(qh[x].link, n - 1)

OnSchedule == Walk(head, NumQhs)

(* Advance the queue: an inactive, unhalted overlay whose next_qtd names  *)
(* a qTD takes that qTD's token and next pointer; current_qtd names it.   *)
HcFetch(i) ==
    /\ i \in OnSchedule /\ ~qh[i].halted /\ ~qh[i].active /\ qh[i].next \in D
    /\ qh' = [qh EXCEPT ![i].cur = qh[i].next, ![i].next = qtd[qh[i].next].next,
                        ![i].active = qtd[qh[i].next].active, ![i].err = "none"]
    /\ UNCHANGED <<head, qtd, pc, call, timeout, calls, last>>

(* Execute the overlay's transaction.  On success the qTD is written back *)
(* inactive.  A stall halts the QH with no error bit; three transaction   *)
(* errors in a row (CERR 3) halt it with XACTERR, babble with BABBLE.     *)
(* A QH whose address is junk reaches no device: only errors.             *)
HcExecute(i, o) ==
    /\ i \in OnSchedule /\ qh[i].active /\ ~qh[i].halted
    /\ qh[i].addr = GARBAGE => o = "xacterr"
    /\ qtd' = [qtd EXCEPT ![qh[i].cur].active = FALSE]
    /\ \/ o = "ack" /\ qh' = [qh EXCEPT ![i].active = FALSE]
       \/ /\ o \in {"stall", "xacterr", "babble"}
          /\ qh' = [qh EXCEPT ![i].active = FALSE, ![i].halted = TRUE,
                              ![i].err = CASE o = "stall" -> "none"
                                           [] o = "xacterr" -> "XACTERR"
                                           [] o = "babble" -> "BABBLE"]
    /\ UNCHANGED <<head, pc, call, timeout, calls, last>>

CpuStep ==
    \/ \E r \in Requests : ControlTransfer(r)
    \/ PollSuccess \/ PollHalted \/ PollNotFinished \/ PollTimeout

HcStep == \E i \in Q : HcFetch(i) \/ \E o \in Outcomes : HcExecute(i, o)

Next == CpuStep \/ HcStep

Spec == Init /\ [][Next]_vars

-----------------------------------------------------------------------------
StageSet == [pid : {"SETUP", "IN", "OUT"}, toggle : {0, 1}, len : Nat]

TypeOK ==
    /\ \A i \in Q :
           /\ qh[i].addr \in Nat \cup {GARBAGE} /\ qh[i].used \in BOOLEAN
           /\ qh[i].link \in Q \cup {QhHead}
           /\ qh[i].active \in BOOLEAN /\ qh[i].halted \in BOOLEAN /\ qh[i].err \in ErrBits
           /\ qh[i].next \in D \cup {TERM, NULL} /\ qh[i].cur \in D \cup {NULL}
           /\ qh[i].first \in D \cup {NULL} /\ qh[i].lastq \in D \cup {NULL}
    /\ head \in Q \cup {QhHead}
    /\ \A t \in D : /\ qtd[t].used \in BOOLEAN /\ qtd[t].active \in BOOLEAN
                   /\ qtd[t].next \in D \cup {TERM} /\ qtd[t].stage \in StageSet \cup {NULL}
    /\ pc \in {"idle", "poll"} /\ timeout \in 0 .. Timeout /\ calls \in 0 .. MaxCalls

(* The qTDs the controller will still run on QH i: the one in the overlay *)
(* while it is active, and the chain from the overlay's next_qtd.  A      *)
(* halted QH runs nothing until the driver restarts it.                   *)
Pending(i) ==
    IF qh[i].halted THEN {}
    ELSE (IF qh[i].active THEN {qh[i].cur} ELSE {}) \cup Chain(qh[i].next, NumQtd)

(* Whatever the controller may still run belongs to one transfer: the qTD *)
(* is in use, it is on the chain that bl_ehci_free_qtd_list would walk   *)
(* from the QH's first_qtd, and no other QH of the schedule reaches it.  *)
(* Timed-out and halted transfers keep their qTDs used and the QH keeps   *)
(* pointing at them until the next transfer to that address rewrites the *)
(* overlay, so this is about the used flags and the overlay surviving     *)
(* every interleaving of timeouts, new transfers on the same or another   *)
(* QH and late completions by the controller.                             *)
ScheduledQtdsOwned ==
    \A i \in OnSchedule : \A t \in Pending(i) :
        /\ qtd[t].used
        /\ t \in Chain(qh[i].first, NumQtd)
        /\ \A j \in OnSchedule \ {i} : t \notin Pending(j)

(* Every QH with work the controller has not done is on the asynchronous *)
(* schedule: bl_ehci_link_qh splices a QH in after qh_head the first time *)
(* it is used and nothing unlinks, whichever addresses take QHs in which  *)
(* order.  A QH off the schedule would time out whatever the device did.  *)
LiveQhsReachable ==
    \A i \in Q : (~qh[i].halted /\ (qh[i].active \/ qh[i].next \in D)) => i \in OnSchedule

(* Spec 3 (Transfer Descriptor Chain lifecycle): a transfer that returned *)
(* SUCCESS had every qTD run by the controller, and all of them are back  *)
(* in the pool.                                                            *)
SuccessCompletes ==
    pc = "idle" /\ last /= NULL /\ last.status = "SUCCESS" =>
        \A t \in last.tds : ~qtd[t].active /\ ~qtd[t].used

(* Spec 4.2 (control_transfer): on a halted status the controller's code *)
(* is decoded into its class: a stall into stall, babble into babble     *)
(* detected, and a transaction error into the data-buffer error that the *)
(* switch of bl_ehci_transfer_status names for XACTERR.                   *)
SpecClass(cause) ==
    CASE cause = "stall"   -> "USB_STALLED"
      [] cause = "BABBLE"  -> "USB_BABBLE_DETECTED"
      [] cause = "XACTERR" -> "USB_DATA_BUFFER_ERROR"

ErrorsDecoded ==
    pc = "idle" /\ last /= NULL /\ last.cause /= "none" => last.status = SpecClass(last.cause)
====
