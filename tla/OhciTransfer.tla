----------------------------- MODULE OhciTransfer -----------------------------
(***************************************************************************)
(* The OHCI transfer engine of src/boot-loader/modules/usb/ohci/ohci.c and *)
(* the host controller that walks its two ED lists.                       *)
(*                                                                         *)
(* bl_ohci_init_data_structures gives the controller two ED pools, the    *)
(* control list headed by control_eds[0] and the bulk list headed by      *)
(* bulk_eds[0], every ED with the skip flag; an ED joins its list when    *)
(* bl_ohci_alloc_ed links it from the ED before it.  A transfer finds its *)
(* ED by address and endpoint, takes the first free TDs of the pool,      *)
(* links them through next_td (for the controller) and original_next_td  *)
(* (a ring, for bl_ohci_free_td_list), makes the last TD the ED's tail,   *)
(* clears skip and polls with a budget.  The controller runs the TD at    *)
(* an ED's head while head and tail differ and the ED is neither skipped  *)
(* nor halted; a retired TD moves the head to its next_td.                *)
(*                                                                         *)
(* A TD keeps its stage (pid, toggle, length) and its condition code;     *)
(* buffers, speed and max packet size fields are left out.                *)
(***************************************************************************)
EXTENDS Naturals, Sequences, FiniteSets
LOCAL INSTANCE FiniteSetsExt
LOCAL INSTANCE Functions

CONSTANTS NumEds,    \* BL_OHCI_NUM_CONTROL_EDS and BL_OHCI_NUM_BULK_EDS
          NumTD,     \* BL_OHCI_NUM_GENERAL_TDS
          Timeout,   \* the budget passed to bl_ohci_check_transfer_timeout (100)
          Requests,  \* the transfers the core issues through the controller
          MaxCalls,  \* how many transfers one behaviour issues
          Outcomes,  \* what the device makes of one transaction
          UninitNext, \* what bulk_eds[i].next_ed may hold when it was never written
          NULL,
          GARBAGE    \* a pointer read from memory nothing initialised

CS == INSTANCE ControlStages WITH MaxLength <- 1, PacketSizes <- {8},
                                   XhciCtxMps <- 8, req <- NULL

Lists == {"control", "bulk"}
E == 0 .. NumEds - 1
T == 0 .. NumTD - 1

(* BL_OHCI_ED_ADDRESS_ENDPOINT: the function address and endpoint number *)
(* as the low bits of the ED's flags; 0 marks an ED nobody has taken.     *)
AddressEndpoint(addr, ep) == addr + 128 * ep

CCs == {"NO_ERROR", "STALL", "DATA_TOGGLE_MISMATCH", "DEVICE_NOT_RESPONDING",
        "NOT_ACCESSED"}

StatusCodes == {"SUCCESS", "USB_CRC_ERROR", "USB_STALLED", "USB_TIMEOUT_ERROR",
                "USB_NAK_RECEIVED", "INTERNAL_ERROR"}

(* bl_ohci_transfer_status: the condition code of the TD at the ED's      *)
(* head pointer; NOT_ACCESSED and the other unnamed codes are the default. *)
bl_ohci_transfer_status_cc(cc) ==
    CASE cc = "NO_ERROR"              -> "SUCCESS"
      [] cc = "DATA_TOGGLE_MISMATCH"  -> "USB_CRC_ERROR"
      [] cc = "STALL"                 -> "USB_STALLED"
      [] cc = "DEVICE_NOT_RESPONDING" -> "USB_TIMEOUT_ERROR"
      [] OTHER                        -> "USB_NAK_RECEIVED"

(* The TDs bl_ohci_control_transfer builds, the tail included: SETUP/0;   *)
(* with no data a zero-length TD with the status pid and toggle 1, else   *)
(* the data loop from toggle 0; then the STATUS TD with toggle 1.         *)
OhciControlTds(r) ==
    LET dp == CS!bl_usb_direction_pid(r.dir)
        sp == CS!bl_usb_status_pid(dp)
    IN  <<CS!Stage("SETUP", 0, CS!SetupLen)>>
        \o (IF r.length = 0 THEN <<CS!Stage(sp, 1, 0)>>
            ELSE CS!DataLoop(dp, 0, r.length, CS!LegacyMps(r)))
        \o <<CS!Stage(sp, 1, 0)>>

(* The data loop of bl_ohci_bulk_interrupt_prepare: each TD takes the     *)
(* current toggle, which flips after it.                                   *)
RECURSIVE BulkData(_, _, _, _)
BulkData(pid, toggle, length, mps) ==
    IF length > 0
    THEN <<CS!Stage(pid, toggle, CS!MinOf(length, mps))>>
         \o BulkData(pid, 1 - toggle, length - mps, mps)
    ELSE <<>>

(* The toggle bl_ohci_bulk_interrupt_prepare ends with: one flip per data *)
(* TD and one more for the zero-length tail TD.                           *)
PrepareToggle(t0, n) == (t0 + n + 1) % 2

(* bl_ohci_bulk_interrupt_prepare's TDs: the data loop, then the final    *)
(* zero-length TD with the flipped toggle and the opposite pid.           *)
OhciBulkTds(r, t0) ==
    LET dp == IF r.dir = "OUT" THEN "OUT" ELSE "IN"
        d  == BulkData(dp, t0, r.length, r.mps)
    IN  d \o <<CS!Stage(CS!bl_usb_status_pid(dp), PrepareToggle(t0, Len(d)), 0)>>

-----------------------------------------------------------------------------
VARIABLES ed,        \* the two ED pools: address/endpoint, skip, head, tail, halted, next_ed
          td,        \* the TD pool: used, next_td, original_next_td, cc, stage
          toggle,    \* endp->toggle of each bulk endpoint
          devToggle, \* the device's data toggle of each bulk endpoint
          pc,        \* "idle", "poll" (bl_ohci_check_transfer_timeout), "fault"
          call,      \* the transfer in progress: its request, list, ED and TDs
          timeout,   \* the loop counter of bl_ohci_check_transfer_timeout
          calls,     \* transfers issued so far
          last       \* what the last transfer returned, and its TDs

vars == <<ed, td, toggle, devToggle, pc, call, timeout, calls, last>>

BulkEndpoints == {r.ae : r \in {x \in Requests : x.kind = "bulk"}}

(* A TD as bl_ohci_free_td_list's memset, and the pool's memset, leave    *)
(* it: flags 0 is condition code NO_ERROR.                                *)
TdInit == [used |-> FALSE, next |-> NULL, orig |-> NULL, cc |-> "NO_ERROR", stage |-> NULL]

EdInit(n) == [ae |-> 0, skip |-> TRUE, head |-> NULL, tail |-> NULL, halted |-> FALSE, next |-> n]

(* bl_ohci_init_data_structures: every ED skipped with address 0.  The    *)
(* bulk loop writes control_eds[i]'s pointers instead of bulk_eds[i]'s,   *)
(* so a bulk ED's next_ed is whatever the heap held (its head and tail    *)
(* are written by bl_ohci_bulk_interrupt_prepare before skip is cleared). *)
Init ==
    /\ \E b \in [E -> UninitNext] :
           ed = [l \in Lists |-> IF l = "control" THEN [i \in E |-> EdInit(NULL)]
                                               ELSE [i \in E |-> EdInit(b[i])]]
    /\ td = [t \in T |-> TdInit]
    /\ toggle = [a \in BulkEndpoints |-> 0] /\ devToggle = [a \in BulkEndpoints |-> 0]
    /\ pc = "idle" /\ call = NULL /\ timeout = 0 /\ calls = 0 /\ last = NULL

(* bl_ohci_alloc_ed: the first ED of the pool whose address/endpoint is   *)
(* ae or 0, or NULL.                                                       *)
bl_ohci_alloc_ed(l, ae) ==
    LET F == {i \in E : ed[l][i].ae \in {ae, 0}} IN IF F = {} THEN NULL ELSE Min(F)

(* bl_ohci_init_ed: address 0's control endpoint is control_eds[0]; any   *)
(* other endpoint is looked up in its list's pool.                        *)
bl_ohci_init_ed(r) ==
    IF r.kind = "control" /\ r.ae = 0 THEN 0 ELSE bl_ohci_alloc_ed(r.kind, r.ae)

(* A variant of the link that skips the second ED of a pool. *)
EdTakenLate(l, i, ae) ==
    LET linked == IF i > 1 /\ ed[l][i].ae = 0 THEN [ed EXCEPT ![l][i - 1].next = i] ELSE ed
    IN  [linked EXCEPT ![l][i].ae = ae]

(* The ED pool after bl_ohci_alloc_ed has taken ED i, linking it from the *)
(* ED before it when it was unused, and bl_ohci_init_ed has written its   *)
(* address and endpoint.                                                   *)
EdTaken(l, i, ae) ==
    LET linked == IF i > 0 /\ ed[l][i].ae = 0 THEN [ed EXCEPT ![l][i - 1].next = i] ELSE ed
    IN  [linked EXCEPT ![l][i].ae = ae]

(* `Link transfer' and `Remove skip flag': head and tail written (which   *)
(* clears the halted bit of the head pointer), then skip cleared.         *)
EdStarted(eds, l, i, p) ==
    [eds EXCEPT ![l][i].head = p[1], ![l][i].tail = p[Len(p)],
                ![l][i].halted = FALSE, ![l][i].skip = FALSE]

(* A variant whose scan runs one slot past the end of the pool. *)
FreeTdsPastEnd == {t \in 0 .. NumTD : t = NumTD \/ ~td[t].used}

(* bl_ohci_alloc_general_td's scan: the TDs whose used flag is clear. *)
FreeTds == {t \in T : ~td[t].used}

(* n calls of bl_ohci_alloc_general_td: the n lowest free TDs, fewer if   *)
(* the pool runs out.                                                      *)
RECURSIVE Lowest(_, _)
Lowest(S, n) == IF n = 0 \/ S = {} THEN <<>>
                ELSE <<Min(S)>> \o Lowest(S \ {Min(S)}, n - 1)

(* The TD pool after bl_ohci_init_general_td has filled p[i] with stage   *)
(* st[i] (condition code NOT_ACCESSED, next_td 0) and each TD was linked  *)
(* from the one before it through next_td and original_next_td; when     *)
(* every TD was had, the last one's original_next_td closes the ring.     *)
Built(p, st) ==
    [t \in T |->
        IF t \in Range(p)
        THEN LET i == CHOOSE j \in DOMAIN p : p[j] = t
             IN  [used |-> TRUE, cc |-> "NOT_ACCESSED", stage |-> st[i],
                  next |-> IF i < Len(p) THEN p[i + 1] ELSE NULL,
                  orig |-> IF i < Len(p) THEN p[i + 1]
                           ELSE IF Len(p) = Len(st) THEN p[1] ELSE NULL]
        ELSE td[t]]

(* The TDs bl_ohci_free_td_list visits: from the ED's head pointer round  *)
(* the original_next_td ring until it is back at the head.                *)
RECURSIVE RingFrom(_, _, _)
RingFrom(t, h, n) ==
    IF n = 0 \/ td[t].orig \in {h, NULL} THEN {t} ELSE {t} \cup RingFrom(td[t].orig, h, n - 1)

(* A variant that walks the next_td links the controller follows. *)
RECURSIVE NextChain(_, _)
NextChain(t, n) == IF t = NULL \/ n = 0 THEN {} ELSE {t} \cup NextChain(td[t].next, n - 1)

bl_ohci_free_td_list_next(h) ==
    td' = [t \in T |-> IF t \in NextChain(h, NumTD) THEN TdInit ELSE td[t]]

(* bl_ohci_free_td_list: memset every TD of the ring to 0. *)
bl_ohci_free_td_list(h) ==
    td' = [t \in T |-> IF t \in RingFrom(h, h, NumTD) THEN TdInit ELSE td[t]]

Issue(r) == pc = "idle" /\ calls < MaxCalls /\ r \in Requests /\ calls' = calls + 1

Return(r, status, tds) ==
    /\ pc' = "idle" /\ call' = NULL /\ timeout' = 0
    /\ last' = [kind |-> r.kind, ae |-> r.ae, status |-> status, tds |-> tds]

(* bl_ohci_check_transfer_timeout(ed, 100) begins. *)
Poll(r, l, i, p) ==
    /\ pc' = "poll" /\ timeout' = Timeout
    /\ call' = [req |-> r, list |-> l, ed |-> i, tds |-> Range(p)]
    /\ UNCHANGED last

-----------------------------------------------------------------------------
(* bl_ohci_control_transfer: the ED (INTERNAL_ERROR if none), then SETUP, *)
(* data or the zero-length TD, and STATUS; a failed TD allocation returns *)
(* INTERNAL_ERROR and keeps the ED's new address and the TDs it took.     *)
(* The last TD is the tail; CLF is set and the ED polled.                 *)
ControlTransfer(r) ==
    /\ Issue(r) /\ r.kind = "control"
    /\ LET i  == bl_ohci_init_ed(r)
           st == OhciControlTds(r)
           p  == Lowest(FreeTds, Len(st))
       IN  IF i = NULL
           THEN Return(r, "INTERNAL_ERROR", {}) /\ UNCHANGED <<ed, td>>
           ELSE /\ td' = Built(p, st)
                /\ IF Len(p) < Len(st)
                   THEN ed' = EdTaken("control", i, r.ae) /\ Return(r, "INTERNAL_ERROR", Range(p))
                   ELSE /\ ed' = EdStarted(EdTaken("control", i, r.ae), "control", i, p)
                        /\ Poll(r, "control", i, p)
    /\ UNCHANGED <<toggle, devToggle>>

(* bl_ohci_bulk_transfer (every caller passes length > 0) and             *)
(* bl_ohci_bulk_interrupt_prepare: data TDs from endp->toggle, the final *)
(* TD, endp->toggle saved, head and tail linked, skip cleared.  When the  *)
(* ED or a TD cannot be had, prepare returns NULL and                     *)
(* bl_ohci_check_transfer_timeout dereferences it.                        *)
BulkTransfer(r) ==
    /\ Issue(r) /\ r.kind = "bulk" /\ r.length > 0
    /\ LET i  == bl_ohci_init_ed(r)
           st == OhciBulkTds(r, toggle[r.ae])
           p  == Lowest(FreeTds, Len(st))
       IN  IF i = NULL
           THEN pc' = "fault" /\ UNCHANGED <<ed, td, toggle, call, timeout, last>>
           ELSE /\ td' = Built(p, st)
                /\ IF Len(p) < Len(st)
                   THEN /\ ed' = EdTaken("bulk", i, r.ae) /\ pc' = "fault"
                        /\ UNCHANGED <<toggle, call, timeout, last>>
                   ELSE /\ ed' = EdStarted(EdTaken("bulk", i, r.ae), "bulk", i, p)
                        /\ toggle' = [toggle EXCEPT ![r.ae] = st[Len(st)].toggle]
                        /\ Poll(r, "bulk", i, p)
    /\ UNCHANGED devToggle

-----------------------------------------------------------------------------
(* One pass of `while (--timeout)' in bl_ohci_check_transfer_timeout on   *)
(* the polled ED, and its ways out.                                       *)
CallEd == ed[call.list][call.ed]

(* bl_ohci_transfer_status: decode the TD the head pointer names. *)
HeadStatus == bl_ohci_transfer_status_cc(td[CallEd.head].cc)

(* bl_ohci_transfer_finished finds head = tail: skip the ED, free the TD  *)
(* ring, SUCCESS.                                                          *)
PollFinished ==
    /\ pc = "poll" /\ timeout - 1 > 0
    /\ ~CallEd.halted /\ CallEd.head = CallEd.tail
    /\ ed' = [ed EXCEPT ![call.list][call.ed].skip = TRUE]
    /\ bl_ohci_free_td_list(CallEd.head)
    /\ Return(call.req, "SUCCESS", call.tds)
    /\ UNCHANGED <<toggle, devToggle, calls>>

(* SHOULD_CHECK_STATUS: the ED halted; leave the loop and decode. *)
PollHalted ==
    /\ pc = "poll" /\ timeout - 1 > 0
    /\ CallEd.halted
    /\ Return(call.req, HeadStatus, call.tds)
    /\ UNCHANGED <<ed, td, toggle, devToggle, calls>>

(* ACTION_NOT_FINISHED: sleep 1 ms and go round. *)
PollNotFinished ==
    /\ pc = "poll" /\ timeout - 1 > 0
    /\ ~CallEd.halted /\ CallEd.head /= CallEd.tail
    /\ timeout' = timeout - 1
    /\ UNCHANGED <<ed, td, toggle, devToggle, pc, call, calls, last>>

(* A variant that returns the TD ring to the pool on timeout. *)
PollTimeoutFreeing ==
    /\ pc = "poll" /\ timeout - 1 = 0
    /\ Return(call.req, HeadStatus, call.tds)
    /\ bl_ohci_free_td_list(CallEd.head)
    /\ UNCHANGED <<ed, toggle, devToggle, calls>>

(* The budget is spent: decode the head TD; the ED stays unskipped and    *)
(* its TDs stay used.                                                      *)
PollTimeout ==
    /\ pc = "poll" /\ timeout - 1 = 0
    /\ Return(call.req, HeadStatus, call.tds)
    /\ UNCHANGED <<ed, td, toggle, devToggle, calls>>

-----------------------------------------------------------------------------
(* The host controller.  It walks each list from its head ED through     *)
(* next_ed; where a next_ed holds garbage it reads memory that is no ED,  *)
(* which is not modelled (the walk stops there).                          *)
RECURSIVE Walk(_, _)
Walk(l, i) == IF i \in {NULL, GARBAGE} THEN {} ELSE {i} \cup Walk(l, ed[l][i].next)

Reachable(l) == Walk(l, 0)

(* An ED the controller processes: on its list, not skipped, not halted,  *)
(* with a TD before the tail.                                              *)
Live(l, i) ==
    /\ i \in Reachable(l) /\ ~ed[l][i].skip /\ ~ed[l][i].halted
    /\ ed[l][i].head /= ed[l][i].tail

(* One transaction of the head TD of a live ED.  On success the TD is     *)
(* retired: NO_ERROR, and the head moves to its next_td (the done queue   *)
(* then reuses next_td, which the driver never reads again).  The device *)
(* takes a bulk packet and flips its toggle only when the packet's toggle *)
(* is the one it expects.  On a stall, or the third error in a row, the   *)
(* TD is retired with that code and the ED halts.  A NAK changes nothing. *)
HcTransaction(l, i, o) ==
    LET e == ed[l][i]
        t == e.head
    IN  /\ Live(l, i) /\ t /= NULL
        /\ \/ /\ o = "ack"
              /\ td' = [td EXCEPT ![t].cc = "NO_ERROR"]
              /\ ed' = [ed EXCEPT ![l][i].head = td[t].next]
              /\ devToggle' = IF l = "bulk" /\ td[t].stage /= NULL
                                 /\ td[t].stage.toggle = devToggle[e.ae]
                              THEN [devToggle EXCEPT ![e.ae] = 1 - @] ELSE devToggle
           \/ /\ o \in {"stall", "noresp"}
              /\ td' = [td EXCEPT ![t].cc = IF o = "stall" THEN "STALL" ELSE "DEVICE_NOT_RESPONDING"]
              /\ ed' = [ed EXCEPT ![l][i].head = td[t].next, ![l][i].halted = TRUE]
              /\ UNCHANGED devToggle
        /\ UNCHANGED <<toggle, pc, call, timeout, calls, last>>

CpuStep ==
    \/ \E r \in Requests : ControlTransfer(r) \/ BulkTransfer(r)
    \/ PollFinished \/ PollHalted \/ PollNotFinished \/ PollTimeout

HcStep == \E l \in Lists, i \in E, o \in Outcomes : HcTransaction(l, i, o)

Next == CpuStep \/ HcStep

Spec == Init /\ [][Next]_vars

-----------------------------------------------------------------------------
StageSet == [pid : {"SETUP", "IN", "OUT"}, toggle : {0, 1}, len : Nat]

TypeOK ==
    /\ \A l \in Lists, i \in E :
           /\ ed[l][i].ae \in Nat /\ ed[l][i].skip \in BOOLEAN /\ ed[l][i].halted \in BOOLEAN
           /\ ed[l][i].head \in T \cup {NULL} /\ ed[l][i].tail \in T \cup {NULL}
           /\ ed[l][i].next \in E \cup {NULL, GARBAGE}
    /\ \A t \in T : /\ td[t].used \in BOOLEAN /\ td[t].cc \in CCs
                   /\ td[t].next \in T \cup {NULL} /\ td[t].orig \in T \cup {NULL}
                   /\ td[t].stage \in StageSet \cup {NULL}
    /\ toggle \in [BulkEndpoints -> {0, 1}] /\ devToggle \in [BulkEndpoints -> {0, 1}]
    /\ pc \in {"idle", "poll", "fault"}
    /\ timeout \in 0 .. Timeout /\ calls \in 0 .. MaxCalls

(* The TDs the controller will still run on ED i: from the head through   *)
(* next_td up to the tail.                                                 *)
RECURSIVE Pending(_, _, _)
Pending(t, tail, n) ==
    IF t = tail \/ t = NULL \/ n = 0 THEN {} ELSE {t} \cup Pending(td[t].next, tail, n - 1)

PendingTds(l, i) == Pending(ed[l][i].head, ed[l][i].tail, NumTD)

(* Whatever the controller may still run belongs to one transfer: the TD  *)
(* is in use, it is on the original_next_td ring that freeing its ED's    *)
(* tail would clear, and no other live ED of either list reaches it.      *)
(* Timed-out and halted transfers stay linked with their TDs used, and   *)
(* EDs are shared by address and endpoint, so this is about the used      *)
(* flags and the two link fields surviving every interleaving of         *)
(* timeouts, new transfers on the same or another ED, and late            *)
(* completions by the controller.                                          *)
ScheduledTdsOwned ==
    \A l \in Lists, i \in E : Live(l, i) =>
        \A t \in PendingTds(l, i) :
            /\ td[t].used
            /\ t \in RingFrom(ed[l][i].tail, ed[l][i].tail, NumTD)
            /\ \A l2 \in Lists, i2 \in E :
                   (<<l2, i2>> /= <<l, i>> /\ Live(l2, i2)) => t \notin PendingTds(l2, i2)

(* Every ED that holds a transfer the controller has not finished is on  *)
(* its list: bl_ohci_alloc_ed links a newly taken ED from the one before  *)
(* it, and nothing unlinks, even when control_eds[0] is taken back for    *)
(* address 0 and handed to another device, or endpoints take bulk EDs in  *)
(* any order.  An ED off the list would time out whatever the device did. *)
LiveEdsReachable ==
    \A l \in Lists, i \in E :
        (~ed[l][i].skip /\ ~ed[l][i].halted /\ ed[l][i].head /= ed[l][i].tail)
            => i \in Reachable(l)

(* Spec 3 (Transfer Descriptor Chain lifecycle): when a transfer has      *)
(* returned SUCCESS, all of its TDs are back in the pool: the free walk   *)
(* starts at the head pointer, which then names the tail, and goes round  *)
(* original_next_td, since the controller has rewritten next_td.          *)
SuccessFreesTransfer ==
    pc = "idle" /\ last /= NULL /\ last.status = "SUCCESS" => \A t \in last.tds : ~td[t].used

(* Spec 4.2 and glossary: the endpoint's toggle is updated after the     *)
(* transfer and must match the device's for each packet.  So between     *)
(* transfers the toggle bl_ohci_bulk_interrupt_prepare will start from is *)
(* the device's.                                                          *)
ToggleInSync == pc = "idle" => \A a \in BulkEndpoints : toggle[a] = devToggle[a]
=============================================================================
