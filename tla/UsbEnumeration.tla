--------------------------- MODULE UsbEnumeration ---------------------------
(***************************************************************************)
(* Hub and device enumeration (src/boot-loader/core/bus/usb/usb.c,         *)
(* usb-hub.c): bl_usb_setup registers each controller's root hub, each     *)
(* connected root port gets a device (bl_usb_device_register), which is   *)
(* linked into its hub and classified (bl_usb_device_register_specific_   *)
(* info) as a hub, keyboard or storage device; bl_usb_poll walks the      *)
(* downstream hubs breadth first with the traversal queue and registers   *)
(* what is attached to their ports.                                       *)
(*                                                                         *)
(* The bus is a constant topology of physical devices; devices in         *)
(* LatePlug are attached only later (hot plug; nothing is unplugged).     *)
(* Heap allocations may fail when AllocFails.  A read of memory the code  *)
(* never wrote (bl_heap_alloc does not zero) yields either zero or         *)
(* garbage; garbage, like a NULL dereference, ends the run in `fault`.    *)
(* Descriptors, strings and printing are left out: a device's descriptor  *)
(* is its Kind.                                                            *)
(***************************************************************************)
EXTENDS Naturals, Sequences, FiniteSets

CONSTANTS HCs,        \* host controllers
          HcList,     \* bl_usb_host_controllers, in list order
          HcType,     \* [HCs -> {"uhci", "ohci", "ehci", "xhci"}]
          RootPorts,  \* [HCs -> Nat]: root_hub.ports
          PhysDevs,   \* physical USB devices
          Kind,       \* [PhysDevs -> {"hub", "kbd", "storage", "other", "multiconf"}]
          HubPorts,   \* [PhysDevs -> Nat]: bNbrPorts of a hub's descriptor
          Loc,        \* [PhysDevs -> [up : HCs \cup PhysDevs, port : Nat]]
          LatePlug,   \* devices attached after power-on
          NoSpeed,    \* devices whose root port speed negotiation returns -1
          AllocFails, \* whether bl_heap_alloc may return NULL
          MaxPolls,   \* how many times bl_usb_poll is called
          TravSize,   \* hubs[] length of struct bl_usb_traversal (127)
          NULL, UNINIT

ChainLen == 5     \* port_chain[5] of struct bl_usb_hub

Hubs == HCs \cup PhysDevs   \* a hub is a root hub (its HC) or a hub device

T == INSTANCE UsbTraversal WITH Hubs <- Hubs, trav <- NULL, popped <- NULL

MaxPortNum == LET ps == {RootPorts[h] : h \in HCs} \cup {HubPorts[d] : d \in PhysDevs}
              IN  CHOOSE m \in ps : \A x \in ps : x <= m

(* The controller a device's bus tree hangs from. *)
RECURSIVE HcOf(_)
HcOf(x) == IF x \in HCs THEN x ELSE HcOf(Loc[x].up)

IsXhci(hc) == HcType[hc] = "xhci"

AllocResults == IF AllocFails THEN {TRUE, FALSE} ELSE {TRUE}

(* Reading a field bl_heap_alloc left unwritten: zero, or anything else. *)
UninitOutcomes == {"zero", "garbage"}

VARIABLES plugged,   \* [PhysDevs -> BOOLEAN]: attached to its port
          cchange,   \* [PhysDevs -> BOOLEAN]: C_PORT_CONNECTION of its hub port
          dev,       \* [PhysDevs -> record]: the struct bl_usb_device, if any
          hub,       \* [Hubs -> record]: the struct bl_usb_hub, if any
          count,     \* [HCs -> Nat]: hc->devices_count
          roots,     \* bl_root_hubs, most recent first
          kbds,      \* controllers registered by bl_keyboard_register
          disks,     \* devices registered by bl_storage_device_register
          pc,        \* "setup", "idle", "root" (bl_usb_poll), "hub" (bl_usb_hub_poll)
          fault,     \* "none", "null_deref", "uninit_read", "oob_write"
          hcI,       \* setup: index into HcList
          portI,     \* setup: root port (0-based); poll: root port (0-based)
          rootI,     \* poll: index into roots
          trav,      \* the traversal of bl_usb_hub_poll
          cur,       \* the hub whose ports bl_usb_hub_poll walks, or NULL
          hport,     \* its port being read (1-based)
          polls      \* calls of bl_usb_poll so far

vars == <<plugged, cchange, dev, hub, count, roots, kbds, disks, pc, fault,
          hcI, portI, rootI, trav, cur, hport, polls>>

NoDev == [reg |-> FALSE, addr |-> UNINIT, type |-> UNINIT, parent |-> NULL, port |-> 0]
NoHub == [alive |-> FALSE, ports |-> 0, slots |-> [p \in 1 .. MaxPortNum |-> UNINIT],
          chain |-> [i \in 1 .. ChainLen |-> 0]]

(* The plugged device on port p of hub x, or NULL. *)
AttachedAt(x, p) ==
    IF \E d \in PhysDevs : Loc[d] = [up |-> x, port |-> p] /\ plugged[d]
    THEN CHOOSE d \in PhysDevs : Loc[d] = [up |-> x, port |-> p] /\ plugged[d]
    ELSE NULL

(* The device sitting on hub x port p, plugged or not. *)
DeviceOn(x, p) ==
    IF \E d \in PhysDevs : Loc[d] = [up |-> x, port |-> p]
    THEN CHOOSE d \in PhysDevs : Loc[d] = [up |-> x, port |-> p]
    ELSE NULL

(* The nonzero prefix of a port_chain array. *)
ChainSeq(c) == LET n == CHOOSE k \in 0 .. ChainLen :
                          (\A i \in 1 .. k : c[i] /= 0) /\ (k = ChainLen \/ c[k + 1] = 0)
               IN  [i \in 1 .. n |-> c[i]]

(* A chain built without first copying the parent's. *)
ChainAppendNoCopy(c, p) == [[i \in 1 .. ChainLen |-> 0] EXCEPT ![1] = p]

(* The first zero of a port_chain, where check_hub writes the new port.  *)
ChainFull(c) == \A i \in 1 .. ChainLen : c[i] /= 0
ChainAppend(c, p) ==
    LET i == CHOOSE i \in 1 .. ChainLen : c[i] = 0 /\ \A j \in 1 .. i - 1 : c[j] /= 0
    IN  [c EXCEPT ![i] = p]

-----------------------------------------------------------------------------
(* bl_usb_identify_device: what it leaves in device->config and           *)
(* device->interfaces.  A device with configurations_count /= 1 returns  *)
(* before either is written; a failed allocation of config_data leaves    *)
(* interfaces unwritten, one of interfaces leaves it NULL.  The devices   *)
(* of the model have one interface, copied before its endpoints are       *)
(* allocated, so a failed endpoints allocation changes nothing below.     *)
bl_usb_identify_device(d) ==
    IF Kind[d] = "multiconf" THEN {"multiconf"}
    ELSE {"full"} \cup (IF AllocFails THEN {"noconfigdata", "nointerfaces"} ELSE {})

Outcome(f, ty, k, s) == [fault |-> f, type |-> ty, kbd |-> k, disk |-> s]

(* bl_usb_check_hub: allocate the hub and its devices array (a failure    *)
(* frees what was taken and leaves the type unset), then type = HUB and   *)
(* the port chain: the parent's with this port after its first zero.      *)
bl_usb_check_hub(x) ==
    {Outcome(IF ChainFull(hub[x].chain) THEN "oob_write" ELSE "none", "hub", FALSE, FALSE)}
    \cup (IF AllocFails THEN {Outcome("none", UNINIT, FALSE, FALSE)} ELSE {})

(* bl_usb_check_keyboard, then bl_usb_check_storage_device if it failed:  *)
(* the first interface of class 3 protocol 1 sets type = KEYBOARD before  *)
(* bl_usb_get_hid_info and bl_usb_claim_keyboard allocate; one of class 8 *)
(* sets type = STORAGE before bl_usb_claim_storage_device allocates.  The *)
(* loops read config.interfaces_count and device->interfaces[i].          *)
ClassZeroOutcomes(d, desc) ==
    CASE desc = "multiconf" ->
            {Outcome("none", UNINIT, FALSE, FALSE), Outcome("uninit_read", UNINIT, FALSE, FALSE)}
      [] desc = "noconfigdata" -> {Outcome("uninit_read", UNINIT, FALSE, FALSE)}
      [] desc = "nointerfaces" -> {Outcome("null_deref", UNINIT, FALSE, FALSE)}
      [] Kind[d] = "kbd" ->
            {Outcome("none", "kbd", TRUE, FALSE)}
            \cup (IF AllocFails THEN {Outcome("none", "kbd", FALSE, FALSE)} ELSE {})
      [] Kind[d] = "storage" ->
            {Outcome("none", "storage", FALSE, TRUE)}
            \cup (IF AllocFails THEN {Outcome("none", "storage", FALSE, FALSE)} ELSE {})

(* bl_usb_device_register_specific_info: switch on bDeviceClass. *)
bl_usb_device_register_specific_info(d, x, desc) ==
    CASE Kind[d] = "hub" -> bl_usb_check_hub(x)
      [] Kind[d] \in {"kbd", "storage", "multiconf"} -> ClassZeroOutcomes(d, desc)
      [] Kind[d] = "other" -> {Outcome("none", UNINIT, FALSE, FALSE)}

(* The address a device ends with: xHCI, devices_count as port_init left  *)
(* it; legacy, SET_ADDRESS(++devices_count) then address = devices_count. *)
NewAddress(hc, cnt) == IF IsXhci(hc) THEN cnt ELSE cnt + 1

(* bl_usb_device_register followed, as in both callers, by                *)
(* bl_usb_hub_link_device(x, device, p) and register_specific_info.       *)
(* cnt is hc->devices_count on entry; onNull is what the caller leaves in *)
(* x's slot p when registration returns NULL.  With checkType the caller  *)
(* then tests device->type == BL_USB_HUB_DEVICE (bl_usb_hub_poll).        *)
(* The legacy path runs identify at device->address, which nothing has    *)
(* written yet; only address 0 reaches the device.                        *)
bl_usb_device_register(hc, d, x, p, onNull, cnt, checkType) ==
    \/ /\ AllocFails
       /\ hub' = [hub EXCEPT ![x].slots[p] = onNull]
       /\ count' = [count EXCEPT ![hc] = cnt]
       /\ UNCHANGED <<dev, kbds, disks, fault>>
    \/ /\ ~IsXhci(hc)
       /\ fault' = "uninit_read"
       /\ count' = [count EXCEPT ![hc] = cnt]
       /\ UNCHANGED <<dev, hub, kbds, disks>>
    \/ \E desc \in bl_usb_identify_device(d) :
       \E o \in bl_usb_device_register_specific_info(d, x, desc) :
       \E u \in IF checkType /\ o.type = UNINIT /\ o.fault = "none"
                THEN UninitOutcomes ELSE {"zero"} :
          LET addr == NewAddress(hc, cnt)
          IN  /\ count' = [count EXCEPT ![hc] = addr]
              /\ dev' = [dev EXCEPT ![d] = [reg |-> TRUE, addr |-> addr, type |-> o.type,
                                           parent |-> x, port |-> p]]
              /\ hub' = IF o.type = "hub" /\ o.fault = "none"
                        THEN [hub EXCEPT ![x].slots[p] = d,
                                         ![d] = [alive |-> TRUE, ports |-> HubPorts[d],
                                                 slots |-> NoHub.slots,
                                                 chain |-> ChainAppend(hub[x].chain, p)]]
                        ELSE [hub EXCEPT ![x].slots[p] = d]
              /\ kbds' = IF o.kbd THEN kbds \cup {d} ELSE kbds
              /\ disks' = IF o.disk THEN disks \cup {d} ELSE disks
              /\ fault' = IF u = "garbage" THEN "uninit_read" ELSE o.fault

-----------------------------------------------------------------------------
Init ==
    /\ plugged = [d \in PhysDevs |-> d \notin LatePlug]
    /\ cchange = [d \in PhysDevs |-> d \notin LatePlug /\ Loc[d].up \in PhysDevs]
    /\ dev = [d \in PhysDevs |-> NoDev]
    /\ hub = [x \in Hubs |-> NoHub]
    /\ count = [h \in HCs |-> 0]
    /\ roots = <<>>
    /\ kbds = {} /\ disks = {}
    /\ pc = "setup" /\ fault = "none"
    /\ hcI = 1 /\ portI = 0 /\ rootI = 1
    /\ trav = NULL /\ cur = NULL /\ hport = 1 /\ polls = 0

Running == fault = "none"

SetupHc == HcList[hcI]

(* bl_usb_setup, for the next controller: devices_count = 0, then         *)
(* bl_usb_hub_root_register allocates root_hub.devices; on failure it     *)
(* returns before the root hub is put on bl_root_hubs.                    *)
SetupController ==
    /\ Running /\ pc = "setup" /\ ~hub[SetupHc].alive
    /\ \E ok \in AllocResults :
         IF ok
         THEN /\ hub' = [hub EXCEPT ![SetupHc] = [NoHub EXCEPT !.alive = TRUE,
                                                   !.ports = RootPorts[SetupHc]]]
              /\ count' = [count EXCEPT ![SetupHc] = 0]
              /\ UNCHANGED <<hcI, pc>>
         ELSE /\ count' = [count EXCEPT ![SetupHc] = 0]
              /\ hcI' = hcI + 1
              /\ pc' = IF hcI = Len(HcList) THEN "idle" ELSE "setup"
              /\ UNCHANGED hub
    /\ UNCHANGED <<plugged, cchange, dev, roots, kbds, disks, fault, portI, rootI,
                   trav, cur, hport, polls>>

(* One iteration of the root port loop of bl_usb_hub_root_register (port  *)
(* i = portI, 0-based; the device is linked at port i + 1).  xHCI: speed  *)
(* = port_init(hc, i, ++devices_count); legacy: get_speed, port_reset.    *)
RootPort ==
    /\ Running /\ pc = "setup" /\ hub[SetupHc].alive
    /\ portI < RootPorts[SetupHc]
    /\ LET hc == SetupHc
           p  == portI + 1
           d  == AttachedAt(hc, p)
           cnt == IF IsXhci(hc) /\ d /= NULL THEN count[hc] + 1 ELSE count[hc]
       IN  IF d = NULL \/ d \in NoSpeed
           THEN /\ hub' = [hub EXCEPT ![hc].slots[p] = NULL]
                /\ count' = [count EXCEPT ![hc] = cnt]
                /\ UNCHANGED <<dev, kbds, disks, fault>>
           ELSE bl_usb_device_register(hc, d, hc, p, NULL, cnt, FALSE)
    /\ portI' = portI + 1
    /\ UNCHANGED <<plugged, cchange, roots, pc, hcI, rootI, trav, cur, hport, polls>>

(* The end of bl_usb_hub_root_register: the root hub goes to the front of *)
(* bl_root_hubs; bl_usb_setup moves to the next controller.               *)
RootRegistered ==
    /\ Running /\ pc = "setup" /\ hub[SetupHc].alive
    /\ portI = RootPorts[SetupHc]
    /\ roots' = <<SetupHc>> \o roots
    /\ hcI' = hcI + 1 /\ portI' = 0
    /\ pc' = IF hcI = Len(HcList) THEN "idle" ELSE "setup"
    /\ UNCHANGED <<plugged, cchange, dev, hub, count, kbds, disks, fault, rootI,
                   trav, cur, hport, polls>>

-----------------------------------------------------------------------------
(* A caller invokes bl_usb_poll (never done by the boot flow, spec 4.3).  *)
StartPoll ==
    /\ Running /\ pc = "idle" /\ polls < MaxPolls
    /\ polls' = polls + 1
    /\ pc' = IF roots = <<>> THEN "idle" ELSE "root"
    /\ rootI' = 1 /\ portI' = 0
    /\ UNCHANGED <<plugged, cchange, dev, hub, count, roots, kbds, disks, fault, hcI,
                   trav, cur, hport>>

PollHub == roots[rootI]

(* bl_usb_poll, port i = portI of the current root hub: it reads          *)
(* root_hub->devices[i]->type with no NULL check; a hub device starts     *)
(* bl_usb_hub_poll, whose traversal_init may return NULL to push.         *)
PollRootPort ==
    /\ Running /\ pc = "root" /\ portI < hub[PollHub].ports
    /\ LET s == hub[PollHub].slots[portI + 1]
       IN  \/ /\ s = NULL
              /\ fault' = "null_deref"
              /\ UNCHANGED <<pc, portI, trav, cur>>
           \/ /\ s \in PhysDevs /\ dev[s].type = "hub"
              /\ \E ok \in AllocResults :
                   IF ok THEN /\ trav' = T!TravPush(T!TravInit, s)
                              /\ pc' = "hub" /\ cur' = NULL
                              /\ UNCHANGED <<fault, portI>>
                         ELSE /\ fault' = "null_deref"
                              /\ UNCHANGED <<pc, portI, trav, cur>>
           \/ /\ s \in PhysDevs /\ dev[s].type \notin {"hub", UNINIT}
              /\ portI' = portI + 1
              /\ UNCHANGED <<pc, fault, trav, cur>>
           \/ /\ s \in PhysDevs /\ dev[s].type = UNINIT
              /\ \E u \in UninitOutcomes :
                   IF u = "zero" THEN portI' = portI + 1 /\ UNCHANGED fault
                                 ELSE fault' = "uninit_read" /\ UNCHANGED portI
              /\ UNCHANGED <<pc, trav, cur>>
    /\ UNCHANGED <<plugged, cchange, dev, hub, count, roots, kbds, disks, hcI, rootI,
                   hport, polls>>

(* bl_usb_poll moves to the next root hub, or returns. *)
PollRootDone ==
    /\ Running /\ pc = "root" /\ portI = hub[PollHub].ports
    /\ rootI' = rootI + 1 /\ portI' = 0
    /\ pc' = IF rootI = Len(roots) THEN "idle" ELSE "root"
    /\ UNCHANGED <<plugged, cchange, dev, hub, count, roots, kbds, disks, fault, hcI,
                   trav, cur, hport, polls>>

(* The loop head of bl_usb_hub_poll: pop the next hub, or uninit the      *)
(* traversal and return to bl_usb_poll's next root port.                  *)
HubPollPop ==
    /\ Running /\ pc = "hub" /\ cur = NULL
    /\ IF T!TravIsEmpty(trav)
       THEN /\ pc' = "root" /\ trav' = NULL /\ portI' = portI + 1
            /\ UNCHANGED <<cur, hport>>
       ELSE /\ cur' = T!TravPopHub(trav) /\ trav' = T!TravPopRest(trav)
            /\ hport' = 1
            /\ UNCHANGED <<pc, portI>>
    /\ UNCHANGED <<plugged, cchange, dev, hub, count, roots, kbds, disks, fault, hcI,
                   rootI, polls>>

(* The hub port loop running one port past hub->ports. *)
HubPollPortPastEnd ==
    /\ Running /\ pc = "hub" /\ cur /= NULL
    /\ LET p  == hport
           q  == DeviceOn(cur, p)
           hc == HcOf(cur)
       IN  /\ IF q /= NULL /\ cchange[q]
              THEN /\ cchange' = [cchange EXCEPT ![q] = FALSE]
                   /\ bl_usb_device_register(hc, q, cur, p, hub[cur].slots[p],
                                             count[hc], TRUE)
                   /\ trav' = IF dev'[q].reg /\ dev'[q].type = "hub" /\ fault' = "none"
                              THEN T!TravPush(trav, q) ELSE trav
              ELSE UNCHANGED <<cchange, dev, hub, count, kbds, disks, fault, trav>>
           /\ hport' = IF p = hub[cur].ports + 1 THEN 1 ELSE p + 1
           /\ cur' = IF p = hub[cur].ports + 1 THEN NULL ELSE cur
    /\ UNCHANGED <<plugged, roots, pc, hcI, portI, rootI, polls>>

(* One iteration of bl_usb_hub_poll's port loop (port i = hport): read    *)
(* the port status; on a connect change clear it and, if connected, reset *)
(* the port, register the device, link and classify it, and push it if   *)
(* its type is HUB.                                                       *)
HubPollPort ==
    /\ Running /\ pc = "hub" /\ cur /= NULL
    /\ LET p  == hport
           q  == DeviceOn(cur, p)
           hc == HcOf(cur)
       IN  /\ IF q /= NULL /\ cchange[q]
              THEN /\ cchange' = [cchange EXCEPT ![q] = FALSE]
                   /\ bl_usb_device_register(hc, q, cur, p, hub[cur].slots[p],
                                             count[hc], TRUE)
                   /\ trav' = IF dev'[q].reg /\ dev'[q].type = "hub" /\ fault' = "none"
                              THEN T!TravPush(trav, q) ELSE trav
              ELSE UNCHANGED <<cchange, dev, hub, count, kbds, disks, fault, trav>>
           /\ hport' = IF p = hub[cur].ports THEN 1 ELSE p + 1
           /\ cur' = IF p = hub[cur].ports THEN NULL ELSE cur
    /\ UNCHANGED <<plugged, roots, pc, hcI, portI, rootI, polls>>

(* A device in LatePlug is attached; a hub port latches the change. *)
Plug(d) ==
    /\ Running /\ d \in LatePlug /\ ~plugged[d]
    /\ plugged' = [plugged EXCEPT ![d] = TRUE]
    /\ cchange' = [cchange EXCEPT ![d] = Loc[d].up \in PhysDevs]
    /\ UNCHANGED <<dev, hub, count, roots, kbds, disks, pc, fault, hcI, portI, rootI,
                   trav, cur, hport, polls>>

(* Everything the CPU does once it has been asked to. *)
CpuStep ==
    \/ SetupController \/ RootPort \/ RootRegistered
    \/ PollRootPort \/ PollRootDone \/ HubPollPop \/ HubPollPort

Next == CpuStep \/ StartPoll \/ \E d \in PhysDevs : Plug(d)

(* The boot loader runs on one CPU and never blocks: once started, a step *)
(* of setup or of a poll always happens.  Whether bl_usb_poll is called  *)
(* and when a device is plugged is up to the environment.                *)
Spec == Init /\ [][Next]_vars /\ WF_vars(CpuStep)

-----------------------------------------------------------------------------
TypeOK ==
    /\ plugged \in [PhysDevs -> BOOLEAN] /\ cchange \in [PhysDevs -> BOOLEAN]
    /\ \A d \in PhysDevs : dev[d].type \in {UNINIT, "hub", "kbd", "storage"}
    /\ \A x \in Hubs : \A p \in 1 .. hub[x].ports :
          hub[x].slots[p] \in PhysDevs \cup {NULL, UNINIT}
    /\ count \in [HCs -> Nat] /\ kbds \subseteq PhysDevs /\ disks \subseteq PhysDevs
    /\ pc \in {"setup", "idle", "root", "hub"}
    /\ fault \in {"none", "null_deref", "uninit_read", "oob_write"}
    /\ cur \in Hubs \cup {NULL}
    /\ cur /= NULL => hport \in 1 .. hub[cur].ports

(* The port numbers from the root hub down to hub device x on the bus. *)
RECURSIVE PortPath(_)
PortPath(x) == IF Loc[x].up \in HCs THEN <<Loc[x].port>>
               ELSE PortPath(Loc[x].up) \o <<Loc[x].port>>

(* Spec 8 round trip: a hub's port_chain, built by bl_usb_check_hub from  *)
(* its parent's chain, is exactly the path of ports from the root to it,  *)
(* and fits the 5 entries.                                                *)
PortChainIsPath ==
    \A d \in PhysDevs : hub[d].alive => ChainSeq(hub[d].chain) = PortPath(d)

(* Spec 2 (Device): the class discriminant is set only after a successful *)
(* classification: a KEYBOARD is on the keyboard list, a STORAGE device   *)
(* on the storage list, a HUB has its hub record (check_keyboard,         *)
(* check_storage_device, check_hub).                                      *)
TypeOnlyAfterClaim ==
    \A d \in PhysDevs : dev[d].reg =>
        /\ dev[d].type = "kbd" => d \in kbds
        /\ dev[d].type = "storage" => d \in disks
        /\ dev[d].type = "hub" => hub[d].alive

(* bl_usb_poll, bl_usb_hub_poll and the registration they call never      *)
(* dereference a NULL pointer.                                            *)
NoNullDeref == fault /= "null_deref"

(* Registration never reads a field bl_heap_alloc handed out unwritten    *)
(* (device->address in identify, device->type, config of a device with    *)
(* several configurations).                                               *)
NoUninitRead == fault /= "uninit_read"

(* Every bl_usb_poll call returns: the breadth-first walk of the hubs     *)
(* ends, unless the run has stopped on a fault.                           *)
PollTerminates == (pc \in {"root", "hub"}) ~> (pc = "idle" \/ fault /= "none")
=============================================================================
