----------------------------- MODULE UsbTraversal -----------------------------
(***************************************************************************)
(* The hub traversal queue of src/boot-loader/core/bus/usb/usb-traversal.c *)
(* (struct bl_usb_traversal: int head, tail; hubs[127]).  It is used by    *)
(* bl_usb_hub_poll and bl_usb_dump_host_controller_devices to walk hubs   *)
(* breadth first without recursion.  The queue is an array indexed by two *)
(* counters that only grow: it is not a ring, so its capacity bounds the  *)
(* pushes of one traversal, whatever was popped in between.               *)
(*                                                                         *)
(* The operators on a queue value are used by the enumeration model; the  *)
(* state machine at the end lets any caller push and pop, and is shown to *)
(* implement BoundedFifo.                                                  *)
(***************************************************************************)
EXTENDS Naturals, Sequences

CONSTANTS Hubs,     \* the hubs that can be queued
          NULL,     \* the NULL pointer
          TravSize  \* the length of the hubs[] array (127 in usb.h)

ASSUME NULL \notin Hubs /\ TravSize \in Nat \ {0, 1}

Slots == 0 .. TravSize - 1

(* bl_usb_traversal_init: head = tail = 0 and every slot NULL. *)
TravInit == [head |-> 0, tail |-> 0, hubs |-> [i \in Slots |-> NULL]]

(* bl_usb_traversal_is_empty *)
TravIsEmpty(t) == t.head = t.tail

(* A push guarded by tail <= 127, which writes hubs[127], one slot past  *)
(* the array.                                                             *)
TravPushPastEnd(t, h) ==
    IF t.tail <= TravSize THEN [t EXCEPT !.hubs[t.tail] = h, !.tail = @ + 1] ELSE t

(* bl_usb_traversal_push: dropped unless tail < 127 - 1. *)
TravPush(t, h) ==
    IF t.tail < TravSize - 1
    THEN [t EXCEPT !.hubs[t.tail] = h, !.tail = @ + 1]
    ELSE t

(* Pops that skip the emptiness test, or forget to advance head. *)
TravPopRestUnguarded(t) == [t EXCEPT !.head = @ + 1]
TravPopRestNoAdvance(t) == t

(* bl_usb_traversal_pop: the hub at head, or NULL when head = tail. *)
TravPopHub(t) == IF t.head < t.tail THEN t.hubs[t.head] ELSE NULL
TravPopRest(t) == IF t.head < t.tail THEN [t EXCEPT !.head = @ + 1] ELSE t

-----------------------------------------------------------------------------
(* A caller that pushes and pops in any order, one traversal's lifetime.  *)

VARIABLES trav,    \* the bl_usb_traversal
          popped   \* what the last pop returned

vars == <<trav, popped>>

(* Beyond its type, TypeOK says that tail, the next slot a push writes,   *)
(* never leaves hubs[]: at most 126 pushes are accepted (spec 4.3).       *)
TypeOK ==
    /\ trav.head \in Slots /\ trav.tail \in Slots
    /\ trav.hubs \in [Slots -> Hubs \cup {NULL}]
    /\ popped \in Hubs \cup {NULL}

Init == trav = TravInit /\ popped = NULL

Push(h) == trav' = TravPush(trav, h) /\ UNCHANGED popped

Pop == popped' = TravPopHub(trav) /\ trav' = TravPopRest(trav)

Next == (\E h \in Hubs : Push(h)) \/ Pop

Spec == Init /\ [][Next]_vars

(* The queued hubs are the slots from head up to tail, oldest first. *)
Queued == [i \in 1 .. trav.tail - trav.head |-> trav.hubs[trav.head + i - 1]]

Fifo == INSTANCE BoundedFifo WITH Elems <- Hubs, Limit <- TravSize - 1,
                                  queue <- Queued, accepted <- trav.tail

(* The array behaves as the FIFO the spec describes: pops return hubs in  *)
(* push order, a pop of an empty queue returns NULL, extra pushes drop.   *)
FifoRefinement == Fifo!Spec

=============================================================================
