----------------------------- MODULE BoundedFifo -----------------------------
(***************************************************************************)
(* What the hub traversal queue promises its callers (spec 4.3): a FIFO   *)
(* of hubs in which a push beyond the capacity is silently dropped and a  *)
(* pop of an empty queue returns NULL and changes nothing.  The capacity  *)
(* bounds the number of pushes the queue accepts over its lifetime, not   *)
(* its occupancy: head and tail only grow (spec: head <= tail <= 127).    *)
(***************************************************************************)
EXTENDS Naturals, Sequences

CONSTANTS Elems,   \* what can be queued (hubs)
          Limit    \* how many pushes the queue accepts in its lifetime

VARIABLES queue,   \* the elements pushed and not yet popped, oldest first
          accepted \* how many pushes have been accepted so far

vars == <<queue, accepted>>

Init == queue = <<>> /\ accepted = 0

Push(e) ==
    IF accepted < Limit
    THEN queue' = Append(queue, e) /\ accepted' = accepted + 1
    ELSE UNCHANGED vars

Pop ==
    IF queue /= <<>>
    THEN queue' = Tail(queue) /\ UNCHANGED accepted
    ELSE UNCHANGED vars

Next == (\E e \in Elems : Push(e)) \/ Pop

Spec == Init /\ [][Next]_vars
=============================================================================
