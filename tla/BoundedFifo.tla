----------------------------- MODULE BoundedFifo -----------------------------
(***************************************************************************)
(* What a bounded single-producer single-consumer queue promises its two    *)
(* threads: an accepted item is delivered exactly once, whole and in order, *)
(* and at most Capacity items wait.  A refused push or a pop of an empty    *)
(* queue changes nothing.                                                   *)
(***************************************************************************)
EXTENDS Naturals, Sequences

CONSTANTS Item,      \* what may be pushed
          Capacity   \* how many items may wait

VARIABLES queue,     \* the accepted items that nobody has taken, oldest first
          delivered  \* every item handed to the consumer, in order

vars == <<queue, delivered>>

Init == queue = <<>> /\ delivered = <<>>

Push(item) ==
  /\ Len(queue) < Capacity
  /\ queue' = Append(queue, item)
  /\ UNCHANGED delivered

Pop ==
  /\ queue # <<>>
  /\ delivered' = Append(delivered, Head(queue))
  /\ queue' = Tail(queue)

Next == Pop \/ \E item \in Item : Push(item)

SafeSpec == Init /\ [][Next]_vars

\* The consumer keeps polling: what waits is eventually taken.
Spec == SafeSpec /\ WF_vars(Pop)
=============================================================================
