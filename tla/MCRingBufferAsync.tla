-------------------------- MODULE MCRingBufferAsync --------------------------
(***************************************************************************)
(* RingBufferAsync for TLC.  MaxElements bounds what the device writes in   *)
(* all: it stands for a device that delivers no more after some point.      *)
(***************************************************************************)
EXTENDS RingBufferAsync

CONSTANT MaxElements

BoundedNext ==
  \/ \E n \in Chunk : next + n <= MaxElements + 1 /\ WriteCall(n)
  \/ WriterStep \/ ReaderStep \/ ReaderLeaves
  \/ Shutdown \/ ShutdownNotify
  \/ \E t \in {"writer", "reader"} : SpuriousWakeup(t)

MCSafeSpec == Init /\ [][BoundedNext]_vars
MCSpec == MCSafeSpec /\ Fairness
=============================================================================
