-------------------------- MODULE MCSpscFrameQueue --------------------------
(***************************************************************************)
(* SpscFrameQueue for TLC: a ring of two slots, indices of two bits and a   *)
(* producer that stops after MaxPushes frames, so that the indices wrap.    *)
(***************************************************************************)
EXTENDS SpscFrameQueue

CONSTANT MaxPushes

BoundedNext ==
  \/ PushRefused \/ PushLow \/ PushHigh \/ PushRelease
  \/ Len(pushed) < MaxPushes /\ \E f \in Frame : PushClaim(f)
  \/ Consumer

MCSafeSpec == Init /\ [][BoundedNext]_vars
MCSpec == MCSafeSpec /\ Fairness
=============================================================================
