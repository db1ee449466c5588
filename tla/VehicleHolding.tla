--------------------------- MODULE VehicleHolding ---------------------------
(***************************************************************************)
(* What the dossiers promise about vehicles, without rows or requests: a   *)
(* dossier takes vehicles that nobody holds, all of them at once, and      *)
(* gives back some or all of its own.                                      *)
(***************************************************************************)
CONSTANTS Dossiers, Vehicles

VARIABLE holding   \* the pairs << dossier, vehicle >> in force

Free(v) == \A d \in Dossiers : << d, v >> \notin holding

Take(d, S) ==
  /\ \A v \in S : Free(v)
  /\ holding' = holding \union ({d} \X S)

GiveBack(d, S) == holding' = holding \ ({d} \X S)

Init == holding = {}

Next ==
  \E d \in Dossiers, S \in SUBSET Vehicles : Take(d, S) \/ GiveBack(d, S)

Spec == Init /\ [][Next]_holding

(* No vehicle is in two hands.                                               *)
AtMostOne ==
  \A v \in Vehicles : \A d, e \in Dossiers :
    << d, v >> \in holding /\ << e, v >> \in holding => d = e
=============================================================================
