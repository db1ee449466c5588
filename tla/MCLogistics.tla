---------------------------- MODULE MCLogistics ----------------------------
(* A small instance of Logistics: two shipments, and a DDP dossier with two  *)
(* vehicles; a vehicle is in the stock again when the dossier is cancelled.  *)
EXTENDS Logistics, TLC

CONSTANTS s1, s2, v1, v2, d1, r1

TwoShipments == {s1, s2}
TwoVehicles == {v1, v2}
OneDossier == {d1}
OneRequest == {r1}
OneOrTwo == {1, 2}

Links(v) == {d1}
(* The steps with a maritime or a customs milestone, after one without.      *)
Steps(d) ==
  << "supplierPaid", "loading", "inTransit", "arrivedAtPort", "customsClearance",
     "customsReleased", "portExit", "closed" >>

Symmetry == Permutations(TwoShipments) \union Permutations(TwoVehicles)
=============================================================================
