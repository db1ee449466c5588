-------------------------- MODULE MCDossierVehicles --------------------------
(* Small instances of DossierVehicles. *)
EXTENDS DossierVehicles, TLC

CONSTANTS d1, d2, v1, v2, r1, r2

TwoDossiers == {d1, d2}
OneVehicle == {v1}
TwoVehicles == {v1, v2}
OneRequest == {r1}
TwoRequests == {r1, r2}

SerialSymmetry == Permutations(TwoDossiers) \union Permutations(TwoVehicles)
RaceSymmetry == Permutations(TwoDossiers) \union Permutations(TwoRequests)

(* One step for each class of the vehicle map, and the booking step. *)
ShortSteps ==
  << "offerSelected", "vehicleBooking", "loading", "customsClearance",
     "deliveredToClient", "closed" >>
(* The whole CIF workflow. *)
CifSteps == DOSSIER_STATUSES_CIF

ByHand == {"available", "rejected"}

AllOps ==
  {"create", "add", "remove", "advance", "cancel", "restore", "delete",
   "updateVehicle", "archiveVehicle"}
WithoutRestoreAndRemove == AllOps \ {"restore", "remove"}
MilestoneOps == {"create", "advance", "cancel", "updateVehicle"}
=============================================================================
