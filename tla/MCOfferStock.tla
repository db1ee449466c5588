---------------------------- MODULE MCOfferStock ----------------------------
(* Small instances of OfferStock. *)
EXTENDS OfferStock, TLC

CONSTANTS d1, d2, k1, k2, r1, r2

TwoDossiers == {d1, d2}
OneReservation == {k1}
TwoReservations == {k1, k2}
OneRequest == {r1}
TwoRequests == {r1, r2}

StockSymmetry == Permutations(TwoDossiers)

(* A reserving step after the first, the purchase, and a step without        *)
(* commerce.                                                                 *)
ShortSteps == << "offerSelected", "inspection", "purchaseConfirmed", "closed" >>

AllOps ==
  {"reserve", "assignToDossier", "release", "materialize", "purchaseOfferVehicle",
   "transition", "loseOfferVehicle", "archive", "publish", "create", "advance",
   "cancel", "restore"}
ReserveAndRelease == {"reserve", "release"}
=============================================================================
