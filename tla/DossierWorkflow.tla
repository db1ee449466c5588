--------------------------- MODULE DossierWorkflow ---------------------------
(***************************************************************************)
(* The pure part of the dossier workflow: the step tables of the three     *)
(* dossier types (current and frozen version 1), the transition rule of    *)
(* DossierWorkflowService and the authoritative map from a dossier         *)
(* milestone to the status of the dossier's vehicles.                      *)
(***************************************************************************)
EXTENDS Naturals, Sequences

DossierTypes == {"VEHICLE_SALE_CIF", "VEHICLE_SALE_DDP", "SHIPPING_ONLY"}

SaleSteps ==
  << "offerSelected", "clientConfirmed", "contractSigned", "depositReceived",
     "vehicleBooking", "inspection", "purchaseConfirmed", "supplierPaid",
     "shipmentBooking", "loading", "billOfLadingIssued", "inTransit",
     "arrivedAtPort" >>

DOSSIER_STATUSES_CIF == SaleSteps \o << "documentsDelivered", "closed" >>

DOSSIER_STATUSES_DDP ==
  SaleSteps \o << "customsClearance", "customsReleased", "portExit",
                  "localTransport", "deliveredToClient", "closed" >>

DOSSIER_STATUSES_SHIPPING ==
  << "clientRegistered", "externalVehicleRecorded", "externalSupplierRecorded",
     "pickupReceived", "shippingQuoted", "paymentReceived", "booking",
     "loading", "containerBillOfLading", "inTransit", "arrived",
     "serviceCompleted" >>

WORKFLOW_STEPS_BY_TYPE ==
  [ t \in DossierTypes |->
      CASE t = "VEHICLE_SALE_CIF" -> DOSSIER_STATUSES_CIF
        [] t = "VEHICLE_SALE_DDP" -> DOSSIER_STATUSES_DDP
        [] t = "SHIPPING_ONLY"    -> DOSSIER_STATUSES_SHIPPING ]

(* Version 1 has no vehicle booking, and its shipment booking is "booking":  *)
(* the steps after the dropped one move up by one.                           *)
LegacyOf(steps) ==
  LET dropped == CHOOSE i \in DOMAIN steps : steps[i] = "vehicleBooking"
      kept == [ i \in 1 .. Len(steps) - 1 |->
                  IF i < dropped THEN steps[i] ELSE steps[i + 1] ]
  IN  [ i \in DOMAIN kept |->
          IF kept[i] = "shipmentBooking" THEN "booking" ELSE kept[i] ]

(* The table of the shipping service is the same in both versions. *)
LEGACY_WORKFLOW_STEPS_BY_TYPE ==
  [ t \in DossierTypes |->
      IF t = "SHIPPING_ONLY" THEN DOSSIER_STATUSES_SHIPPING
                             ELSE LegacyOf(WORKFLOW_STEPS_BY_TYPE[t]) ]

TERMINAL_STATUSES == {"closed", "serviceCompleted", "cancelled"}

getInitialStatus(type) ==
  IF type = "SHIPPING_ONLY" THEN "clientRegistered" ELSE "offerSelected"

StepsOf(type, version) ==
  IF version >= 2 THEN WORKFLOW_STEPS_BY_TYPE[type]
                  ELSE LEGACY_WORKFLOW_STEPS_BY_TYPE[type]

StatusesOf(type, version) ==
  { StepsOf(type, version)[i] : i \in DOMAIN StepsOf(type, version) }

(* A sale dossier without a shipment skips the booking of one. *)
Applicable(type, hasShipment, step) ==
  \/ hasShipment
  \/ type = "SHIPPING_ONLY"
  \/ step \notin {"shipmentBooking", "booking"}

(* The first applicable step after `status': a singleton, or empty when the  *)
(* status is the last one or is not a step of the dossier's workflow at all. *)
NextSteps(type, status, version, hasShipment) ==
  LET steps == StepsOf(type, version)
      later == { j \in DOMAIN steps :
                   /\ Applicable(type, hasShipment, steps[j])
                   /\ \E i \in 1 .. (j - 1) : steps[i] = status }
  IN  { steps[j] : j \in { k \in later : \A l \in later : k <= l } }

getAllowedTransitions(type, status, version, hasShipment) ==
  IF status \in TERMINAL_STATUSES
  THEN {}
  ELSE NextSteps(type, status, version, hasShipment) \union {"cancelled"}

validateTransition(type, from, to, version, hasShipment) ==
  /\ from # to
  /\ to \in getAllowedTransitions(type, from, version, hasShipment)

(* DOSSIER_STATUS_TO_VEHICLE_STATUS, by vehicle status; "none" for a status  *)
(* without an entry (cancellation).                                          *)
VehicleStatuses ==
  {"prePurchase", "rejected", "available", "reserved", "inTransit",
   "inCustoms", "delivered", "sold"}

getTargetVehicleStatus(status) ==
  CASE status \in {"loading", "billOfLadingIssued", "inTransit",
                   "arrivedAtPort", "containerBillOfLading"} -> "inTransit"
    [] status \in {"customsClearance", "customsReleased"} -> "inCustoms"
    [] status \in {"documentsDelivered", "portExit", "localTransport",
                   "deliveredToClient", "arrived", "serviceCompleted"} -> "delivered"
    [] status = "closed" -> "sold"
    [] status = "cancelled" -> "none"
    [] OTHER -> "reserved"

AllStatuses ==
  {"cancelled"} \union (UNION { StatusesOf(t, v) : t \in DossierTypes, v \in 1 .. 2 })
=============================================================================
