SPECIFICATION Spec
CONSTANTS
  s1 = s1
  s2 = s2
  v1 = v1
  v2 = v2
  d1 = d1
  r1 = r1
  Shipments <- TwoShipments
  Vehicles <- TwoVehicles
  Dossiers <- OneDossier
  DDP <- OneDossier
  DossiersOf <- Links
  StepsOfDossier <- Steps
  Capacities <- OneOrTwo
  MaxAmount = 2
  Requests <- OneRequest
CHECK_DEADLOCK FALSE
SYMMETRY Symmetry
INVARIANTS TypeOK LoadedOnce  CustomsInStep BookedIsFrozen
PROPERTIES NeverSailsBack
