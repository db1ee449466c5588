SPECIFICATION Spec
CONSTANTS
  d1 = d1
  d2 = d2
  v1 = v1
  v2 = v2
  r1 = r1
  r2 = r2
  NoVehicle = NoVehicle
  Dossiers <- TwoDossiers
  Vehicles <- TwoVehicles
  Requests <- OneRequest
  Steps <- ShortSteps
  SettableStatuses <- ByHand
  Ops <- AllOps
CHECK_DEADLOCK FALSE
SYMMETRY SerialSymmetry
INVARIANTS TypeOK
PROPERTIES RejectionSurvivesDossier ImplementsHolding
