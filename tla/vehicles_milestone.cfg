SPECIFICATION Spec
CONSTANTS
  d1 = d1
  d2 = d2
  v1 = v1
  v2 = v2
  r1 = r1
  r2 = r2
  NoVehicle = NoVehicle
  Dossiers <- TwoDossiers
  Vehicles <- OneVehicle
  Requests <- TwoRequests
  Steps <- CifSteps
  SettableStatuses <- ByHand
  Ops <- MilestoneOps
CHECK_DEADLOCK FALSE
SYMMETRY RaceSymmetry
INVARIANTS AgreesWithMilestone
