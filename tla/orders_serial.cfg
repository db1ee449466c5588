SPECIFICATION Spec
CONSTANTS
  o1 = o1
  o2 = o2
  o3 = o3
  v1 = v1
  v2 = v2
  r1 = r1
  Orders <- ThreeOrders
  Vehicles <- TwoVehicles
  Requests <- OneRequest
CHECK_DEADLOCK FALSE
SYMMETRY Symmetry
INVARIANTS TypeOK ReservedIsHeld HeldIsNotOffered SoldOnce
