SPECIFICATION Spec
CONSTANTS
  r1 = r1
  Requests <- OneRequest
  Types <- AllTypes
  Versions <- BothVersions
  Ops <- AllOps
INVARIANTS TypeOK ActiveHasNextStep
PROPERTIES MovesAlongWorkflow
