SPECIFICATION Spec
CONSTANTS
  d1 = d1
  d2 = d2
  k1 = k1
  k2 = k2
  r1 = r1
  r2 = r2
  NoDossier = NoDossier
  Dossiers <- TwoDossiers
  Reservations <- OneReservation
  Requests <- OneRequest
  Quantity = 2
  Steps <- ShortSteps
  Ops <- AllOps
CHECK_DEADLOCK FALSE
SYMMETRY StockSymmetry
INVARIANTS TypeOK PromisesBacked ClaimsCounted CatalogueCounted
