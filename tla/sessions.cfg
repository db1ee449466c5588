SPECIFICATION Spec
CONSTANTS
  t1 = t1
  t2 = t2
  t3 = t3
  c1 = c1
  r1 = r1
  r2 = r2
  Tokens <- ThreeTokens
  Recovery <- OneCode
  Requests <- TwoRequests
  MaxAttempts = 2
  MaxTime = 3
  MaxPassword = 1
  MaxChallenge = 2
  MaxVersion = 2
CHECK_DEADLOCK FALSE
SYMMETRY Symmetry
INVARIANTS TypeOK OpenedOnce CodesOnce VerifiedSinceEnabled
