SPECIFICATION Spec
CONSTANTS
  ringing = ringing
  unanswered = unanswered
  text = text
  again = again
  c1 = c1
  mc = mc
  m1 = m1
  a1 = a1
  d1 = d1
  d2 = d2
  r1 = r1
  r2 = r2
  Nobody = Nobody
  About <- AboutOf
  Says <- SaysOf
  Agents <- OneAgent
  CallEvents <- RingingAndUnanswered
  MessageEvents <- None
  ProviderCalls <- OneCall
  ManualCalls <- None
  Messages <- None
  Deliveries <- TwoDeliveries
  Requests <- OneRequest
INVARIANTS TypeOK ProcessedIsRecorded
PROPERTIES FollowsCallTable  ImplementsDelivery
