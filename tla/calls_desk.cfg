SPECIFICATION Spec
CONSTANTS
  ringing = ringing
  unanswered = unanswered
  text = text
  again = again
  c1 = c1
  mc = mc
  m1 = m1
  a1 = a1
  d1 = d1
  d2 = d2
  r1 = r1
  r2 = r2
  Nobody = Nobody
  About <- AboutOf
  Says <- SaysOf
  Agents <- OneAgent
  CallEvents <- None
  MessageEvents <- TextTwice
  ProviderCalls <- None
  ManualCalls <- OneManualCall
  Messages <- OneMessage
  Deliveries <- OneDelivery
  Requests <- TwoRequests
PROPERTIES StatusMovesForward
