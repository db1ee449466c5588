SPECIFICATION Spec
CONSTANTS
  p1 = p1
  p2 = p2
  i1 = i1
  i2 = i2
  r1 = r1
  r2 = r2
  Payments <- TwoPayments
  Invoices <- TwoInvoices
  Requests <- OneRequest
  MaxAmount = 2
CHECK_DEADLOCK FALSE
SYMMETRY ReceivablesSymmetry
INVARIANTS TypeOK PaidIsBacked CreditBacked StatusAgreesWithPaid
PROPERTIES VoidedIsFinal ImplementsCashBook
