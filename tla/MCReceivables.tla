--------------------------- MODULE MCReceivables ---------------------------
(* Small instances of Receivables. *)
EXTENDS Receivables, TLC

CONSTANTS p1, p2, i1, i2, r1, r2

OnePayment == {p1}
TwoPayments == {p1, p2}
OneInvoice == {i1}
TwoInvoices == {i1, i2}
OneRequest == {r1}
TwoRequests == {r1, r2}

ReceivablesSymmetry == Permutations(TwoPayments) \union Permutations(TwoInvoices)
=============================================================================
