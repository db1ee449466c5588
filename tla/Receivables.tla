----------------------------- MODULE Receivables -----------------------------
(***************************************************************************)
(* What clients owe and pay: payments, what of each is allocated to which  *)
(* invoice, the deposits that keep the rest, the ledger entry of each      *)
(* payment, and the invoices.                                              *)
(*                                                                         *)
(* A handler that decides inside its transaction is one action.  One that  *)
(* decides on rows read before it is a Read action, which leaves what it   *)
(* saw in `req', and a Commit that writes by id.  The allocations of one   *)
(* payment to one invoice are kept as the sum of the ACTIVE ones; currency *)
(* rates, treasury accounts and instalments are left out.                  *)
(***************************************************************************)
EXTENDS Integers, FiniteSets

CONSTANTS
  Payments,        \* ids of the payments that may be recorded
  Invoices,        \* ids of the invoices that may be drawn up
  Requests,        \* handlers that may be in flight at the same time
  MaxAmount        \* bound on one payment and on the total of one invoice

ASSUME ReceivablesAssumption == MaxAmount \in Nat \ {0}

VARIABLES
  payment,         \* Payment: status and amount
  allocated,       \* PaymentAllocation: the ACTIVE sum of a payment on an invoice
  targets,         \* the invoices a payment has, or had, an allocation on
  deposit,         \* CustomerDeposit, by the payment it came with
  entry,           \* FinanceTransaction of the payment, its reversal included
  invoice,         \* Invoice
  req              \* the context of each request

vars == << payment, allocated, targets, deposit, entry, invoice, req >>

Amounts == 1 .. MaxAmount

-----------------------------------------------------------------------------
Idle == [op |-> "idle"]

NoPayment == [status |-> "unused", amount |-> 0]
NoDeposit == [status |-> "none", amount |-> 0, applied |-> 0]
NoInvoice == [status |-> "none", lines |-> 0, total |-> 0, paid |-> 0]
NoShare   == [i \in Invoices |-> 0]

Open == {"ISSUED", "PARTIALLY_PAID", "OVERDUE"}   \* may receive a payment

(* The amount of an allocation on each invoice, together: its units, counted *)
(* one by one.                                                               *)
Total(share) == Cardinality({u \in Invoices \X Amounts : u[2] <= share[u[1]]})

(* What confirmed payments have on an invoice, by the tables given.          *)
Collected(payments, shares, i) ==
  Cardinality({u \in Payments \X Amounts :
                 payments[u[1]].status = "CONFIRMED" /\ u[2] <= shares[u[1]][i]})

Unapplied(p) == deposit[p].amount - deposit[p].applied

-----------------------------------------------------------------------------
(* Reconciliation: an invoice shows what confirmed payments have on it.  Its *)
(* due date may be past (`late') or not.                                     *)
StatusFor(inv, sum, late) ==
  CASE inv.status = "DRAFT"                          -> "DRAFT"
    [] inv.status # "DRAFT" /\ sum >= inv.total      -> "PAID"
    [] inv.status # "DRAFT" /\ sum \in 1 .. inv.total - 1 -> "PARTIALLY_PAID"
    [] OTHER                                         -> IF late THEN "OVERDUE" ELSE "ISSUED"

(* Mutant: a payment on a voided invoice brings the invoice back.            *)
ReconciledVoidToo(inv, sum, late) ==
  [inv EXCEPT !.paid = sum, !.status = StatusFor(inv, sum, late)]

(* Mutant: the open status of an instalment is written to an invoice.        *)
ReconciledPending(inv, sum, late) ==
  IF inv.status = "VOIDED" THEN inv
  ELSE [inv EXCEPT !.paid = sum,
                   !.status = IF sum = 0 /\ inv.status # "DRAFT" THEN "PENDING"
                              ELSE StatusFor(inv, sum, late)]

Reconciled(inv, sum, late) ==
  IF inv.status = "VOIDED" THEN inv
  ELSE [inv EXCEPT !.paid = sum, !.status = StatusFor(inv, sum, late)]

(* reconcileInvoice, of every invoice of S, on the tables after the step.    *)
reconcileInvoices(S) ==
  \E late \in SUBSET S :
    invoice' = [ i \in Invoices |->
                   IF i \in S
                   THEN Reconciled(invoice[i], Collected(payment', allocated', i), i \in late)
                   ELSE invoice[i] ]

(* The invoices with an active allocation of p, after the step.              *)
ActiveTargets(shares, p) == {i \in Invoices : shares[p][i] > 0}

-----------------------------------------------------------------------------
Serve ==
  /\ \E r \in Requests : req[r] = Idle
  /\ UNCHANGED req

Start(r, context) ==
  /\ req[r] = Idle
  /\ req' = [req EXCEPT ![r] = context]
  /\ UNCHANGED << payment, allocated, targets, deposit, entry, invoice >>

Finish(r, op) ==
  /\ req[r].op = op
  /\ req' = [req EXCEPT ![r] = Idle]

(* Releasing everything a payment was used for: its allocations and deposit. *)
ReleasePayment(p) ==
  /\ payment' = [payment EXCEPT ![p].status = "REVERSED"]
  /\ allocated' = [allocated EXCEPT ![p] = NoShare]
  /\ deposit' = IF deposit[p].status = "none" THEN deposit
                ELSE [deposit EXCEPT ![p].status = "REVERSED"]
  /\ UNCHANGED targets

-----------------------------------------------------------------------------
(* Payments. *)

(* A pending payment and its allocations, which claim nothing yet.           *)
NewPayment(p, a, share) ==
  /\ payment[p] = NoPayment
  /\ payment' = [payment EXCEPT ![p] = [status |-> "PENDING", amount |-> a]]
  /\ allocated' = [allocated EXCEPT ![p] = share]
  /\ targets' = [targets EXCEPT ![p] = {i \in Invoices : share[i] > 0}]
  /\ UNCHANGED << deposit, entry, invoice >>

(* With a list of allocations, or none: only their sum is checked, not the   *)
(* invoices.  A key that was used returns the payment it stands for.         *)
recordAllocations(p, a, share) ==
  /\ Serve
  /\ Total(share) <= a
  /\ \A i \in Invoices : share[i] > 0 => invoice[i] # NoInvoice
  /\ NewPayment(p, a, share)

(* For one invoice: its balance is read before the transaction.              *)
ReadRecord(r, p, a, i) ==
  /\ payment[p] = NoPayment
  /\ invoice[i].status \in Open
  /\ a <= invoice[i].total - invoice[i].paid
  /\ Start(r, [op |-> "record", p |-> p, a |-> a, i |-> i])

CommitRecord(r) ==
  /\ Finish(r, "record")
  /\ NewPayment(req[r].p, req[r].a, [NoShare EXCEPT ![req[r].i] = req[r].a])

(* Mutant: a reversed payment can be confirmed. *)
ReadConfirmReversed(r, p) ==
  /\ payment[p].status \notin {"unused", "CONFIRMED"}
  /\ Start(r, [op |-> "confirm", p |-> p])

ReadConfirm(r, p) ==
  /\ payment[p].status \notin {"unused", "CONFIRMED", "REVERSED"}
  /\ Start(r, [op |-> "confirm", p |-> p])

(* The upsert of the ledger entry keeps one that exists.                     *)
projectCustomerPayment(p) ==
  entry' = IF entry[p] = "none" THEN [entry EXCEPT ![p] = "VALIDATED"] ELSE entry

(* What is not allocated becomes a deposit, unless the payment has one.      *)
DepositRest(p) ==
  LET rest == payment[p].amount - Total(allocated[p])
  IN deposit' = IF rest > 0 /\ deposit[p].status = "none"
                THEN [deposit EXCEPT ![p] =
                        [status |-> "CONFIRMED", amount |-> rest, applied |-> 0]]
                ELSE deposit

CommitConfirm(r) ==
  LET p == req[r].p
  IN /\ Finish(r, "confirm")
     /\ payment' = [payment EXCEPT ![p].status = "CONFIRMED"]
     /\ projectCustomerPayment(p)
     /\ DepositRest(p)
     /\ UNCHANGED << allocated, targets >>
     /\ reconcileInvoices(ActiveTargets(allocated, p))

(* Every allocation there ever was is read, to know what to reconcile.       *)
ReadReverse(r, p) ==
  /\ payment[p].status \notin {"unused", "REVERSED"}
  /\ Start(r, [op |-> "reverse", p |-> p, is |-> targets[p]])

ReverseEntry(p) ==
  entry' = IF entry[p] = "VALIDATED" THEN [entry EXCEPT ![p] = "REVERSED"] ELSE entry

(* Mutant: the invoices are not reconciled. *)
CommitReverseAlone(r) ==
  /\ Finish(r, "reverse")
  /\ ReleasePayment(req[r].p)
  /\ ReverseEntry(req[r].p)
  /\ UNCHANGED invoice

CommitReverse(r) ==
  /\ Finish(r, "reverse")
  /\ ReleasePayment(req[r].p)
  /\ ReverseEntry(req[r].p)
  /\ reconcileInvoices(req[r].is)

(* The ledger reverses the entry of a payment, and the payment with it.      *)
reverseFinanceEntry(p) ==
  /\ Serve
  /\ entry[p] = "VALIDATED"
  /\ ReverseEntry(p)
  /\ ReleasePayment(p)
  /\ reconcileInvoices(ActiveTargets(allocated, p))

-----------------------------------------------------------------------------
(* Deposits. *)

(* A deposit received: payment, entry and deposit, all confirmed at once.    *)
createDeposit(p, a) ==
  /\ Serve
  /\ payment[p] = NoPayment
  /\ payment' = [payment EXCEPT ![p] = [status |-> "CONFIRMED", amount |-> a]]
  /\ projectCustomerPayment(p)
  /\ deposit' = [deposit EXCEPT ![p] = [status |-> "CONFIRMED", amount |-> a, applied |-> 0]]
  /\ UNCHANGED << allocated, targets, invoice >>

(* Mutant: the deposit forgets what it has been applied to.                  *)
AppliedAgain(dep, a) == [dep EXCEPT !.status = "PARTIALLY_APPLIED"]

Applied(dep, a) ==
  [ dep EXCEPT !.applied = @ + a,
               !.status = IF dep.applied + a = dep.amount THEN "FULLY_APPLIED"
                          ELSE "PARTIALLY_APPLIED" ]

apply(p, i, a) ==
  /\ Serve
  /\ deposit[p].status \notin {"none", "REVERSED"}
  /\ payment[p].status # "REVERSED"
  /\ a <= Unapplied(p)
  /\ invoice[i].status \in Open
  /\ a <= invoice[i].total - invoice[i].paid
  /\ allocated' = [allocated EXCEPT ![p][i] = @ + a]
  /\ targets' = [targets EXCEPT ![p] = @ \union {i}]
  /\ deposit' = [deposit EXCEPT ![p] = Applied(@, a)]
  /\ UNCHANGED << payment, entry >>
  /\ reconcileInvoices(ActiveTargets(allocated', p))

-----------------------------------------------------------------------------
(* Invoices. *)

createInvoice(i, t) ==
  /\ Serve
  /\ invoice[i] = NoInvoice
  /\ invoice' = [invoice EXCEPT ![i] = [status |-> "DRAFT", lines |-> t, total |-> t, paid |-> 0]]
  /\ UNCHANGED << payment, allocated, targets, deposit, entry >>

ReadUpdateInvoice(r, i) ==
  /\ invoice[i].status = "DRAFT"
  /\ Start(r, [op |-> "updateInvoice", i |-> i, total |-> invoice[i].total])

(* New lines with their total, or the total that was read.                   *)
CommitUpdateInvoice(r) ==
  LET c == req[r]
  IN /\ Finish(r, "updateInvoice")
     /\ invoice' \in { [invoice EXCEPT ![c.i].lines = t, ![c.i].total = t] : t \in Amounts }
                     \union { [invoice EXCEPT ![c.i].total = c.total] }
     /\ UNCHANGED << payment, allocated, targets, deposit, entry >>

ReadIssue(r, i) ==
  /\ invoice[i].status = "DRAFT"
  /\ Start(r, [op |-> "issue", i |-> i])

(* Mutant: an invoice is issued unpaid, whatever it has received as a draft. *)
CommitIssueUnpaid(r) ==
  LET i == req[r].i
  IN /\ Finish(r, "issue")
     /\ invoice' = [invoice EXCEPT ![i].total = invoice[i].lines, ![i].status = "ISSUED"]
     /\ UNCHANGED << payment, allocated, targets, deposit, entry >>

CommitIssue(r) ==
  LET i == req[r].i
      issued == [invoice[i] EXCEPT !.total = invoice[i].lines, !.status = "ISSUED"]
  IN /\ Finish(r, "issue")
     /\ \E late \in BOOLEAN :
          invoice' = [invoice EXCEPT ![i] = Reconciled(issued, Collected(payment, allocated, i), late)]
     /\ UNCHANGED << payment, allocated, targets, deposit, entry >>

ReadVoid(r, i) ==
  /\ invoice[i].status \notin {"none", "VOIDED"}
  /\ Start(r, [op |-> "void", i |-> i])

(* Payments and deposits keep what they had; the allocations are gone.       *)
CommitVoid(r) ==
  LET i == req[r].i
  IN /\ Finish(r, "void")
     /\ invoice' = [invoice EXCEPT ![i].status = "VOIDED"]
     /\ allocated' = [p \in Payments |-> [allocated[p] EXCEPT ![i] = 0]]
     /\ UNCHANGED << payment, targets, deposit, entry >>

(* The transaction fails, or the client never calls again.                   *)
Abort(r) ==
  /\ req[r] # Idle
  /\ req' = [req EXCEPT ![r] = Idle]
  /\ UNCHANGED << payment, allocated, targets, deposit, entry, invoice >>

-----------------------------------------------------------------------------
Init ==
  /\ payment = [p \in Payments |-> NoPayment]
  /\ allocated = [p \in Payments |-> NoShare]
  /\ targets = [p \in Payments |-> {}]
  /\ deposit = [p \in Payments |-> NoDeposit]
  /\ entry = [p \in Payments |-> "none"]
  /\ invoice = [i \in Invoices |-> NoInvoice]
  /\ req = [r \in Requests |-> Idle]

PaymentStep(p) ==
  \/ \E a \in Amounts, share \in [Invoices -> 0 .. MaxAmount] : recordAllocations(p, a, share)
  \/ reverseFinanceEntry(p)
  \/ \E a \in Amounts : createDeposit(p, a)
  \/ \E i \in Invoices, a \in Amounts : apply(p, i, a)

Read(r) ==
  \/ \E p \in Payments :
       \/ \E i \in Invoices, a \in Amounts : ReadRecord(r, p, a, i)
       \/ ReadConfirm(r, p)
       \/ ReadReverse(r, p)
  \/ \E i \in Invoices : ReadUpdateInvoice(r, i) \/ ReadIssue(r, i) \/ ReadVoid(r, i)

Next ==
  \/ \E p \in Payments : PaymentStep(p)
  \/ \E i \in Invoices, t \in Amounts : createInvoice(i, t)
  \/ \E r \in Requests :
       \/ Read(r)
       \/ CommitRecord(r) \/ CommitConfirm(r) \/ CommitReverse(r)
       \/ CommitUpdateInvoice(r) \/ CommitIssue(r) \/ CommitVoid(r)
       \/ Abort(r)

Spec == Init /\ [][Next]_vars

-----------------------------------------------------------------------------
PaymentStatuses == {"unused", "PENDING", "CONFIRMED", "REVERSED"}
DepositStatuses == {"none", "CONFIRMED", "PARTIALLY_APPLIED", "FULLY_APPLIED", "REVERSED"}
InvoiceStatuses == {"none", "DRAFT", "PAID", "VOIDED"} \union Open

(* The rows have the shape the handlers give them. *)
TypeOK ==
  /\ payment \in [Payments -> [status : PaymentStatuses, amount : 0 .. MaxAmount]]
  /\ allocated \in [Payments -> [Invoices -> 0 .. MaxAmount]]
  /\ targets \in [Payments -> SUBSET Invoices]
  /\ deposit \in [Payments -> [status : DepositStatuses, amount : 0 .. MaxAmount,
                               applied : 0 .. MaxAmount]]
  /\ entry \in [Payments -> {"none", "VALIDATED", "REVERSED"}]
  /\ invoice \in [Invoices -> [status : InvoiceStatuses, lines : 0 .. MaxAmount,
                               total : 0 .. MaxAmount, paid : Nat]]

(* The paid amount of an invoice is money that was collected, is still held  *)
(* and is on this invoice: no reversal, void or late allocation leaves it    *)
(* showing more or less.                                                     *)
PaidIsBacked ==
  \A i \in Invoices :
    invoice[i].status # "VOIDED" => invoice[i].paid = Collected(payment, allocated, i)

(* No money is spent twice: what a payment has on invoices, and what its     *)
(* deposit still offers, never exceed what was received.                     *)
CreditBacked ==
  \A p \in Payments :
    Total(allocated[p])
      + (IF deposit[p].status = "REVERSED" THEN 0 ELSE Unapplied(p)) <= payment[p].amount

(* The status of an issued invoice says what its amounts say, also when it   *)
(* was paid before it was issued.                                            *)
StatusAgreesWithPaid ==
  \A i \in Invoices :
    LET inv == invoice[i]
    IN inv.status \notin {"none", "DRAFT", "VOIDED"} =>
         /\ inv.status = "PAID" <=> inv.paid >= inv.total
         /\ inv.status = "PARTIALLY_PAID" <=> inv.paid \in 1 .. inv.total - 1

KeepsVoided ==
  \A i \in Invoices : invoice[i].status = "VOIDED" => invoice'[i].status = "VOIDED"

(* A voided invoice is never an open one again, though payments may still be *)
(* allocated to it, confirmed and reversed.                                  *)
VoidedIsFinal == [][KeepsVoided]_vars

(* Where the row of a payment and its ledger entry say its money is; rows    *)
(* that contradict each other are nowhere.                                   *)
Stage(status, posted) ==
  CASE status \in {"unused", "PENDING"} /\ posted = "none" -> "expected"
    [] status = "CONFIRMED" /\ posted = "VALIDATED"        -> "held"
    [] status = "REVERSED" /\ posted = "REVERSED"          -> "returned"
    [] status = "REVERSED" /\ posted = "none"              -> "dropped"
    [] OTHER                                               -> "contradictory"

Cash == INSTANCE CashBook
  WITH Movements <- Payments,
       stage <- [p \in Payments |-> Stage(payment[p].status, entry[p])]

(* Payments and ledger implement the cash book: they move together, money is *)
(* collected once and returned at most once.                                 *)
ImplementsCashBook == Cash!Spec
=============================================================================
