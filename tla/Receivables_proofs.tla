------------------------- MODULE Receivables_proofs -------------------------
(***************************************************************************)
(* Proofs about the money of Receivables, for every set of payments,       *)
(* invoices and requests: what holds however the handlers interleave, and  *)
(* what holds when they are served one after the other.                    *)
(***************************************************************************)
EXTENDS Receivables, FiniteSetTheorems, TLAPS

(* The shape of the rows the ledger depends on. *)
MoneyTyped ==
  /\ payment \in [Payments -> [status : PaymentStatuses, amount : Amounts \union {0}]]
  /\ entry \in [Payments -> {"none", "VALIDATED", "REVERSED"}]
  /\ req = [r \in Requests |-> req[r]]

(* What a handler that is about to write knows of its payment.               *)
ContextTyped ==
  \A r \in Requests :
    /\ req[r].op \in {"record", "confirm", "reverse"} => req[r].p \in Payments
    /\ req[r].op = "record" => req[r].a \in Amounts

(* A payment that is not collected yet has no entry, one that is has one,    *)
(* and the ledger only counts money that is there.                           *)
LedgerAgrees ==
  \A p \in Payments :
    /\ payment[p].status \in {"unused", "PENDING"} => entry[p] = "none"
    /\ payment[p].status = "CONFIRMED" => entry[p] # "none"
    /\ entry[p] = "VALIDATED" => payment[p].status = "CONFIRMED"

Ledger == MoneyTyped /\ ContextTyped /\ LedgerAgrees

(* The ledger counts no money that was not collected or was given back: no   *)
(* valid entry without a confirmed payment.                                  *)
LedgerIsBacked ==
  \A p \in Payments : entry[p] = "VALIDATED" => payment[p].status = "CONFIRMED"

-----------------------------------------------------------------------------
LEMMA InitLedger == Init => Ledger
  BY DEF Init, Ledger, MoneyTyped, ContextTyped, LedgerAgrees, NoPayment, Idle,
         PaymentStatuses

(* What is served, started and finished, seen from the requests.             *)
LEMMA ServeKeeps ==
  ASSUME MoneyTyped, ContextTyped, Serve
  PROVE  req' = [r \in Requests |-> req'[r]] /\ ContextTyped'
  BY DEF MoneyTyped, ContextTyped, Serve

LEMMA FinishKeeps ==
  ASSUME MoneyTyped, ContextTyped, NEW r \in Requests, NEW op, Finish(r, op)
  PROVE  /\ req' = [s \in Requests |-> req'[s]]
         /\ ContextTyped'
  BY DEF MoneyTyped, ContextTyped, Finish, Idle

LEMMA StartKeeps ==
  ASSUME Ledger, NEW r \in Requests, NEW c, Start(r, c),
         c.op \in {"record", "confirm", "reverse"} => c.p \in Payments,
         c.op = "record" => c.a \in Amounts
  PROVE  Ledger'
  <1>1. MoneyTyped'
    BY DEF Ledger, MoneyTyped, Start
  <1>2. ContextTyped'
    BY DEF Ledger, MoneyTyped, ContextTyped, Start
  <1>3. LedgerAgrees'
    BY DEF Ledger, LedgerAgrees, Start
  <1> QED BY <1>1, <1>2, <1>3 DEF Ledger

(* A step that touches neither payments nor ledger.                          *)
LEMMA ElsewhereKeeps ==
  ASSUME Ledger, UNCHANGED << payment, entry >>,
         req' = [r \in Requests |-> req'[r]], ContextTyped'
  PROVE  Ledger'
  BY DEF Ledger, MoneyTyped, LedgerAgrees

(* The four things that happen to a payment.                                 *)
LEMMA NewPaymentLedger ==
  ASSUME Ledger, NEW p \in Payments, NEW a \in Amounts, NEW share, NewPayment(p, a, share),
         req' = [r \in Requests |-> req'[r]], ContextTyped'
  PROVE  Ledger'
  <1> USE DEF Ledger, NewPayment, NoPayment
  <1>1. MoneyTyped'
    BY DEF MoneyTyped, PaymentStatuses
  <1>2. LedgerAgrees'
    BY DEF MoneyTyped, LedgerAgrees
  <1> QED BY <1>1, <1>2

LEMMA ConfirmLedger ==
  ASSUME Ledger, NEW p \in Payments, projectCustomerPayment(p),
         NEW row \in [status : {"CONFIRMED"}, amount : Amounts \union {0}],
         payment' = [payment EXCEPT ![p] = row],
         entry[p] = "REVERSED" => payment[p].status \notin {"unused", "PENDING"},
         req' = [r \in Requests |-> req'[r]], ContextTyped'
  PROVE  Ledger'
  <1> USE DEF Ledger, projectCustomerPayment
  <1>1. MoneyTyped'
    BY DEF MoneyTyped, PaymentStatuses
  <1>2. LedgerAgrees'
    BY DEF MoneyTyped, LedgerAgrees
  <1> QED BY <1>1, <1>2

LEMMA ReverseLedger ==
  ASSUME Ledger, NEW p \in Payments, ReleasePayment(p), ReverseEntry(p),
         req' = [r \in Requests |-> req'[r]], ContextTyped'
  PROVE  Ledger'
  <1> USE DEF Ledger, ReleasePayment, ReverseEntry
  <1>1. MoneyTyped'
    BY DEF MoneyTyped, PaymentStatuses
  <1>2. LedgerAgrees'
    BY DEF MoneyTyped, LedgerAgrees
  <1> QED BY <1>1, <1>2

-----------------------------------------------------------------------------
LEMMA PaymentStepLedger ==
  ASSUME Ledger, NEW p \in Payments, PaymentStep(p)
  PROVE  Ledger'
  <1>1. req' = [r \in Requests |-> req'[r]] /\ ContextTyped'
    BY ServeKeeps DEF PaymentStep, recordAllocations, reverseFinanceEntry, createDeposit,
       apply, Ledger
  <1>2. CASE \E a \in Amounts, share \in [Invoices -> 0 .. MaxAmount] :
               recordAllocations(p, a, share)
    BY <1>1, <1>2, NewPaymentLedger DEF recordAllocations
  <1>3. CASE reverseFinanceEntry(p)
    BY <1>1, <1>3, ReverseLedger DEF reverseFinanceEntry
  <1>4. CASE \E a \in Amounts : createDeposit(p, a)
    <2>1. PICK a \in Amounts : createDeposit(p, a)
      BY <1>4
    <2>2. entry[p] = "none"
      BY <2>1 DEF createDeposit, NoPayment, Ledger, LedgerAgrees
    <2>3. [status |-> "CONFIRMED", amount |-> a]
            \in [status : {"CONFIRMED"}, amount : Amounts \union {0}]
      OBVIOUS
    <2> QED BY <1>1, <2>1, <2>2, <2>3, ConfirmLedger DEF createDeposit
  <1>5. CASE \E i \in Invoices, a \in Amounts : apply(p, i, a)
    BY <1>1, <1>5, ElsewhereKeeps DEF apply
  <1> QED BY <1>2, <1>3, <1>4, <1>5 DEF PaymentStep

LEMMA ReadLedger ==
  ASSUME Ledger, NEW r \in Requests, Read(r)
  PROVE  Ledger'
  <1>1. CASE \E p \in Payments, i \in Invoices, a \in Amounts : ReadRecord(r, p, a, i)
    BY <1>1, StartKeeps DEF ReadRecord
  <1>2. CASE \E p \in Payments : ReadConfirm(r, p)
    BY <1>2, StartKeeps DEF ReadConfirm
  <1>3. CASE \E p \in Payments : ReadReverse(r, p)
    BY <1>3, StartKeeps DEF ReadReverse
  <1>4. CASE \E i \in Invoices :
               ReadUpdateInvoice(r, i) \/ ReadIssue(r, i) \/ ReadVoid(r, i)
    BY <1>4, StartKeeps DEF ReadUpdateInvoice, ReadIssue, ReadVoid
  <1> QED BY <1>1, <1>2, <1>3, <1>4 DEF Read

LEMMA CommitLedger ==
  ASSUME Ledger, NEW r \in Requests,
         \/ CommitRecord(r) \/ CommitConfirm(r) \/ CommitReverse(r)
         \/ CommitUpdateInvoice(r) \/ CommitIssue(r) \/ CommitVoid(r) \/ Abort(r)
  PROVE  Ledger'
  <1>1. CASE CommitRecord(r)
    <2>1. req[r].p \in Payments /\ req[r].a \in Amounts
      BY <1>1 DEF CommitRecord, Finish, Ledger, ContextTyped
    <2>2. req' = [s \in Requests |-> req'[s]] /\ ContextTyped'
      BY <1>1, FinishKeeps DEF CommitRecord, Ledger
    <2> QED BY <1>1, <2>1, <2>2, NewPaymentLedger DEF CommitRecord
  <1>2. CASE CommitConfirm(r)
    <2> DEFINE p == req[r].p
               row == [payment[p] EXCEPT !.status = "CONFIRMED"]
    <2>1. p \in Payments
      BY <1>2 DEF CommitConfirm, Finish, Ledger, ContextTyped
    <2>2. req' = [s \in Requests |-> req'[s]] /\ ContextTyped'
      BY <1>2, FinishKeeps DEF CommitConfirm, Ledger
    <2>3. row \in [status : {"CONFIRMED"}, amount : Amounts \union {0}]
      BY <2>1 DEF Ledger, MoneyTyped
    <2>4. payment' = [payment EXCEPT ![p] = row]
      BY <1>2, <2>1 DEF CommitConfirm, Ledger, MoneyTyped
    <2>5. entry[p] = "REVERSED" => payment[p].status \notin {"unused", "PENDING"}
      BY <2>1 DEF Ledger, LedgerAgrees
    <2>6. projectCustomerPayment(p)
      BY <1>2 DEF CommitConfirm
    <2> QED
      <3> HIDE DEF p, row
      <3> QED BY <2>1, <2>2, <2>3, <2>4, <2>5, <2>6, ConfirmLedger
  <1>3. CASE CommitReverse(r)
    <2>1. req[r].p \in Payments
      BY <1>3 DEF CommitReverse, Finish, Ledger, ContextTyped
    <2>2. req' = [s \in Requests |-> req'[s]] /\ ContextTyped'
      BY <1>3, FinishKeeps DEF CommitReverse, Ledger
    <2> QED BY <1>3, <2>1, <2>2, ReverseLedger DEF CommitReverse
  <1>4. CASE CommitUpdateInvoice(r) \/ CommitIssue(r) \/ CommitVoid(r)
    <2>1. req' = [s \in Requests |-> req'[s]] /\ ContextTyped'
      BY <1>4, FinishKeeps DEF CommitUpdateInvoice, CommitIssue, CommitVoid, Ledger
    <2> QED BY <1>4, <2>1, ElsewhereKeeps DEF CommitUpdateInvoice, CommitIssue, CommitVoid
  <1>5. CASE Abort(r)
    <2>1. req' = [s \in Requests |-> req'[s]] /\ ContextTyped'
      BY <1>5 DEF Abort, Idle, Ledger, MoneyTyped, ContextTyped
    <2> QED BY <1>5, <2>1, ElsewhereKeeps DEF Abort
  <1> QED BY <1>1, <1>2, <1>3, <1>4, <1>5

LEMMA StepLedger == Ledger /\ [Next]_vars => Ledger'
  <1> SUFFICES ASSUME Ledger, [Next]_vars PROVE Ledger'
    OBVIOUS
  <1>1. ASSUME NEW i \in Invoices, NEW t \in Amounts, createInvoice(i, t) PROVE Ledger'
    BY <1>1, ServeKeeps, ElsewhereKeeps DEF createInvoice, Ledger
  <1>2. CASE UNCHANGED vars
    BY <1>2 DEF vars, Ledger, MoneyTyped, ContextTyped, LedgerAgrees
  <1> QED BY <1>1, <1>2, PaymentStepLedger, ReadLedger, CommitLedger DEF Next

LEMMA AlwaysLedger == Spec => []Ledger
  BY InitLedger, StepLedger, PTL DEF Spec

(* However many handlers interleave, the ledger counts no money that is not  *)
(* collected: a payment and its entry are confirmed, and released, in one    *)
(* transaction.                                                              *)
THEOREM Backing == Spec => []LedgerIsBacked
  <1>1. Ledger => LedgerIsBacked
    BY DEF Ledger, LedgerAgrees, LedgerIsBacked
  <1> QED BY <1>1, AlwaysLedger, PTL

-----------------------------------------------------------------------------
(* Handlers served one after the other. *)
OneAtATime == \A r, s \in Requests : r = s

(* What a handler has read of its payment still holds when it writes.        *)
Fresh ==
  \A r \in Requests :
    /\ req[r].op = "confirm" => payment[req[r].p].status = "PENDING"
    /\ req[r].op = "reverse" => payment[req[r].p].status \in {"PENDING", "CONFIRMED"}

CollectedIsPosted ==
  \A p \in Payments : payment[p].status = "CONFIRMED" => entry[p] = "VALIDATED"

Serial == Ledger /\ Fresh /\ CollectedIsPosted

Stages == [p \in Payments |-> Stage(payment[p].status, entry[p])]

(* A step that touches neither payments nor ledger stutters in the cash book.*)
LEMMA StagesKept ==
  ASSUME UNCHANGED << payment, entry >>
  PROVE  UNCHANGED Stages
  BY DEF Stages

LEMMA StageMoves ==
  ASSUME MoneyTyped, MoneyTyped', NEW p \in Payments, NEW to,
         \A q \in Payments \ {p} : payment'[q] = payment[q] /\ entry'[q] = entry[q],
         Stage(payment'[p].status, entry'[p]) = to
  PROVE  Stages' = [Stages EXCEPT ![p] = to]
  <1>1. \A q \in Payments : Stages'[q] = IF q = p THEN to ELSE Stages[q]
    BY DEF Stages
  <1> QED BY <1>1 DEF Stages

(* A payment that nothing posted, as the cash book sees it.                  *)
LEMMA ExpectedStage ==
  ASSUME Serial, NEW p \in Payments, payment[p].status \in {"unused", "PENDING"}
  PROVE  Stages[p] = "expected" /\ entry[p] = "none"
  BY DEF Serial, Ledger, LedgerAgrees, Stages, Stage

LEMMA HeldStage ==
  ASSUME Serial, NEW p \in Payments, payment[p].status = "CONFIRMED"
  PROVE  Stages[p] = "held" /\ entry[p] = "VALIDATED"
  BY DEF Serial, CollectedIsPosted, Stages, Stage

-----------------------------------------------------------------------------
(* The payment is recorded: the cash book still expects it.                  *)
LEMMA RecordedInBook ==
  ASSUME Serial, MoneyTyped', NEW p \in Payments, NEW a \in Amounts, NEW share,
         NewPayment(p, a, share)
  PROVE  UNCHANGED Stages /\ CollectedIsPosted'
  <1>1. Stages[p] = "expected" /\ entry[p] = "none"
    BY ExpectedStage DEF NewPayment, NoPayment
  <1>2. payment'[p].status = "PENDING"
    BY DEF NewPayment, Serial, Ledger, MoneyTyped
  <1>3. Stages' = [Stages EXCEPT ![p] = "expected"]
    <2>1. Stage(payment'[p].status, entry'[p]) = "expected"
      BY <1>1, <1>2 DEF NewPayment, Stage
    <2> QED BY <2>1, StageMoves DEF NewPayment, Serial, Ledger, MoneyTyped
  <1>4. UNCHANGED Stages
    BY <1>1, <1>3 DEF Stages
  <1>5. CollectedIsPosted'
    BY <1>2 DEF NewPayment, CollectedIsPosted, Serial, Ledger, MoneyTyped
  <1> QED BY <1>4, <1>5

LEMMA CollectedInBook ==
  ASSUME Serial, MoneyTyped', NEW p \in Payments,
         payment[p].status \in {"unused", "PENDING"},
         NEW row \in [status : {"CONFIRMED"}, amount : Amounts \union {0}],
         payment' = [payment EXCEPT ![p] = row], projectCustomerPayment(p)
  PROVE  Cash!Collect(p) /\ CollectedIsPosted'
  <1>1. Stages[p] = "expected" /\ entry[p] = "none"
    BY ExpectedStage
  <1>2. payment'[p].status = "CONFIRMED" /\ entry'[p] = "VALIDATED"
    BY <1>1 DEF projectCustomerPayment, Serial, Ledger, MoneyTyped
  <1>3. \A q \in Payments \ {p} : payment'[q] = payment[q] /\ entry'[q] = entry[q]
    BY <1>1 DEF projectCustomerPayment, Serial, Ledger, MoneyTyped
  <1>4. Stage(payment'[p].status, entry'[p]) = "held"
    BY <1>2 DEF Stage
  <1>5. Stages' = [Stages EXCEPT ![p] = "held"]
    BY <1>3, <1>4, StageMoves DEF Serial, Ledger
  <1>6. Cash!Collect(p)
    BY <1>1, <1>5 DEF Cash!Collect, Cash!Move, Stages
  <1>7. CollectedIsPosted'
    BY <1>2, <1>3 DEF CollectedIsPosted, Serial
  <1> QED BY <1>6, <1>7

LEMMA ReleasedInBook ==
  ASSUME Serial, MoneyTyped', NEW p \in Payments,
         payment[p].status \in {"PENDING", "CONFIRMED"},
         ReleasePayment(p), ReverseEntry(p)
  PROVE  (Cash!Return(p) \/ Cash!Drop(p)) /\ CollectedIsPosted'
  <1>1. \A q \in Payments \ {p} : payment'[q] = payment[q] /\ entry'[q] = entry[q]
    BY DEF ReleasePayment, ReverseEntry, Serial, Ledger, MoneyTyped
  <1>2. payment'[p].status = "REVERSED"
    BY DEF ReleasePayment, Serial, Ledger, MoneyTyped
  <1>3. CollectedIsPosted'
    BY <1>1, <1>2 DEF CollectedIsPosted, Serial
  <1>4. CASE payment[p].status = "PENDING"
    <2>1. Stages[p] = "expected" /\ entry[p] = "none"
      BY <1>4, ExpectedStage
    <2>2. Stage(payment'[p].status, entry'[p]) = "dropped"
      BY <1>2, <2>1 DEF ReverseEntry, Stage
    <2>3. Stages' = [Stages EXCEPT ![p] = "dropped"]
      BY <1>1, <2>2, StageMoves DEF Serial, Ledger
    <2> QED BY <1>3, <2>1, <2>3 DEF Cash!Drop, Cash!Move, Stages
  <1>5. CASE payment[p].status = "CONFIRMED"
    <2>1. Stages[p] = "held" /\ entry[p] = "VALIDATED"
      BY <1>5, HeldStage
    <2>2. entry'[p] = "REVERSED"
      BY <2>1 DEF ReverseEntry, Serial, Ledger, MoneyTyped
    <2>3. Stage(payment'[p].status, entry'[p]) = "returned"
      BY <1>2, <2>2 DEF Stage
    <2>4. Stages' = [Stages EXCEPT ![p] = "returned"]
      BY <1>1, <2>3, StageMoves DEF Serial, Ledger
    <2> QED BY <1>3, <2>1, <2>4 DEF Cash!Return, Cash!Move, Stages
  <1> QED BY <1>4, <1>5

-----------------------------------------------------------------------------
(* A step of the implementation, and what it is in the cash book.            *)
Step == Serial' /\ [Cash!Next]_Stages

LEMMA Stutters ==
  ASSUME Serial, Ledger', Fresh', UNCHANGED << payment, entry >>
  PROVE  Step
  BY StagesKept DEF Step, Serial, CollectedIsPosted

LEMMA PaymentStepInBook ==
  ASSUME Serial, Ledger', Fresh', NEW p \in Payments, PaymentStep(p)
  PROVE  Step
  <1> USE DEF Ledger
  <1>0. MoneyTyped'
    OBVIOUS
  <1>1. Fresh'
    OBVIOUS
  <1>2. CASE \E a \in Amounts, share \in [Invoices -> 0 .. MaxAmount] :
               recordAllocations(p, a, share)
    BY <1>1, <1>2, RecordedInBook DEF recordAllocations, Step, Serial
  <1>3. CASE reverseFinanceEntry(p)
    <2>1. payment[p].status = "CONFIRMED"
      BY <1>3 DEF reverseFinanceEntry, Serial, LedgerAgrees
    <2>2. (Cash!Return(p) \/ Cash!Drop(p)) /\ CollectedIsPosted'
      BY <1>3, <2>1, ReleasedInBook DEF reverseFinanceEntry
    <2> QED BY <1>1, <2>2 DEF Step, Serial, Cash!Next
  <1>4. CASE \E a \in Amounts : createDeposit(p, a)
    <2>1. PICK a \in Amounts : createDeposit(p, a)
      BY <1>4
    <2>2. payment[p].status \in {"unused", "PENDING"}
      BY <2>1 DEF createDeposit, NoPayment
    <2>3. PICK row \in [status : {"CONFIRMED"}, amount : Amounts \union {0}] :
            payment' = [payment EXCEPT ![p] = row]
      BY <2>1 DEF createDeposit
    <2>4. projectCustomerPayment(p)
      BY <2>1 DEF createDeposit
    <2>5. Cash!Collect(p) /\ CollectedIsPosted'
      BY <1>0, <2>2, <2>3, <2>4, CollectedInBook
    <2> QED BY <1>1, <2>5 DEF Step, Serial, Cash!Next
  <1>5. CASE \E i \in Invoices, a \in Amounts : apply(p, i, a)
    BY <1>1, <1>5, Stutters DEF apply
  <1> QED BY <1>2, <1>3, <1>4, <1>5 DEF PaymentStep

LEMMA ReadInBook ==
  ASSUME Serial, Ledger', Fresh', NEW r \in Requests, Read(r)
  PROVE  Step
  <1>1. UNCHANGED << payment, entry >>
    BY DEF Read, ReadRecord, ReadConfirm, ReadReverse, ReadUpdateInvoice, ReadIssue, ReadVoid,
           Start
  <1> QED BY <1>1, Stutters

LEMMA CommitInBook ==
  ASSUME Serial, Ledger', Fresh', NEW r \in Requests,
         \/ CommitRecord(r) \/ CommitConfirm(r) \/ CommitReverse(r)
         \/ CommitUpdateInvoice(r) \/ CommitIssue(r) \/ CommitVoid(r) \/ Abort(r)
  PROVE  Step
  <1> USE DEF Ledger
  <1>0. MoneyTyped'
    OBVIOUS
  <1>1. Fresh'
    OBVIOUS
  <1>2. CASE CommitRecord(r)
    <2>1. req[r].p \in Payments /\ req[r].a \in Amounts
      BY <1>2 DEF CommitRecord, Finish, Serial, ContextTyped
    <2> QED BY <1>1, <1>2, <2>1, RecordedInBook DEF CommitRecord, Step, Serial
  <1>3. CASE CommitConfirm(r)
    <2>1. req[r].p \in Payments /\ payment[req[r].p].status = "PENDING"
      BY <1>3 DEF CommitConfirm, Finish, Serial, ContextTyped, Fresh
    <2> DEFINE row == [payment[req[r].p] EXCEPT !.status = "CONFIRMED"]
    <2>2. /\ row \in [status : {"CONFIRMED"}, amount : Amounts \union {0}]
          /\ payment' = [payment EXCEPT ![req[r].p] = row]
      BY <1>3, <2>1 DEF CommitConfirm, Serial, MoneyTyped
    <2>3. projectCustomerPayment(req[r].p)
      BY <1>3 DEF CommitConfirm
    <2>4. Cash!Collect(req[r].p) /\ CollectedIsPosted'
      <3> HIDE DEF row
      <3> QED BY <1>0, <2>1, <2>2, <2>3, CollectedInBook
    <2> QED BY <1>1, <2>1, <2>4 DEF Step, Serial, Cash!Next
  <1>4. CASE CommitReverse(r)
    <2>1. /\ req[r].p \in Payments
          /\ payment[req[r].p].status \in {"PENDING", "CONFIRMED"}
      BY <1>4 DEF CommitReverse, Finish, Serial, ContextTyped, Fresh
    <2>2. (Cash!Return(req[r].p) \/ Cash!Drop(req[r].p)) /\ CollectedIsPosted'
      BY <1>4, <2>1, ReleasedInBook DEF CommitReverse
    <2> QED BY <1>1, <2>1, <2>2 DEF Step, Serial, Cash!Next
  <1>5. CASE CommitUpdateInvoice(r) \/ CommitIssue(r) \/ CommitVoid(r) \/ Abort(r)
    BY <1>1, <1>5, Stutters DEF CommitUpdateInvoice, CommitIssue, CommitVoid, Abort
  <1> QED BY <1>2, <1>3, <1>4, <1>5

LEMMA StepInBook ==
  ASSUME Serial, Fresh', [Next]_vars
  PROVE  Step
  <1>1. Ledger'
    BY StepLedger DEF Serial
  <1>2. ASSUME NEW i \in Invoices, NEW t \in Amounts, createInvoice(i, t) PROVE Step
    BY <1>1, <1>2, Stutters DEF createInvoice
  <1>3. CASE UNCHANGED vars
    BY <1>1, <1>3, Stutters DEF vars
  <1> QED
    BY <1>1, <1>2, <1>3, PaymentStepInBook, ReadInBook, CommitInBook DEF Next

LEMMA InitInBook == Init => Serial /\ Cash!Init
  BY InitLedger DEF Init, Serial, Fresh, CollectedIsPosted, Cash!Init, Stage, NoPayment, Idle

(* Any number of handlers: as long as none confirms or reverses a payment    *)
(* that moved since it was read, payments and ledger implement the cash book.*)
THEOREM BookingUnlessStale == Spec /\ []Fresh => ImplementsCashBook
  <1>1. Init => Serial /\ Cash!Init
    BY InitInBook
  <1>2. Serial /\ Fresh' /\ [Next]_vars => Serial' /\ [Cash!Next]_Stages
    BY StepInBook DEF Step
  <1> QED BY <1>1, <1>2, PTL DEF Spec, ImplementsCashBook, Cash!Spec, Stages

-----------------------------------------------------------------------------
(* Once the only handler is idle, there is nothing stale left to write.      *)
LEMMA IdleIsFresh ==
  ASSUME OneAtATime, NEW r \in Requests, req'[r] = Idle
  PROVE  Fresh'
  BY DEF OneAtATime, Fresh, Idle

LEMMA ReadIsFresh ==
  ASSUME OneAtATime, Ledger, NEW r \in Requests, Read(r)
  PROVE  Fresh'
  <1> USE DEF OneAtATime, Fresh, Start, Ledger, MoneyTyped
  <1>1. CASE \E p \in Payments, i \in Invoices, a \in Amounts : ReadRecord(r, p, a, i)
    BY <1>1 DEF ReadRecord
  <1>2. CASE \E p \in Payments : ReadConfirm(r, p)
    BY <1>2 DEF ReadConfirm, PaymentStatuses
  <1>3. CASE \E p \in Payments : ReadReverse(r, p)
    BY <1>3 DEF ReadReverse, PaymentStatuses
  <1>4. CASE \E i \in Invoices : ReadUpdateInvoice(r, i) \/ ReadIssue(r, i) \/ ReadVoid(r, i)
    BY <1>4 DEF ReadUpdateInvoice, ReadIssue, ReadVoid
  <1> QED BY <1>1, <1>2, <1>3, <1>4 DEF Read

LEMMA StepFresh ==
  ASSUME OneAtATime, Ledger, Fresh, [Next]_vars
  PROVE  Fresh'
  <1>1. CASE Serve
    BY <1>1, IdleIsFresh DEF Serve
  <1>2. ASSUME NEW p \in Payments, PaymentStep(p) PROVE Serve
    BY <1>2 DEF PaymentStep, recordAllocations, reverseFinanceEntry, createDeposit, apply
  <1>3. ASSUME NEW i \in Invoices, NEW t \in Amounts, createInvoice(i, t) PROVE Serve
    BY <1>3 DEF createInvoice
  <1>4. ASSUME NEW r \in Requests,
               \/ CommitRecord(r) \/ CommitConfirm(r) \/ CommitReverse(r)
               \/ CommitUpdateInvoice(r) \/ CommitIssue(r) \/ CommitVoid(r) \/ Abort(r)
        PROVE  Fresh'
    <2>1. req' = [req EXCEPT ![r] = Idle]
      BY <1>4 DEF CommitRecord, CommitConfirm, CommitReverse, CommitUpdateInvoice, CommitIssue,
         CommitVoid, Abort, Finish
    <2> QED BY <2>1, IdleIsFresh DEF Ledger, MoneyTyped
  <1>5. CASE UNCHANGED vars
    BY <1>5 DEF vars, Fresh
  <1> QED BY <1>1, <1>2, <1>3, <1>4, <1>5, ReadIsFresh DEF Next

(* One after the other, the handlers keep payments and ledger in step, and   *)
(* implement the cash book: money is collected once, returned at most once,  *)
(* and what was returned or dropped stays so.                                *)
THEOREM Booking ==
  ASSUME OneAtATime
  PROVE  Spec => ImplementsCashBook
  <1>1. Init => Fresh
    BY InitInBook DEF Serial
  <1>2. Ledger /\ Fresh /\ [Next]_vars => Fresh'
    BY StepFresh
  <1> QED BY <1>1, <1>2, AlwaysLedger, BookingUnlessStale, PTL DEF Spec
-----------------------------------------------------------------------------
(* Sums, as sets of units.                                                   *)
LEMMA BoundIsNat == MaxAmount \in Nat /\ MaxAmount > 0
BY ReceivablesAssumption DEF ReceivablesAssumption

Shares == [Invoices -> 0 .. MaxAmount]

UnitsOf(share) == {u \in Invoices \X Amounts : u[2] <= share[u[1]]}

Strip(k, b, n) == {k} \X ((b + 1) .. (b + n))

LEMMA StripSize ==
  ASSUME NEW k, NEW b \in Nat, NEW n \in Nat
  PROVE  IsFiniteSet(Strip(k, b, n)) /\ Cardinality(Strip(k, b, n)) = n
<1>1. PICK T : T = (b + 1) .. (b + n)
  OBVIOUS
<1>2. b + 1 \in Int /\ b + n \in Int
  OBVIOUS
<1>3. /\ IsFiniteSet(T)
      /\ Cardinality(T) = IF b + 1 > b + n THEN 0 ELSE (b + n) - (b + 1) + 1
  BY <1>1, <1>2, FS_Interval
<1>4. Cardinality(T) = n
  BY <1>3
<1>5. IsFiniteSet({k}) /\ Cardinality({k}) = 1
  BY FS_Singleton
<1>6. IsFiniteSet({k} \X T) /\ Cardinality({k} \X T) = Cardinality({k}) * Cardinality(T)
  BY <1>3, <1>5, FS_Product
<1>7. PICK c : c = Cardinality({k} \X T)
  OBVIOUS
<1>8. c = 1 * n
  BY <1>4, <1>5, <1>6, <1>7
<1>9. c = n
  BY <1>8
<1>10. QED
  BY <1>1, <1>6, <1>7, <1>9 DEF Strip

LEMMA TotalIsNat ==
  ASSUME IsFiniteSet(Invoices), NEW share
  PROVE  IsFiniteSet(UnitsOf(share)) /\ Total(share) = Cardinality(UnitsOf(share)) /\ Total(share) \in Nat
<1>1. IsFiniteSet(Amounts)
  BY FS_Interval, BoundIsNat DEF Amounts
<1>2. IsFiniteSet(Invoices \X Amounts)
  BY <1>1, FS_Product
<1>3. UnitsOf(share) \in SUBSET (Invoices \X Amounts)
  BY DEF UnitsOf
<1>4. IsFiniteSet(UnitsOf(share))
  BY <1>2, <1>3, FS_Subset
<1>5. Total(share) = Cardinality(UnitsOf(share))
  BY DEF Total, UnitsOf
<1>6. QED
  BY <1>4, <1>5, FS_CardinalityType

LEMMA TotalOfNothing == Total(NoShare) = 0
<1>1. UnitsOf(NoShare) = {}
  BY BoundIsNat DEF UnitsOf, NoShare, Amounts
<1>2. Total(NoShare) = Cardinality(UnitsOf(NoShare))
  BY DEF Total, UnitsOf
<1>3. QED
  BY <1>1, <1>2, FS_EmptySet

(* Some allocations are taken back.                                          *)
LEMMA TotalLess ==
  ASSUME IsFiniteSet(Invoices), NEW old, NEW new,
         \A i \in Invoices : new[i] = old[i] \/ new[i] = 0
  PROVE  Total(new) <= Total(old)
<1>1. UnitsOf(new) \in SUBSET UnitsOf(old)
  BY BoundIsNat DEF UnitsOf, Amounts
<1>2. QED
  BY <1>1, TotalIsNat, FS_Subset

(* One is added to.                                                          *)
LEMMA TotalMore ==
  ASSUME IsFiniteSet(Invoices), NEW i \in Invoices, NEW old \in Shares, NEW a \in Nat, NEW new,
         new[i] = old[i] + a, \A j \in Invoices \ {i} : new[j] = old[j]
  PROVE  Total(new) <= Total(old) + a
<1>1. PICK b \in 0 .. MaxAmount : b = old[i]
  BY DEF Shares
<1>2. b \in Nat
  BY BoundIsNat
<1>3. PICK V : V = Strip(i, b, a)
  OBVIOUS
<1>4. IsFiniteSet(V) /\ Cardinality(V) = a
  BY <1>2, <1>3, StripSize
<1>5. PICK U, W : U = UnitsOf(old) /\ W = UnitsOf(new)
  OBVIOUS
<1>6. IsFiniteSet(U) /\ Cardinality(U) \in Nat /\ Total(old) = Cardinality(U)
      /\ IsFiniteSet(W) /\ Cardinality(W) \in Nat /\ Total(new) = Cardinality(W)
  BY <1>5, TotalIsNat
<1>7. W \in SUBSET (U \union V)
  <2>1. ASSUME NEW u \in W PROVE u \in U \union V
    <3>1. u \in Invoices \X Amounts /\ u[2] <= new[u[1]]
      BY <1>5 DEF UnitsOf
    <3>2. CASE u[1] # i
      BY <1>5, <3>1, <3>2 DEF UnitsOf
    <3>3. CASE u[1] = i
      <4>1. u = << i, u[2] >> /\ u[2] \in Nat /\ u[2] <= b + a
        BY <1>1, <3>1, <3>3, BoundIsNat DEF Amounts
      <4>2. CASE u[2] <= b
        BY <1>1, <1>5, <3>1, <3>3, <4>2 DEF UnitsOf
      <4>3. CASE ~ (u[2] <= b)
        <5>1. u[2] \in (b + 1) .. (b + a)
          BY <1>2, <4>1, <4>3
        <5> QED BY <1>3, <4>1, <5>1 DEF Strip
      <4> QED BY <4>2, <4>3
    <3> QED BY <3>2, <3>3
  <2> QED BY <2>1
<1>8. /\ IsFiniteSet(U \union V)
      /\ Cardinality(U \union V) = Cardinality(U) + Cardinality(V) - Cardinality(U \intersect V)
  BY <1>4, <1>6, FS_Union
<1>9. Cardinality(U \intersect V) \in Nat
  <2>1. U \intersect V \in SUBSET U
    OBVIOUS
  <2> QED BY <2>1, <1>6, FS_Subset, FS_CardinalityType
<1>10. Cardinality(W) <= Cardinality(U \union V)
  BY <1>7, <1>8, FS_Subset
<1>11. PICK x, y, z, t : /\ x = Cardinality(U) /\ y = Cardinality(U \intersect V)
                         /\ z = Cardinality(W) /\ t = Cardinality(U \union V)
  OBVIOUS
<1>12. x \in Nat /\ y \in Nat /\ z \in Nat /\ t = x + a - y /\ z <= t
  BY <1>4, <1>6, <1>8, <1>9, <1>10, <1>11
<1>13. z <= x + a
  BY <1>12
<1>14. QED
  BY <1>6, <1>11, <1>13

LEMMA OneInTotal ==
  ASSUME IsFiniteSet(Invoices), NEW i \in Invoices, NEW share \in Shares
  PROVE  share[i] <= Total(share)
<1>1. PICK b \in 0 .. MaxAmount : b = share[i]
  BY DEF Shares
<1>2. b \in Nat /\ 0 \in Nat
  BY BoundIsNat
<1>3. PICK V : V = Strip(i, 0, b)
  OBVIOUS
<1>4. IsFiniteSet(V) /\ Cardinality(V) = b
  BY <1>2, <1>3, StripSize
<1>5. V \in SUBSET UnitsOf(share)
  BY <1>1, <1>3, BoundIsNat DEF UnitsOf, Amounts, Strip
<1>6. Cardinality(V) <= Cardinality(UnitsOf(share))
  BY <1>5, TotalIsNat, FS_Subset
<1>7. QED
  BY <1>1, <1>4, <1>6, TotalIsNat

(* What confirmed payments put on an invoice.                                *)
CollectedUnits(payments, shares, i) ==
  {u \in Payments \X Amounts : payments[u[1]].status = "CONFIRMED" /\ u[2] <= shares[u[1]][i]}

LEMMA CollectedIsNat ==
  ASSUME IsFiniteSet(Payments), NEW payments, NEW shares, NEW i
  PROVE  Collected(payments, shares, i) \in Nat
<1>1. IsFiniteSet(Amounts)
  BY FS_Interval, BoundIsNat DEF Amounts
<1>2. IsFiniteSet(Payments \X Amounts)
  BY <1>1, FS_Product
<1>3. CollectedUnits(payments, shares, i) \in SUBSET (Payments \X Amounts)
  BY DEF CollectedUnits
<1>4. QED
  BY <1>2, <1>3, FS_Subset, FS_CardinalityType DEF Collected, CollectedUnits

(* Puts: what a payment puts on an invoice, as long as it is confirmed.      *)
Puts(payments, shares, p, i) == payments[p].status = "CONFIRMED" /\ shares[p][i] # 0

LEMMA CollectedAlike ==
  ASSUME NEW i, NEW payments, NEW shares, NEW paymentsAfter, NEW sharesAfter,
         \A p \in Payments :
           \/ /\ shares[p][i] = sharesAfter[p][i]
              /\ payments[p].status = "CONFIRMED" <=> paymentsAfter[p].status = "CONFIRMED"
           \/ ~ Puts(payments, shares, p, i) /\ ~ Puts(paymentsAfter, sharesAfter, p, i)
  PROVE  Collected(paymentsAfter, sharesAfter, i) = Collected(payments, shares, i)
<1>1. CollectedUnits(paymentsAfter, sharesAfter, i) = CollectedUnits(payments, shares, i)
  BY BoundIsNat DEF CollectedUnits, Puts, Amounts
<1>2. QED
  BY <1>1 DEF Collected, CollectedUnits

LEMMA NothingCollected ==
  ASSUME NEW i, NEW payments, NEW shares, \A p \in Payments : ~ Puts(payments, shares, p, i)
  PROVE  Collected(payments, shares, i) = 0
<1>1. CollectedUnits(payments, shares, i) = {}
  BY BoundIsNat DEF CollectedUnits, Puts, Amounts
<1>2. QED
  BY <1>1, FS_EmptySet DEF Collected, CollectedUnits
-----------------------------------------------------------------------------
(* The rows, and the credit of each payment, however handlers interleave.    *)
PaymentRows == [status : PaymentStatuses, amount : 0 .. MaxAmount]
DepositRows == [status : DepositStatuses, amount : 0 .. MaxAmount, applied : 0 .. MaxAmount]
InvoiceRows ==
  [status : InvoiceStatuses, lines : 0 .. MaxAmount, total : 0 .. MaxAmount, paid : Nat]

Offers(dep) == IF dep.status = "REVERSED" THEN 0 ELSE dep.amount - dep.applied

(* A payment has received what is allocated of it and what its deposit still *)
(* offers; a deposit that does not exist offers nothing.                     *)
Covered(pay, share, dep) ==
  /\ pay \in PaymentRows /\ share \in Shares /\ dep \in DepositRows
  /\ dep.applied <= dep.amount
  /\ dep.status = "none" => dep.amount = 0
  /\ Total(share) + Offers(dep) <= pay.amount

Tables ==
  /\ payment \in [Payments -> PaymentRows]
  /\ allocated \in [Payments -> Shares]
  /\ deposit \in [Payments -> DepositRows]
  /\ \A p \in Payments : Covered(payment[p], allocated[p], deposit[p])

LEMMA CoveredAfter ==
  ASSUME Tables, NEW p \in Payments, NEW pay, NEW share, NEW dep, Covered(pay, share, dep),
         payment' = [payment EXCEPT ![p] = pay], allocated' = [allocated EXCEPT ![p] = share],
         deposit' = [deposit EXCEPT ![p] = dep]
  PROVE  Tables'
<1>1. pay \in PaymentRows /\ share \in Shares /\ dep \in DepositRows
  BY DEF Covered
<1>2. /\ payment' \in [Payments -> PaymentRows] /\ allocated' \in [Payments -> Shares]
      /\ deposit' \in [Payments -> DepositRows]
  BY <1>1 DEF Tables
<1>3. ASSUME NEW q \in Payments PROVE Covered(payment[q], allocated[q], deposit[q])'
  <2>1. PICK x, y, z : x = payment'[q] /\ y = allocated'[q] /\ z = deposit'[q]
    OBVIOUS
  <2>2. CASE q = p
    <3>1. x = pay /\ y = share /\ z = dep
      BY <2>1, <2>2 DEF Tables
    <3>2. Covered(x, y, z)
      BY <3>1
    <3> QED BY <2>1, <3>2 DEF Covered, Offers, Total
  <2>3. CASE q # p
    <3>1. x = payment[q] /\ y = allocated[q] /\ z = deposit[q]
      BY <2>1, <2>3 DEF Tables
    <3>2. Covered(x, y, z)
      BY <3>1 DEF Tables
    <3> QED BY <2>1, <3>2 DEF Covered, Offers, Total
  <2> QED BY <2>2, <2>3
<1>4. QED
  BY <1>2, <1>3 DEF Tables

(* What of a payment is free is never less than nothing.                     *)
LEMMA CoverFacts ==
  ASSUME IsFiniteSet(Invoices), NEW pay, NEW share, NEW dep, Covered(pay, share, dep)
  PROVE  /\ Total(share) \in Nat /\ Offers(dep) \in Nat /\ pay.amount \in 0 .. MaxAmount
         /\ Total(share) <= pay.amount /\ Offers(dep) <= pay.amount
         /\ pay.amount = 0 => Total(share) = 0 /\ Offers(dep) = 0
         /\ dep.status = "none" => Offers(dep) = 0
<1>1. Total(share) \in Nat
  BY TotalIsNat
<1>2. /\ pay.amount \in 0 .. MaxAmount /\ dep.amount \in 0 .. MaxAmount
      /\ dep.applied \in 0 .. MaxAmount /\ dep.applied <= dep.amount
      /\ dep.status = "none" => dep.amount = 0
  BY DEF Covered, PaymentRows, DepositRows
<1>3. /\ Offers(dep) \in Nat
      /\ dep.status = "none" => Offers(dep) = 0
  BY <1>2, BoundIsNat DEF Offers
<1>4. Total(share) + Offers(dep) <= pay.amount
  BY DEF Covered
<1>5. PICK t, f, a : t = Total(share) /\ f = Offers(dep) /\ a = pay.amount
  OBVIOUS
<1>6. t \in Nat /\ f \in Nat /\ a \in Nat /\ t + f <= a
  BY <1>1, <1>2, <1>3, <1>4, <1>5, BoundIsNat
<1>7. t <= a /\ f <= a /\ (a = 0 => t = 0 /\ f = 0)
  BY <1>6
<1>8. QED
  BY <1>1, <1>2, <1>3, <1>5, <1>7

LEMMA NewPaymentCovered ==
  ASSUME IsFiniteSet(Invoices), Tables, NEW p \in Payments, NEW a \in Amounts, NEW share \in Shares,
         Total(share) <= a, NewPayment(p, a, share)
  PROVE  Tables'
<1>1. PICK pay, old, dep, was :
        /\ pay = [status |-> "PENDING", amount |-> a] /\ old = payment[p] /\ dep = deposit[p]
        /\ was = allocated[p]
  OBVIOUS
<1>2. pay \in PaymentRows /\ pay.amount = a
  BY <1>1, BoundIsNat DEF PaymentRows, PaymentStatuses, Amounts
<1>3. Covered(old, was, dep) /\ old.amount = 0
  BY <1>1 DEF Tables, NewPayment, NoPayment
<1>4. Offers(dep) = 0
  BY <1>3, CoverFacts
<1>5. Total(share) + 0 <= a
  BY TotalIsNat, BoundIsNat DEF Amounts
<1>6. Covered(pay, share, dep)
  BY <1>2, <1>3, <1>4, <1>5 DEF Covered
<1>7. /\ payment' = [payment EXCEPT ![p] = pay] /\ allocated' = [allocated EXCEPT ![p] = share]
      /\ deposit' = [deposit EXCEPT ![p] = dep]
  BY <1>1 DEF NewPayment, Tables
<1>8. QED
  BY <1>6, <1>7, CoveredAfter

LEMMA ReleaseCovered ==
  ASSUME IsFiniteSet(Invoices), Tables, NEW p \in Payments, ReleasePayment(p)
  PROVE  Tables'
<1>1. PICK old, dep, was :
        /\ old = payment[p] /\ dep = deposit[p] /\ was = allocated[p]
        /\ old \in PaymentRows /\ dep \in DepositRows /\ Covered(old, was, dep)
  BY DEF Tables, Covered
<1>2. PICK pay, new : /\ pay = [old EXCEPT !.status = "REVERSED"]
                      /\ new = IF dep.status = "none" THEN dep ELSE [dep EXCEPT !.status = "REVERSED"]
  OBVIOUS
<1>3. pay \in PaymentRows /\ pay.amount = old.amount
  BY <1>1, <1>2 DEF PaymentRows, PaymentStatuses
<1>4. /\ new \in DepositRows /\ new.amount = dep.amount /\ new.applied = dep.applied
      /\ new.status \in {"none", "REVERSED"}
      /\ new.status = "none" => new = dep
  BY <1>1, <1>2 DEF DepositRows, DepositStatuses
<1>5. Offers(new) = 0
  BY <1>1, <1>4, CoverFacts DEF Offers
<1>6. NoShare \in Shares
  BY BoundIsNat DEF NoShare, Shares
<1>7. Total(NoShare) + 0 <= pay.amount
  BY <1>1, <1>3, TotalOfNothing, BoundIsNat DEF PaymentRows
<1>8. Covered(pay, NoShare, new)
  BY <1>1, <1>3, <1>4, <1>5, <1>6, <1>7 DEF Covered
<1>9. payment' = [payment EXCEPT ![p] = pay] /\ allocated' = [allocated EXCEPT ![p] = NoShare]
  BY <1>1, <1>2 DEF ReleasePayment
<1>10. deposit' = [deposit EXCEPT ![p] = new]
  BY <1>1, <1>2 DEF ReleasePayment, Tables
<1>11. QED
  BY <1>8, <1>9, <1>10, CoveredAfter

(* What is not allocated becomes a deposit.                                  *)
LEMMA ConfirmCovered ==
  ASSUME IsFiniteSet(Invoices), Tables, NEW p \in Payments,
         payment' = [payment EXCEPT ![p].status = "CONFIRMED"], DepositRest(p), UNCHANGED allocated
  PROVE  Tables'
<1>1. PICK old, dep, was :
        /\ old = payment[p] /\ dep = deposit[p] /\ was = allocated[p]
        /\ old \in PaymentRows /\ dep \in DepositRows /\ Covered(old, was, dep)
  BY DEF Tables, Covered
<1>2. PICK pay : pay = [old EXCEPT !.status = "CONFIRMED"]
  OBVIOUS
<1>3. pay \in PaymentRows /\ pay.amount = old.amount
  BY <1>1, <1>2 DEF PaymentRows, PaymentStatuses
<1>4. PICK rest \in 0 .. MaxAmount : rest = old.amount - Total(was)
  BY <1>1, CoverFacts, BoundIsNat
<1>5. PICK new : new = IF rest > 0 /\ dep.status = "none"
                       THEN [status |-> "CONFIRMED", amount |-> rest, applied |-> 0] ELSE dep
  OBVIOUS
<1>6. Covered(pay, was, new)
  <2>1. CASE new = dep
    BY <1>1, <1>3, <2>1 DEF Covered
  <2>2. CASE new = [status |-> "CONFIRMED", amount |-> rest, applied |-> 0]
    <3>1. /\ new \in DepositRows /\ new.status = "CONFIRMED" /\ new.amount = rest
          /\ new.applied = 0
      BY <2>2, BoundIsNat DEF DepositRows, DepositStatuses
    <3>2. Offers(new) = rest /\ new.applied <= new.amount
      BY <3>1 DEF Offers
    <3>3. PICK t, a : t = Total(was) /\ a = old.amount
      OBVIOUS
    <3>4. t \in Nat /\ a \in Nat /\ rest = a - t
      BY <1>1, <1>4, <3>3, CoverFacts, BoundIsNat
    <3>5. t + rest <= a
      BY <3>4
    <3>6. Total(was) + Offers(new) <= pay.amount
      BY <1>3, <3>2, <3>3, <3>5
    <3> QED BY <1>1, <1>3, <3>1, <3>2, <3>6 DEF Covered
  <2> QED BY <1>5, <2>1, <2>2
<1>7. payment' = [payment EXCEPT ![p] = pay] /\ allocated' = [allocated EXCEPT ![p] = was]
  BY <1>1, <1>2 DEF Tables
<1>8. deposit' = [deposit EXCEPT ![p] = new]
  BY <1>1, <1>4, <1>5 DEF DepositRest, Tables
<1>9. QED
  BY <1>6, <1>7, <1>8, CoveredAfter

LEMMA CreateDepositCovered ==
  ASSUME IsFiniteSet(Invoices), Tables, NEW p \in Payments, NEW a \in Amounts, createDeposit(p, a)
  PROVE  Tables'
<1>1. PICK old, was, dep, pay, new :
        /\ old = payment[p] /\ was = allocated[p] /\ dep = deposit[p]
        /\ pay = [status |-> "CONFIRMED", amount |-> a]
        /\ new = [status |-> "CONFIRMED", amount |-> a, applied |-> 0]
  OBVIOUS
<1>2. Covered(old, was, dep) /\ old.amount = 0
  BY <1>1 DEF Tables, createDeposit, NoPayment
<1>3. Total(was) = 0 /\ was \in Shares
  BY <1>2, CoverFacts DEF Covered
<1>4. pay \in PaymentRows /\ pay.amount = a
  BY <1>1, BoundIsNat DEF PaymentRows, PaymentStatuses, Amounts
<1>5. /\ new \in DepositRows /\ new.status = "CONFIRMED" /\ new.amount = a /\ new.applied = 0
  BY <1>1, BoundIsNat DEF DepositRows, DepositStatuses, Amounts
<1>6. Offers(new) = a /\ new.applied <= new.amount
  BY <1>5, BoundIsNat DEF Offers, Amounts
<1>7. 0 + a <= a
  BY BoundIsNat DEF Amounts
<1>8. Covered(pay, was, new)
  BY <1>3, <1>4, <1>5, <1>6, <1>7 DEF Covered
<1>9. /\ payment' = [payment EXCEPT ![p] = pay] /\ allocated' = [allocated EXCEPT ![p] = was]
      /\ deposit' = [deposit EXCEPT ![p] = new]
  BY <1>1 DEF createDeposit, Tables
<1>10. QED
  BY <1>8, <1>9, CoveredAfter

(* What a deposit gives to an invoice, it no longer offers.                  *)
LEMMA ApplyCovered ==
  ASSUME IsFiniteSet(Invoices), Tables, NEW p \in Payments, NEW i \in Invoices, NEW a \in Amounts,
         apply(p, i, a)
  PROVE  Tables'
<1>1. PICK pay, was, dep :
        /\ pay = payment[p] /\ was = allocated[p] /\ dep = deposit[p]
        /\ was \in Shares /\ dep \in DepositRows /\ Covered(pay, was, dep)
  BY DEF Tables, Covered
<1>2. dep.status \notin {"none", "REVERSED"} /\ a <= dep.amount - dep.applied
  BY <1>1 DEF apply, Unapplied
<1>3. Offers(dep) = dep.amount - dep.applied
  BY <1>2 DEF Offers
<1>4. /\ dep.amount \in 0 .. MaxAmount /\ dep.applied \in 0 .. MaxAmount /\ a \in Nat
      /\ was[i] \in 0 .. MaxAmount
  BY <1>1, BoundIsNat DEF DepositRows, Amounts, Shares
<1>5. PICK t, w : t = Total(was) /\ w = was[i]
  OBVIOUS
<1>6. /\ t \in Nat /\ w \in Nat /\ w <= t /\ pay.amount \in 0 .. MaxAmount
      /\ t + (dep.amount - dep.applied) <= pay.amount
  <2>1. t \in Nat /\ pay.amount \in 0 .. MaxAmount
    BY <1>1, <1>5, CoverFacts
  <2>2. w <= t
    BY <1>1, <1>5, OneInTotal
  <2>3. t + (dep.amount - dep.applied) <= pay.amount
    BY <1>1, <1>3, <1>5 DEF Covered
  <2> QED BY <1>4, <1>5, <2>1, <2>2, <2>3, BoundIsNat
<1>7. PICK b \in 0 .. MaxAmount : b = w + a
  BY <1>2, <1>4, <1>6, BoundIsNat
<1>8. PICK share : share = [was EXCEPT ![i] = b]
  OBVIOUS
<1>9. share \in Shares
  BY <1>1, <1>8 DEF Shares
<1>10. share[i] = was[i] + a /\ \A j \in Invoices \ {i} : share[j] = was[j]
  BY <1>1, <1>5, <1>7, <1>8 DEF Shares
<1>11. Total(share) <= t + a
  BY <1>1, <1>4, <1>5, <1>10, TotalMore
<1>12. PICK c \in 0 .. MaxAmount : c = dep.applied + a
  BY <1>2, <1>4, BoundIsNat
<1>13. PICK s \in DepositStatuses \ {"none", "REVERSED"} :
         s = IF c = dep.amount THEN "FULLY_APPLIED" ELSE "PARTIALLY_APPLIED"
  BY DEF DepositStatuses
<1>14. PICK new : new = [dep EXCEPT !.applied = c, !.status = s]
  OBVIOUS
<1>15. new \in DepositRows /\ new.amount = dep.amount /\ new.applied = c /\ new.status = s
  BY <1>1, <1>13, <1>14 DEF DepositRows
<1>16. Offers(new) = dep.amount - c /\ c <= dep.amount /\ new.status # "none"
  BY <1>2, <1>4, <1>12, <1>13, <1>15, BoundIsNat DEF Offers
<1>17. PICK n, m : n = Total(share) /\ m = pay.amount
  OBVIOUS
<1>18. n \in Nat /\ n <= t + a /\ m \in Nat /\ t + (dep.amount - dep.applied) <= m
  BY <1>6, <1>11, <1>17, TotalIsNat, BoundIsNat
<1>19. n + (dep.amount - c) <= m
  BY <1>4, <1>6, <1>12, <1>18, BoundIsNat
<1>20. Covered(pay, share, new)
  BY <1>1, <1>9, <1>15, <1>16, <1>17, <1>19 DEF Covered
<1>21. payment' = [payment EXCEPT ![p] = pay]
  BY <1>1 DEF apply, Tables
<1>22. allocated' = [allocated EXCEPT ![p] = share]
  BY <1>1, <1>5, <1>7, <1>8 DEF apply, Tables
<1>23. deposit' = [deposit EXCEPT ![p] = new]
  BY <1>1, <1>12, <1>13, <1>14 DEF apply, Applied
<1>24. QED
  BY <1>20, <1>21, <1>22, <1>23, CoveredAfter

LEMMA VoidCovered ==
  ASSUME IsFiniteSet(Invoices), Tables, NEW i \in Invoices, UNCHANGED << payment, deposit >>,
         allocated' = [p \in Payments |-> [allocated[p] EXCEPT ![i] = 0]]
  PROVE  Tables'
<1>1. ASSUME NEW was \in Shares
      PROVE  /\ [was EXCEPT ![i] = 0] \in Shares
             /\ \A j \in Invoices : [was EXCEPT ![i] = 0][j] \in {was[j], 0}
  BY BoundIsNat DEF Shares
<1>2. ASSUME NEW p \in Payments
      PROVE  Covered(payment[p], [allocated[p] EXCEPT ![i] = 0], deposit[p])
  <2>1. PICK pay, was, dep, new :
          /\ was \in Shares /\ pay = payment[p] /\ was = allocated[p] /\ dep = deposit[p] /\ Covered(pay, was, dep)
          /\ new = [was EXCEPT ![i] = 0]
    BY DEF Tables, Covered
  <2>2. new \in Shares /\ \A j \in Invoices : new[j] = was[j] \/ new[j] = 0
    BY <1>1, <2>1
  <2>3. Total(new) <= Total(was)
    BY <2>2, TotalLess
  <2>4. PICK t, n, f, a : t = Total(was) /\ n = Total(new) /\ f = Offers(dep) /\ a = pay.amount
    OBVIOUS
  <2>5. /\ t \in Nat /\ n \in Nat /\ f \in Nat /\ a \in Nat /\ n <= t /\ t + f <= a
    BY <2>1, <2>3, <2>4, CoverFacts, TotalIsNat, BoundIsNat DEF Covered
  <2>6. n + f <= a
    BY <2>5
  <2>7. Covered(pay, new, dep)
    BY <2>1, <2>2, <2>4, <2>6 DEF Covered
  <2> QED BY <2>1, <2>7
<1>3. allocated' \in [Payments -> Shares]
  BY <1>2 DEF Covered
<1>4. ASSUME NEW p \in Payments PROVE Covered(payment[p], allocated[p], deposit[p])'
  <2>1. allocated'[p] = [allocated[p] EXCEPT ![i] = 0]
    OBVIOUS
  <2>2. PICK pay, share, dep : pay = payment[p] /\ share = allocated'[p] /\ dep = deposit[p]
    OBVIOUS
  <2>3. Covered(pay, share, dep)
    BY <1>2, <2>1, <2>2
  <2> QED BY <2>2, <2>3 DEF Covered, Offers, Total
<1>5. QED
  BY <1>3, <1>4 DEF Tables
-----------------------------------------------------------------------------
(* What a handler about to write carries, however old it is.                 *)
Carries(c) ==
  /\ c.op \in {"record", "confirm", "reverse"} => c.p \in Payments
  /\ c.op = "record" => c.a \in Amounts
  /\ c.op \in {"record", "updateInvoice", "issue", "void"} => c.i \in Invoices
  /\ c.op = "updateInvoice" => c.total \in 0 .. MaxAmount
  /\ c.op = "reverse" => c.is \in SUBSET Invoices

(* A payment remembers every invoice it has something on.                    *)
Remembered == \A p \in Payments, i \in Invoices : allocated[p][i] # 0 => i \in targets[p]

Rows ==
  /\ targets \in [Payments -> SUBSET Invoices]
  /\ invoice \in [Invoices -> InvoiceRows]
  /\ \A r \in Requests : Carries(req[r])
  /\ Remembered

(* The rows and the credit of each payment, however the handlers interleave. *)
Credit == Ledger /\ Tables /\ Rows

LEMMA InitCredit == IsFiniteSet(Invoices) /\ Init => Credit
<1> SUFFICES ASSUME IsFiniteSet(Invoices), Init PROVE Credit
  OBVIOUS
<1>1. Ledger
  BY InitLedger
<1>2. NoShare \in Shares /\ NoPayment \in PaymentRows /\ NoDeposit \in DepositRows
      /\ NoInvoice \in InvoiceRows
  BY BoundIsNat DEF NoShare, Shares, NoPayment, PaymentRows, PaymentStatuses, NoDeposit,
     DepositRows, DepositStatuses, NoInvoice, InvoiceRows, InvoiceStatuses
<1>3. Covered(NoPayment, NoShare, NoDeposit)
  BY <1>2, TotalOfNothing DEF Covered, NoPayment, NoDeposit, Offers
<1>4. ASSUME NEW p \in Payments PROVE Covered(payment[p], allocated[p], deposit[p])
  <2>1. payment[p] = NoPayment /\ allocated[p] = NoShare /\ deposit[p] = NoDeposit
    BY DEF Init
  <2> QED BY <1>3, <2>1
<1>5. Tables
  BY <1>2, <1>4 DEF Tables, Init
<1>6. Rows
  BY <1>2 DEF Rows, Init, Remembered, NoShare, Carries, Idle
<1> QED BY <1>1, <1>5, <1>6 DEF Credit

-----------------------------------------------------------------------------
(* The tables. *)
LEMMA TablesKept ==
  ASSUME Tables, UNCHANGED << payment, allocated, deposit >>
  PROVE  Tables'
BY DEF Tables, Covered, Offers, Total

LEMMA RecordCovered ==
  ASSUME IsFiniteSet(Invoices), Credit, NEW r \in Requests, CommitRecord(r)
  PROVE  Tables'
<1>1. PICK p, a, i : p = req[r].p /\ a = req[r].a /\ i = req[r].i
  OBVIOUS
<1>2. p \in Payments /\ a \in Amounts /\ i \in Invoices
  BY <1>1 DEF CommitRecord, Finish, Credit, Rows, Carries
<1>3. PICK share : share = [NoShare EXCEPT ![i] = a]
  OBVIOUS
<1>4. NoShare \in Shares /\ share \in Shares /\ a \in Nat
  BY <1>2, <1>3, BoundIsNat DEF NoShare, Shares, Amounts
<1>5. share[i] = NoShare[i] + a /\ \A j \in Invoices \ {i} : share[j] = NoShare[j]
  BY <1>2, <1>3, <1>4 DEF NoShare
<1>6. Total(share) <= Total(NoShare) + a
  BY <1>2, <1>4, <1>5, TotalMore
<1>7. Total(share) <= a
  BY <1>4, <1>6, TotalOfNothing, TotalIsNat
<1>8. NewPayment(p, a, share)
  BY <1>1, <1>3 DEF CommitRecord
<1> QED BY <1>2, <1>4, <1>7, <1>8, NewPaymentCovered DEF Credit

LEMMA StepTables ==
  ASSUME IsFiniteSet(Invoices), Credit, [Next]_vars
  PROVE  Tables'
<1> USE DEF Credit
<1>1. ASSUME NEW p \in Payments, PaymentStep(p) PROVE Tables'
  <2>1. CASE \E a \in Amounts, share \in [Invoices -> 0 .. MaxAmount] :
               recordAllocations(p, a, share)
    BY <2>1, NewPaymentCovered DEF recordAllocations, Shares
  <2>2. CASE reverseFinanceEntry(p)
    BY <2>2, ReleaseCovered DEF reverseFinanceEntry
  <2>3. CASE \E a \in Amounts : createDeposit(p, a)
    BY <2>3, CreateDepositCovered
  <2>4. CASE \E i \in Invoices, a \in Amounts : apply(p, i, a)
    BY <2>4, ApplyCovered
  <2> QED BY <1>1, <2>1, <2>2, <2>3, <2>4 DEF PaymentStep
<1>2. ASSUME NEW i \in Invoices, NEW t \in Amounts, createInvoice(i, t) PROVE Tables'
  BY <1>2, TablesKept DEF createInvoice
<1>3. ASSUME NEW r \in Requests, Read(r) PROVE Tables'
  <2>1. UNCHANGED << payment, allocated, deposit >>
    BY <1>3 DEF Read, ReadRecord, ReadConfirm, ReadReverse, ReadUpdateInvoice, ReadIssue,
       ReadVoid, Start
  <2> QED BY <2>1, TablesKept
<1>4. ASSUME NEW r \in Requests, CommitConfirm(r) PROVE Tables'
  <2>1. PICK p : p = req[r].p
    OBVIOUS
  <2>2. p \in Payments
    BY <1>4, <2>1 DEF CommitConfirm, Finish, Rows, Carries
  <2>3. /\ payment' = [payment EXCEPT ![p].status = "CONFIRMED"]
        /\ DepositRest(p) /\ UNCHANGED allocated
    BY <1>4, <2>1 DEF CommitConfirm
  <2> QED BY <2>2, <2>3, ConfirmCovered
<1>5. ASSUME NEW r \in Requests, CommitReverse(r) PROVE Tables'
  BY <1>5, ReleaseCovered DEF CommitReverse, Finish, Rows, Carries
<1>6. ASSUME NEW r \in Requests, CommitUpdateInvoice(r) \/ CommitIssue(r) \/ Abort(r) PROVE Tables'
  BY <1>6, TablesKept DEF CommitUpdateInvoice, CommitIssue, Abort
<1>7. ASSUME NEW r \in Requests, CommitVoid(r) PROVE Tables'
  <2>1. PICK i : i = req[r].i
    OBVIOUS
  <2>2. i \in Invoices
    BY <1>7, <2>1 DEF CommitVoid, Finish, Rows, Carries
  <2>3. /\ UNCHANGED << payment, deposit >>
        /\ allocated' = [p \in Payments |-> [allocated[p] EXCEPT ![i] = 0]]
    BY <1>7, <2>1 DEF CommitVoid
  <2> QED BY <2>2, <2>3, VoidCovered
<1>8. CASE UNCHANGED vars
  BY <1>8, TablesKept DEF vars
<1> QED
  BY <1>1, <1>2, <1>3, <1>4, <1>5, <1>6, <1>7, <1>8, RecordCovered DEF Next

-----------------------------------------------------------------------------
(* The requests. *)
LEMMA StepCarries ==
  ASSUME Credit, [Next]_vars
  PROVE  \A r \in Requests : Carries(req'[r])
<1> USE DEF Credit
<1>1. Carries(Idle)
  BY DEF Carries, Idle
<1>2. ASSUME Serve PROVE \A r \in Requests : Carries(req'[r])
  BY <1>2 DEF Serve, Rows
<1>3. ASSUME NEW r \in Requests, req' = [req EXCEPT ![r] = Idle]
      PROVE  \A s \in Requests : Carries(req'[s])
  BY <1>1, <1>3 DEF Rows, Ledger, MoneyTyped
<1>4. ASSUME NEW r \in Requests, NEW c, Start(r, c), Carries(c)
      PROVE  \A s \in Requests : Carries(req'[s])
  BY <1>4 DEF Start, Rows, Ledger, MoneyTyped
<1>5. ASSUME NEW r \in Requests, Read(r) PROVE \A s \in Requests : Carries(req'[s])
  <2>1. CASE \E p \in Payments, i \in Invoices, a \in Amounts : ReadRecord(r, p, a, i)
    <3>1. PICK p \in Payments, i \in Invoices, a \in Amounts : ReadRecord(r, p, a, i)
      BY <2>1
    <3>2. Carries([op |-> "record", p |-> p, a |-> a, i |-> i])
      BY DEF Carries
    <3> QED BY <1>4, <3>1, <3>2 DEF ReadRecord
  <2>2. CASE \E p \in Payments : ReadConfirm(r, p)
    <3>1. PICK p \in Payments : ReadConfirm(r, p)
      BY <2>2
    <3>2. Carries([op |-> "confirm", p |-> p])
      BY DEF Carries
    <3> QED BY <1>4, <3>1, <3>2 DEF ReadConfirm
  <2>3. CASE \E p \in Payments : ReadReverse(r, p)
    <3>1. PICK p \in Payments : ReadReverse(r, p)
      BY <2>3
    <3>2. Carries([op |-> "reverse", p |-> p, is |-> targets[p]])
      BY DEF Carries, Rows
    <3> QED BY <1>4, <3>1, <3>2 DEF ReadReverse
  <2>4. CASE \E i \in Invoices : ReadUpdateInvoice(r, i)
    <3>1. PICK i \in Invoices : ReadUpdateInvoice(r, i)
      BY <2>4
    <3>2. Carries([op |-> "updateInvoice", i |-> i, total |-> invoice[i].total])
      BY DEF Carries, Rows, InvoiceRows
    <3> QED BY <1>4, <3>1, <3>2 DEF ReadUpdateInvoice
  <2>5. CASE \E i \in Invoices : ReadIssue(r, i) \/ ReadVoid(r, i)
    <3>1. PICK i \in Invoices : ReadIssue(r, i) \/ ReadVoid(r, i)
      BY <2>5
    <3>2. Carries([op |-> "issue", i |-> i]) /\ Carries([op |-> "void", i |-> i])
      BY DEF Carries
    <3> QED BY <1>4, <3>1, <3>2 DEF ReadIssue, ReadVoid
  <2> QED BY <1>5, <2>1, <2>2, <2>3, <2>4, <2>5 DEF Read
<1>6. ASSUME NEW p \in Payments, PaymentStep(p) PROVE Serve
  BY <1>6 DEF PaymentStep, recordAllocations, reverseFinanceEntry, createDeposit, apply
<1>7. ASSUME NEW i \in Invoices, NEW t \in Amounts, createInvoice(i, t) PROVE Serve
  BY <1>7 DEF createInvoice
<1>8. ASSUME NEW r \in Requests,
             \/ CommitRecord(r) \/ CommitConfirm(r) \/ CommitReverse(r)
             \/ CommitUpdateInvoice(r) \/ CommitIssue(r) \/ CommitVoid(r) \/ Abort(r)
      PROVE  req' = [req EXCEPT ![r] = Idle]
  BY <1>8 DEF CommitRecord, CommitConfirm, CommitReverse, CommitUpdateInvoice, CommitIssue,
     CommitVoid, Abort, Finish
<1>9. CASE UNCHANGED vars
  BY <1>9 DEF vars, Rows
<1> QED BY <1>2, <1>3, <1>5, <1>6, <1>7, <1>8, <1>9 DEF Next

-----------------------------------------------------------------------------
(* The invoices. *)
LEMMA ReconciledRow ==
  ASSUME NEW inv \in InvoiceRows, NEW n \in Nat, NEW late
  PROVE  Reconciled(inv, n, late) \in InvoiceRows
<1>1. PICK s : s = StatusFor(inv, n, late)
  OBVIOUS
<1>2. s \in InvoiceStatuses
  BY <1>1 DEF StatusFor, InvoiceStatuses, Open
<1>3. PICK new : new = [inv EXCEPT !.paid = n, !.status = s]
  OBVIOUS
<1>4. new \in InvoiceRows
  BY <1>2, <1>3 DEF InvoiceRows
<1> QED BY <1>1, <1>3, <1>4 DEF Reconciled

LEMMA ReconciledRows ==
  ASSUME IsFiniteSet(Payments), Rows, NEW S, reconcileInvoices(S)
  PROVE  invoice' \in [Invoices -> InvoiceRows]
<1>1. PICK late \in SUBSET S :
        invoice' = [ i \in Invoices |->
                       IF i \in S
                       THEN Reconciled(invoice[i], Collected(payment', allocated', i), i \in late)
                       ELSE invoice[i] ]
  BY DEF reconcileInvoices
<1>2. ASSUME NEW i \in Invoices PROVE invoice'[i] \in InvoiceRows
  <2>1. PICK inv, n, l : /\ inv = invoice[i] /\ n = Collected(payment', allocated', i)
                         /\ l = (i \in late)
    OBVIOUS
  <2>2. inv \in InvoiceRows
    BY <2>1 DEF Rows
  <2>3. n \in Nat
    BY <2>1, CollectedIsNat
  <2>4. Reconciled(inv, n, l) \in InvoiceRows
    BY <2>2, <2>3, ReconciledRow
  <2>5. invoice'[i] = Reconciled(inv, n, l) \/ invoice'[i] = inv
    BY <1>1, <2>1
  <2> QED BY <2>2, <2>4, <2>5
<1> QED BY <1>1, <1>2

LEMMA UpdatedRows ==
  ASSUME Credit, NEW r \in Requests, CommitUpdateInvoice(r)
  PROVE  invoice' \in [Invoices -> InvoiceRows]
<1>1. PICK i, t : i = req[r].i /\ t = req[r].total
  OBVIOUS
<1>2. i \in Invoices /\ t \in 0 .. MaxAmount
  BY <1>1 DEF CommitUpdateInvoice, Finish, Credit, Rows, Carries
<1>3. invoice \in [Invoices -> InvoiceRows]
  BY DEF Credit, Rows
<1>4. CASE invoice' = [invoice EXCEPT ![i].total = t]
  BY <1>2, <1>3, <1>4 DEF InvoiceRows
<1>5. CASE \E n \in Amounts : invoice' = [invoice EXCEPT ![i].lines = n, ![i].total = n]
  <2>1. PICK n \in Amounts : invoice' = [invoice EXCEPT ![i].lines = n, ![i].total = n]
    BY <1>5
  <2>2. n \in 0 .. MaxAmount
    BY BoundIsNat DEF Amounts
  <2> QED BY <1>2, <1>3, <2>1, <2>2 DEF InvoiceRows
<1> QED BY <1>1, <1>4, <1>5 DEF CommitUpdateInvoice

LEMMA IssuedRows ==
  ASSUME IsFiniteSet(Payments), Credit, NEW r \in Requests, CommitIssue(r)
  PROVE  invoice' \in [Invoices -> InvoiceRows]
<1>1. PICK i, n : i = req[r].i /\ n = Collected(payment, allocated, i)
  OBVIOUS
<1>2. i \in Invoices /\ n \in Nat
  BY <1>1, CollectedIsNat DEF CommitIssue, Finish, Credit, Rows, Carries
<1>3. invoice \in [Invoices -> InvoiceRows]
  BY DEF Credit, Rows
<1>4. PICK issued : issued = [invoice[i] EXCEPT !.total = invoice[i].lines, !.status = "ISSUED"]
  OBVIOUS
<1>5. issued \in InvoiceRows
  BY <1>2, <1>3, <1>4 DEF InvoiceRows, InvoiceStatuses, Open
<1>6. PICK late \in BOOLEAN : invoice' = [invoice EXCEPT ![i] = Reconciled(issued, n, late)]
  BY <1>1, <1>4 DEF CommitIssue
<1>7. Reconciled(issued, n, late) \in InvoiceRows
  BY <1>2, <1>5, ReconciledRow
<1> QED BY <1>2, <1>3, <1>6, <1>7

LEMMA StepInvoices ==
  ASSUME IsFiniteSet(Payments), Credit, [Next]_vars
  PROVE  invoice' \in [Invoices -> InvoiceRows]
<1>1. Rows
  BY DEF Credit
<1>2. CASE UNCHANGED invoice
  BY <1>1, <1>2 DEF Rows
<1>3. CASE \E S : reconcileInvoices(S)
  BY <1>1, <1>3, ReconciledRows
<1>4. ASSUME NEW p \in Payments, PaymentStep(p) PROVE invoice' \in [Invoices -> InvoiceRows]
  <2>1. UNCHANGED invoice \/ \E S : reconcileInvoices(S)
    BY <1>4 DEF PaymentStep, recordAllocations, NewPayment, reverseFinanceEntry, createDeposit,
       apply
  <2> QED BY <1>2, <1>3, <2>1
<1>5. ASSUME NEW i \in Invoices, NEW t \in Amounts, createInvoice(i, t)
      PROVE  invoice' \in [Invoices -> InvoiceRows]
  <2>1. PICK row : row = [status |-> "DRAFT", lines |-> t, total |-> t, paid |-> 0]
    OBVIOUS
  <2>2. row \in InvoiceRows
    BY <2>1, BoundIsNat DEF InvoiceRows, InvoiceStatuses, Amounts
  <2> QED BY <1>1, <1>5, <2>1, <2>2 DEF createInvoice, Rows
<1>6. ASSUME NEW r \in Requests, Read(r) \/ CommitRecord(r) \/ Abort(r) PROVE UNCHANGED invoice
  BY <1>6 DEF Read, ReadRecord, ReadConfirm, ReadReverse, ReadUpdateInvoice, ReadIssue,
     ReadVoid, Start, CommitRecord, NewPayment, Abort
<1>7. ASSUME NEW r \in Requests, CommitConfirm(r) \/ CommitReverse(r)
      PROVE  \E S : reconcileInvoices(S)
  BY <1>7 DEF CommitConfirm, CommitReverse
<1>8. ASSUME NEW r \in Requests, CommitVoid(r) PROVE invoice' \in [Invoices -> InvoiceRows]
  BY <1>1, <1>8 DEF CommitVoid, Rows, InvoiceRows, InvoiceStatuses
<1>9. CASE UNCHANGED vars
  BY <1>2, <1>9 DEF vars
<1> QED
  BY <1>2, <1>3, <1>4, <1>5, <1>6, <1>7, <1>8, <1>9, UpdatedRows, IssuedRows DEF Next

-----------------------------------------------------------------------------
(* What payments remember. *)
LEMMA RecordRemembers ==
  ASSUME Tables, Rows, NEW p \in Payments, NEW a, NEW share, NewPayment(p, a, share),
         \A i \in Invoices : share[i] # 0 => share[i] > 0
  PROVE  targets' \in [Payments -> SUBSET Invoices] /\ Remembered'
BY DEF NewPayment, Tables, Rows, Remembered

LEMMA StepRemembers ==
  ASSUME Credit, [Next]_vars
  PROVE  targets' \in [Payments -> SUBSET Invoices] /\ Remembered'
<1> USE DEF Credit
<1>1. CASE UNCHANGED << allocated, targets >>
  BY <1>1 DEF Rows, Remembered
<1>2. ASSUME NEW p \in Payments, ReleasePayment(p)
      PROVE  targets' \in [Payments -> SUBSET Invoices] /\ Remembered'
  BY <1>2 DEF ReleasePayment, Rows, Remembered, Tables, NoShare
<1>3. ASSUME NEW p \in Payments, PaymentStep(p)
      PROVE  targets' \in [Payments -> SUBSET Invoices] /\ Remembered'
  <2>1. CASE \E a \in Amounts, share \in [Invoices -> 0 .. MaxAmount] :
               recordAllocations(p, a, share)
    <3>1. PICK a \in Amounts, share \in [Invoices -> 0 .. MaxAmount] : NewPayment(p, a, share)
      BY <2>1 DEF recordAllocations
    <3>2. \A i \in Invoices : share[i] # 0 => share[i] > 0
      BY BoundIsNat
    <3> QED BY <3>1, <3>2, RecordRemembers
  <2>2. CASE reverseFinanceEntry(p)
    BY <1>2, <2>2 DEF reverseFinanceEntry
  <2>3. CASE \E a \in Amounts : createDeposit(p, a)
    BY <1>1, <2>3 DEF createDeposit
  <2>4. CASE \E i \in Invoices, a \in Amounts : apply(p, i, a)
    BY <2>4 DEF apply, Rows, Remembered, Tables, Shares
  <2> QED BY <1>3, <2>1, <2>2, <2>3, <2>4 DEF PaymentStep
<1>4. ASSUME NEW i \in Invoices, NEW t \in Amounts, createInvoice(i, t)
      PROVE  UNCHANGED << allocated, targets >>
  BY <1>4 DEF createInvoice
<1>5. ASSUME NEW r \in Requests,
             \/ Read(r) \/ CommitConfirm(r) \/ CommitUpdateInvoice(r) \/ CommitIssue(r)
             \/ Abort(r)
      PROVE  UNCHANGED << allocated, targets >>
  BY <1>5 DEF Read, ReadRecord, ReadConfirm, ReadReverse, ReadUpdateInvoice, ReadIssue, ReadVoid,
     Start, CommitConfirm, CommitUpdateInvoice, CommitIssue, Abort
<1>6. ASSUME NEW r \in Requests, CommitRecord(r)
      PROVE  targets' \in [Payments -> SUBSET Invoices] /\ Remembered'
  <2>1. PICK p, a, i : p = req[r].p /\ a = req[r].a /\ i = req[r].i
    OBVIOUS
  <2>2. p \in Payments /\ a \in Nat /\ i \in Invoices
    BY <1>6, <2>1, BoundIsNat DEF CommitRecord, Finish, Rows, Carries, Amounts
  <2>3. PICK share : share = [NoShare EXCEPT ![i] = a]
    OBVIOUS
  <2>4. \A j \in Invoices : share[j] # 0 => share[j] > 0
    BY <2>2, <2>3 DEF NoShare
  <2>5. NewPayment(p, a, share)
    BY <1>6, <2>1, <2>3 DEF CommitRecord
  <2> QED BY <2>2, <2>4, <2>5, RecordRemembers
<1>7. ASSUME NEW r \in Requests, CommitReverse(r)
      PROVE  targets' \in [Payments -> SUBSET Invoices] /\ Remembered'
  BY <1>2, <1>7 DEF CommitReverse, Finish, Rows, Carries
<1>8. ASSUME NEW r \in Requests, CommitVoid(r)
      PROVE  targets' \in [Payments -> SUBSET Invoices] /\ Remembered'
  BY <1>8 DEF CommitVoid, Rows, Remembered, Tables, Shares
<1>9. CASE UNCHANGED vars
  BY <1>1, <1>9 DEF vars
<1> QED BY <1>1, <1>3, <1>4, <1>5, <1>6, <1>7, <1>8, <1>9 DEF Next

LEMMA AlwaysCredit ==
  ASSUME IsFiniteSet(Invoices), IsFiniteSet(Payments)
  PROVE  Spec => []Credit
<1>1. Init => Credit
  BY InitCredit
<1>2. Credit /\ [Next]_vars => Credit'
  <2> SUFFICES ASSUME Credit, [Next]_vars PROVE Credit'
    OBVIOUS
  <2>1. Ledger'
    BY StepLedger DEF Credit
  <2>2. Tables'
    BY StepTables
  <2>3. Rows'
    BY StepCarries, StepInvoices, StepRemembers DEF Rows, Carries
  <2> QED BY <2>1, <2>2, <2>3 DEF Credit
<1> QED BY <1>1, <1>2, PTL DEF Spec

(* Whatever the interleaving, the rows keep their shape: no payment is       *)
(* allocated below nothing, no deposit gives more than it holds.             *)
THEOREM Typing ==
  ASSUME IsFiniteSet(Invoices), IsFiniteSet(Payments)
  PROVE  Spec => []TypeOK
<1>1. Credit => TypeOK
  BY DEF Credit, Ledger, MoneyTyped, Tables, Rows, TypeOK, PaymentRows, Shares, DepositRows,
     InvoiceRows
<1> QED BY <1>1, AlwaysCredit, PTL

(* No money is spent twice, however recordings, confirmations, reversals,    *)
(* voids and applications interleave: each write keeps what is allocated and *)
(* what the deposit still offers within what was received.                   *)
THEOREM Spending ==
  ASSUME IsFiniteSet(Invoices), IsFiniteSet(Payments)
  PROVE  Spec => []CreditBacked
<1>1. Credit => CreditBacked
  BY DEF Credit, Tables, Covered, Offers, CreditBacked, Unapplied
<1> QED BY <1>1, AlwaysCredit, PTL
-----------------------------------------------------------------------------
(* What invoices show, when handlers are served one after the other.         *)

(* Nothing that was read and is still to be written has moved.               *)
Current(c) ==
  /\ c.op = "reverse" => c.is = targets[c.p]
  /\ c.op \in {"updateInvoice", "issue"} => invoice[c.i].status = "DRAFT"

Timely == \A r \in Requests : Current(req[r])

Agrees(inv) ==
  inv.status \notin {"none", "DRAFT", "VOIDED"} =>
    /\ inv.status = "PAID" <=> inv.paid >= inv.total
    /\ inv.status = "PARTIALLY_PAID" <=> inv.paid \in 1 .. inv.total - 1

(* An invoice shows n: as the amount paid and by its status.                 *)
Shows(inv, n) == (inv.status # "VOIDED" => inv.paid = n) /\ Agrees(inv)

Shown == \A i \in Invoices : Shows(invoice[i], Collected(payment, allocated, i))

Accounts == Credit /\ Timely /\ Shown

LEMMA ReconciledShows ==
  ASSUME NEW inv \in InvoiceRows, NEW n \in Nat, NEW late
  PROVE  /\ Shows(Reconciled(inv, n, late), n)
         /\ inv.status = "VOIDED" <=> Reconciled(inv, n, late).status = "VOIDED"
<1>1. CASE inv.status = "VOIDED"
  BY <1>1 DEF Reconciled, Shows, Agrees
<1>2. CASE inv.status # "VOIDED"
  <2>1. PICK s : s = StatusFor(inv, n, late)
    OBVIOUS
  <2>2. PICK new : new = [inv EXCEPT !.paid = n, !.status = s]
    OBVIOUS
  <2>3. new.paid = n /\ new.status = s /\ new.total = inv.total
    BY <2>2 DEF InvoiceRows
  <2>4. n \in Nat /\ inv.total \in Nat
    BY BoundIsNat DEF InvoiceRows
  <2>5. s # "VOIDED"
    BY <2>1 DEF StatusFor
  <2>6. CASE inv.status = "DRAFT"
    <3>1. s = "DRAFT"
      BY <2>1, <2>6 DEF StatusFor
    <3>2. Agrees(new) /\ Shows(new, n)
      BY <2>3, <3>1 DEF Agrees, Shows
    <3> QED BY <1>2, <2>1, <2>2, <2>3, <2>5, <3>2 DEF Reconciled
  <2>7. CASE inv.status # "DRAFT"
    <3>1. /\ s = "PAID" <=> n >= inv.total
          /\ s = "PARTIALLY_PAID" <=> n \in 1 .. inv.total - 1
      BY <2>1, <2>4, <2>7 DEF StatusFor
    <3>2. Agrees(new) /\ Shows(new, n)
      BY <2>3, <3>1 DEF Agrees, Shows
    <3> QED BY <1>2, <2>1, <2>2, <2>3, <2>5, <3>2 DEF Reconciled
  <2> QED BY <2>6, <2>7
<1> QED BY <1>1, <1>2

(* Reconciling the invoices whose sum may have changed is enough.            *)
LEMMA ReconcilingShows ==
  ASSUME IsFiniteSet(Payments), Rows, Shown, NEW S, reconcileInvoices(S),
         \A i \in Invoices \ S :
           Collected(payment', allocated', i) = Collected(payment, allocated, i)
  PROVE  Shown' /\ KeepsVoided
<1>1. PICK late \in SUBSET S :
        invoice' = [ i \in Invoices |->
                       IF i \in S
                       THEN Reconciled(invoice[i], Collected(payment', allocated', i), i \in late)
                       ELSE invoice[i] ]
  BY DEF reconcileInvoices
<1>2. ASSUME NEW i \in Invoices
      PROVE  /\ Shows(invoice'[i], Collected(payment', allocated', i))
             /\ invoice[i].status = "VOIDED" => invoice'[i].status = "VOIDED"
  <2>1. PICK inv, n, l, new :
          /\ inv = invoice[i] /\ n = Collected(payment', allocated', i)
          /\ l = (i \in late) /\ new = invoice'[i]
    OBVIOUS
  <2>2. inv \in InvoiceRows /\ n \in Nat
    BY <2>1, CollectedIsNat DEF Rows
  <2>3. CASE i \in S
    <3>1. new = Reconciled(inv, n, l)
      BY <1>1, <2>1, <2>3
    <3>2. Shows(new, n) /\ (inv.status = "VOIDED" <=> new.status = "VOIDED")
      BY <2>2, <3>1, ReconciledShows
    <3> QED BY <2>1, <3>2
  <2>4. CASE i \notin S
    <3>1. new = inv /\ n = Collected(payment, allocated, i)
      BY <1>1, <2>1, <2>4
    <3>2. Shows(new, n)
      BY <2>1, <3>1 DEF Shown
    <3> QED BY <2>1, <3>1, <3>2
  <2> QED BY <2>3, <2>4
<1>3. KeepsVoided
  BY <1>2 DEF KeepsVoided
<1>4. Shown'
  <2>1. ASSUME NEW i \in Invoices PROVE Shows(invoice[i], Collected(payment, allocated, i))'
    <3>1. PICK inv, n : inv = invoice'[i] /\ n = Collected(payment', allocated', i)
      OBVIOUS
    <3>2. Shows(inv, n)
      BY <1>2, <3>1
    <3> QED BY <3>1, <3>2 DEF Shows, Agrees, Collected
  <2> QED BY <2>1 DEF Shown
<1> QED BY <1>3, <1>4

(* The rows of the other invoices, and the sums, stay what they were.        *)
LEMMA OneRowShows ==
  ASSUME Shown, NEW i \in Invoices, NEW row, invoice' = [invoice EXCEPT ![i] = row],
         invoice \in [Invoices -> InvoiceRows],
         Shows(row, Collected(payment', allocated', i)),
         \A j \in Invoices \ {i} :
           Collected(payment', allocated', j) = Collected(payment, allocated, j)
  PROVE  Shown'
<1>1. ASSUME NEW j \in Invoices PROVE Shows(invoice[j], Collected(payment, allocated, j))'
  <2>1. PICK inv, n : inv = invoice'[j] /\ n = Collected(payment', allocated', j)
    OBVIOUS
  <2>2. CASE j = i
    <3>1. Shows(inv, n)
      BY <2>1, <2>2
    <3> QED BY <2>1, <3>1 DEF Shows, Agrees, Collected
  <2>3. CASE j # i
    <3>1. inv = invoice[j] /\ n = Collected(payment, allocated, j)
      BY <2>1, <2>3
    <3>2. Shows(inv, n)
      BY <3>1 DEF Shown
    <3> QED BY <2>1, <3>2 DEF Shows, Agrees, Collected
  <2> QED BY <2>2, <2>3
<1> QED BY <1>1 DEF Shown

LEMMA SumsShow ==
  ASSUME Shown, UNCHANGED invoice,
         \A i \in Invoices : Collected(payment', allocated', i) = Collected(payment, allocated, i)
  PROVE  Shown' /\ KeepsVoided
<1>1. ASSUME NEW j \in Invoices PROVE Shows(invoice[j], Collected(payment, allocated, j))'
  <2>1. PICK inv, n : inv = invoice'[j] /\ n = Collected(payment', allocated', j)
    OBVIOUS
  <2>2. inv = invoice[j] /\ n = Collected(payment, allocated, j)
    BY <2>1
  <2>3. Shows(inv, n)
    BY <2>2 DEF Shown
  <2> QED BY <2>1, <2>3 DEF Shows, Agrees, Collected
<1> QED BY <1>1 DEF Shown, KeepsVoided

LEMMA TablesShow ==
  ASSUME Shown, UNCHANGED << invoice, payment, allocated >>
  PROVE  Shown' /\ KeepsVoided
BY DEF Shown, KeepsVoided, Shows, Agrees, Collected

-----------------------------------------------------------------------------
(* What changes the sum of an invoice.                                       *)
LEMMA NewPaymentSums ==
  ASSUME Tables, NEW p \in Payments, NEW a, NEW share, NewPayment(p, a, share), NEW i \in Invoices
  PROVE  Collected(payment', allocated', i) = Collected(payment, allocated, i)
<1>1. ASSUME NEW q \in Payments
      PROVE  \/ /\ allocated[q][i] = allocated'[q][i]
                /\ payment[q].status = "CONFIRMED" <=> payment'[q].status = "CONFIRMED"
             \/ ~ Puts(payment, allocated, q, i) /\ ~ Puts(payment', allocated', q, i)
  BY DEF NewPayment, NoPayment, Puts, Tables
<1> QED BY <1>1, CollectedAlike

LEMMA ReleaseSums ==
  ASSUME Tables, NEW p \in Payments, ReleasePayment(p), NEW i \in Invoices, allocated[p][i] = 0
  PROVE  Collected(payment', allocated', i) = Collected(payment, allocated, i)
<1>1. ASSUME NEW q \in Payments
      PROVE  \/ /\ allocated[q][i] = allocated'[q][i]
                /\ payment[q].status = "CONFIRMED" <=> payment'[q].status = "CONFIRMED"
             \/ ~ Puts(payment, allocated, q, i) /\ ~ Puts(payment', allocated', q, i)
  BY DEF ReleasePayment, NoShare, Puts, Tables
<1> QED BY <1>1, CollectedAlike

LEMMA ConfirmSums ==
  ASSUME Tables, NEW p \in Payments, NEW row, payment' = [payment EXCEPT ![p] = row],
         UNCHANGED allocated, NEW i \in Invoices, allocated[p][i] = 0
  PROVE  Collected(payment', allocated', i) = Collected(payment, allocated, i)
<1>1. ASSUME NEW q \in Payments
      PROVE  \/ /\ allocated[q][i] = allocated'[q][i]
                /\ payment[q].status = "CONFIRMED" <=> payment'[q].status = "CONFIRMED"
             \/ ~ Puts(payment, allocated, q, i) /\ ~ Puts(payment', allocated', q, i)
  BY DEF Puts, Tables
<1> QED BY <1>1, CollectedAlike

LEMMA AllocationSums ==
  ASSUME UNCHANGED payment, NEW i \in Invoices,
         \A q \in Payments : allocated'[q][i] = allocated[q][i]
  PROVE  Collected(payment', allocated', i) = Collected(payment, allocated, i)
<1>1. ASSUME NEW q \in Payments
      PROVE  \/ /\ allocated[q][i] = allocated'[q][i]
                /\ payment[q].status = "CONFIRMED" <=> payment'[q].status = "CONFIRMED"
             \/ ~ Puts(payment, allocated, q, i) /\ ~ Puts(payment', allocated', q, i)
  OBVIOUS
<1> QED BY <1>1, CollectedAlike
-----------------------------------------------------------------------------
LEMMA IdleIsTimely ==
  ASSUME OneAtATime, NEW r \in Requests, req'[r] = Idle
  PROVE  Timely'
BY DEF OneAtATime, Timely, Current, Idle

LEMMA ReadIsTimely ==
  ASSUME OneAtATime, Accounts, NEW r \in Requests, Read(r)
  PROVE  Timely'
<1> USE DEF OneAtATime, Start, Accounts, Credit, Ledger, MoneyTyped, Timely, Current
<1>1. CASE \E p \in Payments, i \in Invoices, a \in Amounts : ReadRecord(r, p, a, i)
  BY <1>1 DEF ReadRecord
<1>2. CASE \E p \in Payments : ReadConfirm(r, p)
  BY <1>2 DEF ReadConfirm
<1>3. CASE \E p \in Payments : ReadReverse(r, p)
  BY <1>3 DEF ReadReverse
<1>4. CASE \E i \in Invoices : ReadUpdateInvoice(r, i) \/ ReadIssue(r, i) \/ ReadVoid(r, i)
  BY <1>4 DEF ReadUpdateInvoice, ReadIssue, ReadVoid
<1> QED BY <1>1, <1>2, <1>3, <1>4 DEF Read

LEMMA StepTimely ==
  ASSUME OneAtATime, Accounts, [Next]_vars
  PROVE  Timely'
<1>1. ASSUME NEW p \in Payments, PaymentStep(p) PROVE Timely'
  BY <1>1, IdleIsTimely DEF PaymentStep, recordAllocations, reverseFinanceEntry, createDeposit,
     apply, Serve
<1>2. ASSUME NEW i \in Invoices, NEW t \in Amounts, createInvoice(i, t) PROVE Timely'
  BY <1>2, IdleIsTimely DEF createInvoice, Serve
<1>3. ASSUME NEW r \in Requests,
             \/ CommitRecord(r) \/ CommitConfirm(r) \/ CommitReverse(r)
             \/ CommitUpdateInvoice(r) \/ CommitIssue(r) \/ CommitVoid(r) \/ Abort(r)
      PROVE  Timely'
  <2>1. req' = [req EXCEPT ![r] = Idle]
    BY <1>3 DEF CommitRecord, CommitConfirm, CommitReverse, CommitUpdateInvoice, CommitIssue,
       CommitVoid, Abort, Finish
  <2> QED BY <2>1, IdleIsTimely DEF Accounts, Credit, Ledger, MoneyTyped
<1>4. CASE UNCHANGED vars
  BY <1>4 DEF vars, Accounts, Timely, Current
<1> QED BY <1>1, <1>2, <1>3, <1>4, ReadIsTimely DEF Next

-----------------------------------------------------------------------------
(* The steps, one by one. *)
LEMMA NewPaymentShows ==
  ASSUME Accounts, NEW p \in Payments, NEW a, NEW share, NewPayment(p, a, share)
  PROVE  Shown' /\ KeepsVoided
<1>1. \A i \in Invoices : Collected(payment', allocated', i) = Collected(payment, allocated, i)
  BY NewPaymentSums DEF Accounts, Credit
<1> QED BY <1>1, SumsShow DEF Accounts, NewPayment

(* What is released is on the invoices that are reconciled.                  *)
LEMMA ReleaseShows ==
  ASSUME IsFiniteSet(Payments), Accounts, NEW p \in Payments, ReleasePayment(p), NEW S,
         \A i \in Invoices : allocated[p][i] # 0 => i \in S, reconcileInvoices(S)
  PROVE  Shown' /\ KeepsVoided
<1>1. \A i \in Invoices \ S : Collected(payment', allocated', i) = Collected(payment, allocated, i)
  BY ReleaseSums DEF Accounts, Credit
<1> QED BY <1>1, ReconcilingShows DEF Accounts, Credit

(* A payment with nothing received has nothing allocated.                    *)
LEMMA UnusedAllocatesNothing ==
  ASSUME IsFiniteSet(Invoices), Tables, NEW p \in Payments, payment[p] = NoPayment,
         NEW i \in Invoices
  PROVE  allocated[p][i] = 0
<1>1. PICK pay, share, dep : pay = payment[p] /\ share = allocated[p] /\ dep = deposit[p]
  OBVIOUS
<1>2. Covered(pay, share, dep) /\ share \in Shares /\ pay.amount = 0
  BY <1>1 DEF Tables, NoPayment
<1>3. Total(share) = 0
  BY <1>2, CoverFacts
<1>4. share[i] <= Total(share)
  BY <1>2, OneInTotal
<1>5. share[i] \in 0 .. MaxAmount
  BY <1>2 DEF Shares
<1> QED BY <1>1, <1>3, <1>4, <1>5, BoundIsNat

LEMMA ActiveIsAllocated ==
  ASSUME Tables, NEW p \in Payments, NEW i \in Invoices, allocated[p][i] # 0
  PROVE  i \in ActiveTargets(allocated, p)
BY BoundIsNat DEF Tables, Shares, ActiveTargets

LEMMA ApplyShows ==
  ASSUME IsFiniteSet(Payments), Accounts, NEW p \in Payments, NEW i \in Invoices, NEW a \in Amounts,
         apply(p, i, a)
  PROVE  Shown' /\ KeepsVoided
<1>1. PICK S : S = ActiveTargets(allocated', p)
  OBVIOUS
<1>2. reconcileInvoices(S) /\ UNCHANGED payment
  BY <1>1 DEF apply
<1>3. ASSUME NEW j \in Invoices \ S
      PROVE  \A q \in Payments : allocated'[q][j] = allocated[q][j]
  <2>1. allocated' = [allocated EXCEPT ![p][i] = allocated[p][i] + a]
    BY DEF apply
  <2>2. allocated \in [Payments -> Shares]
    BY DEF Accounts, Credit, Tables
  <2>3. i \in S
    <3>1. allocated'[p][i] = allocated[p][i] + a
      BY <2>1, <2>2 DEF Shares
    <3>2. allocated[p][i] \in 0 .. MaxAmount
      BY <2>2 DEF Shares
    <3>3. allocated'[p][i] > 0
      BY <3>1, <3>2, BoundIsNat DEF Amounts
    <3> QED BY <1>1, <3>3 DEF ActiveTargets
  <2> QED BY <1>3, <2>1, <2>2, <2>3 DEF Shares
<1>4. \A j \in Invoices \ S : Collected(payment', allocated', j) = Collected(payment, allocated, j)
  BY <1>2, <1>3, AllocationSums
<1> QED BY <1>2, <1>4, ReconcilingShows DEF Accounts, Credit

LEMMA PaymentStepShows ==
  ASSUME IsFiniteSet(Payments), IsFiniteSet(Invoices), Accounts, NEW p \in Payments, PaymentStep(p)
  PROVE  Shown' /\ KeepsVoided
<1>1. CASE \E a \in Amounts, share \in [Invoices -> 0 .. MaxAmount] : recordAllocations(p, a, share)
  BY <1>1, NewPaymentShows DEF recordAllocations
<1>2. CASE reverseFinanceEntry(p)
  <2>1. PICK S : S = ActiveTargets(allocated, p)
    OBVIOUS
  <2>2. \A i \in Invoices : allocated[p][i] # 0 => i \in S
    BY <2>1, ActiveIsAllocated DEF Accounts, Credit
  <2>3. ReleasePayment(p) /\ reconcileInvoices(S)
    BY <1>2, <2>1 DEF reverseFinanceEntry
  <2> QED BY <2>2, <2>3, ReleaseShows
<1>3. CASE \E a \in Amounts : createDeposit(p, a)
  <2>1. PICK a \in Amounts : createDeposit(p, a)
    BY <1>3
  <2>2. PICK row : row = [status |-> "CONFIRMED", amount |-> a]
    OBVIOUS
  <2>3. /\ payment[p] = NoPayment /\ payment' = [payment EXCEPT ![p] = row]
        /\ UNCHANGED << allocated, invoice >>
    BY <2>1, <2>2 DEF createDeposit
  <2>4. \A i \in Invoices : allocated[p][i] = 0
    BY <2>3, UnusedAllocatesNothing DEF Accounts, Credit
  <2>5. \A i \in Invoices : Collected(payment', allocated', i) = Collected(payment, allocated, i)
    BY <2>3, <2>4, ConfirmSums DEF Accounts, Credit
  <2> QED BY <2>3, <2>5, SumsShow DEF Accounts
<1>4. CASE \E i \in Invoices, a \in Amounts : apply(p, i, a)
  BY <1>4, ApplyShows
<1> QED BY <1>1, <1>2, <1>3, <1>4 DEF PaymentStep

LEMMA CreateInvoiceShows ==
  ASSUME Accounts, NEW i \in Invoices, NEW t \in Amounts, createInvoice(i, t)
  PROVE  Shown' /\ KeepsVoided
<1>1. PICK row : row = [status |-> "DRAFT", lines |-> t, total |-> t, paid |-> 0]
  OBVIOUS
<1>2. /\ invoice[i] = NoInvoice /\ invoice' = [invoice EXCEPT ![i] = row]
      /\ UNCHANGED << payment, allocated >>
  BY <1>1 DEF createInvoice
<1>3. Shows(NoInvoice, Collected(payment, allocated, i))
  BY <1>2 DEF Accounts, Shown
<1>4. Shows(row, Collected(payment', allocated', i))
  BY <1>1, <1>2, <1>3 DEF Shows, Agrees, NoInvoice
<1>5. invoice \in [Invoices -> InvoiceRows]
  BY DEF Accounts, Credit, Rows
<1>6. Shown'
  BY <1>2, <1>4, <1>5, OneRowShows DEF Accounts
<1>7. KeepsVoided
  BY <1>2, <1>5 DEF KeepsVoided, NoInvoice
<1> QED BY <1>6, <1>7

LEMMA ConfirmShows ==
  ASSUME IsFiniteSet(Payments), Accounts, NEW r \in Requests, CommitConfirm(r)
  PROVE  Shown' /\ KeepsVoided
<1>1. PICK p, S, row : /\ p = req[r].p /\ S = ActiveTargets(allocated, p)
                       /\ row = [payment[p] EXCEPT !.status = "CONFIRMED"]
  OBVIOUS
<1>2. p \in Payments
  BY <1>1 DEF CommitConfirm, Finish, Accounts, Credit, Rows, Carries
<1>3. /\ payment' = [payment EXCEPT ![p] = row] /\ UNCHANGED allocated
      /\ reconcileInvoices(S)
  BY <1>1 DEF CommitConfirm
<1>4. \A i \in Invoices \ S : allocated[p][i] = 0
  BY <1>1, <1>2, ActiveIsAllocated DEF Accounts, Credit
<1>5. \A i \in Invoices \ S : Collected(payment', allocated', i) = Collected(payment, allocated, i)
  BY <1>2, <1>3, <1>4, ConfirmSums DEF Accounts, Credit
<1> QED BY <1>3, <1>5, ReconcilingShows DEF Accounts, Credit

(* The invoices read for a reversal are still all those with an allocation.  *)
LEMMA ReverseShows ==
  ASSUME IsFiniteSet(Payments), Accounts, NEW r \in Requests, CommitReverse(r)
  PROVE  Shown' /\ KeepsVoided
<1>1. PICK p, S : p = req[r].p /\ S = req[r].is
  OBVIOUS
<1>2. p \in Payments /\ S = targets[p]
  BY <1>1 DEF CommitReverse, Finish, Accounts, Credit, Rows, Carries, Timely, Current
<1>3. \A i \in Invoices : allocated[p][i] # 0 => i \in S
  BY <1>2 DEF Accounts, Credit, Rows, Remembered
<1>4. ReleasePayment(p) /\ reconcileInvoices(S)
  BY <1>1 DEF CommitReverse
<1> QED BY <1>2, <1>3, <1>4, ReleaseShows

(* The lines of a draft may change: its status says nothing of its amounts.  *)
LEMMA UpdateShows ==
  ASSUME Accounts, NEW r \in Requests, CommitUpdateInvoice(r)
  PROVE  Shown' /\ KeepsVoided
<1>1. PICK i : i = req[r].i
  OBVIOUS
<1>2. i \in Invoices /\ invoice[i].status = "DRAFT"
  BY <1>1 DEF CommitUpdateInvoice, Finish, Accounts, Credit, Rows, Carries, Timely, Current
<1>3. invoice \in [Invoices -> InvoiceRows]
  BY DEF Accounts, Credit, Rows
<1>4. PICK row : /\ invoice' = [invoice EXCEPT ![i] = row]
                 /\ row.status = invoice[i].status /\ row.paid = invoice[i].paid
  <2>1. CASE invoice' = [invoice EXCEPT ![i].total = req[r].total]
    <3>1. PICK row : row = [invoice[i] EXCEPT !.total = req[r].total]
      OBVIOUS
    <3>2. row.status = invoice[i].status /\ row.paid = invoice[i].paid
      BY <1>2, <1>3, <3>1 DEF InvoiceRows
    <3>3. invoice' = [invoice EXCEPT ![i] = row]
      BY <1>2, <1>3, <2>1, <3>1
    <3> QED BY <3>2, <3>3
  <2>2. CASE \E n \in Amounts : invoice' = [invoice EXCEPT ![i].lines = n, ![i].total = n]
    <3>1. PICK n \in Amounts : invoice' = [invoice EXCEPT ![i].lines = n, ![i].total = n]
      BY <2>2
    <3>2. PICK row : row = [invoice[i] EXCEPT !.lines = n, !.total = n]
      OBVIOUS
    <3>3. row.status = invoice[i].status /\ row.paid = invoice[i].paid
      BY <1>2, <1>3, <3>2 DEF InvoiceRows
    <3>4. invoice' = [invoice EXCEPT ![i] = row]
      BY <1>2, <1>3, <3>1, <3>2
    <3> QED BY <3>3, <3>4
  <2> QED BY <1>1, <2>1, <2>2 DEF CommitUpdateInvoice
<1>5. UNCHANGED << payment, allocated >>
  BY DEF CommitUpdateInvoice
<1>6. Shows(invoice[i], Collected(payment, allocated, i))
  BY <1>2 DEF Accounts, Shown
<1>7. Shows(row, Collected(payment', allocated', i))
  BY <1>2, <1>4, <1>5, <1>6 DEF Shows, Agrees
<1>8. Shown'
  BY <1>2, <1>3, <1>4, <1>5, <1>7, OneRowShows DEF Accounts
<1>9. KeepsVoided
  BY <1>2, <1>3, <1>4 DEF KeepsVoided
<1> QED BY <1>8, <1>9

LEMMA IssueShows ==
  ASSUME IsFiniteSet(Payments), Accounts, NEW r \in Requests, CommitIssue(r)
  PROVE  Shown' /\ KeepsVoided
<1>1. PICK i, n, issued :
        /\ i = req[r].i /\ n = Collected(payment, allocated, i)
        /\ issued = [invoice[i] EXCEPT !.total = invoice[i].lines, !.status = "ISSUED"]
  OBVIOUS
<1>2. i \in Invoices /\ invoice[i].status = "DRAFT" /\ n \in Nat
  BY <1>1, CollectedIsNat DEF CommitIssue, Finish, Accounts, Credit, Rows, Carries, Timely, Current
<1>3. invoice \in [Invoices -> InvoiceRows]
  BY DEF Accounts, Credit, Rows
<1>4. issued \in InvoiceRows
  BY <1>1, <1>2, <1>3 DEF InvoiceRows, InvoiceStatuses, Open
<1>5. PICK late \in BOOLEAN : invoice' = [invoice EXCEPT ![i] = Reconciled(issued, n, late)]
  BY <1>1 DEF CommitIssue
<1>6. UNCHANGED << payment, allocated >>
  BY DEF CommitIssue
<1>7. PICK row : row = Reconciled(issued, n, late)
  OBVIOUS
<1>8. Shows(row, n)
  BY <1>2, <1>4, <1>7, ReconciledShows
<1>9. Shows(row, Collected(payment', allocated', i))
  BY <1>1, <1>6, <1>8
<1>10. Shown'
  BY <1>2, <1>3, <1>5, <1>6, <1>7, <1>9, OneRowShows DEF Accounts
<1>11. KeepsVoided
  BY <1>2, <1>3, <1>5 DEF KeepsVoided
<1> QED BY <1>10, <1>11

LEMMA VoidShows ==
  ASSUME Accounts, NEW r \in Requests, CommitVoid(r)
  PROVE  Shown' /\ KeepsVoided
<1>1. PICK i, row : i = req[r].i /\ row = [invoice[i] EXCEPT !.status = "VOIDED"]
  OBVIOUS
<1>2. i \in Invoices
  BY <1>1 DEF CommitVoid, Finish, Accounts, Credit, Rows, Carries
<1>3. invoice \in [Invoices -> InvoiceRows] /\ allocated \in [Payments -> Shares]
  BY DEF Accounts, Credit, Rows, Tables
<1>4. /\ invoice' = [invoice EXCEPT ![i] = row] /\ row.status = "VOIDED"
      /\ UNCHANGED payment
      /\ allocated' = [p \in Payments |-> [allocated[p] EXCEPT ![i] = 0]]
  BY <1>1, <1>2, <1>3 DEF CommitVoid, InvoiceRows
<1>5. \A j \in Invoices \ {i} : \A q \in Payments : allocated'[q][j] = allocated[q][j]
  BY <1>3, <1>4 DEF Shares
<1>6. \A j \in Invoices \ {i} :
        Collected(payment', allocated', j) = Collected(payment, allocated, j)
  BY <1>4, <1>5, AllocationSums
<1>7. Shows(row, Collected(payment', allocated', i))
  BY <1>4 DEF Shows, Agrees
<1>8. Shown'
  BY <1>2, <1>3, <1>4, <1>6, <1>7, OneRowShows DEF Accounts
<1>9. KeepsVoided
  BY <1>2, <1>3, <1>4 DEF KeepsVoided
<1> QED BY <1>8, <1>9

LEMMA StepShows ==
  ASSUME IsFiniteSet(Payments), IsFiniteSet(Invoices), Accounts, [Next]_vars
  PROVE  Shown' /\ KeepsVoided
<1>1. ASSUME NEW r \in Requests, Read(r) \/ Abort(r) PROVE Shown' /\ KeepsVoided
  <2>1. UNCHANGED << invoice, payment, allocated >>
    BY <1>1 DEF Read, ReadRecord, ReadConfirm, ReadReverse, ReadUpdateInvoice, ReadIssue, ReadVoid,
       Start, Abort
  <2> QED BY <2>1, TablesShow DEF Accounts
<1>2. ASSUME NEW r \in Requests, CommitRecord(r) PROVE Shown' /\ KeepsVoided
  <2>1. req[r].p \in Payments
    BY <1>2 DEF CommitRecord, Finish, Accounts, Credit, Rows, Carries
  <2> QED BY <1>2, <2>1, NewPaymentShows DEF CommitRecord
<1>3. CASE UNCHANGED vars
  BY <1>3, TablesShow DEF vars, Accounts
<1> QED
  BY <1>1, <1>2, <1>3, PaymentStepShows, CreateInvoiceShows, ConfirmShows, ReverseShows,
     UpdateShows, IssueShows, VoidShows DEF Next

LEMMA InitAccounts ==
  ASSUME IsFiniteSet(Invoices), Init
  PROVE  Accounts
<1>1. Credit
  BY InitCredit
<1>2. Timely
  BY DEF Init, Timely, Current, Idle
<1>3. ASSUME NEW i \in Invoices PROVE Shows(invoice[i], Collected(payment, allocated, i))
  <2>1. \A p \in Payments : ~ Puts(payment, allocated, p, i)
    BY DEF Init, Puts, NoPayment
  <2>2. Collected(payment, allocated, i) = 0
    BY <2>1, NothingCollected
  <2> QED BY <2>2 DEF Init, Shows, Agrees, NoInvoice
<1> QED BY <1>1, <1>2, <1>3 DEF Accounts, Shown

(* Any number of handlers: as long as none writes on a draft that is no      *)
(* draft any more, or reverses a payment applied to more since it was read,  *)
(* invoices show what was collected, agree with it and stay voided.  The     *)
(* stale write is the only way to break them.                                *)
THEOREM ShowingUnlessStale ==
  ASSUME IsFiniteSet(Payments), IsFiniteSet(Invoices)
  PROVE  Spec /\ []Timely => [](PaidIsBacked /\ StatusAgreesWithPaid) /\ VoidedIsFinal
<1>1. Init => Shown
  BY InitAccounts DEF Accounts
<1>2. Credit /\ Timely /\ Shown /\ [Next]_vars => Shown' /\ [KeepsVoided]_vars
  BY StepShows DEF Accounts
<1>3. Shown => PaidIsBacked /\ StatusAgreesWithPaid
  BY DEF Shown, Shows, Agrees, PaidIsBacked, StatusAgreesWithPaid
<1> QED BY <1>1, <1>2, <1>3, AlwaysCredit, PTL DEF Spec, VoidedIsFinal

LEMMA AlwaysTimely ==
  ASSUME OneAtATime, IsFiniteSet(Payments), IsFiniteSet(Invoices)
  PROVE  Spec => []Timely
<1>1. Init => Accounts
  BY InitAccounts
<1>2. Credit /\ Timely /\ Shown /\ [Next]_vars => Timely' /\ Shown'
  BY StepTimely, StepShows DEF Accounts
<1> QED BY <1>1, <1>2, AlwaysCredit, PTL DEF Spec, Accounts

(* Served one after the other, handlers leave on every invoice the amount    *)
(* that confirmed payments have on it: each of them reconciles every invoice *)
(* whose sum it may have changed.                                            *)
THEOREM Collecting ==
  ASSUME OneAtATime, IsFiniteSet(Payments), IsFiniteSet(Invoices)
  PROVE  Spec => []PaidIsBacked
BY AlwaysTimely, ShowingUnlessStale, PTL

(* The status of an invoice and its amounts agree, also when it is issued    *)
(* after it was paid, and when its due date has passed.                      *)
THEOREM Statuses ==
  ASSUME OneAtATime, IsFiniteSet(Payments), IsFiniteSet(Invoices)
  PROVE  Spec => []StatusAgreesWithPaid
BY AlwaysTimely, ShowingUnlessStale, PTL

(* No handler brings a voided invoice back: a payment that is confirmed, or  *)
(* reversed, later on is not reconciled with it.                             *)
THEOREM Voiding ==
  ASSUME OneAtATime, IsFiniteSet(Payments), IsFiniteSet(Invoices)
  PROVE  Spec => VoidedIsFinal
BY AlwaysTimely, ShowingUnlessStale, PTL
=============================================================================
