------------------------- MODULE OfferStock_proofs -------------------------
(***************************************************************************)
(* Proofs about OfferStock, for every quantity, workflow, set of           *)
(* operations and finite sets of dossiers and reservations: the counters   *)
(* of the offer, its line and its catalogue item keep within what the      *)
(* supplier offers, however many requests interleave; and no unit is       *)
(* promised twice when they are served one at a time.                      *)
(***************************************************************************)
EXTENDS OfferStock, FiniteSetTheorems, TLAPS

-----------------------------------------------------------------------------
(* "absent" and "none" stand for the lack of a status.                       *)
Written ==
  {"offerSelected", "clientConfirmed", "contractSigned", "depositReceived",
   "vehicleBooking", "inspection", "purchaseConfirmed", "supplierPaid",
   "shipmentBooking", "loading", "billOfLadingIssued", "inTransit", "arrivedAtPort",
   "documentsDelivered", "closed", "customsClearance", "customsReleased", "portExit",
   "localTransport", "deliveredToClient", "clientRegistered", "externalVehicleRecorded",
   "externalSupplierRecorded", "pickupReceived", "shippingQuoted", "paymentReceived",
   "booking", "containerBillOfLading", "arrived", "serviceCompleted", "cancelled"}

LEMMA MarksAreNoStatuses == AllStatuses \subseteq Written /\ {"absent", "none"} \intersect AllStatuses = {}
<1>1. /\ SaleSteps \in Seq(Written)
      /\ << "documentsDelivered", "closed" >> \in Seq(Written)
      /\ << "customsClearance", "customsReleased", "portExit", "localTransport",
            "deliveredToClient", "closed" >> \in Seq(Written)
  BY DEF SaleSteps, Written
<1>2. DOSSIER_STATUSES_SHIPPING \in Seq(Written)
  BY DEF DOSSIER_STATUSES_SHIPPING, Written
<1>3. DOSSIER_STATUSES_CIF \in Seq(Written) /\ DOSSIER_STATUSES_DDP \in Seq(Written)
  BY <1>1 DEF DOSSIER_STATUSES_CIF, DOSSIER_STATUSES_DDP
<1>4. "booking" \in Written /\ "cancelled" \in Written /\ "absent" \notin Written
      /\ "none" \notin Written
  BY DEF Written
<1> HIDE DEF Written
<1>5. ASSUME NEW steps \in Seq(Written)
      PROVE  \A i \in DOMAIN LegacyOf(steps) : LegacyOf(steps)[i] \in Written
  <2>1. PICK n \in Nat : n = Len(steps) /\ DOMAIN steps = 1 .. n /\ steps \in [1 .. n -> Written]
    OBVIOUS
  <2> DEFINE dropped == CHOOSE i \in DOMAIN steps : steps[i] = "vehicleBooking"
             kept == [ i \in 1 .. n - 1 |-> IF i < dropped THEN steps[i] ELSE steps[i + 1] ]
  <2>2. \A i \in 1 .. n - 1 : i \in 1 .. n /\ i + 1 \in 1 .. n
    OBVIOUS
  <2>3. \A i \in 1 .. n - 1 : kept[i] \in Written
    BY <2>1, <2>2
  <2>4. DOMAIN kept = 1 .. n - 1
    OBVIOUS
  <2>5. LegacyOf(steps) = [ i \in DOMAIN kept |->
                              IF kept[i] = "shipmentBooking" THEN "booking" ELSE kept[i] ]
    BY <2>1 DEF LegacyOf
  <2> HIDE DEF kept
  <2> QED BY <2>3, <2>4, <2>5, <1>4
<1>6. ASSUME NEW t \in DossierTypes, NEW v \in {1, 2}, NEW i \in DOMAIN StepsOf(t, v)
      PROVE  StepsOf(t, v)[i] \in Written
  <2>1. /\ WORKFLOW_STEPS_BY_TYPE[t] \in Seq(Written)
        /\ \/ LEGACY_WORKFLOW_STEPS_BY_TYPE[t] \in Seq(Written)
           \/ LEGACY_WORKFLOW_STEPS_BY_TYPE[t] = LegacyOf(WORKFLOW_STEPS_BY_TYPE[t])
    BY <1>2, <1>3 DEF WORKFLOW_STEPS_BY_TYPE, LEGACY_WORKFLOW_STEPS_BY_TYPE, DossierTypes
  <2>2. \/ StepsOf(t, v) = WORKFLOW_STEPS_BY_TYPE[t]
        \/ StepsOf(t, v) = LEGACY_WORKFLOW_STEPS_BY_TYPE[t]
    BY DEF StepsOf
  <2>3. \A seq \in Seq(Written) : \A j \in DOMAIN seq : seq[j] \in Written
    OBVIOUS
  <2> QED BY <2>1, <2>2, <2>3, <1>5
<1>7. AllStatuses \subseteq Written
  BY <1>4, <1>6 DEF AllStatuses, StatusesOf
<1>8. QED
  BY <1>4, <1>7
-----------------------------------------------------------------------------
(* The rows and the counters, however many requests interleave.              *)
OfferRows ==
  [status : OfferStatuses, available : 0 .. Quantity, reserved : 0 .. Quantity,
   archived : BOOLEAN]
LineRows == [status : OfferStatuses, reserved : 0 .. Quantity, purchased : 0 .. Quantity]
ItemRows ==
  [published : BOOLEAN, archived : BOOLEAN, available : 0 .. Quantity, reserved : 0 .. Quantity]
DossierRows ==
  [status : AllStatuses \union {"absent"}, cancelledFrom : AllStatuses \union {"none"},
   catalogue : BOOLEAN, bought : BOOLEAN]
ReservationRows ==
  [status : {"unused", "active", "released", "expired", "consumed"},
   quantity : 0 .. Quantity, dossier : Dossiers \union {NoDossier}]

(* What is offered was not bought, and each counter keeps within its stock.  *)
Backed ==
  /\ offer.reserved <= offer.available
  /\ offer.available + line.purchased <= Quantity
  /\ line.reserved + line.purchased <= Quantity
  /\ item.reserved <= item.available

Archived == \A d \in Dossiers : dossier[d].status = "cancelled" => dossier[d].cancelledFrom # "none"

Rows == TypeOK /\ Backed /\ Archived

Moving == {"advance", "cancel", "restore"}

Named(context) ==
  /\ context.op = "release" =>
       context.ks \subseteq Reservations /\ context.to \in {"released", "expired"}
  /\ context.op = "transition" => context.to \in OfferStatuses
  /\ context.op \in Moving =>
       /\ context.d \in Dossiers /\ Exists(context.d)
       /\ context.to \in AllStatuses /\ context.ks \subseteq Reservations
  /\ context.op = "restore" => context.to # "cancelled"

(* A transition holds its dossier alone, until it is no more on its way.     *)
Holding(r) == req[r].op \in {"advance", "cancel"}

Locks ==
  /\ \A r \in Requests : Holding(r) => dossier[req[r].d].status \notin TERMINAL_STATUSES
  /\ \A r, q \in Requests : Holding(r) /\ Holding(q) /\ req[r].d = req[q].d => r = q
  /\ \A d \in Dossiers : dossier[d].cancelledFrom # "cancelled"

Stocked ==
  Rows /\ DOMAIN req = Requests /\ (\A r \in Requests : Named(req[r])) /\ Locks

LEMMA QuantityIsNat == Quantity \in Nat /\ Quantity > 0
BY StockAssumption DEF StockAssumption

LEMMA StatusWrites ==
  {"VALIDATED", "RESERVED", "PURCHASED", "LOST_DEAL", "EXPIRED", "RECEIVED"} \subseteq OfferStatuses
BY DEF OfferStatuses

(* The units of reservations, in a state of their rows.                      *)
UnitsIn(S, rows) == {u \in S \X (1 .. Quantity) : u[2] <= rows[u[1]].quantity}

LEMMA QuantitiesAreUnits == \A S : Quantities(S) = Cardinality(UnitsIn(S, reservation))
BY DEF Quantities, UnitsIn

LEMMA UnitsFinite ==
  ASSUME IsFiniteSet(Reservations), NEW S \in SUBSET Reservations, NEW rows
  PROVE  IsFiniteSet(UnitsIn(S, rows)) /\ Cardinality(UnitsIn(S, rows)) \in Nat
<1>1. IsFiniteSet(S)
  BY FS_Subset
<1>2. IsFiniteSet(1 .. Quantity)
  BY FS_Interval, QuantityIsNat
<1>3. IsFiniteSet(S \X (1 .. Quantity))
  BY <1>1, <1>2, FS_Product
<1>4. UnitsIn(S, rows) \in SUBSET (S \X (1 .. Quantity))
  BY DEF UnitsIn
<1>5. QED
  BY <1>3, <1>4, FS_Subset, FS_CardinalityType

(* Reservations keep their quantities when their statuses are set.           *)
LEMMA SetReservationRows ==
  ASSUME reservation \in [Reservations -> ReservationRows], NEW S,
         NEW status \in {"active", "released", "expired", "consumed"}
  PROVE  /\ SetReservations(S, status) \in [Reservations -> ReservationRows]
         /\ \A k \in Reservations :
              /\ SetReservations(S, status)[k].quantity = reservation[k].quantity
              /\ SetReservations(S, status)[k].dossier = reservation[k].dossier
              /\ SetReservations(S, status)[k].status =
                   IF k \in S THEN status ELSE reservation[k].status
<1>1. PICK rows : rows = SetReservations(S, status)
  OBVIOUS
<1>2. ASSUME NEW row \in ReservationRows
      PROVE  /\ [row EXCEPT !.status = status] \in ReservationRows
             /\ [row EXCEPT !.status = status].status = status
             /\ [row EXCEPT !.status = status].quantity = row.quantity
             /\ [row EXCEPT !.status = status].dossier = row.dossier
  BY DEF ReservationRows
<1>3. /\ rows = [k \in Reservations |-> rows[k]]
      /\ \A k \in Reservations :
           rows[k] = IF k \in S THEN [reservation[k] EXCEPT !.status = status]
                     ELSE reservation[k]
  BY <1>1 DEF SetReservations
<1>4. ASSUME NEW k \in Reservations
      PROVE  /\ rows[k] \in ReservationRows
             /\ rows[k].quantity = reservation[k].quantity
             /\ rows[k].dossier = reservation[k].dossier
             /\ rows[k].status = IF k \in S THEN status ELSE reservation[k].status
  <2>1. PICK row \in ReservationRows : row = reservation[k]
    OBVIOUS
  <2>2. PICK new : new = [row EXCEPT !.status = status]
    OBVIOUS
  <2>3. /\ new \in ReservationRows /\ new.status = status
        /\ new.quantity = row.quantity /\ new.dossier = row.dossier
    BY <2>2, <1>2
  <2>4. rows[k] = IF k \in S THEN new ELSE row
    BY <2>1, <2>2, <1>3
  <2> QED BY <2>1, <2>3, <2>4
<1>5. rows \in [Reservations -> ReservationRows]
  BY <1>3, <1>4
<1>6. QED
  BY <1>1, <1>4, <1>5

(* A transition writes a status and what comes with it.                      *)
LEMMA MovedRows ==
  ASSUME dossier \in [Dossiers -> DossierRows], Archived, NEW d \in Dossiers, Exists(d),
         NEW to \in AllStatuses
  PROVE  /\ Moved(d, to) \in [Dossiers -> DossierRows]
         /\ \A e \in Dossiers \ {d} : Moved(d, to)[e] = dossier[e]
         /\ Moved(d, to)[d].status = to
         /\ Moved(d, to)[d].catalogue = dossier[d].catalogue
         /\ Moved(d, to)[d].bought =
              (dossier[d].bought \/ (to = "purchaseConfirmed" /\ dossier[d].catalogue))
         /\ Moved(d, to)[d].cancelledFrom =
              IF to = "cancelled" THEN dossier[d].status ELSE dossier[d].cancelledFrom
<1>1. PICK row \in DossierRows : row = dossier[d]
  OBVIOUS
<1> DEFINE b == row.bought \/ (to = "purchaseConfirmed" /\ row.catalogue)
           f == IF to = "cancelled" THEN row.status ELSE row.cancelledFrom
           new == [row EXCEPT !.status = to, !.cancelledFrom = f, !.bought = b]
<1>2. b \in BOOLEAN /\ f \in AllStatuses \union {"none"}
  BY <1>1 DEF DossierRows, Exists
<1>3. Moved(d, to) = [dossier EXCEPT ![d] = new]
  BY <1>1 DEF Moved
<1> HIDE DEF b, f
<1>4. /\ new \in DossierRows /\ new.status = to /\ new.catalogue = row.catalogue
      /\ new.bought = b /\ new.cancelledFrom = f
  BY <1>2 DEF DossierRows
<1> HIDE DEF new
<1>5. QED
  BY <1>1, <1>3, <1>4 DEF b, f
-----------------------------------------------------------------------------
(* The rows after each transaction.                                          *)
TypedRows ==
  /\ offer \in OfferRows /\ line \in LineRows /\ item \in ItemRows
  /\ dossier \in [Dossiers -> DossierRows] /\ reservation \in [Reservations -> ReservationRows]

LEMMA TypedIsTypeOK == TypeOK <=> TypedRows
BY DEF TypeOK, TypedRows, OfferRows, LineRows, ItemRows, DossierRows, ReservationRows

(* A new or changed row of a dossier or reservation.                         *)
LEMMA FirstStep == Steps[1] \in AllStatuses /\ Steps[1] # "cancelled"
<1>1. PICK seq : seq = Steps
  OBVIOUS
<1>2. seq \in Seq(AllStatuses \ {"cancelled"}) /\ seq # << >>
  BY <1>1, StockAssumption DEF StockAssumption
<1>3. QED
  BY <1>1, <1>2

LEMMA AbsentRow ==
  /\ Absent \in DossierRows /\ Absent.cancelledFrom = "none" /\ ~ Absent.bought
BY DEF Absent, DossierRows

LEMMA NewDossierRow ==
  ASSUME NEW catalogue \in BOOLEAN
  PROVE  /\ NewDossier(catalogue) \in DossierRows /\ NewDossier(catalogue).status = Steps[1]
         /\ NewDossier(catalogue).cancelledFrom = "none"
         /\ NewDossier(catalogue).catalogue = catalogue /\ ~ NewDossier(catalogue).bought
<1>1. Steps[1] \in AllStatuses
  BY FirstStep
<1>2. PICK first \in AllStatuses : first = Steps[1]
  BY <1>1
<1>3. PICK row \in DossierRows : row = Absent /\ row.cancelledFrom = "none" /\ ~ row.bought
  BY AbsentRow
<1>4. NewDossier(catalogue) = [row EXCEPT !.status = first, !.catalogue = catalogue]
  BY <1>2, <1>3 DEF NewDossier
<1>5. QED
  BY <1>2, <1>3, <1>4 DEF DossierRows

LEMMA NotCancelledFirst ==
  ASSUME NEW d \in Dossiers, TypedRows, Archived, NEW row \in DossierRows,
         row.status = "cancelled" => row.cancelledFrom # "none",
         dossier' = [dossier EXCEPT ![d] = row]
  PROVE  dossier' \in [Dossiers -> DossierRows] /\ Archived'
BY DEF TypedRows, Archived

LEMMA RowsAfter ==
  ASSUME offer' \in OfferRows, line' \in LineRows, item' \in ItemRows,
         dossier' \in [Dossiers -> DossierRows], Archived',
         reservation' \in [Reservations -> ReservationRows], Backed'
  PROVE  Rows'
BY DEF Rows, TypeOK, OfferRows, LineRows, ItemRows, DossierRows, ReservationRows

LEMMA ReserveRows ==
  ASSUME Rows, NEW k \in Reservations, NEW q \in 1 .. Quantity, reserve(k, q)
  PROVE  Rows' /\ offer'.reserved = offer.reserved + q /\ UNCHANGED << line, item, dossier >>
<1>1. TypedRows /\ Backed /\ Archived
  BY TypedIsTypeOK DEF Rows
<1>2. PICK o \in OfferRows : o = offer
  BY <1>1 DEF TypedRows
<1>3. o.reserved + q <= o.available
  BY <1>2 DEF reserve
<1>4. PICK n \in 0 .. Quantity : n = o.reserved + q
  BY <1>3, QuantityIsNat DEF OfferRows
<1>5. offer' = [o EXCEPT !.reserved = n, !.status = "RESERVED"]
  BY <1>2, <1>4 DEF reserve
<1>6. offer' \in OfferRows /\ offer'.reserved = n /\ offer'.available = o.available
  BY <1>5, StatusWrites DEF OfferRows
<1>7. reservation' \in [Reservations -> ReservationRows]
  BY <1>1 DEF reserve, TypedRows, ReservationRows
<1>8. UNCHANGED << line, item, dossier >>
  BY DEF reserve
<1>9. Backed'
  BY <1>1, <1>2, <1>3, <1>4, <1>6, <1>8 DEF Backed
<1>10. QED
  BY <1>1, <1>2, <1>4, <1>6, <1>7, <1>8, <1>9, RowsAfter DEF TypedRows, Archived

LEMMA AssignRows ==
  ASSUME Rows, NEW k \in Reservations, NEW d \in Dossiers, assignToDossier(k, d)
  PROVE  Rows' /\ offer'.reserved = offer.reserved + 1 /\ UNCHANGED << line, item, dossier >>
<1>1. TypedRows /\ Backed /\ Archived
  BY TypedIsTypeOK DEF Rows
<1>2. PICK o \in OfferRows : o = offer
  BY <1>1 DEF TypedRows
<1>3. o.reserved < o.available
  BY <1>2 DEF assignToDossier
<1>4. PICK n \in 0 .. Quantity : n = o.reserved + 1
  BY <1>3, QuantityIsNat DEF OfferRows
<1>5. offer' = [[o EXCEPT !.reserved = n] EXCEPT !.status = "RESERVED"]
  BY <1>2, <1>4 DEF assignToDossier, TakeOne
<1>6. offer' \in OfferRows /\ offer'.reserved = n /\ offer'.available = o.available
  BY <1>5, StatusWrites DEF OfferRows
<1>7. reservation' \in [Reservations -> ReservationRows]
  BY <1>1, QuantityIsNat DEF assignToDossier, TypedRows, ReservationRows
<1>8. UNCHANGED << line, item, dossier >>
  BY DEF assignToDossier
<1>9. Backed'
  BY <1>1, <1>2, <1>3, <1>4, <1>6, <1>8, QuantityIsNat DEF Backed, OfferRows
<1>10. QED
  BY <1>1, <1>2, <1>4, <1>6, <1>7, <1>8, <1>9, RowsAfter DEF TypedRows, Archived

LEMMA ReleaseRows ==
  ASSUME IsFiniteSet(Reservations), Stocked, NEW r \in Requests, CommitRelease(r)
  PROVE  /\ Rows' /\ offer'.reserved = offer.reserved - Quantities(req[r].ks)
         /\ UNCHANGED << line, item, dossier >>
<1>1. TypedRows /\ Backed /\ Archived
  BY TypedIsTypeOK DEF Stocked, Rows
<1>2. PICK o, ks, to, q : /\ o \in OfferRows /\ o = offer /\ ks = req[r].ks /\ to = req[r].to
                          /\ q = Quantities(ks)
  BY <1>1 DEF TypedRows
<1>3. ks \in SUBSET Reservations /\ to \in {"released", "expired"}
  BY <1>2 DEF CommitRelease, Stocked, Named
<1>4. q \in Nat
  BY <1>2, <1>3, QuantitiesAreUnits, UnitsFinite
<1>5. offer' = [o EXCEPT !.reserved = o.reserved - q] /\ Checked
  BY <1>2 DEF CommitRelease, Finish
<1>6. offer'.reserved = o.reserved - q /\ offer'.available = o.available
  BY <1>2, <1>5 DEF OfferRows
<1>7. PICK n \in 0 .. Quantity : n = o.reserved - q
  BY <1>2, <1>4, <1>5, <1>6, QuantityIsNat DEF OfferRows, Checked
<1>8. offer' \in OfferRows
  BY <1>2, <1>5, <1>7 DEF OfferRows
<1>9. reservation' = SetReservations(ks, to) /\ UNCHANGED << line, item, dossier >>
  BY <1>2 DEF CommitRelease
<1>10. reservation' \in [Reservations -> ReservationRows]
  BY <1>1, <1>3, <1>9, SetReservationRows DEF TypedRows
<1>11. Backed'
  BY <1>1, <1>2, <1>5, <1>6, <1>9 DEF Backed, Checked
<1>12. QED
  BY <1>1, <1>2, <1>6, <1>8, <1>9, <1>10, <1>11, RowsAfter DEF TypedRows, Archived

(* What consuming and releasing do to the counters.                          *)
LEMMA ConsumedOffer ==
  ASSUME NEW o \in OfferRows, NEW q \in Nat, NEW new, new = ConsumeOffer(o, q)
  PROVE  /\ new.reserved = o.reserved - q /\ new.available = o.available - q
         /\ 0 <= new.reserved /\ new.reserved <= new.available => new \in OfferRows
<1>1. PICK a, n : a = o.available - q /\ n = o.reserved - q
  OBVIOUS
<1>2. PICK s \in OfferStatuses :
        new = [o EXCEPT !.reserved = n, !.available = a, !.status = s]
  BY <1>1, StatusWrites DEF ConsumeOffer
<1>3. new.reserved = n /\ new.available = a
  BY <1>2 DEF OfferRows
<1>4. ASSUME 0 <= n, n <= a PROVE new \in OfferRows
  <2>1. n \in 0 .. Quantity /\ a \in 0 .. Quantity
    BY <1>1, <1>4, QuantityIsNat DEF OfferRows
  <2> QED BY <1>2, <2>1 DEF OfferRows
<1>5. QED
  BY <1>1, <1>3, <1>4

LEMMA ReleasedOffer ==
  ASSUME NEW o \in OfferRows, NEW q \in Nat, NEW new, new = ReleaseOffer(o, q)
  PROVE  /\ new.reserved = o.reserved - q /\ new.available = o.available
         /\ 0 <= new.reserved => new \in OfferRows
<1>1. PICK n : n = o.reserved - q
  OBVIOUS
<1>2. PICK s \in OfferStatuses : new = [o EXCEPT !.reserved = n, !.status = s]
  BY <1>1, StatusWrites DEF ReleaseOffer
<1>3. new.reserved = n /\ new.available = o.available
  BY <1>2 DEF OfferRows
<1>4. ASSUME 0 <= n PROVE new \in OfferRows
  <2>1. n \in 0 .. Quantity
    BY <1>1, <1>4, QuantityIsNat DEF OfferRows
  <2> QED BY <1>2, <2>1 DEF OfferRows
<1>5. QED
  BY <1>1, <1>3, <1>4

LEMMA ConsumedLine ==
  ASSUME line \in LineRows, Backed, offer \in OfferRows, line.reserved > 0, NEW new, new = ConsumeLine
  PROVE  /\ new \in LineRows
         /\ new.reserved = line.reserved - 1 /\ new.purchased = line.purchased + 1
<1>1. PICK l \in LineRows : l = line
  OBVIOUS
<1>2. PICK n \in 0 .. Quantity, p \in 0 .. Quantity : n = l.reserved - 1 /\ p = l.purchased + 1
  BY <1>1, QuantityIsNat DEF LineRows, Backed
<1>3. PICK s \in OfferStatuses :
        new = [l EXCEPT !.reserved = n, !.purchased = p, !.status = s]
  BY <1>1, <1>2, StatusWrites DEF ConsumeLine
<1>4. QED
  BY <1>1, <1>2, <1>3 DEF LineRows

LEMMA ReleasedLine ==
  ASSUME line \in LineRows, line.reserved > 0, NEW new, new = ReleaseLine
  PROVE  /\ new \in LineRows
         /\ new.reserved = line.reserved - 1 /\ new.purchased = line.purchased
<1>1. PICK l \in LineRows : l = line
  OBVIOUS
<1>2. PICK n \in 0 .. Quantity : n = l.reserved - 1
  BY <1>1, QuantityIsNat DEF LineRows
<1>3. PICK s \in OfferStatuses : new = [l EXCEPT !.reserved = n, !.status = s]
  BY <1>1, <1>2, StatusWrites DEF ReleaseLine
<1>4. QED
  BY <1>1, <1>2, <1>3 DEF LineRows

LEMMA PurchasedLine ==
  ASSUME line \in LineRows, line.purchased < Quantity, NEW new, new = LineAfterPurchase
  PROVE  /\ new \in LineRows
         /\ new.reserved \in {0, line.reserved - 1} /\ new.reserved <= line.reserved
         /\ new.purchased = line.purchased + 1
<1>1. PICK l \in LineRows : l = line
  OBVIOUS
<1>2. PICK p \in 0 .. Quantity : p = l.purchased + 1
  BY <1>1, QuantityIsNat DEF LineRows
<1>3. PICK n \in 0 .. Quantity : n = IF l.reserved > 0 THEN l.reserved - 1 ELSE 0
  BY QuantityIsNat DEF LineRows
<1>4. PICK s \in OfferStatuses :
        new = [l EXCEPT !.purchased = p, !.reserved = n, !.status = s]
  BY <1>1, <1>2, <1>3, StatusWrites DEF LineAfterPurchase
<1>5. n \in {0, l.reserved - 1} /\ n <= l.reserved
  BY <1>3, QuantityIsNat DEF LineRows
<1>6. QED
  BY <1>1, <1>2, <1>4, <1>5 DEF LineRows

LEMMA PurchasedItem ==
  ASSUME item \in ItemRows, Backed, NEW new, new = ItemAfterPurchase
  PROVE  new \in ItemRows /\ new.reserved = item.reserved /\ new.reserved <= new.available
<1>1. PICK i \in ItemRows : i = item
  OBVIOUS
<1>2. CASE ~ i.published
  <2>1. new = i
    BY <1>1, <1>2 DEF ItemAfterPurchase
  <2> QED BY <1>1, <2>1 DEF Backed
<1>3. CASE i.published
  <2>1. PICK a \in 0 .. Quantity :
          a = IF i.available - 1 > i.reserved THEN i.available - 1 ELSE i.reserved
    BY <1>1, QuantityIsNat DEF ItemRows
  <2>2. new = [i EXCEPT !.available = a]
    BY <1>1, <1>3, <2>1 DEF ItemAfterPurchase
  <2>3. i.reserved <= a
    BY <1>1, <2>1, QuantityIsNat DEF ItemRows
  <2> QED BY <1>1, <2>2, <2>3 DEF ItemRows
<1>4. QED
  BY <1>2, <1>3

LEMMA TakenLine ==
  ASSUME line \in LineRows, line.reserved + line.purchased < Quantity, NEW new, new = TakeOne(line)
  PROVE  /\ new \in LineRows
         /\ new.reserved = line.reserved + 1 /\ new.purchased = line.purchased
<1>1. PICK l \in LineRows : l = line
  OBVIOUS
<1>2. PICK n \in 0 .. Quantity : n = l.reserved + 1
  BY <1>1, QuantityIsNat DEF LineRows
<1>3. QED
  BY <1>1, <1>2 DEF LineRows, TakeOne

LEMMA TakenItem ==
  ASSUME item \in ItemRows, item.reserved < item.available, NEW new, new = TakeOne(item)
  PROVE  /\ new \in ItemRows
         /\ new.reserved = item.reserved + 1 /\ new.available = item.available
<1>1. PICK i \in ItemRows : i = item
  OBVIOUS
<1>2. PICK n \in 0 .. Quantity : n = i.reserved + 1
  BY <1>1, QuantityIsNat DEF ItemRows
<1>3. QED
  BY <1>1, <1>2 DEF ItemRows, TakeOne

LEMMA ReservedLine ==
  ASSUME NEW l \in LineRows, NEW new, new = LineReserved(l)
  PROVE  new \in LineRows /\ new.reserved = l.reserved /\ new.purchased = l.purchased
<1>1. PICK s \in OfferStatuses : new = [l EXCEPT !.status = s]
  BY StatusWrites DEF LineReserved, LineRows
<1>2. QED
  BY <1>1 DEF LineRows
-----------------------------------------------------------------------------
(* The purchases outside a dossier's step.                                   *)
LEMMA OfferAfterPurchase ==
  ASSUME NEW o \in OfferRows, NEW q \in {0, 1}, NEW new,
         new = [o EXCEPT !.reserved = o.reserved - q, !.available = o.available - 1,
                         !.status = IF o.available = 1 THEN "PURCHASED" ELSE o.status],
         0 <= o.reserved - q, o.reserved - q <= o.available - 1
  PROVE  new \in OfferRows /\ new.reserved = o.reserved - q /\ new.available = o.available - 1
<1>1. PICK n \in 0 .. Quantity, a \in 0 .. Quantity :
        n = o.reserved - q /\ a = o.available - 1
  BY QuantityIsNat DEF OfferRows
<1>2. PICK s \in OfferStatuses : s = IF o.available = 1 THEN "PURCHASED" ELSE o.status
  BY StatusWrites DEF OfferRows
<1>3. new = [o EXCEPT !.reserved = n, !.available = a, !.status = s]
  BY <1>1, <1>2
<1>4. QED
  BY <1>1, <1>3 DEF OfferRows

(* A dossier whose reservation is materialized is bought with it.            *)
LEMMA MaterializedDossier ==
  ASSUME TypedRows, NEW d \in Dossiers, NEW new,
         new = [dossier EXCEPT ![d].status = "purchaseConfirmed",
                               ![d].bought = dossier[d].catalogue],
         "purchaseConfirmed" \in AllStatuses
  PROVE  /\ new \in [Dossiers -> DossierRows] /\ \A e \in Dossiers \ {d} : new[e] = dossier[e]
         /\ new[d].status = "purchaseConfirmed" /\ new[d].catalogue = dossier[d].catalogue
         /\ new[d].bought = dossier[d].catalogue
         /\ new[d].cancelledFrom = dossier[d].cancelledFrom
<1>1. PICK row \in DossierRows : row = dossier[d]
  BY DEF TypedRows
<1> DEFINE after == [row EXCEPT !.status = "purchaseConfirmed", !.bought = row.catalogue]
<1>2. new = [dossier EXCEPT ![d] = after]
  BY <1>1
<1>3. /\ after \in DossierRows /\ after.status = "purchaseConfirmed"
      /\ after.catalogue = row.catalogue /\ after.bought = row.catalogue
      /\ after.cancelledFrom = row.cancelledFrom
  BY DEF DossierRows
<1> HIDE DEF after
<1>4. QED
  BY <1>1, <1>2, <1>3 DEF TypedRows

(* A step of the workflow leads to a status.                                 *)
LEMMA FollowsSteps ==
  ASSUME NEW from, NEW to, Follows(from, to)
  PROVE  to \in AllStatuses
<1>1. PICK seq : seq = Steps
  OBVIOUS
<1>2. seq \in Seq(AllStatuses \ {"cancelled"})
  BY <1>1, StockAssumption DEF StockAssumption
<1>3. "cancelled" \in AllStatuses
  BY DEF AllStatuses
<1>4. QED
  BY <1>1, <1>2, <1>3 DEF Follows

LEMMA MaterializeRows ==
  ASSUME Rows, NEW k \in Reservations, materialize(k)
  PROVE  /\ Rows' /\ offer'.reserved = offer.reserved - 1 /\ line'.reserved <= line.reserved
         /\ item'.reserved = item.reserved
<1>1. TypedRows /\ Backed /\ Archived
  BY TypedIsTypeOK DEF Rows
<1>2. PICK o \in OfferRows : o = offer
  BY <1>1 DEF TypedRows
<1>3. PICK new : new = offer'
  OBVIOUS
<1>4. /\ new = [o EXCEPT !.reserved = o.reserved - 1, !.available = o.available - 1,
                         !.status = IF o.available = 1 THEN "PURCHASED" ELSE o.status]
      /\ 0 <= new.reserved /\ new.reserved <= new.available
  BY <1>2, <1>3 DEF materialize, Checked
<1>5. new.reserved = o.reserved - 1 /\ new.available = o.available - 1
  BY <1>4 DEF OfferRows
<1>6. offer' \in OfferRows /\ offer'.reserved = o.reserved - 1 /\ offer'.available = o.available - 1
  BY <1>3, <1>4, <1>5, OfferAfterPurchase
<1>7. PICK l, i : l = LineAfterPurchase /\ i = ItemAfterPurchase
  OBVIOUS
<1>8. line' = l /\ item' = i /\ line.purchased < Quantity /\ Checked
      /\ reservation' = SetReservations({k}, "consumed")
  BY <1>7 DEF materialize
<1>9. /\ l \in LineRows /\ l.purchased = line.purchased + 1 /\ l.reserved <= line.reserved
      /\ i \in ItemRows /\ i.reserved <= i.available /\ i.reserved = item.reserved
  BY <1>1, <1>7, <1>8, PurchasedLine, PurchasedItem DEF TypedRows
<1>10. reservation' \in [Reservations -> ReservationRows]
  BY <1>1, <1>8, SetReservationRows DEF TypedRows
<1>11. dossier' \in [Dossiers -> DossierRows] /\ Archived'
  <2>1. PICK d : d = reservation[k].dossier
    OBVIOUS
  <2>2. CASE d = NoDossier
    BY <1>1, <2>1, <2>2 DEF materialize, TypedRows, Archived
  <2>3. CASE d # NoDossier
    <3>1. d \in Dossiers
      BY <1>1, <2>1, <2>3 DEF TypedRows, ReservationRows
    <3>2. PICK after : after = dossier'
      OBVIOUS
    <3>3. /\ after = [dossier EXCEPT ![d].status = "purchaseConfirmed",
                                     ![d].bought = dossier[d].catalogue]
          /\ Follows(dossier[d].status, "purchaseConfirmed")
      BY <2>1, <2>3, <3>2 DEF materialize
    <3>4. /\ after \in [Dossiers -> DossierRows]
          /\ \A e \in Dossiers \ {d} : after[e] = dossier[e]
          /\ after[d].status = "purchaseConfirmed"
      BY <1>1, <3>1, <3>3, MaterializedDossier, FollowsSteps
    <3> QED BY <1>1, <3>1, <3>2, <3>4 DEF Archived
  <2> QED BY <2>2, <2>3
<1>12. Backed'
  BY <1>1, <1>2, <1>6, <1>8, <1>9, QuantityIsNat
  DEF Backed, Checked, OfferRows, LineRows, TypedRows
<1>13. QED
  BY <1>2, <1>6, <1>8, <1>9, <1>10, <1>11, <1>12, RowsAfter

LEMMA PurchaseOfferVehicleRows ==
  ASSUME Rows, purchaseOfferVehicle
  PROVE  /\ Rows' /\ offer'.reserved = offer.reserved /\ line'.reserved <= line.reserved
         /\ item'.reserved = item.reserved /\ UNCHANGED << dossier, reservation >>
<1>1. TypedRows /\ Backed /\ Archived
  BY TypedIsTypeOK DEF Rows
<1>2. PICK o \in OfferRows : o = offer
  BY <1>1 DEF TypedRows
<1>3. PICK new, l, i : new = offer' /\ l = LineAfterPurchase /\ i = ItemAfterPurchase
  OBVIOUS
<1>4. /\ new = [o EXCEPT !.available = o.available - 1,
                         !.status = IF o.available = 1 THEN "PURCHASED" ELSE o.status]
      /\ o.reserved < o.available
      /\ line' = l /\ item' = i /\ line.purchased < Quantity /\ Checked
      /\ UNCHANGED << dossier, reservation >>
  BY <1>2, <1>3 DEF purchaseOfferVehicle
<1>5. PICK a \in 0 .. Quantity : a = o.available - 1
  BY <1>4, QuantityIsNat DEF OfferRows
<1>6. PICK s \in OfferStatuses : s = IF o.available = 1 THEN "PURCHASED" ELSE o.status
  BY StatusWrites DEF OfferRows
<1>7. new = [o EXCEPT !.available = a, !.status = s]
  BY <1>4, <1>5, <1>6
<1>8. new \in OfferRows /\ new.reserved = o.reserved /\ new.available = o.available - 1
  BY <1>5, <1>7 DEF OfferRows
<1>9. /\ l \in LineRows /\ l.purchased = line.purchased + 1 /\ l.reserved <= line.reserved
      /\ i \in ItemRows /\ i.reserved <= i.available /\ i.reserved = item.reserved
  BY <1>1, <1>3, <1>4, PurchasedLine, PurchasedItem DEF TypedRows
<1>10. Backed'
  BY <1>1, <1>2, <1>3, <1>4, <1>8, <1>9, QuantityIsNat
  DEF Backed, Checked, OfferRows, LineRows, TypedRows
<1>11. QED
  BY <1>1, <1>2, <1>3, <1>4, <1>8, <1>9, <1>10, RowsAfter DEF TypedRows, Archived

-----------------------------------------------------------------------------
(* The offer, its line and its publication.                                  *)
LEMMA OfferKept ==
  ASSUME NEW o \in OfferRows, NEW s \in OfferStatuses, NEW new,
         new = [o EXCEPT !.status = s] \/ new = [o EXCEPT !.archived = TRUE] \/ new = o
  PROVE  new \in OfferRows /\ new.reserved = o.reserved /\ new.available = o.available
BY DEF OfferRows

LEMMA LineKept ==
  ASSUME NEW l \in LineRows, NEW s \in OfferStatuses, NEW new, new = [l EXCEPT !.status = s] \/ new = l
  PROVE  new \in LineRows /\ new.reserved = l.reserved /\ new.purchased = l.purchased
BY DEF LineRows

LEMMA ItemKept ==
  ASSUME NEW i \in ItemRows, NEW b \in BOOLEAN, NEW new, new = [i EXCEPT !.archived = b] \/ new = i
  PROVE  new \in ItemRows /\ new.reserved = i.reserved /\ new.available = i.available
BY DEF ItemRows

(* Statuses change, counters do not.                                         *)
LEMMA CountersKept ==
  ASSUME Rows, offer' \in OfferRows, line' \in LineRows, item' \in ItemRows,
         offer'.reserved = offer.reserved, offer'.available = offer.available,
         line'.reserved = line.reserved, line'.purchased = line.purchased,
         item'.reserved = item.reserved, item'.available = item.available,
         reservation' \in [Reservations -> ReservationRows],
         dossier' \in [Dossiers -> DossierRows], Archived'
  PROVE  Rows'
BY RowsAfter DEF Rows, Backed

LEMMA TransitionRows ==
  ASSUME Stocked, NEW r \in Requests, CommitTransition(r)
  PROVE  /\ Rows' /\ UNCHANGED << dossier, reservation >>
         /\ offer'.reserved = offer.reserved /\ line'.reserved = line.reserved
         /\ line'.purchased = line.purchased /\ item'.reserved = item.reserved
<1>1. TypedRows /\ Rows
  BY TypedIsTypeOK DEF Stocked, Rows
<1>2. PICK to : to = req[r].to
  OBVIOUS
<1>3. to \in OfferStatuses
  BY <1>2 DEF CommitTransition, Stocked, Named
<1>4. PICK o, l, i : o = offer' /\ l = line' /\ i = item'
  OBVIOUS
<1>5. PICK s, b : /\ s = (IF line.status \in {"PURCHASED", "LOST_DEAL"} THEN line.status ELSE to)
                  /\ b = (item.archived \/ (item.published /\ to \in {"LOST_DEAL", "EXPIRED"}))
  OBVIOUS
<1>6. s \in OfferStatuses /\ b \in BOOLEAN
  BY <1>1, <1>3, <1>5 DEF TypedRows, LineRows
<1>7. /\ o = [offer EXCEPT !.status = to] /\ l = [line EXCEPT !.status = s]
      /\ i = [item EXCEPT !.archived = b]
      /\ UNCHANGED << dossier, reservation >>
  BY <1>2, <1>4, <1>5 DEF CommitTransition
<1>8. /\ o \in OfferRows /\ o.reserved = offer.reserved /\ o.available = offer.available
      /\ l \in LineRows /\ l.reserved = line.reserved /\ l.purchased = line.purchased
      /\ i \in ItemRows /\ i.reserved = item.reserved /\ i.available = item.available
  BY <1>1, <1>3, <1>6, <1>7, OfferKept, LineKept, ItemKept DEF TypedRows
<1>9. QED
  BY <1>1, <1>4, <1>7, <1>8, CountersKept DEF Rows, TypedRows, Archived

LEMMA LoseRows ==
  ASSUME Stocked, NEW r \in Requests, CommitLoseOfferVehicle(r)
  PROVE  /\ Rows' /\ UNCHANGED << offer, dossier, reservation >>
         /\ line'.reserved = line.reserved
         /\ line'.purchased = line.purchased /\ item'.reserved = item.reserved
<1>1. TypedRows /\ Rows
  BY TypedIsTypeOK DEF Stocked, Rows
<1>2. PICK l, i, b : l = line' /\ i = item' /\ b = (item.archived \/ item.published)
  OBVIOUS
<1>3. b \in BOOLEAN
  BY <1>1, <1>2 DEF TypedRows, ItemRows
<1>4. /\ l = [line EXCEPT !.status = "LOST_DEAL"] /\ i = [item EXCEPT !.archived = b]
      /\ UNCHANGED << offer, dossier, reservation >>
  BY <1>2 DEF CommitLoseOfferVehicle
<1>5. /\ l \in LineRows /\ l.reserved = line.reserved /\ l.purchased = line.purchased
      /\ i \in ItemRows /\ i.reserved = item.reserved /\ i.available = item.available
  BY <1>1, <1>3, <1>4, LineKept, ItemKept, StatusWrites DEF TypedRows
<1>6. QED
  BY <1>1, <1>2, <1>4, <1>5, CountersKept DEF Rows, TypedRows, Archived

LEMMA ArchiveRows ==
  ASSUME Stocked, NEW r \in Requests, CommitArchive(r)
  PROVE  /\ Rows' /\ UNCHANGED << line, item, dossier, reservation >>
         /\ offer'.reserved = offer.reserved
<1>1. TypedRows /\ Rows
  BY TypedIsTypeOK DEF Stocked, Rows
<1>2. PICK o : o = offer'
  OBVIOUS
<1>3. o = [offer EXCEPT !.archived = TRUE] /\ UNCHANGED << line, item, dossier, reservation >>
  BY <1>2 DEF CommitArchive
<1>4. o \in OfferRows /\ o.reserved = offer.reserved /\ o.available = offer.available
  BY <1>1, <1>3, OfferKept, StatusWrites DEF TypedRows
<1>5. QED
  BY <1>1, <1>2, <1>3, <1>4, CountersKept DEF Rows, TypedRows, Archived

LEMMA PublishRows ==
  ASSUME Rows, publish
  PROVE  Rows' /\ item'.reserved = item.reserved
<1>1. TypedRows /\ Backed /\ Archived
  BY TypedIsTypeOK DEF Rows
<1>2. PICK i, l : i = item /\ l = line /\ i \in ItemRows /\ l \in LineRows
  BY <1>1 DEF TypedRows
<1>3. PICK left \in 0 .. Quantity : left = Quantity - l.purchased
  BY <1>2, QuantityIsNat DEF LineRows
<1>4. PICK a \in 0 .. Quantity : a = (IF i.reserved > left THEN i.reserved ELSE left)
  BY <1>2 DEF ItemRows
<1>5. item' = [published |-> TRUE, archived |-> FALSE, reserved |-> i.reserved, available |-> a]
  BY <1>2, <1>3, <1>4 DEF publish
<1>6. /\ item' \in ItemRows /\ item'.reserved = i.reserved /\ item'.available = a
      /\ UNCHANGED << offer, line, dossier, reservation >>
  BY <1>2, <1>5 DEF ItemRows, publish
<1>7. i.reserved <= a
  BY <1>2, <1>4, QuantityIsNat DEF ItemRows
<1>8. Backed'
  BY <1>1, <1>6, <1>7 DEF Backed
<1>9. QED
  BY <1>1, <1>2, <1>6, <1>8, RowsAfter DEF TypedRows, Archived
-----------------------------------------------------------------------------
(* Dossiers, and what they claim.                                            *)
LEMMA TakenOffer ==
  ASSUME NEW o \in OfferRows, o.reserved < o.available, NEW new,
         new = [TakeOne(o) EXCEPT !.status = "RESERVED"]
  PROVE  new \in OfferRows /\ new.reserved = o.reserved + 1 /\ new.available = o.available
<1>1. PICK n \in 0 .. Quantity : n = o.reserved + 1
  BY QuantityIsNat DEF OfferRows
<1>2. new = [[o EXCEPT !.reserved = n] EXCEPT !.status = "RESERVED"]
  BY <1>1 DEF TakeOne
<1>3. QED
  BY <1>1, <1>2, StatusWrites DEF OfferRows

LEMMA CreatedDossier ==
  ASSUME TypedRows, Archived, NEW d \in Dossiers, NEW catalogue \in BOOLEAN,
         dossier' = [dossier EXCEPT ![d] = NewDossier(catalogue)]
  PROVE  dossier' \in [Dossiers -> DossierRows] /\ Archived'
<1>1. PICK row : row = NewDossier(catalogue)
  OBVIOUS
<1>2. row \in DossierRows /\ row.status # "cancelled"
  BY <1>1, NewDossierRow, FirstStep
<1>3. QED
  BY <1>1, <1>2, NotCancelledFirst

LEMMA CreateFromCatalogueRows ==
  ASSUME Rows, NEW d \in Dossiers, createFromCatalogue(d)
  PROVE  /\ Rows' /\ reservation' = reservation
         /\ dossier' = [dossier EXCEPT ![d] = NewDossier(TRUE)]
         /\ offer'.reserved = offer.reserved + 1 /\ line'.reserved = line.reserved + 1
         /\ line'.purchased = line.purchased /\ item'.reserved = item.reserved + 1
<1>1. TypedRows /\ Backed /\ Archived
  BY TypedIsTypeOK DEF Rows
<1>2. PICK o, l, i, t : o = offer' /\ l = line' /\ i = item' /\ t = TakeOne(line)
  OBVIOUS
<1>3. /\ o = [TakeOne(offer) EXCEPT !.status = "RESERVED"] /\ l = LineReserved(t)
      /\ i = TakeOne(item)
      /\ offer.reserved < offer.available /\ item.reserved < item.available
      /\ line.reserved + line.purchased < Quantity
      /\ reservation' = reservation /\ dossier' = [dossier EXCEPT ![d] = NewDossier(TRUE)]
  BY <1>2 DEF createFromCatalogue, CatalogueClaimable
<1>4. o \in OfferRows /\ o.reserved = offer.reserved + 1 /\ o.available = offer.available
  BY <1>1, <1>3, TakenOffer DEF TypedRows
<1>5. t \in LineRows /\ t.reserved = line.reserved + 1 /\ t.purchased = line.purchased
  BY <1>1, <1>2, <1>3, TakenLine DEF TypedRows
<1>6. l \in LineRows /\ l.reserved = line.reserved + 1 /\ l.purchased = line.purchased
  BY <1>3, <1>5, ReservedLine
<1>7. i \in ItemRows /\ i.reserved = item.reserved + 1 /\ i.available = item.available
  BY <1>1, <1>3, TakenItem DEF TypedRows
<1>8. dossier' \in [Dossiers -> DossierRows] /\ Archived'
  BY <1>1, <1>3, CreatedDossier
<1>9. Backed'
  BY <1>1, <1>2, <1>3, <1>4, <1>6, <1>7, QuantityIsNat
  DEF Backed, OfferRows, LineRows, ItemRows, TypedRows
<1>10. QED
  BY <1>1, <1>2, <1>3, <1>4, <1>6, <1>7, <1>8, <1>9, RowsAfter DEF TypedRows

LEMMA CreateRows ==
  ASSUME Rows, NEW d \in Dossiers,
         createWithoutOffer(d) \/ \E k \in Reservations : createFromReservation(d, k)
  PROVE  Rows' /\ dossier' = [dossier EXCEPT ![d] = NewDossier(FALSE)]
<1>1. TypedRows /\ Backed /\ Archived
  BY TypedIsTypeOK DEF Rows
<1>2. /\ dossier' = [dossier EXCEPT ![d] = NewDossier(FALSE)]
      /\ UNCHANGED << offer, line, item >>
  BY DEF createWithoutOffer, createFromReservation
<1>3. dossier' \in [Dossiers -> DossierRows] /\ Archived'
  BY <1>1, <1>2, CreatedDossier
<1>4. reservation' \in [Reservations -> ReservationRows]
  <2>1. CASE createWithoutOffer(d)
    BY <1>1, <2>1 DEF createWithoutOffer, TypedRows
  <2>2. ASSUME NEW k \in Reservations, createFromReservation(d, k)
        PROVE  reservation' \in [Reservations -> ReservationRows]
    <3>1. PICK row \in ReservationRows : row = reservation[k]
      BY <1>1 DEF TypedRows
    <3>2. [row EXCEPT !.dossier = d] \in ReservationRows
      BY DEF ReservationRows
    <3>3. reservation' = [reservation EXCEPT ![k] = [row EXCEPT !.dossier = d]]
      BY <2>2, <3>1 DEF createFromReservation
    <3> QED BY <1>1, <3>2, <3>3 DEF TypedRows
  <2> QED BY <2>1, <2>2
<1>5. Backed'
  BY <1>1, <1>2 DEF Backed
<1>6. QED
  BY <1>1, <1>2, <1>3, <1>4, <1>5, RowsAfter DEF TypedRows

(* What a transition writes on the dossiers.                                 *)
LEMMA MovedDossier ==
  ASSUME Stocked, NEW r \in Requests, req[r].op \in Moving, NEW to, to = req[r].to,
         dossier' = Moved(req[r].d, to)
  PROVE  dossier' \in [Dossiers -> DossierRows] /\ Archived'
<1>1. PICK d : d = req[r].d
  OBVIOUS
<1>2. TypedRows /\ Archived /\ d \in Dossiers /\ Exists(d) /\ to \in AllStatuses
  BY <1>1, TypedIsTypeOK DEF Stocked, Rows, Named
<1>3. PICK new : new = dossier'
  OBVIOUS
<1>4. new = Moved(d, to)
  BY <1>1, <1>3
<1>5. /\ new \in [Dossiers -> DossierRows]
      /\ \A e \in Dossiers \ {d} : new[e] = dossier[e]
      /\ new[d].status = to
      /\ to = "cancelled" => new[d].cancelledFrom = dossier[d].status
  BY <1>2, <1>4, MovedRows DEF TypedRows
<1>6. dossier[d].status # "none"
  BY <1>2, MarksAreNoStatuses DEF TypedRows, DossierRows, Exists
<1>7. QED
  BY <1>2, <1>3, <1>5, <1>6 DEF Archived

LEMMA ReservingRows ==
  ASSUME Stocked, NEW r \in Requests, CommitReserving(r)
  PROVE  /\ Rows' /\ UNCHANGED << item, reservation >>
         /\ dossier' = Moved(req[r].d, req[r].to) /\ req[r].op = "advance"
         /\ offer'.reserved = offer.reserved /\ line'.reserved = line.reserved
         /\ line'.purchased = line.purchased
<1>1. TypedRows /\ Rows
  BY TypedIsTypeOK DEF Stocked, Rows
<1>2. PICK o, l : o = offer' /\ l = line'
  OBVIOUS
<1>3. /\ dossier' = Moved(req[r].d, req[r].to) /\ req[r].op = "advance"
      /\ UNCHANGED << item, reservation >>
      /\ o = [offer EXCEPT !.status = "RESERVED"] \/ o = offer
      /\ l = [line EXCEPT !.status = "RESERVED"] \/ l = line
  BY <1>2 DEF CommitReserving
<1>4. /\ o \in OfferRows /\ o.reserved = offer.reserved /\ o.available = offer.available
      /\ l \in LineRows /\ l.reserved = line.reserved /\ l.purchased = line.purchased
  BY <1>1, <1>3, OfferKept, LineKept, StatusWrites DEF TypedRows
<1>5. PICK to : to = req[r].to
  OBVIOUS
<1>6. dossier' \in [Dossiers -> DossierRows] /\ Archived'
  BY <1>3, <1>5, MovedDossier DEF Moving
<1>7. QED
  BY <1>1, <1>2, <1>3, <1>4, <1>6, CountersKept DEF TypedRows

LEMMA OtherStepRows ==
  ASSUME Stocked, NEW r \in Requests, CommitOtherStep(r)
  PROVE  /\ Rows' /\ UNCHANGED << offer, line, item, reservation >>
         /\ dossier' = Moved(req[r].d, req[r].to) /\ req[r].op = "advance"
<1>1. TypedRows /\ Rows
  BY TypedIsTypeOK DEF Stocked, Rows
<1>2. /\ dossier' = Moved(req[r].d, req[r].to) /\ req[r].op = "advance"
      /\ UNCHANGED << offer, line, item, reservation >>
  BY DEF CommitOtherStep
<1>3. PICK to : to = req[r].to
  OBVIOUS
<1>4. dossier' \in [Dossiers -> DossierRows] /\ Archived'
  BY <1>2, <1>3, MovedDossier DEF Moving
<1>5. QED
  BY <1>1, <1>2, <1>4, CountersKept DEF TypedRows

(* A purchase consumes the unit of the catalogue and those of reservations.  *)
LEMMA PurchaseRows ==
  ASSUME IsFiniteSet(Reservations), Stocked, NEW r \in Requests, CommitPurchase(r), NEW via, NEW ks,
         via <=> req[r].viaItem, ks = req[r].ks
  PROVE  /\ Rows' /\ dossier' = Moved(req[r].d, req[r].to) /\ req[r].op = "advance"
         /\ ks \in SUBSET Reservations /\ reservation' = SetReservations(ks, "consumed")
         /\ getDossierCommerceAction(req[r].to) = "purchase"
         /\ IF via
            THEN /\ offer'.reserved = offer.reserved - 1 - (IF ks = {} THEN 0 ELSE Quantities(ks))
                 /\ line'.reserved = line.reserved - 1 /\ item'.reserved = item.reserved - 1
            ELSE /\ offer'.reserved = offer.reserved - (IF ks = {} THEN 0 ELSE Quantities(ks))
                 /\ line' = line /\ item' = item
<1>1. TypedRows /\ Rows /\ Backed
  BY TypedIsTypeOK DEF Stocked, Rows
<1>2. PICK o, l, i, q, settled :
        /\ o = offer' /\ l = line' /\ i = item' /\ q = Quantities(ks)
        /\ settled = IF via THEN ConsumeOffer(offer, 1) ELSE offer
  OBVIOUS
<1>3. /\ dossier' = Moved(req[r].d, req[r].to) /\ req[r].op = "advance"
      /\ getDossierCommerceAction(req[r].to) = "purchase"
      /\ reservation' = SetReservations(ks, "consumed") /\ Checked
      /\ via => item.reserved > 0 /\ line.reserved > 0 /\ offer.reserved > 0
      /\ i = IF via THEN [item EXCEPT !.reserved = item.reserved - 1,
                                      !.available = item.available - 1] ELSE item
      /\ l = IF via THEN ConsumeLine ELSE line
      /\ o = IF ks = {} THEN settled ELSE ConsumeOffer(settled, q)
  BY <1>2 DEF CommitPurchase, Finish
<1>4. ks \in SUBSET Reservations
  BY <1>3 DEF Stocked, Named, Moving
<1>5. q \in Nat
  BY <1>2, <1>4, QuantitiesAreUnits, UnitsFinite
<1>6. /\ settled \in OfferRows
      /\ settled.reserved = offer.reserved - (IF via THEN 1 ELSE 0)
      /\ settled.available = offer.available - (IF via THEN 1 ELSE 0)
  <2>1. CASE via
    <3>1. /\ settled.reserved = offer.reserved - 1 /\ settled.available = offer.available - 1
          /\ 0 <= settled.reserved /\ settled.reserved <= settled.available =>
               settled \in OfferRows
      BY <1>1, <1>2, <2>1, ConsumedOffer DEF TypedRows
    <3>2. 0 <= offer.reserved - 1 /\ offer.reserved - 1 <= offer.available - 1
      BY <1>1, <1>3, <2>1, QuantityIsNat DEF TypedRows, OfferRows, Backed
    <3> QED BY <2>1, <3>1, <3>2
  <2>2. CASE ~ via
    BY <1>1, <1>2, <2>2, QuantityIsNat DEF TypedRows, OfferRows
  <2> QED BY <2>1, <2>2
<1>7. /\ o \in OfferRows
      /\ o.reserved = settled.reserved - (IF ks = {} THEN 0 ELSE q)
      /\ o.available = settled.available - (IF ks = {} THEN 0 ELSE q)
  <2>1. CASE ks = {}
    BY <1>3, <1>6, <2>1, QuantityIsNat DEF OfferRows
  <2>2. CASE ks # {}
    <3>1. /\ o.reserved = settled.reserved - q /\ o.available = settled.available - q
          /\ 0 <= o.reserved /\ o.reserved <= o.available => o \in OfferRows
      BY <1>3, <1>5, <1>6, <2>2, ConsumedOffer
    <3>2. 0 <= o.reserved /\ o.reserved <= o.available
      BY <1>2, <1>3 DEF Checked
    <3> QED BY <2>2, <3>1, <3>2
  <2> QED BY <2>1, <2>2
<1>8. /\ l \in LineRows
      /\ IF via THEN l.reserved = line.reserved - 1 /\ l.purchased = line.purchased + 1
                ELSE l = line
  BY <1>1, <1>3, ConsumedLine DEF TypedRows
<1>9. /\ i \in ItemRows
      /\ IF via THEN i.reserved = item.reserved - 1 /\ i.available = item.available - 1
                ELSE i = item
  <2>1. CASE via
    <3>1. PICK n \in 0 .. Quantity, a \in 0 .. Quantity :
            n = item.reserved - 1 /\ a = item.available - 1
      BY <1>1, <1>3, <2>1, QuantityIsNat DEF TypedRows, ItemRows, Backed
    <3>2. i = [item EXCEPT !.reserved = n, !.available = a]
      BY <1>3, <2>1, <3>1
    <3> QED BY <1>1, <2>1, <3>1, <3>2 DEF TypedRows, ItemRows
  <2>2. CASE ~ via
    BY <1>1, <1>3, <2>2 DEF TypedRows
  <2> QED BY <2>1, <2>2
<1>10. reservation' \in [Reservations -> ReservationRows]
  BY <1>1, <1>3, SetReservationRows DEF TypedRows
<1>11. PICK to : to = req[r].to
  OBVIOUS
<1>12. dossier' \in [Dossiers -> DossierRows] /\ Archived'
  BY <1>3, <1>11, MovedDossier DEF Moving
<1>13. Backed'
  <2>1. o.available + l.purchased <= Quantity
    <3>1. /\ offer.available \in Int /\ line.purchased \in Int /\ q \in Nat
          /\ offer.available + line.purchased <= Quantity
      BY <1>1, <1>5, QuantityIsNat DEF TypedRows, OfferRows, LineRows, Backed
    <3>2. CASE via
      BY <1>6, <1>7, <1>8, <3>1, <3>2, QuantityIsNat
    <3>3. CASE ~ via
      BY <1>6, <1>7, <1>8, <3>1, <3>3, QuantityIsNat
    <3> QED BY <3>2, <3>3
  <2> QED BY <2>1, <1>2, <1>3 DEF Backed, Checked
<1>14. Rows'
  BY <1>2, <1>7, <1>8, <1>9, <1>10, <1>12, <1>13, RowsAfter
<1>15. offer.reserved \in Int
  BY <1>1 DEF TypedRows, OfferRows
<1>16. QED
  BY <1>2, <1>3, <1>4, <1>6, <1>7, <1>8, <1>9, <1>14, <1>15

(* A cancellation gives up the claims, a restoration takes them again.       *)
LEMMA CancelRows ==
  ASSUME IsFiniteSet(Reservations), Stocked, NEW r \in Requests, CommitCancel(r), NEW via, NEW ks,
         via <=> (req[r].viaItem /\ ~ dossier[req[r].d].bought), ks = req[r].ks
  PROVE  /\ Rows' /\ dossier' = Moved(req[r].d, "cancelled") /\ req[r].op = "cancel"
         /\ ks \in SUBSET Reservations /\ reservation' = SetReservations(ks, "released")
         /\ line'.purchased = line.purchased
         /\ IF via
            THEN /\ offer'.reserved = offer.reserved - 1 - (IF ks = {} THEN 0 ELSE Quantities(ks))
                 /\ line'.reserved = line.reserved - 1 /\ item'.reserved = item.reserved - 1
            ELSE /\ offer'.reserved = offer.reserved - (IF ks = {} THEN 0 ELSE Quantities(ks))
                 /\ line' = line /\ item' = item
<1>1. TypedRows /\ Rows /\ Backed
  BY TypedIsTypeOK DEF Stocked, Rows
<1>2. PICK o, l, i, q, settled :
        /\ o = offer' /\ l = line' /\ i = item' /\ q = Quantities(ks)
        /\ settled = IF via THEN ReleaseOffer(offer, 1) ELSE offer
  OBVIOUS
<1>3. /\ dossier' = Moved(req[r].d, "cancelled") /\ req[r].op = "cancel"
      /\ reservation' = SetReservations(ks, "released") /\ Checked
      /\ via => item.reserved > 0 /\ line.reserved > 0 /\ offer.reserved > 0
      /\ i = IF via THEN [item EXCEPT !.reserved = item.reserved - 1] ELSE item
      /\ l = IF via THEN ReleaseLine ELSE line
      /\ o = IF ks = {} THEN settled ELSE ReleaseOffer(settled, q)
  BY <1>2 DEF CommitCancel, Finish
<1>4. ks \in SUBSET Reservations
  BY <1>3 DEF Stocked, Named, Moving
<1>5. q \in Nat
  BY <1>2, <1>4, QuantitiesAreUnits, UnitsFinite
<1>6. /\ settled \in OfferRows
      /\ settled.reserved = offer.reserved - (IF via THEN 1 ELSE 0)
      /\ settled.available = offer.available
  <2>1. CASE via
    <3>1. /\ settled.reserved = offer.reserved - 1 /\ settled.available = offer.available
          /\ 0 <= settled.reserved => settled \in OfferRows
      BY <1>1, <1>2, <2>1, ReleasedOffer DEF TypedRows
    <3>2. 0 <= offer.reserved - 1
      BY <1>1, <1>3, <2>1, QuantityIsNat DEF TypedRows, OfferRows
    <3> QED BY <2>1, <3>1, <3>2
  <2>2. CASE ~ via
    BY <1>1, <1>2, <2>2, QuantityIsNat DEF TypedRows, OfferRows
  <2> QED BY <2>1, <2>2
<1>7. /\ o \in OfferRows /\ o.available = settled.available
      /\ o.reserved = settled.reserved - (IF ks = {} THEN 0 ELSE q)
  <2>1. CASE ks = {}
    BY <1>3, <1>6, <2>1, QuantityIsNat DEF OfferRows
  <2>2. CASE ks # {}
    <3>1. /\ o.reserved = settled.reserved - q /\ o.available = settled.available
          /\ 0 <= o.reserved => o \in OfferRows
      BY <1>3, <1>5, <1>6, <2>2, ReleasedOffer
    <3>2. 0 <= o.reserved
      BY <1>2, <1>3 DEF Checked
    <3> QED BY <2>2, <3>1, <3>2
  <2> QED BY <2>1, <2>2
<1>8. /\ l \in LineRows
      /\ IF via THEN l.reserved = line.reserved - 1 /\ l.purchased = line.purchased
                ELSE l = line
  BY <1>1, <1>3, ReleasedLine DEF TypedRows
<1>9. /\ i \in ItemRows
      /\ IF via THEN i.reserved = item.reserved - 1 ELSE i = item
  <2>1. CASE via
    <3>1. PICK n \in 0 .. Quantity : n = item.reserved - 1
      BY <1>1, <1>3, <2>1, QuantityIsNat DEF TypedRows, ItemRows
    <3>2. i = [item EXCEPT !.reserved = n]
      BY <1>3, <2>1, <3>1
    <3> QED BY <1>1, <2>1, <3>1, <3>2 DEF TypedRows, ItemRows
  <2>2. CASE ~ via
    BY <1>1, <1>3, <2>2 DEF TypedRows
  <2> QED BY <2>1, <2>2
<1>10. reservation' \in [Reservations -> ReservationRows]
  BY <1>1, <1>3, SetReservationRows DEF TypedRows
<1>11. dossier' \in [Dossiers -> DossierRows] /\ Archived'
  <2>1. PICK d : d = req[r].d
    OBVIOUS
  <2>2. d \in Dossiers /\ Exists(d) /\ "cancelled" \in AllStatuses
    BY <1>3, <2>1 DEF Stocked, Named, Moving, AllStatuses
  <2>3. PICK new : new = dossier' /\ new = Moved(d, "cancelled")
    BY <1>3, <2>1
  <2>4. /\ new \in [Dossiers -> DossierRows]
        /\ \A e \in Dossiers \ {d} : new[e] = dossier[e]
        /\ new[d].cancelledFrom = dossier[d].status
    BY <1>1, <2>2, <2>3, MovedRows DEF TypedRows, Rows
  <2>5. dossier[d].status # "none"
    BY <1>1, <2>2, MarksAreNoStatuses DEF TypedRows, DossierRows, Exists
  <2> QED BY <1>1, <2>2, <2>3, <2>4, <2>5 DEF Archived, Rows
<1>12. Backed'
  <2>1. o.available + l.purchased <= Quantity
    BY <1>1, <1>6, <1>7, <1>8 DEF Backed
  <2> QED BY <2>1, <1>2, <1>3 DEF Backed, Checked
<1>13. Rows'
  BY <1>2, <1>7, <1>8, <1>9, <1>10, <1>11, <1>12, RowsAfter
<1>14. offer.reserved \in Int
  BY <1>1 DEF TypedRows, OfferRows
<1>15. QED
  BY <1>2, <1>3, <1>4, <1>6, <1>7, <1>8, <1>9, <1>13, <1>14

LEMMA RestoredDossier ==
  ASSUME TypedRows, NEW d \in Dossiers, NEW to \in AllStatuses, NEW new,
         new = [dossier EXCEPT ![d].status = to, ![d].cancelledFrom = "none"]
  PROVE  /\ new \in [Dossiers -> DossierRows] /\ \A e \in Dossiers \ {d} : new[e] = dossier[e]
         /\ new[d].status = to /\ new[d].catalogue = dossier[d].catalogue
         /\ new[d].bought = dossier[d].bought
<1>1. PICK row \in DossierRows : row = dossier[d]
  BY DEF TypedRows
<1> DEFINE after == [row EXCEPT !.status = to, !.cancelledFrom = "none"]
<1>2. new = [dossier EXCEPT ![d] = after]
  BY <1>1
<1>3. /\ after \in DossierRows /\ after.status = to
      /\ after.catalogue = row.catalogue /\ after.bought = row.bought
  BY DEF DossierRows
<1> HIDE DEF after
<1>4. QED
  BY <1>1, <1>2, <1>3 DEF TypedRows

LEMMA RestoreRows ==
  ASSUME IsFiniteSet(Reservations), Stocked, NEW r \in Requests, CommitRestore(r), NEW claims, NEW ks,
         claims <=> dossier[req[r].d].catalogue, ks = req[r].ks
  PROVE  /\ Rows' /\ req[r].op = "restore"
         /\ dossier' = [dossier EXCEPT ![req[r].d].status = req[r].to,
                                       ![req[r].d].cancelledFrom = "none"]
         /\ ks \in SUBSET Reservations /\ reservation' = SetReservations(ks, "active")
         /\ line'.purchased = line.purchased
         /\ offer'.reserved = offer.reserved + Quantities(ks) + (IF claims THEN 1 ELSE 0)
         /\ line'.reserved = line.reserved + (IF claims THEN 1 ELSE 0)
         /\ item'.reserved = item.reserved + (IF claims THEN 1 ELSE 0)
<1>1. TypedRows /\ Rows /\ Backed /\ Archived
  BY TypedIsTypeOK DEF Stocked, Rows
<1>2. PICK o, l, i, q, d, to :
        /\ o = offer' /\ l = line' /\ i = item' /\ q = Quantities(ks)
        /\ d = req[r].d /\ to = req[r].to
  OBVIOUS
<1>3. /\ dossier' = [dossier EXCEPT ![d].status = to, ![d].cancelledFrom = "none"]
      /\ req[r].op = "restore"
      /\ reservation' = SetReservations(ks, "active") /\ Checked
      /\ claims => /\ item.reserved < item.available
                   /\ line.reserved + line.purchased < Quantity
      /\ i = IF claims THEN TakeOne(item) ELSE item
      /\ l = IF claims THEN TakeOne(line) ELSE line
      /\ o = [offer EXCEPT !.reserved = offer.reserved + q + (IF claims THEN 1 ELSE 0)]
  BY <1>2 DEF CommitRestore, CatalogueClaimable, Finish
<1>4. /\ ks \in SUBSET Reservations /\ d \in Dossiers /\ Exists(d)
      /\ to \in AllStatuses /\ to # "cancelled"
  BY <1>2, <1>3 DEF Stocked, Named, Moving
<1>5. q \in Nat
  BY <1>2, <1>4, QuantitiesAreUnits, UnitsFinite
<1>6. PICK n : n = offer.reserved + q + (IF claims THEN 1 ELSE 0)
  OBVIOUS
<1>7. o \in OfferRows /\ o.reserved = n /\ o.available = offer.available
  <2>1. o = [offer EXCEPT !.reserved = n]
    BY <1>3, <1>6
  <2>2. o.reserved = n /\ o.available = offer.available
    BY <1>1, <2>1 DEF TypedRows, OfferRows
  <2>3. n \in 0 .. Quantity
    BY <1>1, <1>2, <1>3, <1>5, <1>6, <2>2, QuantityIsNat DEF TypedRows, OfferRows, Checked
  <2> QED BY <1>1, <2>1, <2>2, <2>3 DEF TypedRows, OfferRows
<1>8. /\ l \in LineRows /\ l.purchased = line.purchased
      /\ l.reserved = line.reserved + (IF claims THEN 1 ELSE 0)
  <2>1. CASE claims
    BY <1>1, <1>3, <2>1, TakenLine DEF TypedRows
  <2>2. CASE ~ claims
    BY <1>1, <1>3, <2>2, QuantityIsNat DEF TypedRows, LineRows
  <2> QED BY <2>1, <2>2
<1>9. i \in ItemRows /\ i.reserved = item.reserved + (IF claims THEN 1 ELSE 0)
  <2>1. CASE claims
    BY <1>1, <1>3, <2>1, TakenItem DEF TypedRows
  <2>2. CASE ~ claims
    BY <1>1, <1>3, <2>2, QuantityIsNat DEF TypedRows, ItemRows
  <2> QED BY <2>1, <2>2
<1>10. reservation' \in [Reservations -> ReservationRows]
  BY <1>1, <1>3, SetReservationRows DEF TypedRows
<1>11. dossier' \in [Dossiers -> DossierRows] /\ Archived'
  <2>1. PICK new : new = dossier'
    OBVIOUS
  <2>2. /\ new \in [Dossiers -> DossierRows]
        /\ \A e \in Dossiers \ {d} : new[e] = dossier[e]
        /\ new[d].status = to
    BY <1>1, <1>3, <1>4, <2>1, RestoredDossier
  <2> QED BY <1>1, <1>4, <2>1, <2>2 DEF Archived
<1>12. Backed'
  <2>1. o.available + l.purchased <= Quantity
    BY <1>1, <1>7, <1>8 DEF Backed
  <2> QED BY <2>1, <1>2, <1>3 DEF Backed, Checked
<1>13. Rows'
  BY <1>2, <1>7, <1>8, <1>9, <1>10, <1>11, <1>12, RowsAfter
<1>14. QED
  BY <1>2, <1>3, <1>4, <1>6, <1>7, <1>8, <1>9, <1>13
-----------------------------------------------------------------------------
(* The steps, by what they do to the requests.                               *)
Reads(r) ==
  \/ \E k \in Reservations : ReadRelease(r, k)
  \/ ReadExpireReservations(r)
  \/ \E to \in OfferStatuses : ReadTransition(r, to)
  \/ ReadLoseOfferVehicle(r)
  \/ ReadArchive(r)
  \/ \E d \in Dossiers, to \in AllStatuses : ReadStatus(r, d, to)
  \/ \E d \in Dossiers : ReadRestore(r, d)

Answers(r) ==
  \/ CommitRelease(r) \/ CommitTransition(r) \/ CommitLoseOfferVehicle(r) \/ CommitArchive(r)
  \/ CommitReserving(r) \/ CommitPurchase(r) \/ CommitOtherStep(r) \/ CommitCancel(r)
  \/ CommitRestore(r) \/ Abort(r)

Served ==
  \/ \E k \in Reservations :
       \/ \E q \in 1 .. Quantity : reserve(k, q)
       \/ \E d \in Dossiers : assignToDossier(k, d)
       \/ materialize(k)
  \/ purchaseOfferVehicle
  \/ publish
  \/ \E d \in Dossiers :
       \/ createFromCatalogue(d)
       \/ createWithoutOffer(d)
       \/ \E k \in Reservations : createFromReservation(d, k)

LEMMA StepKinds == Next <=> Served \/ \E r \in Requests : Reads(r) \/ Answers(r)
BY DEF Next, Served, Reads, Answers

LEMMA ServedKeeps == Served => UNCHANGED req /\ \E r \in Requests : req[r] = Idle
BY DEF Served, reserve, assignToDossier, materialize, purchaseOfferVehicle, publish,
       createFromCatalogue, createWithoutOffer, createFromReservation, Serve

LEMMA ReadsStart ==
  ASSUME NEW r \in Requests, Reads(r)
  PROVE  /\ req[r] = Idle /\ UNCHANGED << offer, line, item, dossier, reservation >>
         /\ \E context : req' = [req EXCEPT ![r] = context]
BY DEF Reads, ReadRelease, ReadExpireReservations, ReadTransition, ReadLoseOfferVehicle,
       ReadArchive, ReadStatus, ReadRestore, Start

LEMMA AnswersEnd ==
  ASSUME NEW r \in Requests, Answers(r)
  PROVE  req' = [req EXCEPT ![r] = Idle]
BY DEF Answers, CommitRelease, CommitTransition, CommitLoseOfferVehicle, CommitArchive,
       CommitReserving, CommitPurchase, CommitOtherStep, CommitCancel, CommitRestore, Abort, Finish

LEMMA Reader ==
  ASSUME DOMAIN req = Requests, [Next]_vars, NEW q \in Requests, req'[q] # req[q]
  PROVE  req'[q] = Idle \/ Reads(q)
<1>1. ASSUME UNCHANGED req PROVE FALSE
  BY <1>1
<1>2. ASSUME NEW r \in Requests, Reads(r) PROVE Reads(q)
  <2>1. r = q
    BY <1>2, ReadsStart
  <2> QED BY <2>1, <1>2
<1>3. ASSUME NEW r \in Requests, Answers(r) PROVE req'[q] = Idle
  BY <1>3, AnswersEnd
<1>4. QED
  BY <1>1, <1>2, <1>3, StepKinds, ServedKeeps DEF vars

(* What a request has read.                                                  *)
Says(context) ==
  /\ context.op = "release" =>
       context.ks \subseteq ActiveReservations /\ context.to \in {"released", "expired"}
  /\ context.op = "transition" => context.to \in OfferStatuses
  /\ context.op \in {"advance", "cancel"} =>
       /\ context.d \in Dossiers /\ Exists(context.d)
       /\ Follows(dossier[context.d].status, context.to)
       /\ context.op = "cancel" <=> context.to = "cancelled"
       /\ context.viaItem <=> dossier[context.d].catalogue /\ item.reserved > 0
       /\ context.ks = ReservationsOf(context.d) \intersect ActiveReservations
  /\ context.op = "restore" =>
       /\ context.d \in Dossiers /\ dossier[context.d].status = "cancelled"
       /\ context.to = dossier[context.d].cancelledFrom
       /\ context.ks \subseteq {k \in Reservations : reservation[k].status = "released"}

Unlocked(context) == context.op \in {"advance", "cancel"} => ~ Locked(context.d)

LEMMA ReadsSay ==
  ASSUME DOMAIN req = Requests, NEW r \in Requests, Reads(r)
  PROVE  \E context : /\ req' = [req EXCEPT ![r] = context] /\ req'[r] = context
                      /\ Says(context) /\ Unlocked(context)
<1> DEFINE P == \E context : /\ req' = [req EXCEPT ![r] = context] /\ req'[r] = context
                             /\ Says(context) /\ Unlocked(context)
<1>1. ASSUME NEW context, Start(r, context), Says(context), Unlocked(context) PROVE P
  BY <1>1 DEF Start
<1>2. ASSUME NEW k \in Reservations, ReadRelease(r, k) PROVE P
  <2> DEFINE context == [op |-> "release", ks |-> {k}, to |-> "released"]
  <2>1. Says(context) /\ Unlocked(context)
    BY <1>2 DEF Says, Unlocked, ReadRelease, ActiveReservations
  <2> QED BY <2>1, <1>1, <1>2 DEF ReadRelease
<1>3. ASSUME ReadExpireReservations(r) PROVE P
  <2>1. PICK due : /\ due \in SUBSET ActiveReservations \ {{}}
                   /\ Start(r, [op |-> "release", ks |-> due, to |-> "expired"])
    BY <1>3 DEF ReadExpireReservations
  <2> DEFINE context == [op |-> "release", ks |-> due, to |-> "expired"]
  <2>2. Says(context) /\ Unlocked(context)
    BY <2>1 DEF Says, Unlocked
  <2> QED BY <2>1, <2>2, <1>1
<1>4. ASSUME NEW to \in OfferStatuses, ReadTransition(r, to) PROVE P
  <2> DEFINE context == [op |-> "transition", to |-> to]
  <2>1. Says(context) /\ Unlocked(context)
    BY DEF Says, Unlocked
  <2> QED BY <2>1, <1>1, <1>4 DEF ReadTransition
<1>5. ASSUME ReadLoseOfferVehicle(r) PROVE P
  <2> DEFINE context == [op |-> "loseOfferVehicle"]
  <2>1. Says(context) /\ Unlocked(context)
    BY DEF Says, Unlocked
  <2> QED BY <2>1, <1>1, <1>5 DEF ReadLoseOfferVehicle
<1>6. ASSUME ReadArchive(r) PROVE P
  <2> DEFINE context == [op |-> "archive"]
  <2>1. Says(context) /\ Unlocked(context)
    BY DEF Says, Unlocked
  <2> QED BY <2>1, <1>1, <1>6 DEF ReadArchive
<1>7. ASSUME NEW d \in Dossiers, NEW to \in AllStatuses, ReadStatus(r, d, to) PROVE P
  <2>1. PICK op, via, ks, marks, ls, os :
          /\ op = (IF to = "cancelled" THEN "cancel" ELSE "advance")
          /\ via = (dossier[d].catalogue /\ item.reserved > 0)
          /\ ks = ReservationsOf(d) \intersect ActiveReservations
          /\ marks = (line.reserved > 0) /\ ls = line.status /\ os = offer.status
    OBVIOUS
  <2> DEFINE context == [op |-> op, d |-> d, to |-> to, viaItem |-> via, ks |-> ks,
                         marks |-> marks, lineStatus |-> ls, offerStatus |-> os]
  <2>2. Start(r, context) /\ Exists(d) /\ ~ Locked(d) /\ Follows(dossier[d].status, to)
    BY <1>7, <2>1 DEF ReadStatus
  <2>3. Says(context) /\ Unlocked(context)
    <3>1. /\ context.op = op /\ context.d = d /\ context.to = to
          /\ context.viaItem = via /\ context.ks = ks
      OBVIOUS
    <3>2. op # "release" /\ op # "transition" /\ op # "restore" /\ (op = "cancel" <=> to = "cancelled")
      BY <2>1
    <3> HIDE DEF context
    <3>3. context.viaItem <=> dossier[context.d].catalogue /\ item.reserved > 0
      BY <2>1, <3>1
    <3> QED BY <2>1, <2>2, <3>1, <3>2, <3>3 DEF Says, Unlocked
  <2> QED BY <2>2, <2>3, <1>1
<1>8. ASSUME NEW d \in Dossiers, ReadRestore(r, d) PROVE P
  <2>1. PICK ks, to : ks = ReservationsOf(d) \ ActiveReservations /\ to = dossier[d].cancelledFrom
    OBVIOUS
  <2> DEFINE context == [op |-> "restore", d |-> d, to |-> to, ks |-> ks]
  <2>2. Start(r, context) /\ dossier[d].status = "cancelled"
    BY <1>8, <2>1 DEF ReadRestore
  <2>3. ks \subseteq {k \in Reservations : reservation[k].status = "released"}
    BY <1>8, <2>1 DEF ReadRestore, ReservationsOf, ActiveReservations
  <2>4. Says(context) /\ Unlocked(context)
    BY <2>1, <2>2, <2>3 DEF Says, Unlocked
  <2> QED BY <2>2, <2>4, <1>1
<1>9. QED
  BY <1>2, <1>3, <1>4, <1>5, <1>6, <1>7, <1>8 DEF Reads

LEMMA SaysNames ==
  ASSUME Stocked, NEW context, Says(context)
  PROVE  Named(context)
<1>1. ActiveReservations \subseteq Reservations
  BY DEF ActiveReservations
<1>2. ASSUME NEW d \in Dossiers, dossier[d].status = "cancelled"
      PROVE  /\ Exists(d) /\ dossier[d].cancelledFrom \in AllStatuses
             /\ dossier[d].cancelledFrom # "cancelled"
  BY <1>2, TypedIsTypeOK DEF Stocked, Rows, TypedRows, DossierRows, Archived, Locks, Exists
<1>3. QED
  BY <1>1, <1>2, FollowsSteps DEF Says, Named, Moving

(* The dossier a step moves: a new one, one that is not locked, or the one   *)
(* that its own transition holds.                                            *)
Moves(d) ==
  /\ \A e \in Dossiers \ {d} : dossier'[e] = dossier[e]
  /\ dossier'[d].status \in AllStatuses
  /\ \/ /\ dossier[d].status = "absent" \/ ~ Locked(d)
        /\ dossier'[d].cancelledFrom \in {dossier[d].cancelledFrom, "none"}
     \/ /\ \E r \in Requests : Holding(r) /\ req[r].d = d /\ req'[r] = Idle
        /\ dossier'[d].cancelledFrom \in {dossier[d].cancelledFrom, dossier[d].status}

LEMMA CreateMoves ==
  ASSUME Rows, NEW d \in Dossiers, NEW catalogue \in BOOLEAN, dossier[d] = Absent,
         dossier' = [dossier EXCEPT ![d] = NewDossier(catalogue)]
  PROVE  Moves(d)
<1>1. PICK row : row = NewDossier(catalogue)
  OBVIOUS
<1>2. row.status \in AllStatuses /\ row.cancelledFrom = "none"
  BY <1>1, NewDossierRow, FirstStep
<1>3. dossier' = [dossier EXCEPT ![d] = row] /\ dossier \in [Dossiers -> DossierRows]
  BY <1>1, TypedIsTypeOK DEF Rows, TypedRows
<1>4. dossier[d].status = "absent"
  BY DEF Absent
<1>5. QED
  BY <1>2, <1>3, <1>4 DEF Moves

LEMMA TransitionMoves ==
  ASSUME Stocked, NEW r \in Requests, Holding(r), req'[r] = Idle, NEW to \in AllStatuses,
         dossier' = Moved(req[r].d, to)
  PROVE  req[r].d \in Dossiers /\ Moves(req[r].d)
<1>1. PICK d : d = req[r].d
  OBVIOUS
<1>2. d \in Dossiers /\ Exists(d) /\ TypedRows /\ Archived
  BY <1>1, TypedIsTypeOK DEF Stocked, Rows, Named, Moving, Holding
<1>3. PICK new : new = dossier' /\ new = Moved(d, to)
  BY <1>1
<1>4. /\ \A e \in Dossiers \ {d} : new[e] = dossier[e]
      /\ new[d].status = to
      /\ new[d].cancelledFrom \in {dossier[d].cancelledFrom, dossier[d].status}
  BY <1>2, <1>3, MovedRows DEF TypedRows
<1>5. QED
  BY <1>1, <1>2, <1>3, <1>4 DEF Moves

LEMMA DossierStep ==
  ASSUME IsFiniteSet(Reservations), Stocked, [Next]_vars
  PROVE  Rows' /\ (dossier' = dossier \/ \E d \in Dossiers : Moves(d))
<1> DEFINE P == Rows' /\ (dossier' = dossier \/ \E d \in Dossiers : Moves(d))
<1>0. Rows /\ TypedRows /\ DOMAIN req = Requests
  BY TypedIsTypeOK DEF Stocked, Rows
<1>1. CASE UNCHANGED << offer, line, item, dossier, reservation >>
  BY <1>0, <1>1 DEF Rows, TypeOK, Backed, Archived
<1>2. ASSUME NEW k \in Reservations, NEW q \in 1 .. Quantity, reserve(k, q) PROVE P
  BY <1>0, <1>2, ReserveRows DEF reserve
<1>3. ASSUME NEW k \in Reservations, NEW d \in Dossiers, assignToDossier(k, d) PROVE P
  BY <1>0, <1>3, AssignRows DEF assignToDossier
<1>4. ASSUME NEW k \in Reservations, materialize(k) PROVE P
  <2>1. PICK d : d = reservation[k].dossier
    OBVIOUS
  <2>2. CASE d = NoDossier
    BY <1>0, <1>4, <2>1, <2>2, MaterializeRows DEF materialize
  <2>3. CASE d # NoDossier
    <3>1. d \in Dossiers
      BY <1>0, <2>1, <2>3 DEF TypedRows, ReservationRows
    <3>2. PICK after : after = dossier'
      OBVIOUS
    <3>3. /\ after = [dossier EXCEPT ![d].status = "purchaseConfirmed",
                                     ![d].bought = dossier[d].catalogue]
          /\ Follows(dossier[d].status, "purchaseConfirmed") /\ ~ Locked(d)
      BY <1>4, <2>1, <2>3, <3>2 DEF materialize
    <3>4. "purchaseConfirmed" \in AllStatuses
      BY <3>3, FollowsSteps
    <3>5. /\ \A e \in Dossiers \ {d} : after[e] = dossier[e]
          /\ after[d].status = "purchaseConfirmed"
          /\ after[d].cancelledFrom = dossier[d].cancelledFrom
      BY <1>0, <3>1, <3>3, <3>4, MaterializedDossier
    <3>6. Moves(d)
      BY <3>2, <3>3, <3>4, <3>5 DEF Moves
    <3> QED BY <1>0, <1>4, <3>1, <3>6, MaterializeRows
  <2> QED BY <2>2, <2>3
<1>5. ASSUME purchaseOfferVehicle \/ publish PROVE P
  BY <1>0, <1>5, PurchaseOfferVehicleRows, PublishRows DEF purchaseOfferVehicle, publish
<1>6. ASSUME NEW d \in Dossiers, createFromCatalogue(d) PROVE P
  BY <1>0, <1>6, CreateFromCatalogueRows, CreateMoves DEF createFromCatalogue
<1>7. ASSUME NEW d \in Dossiers,
             createWithoutOffer(d) \/ \E k \in Reservations : createFromReservation(d, k)
      PROVE  P
  <2>1. dossier[d] = Absent
    BY <1>7 DEF createWithoutOffer, createFromReservation
  <2> QED BY <1>0, <1>7, <2>1, CreateRows, CreateMoves
<1>8. CASE Served
  BY <1>8, <1>2, <1>3, <1>4, <1>5, <1>6, <1>7 DEF Served
<1>9. ASSUME NEW r \in Requests, Reads(r) PROVE P
  BY <1>1, <1>9, ReadsStart
<1>10. ASSUME NEW r \in Requests, Answers(r) PROVE P
  <2>1. req'[r] = Idle
    BY <1>0, <1>10, AnswersEnd
  <2>2. PICK to : to = req[r].to
    OBVIOUS
  <2>3. CASE CommitRelease(r)
    BY <2>3, ReleaseRows DEF CommitRelease
  <2>4. CASE CommitTransition(r) \/ CommitLoseOfferVehicle(r) \/ CommitArchive(r)
    BY <2>4, TransitionRows, LoseRows, ArchiveRows
  <2>5. CASE CommitReserving(r) \/ CommitPurchase(r) \/ CommitOtherStep(r)
    <3>1. PICK via, ks : (via <=> req[r].viaItem) /\ ks = req[r].ks
      OBVIOUS
    <3>2. Rows' /\ dossier' = Moved(req[r].d, to) /\ req[r].op = "advance"
      BY <2>2, <2>5, <3>1, ReservingRows, PurchaseRows, OtherStepRows
    <3>3. to \in AllStatuses
      BY <2>2, <3>2 DEF Stocked, Named, Moving
    <3> QED BY <2>1, <3>2, <3>3, TransitionMoves DEF Holding
  <2>6. CASE CommitCancel(r)
    <3>1. PICK via, ks : (via <=> req[r].viaItem /\ ~ dossier[req[r].d].bought) /\ ks = req[r].ks
      OBVIOUS
    <3>2. Rows' /\ dossier' = Moved(req[r].d, "cancelled") /\ req[r].op = "cancel"
      BY <2>6, <3>1, CancelRows
    <3>3. "cancelled" \in AllStatuses
      BY DEF AllStatuses
    <3> QED BY <2>1, <3>2, <3>3, TransitionMoves DEF Holding
  <2>7. CASE CommitRestore(r)
    <3>1. PICK claims, ks, d : /\ claims <=> dossier[req[r].d].catalogue
                               /\ ks = req[r].ks /\ d = req[r].d
      OBVIOUS
    <3>2. /\ Rows' /\ req[r].op = "restore" /\ ~ Locked(d)
          /\ dossier' = [dossier EXCEPT ![d].status = to, ![d].cancelledFrom = "none"]
      BY <2>2, <2>7, <3>1, RestoreRows DEF CommitRestore
    <3>3. d \in Dossiers /\ to \in AllStatuses
      BY <2>2, <3>1, <3>2 DEF Stocked, Named, Moving
    <3>4. PICK row, after : /\ row \in DossierRows /\ row = dossier[d]
            /\ after = [row EXCEPT !.status = to, !.cancelledFrom = "none"]
      BY <1>0, <3>3 DEF TypedRows
    <3>5. after.status = to /\ after.cancelledFrom = "none"
      BY <3>4 DEF DossierRows
    <3>6. dossier' = [dossier EXCEPT ![d] = after]
      BY <3>2, <3>4
    <3>7. Moves(d)
      BY <1>0, <3>2, <3>3, <3>5, <3>6 DEF Moves, TypedRows
    <3> QED BY <3>2, <3>3, <3>7
  <2>8. CASE Abort(r)
    BY <1>1, <2>8 DEF Abort
  <2> QED BY <1>10, <2>3, <2>4, <2>5, <2>6, <2>7, <2>8 DEF Answers
<1>11. QED
  BY <1>1, <1>8, <1>9, <1>10, StepKinds DEF vars

(* The other requests keep their hold on their dossiers.                     *)
LEMMA StepStocked ==
  ASSUME IsFiniteSet(Reservations), Stocked, [Next]_vars
  PROVE  Stocked'
<1>0. DOMAIN req = Requests /\ TypedRows
  BY TypedIsTypeOK DEF Stocked, Rows
<1>1. Rows' /\ (dossier' = dossier \/ \E d \in Dossiers : Moves(d))
  BY DossierStep
<1>2. DOMAIN req' = Requests
  <2>1. CASE UNCHANGED req
    BY <1>0, <2>1
  <2>2. ASSUME NEW r \in Requests, Reads(r) \/ Answers(r) PROVE DOMAIN req' = Requests
    BY <1>0, <2>2, ReadsStart, AnswersEnd
  <2> QED BY <2>1, <2>2, StepKinds, ServedKeeps DEF vars
<1>3. \A d \in Dossiers : Exists(d) => Exists(d)'
  BY <1>1, MarksAreNoStatuses DEF Moves, Exists
<1>4. ASSUME NEW context, Named(context) PROVE Named(context)'
  BY <1>3, <1>4 DEF Named
<1>5. ASSUME NEW q \in Requests PROVE Named(req[q])'
  <2>1. PICK context : context = req'[q]
    OBVIOUS
  <2>2. CASE context = req[q]
    <3>1. Named(context)'
      BY <1>4, <2>2 DEF Stocked
    <3> QED BY <2>1, <3>1 DEF Named
  <2>3. CASE context = Idle
    BY <2>1, <2>3 DEF Named, Idle, Moving
  <2>4. CASE context # req[q] /\ context # Idle
    <3>1. Reads(q)
      BY <1>0, <2>1, <2>4, Reader
    <3>2. Named(context)
      BY <1>0, <2>1, <3>1, ReadsSay, SaysNames
    <3>3. Named(context)'
      BY <1>4, <3>2
    <3> QED BY <2>1, <3>3 DEF Named
  <2> QED BY <2>2, <2>3, <2>4
<1>6. ASSUME NEW q \in Requests, Holding(q), Holding(q)', req'[q] = req[q]
      PROVE  dossier'[req[q].d] = dossier[req[q].d]
  <2>1. PICK d : d = req[q].d
    OBVIOUS
  <2>2. d \in Dossiers /\ Exists(d) /\ Locked(d)
    BY <1>6, <2>1 DEF Stocked, Named, Moving, Holding, Locked
  <2>3. ~ Moves(d)
    <3>1. ASSUME NEW r \in Requests, Holding(r), req[r].d = d, req'[r] = Idle PROVE FALSE
      <4>1. r = q
        BY <1>6, <2>1, <3>1 DEF Stocked, Locks
      <4> QED BY <3>1, <4>1, <1>6 DEF Holding, Idle
    <3> QED BY <2>2, <3>1 DEF Moves, Exists
  <2> QED BY <2>1, <2>2, <2>3, <1>1 DEF Moves
<1>7. ASSUME NEW q \in Requests, Holding(q)', req'[q] # req[q]
      PROVE  /\ dossier'[req'[q].d].status \notin TERMINAL_STATUSES
             /\ \A r \in Requests \ {q} : req'[r] = req[r]
             /\ ~ Locked(req'[q].d)
  <2>1. Reads(q)
    BY <1>0, <1>7, Reader DEF Holding, Idle
  <2>2. PICK context : /\ req' = [req EXCEPT ![q] = context] /\ req'[q] = context
                       /\ Says(context) /\ Unlocked(context)
    BY <1>0, <2>1, ReadsSay
  <2>3. dossier' = dossier
    BY <2>1, ReadsStart
  <2> QED BY <1>0, <1>7, <2>2, <2>3 DEF Holding, Says, Unlocked, Follows
<1>8. ASSUME NEW q \in Requests, Holding(q)'
      PROVE  dossier'[req'[q].d].status \notin TERMINAL_STATUSES
  <2>1. CASE req'[q] = req[q]
    BY <1>6, <1>8, <2>1 DEF Stocked, Locks, Holding
  <2> QED BY <1>7, <1>8, <2>1
<1>9. ASSUME NEW r \in Requests, NEW q \in Requests, Holding(r)', Holding(q)',
             req'[r].d = req'[q].d
      PROVE  r = q
  <2>1. ASSUME NEW t \in Requests, Holding(t)', req'[t] # req[t], NEW u \in Requests,
               u # t, Holding(u)', req'[u].d = req'[t].d
        PROVE  FALSE
    <3>1. req'[u] = req[u] /\ ~ Locked(req'[t].d)
      BY <1>7, <2>1
    <3> QED BY <2>1, <3>1 DEF Holding, Locked
  <2>2. CASE req'[r] = req[r] /\ req'[q] = req[q]
    BY <1>9, <2>2 DEF Stocked, Locks, Holding
  <2> QED BY <1>9, <2>1, <2>2
<1>10. ASSUME NEW e \in Dossiers PROVE dossier'[e].cancelledFrom # "cancelled"
  <2>1. dossier[e].cancelledFrom # "cancelled"
    BY DEF Stocked, Locks
  <2>2. ASSUME NEW d \in Dossiers, Moves(d) PROVE dossier'[e].cancelledFrom # "cancelled"
    <3>1. CASE e # d
      BY <2>1, <2>2, <3>1 DEF Moves
    <3>2. CASE e = d
      <4>1. ASSUME NEW r \in Requests, Holding(r), req[r].d = d
            PROVE  dossier[d].status # "cancelled"
        BY <4>1 DEF Stocked, Locks, TERMINAL_STATUSES
      <4> QED BY <2>1, <2>2, <3>2, <4>1 DEF Moves
    <3> QED BY <3>1, <3>2
  <2> QED BY <1>1, <2>1, <2>2
<1>11. Locks'
  BY <1>8, <1>9, <1>10 DEF Locks
<1>12. QED
  BY <1>1, <1>2, <1>5, <1>11 DEF Stocked

LEMMA InitStocked == Init => Stocked
<1> SUFFICES ASSUME Init PROVE Stocked
  OBVIOUS
<1>1. /\ offer = [status |-> "RECEIVED", available |-> Quantity, reserved |-> 0, archived |-> FALSE]
      /\ line = [status |-> "RECEIVED", reserved |-> 0, purchased |-> 0]
      /\ item = [published |-> FALSE, archived |-> FALSE, available |-> 0, reserved |-> 0]
  BY DEF Init
<1>2. offer \in OfferRows /\ line \in LineRows /\ item \in ItemRows
  BY <1>1, QuantityIsNat, StatusWrites DEF OfferRows, LineRows, ItemRows
<1>3. Backed
  BY <1>1, QuantityIsNat DEF Backed
<1>4. reservation \in [Reservations -> ReservationRows]
  <2>1. Unused \in ReservationRows
    BY QuantityIsNat DEF Unused, ReservationRows
  <2> QED BY <2>1 DEF Init
<1>5. dossier \in [Dossiers -> DossierRows] /\ Archived
      /\ \A d \in Dossiers : dossier[d].cancelledFrom # "cancelled"
  <2>1. Absent.status = "absent"
    BY DEF Absent
  <2> QED BY <2>1, AbsentRow DEF Init, Archived
<1>6. Rows
  BY <1>2, <1>3, <1>4, <1>5, TypedIsTypeOK DEF Rows, TypedRows
<1>7. DOMAIN req = Requests /\ \A r \in Requests : req[r] = Idle
  BY DEF Init
<1>8. (\A r \in Requests : Named(req[r])) /\ Locks
  BY <1>5, <1>7 DEF Named, Idle, Moving, Locks, Holding
<1>9. QED
  BY <1>6, <1>7, <1>8 DEF Stocked

(* The rows, what the requests have read and whom they lock, in every        *)
(* behaviour and with any number of requests.                                *)
THEOREM AlwaysStocked ==
  ASSUME IsFiniteSet(Reservations)
  PROVE  Spec => []Stocked
  <1>1. Stocked /\ [Next]_vars => Stocked'
    BY StepStocked
  <1> QED BY <1>1, InitStocked, PTL DEF Spec

(* The rows keep their types, and the counters of the offer, its line and    *)
(* its item their bounds, however many requests interleave: the conditions   *)
(* repeated in the writes keep every counter within its stock, whatever the  *)
(* request had read.                                                         *)
THEOREM Typing ==
  ASSUME IsFiniteSet(Reservations)
  PROVE  Spec => [](TypeOK /\ Backed)
  <1>1. Stocked => TypeOK /\ Backed
    BY DEF Stocked, Rows
  <1> QED BY <1>1, AlwaysStocked, PTL
-----------------------------------------------------------------------------
(* Units of reservations: they add up, one reservation after another.        *)
LEMMA UnitsOfOne ==
  ASSUME NEW k, NEW rows, rows[k].quantity \in 0 .. Quantity
  PROVE  Cardinality(UnitsIn({k}, rows)) = rows[k].quantity
<1>1. PICK q \in 0 .. Quantity : q = rows[k].quantity
  OBVIOUS
<1>2. UnitsIn({k}, rows) = {k} \X (1 .. q)
  BY <1>1, QuantityIsNat DEF UnitsIn
<1>3. IsFiniteSet({k}) /\ Cardinality({k}) = 1
  BY FS_Singleton
<1>4. IsFiniteSet(1 .. q) /\ Cardinality(1 .. q) = q
  <2>1. q \in Nat /\ q \in Int /\ 1 \in Int
    BY QuantityIsNat
  <2>2. IsFiniteSet(1 .. q) /\ Cardinality(1 .. q) = IF 1 > q THEN 0 ELSE q - 1 + 1
    BY <2>1, FS_Interval
  <2> QED BY <2>1, <2>2
<1>5. Cardinality({k} \X (1 .. q)) = Cardinality({k}) * Cardinality(1 .. q)
  BY <1>3, <1>4, FS_Product
<1>6. PICK n : n = Cardinality({k} \X (1 .. q))
  OBVIOUS
<1>7. n = 1 * q
  BY <1>3, <1>4, <1>5, <1>6
<1>8. n = q
  BY <1>7, QuantityIsNat
<1>9. QED
  BY <1>1, <1>2, <1>6, <1>8

LEMMA UnitsAddUp ==
  ASSUME IsFiniteSet(Reservations), NEW S \in SUBSET Reservations, NEW T \in SUBSET Reservations,
         S \intersect T = {}, NEW rows
  PROVE  Cardinality(UnitsIn(S \union T, rows)) =
           Cardinality(UnitsIn(S, rows)) + Cardinality(UnitsIn(T, rows))
<1>1. UnitsIn(S \union T, rows) = UnitsIn(S, rows) \union UnitsIn(T, rows)
  BY DEF UnitsIn
<1>2. UnitsIn(S, rows) \intersect UnitsIn(T, rows) = {}
  BY DEF UnitsIn
<1>3. /\ IsFiniteSet(UnitsIn(S, rows)) /\ IsFiniteSet(UnitsIn(T, rows))
      /\ Cardinality(UnitsIn(S, rows)) \in Nat /\ Cardinality(UnitsIn(T, rows)) \in Nat
  BY UnitsFinite
<1>4. PICK U, V : U = UnitsIn(S, rows) /\ V = UnitsIn(T, rows)
  OBVIOUS
<1>5. IsFiniteSet(U) /\ IsFiniteSet(V) /\ U \intersect V = {}
  BY <1>2, <1>3, <1>4
<1>6. Cardinality(U \union V) = Cardinality(U) + Cardinality(V) - Cardinality(U \intersect V)
  BY <1>5, FS_Union
<1>7. PICK m, n : m = Cardinality(U) /\ n = Cardinality(V)
  OBVIOUS
<1>8. Cardinality(U \intersect V) = 0
  BY <1>5, FS_EmptySet
<1>9. m \in Nat /\ n \in Nat
  BY <1>3, <1>4, <1>7
<1>10. Cardinality(U \union V) = m + n - 0
  BY <1>6, <1>7, <1>8
<1>11. Cardinality(U \union V) = m + n
  BY <1>9, <1>10
<1>12. QED
  BY <1>1, <1>4, <1>7, <1>11

LEMMA UnitsAlike ==
  ASSUME NEW S, NEW rows, NEW new, \A k \in S : new[k].quantity = rows[k].quantity
  PROVE  UnitsIn(S, new) = UnitsIn(S, rows)
BY DEF UnitsIn

(* What is promised by active reservations.                                  *)
ActiveIn(rows) == {k \in Reservations : rows[k].status = "active"}
Promised(rows) == Cardinality(UnitsIn(ActiveIn(rows), rows))

LEMMA PromisedIsNat ==
  ASSUME IsFiniteSet(Reservations), NEW rows
  PROVE  Promised(rows) \in Nat
<1>1. ActiveIn(rows) \in SUBSET Reservations
  BY DEF ActiveIn
<1>2. QED
  BY <1>1, UnitsFinite DEF Promised

LEMMA ClaimsArePromised ==
  /\ Claims = Promised(reservation) + Cardinality(Holders)
  /\ Claims' = Promised(reservation') + Cardinality(Holders')
BY DEF Claims, Promised, Quantities, UnitsIn, ActiveIn, ActiveReservations

(* Giving up some of them, taking some more.                                 *)
LEMMA GivesUp ==
  ASSUME IsFiniteSet(Reservations), reservation \in [Reservations -> ReservationRows],
         NEW ks \in SUBSET ActiveReservations,
         NEW status \in {"released", "expired", "consumed"}, NEW new,
         new = SetReservations(ks, status)
  PROVE  Promised(new) = Promised(reservation) - Quantities(ks) /\ Quantities(ks) \in Nat
<1>1. ks \in SUBSET Reservations /\ ks \subseteq ActiveIn(reservation)
  BY DEF ActiveReservations, ActiveIn
<1>2. \A k \in Reservations : /\ new[k].quantity = reservation[k].quantity
                              /\ new[k].status = IF k \in ks THEN status ELSE reservation[k].status
  BY SetReservationRows
<1>3. ActiveIn(new) = ActiveIn(reservation) \ ks
  BY <1>1, <1>2 DEF ActiveIn
<1>4. PICK rest : rest = ActiveIn(reservation) \ ks
  OBVIOUS
<1>5. /\ rest \in SUBSET Reservations /\ rest \intersect ks = {}
      /\ rest \union ks = ActiveIn(reservation)
  BY <1>1, <1>4 DEF ActiveIn
<1>6. Cardinality(UnitsIn(rest \union ks, reservation)) =
        Cardinality(UnitsIn(rest, reservation)) + Cardinality(UnitsIn(ks, reservation))
  BY <1>1, <1>5, UnitsAddUp
<1>7. UnitsIn(rest, new) = UnitsIn(rest, reservation)
  BY <1>2, <1>5, UnitsAlike
<1>8. /\ Cardinality(UnitsIn(rest, reservation)) \in Nat
      /\ Cardinality(UnitsIn(ks, reservation)) \in Nat
  BY <1>1, <1>5, UnitsFinite
<1>9. QED
  BY <1>3, <1>4, <1>5, <1>6, <1>7, <1>8, QuantitiesAreUnits DEF Promised

LEMMA TakesMore ==
  ASSUME IsFiniteSet(Reservations), NEW new, NEW ks \in SUBSET Reservations,
         ks \intersect ActiveReservations = {},
         \A k \in Reservations : new[k].status = IF k \in ks THEN "active" ELSE reservation[k].status,
         \A k \in Reservations \ ks : new[k].quantity = reservation[k].quantity
  PROVE  Promised(new) = Promised(reservation) + Cardinality(UnitsIn(ks, new))
<1>1. PICK old : old = ActiveIn(reservation)
  OBVIOUS
<1>2. /\ old \in SUBSET Reservations /\ old \intersect ks = {} /\ ActiveIn(new) = old \union ks
  BY <1>1 DEF ActiveIn, ActiveReservations
<1>3. Cardinality(UnitsIn(old \union ks, new)) =
        Cardinality(UnitsIn(old, new)) + Cardinality(UnitsIn(ks, new))
  BY <1>2, UnitsAddUp
<1>4. UnitsIn(old, new) = UnitsIn(old, reservation)
  BY <1>2, UnitsAlike
<1>5. QED
  BY <1>1, <1>2, <1>3, <1>4 DEF Promised

(* The holders of a unit of the catalogue.                                   *)
HoldsIn(row) == row.catalogue /\ ~ row.bought /\ row.status \notin TERMINAL_STATUSES
HoldersIn(rows) == {d \in Dossiers : HoldsIn(rows[d])}

LEMMA HoldersAre ==
  /\ Holders = HoldersIn(dossier) /\ Holders' = HoldersIn(dossier')
BY DEF Holders, Holds, HoldersIn, HoldsIn

LEMMA FewerHolders ==
  ASSUME IsFiniteSet(Dossiers), NEW rows, NEW new, NEW d,
         \A e \in Dossiers \ {d} : new[e] = rows[e]
  PROVE  /\ Cardinality(HoldersIn(rows)) \in Nat /\ Cardinality(HoldersIn(new)) \in Nat
         /\ Cardinality(HoldersIn(new)) <= Cardinality(HoldersIn(rows)) + 1
         /\ (HoldsIn(new[d]) => HoldsIn(rows[d])) =>
              Cardinality(HoldersIn(new)) <= Cardinality(HoldersIn(rows))
         /\ d \in Dossiers /\ HoldsIn(rows[d]) /\ ~ HoldsIn(new[d]) =>
              Cardinality(HoldersIn(new)) <= Cardinality(HoldersIn(rows)) - 1
<1>1. PICK H, N : H = HoldersIn(rows) /\ N = HoldersIn(new)
  OBVIOUS
<1>2. /\ H \in SUBSET Dossiers /\ N \in SUBSET Dossiers
      /\ IsFiniteSet(H) /\ IsFiniteSet(N)
  BY <1>1, FS_Subset DEF HoldersIn
<1>3. Cardinality(H) \in Nat /\ Cardinality(N) \in Nat
  BY <1>2, FS_CardinalityType
<1>4. Cardinality(N) <= Cardinality(H) + 1
  <2>1. N \in SUBSET (H \union {d})
    BY <1>1 DEF HoldersIn
  <2>2. /\ IsFiniteSet(H \union {d})
        /\ Cardinality(H \union {d}) = IF d \in H THEN Cardinality(H) ELSE Cardinality(H) + 1
    BY <1>2, FS_AddElement
  <2>3. Cardinality(N) <= Cardinality(H \union {d})
    BY <2>1, <2>2, FS_Subset
  <2> QED BY <2>2, <2>3, <1>3
<1>5. ASSUME HoldsIn(new[d]) => HoldsIn(rows[d])
      PROVE  Cardinality(N) <= Cardinality(H)
  <2>1. N \in SUBSET H
    BY <1>1, <1>5 DEF HoldersIn
  <2> QED BY <2>1, <1>2, FS_Subset
<1>6. ASSUME d \in Dossiers, HoldsIn(rows[d]), ~ HoldsIn(new[d])
      PROVE  Cardinality(N) <= Cardinality(H) - 1
  <2>1. N \in SUBSET (H \ {d}) /\ d \in H
    BY <1>1, <1>6 DEF HoldersIn
  <2>2. IsFiniteSet(H \ {d}) /\ Cardinality(H \ {d}) = Cardinality(H) - 1
    BY <2>1, <1>2, FS_RemoveElement
  <2> QED BY <2>1, <2>2, FS_Subset
<1>7. QED
  BY <1>1, <1>3, <1>4, <1>5, <1>6
-----------------------------------------------------------------------------
(* One request at a time: what it has read is still so when it writes.       *)
OneAtATime == \A r, s \in Requests : r = s

InTurn == \A r \in Requests : Says(req[r])

LEMMA Lone ==
  ASSUME OneAtATime, DOMAIN req = Requests, [Next]_vars,
         NEW q \in Requests, req[q] # Idle, req'[q] = req[q]
  PROVE  UNCHANGED vars
<1>1. ~ Served
  BY ServedKeeps DEF OneAtATime
<1>2. ASSUME NEW r \in Requests, Reads(r) PROVE FALSE
  BY <1>2, ReadsStart DEF OneAtATime
<1>3. ASSUME NEW r \in Requests, Answers(r) PROVE FALSE
  <2>1. r = q
    BY DEF OneAtATime
  <2> QED BY <1>3, <2>1, AnswersEnd
<1>4. QED
  BY <1>1, <1>2, <1>3, StepKinds

LEMMA StepInTurn ==
  ASSUME OneAtATime, DOMAIN req = Requests, InTurn, [Next]_vars
  PROVE  InTurn'
<1> SUFFICES ASSUME NEW q \in Requests PROVE Says(req[q])'
  BY DEF InTurn
<1>1. PICK context : context = req'[q]
  OBVIOUS
<1>2. ASSUME Says(context), UNCHANGED << offer, line, item, dossier, reservation >>
      PROVE  Says(context)'
  BY <1>2 DEF Says, Exists, Follows, ReservationsOf, ActiveReservations
<1>3. CASE context = Idle
  <2>1. Says(context)'
    BY <1>3 DEF Says, Idle
  <2> QED BY <1>1, <2>1 DEF Says, Exists, Follows, ReservationsOf, ActiveReservations
<1>4. CASE context # Idle /\ context = req[q]
  <2>1. UNCHANGED vars /\ Says(context)
    BY <1>1, <1>4, Lone DEF InTurn
  <2>2. Says(context)'
    BY <2>1, <1>2 DEF vars
  <2> QED BY <1>1, <2>2 DEF Says, Exists, Follows, ReservationsOf, ActiveReservations
<1>5. CASE context # Idle /\ context # req[q]
  <2>1. Reads(q)
    BY <1>1, <1>5, Reader
  <2>2. Says(context) /\ UNCHANGED << offer, line, item, dossier, reservation >>
    BY <1>1, <2>1, ReadsSay, ReadsStart
  <2>3. Says(context)'
    BY <2>2, <1>2
  <2> QED BY <1>1, <2>3 DEF Says, Exists, Follows, ReservationsOf, ActiveReservations
<1>6. QED
  BY <1>3, <1>4, <1>5

(* A dossier that has bought is past the purchase, or was when it was        *)
(* cancelled: it will not purchase again.                                    *)
At(row) == IF row.status = "cancelled" THEN row.cancelledFrom ELSE row.status

Past(row) ==
  \E i \in DOMAIN Steps : \E j \in 1 .. i : Steps[j] = "purchaseConfirmed" /\ Steps[i] = At(row)

Bought == \A d \in Dossiers : dossier[d].bought => Past(dossier[d])

LEMMA StepsInOrder ==
  /\ Len(Steps) \in Nat /\ DOMAIN Steps = 1 .. Len(Steps)
  /\ \A i, j \in DOMAIN Steps : Steps[i] = Steps[j] => i = j
  /\ \A i \in DOMAIN Steps : Steps[i] # "cancelled"
<1>1. PICK seq : seq = Steps
  OBVIOUS
<1>2. seq \in Seq(AllStatuses \ {"cancelled"}) /\ \A i, j \in DOMAIN seq : seq[i] = seq[j] => i = j
  BY <1>1, StockAssumption DEF StockAssumption
<1>3. /\ Len(seq) \in Nat /\ DOMAIN seq = 1 .. Len(seq)
      /\ \A i \in DOMAIN seq : seq[i] # "cancelled"
  BY <1>2
<1>4. QED
  BY <1>1, <1>2, <1>3

LEMMA PurchaseIsNew ==
  ASSUME NEW row, Follows(row.status, "purchaseConfirmed")
  PROVE  ~ Past(row)
<1>1. row.status \notin TERMINAL_STATUSES
  BY DEF Follows
<1>2. PICK i \in 2 .. Len(Steps) : Steps[i - 1] = row.status /\ Steps[i] = "purchaseConfirmed"
  BY DEF Follows
<1>3. At(row) = row.status
  BY <1>1 DEF At, TERMINAL_STATUSES
<1>4. ASSUME NEW k \in DOMAIN Steps, NEW j \in 1 .. k,
             Steps[j] = "purchaseConfirmed", Steps[k] = At(row)
      PROVE  FALSE
  <2>1. i \in DOMAIN Steps /\ i - 1 \in DOMAIN Steps /\ j \in DOMAIN Steps
    BY <1>2, <1>4, StepsInOrder
  <2>2. j = i /\ k = i - 1
    BY <1>2, <1>3, <1>4, <2>1, StepsInOrder
  <2> QED BY <1>2, <1>4, <2>2, StepsInOrder
<1>5. QED
  BY <1>4 DEF Past

LEMMA StaysPast ==
  ASSUME NEW row, NEW new, Follows(row.status, new.status), new.status # "cancelled",
         Past(row) \/ new.status = "purchaseConfirmed"
  PROVE  Past(new)
<1>1. row.status \notin TERMINAL_STATUSES
  BY DEF Follows
<1>2. PICK i \in 2 .. Len(Steps) : Steps[i - 1] = row.status /\ Steps[i] = new.status
  BY DEF Follows
<1>3. At(row) = row.status /\ At(new) = new.status
  BY <1>1 DEF At, TERMINAL_STATUSES
<1>4. i \in DOMAIN Steps /\ i - 1 \in DOMAIN Steps
  BY <1>2, StepsInOrder
<1>5. CASE new.status = "purchaseConfirmed"
  <2>1. i \in 1 .. i
    BY <1>2
  <2> QED BY <1>2, <1>3, <1>4, <1>5, <2>1 DEF Past
<1>6. CASE Past(row)
  <2>1. PICK k \in DOMAIN Steps :
          \E j \in 1 .. k : Steps[j] = "purchaseConfirmed" /\ Steps[k] = At(row)
    BY <1>6 DEF Past
  <2>2. k = i - 1
    BY <1>2, <1>3, <1>4, <2>1, StepsInOrder
  <2>3. \E j \in 1 .. i : Steps[j] = "purchaseConfirmed"
    BY <1>2, <2>1, <2>2
  <2> QED BY <1>2, <1>3, <1>4, <2>3 DEF Past
<1>7. QED
  BY <1>5, <1>6

LEMMA OnlyOneMoved ==
  ASSUME Bought, NEW d \in Dossiers, NEW new, new = dossier',
         \A e \in Dossiers \ {d} : new[e] = dossier[e], new[d].bought => Past(new[d])
  PROVE  Bought'
BY DEF Bought

LEMMA MovedStaysPast ==
  ASSUME Stocked, InTurn, Bought, NEW r \in Requests, req[r].op \in {"advance", "cancel"},
         NEW to \in AllStatuses, to = req[r].to, dossier' = Moved(req[r].d, to)
  PROVE  Bought'
<1>1. PICK d : d = req[r].d
  OBVIOUS
<1>2. /\ d \in Dossiers /\ Exists(d) /\ Follows(dossier[d].status, to)
      /\ TypedRows /\ Archived
  BY <1>1, TypedIsTypeOK DEF Stocked, Rows, InTurn, Says
<1>3. PICK new : new = dossier' /\ new = Moved(d, to)
  BY <1>1
<1>4. /\ \A e \in Dossiers \ {d} : new[e] = dossier[e]
      /\ new[d].status = to
      /\ new[d].bought = (dossier[d].bought \/ (to = "purchaseConfirmed" /\ dossier[d].catalogue))
      /\ new[d].cancelledFrom =
           IF to = "cancelled" THEN dossier[d].status ELSE dossier[d].cancelledFrom
  BY <1>2, <1>3, MovedRows DEF TypedRows
<1>5. PICK row, after : row = dossier[d] /\ after = new[d]
  OBVIOUS
<1>6. row.bought => Past(row)
  BY <1>2, <1>5 DEF Bought
<1>7. ASSUME after.bought PROVE Past(after)
  <2>1. CASE to = "cancelled"
    <3>1. row.bought /\ row.status # "cancelled"
      BY <1>2, <1>4, <1>5, <1>7, <2>1 DEF Follows, TERMINAL_STATUSES
    <3>2. At(after) = At(row)
      BY <1>4, <1>5, <2>1, <3>1 DEF At
    <3> QED BY <1>6, <3>1, <3>2 DEF Past
  <2>2. CASE to # "cancelled"
    <3>1. row.bought \/ to = "purchaseConfirmed"
      BY <1>4, <1>5, <1>7
    <3> QED BY <1>2, <1>4, <1>5, <1>6, <2>2, <3>1, StaysPast
  <2> QED BY <2>1, <2>2
<1>8. QED
  BY <1>2, <1>3, <1>4, <1>5, <1>7, OnlyOneMoved

LEMMA StepBought ==
  ASSUME IsFiniteSet(Reservations), Stocked, InTurn, Bought, [Next]_vars
  PROVE  Bought'
<1>0. Rows /\ TypedRows /\ DOMAIN req = Requests
  BY TypedIsTypeOK DEF Stocked, Rows
<1>1. CASE UNCHANGED dossier
  BY <1>1 DEF Bought
<1>2. ASSUME NEW k \in Reservations, materialize(k) PROVE Bought'
  <2>1. PICK d : d = reservation[k].dossier
    OBVIOUS
  <2>2. CASE d = NoDossier
    BY <1>1, <1>2, <2>1, <2>2 DEF materialize
  <2>3. CASE d # NoDossier
    <3>1. d \in Dossiers
      BY <1>0, <2>1, <2>3 DEF TypedRows, ReservationRows
    <3>2. PICK new : new = dossier'
      OBVIOUS
    <3>3. /\ new = [dossier EXCEPT ![d].status = "purchaseConfirmed",
                                   ![d].bought = dossier[d].catalogue]
          /\ Follows(dossier[d].status, "purchaseConfirmed")
      BY <1>2, <2>1, <2>3, <3>2 DEF materialize
    <3>4. /\ \A e \in Dossiers \ {d} : new[e] = dossier[e]
          /\ new[d].status = "purchaseConfirmed"
      BY <1>0, <3>1, <3>3, MaterializedDossier, FollowsSteps
    <3>5. PICK row, after : row = dossier[d] /\ after = new[d]
      OBVIOUS
    <3>6. Past(after)
      BY <3>3, <3>4, <3>5, StaysPast
    <3> QED BY <3>1, <3>2, <3>4, <3>5, <3>6, OnlyOneMoved
  <2> QED BY <2>2, <2>3
<1>3. ASSUME NEW d \in Dossiers, NEW catalogue \in BOOLEAN,
             dossier' = [dossier EXCEPT ![d] = NewDossier(catalogue)]
      PROVE  Bought'
  <2>1. PICK new, row : new = dossier' /\ row = NewDossier(catalogue)
    OBVIOUS
  <2>2. ~ row.bought
    BY <2>1, NewDossierRow
  <2>3. \A e \in Dossiers \ {d} : new[e] = dossier[e]
    BY <1>0, <1>3, <2>1 DEF TypedRows
  <2>4. new[d] = row
    BY <1>0, <1>3, <2>1 DEF TypedRows
  <2> QED BY <2>1, <2>2, <2>3, <2>4, OnlyOneMoved
<1>4. CASE Served
  <2>1. CASE UNCHANGED dossier
    BY <1>1, <2>1
  <2>2. ASSUME NEW d \in Dossiers, createFromCatalogue(d) PROVE Bought'
    BY <1>0, <1>3, <2>2, CreateFromCatalogueRows
  <2>3. ASSUME NEW d \in Dossiers,
               createWithoutOffer(d) \/ \E k \in Reservations : createFromReservation(d, k)
        PROVE  Bought'
    BY <1>0, <1>3, <2>3, CreateRows
  <2> QED BY <1>4, <1>2, <2>1, <2>2, <2>3
          DEF Served, reserve, assignToDossier, purchaseOfferVehicle, publish
<1>5. ASSUME NEW r \in Requests, Reads(r) PROVE Bought'
  BY <1>1, <1>5, ReadsStart
<1>6. ASSUME NEW r \in Requests, Answers(r) PROVE Bought'
  <2>1. PICK to : to = req[r].to
    OBVIOUS
  <2>2. CASE CommitReserving(r) \/ CommitPurchase(r) \/ CommitOtherStep(r)
    <3>1. dossier' = Moved(req[r].d, to) /\ req[r].op = "advance"
      BY <2>1, <2>2 DEF CommitReserving, CommitPurchase, CommitOtherStep
    <3>2. to \in AllStatuses
      BY <2>1, <3>1 DEF Stocked, Named, Moving
    <3> QED BY <2>1, <3>1, <3>2, MovedStaysPast
  <2>3. CASE CommitCancel(r)
    <3>1. dossier' = Moved(req[r].d, "cancelled") /\ req[r].op = "cancel"
      BY <2>3 DEF CommitCancel
    <3>2. to = "cancelled" /\ to \in AllStatuses
      BY <2>1, <3>1 DEF InTurn, Says, AllStatuses
    <3> QED BY <2>1, <3>1, <3>2, MovedStaysPast
  <2>4. CASE CommitRestore(r)
    <3>1. PICK d : d = req[r].d
      OBVIOUS
    <3>2. /\ dossier' = [dossier EXCEPT ![d].status = to, ![d].cancelledFrom = "none"]
          /\ req[r].op = "restore"
      BY <2>1, <2>4, <3>1 DEF CommitRestore
    <3>3. /\ d \in Dossiers /\ to \in AllStatuses /\ to # "cancelled"
          /\ dossier[d].status = "cancelled" /\ to = dossier[d].cancelledFrom
      BY <2>1, <3>1, <3>2 DEF Stocked, Named, Moving, InTurn, Says
    <3>4. PICK new : /\ new = dossier'
                     /\ new = [dossier EXCEPT ![d].status = to, ![d].cancelledFrom = "none"]
      BY <3>2
    <3>5. /\ \A e \in Dossiers \ {d} : new[e] = dossier[e]
          /\ new[d].status = to /\ new[d].bought = dossier[d].bought
      <4>1. d \in Dossiers /\ to \in AllStatuses
        BY <3>3
      <4>2. new = [dossier EXCEPT ![d].status = to, ![d].cancelledFrom = "none"]
        BY <3>4
      <4> QED BY <1>0, <4>1, <4>2, RestoredDossier
    <3>6. PICK row, after : row = dossier[d] /\ after = new[d]
      OBVIOUS
    <3>7. At(after) = At(row)
      BY <3>3, <3>5, <3>6 DEF At
    <3>8. after.bought => Past(after)
      BY <3>3, <3>5, <3>6, <3>7 DEF Bought, Past
    <3> QED BY <3>3, <3>4, <3>5, <3>6, <3>8, OnlyOneMoved
  <2>5. CASE UNCHANGED dossier
    BY <1>1, <2>5
  <2> QED BY <1>6, <2>2, <2>3, <2>4, <2>5
          DEF Answers, CommitRelease, CommitTransition, CommitLoseOfferVehicle, CommitArchive, Abort
<1>7. QED
  BY <1>1, <1>4, <1>5, <1>6, StepKinds DEF vars
-----------------------------------------------------------------------------
(* What is claimed is counted: a step that gives `p' more units to           *)
(* reservations and `h' to the catalogue moves the counters with them.       *)
HolderCount(rows) == Cardinality(HoldersIn(rows))

Counted ==
  /\ Promised(reservation) + HolderCount(dossier) <= offer.reserved
  /\ HolderCount(dossier) <= item.reserved
  /\ line.reserved <= item.reserved

Accounts(p, h) ==
  /\ p \in Int /\ h \in Int
  /\ Promised(reservation') = Promised(reservation) + p
  /\ HolderCount(dossier') <= HolderCount(dossier) + h
  /\ offer'.reserved = offer.reserved + p + h
  /\ item'.reserved = item.reserved + h
  /\ line'.reserved <= line.reserved + h

LEMMA HolderCountIsNat ==
  ASSUME IsFiniteSet(Dossiers), NEW rows
  PROVE  HolderCount(rows) \in Nat
<1>1. HoldersIn(rows) \in SUBSET Dossiers
  BY DEF HoldersIn
<1>2. QED
  BY <1>1, FS_Subset, FS_CardinalityType DEF HolderCount

LEMMA CounterTypes ==
  ASSUME Rows
  PROVE  offer.reserved \in Int /\ item.reserved \in Int /\ line.reserved \in Int
BY TypedIsTypeOK, QuantityIsNat DEF Rows, TypedRows, OfferRows, LineRows, ItemRows

LEMMA AccountsKeep ==
  ASSUME IsFiniteSet(Dossiers), IsFiniteSet(Reservations), Rows, Rows', Counted, NEW p, NEW h,
         Accounts(p, h)
  PROVE  Counted'
<1>1. PICK a, b, c, x, y, o, i, l :
        /\ a = Promised(reservation) /\ b = HolderCount(dossier)
        /\ x = Promised(reservation') /\ y = HolderCount(dossier')
        /\ o = offer.reserved /\ i = item.reserved /\ l = line.reserved
        /\ c = line'.reserved
  OBVIOUS
<1>2. a \in Nat /\ b \in Nat /\ x \in Nat /\ y \in Nat
  BY <1>1, PromisedIsNat, HolderCountIsNat
<1>3. o \in Int /\ i \in Int /\ l \in Int
  BY <1>1, CounterTypes
<1>4. c \in Int
  BY <1>1, TypedIsTypeOK, QuantityIsNat DEF Rows, TypeOK
<1>5. a + b <= o /\ b <= i /\ l <= i
  BY <1>1 DEF Counted
<1>6. /\ p \in Int /\ h \in Int /\ x = a + p /\ y <= b + h
      /\ offer'.reserved = o + p + h /\ item'.reserved = i + h /\ c <= l + h
  BY <1>1 DEF Accounts
<1>7. x + y <= o + p + h /\ y <= i + h /\ c <= i + h
  BY <1>2, <1>3, <1>4, <1>5, <1>6
<1>8. QED
  BY <1>1, <1>6, <1>7 DEF Counted

LEMMA NoUnits == Quantities({}) = 0
<1>1. UnitsIn({}, reservation) = {}
  BY DEF UnitsIn
<1>2. QED
  BY <1>1, QuantitiesAreUnits, FS_EmptySet

(* What is promised after a new claim, and when nothing is claimed.          *)
LEMMA NewClaim ==
  ASSUME IsFiniteSet(Reservations), NEW k \in Reservations, NEW q \in 1 .. Quantity, NEW new,
         reservation[k] = Unused, new[k].status = "active", new[k].quantity = q,
         \A j \in Reservations \ {k} : new[j] = reservation[j]
  PROVE  Promised(new) = Promised(reservation) + q
<1>1. reservation[k].status = "unused"
  BY DEF Unused
<1>2. {k} \in SUBSET Reservations /\ {k} \intersect ActiveReservations = {}
  BY <1>1 DEF ActiveReservations
<1>3. /\ \A j \in Reservations :
           new[j].status = IF j \in {k} THEN "active" ELSE reservation[j].status
      /\ \A j \in Reservations \ {k} : new[j].quantity = reservation[j].quantity
  OBVIOUS
<1>4. Promised(new) = Promised(reservation) + Cardinality(UnitsIn({k}, new))
  BY <1>2, <1>3, TakesMore
<1>5. q \in 0 .. Quantity
  BY QuantityIsNat
<1>6. Cardinality(UnitsIn({k}, new)) = q
  BY <1>5, UnitsOfOne
<1>7. QED
  BY <1>4, <1>6

LEMMA SamePromised ==
  ASSUME NEW new, \A k \in Reservations : /\ new[k].status = reservation[k].status
                                          /\ new[k].quantity = reservation[k].quantity
  PROVE  Promised(new) = Promised(reservation)
<1>1. ActiveIn(new) = ActiveIn(reservation)
  BY DEF ActiveIn
<1>2. \A k \in ActiveIn(reservation) : new[k].quantity = reservation[k].quantity
  BY DEF ActiveIn
<1>3. UnitsIn(ActiveIn(reservation), new) = UnitsIn(ActiveIn(reservation), reservation)
  BY <1>2, UnitsAlike
<1>4. QED
  BY <1>1, <1>3 DEF Promised

(* The holders after one dossier has moved.                                  *)
LEMMA OneHolder ==
  ASSUME IsFiniteSet(Dossiers), NEW d \in Dossiers, NEW new,
         \A e \in Dossiers \ {d} : new[e] = dossier[e]
  PROVE  /\ HolderCount(new) <= HolderCount(dossier) + 1
         /\ (HoldsIn(new[d]) => HoldsIn(dossier[d])) => HolderCount(new) <= HolderCount(dossier)
         /\ HoldsIn(dossier[d]) /\ ~ HoldsIn(new[d]) => HolderCount(new) <= HolderCount(dossier) - 1
BY FewerHolders DEF HolderCount

LEMMA MovedHolders ==
  ASSUME IsFiniteSet(Dossiers), Stocked, InTurn, NEW r \in Requests,
         req[r].op \in {"advance", "cancel"}, NEW d, d = req[r].d,
         NEW to \in AllStatuses, to = req[r].to, NEW new, new = Moved(d, to)
  PROVE  /\ d \in Dossiers /\ Follows(dossier[d].status, to)
         /\ HolderCount(new) <= HolderCount(dossier)
         /\ dossier[d].catalogue /\ ~ dossier[d].bought /\ to \in {"purchaseConfirmed", "cancelled"} =>
              HolderCount(new) <= HolderCount(dossier) - 1
<1>1. d \in Dossiers /\ Exists(d) /\ Follows(dossier[d].status, to) /\ TypedRows /\ Archived
  BY TypedIsTypeOK DEF Stocked, Rows, InTurn, Says
<1>2. /\ \A e \in Dossiers \ {d} : new[e] = dossier[e]
      /\ new[d].status = to /\ new[d].catalogue = dossier[d].catalogue
      /\ new[d].bought = (dossier[d].bought \/ (to = "purchaseConfirmed" /\ dossier[d].catalogue))
  BY <1>1, MovedRows DEF TypedRows
<1>3. dossier[d].status \notin TERMINAL_STATUSES
  BY <1>1 DEF Follows
<1>4. PICK row, after : row = dossier[d] /\ after = new[d]
  OBVIOUS
<1>5. HoldsIn(after) => HoldsIn(row)
  BY <1>2, <1>3, <1>4 DEF HoldsIn
<1>6. ASSUME row.catalogue, ~ row.bought, to \in {"purchaseConfirmed", "cancelled"}
      PROVE  HoldsIn(row) /\ ~ HoldsIn(after)
  BY <1>2, <1>3, <1>4, <1>6 DEF HoldsIn, TERMINAL_STATUSES
<1>7. QED
  BY <1>1, <1>2, <1>4, <1>5, <1>6, OneHolder

Accounted == \E p, h \in Int : Accounts(p, h)

(* Nothing is claimed or given up.                                           *)
LEMMA NothingClaimed ==
  ASSUME IsFiniteSet(Dossiers), IsFiniteSet(Reservations), Rows,
         Promised(reservation') = Promised(reservation),
         HolderCount(dossier') <= HolderCount(dossier),
         offer'.reserved = offer.reserved, item'.reserved = item.reserved,
         line'.reserved <= line.reserved
  PROVE  Accounted
<1>1. PICK a, b, y, o, i, l, c :
        /\ a = Promised(reservation) /\ b = HolderCount(dossier) /\ y = HolderCount(dossier')
        /\ o = offer.reserved /\ i = item.reserved /\ l = line.reserved /\ c = line'.reserved
  OBVIOUS
<1>2. a \in Nat /\ b \in Nat /\ o \in Int /\ i \in Int /\ l \in Int
  BY <1>1, PromisedIsNat, HolderCountIsNat, CounterTypes
<1>3. a = a + 0 /\ b = b + 0 /\ o = o + 0 + 0 /\ i = i + 0 /\ l = l + 0 /\ 0 \in Int
  BY <1>2
<1>4. Accounts(0, 0)
  BY <1>1, <1>3 DEF Accounts
<1>5. QED
  BY <1>3, <1>4 DEF Accounted

(* The claims each operation makes or settles.                               *)
LEMMA ReserveAccounts ==
  ASSUME IsFiniteSet(Dossiers), IsFiniteSet(Reservations), Rows, NEW k \in Reservations,
         \/ \E q \in 1 .. Quantity : reserve(k, q)
         \/ \E d \in Dossiers : assignToDossier(k, d)
  PROVE  Accounted
<1>1. TypedRows
  BY TypedIsTypeOK DEF Rows
<1>2. PICK q \in 1 .. Quantity, d \in Dossiers \union {NoDossier} :
        /\ reservation[k] = Unused
        /\ reservation' = [reservation EXCEPT ![k] = [status |-> "active", quantity |-> q,
                                                      dossier |-> d]]
        /\ offer'.reserved = offer.reserved + q /\ UNCHANGED << line, item, dossier >>
  <2>1. ASSUME NEW q \in 1 .. Quantity, reserve(k, q)
        PROVE  /\ reservation[k] = Unused
               /\ reservation' = [reservation EXCEPT ![k] = [status |-> "active", quantity |-> q,
                                                             dossier |-> NoDossier]]
               /\ offer'.reserved = offer.reserved + q /\ UNCHANGED << line, item, dossier >>
    BY <2>1, ReserveRows DEF reserve
  <2>2. ASSUME NEW d \in Dossiers, assignToDossier(k, d)
        PROVE  /\ reservation[k] = Unused
               /\ reservation' = [reservation EXCEPT ![k] = [status |-> "active", quantity |-> 1,
                                                             dossier |-> d]]
               /\ offer'.reserved = offer.reserved + 1 /\ UNCHANGED << line, item, dossier >>
    BY <2>2, AssignRows DEF assignToDossier
  <2>3. 1 \in 1 .. Quantity
    BY QuantityIsNat
  <2> QED BY <2>1, <2>2, <2>3
<1>3. PICK new, row :
        new = reservation' /\ row = [status |-> "active", quantity |-> q, dossier |-> d]
  OBVIOUS
<1>4. row.status = "active" /\ row.quantity = q
  BY <1>3
<1>5. new[k] = row /\ \A j \in Reservations \ {k} : new[j] = reservation[j]
  BY <1>1, <1>2, <1>3 DEF TypedRows
<1>6. Promised(new) = Promised(reservation) + q
  BY <1>2, <1>4, <1>5, NewClaim
<1>7. PICK b, i, l, o : /\ b = HolderCount(dossier) /\ i = item.reserved /\ l = line.reserved
                        /\ o = offer.reserved
  OBVIOUS
<1>8. b \in Nat /\ i \in Int /\ l \in Int /\ o \in Int
  BY <1>7, HolderCountIsNat, CounterTypes
<1>9. b <= b + 0 /\ i = i + 0 /\ l <= l + 0 /\ o + q = o + q + 0 /\ q \in Int /\ 0 \in Int
  BY <1>8, QuantityIsNat
<1>10. Accounts(q, 0)
  BY <1>2, <1>3, <1>6, <1>7, <1>9 DEF Accounts
<1>11. QED
  BY <1>9, <1>10 DEF Accounted

(* Claims that are given up, and whether one of them is on the catalogue.    *)
LEMMA SettledAccounts ==
  ASSUME IsFiniteSet(Dossiers), IsFiniteSet(Reservations), Rows, NEW ks \in SUBSET ActiveReservations,
         NEW status \in {"released", "expired", "consumed"},
         reservation' = SetReservations(ks, status), NEW via, NEW q, q = Quantities(ks),
         HolderCount(dossier') <= HolderCount(dossier),
         via => HolderCount(dossier') <= HolderCount(dossier) - 1,
         offer'.reserved = offer.reserved - (IF via THEN 1 ELSE 0) - q,
         item'.reserved = item.reserved - (IF via THEN 1 ELSE 0),
         line'.reserved <= line.reserved - (IF via THEN 1 ELSE 0)
  PROVE  Accounted
<1>1. PICK new : new = reservation' /\ new = SetReservations(ks, status)
  OBVIOUS
<1>2. Promised(new) = Promised(reservation) - q /\ q \in Nat
  BY <1>1, TypedIsTypeOK, GivesUp DEF Rows, TypedRows
<1>3. PICK a, b, y, i, l, o, c :
        /\ a = Promised(reservation) /\ b = HolderCount(dossier) /\ y = HolderCount(dossier')
        /\ i = item.reserved /\ l = line.reserved /\ o = offer.reserved /\ c = line'.reserved
  OBVIOUS
<1>4. a \in Nat /\ b \in Nat /\ y \in Nat /\ i \in Int /\ l \in Int /\ o \in Int
  BY <1>3, PromisedIsNat, HolderCountIsNat, CounterTypes
<1>5. PICK h \in Int : h = IF via THEN 0 - 1 ELSE 0
  OBVIOUS
<1>6. PICK p \in Int : p = 0 - q
  BY <1>2
<1>7. y <= b + h
  <2>1. CASE via
    <3>1. h = 0 - 1 /\ y <= b - 1
      BY <1>3, <1>5, <2>1
    <3> QED BY <1>4, <3>1
  <2>2. CASE ~ via
    <3>1. h = 0 /\ y <= b
      BY <1>3, <1>5, <2>2
    <3> QED BY <1>4, <3>1
  <2> QED BY <2>1, <2>2
<1>8. PICK m \in Int : m = (IF via THEN 1 ELSE 0) /\ h = 0 - m
  BY <1>5
<1>9. offer'.reserved = o - m - q /\ item'.reserved = i - m /\ c <= l - m
  BY <1>3, <1>8
<1>10. o - m - q = o + p + h /\ i - m = i + h /\ l - m = l + h /\ a - q = a + p
  BY <1>2, <1>4, <1>6, <1>8
<1>11. Accounts(p, h)
  BY <1>1, <1>2, <1>3, <1>7, <1>9, <1>10 DEF Accounts
<1>12. QED
  BY <1>11 DEF Accounted

LEMMA MaterializeAccounts ==
  ASSUME IsFiniteSet(Dossiers), IsFiniteSet(Reservations), Rows, NEW k \in Reservations, materialize(k)
  PROVE  Accounted
<1>1. TypedRows
  BY TypedIsTypeOK DEF Rows
<1>2. /\ offer'.reserved = offer.reserved - 1 /\ line'.reserved <= line.reserved
      /\ item'.reserved = item.reserved
  BY MaterializeRows
<1>3. /\ reservation[k].status = "active" /\ reservation[k].quantity = 1
      /\ reservation' = SetReservations({k}, "consumed")
  BY DEF materialize
<1>4. {k} \in SUBSET ActiveReservations
  BY <1>3 DEF ActiveReservations
<1>5. Quantities({k}) = 1
  <2>1. reservation[k].quantity \in 0 .. Quantity
    BY <1>3, QuantityIsNat
  <2>2. Cardinality(UnitsIn({k}, reservation)) = reservation[k].quantity
    BY <2>1, UnitsOfOne
  <2> QED BY <1>3, <2>2, QuantitiesAreUnits
<1>6. HolderCount(dossier') <= HolderCount(dossier)
  <2>1. PICK d : d = reservation[k].dossier
    OBVIOUS
  <2>2. CASE d = NoDossier
    <3>1. dossier' = dossier
      BY <2>1, <2>2 DEF materialize
    <3>2. HolderCount(dossier) \in Nat
      BY HolderCountIsNat
    <3> QED BY <3>1, <3>2
  <2>3. CASE d # NoDossier
    <3>1. d \in Dossiers
      BY <1>1, <2>1, <2>3 DEF TypedRows, ReservationRows
    <3>2. PICK new : new = dossier'
      OBVIOUS
    <3>3. /\ new = [dossier EXCEPT ![d].status = "purchaseConfirmed",
                                   ![d].bought = dossier[d].catalogue]
          /\ Follows(dossier[d].status, "purchaseConfirmed")
      BY <2>1, <2>3, <3>2 DEF materialize
    <3>4. /\ \A e \in Dossiers \ {d} : new[e] = dossier[e]
          /\ new[d].catalogue = dossier[d].catalogue /\ new[d].bought = dossier[d].catalogue
      BY <1>1, <3>1, <3>3, MaterializedDossier, FollowsSteps
    <3>5. ~ HoldsIn(new[d])
      BY <3>4 DEF HoldsIn
    <3> QED BY <3>1, <3>2, <3>4, <3>5, OneHolder
  <2> QED BY <2>2, <2>3
<1>7. PICK via, q, o, i, l, c : /\ via = FALSE /\ q = Quantities({k}) /\ q = 1
                                /\ o = offer.reserved /\ i = item.reserved /\ l = line.reserved
                                /\ c = line'.reserved
  BY <1>5
<1>8. o \in Int /\ i \in Int /\ l \in Int
  BY <1>7, CounterTypes
<1>9. /\ offer'.reserved = o - (IF via THEN 1 ELSE 0) - q
      /\ item'.reserved = i - (IF via THEN 1 ELSE 0)
      /\ c <= l - (IF via THEN 1 ELSE 0)
  BY <1>2, <1>7, <1>8
<1>10. QED
  BY <1>3, <1>4, <1>6, <1>7, <1>9, SettledAccounts

LEMMA CreateAccounts ==
  ASSUME IsFiniteSet(Dossiers), IsFiniteSet(Reservations), Rows, NEW d \in Dossiers,
         \/ createFromCatalogue(d) \/ createWithoutOffer(d)
         \/ \E k \in Reservations : createFromReservation(d, k)
  PROVE  Accounted
<1>1. TypedRows
  BY TypedIsTypeOK DEF Rows
<1>2. CASE createFromCatalogue(d)
  <2>1. /\ dossier' = [dossier EXCEPT ![d] = NewDossier(TRUE)] /\ reservation' = reservation
        /\ offer'.reserved = offer.reserved + 1 /\ line'.reserved = line.reserved + 1
        /\ item'.reserved = item.reserved + 1
    BY <1>2, CreateFromCatalogueRows
  <2>2. PICK new : new = dossier'
    OBVIOUS
  <2>3. \A e \in Dossiers \ {d} : new[e] = dossier[e]
    BY <1>1, <2>1, <2>2 DEF TypedRows
  <2>4. HolderCount(new) <= HolderCount(dossier) + 1
    BY <2>3, OneHolder
  <2>5. PICK a, o, i, l : /\ a = Promised(reservation) /\ o = offer.reserved
                          /\ i = item.reserved /\ l = line.reserved
    OBVIOUS
  <2>6. a \in Nat /\ o \in Int /\ i \in Int /\ l \in Int
    BY <2>5, PromisedIsNat, CounterTypes
  <2>7. a = a + 0 /\ o + 1 = o + 0 + 1 /\ l + 1 <= l + 1 /\ 0 \in Int /\ 1 \in Int
    BY <2>6
  <2>8. Accounts(0, 1)
    BY <2>1, <2>2, <2>4, <2>5, <2>7 DEF Accounts
  <2> QED BY <2>7, <2>8 DEF Accounted
<1>3. CASE createWithoutOffer(d) \/ \E k \in Reservations : createFromReservation(d, k)
  <2>1. dossier' = [dossier EXCEPT ![d] = NewDossier(FALSE)] /\ UNCHANGED << offer, line, item >>
    BY <1>3 DEF createWithoutOffer, createFromReservation
  <2>2. PICK new, row : new = dossier' /\ row = NewDossier(FALSE)
    OBVIOUS
  <2>3. \A e \in Dossiers \ {d} : new[e] = dossier[e]
    BY <1>1, <2>1, <2>2 DEF TypedRows
  <2>4. new[d] = row
    BY <1>1, <2>1, <2>2 DEF TypedRows
  <2>5. ~ HoldsIn(new[d])
    BY <2>2, <2>4, NewDossierRow DEF HoldsIn
  <2>6. HolderCount(new) <= HolderCount(dossier)
    BY <2>3, <2>5, OneHolder
  <2>7. PICK rows : rows = reservation'
    OBVIOUS
  <2>8. \A k \in Reservations : /\ rows[k].status = reservation[k].status
                                /\ rows[k].quantity = reservation[k].quantity
    <3>1. CASE createWithoutOffer(d)
      BY <2>7, <3>1 DEF createWithoutOffer
    <3>2. ASSUME NEW k \in Reservations, createFromReservation(d, k)
          PROVE  \A j \in Reservations : /\ rows[j].status = reservation[j].status
                                         /\ rows[j].quantity = reservation[j].quantity
      <4>1. PICK old \in ReservationRows : old = reservation[k]
        BY <1>1 DEF TypedRows
      <4>2. PICK after : after = [old EXCEPT !.dossier = d]
        OBVIOUS
      <4>3. after.status = old.status /\ after.quantity = old.quantity
        BY <4>2 DEF ReservationRows
      <4>4. rows = [reservation EXCEPT ![k] = after]
        BY <2>7, <3>2, <4>1, <4>2 DEF createFromReservation
      <4> QED BY <1>1, <4>1, <4>3, <4>4 DEF TypedRows
    <3> QED BY <1>3, <3>1, <3>2
  <2>9. Promised(rows) = Promised(reservation)
    BY <2>8, SamePromised
  <2>10. line.reserved <= line.reserved
    BY CounterTypes
  <2> QED BY <2>1, <2>2, <2>6, <2>7, <2>9, <2>10, NothingClaimed
<1>4. QED
  BY <1>2, <1>3

LEMMA ReleaseAccounts ==
  ASSUME IsFiniteSet(Dossiers), IsFiniteSet(Reservations), Stocked, InTurn, NEW r \in Requests,
         CommitRelease(r)
  PROVE  Accounted
<1>1. PICK ks, status : ks = req[r].ks /\ status = req[r].to
  OBVIOUS
<1>2. /\ ks \in SUBSET ActiveReservations /\ status \in {"released", "expired"}
      /\ reservation' = SetReservations(ks, status) /\ UNCHANGED << line, item, dossier >>
      /\ offer'.reserved = offer.reserved - Quantities(ks)
  BY <1>1, ReleaseRows DEF CommitRelease, InTurn, Says
<1>3. PICK via, q, o, i, l, b : /\ via = FALSE /\ q = Quantities(ks)
                                /\ o = offer.reserved /\ i = item.reserved /\ l = line.reserved
                                /\ b = HolderCount(dossier)
  OBVIOUS
<1>4. Rows /\ o \in Int /\ i \in Int /\ l \in Int /\ b \in Nat
  BY <1>3, CounterTypes, HolderCountIsNat DEF Stocked
<1>5. /\ offer'.reserved = o - (IF via THEN 1 ELSE 0) - q
      /\ item'.reserved = i - (IF via THEN 1 ELSE 0)
      /\ line'.reserved <= l - (IF via THEN 1 ELSE 0)
      /\ HolderCount(dossier') <= b
  BY <1>2, <1>3, <1>4
<1>6. QED
  BY <1>2, <1>3, <1>4, <1>5, SettledAccounts

LEMMA StepAccounts ==
  ASSUME IsFiniteSet(Dossiers), IsFiniteSet(Reservations), Stocked, InTurn, NEW r \in Requests,
         CommitReserving(r) \/ CommitOtherStep(r)
  PROVE  Accounted
<1>1. PICK d, to : d = req[r].d /\ to = req[r].to
  OBVIOUS
<1>2. /\ dossier' = Moved(d, to) /\ req[r].op = "advance" /\ UNCHANGED << item, reservation >>
      /\ offer'.reserved = offer.reserved /\ line'.reserved = line.reserved
  BY <1>1, ReservingRows, OtherStepRows
<1>3. to \in AllStatuses
  BY <1>1, <1>2 DEF Stocked, Named, Moving
<1>4. PICK new : new = dossier' /\ new = Moved(d, to)
  BY <1>2
<1>5. HolderCount(new) <= HolderCount(dossier)
  BY <1>1, <1>2, <1>3, <1>4, MovedHolders
<1>6. Rows /\ line.reserved <= line.reserved
  BY CounterTypes DEF Stocked
<1>7. QED
  BY <1>2, <1>4, <1>5, <1>6, NothingClaimed

LEMMA PurchasedFrom ==
  ASSUME NEW to, getDossierCommerceAction(to) = "purchase"
  PROVE  to = "purchaseConfirmed"
BY DEF getDossierCommerceAction

(* What a transition settles.                                                *)
LEMMA SettlesClaims ==
  ASSUME IsFiniteSet(Dossiers), IsFiniteSet(Reservations), Stocked, NEW ks \in SUBSET ActiveReservations,
         NEW status \in {"released", "consumed"}, reservation' = SetReservations(ks, status), NEW via,
         HolderCount(dossier') <= HolderCount(dossier),
         via => HolderCount(dossier') <= HolderCount(dossier) - 1,
         IF via
         THEN /\ offer'.reserved = offer.reserved - 1 - (IF ks = {} THEN 0 ELSE Quantities(ks))
              /\ line'.reserved = line.reserved - 1 /\ item'.reserved = item.reserved - 1
         ELSE /\ offer'.reserved = offer.reserved - (IF ks = {} THEN 0 ELSE Quantities(ks))
              /\ line' = line /\ item' = item
  PROVE  Accounted
<1>1. PICK q : q = Quantities(ks)
  OBVIOUS
<1>2. q = IF ks = {} THEN 0 ELSE Quantities(ks)
  BY <1>1, NoUnits
<1>3. PICK o, i, l : o = offer.reserved /\ i = item.reserved /\ l = line.reserved
  OBVIOUS
<1>4. Rows /\ o \in Int /\ i \in Int /\ l \in Int
  BY <1>3, CounterTypes DEF Stocked
<1>5. q \in Nat
  <2>1. ks \in SUBSET Reservations
    BY DEF ActiveReservations
  <2> QED BY <1>1, <2>1, QuantitiesAreUnits, UnitsFinite
<1>6. CASE via
  <2>1. offer'.reserved = o - 1 - q /\ item'.reserved = i - 1 /\ line'.reserved = l - 1
    BY <1>2, <1>3, <1>6
  <2>2. l - 1 <= l - 1
    BY <1>4
  <2>3. /\ offer'.reserved = o - (IF via THEN 1 ELSE 0) - q
        /\ item'.reserved = i - (IF via THEN 1 ELSE 0)
        /\ line'.reserved <= l - (IF via THEN 1 ELSE 0)
    BY <1>6, <2>1, <2>2
  <2> QED BY <1>1, <1>3, <1>4, <2>3, SettledAccounts
<1>7. CASE ~ via
  <2>1. offer'.reserved = o - q /\ item'.reserved = i /\ line'.reserved = l
    BY <1>2, <1>3, <1>7
  <2>2. l <= l - 0 /\ i = i - 0 /\ o - q = o - 0 - q
    BY <1>4, <1>5
  <2>3. /\ offer'.reserved = o - (IF via THEN 1 ELSE 0) - q
        /\ item'.reserved = i - (IF via THEN 1 ELSE 0)
        /\ line'.reserved <= l - (IF via THEN 1 ELSE 0)
    BY <1>7, <2>1, <2>2
  <2> QED BY <1>1, <1>3, <1>4, <2>3, SettledAccounts
<1>8. QED
  BY <1>6, <1>7

LEMMA PurchaseAccounts ==
  ASSUME IsFiniteSet(Dossiers), IsFiniteSet(Reservations), Stocked, InTurn, Bought,
         NEW r \in Requests, CommitPurchase(r)
  PROVE  Accounted
<1>1. PICK via, ks : (via <=> req[r].viaItem) /\ ks = req[r].ks
  OBVIOUS
<1>2. PICK d, to : d = req[r].d /\ to = req[r].to
  OBVIOUS
<1>3. /\ dossier' = Moved(d, to) /\ req[r].op = "advance"
      /\ reservation' = SetReservations(ks, "consumed")
      /\ getDossierCommerceAction(to) = "purchase"
      /\ IF via
         THEN /\ offer'.reserved = offer.reserved - 1 - (IF ks = {} THEN 0 ELSE Quantities(ks))
              /\ line'.reserved = line.reserved - 1 /\ item'.reserved = item.reserved - 1
         ELSE /\ offer'.reserved = offer.reserved - (IF ks = {} THEN 0 ELSE Quantities(ks))
              /\ line' = line /\ item' = item
  BY <1>1, <1>2, PurchaseRows
<1>4. to = "purchaseConfirmed" /\ to \in AllStatuses
  BY <1>2, <1>3, PurchasedFrom DEF Stocked, Named, Moving
<1>5. /\ ks \in SUBSET ActiveReservations
      /\ via => dossier[d].catalogue
  BY <1>1, <1>2, <1>3 DEF InTurn, Says
<1>6. PICK new : new = dossier' /\ new = Moved(d, to)
  BY <1>3
<1>7. /\ d \in Dossiers /\ Follows(dossier[d].status, to)
      /\ HolderCount(new) <= HolderCount(dossier)
      /\ dossier[d].catalogue /\ ~ dossier[d].bought => HolderCount(new) <= HolderCount(dossier) - 1
  BY <1>2, <1>3, <1>4, <1>6, MovedHolders
<1>8. ~ dossier[d].bought
  BY <1>4, <1>7, PurchaseIsNew DEF Bought
<1>9. QED
  BY <1>3, <1>5, <1>6, <1>7, <1>8, SettlesClaims

LEMMA CancelAccounts ==
  ASSUME IsFiniteSet(Dossiers), IsFiniteSet(Reservations), Stocked, InTurn,
         NEW r \in Requests, CommitCancel(r)
  PROVE  Accounted
<1>1. PICK via, ks : (via <=> (req[r].viaItem /\ ~ dossier[req[r].d].bought)) /\ ks = req[r].ks
  OBVIOUS
<1>2. PICK d, to : d = req[r].d /\ to = req[r].to
  OBVIOUS
<1>3. /\ dossier' = Moved(d, "cancelled") /\ req[r].op = "cancel"
      /\ reservation' = SetReservations(ks, "released")
      /\ IF via
         THEN /\ offer'.reserved = offer.reserved - 1 - (IF ks = {} THEN 0 ELSE Quantities(ks))
              /\ line'.reserved = line.reserved - 1 /\ item'.reserved = item.reserved - 1
         ELSE /\ offer'.reserved = offer.reserved - (IF ks = {} THEN 0 ELSE Quantities(ks))
              /\ line' = line /\ item' = item
  BY <1>1, <1>2, CancelRows
<1>4. to = "cancelled" /\ to \in AllStatuses
  BY <1>2, <1>3 DEF InTurn, Says, AllStatuses
<1>5. /\ ks \in SUBSET ActiveReservations
      /\ via => dossier[d].catalogue /\ ~ dossier[d].bought
  BY <1>1, <1>2, <1>3 DEF InTurn, Says
<1>6. PICK new : new = dossier' /\ new = Moved(d, to)
  BY <1>3, <1>4
<1>7. /\ HolderCount(new) <= HolderCount(dossier)
      /\ dossier[d].catalogue /\ ~ dossier[d].bought => HolderCount(new) <= HolderCount(dossier) - 1
  BY <1>2, <1>3, <1>4, <1>6, MovedHolders
<1>8. QED
  BY <1>3, <1>5, <1>6, <1>7, SettlesClaims

LEMMA RestoreAccounts ==
  ASSUME IsFiniteSet(Dossiers), IsFiniteSet(Reservations), Stocked, InTurn,
         NEW r \in Requests, CommitRestore(r)
  PROVE  Accounted
<1>1. PICK claims, ks : (claims <=> dossier[req[r].d].catalogue) /\ ks = req[r].ks
  OBVIOUS
<1>2. PICK d, to, q : d = req[r].d /\ to = req[r].to /\ q = Quantities(ks)
  OBVIOUS
<1>3. /\ req[r].op = "restore" /\ reservation' = SetReservations(ks, "active")
      /\ dossier' = [dossier EXCEPT ![d].status = to, ![d].cancelledFrom = "none"]
      /\ offer'.reserved = offer.reserved + q + (IF claims THEN 1 ELSE 0)
      /\ line'.reserved = line.reserved + (IF claims THEN 1 ELSE 0)
      /\ item'.reserved = item.reserved + (IF claims THEN 1 ELSE 0)
  BY <1>1, <1>2, RestoreRows
<1>4. /\ d \in Dossiers /\ to \in AllStatuses /\ dossier[d].status = "cancelled"
      /\ ks \in SUBSET Reservations /\ ks \intersect ActiveReservations = {} /\ TypedRows /\ Rows
  BY <1>1, <1>2, <1>3, TypedIsTypeOK
  DEF Stocked, Rows, Named, Moving, InTurn, Says, ActiveReservations
<1>5. PICK new : /\ new = dossier'
                 /\ new = [dossier EXCEPT ![d].status = to, ![d].cancelledFrom = "none"]
  BY <1>3
<1>6. \A e \in Dossiers \ {d} : new[e] = dossier[e]
  BY <1>4, <1>5, RestoredDossier
<1>7. new[d].catalogue = dossier[d].catalogue
  BY <1>4, <1>5, RestoredDossier
<1>8. PICK h \in {0, 1} : h = IF claims THEN 1 ELSE 0
  OBVIOUS
<1>9. HolderCount(new) <= HolderCount(dossier) + h
  <2>1. CASE claims
    BY <1>4, <1>6, <1>8, <2>1, OneHolder
  <2>2. CASE ~ claims
    <3>1. ~ HoldsIn(new[d])
      BY <1>1, <1>2, <1>7, <2>2 DEF HoldsIn
    <3>2. HolderCount(new) <= HolderCount(dossier)
      BY <1>4, <1>6, <3>1, OneHolder
    <3>3. HolderCount(dossier) \in Nat /\ h = 0
      BY <1>8, <2>2, HolderCountIsNat
    <3> QED BY <3>2, <3>3
  <2> QED BY <2>1, <2>2
<1>10. PICK rows : rows = reservation' /\ rows = SetReservations(ks, "active")
  BY <1>3
<1>11. \A k \in Reservations :
         /\ rows[k].quantity = reservation[k].quantity
         /\ rows[k].status = IF k \in ks THEN "active" ELSE reservation[k].status
  BY <1>4, <1>10, SetReservationRows DEF TypedRows
<1>12. Promised(rows) = Promised(reservation) + Cardinality(UnitsIn(ks, rows))
  BY <1>4, <1>11, TakesMore
<1>13. UnitsIn(ks, rows) = UnitsIn(ks, reservation)
  BY <1>4, <1>11, UnitsAlike
<1>14. Cardinality(UnitsIn(ks, rows)) = q /\ q \in Nat
  BY <1>2, <1>4, <1>13, QuantitiesAreUnits, UnitsFinite
<1>15. line'.reserved <= line.reserved + h
  <2>1. PICK l : l = line.reserved /\ l \in Int
    BY <1>4, CounterTypes
  <2>2. line'.reserved = l + h
    BY <1>3, <1>8, <2>1
  <2> QED BY <2>1, <2>2
<1>16. Accounts(q, h)
  BY <1>3, <1>5, <1>8, <1>9, <1>10, <1>12, <1>14, <1>15 DEF Accounts
<1>17. QED
  BY <1>8, <1>14, <1>16 DEF Accounted

LEMMA StepCounted ==
  ASSUME IsFiniteSet(Dossiers), IsFiniteSet(Reservations), Stocked, InTurn, Bought, Counted,
         [Next]_vars
  PROVE  Counted'
<1>0. Rows
  BY DEF Stocked
<1>1. Rows'
  BY DossierStep
<1>2. ASSUME Accounted PROVE Counted'
  BY <1>0, <1>1, <1>2, AccountsKeep DEF Accounted
<1>3. CASE UNCHANGED << offer, line, item, dossier, reservation >>
  BY <1>3 DEF Counted
<1>4. CASE Served
  <2>1. CASE publish
    <3>1. /\ item'.reserved = item.reserved /\ UNCHANGED << offer, line, dossier, reservation >>
      BY <1>0, <2>1, PublishRows DEF publish
    <3> QED BY <3>1 DEF Counted
  <2>2. CASE purchaseOfferVehicle
    <3>1. /\ offer'.reserved = offer.reserved /\ line'.reserved <= line.reserved
          /\ item'.reserved = item.reserved /\ UNCHANGED << dossier, reservation >>
      BY <1>0, <2>2, PurchaseOfferVehicleRows
    <3>2. HolderCount(dossier) <= HolderCount(dossier)
      BY HolderCountIsNat
    <3> QED BY <1>0, <1>2, <3>1, <3>2, NothingClaimed
  <2> QED BY <1>0, <1>2, <1>4, <2>1, <2>2, ReserveAccounts, MaterializeAccounts, CreateAccounts
          DEF Served
<1>5. ASSUME NEW r \in Requests, Reads(r) PROVE Counted'
  BY <1>3, <1>5, ReadsStart
<1>6. ASSUME NEW r \in Requests, Answers(r) PROVE Counted'
  <2>1. CASE CommitTransition(r) \/ CommitLoseOfferVehicle(r) \/ CommitArchive(r)
    <3>1. /\ UNCHANGED << dossier, reservation >> /\ offer'.reserved = offer.reserved
          /\ line'.reserved = line.reserved /\ item'.reserved = item.reserved
      BY <2>1, TransitionRows, LoseRows, ArchiveRows
    <3> QED BY <3>1 DEF Counted
  <2>2. CASE Abort(r)
    BY <1>3, <2>2 DEF Abort
  <2> QED BY <1>2, <1>6, <2>1, <2>2, ReleaseAccounts, StepAccounts, PurchaseAccounts,
             CancelAccounts, RestoreAccounts DEF Answers
<1>7. QED
  BY <1>3, <1>4, <1>5, <1>6, StepKinds DEF vars

LEMMA CountedIsClaims ==
  Counted <=> ClaimsCounted /\ CatalogueCounted
BY ClaimsArePromised, HoldersAre DEF Counted, ClaimsCounted, CatalogueCounted, HolderCount

LEMMA CountedIsBacked ==
  ASSUME IsFiniteSet(Dossiers), IsFiniteSet(Reservations), Stocked, Counted
  PROVE  PromisesBacked
<1>1. Claims <= offer.reserved
  BY CountedIsClaims DEF ClaimsCounted
<1>2. PICK a, b, o, v, p : /\ a = Promised(reservation) /\ b = HolderCount(dossier)
                           /\ o = offer.reserved /\ v = offer.available /\ p = line.purchased
  OBVIOUS
<1>3. a \in Nat /\ b \in Nat /\ Claims = a + b
  BY <1>2, PromisedIsNat, HolderCountIsNat, ClaimsArePromised, HoldersAre DEF HolderCount
<1>4. o \in Int /\ v \in Int /\ p \in Int /\ o <= v /\ v + p <= Quantity
  BY <1>2, TypedIsTypeOK, QuantityIsNat
  DEF Stocked, Rows, TypedRows, OfferRows, LineRows, Backed
<1>5. a + b + p <= Quantity
  BY <1>1, <1>2, <1>3, <1>4, QuantityIsNat
<1> QED BY <1>2, <1>3, <1>5 DEF PromisesBacked

LEMMA InitCounted ==
  ASSUME IsFiniteSet(Dossiers), IsFiniteSet(Reservations), Init
  PROVE  InTurn /\ Bought /\ Counted
<1>1. Absent.bought = FALSE
  BY DEF Absent
<1>2. InTurn /\ Bought
  BY <1>1 DEF Init, InTurn, Says, Idle, Bought
<1>3. offer.reserved = 0 /\ line.reserved = 0 /\ item.reserved = 0
  BY DEF Init
<1>4. ActiveIn(reservation) = {} /\ HoldersIn(dossier) = {}
  BY DEF Init, ActiveIn, HoldersIn, HoldsIn, Unused, Absent
<1>5. Promised(reservation) = 0 /\ HolderCount(dossier) = 0
  BY <1>4, NoUnits, QuantitiesAreUnits, FS_EmptySet DEF Promised, HolderCount
<1> QED BY <1>2, <1>3, <1>5 DEF Counted

(* Any number of requests: as long as none writes on rows that moved since   *)
(* it read them, every claim is counted and nothing is sold twice.  Only a   *)
(* stale write, such as the second release of a reservation, miscounts.      *)
THEOREM CountingUnlessStale ==
  ASSUME IsFiniteSet(Dossiers), IsFiniteSet(Reservations)
  PROVE  Spec /\ []InTurn => [](ClaimsCounted /\ CatalogueCounted /\ PromisesBacked)
  <1>1. Init => Stocked /\ Bought /\ Counted
    BY InitStocked, InitCounted
  <1>2. Stocked /\ InTurn /\ Bought /\ Counted /\ [Next]_vars => Stocked' /\ Bought' /\ Counted'
    BY StepStocked, StepBought, StepCounted
  <1>3. Stocked /\ Counted => ClaimsCounted /\ CatalogueCounted /\ PromisesBacked
    BY CountedIsClaims, CountedIsBacked
  <1> QED BY <1>1, <1>2, <1>3, PTL DEF Spec

(* One request at a time, nothing is stale.                                  *)
LEMMA AlwaysInTurn ==
  ASSUME IsFiniteSet(Dossiers), IsFiniteSet(Reservations), OneAtATime
  PROVE  Spec => []InTurn
  <1>1. Init => Stocked /\ InTurn
    BY InitStocked, InitCounted
  <1>2. Stocked => DOMAIN req = Requests
    BY DEF Stocked
  <1>3. Stocked /\ InTurn /\ [Next]_vars => Stocked' /\ InTurn'
    BY <1>2, StepStocked, StepInTurn
  <1> QED BY <1>1, <1>3, PTL DEF Spec

(* One request at a time, every claim is counted on the offer: a unit that   *)
(* is promised is not offered to somebody else.                              *)
THEOREM Claimed ==
  ASSUME IsFiniteSet(Dossiers), IsFiniteSet(Reservations), OneAtATime
  PROVE  Spec => []ClaimsCounted
  BY AlwaysInTurn, CountingUnlessStale, PTL

(* One request at a time, every dossier sold from the catalogue is counted   *)
(* on the item, and the line reserves nothing but what the item does.        *)
THEOREM CatalogueClaimed ==
  ASSUME IsFiniteSet(Dossiers), IsFiniteSet(Reservations), OneAtATime
  PROVE  Spec => []CatalogueCounted
  BY AlwaysInTurn, CountingUnlessStale, PTL

(* One request at a time, nothing is sold twice: what is promised and what   *)
(* was bought never exceed what the supplier offers.                         *)
THEOREM SoldOnce ==
  ASSUME IsFiniteSet(Dossiers), IsFiniteSet(Reservations), OneAtATime
  PROVE  Spec => []PromisesBacked
  BY AlwaysInTurn, CountingUnlessStale, PTL
=============================================================================
