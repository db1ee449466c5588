----------------------------- MODULE OfferStock -----------------------------
(***************************************************************************)
(* The stock of a supplier offer: a ChinaOffer, its vehicle line and the   *)
(* catalogue item published from the line, each with counters of its own,  *)
(* and the claims on them: reservations of the offer, and dossiers sold    *)
(* from the catalogue.                                                     *)
(*                                                                         *)
(* A Serializable transaction, or one whose every write repeats its check, *)
(* is one action.  A handler that reads first and writes by id later is a  *)
(* Read action, which leaves what it saw in `req', and a commit.  Validity *)
(* dates only refuse requests and are left out; a reservation may fall due *)
(* at any moment.                                                          *)
(***************************************************************************)
EXTENDS DossierWorkflow, FiniteSets

CONSTANTS
  Dossiers,
  Reservations,
  NoDossier,       \* the empty dossierId of a reservation
  Requests,        \* handlers that may be in flight at the same time
  Quantity,        \* the vehicles the supplier offers
  Steps,           \* the steps of the dossiers' workflow, in order
  Ops              \* the operations clients call

ASSUME StockAssumption ==
  /\ NoDossier \notin Dossiers
  /\ Quantity \in Nat \ {0}
  /\ Steps \in Seq(AllStatuses \ {"cancelled"}) /\ Steps # << >>
  /\ \A i, j \in DOMAIN Steps : Steps[i] = Steps[j] => i = j

VARIABLES
  offer,           \* ChinaOffer
  line,            \* ChinaOfferVehicle
  item,            \* CatalogueItem
  dossier,         \* the rows of the dossiers
  reservation,     \* OfferReservation
  req              \* the context of each request

vars == << offer, line, item, dossier, reservation, req >>

-----------------------------------------------------------------------------
OfferStatuses ==
  {"RECEIVED", "UNDER_VERIFICATION", "VALIDATED", "RESERVED", "PURCHASED",
   "LOST_DEAL", "EXPIRED"}

OFFER_TRANSITIONS ==
  [ s \in OfferStatuses |->
      CASE s = "RECEIVED"           -> {"UNDER_VERIFICATION", "LOST_DEAL", "EXPIRED"}
        [] s = "UNDER_VERIFICATION" -> {"VALIDATED", "LOST_DEAL", "EXPIRED"}
        [] s = "VALIDATED"          -> {"RESERVED", "LOST_DEAL", "EXPIRED"}
        [] s = "RESERVED"           -> {"VALIDATED", "LOST_DEAL", "EXPIRED"}
        [] s = "EXPIRED"            -> {"UNDER_VERIFICATION"}
        [] OTHER                    -> {} ]

Unsellable == {"PURCHASED", "LOST_DEAL", "EXPIRED"}

(* DOSSIER_COMMERCE_ACTION *)
getDossierCommerceAction(status) ==
  CASE status \in {"offerSelected", "clientConfirmed", "contractSigned",
                   "depositReceived", "vehicleBooking", "inspection"} -> "reserve"
    [] status = "purchaseConfirmed" -> "purchase"
    [] status = "cancelled" -> "release"
    [] OTHER -> "none"

Idle == [op |-> "idle"]

(* A dossier sold from the catalogue has `bought' once it has a confirmed    *)
(* purchase of the line.                                                     *)
Absent ==
  [status |-> "absent", cancelledFrom |-> "none", catalogue |-> FALSE, bought |-> FALSE]
Unused == [status |-> "unused", quantity |-> 0, dossier |-> NoDossier]

Exists(d) == dossier[d].status # "absent"

Follows(from, to) ==
  /\ from \notin TERMINAL_STATUSES
  /\ \/ to = "cancelled"
     \/ \E i \in 2 .. Len(Steps) : Steps[i - 1] = from /\ Steps[i] = to

ActiveReservations == {k \in Reservations : reservation[k].status = "active"}
ReservationsOf(d) == {k \in Reservations : reservation[k].dossier = d}

(* The units of the reservations S together, counted one by one.             *)
Quantities(S) ==
  Cardinality({u \in S \X (1 .. Quantity) : u[2] <= reservation[u[1]].quantity})

SetReservations(S, status) ==
  [ k \in Reservations |->
      IF k \in S THEN [reservation[k] EXCEPT !.status = status] ELSE reservation[k] ]

-----------------------------------------------------------------------------
(* The CHECK constraints of the three tables: a transaction that would break *)
(* one of them is rolled back.                                               *)
Checked ==
  /\ offer'.reserved >= 0 /\ offer'.reserved <= offer'.available
  /\ line'.reserved >= 0 /\ line'.reserved + line'.purchased <= Quantity
  /\ item'.reserved >= 0 /\ item'.reserved <= item'.available

Serve(op) ==
  /\ op \in Ops
  /\ \E r \in Requests : req[r] = Idle
  /\ UNCHANGED req

Start(r, context) ==
  /\ context.op \in Ops
  /\ req[r] = Idle
  /\ req' = [req EXCEPT ![r] = context]
  /\ UNCHANGED << offer, line, item, dossier, reservation >>

Finish(r, op) ==
  /\ req[r].op = op
  /\ req' = [req EXCEPT ![r] = Idle]
  /\ Checked

(* A transition holds the row of its dossier until its commit. *)
Locked(d) == \E r \in Requests : req[r].op \in {"advance", "cancel"} /\ req[r].d = d

-----------------------------------------------------------------------------
(* How a claim becomes a purchase or is given up. *)

(* Mutant: a purchase leaves the unit on offer. *)
ConsumeOfferKeepsAvailable(o, q) ==
  [o EXCEPT !.reserved = @ - q, !.status = IF o.reserved > q THEN "RESERVED" ELSE "VALIDATED"]

ConsumeOffer(o, q) ==
  [ o EXCEPT !.reserved = @ - q, !.available = @ - q,
             !.status = CASE o.available = q -> "PURCHASED"
                          [] o.available # q /\ o.reserved > q -> "RESERVED"
                          [] OTHER -> "VALIDATED" ]

(* Mutant: the release writes the status the listings derive. *)
ReleaseOfferToDerived(o, q) == [o EXCEPT !.reserved = @ - q, !.status = "available"]

ReleaseOffer(o, q) ==
  [ o EXCEPT !.reserved = @ - q,
             !.status = IF o.reserved > q THEN "RESERVED" ELSE "VALIDATED" ]

ConsumeLine ==
  [ line EXCEPT !.reserved = @ - 1, !.purchased = @ + 1,
                !.status = CASE line.purchased + 1 >= Quantity -> "PURCHASED"
                             [] line.purchased + 1 < Quantity /\ line.reserved > 1 -> "RESERVED"
                             [] OTHER -> "VALIDATED" ]

ReleaseLine ==
  [ line EXCEPT !.reserved = @ - 1,
                !.status = IF line.reserved > 1 THEN "RESERVED" ELSE "VALIDATED" ]

(* A purchase outside the dossiers: the line and the catalogue give a unit   *)
(* up, whoever had claimed it.                                               *)
LineAfterPurchase ==
  [ line EXCEPT !.purchased = @ + 1,
                !.reserved  = IF @ > 0 THEN @ - 1 ELSE 0,
                !.status    = IF line.purchased + 1 >= Quantity THEN "PURCHASED"
                              ELSE "VALIDATED" ]

(* Mutant: the item gives a reserved unit up, as the line does. *)
ItemAfterPurchaseUnreserved ==
  IF item.published /\ item.available > 0
  THEN [item EXCEPT !.available = @ - 1, !.reserved = IF @ > 0 THEN @ - 1 ELSE 0]
  ELSE item

ItemAfterPurchase ==
  IF item.published
  THEN [item EXCEPT !.available = IF @ - 1 > item.reserved THEN @ - 1 ELSE item.reserved]
  ELSE item

(* A new claim of a dossier on the catalogue. *)
CatalogueClaimable ==
  /\ item.published /\ ~ item.archived
  /\ item.reserved < item.available
  /\ line.reserved + line.purchased < Quantity

TakeOne(row) == [row EXCEPT !.reserved = @ + 1]

-----------------------------------------------------------------------------
(* Reservations of the offer. *)

reserve(k, q) ==
  /\ Serve("reserve")
  /\ reservation[k] = Unused
  /\ ~ offer.archived
  /\ offer.reserved + q <= offer.available
  /\ offer' = [offer EXCEPT !.reserved = @ + q, !.status = "RESERVED"]
  /\ reservation' = [reservation EXCEPT ![k] = [status |-> "active", quantity |-> q,
                                                dossier |-> NoDossier]]
  /\ UNCHANGED << line, item, dossier >>

(* The dossier may be in any status; a second call returns its reservation. *)
assignToDossier(k, d) ==
  /\ Serve("assignToDossier")
  /\ Exists(d)
  /\ ReservationsOf(d) = {}
  /\ reservation[k] = Unused
  /\ ~ offer.archived
  /\ offer.status \in {"VALIDATED", "RESERVED"}
  /\ offer.reserved < offer.available
  /\ offer' = [TakeOne(offer) EXCEPT !.status = "RESERVED"]
  /\ reservation' = [reservation EXCEPT ![k] = [status |-> "active", quantity |-> 1,
                                                dossier |-> d]]
  /\ UNCHANGED << line, item, dossier >>

ReadRelease(r, k) ==
  /\ reservation[k].status = "active"
  /\ Start(r, [op |-> "release", ks |-> {k}, to |-> "released"])

(* Every listing of the offers first expires the reservations that are due. *)
ReadExpireReservations(r) ==
  \E due \in SUBSET ActiveReservations \ {{}} :
    Start(r, [op |-> "release", ks |-> due, to |-> "expired"])

CommitRelease(r) ==
  /\ req[r].op = "release"
  /\ offer' = [offer EXCEPT !.reserved = @ - Quantities(req[r].ks)]
  /\ reservation' = SetReservations(req[r].ks, req[r].to)
  /\ UNCHANGED << line, item, dossier >>
  /\ Finish(r, "release")

(* The purchase of a reserved vehicle; a linked dossier moves on with it. *)
materialize(k) ==
  /\ Serve("materialize")
  /\ reservation[k].status = "active"
  /\ reservation[k].quantity = 1
  /\ line.status \notin Unsellable
  /\ line.purchased < Quantity
  /\ LET d == reservation[k].dossier
     IN IF d = NoDossier
        THEN UNCHANGED dossier
        ELSE /\ ~ Locked(d)
             /\ Follows(dossier[d].status, "purchaseConfirmed")
             /\ dossier' = [dossier EXCEPT ![d].status = "purchaseConfirmed",
                                           ![d].bought = dossier[d].catalogue]
  /\ reservation' = SetReservations({k}, "consumed")
  /\ line' = LineAfterPurchase
  /\ item' = ItemAfterPurchase
  /\ offer' = [offer EXCEPT !.reserved = @ - 1, !.available = @ - 1,
                            !.status = IF offer.available = 1 THEN "PURCHASED" ELSE @]
  /\ Checked

(* The purchase of a vehicle nobody has reserved on the offer. *)
purchaseOfferVehicle ==
  /\ Serve("purchaseOfferVehicle")
  /\ offer.status \notin {"EXPIRED", "LOST_DEAL"}
  /\ line.status \in {"VALIDATED", "RESERVED"}
  /\ line.purchased < Quantity
  /\ offer.reserved < offer.available
  /\ line' = LineAfterPurchase
  /\ item' = ItemAfterPurchase
  /\ offer' = [offer EXCEPT !.available = @ - 1,
                            !.status = IF offer.available = 1 THEN "PURCHASED" ELSE @]
  /\ UNCHANGED << dossier, reservation >>
  /\ Checked

-----------------------------------------------------------------------------
(* The offer, its line and its publication. *)

ReadTransition(r, to) ==
  /\ to \in OFFER_TRANSITIONS[offer.status]
  /\ Start(r, [op |-> "transition", to |-> to])

CommitTransition(r) ==
  /\ req[r].op = "transition"
  /\ LET to == req[r].to
     IN /\ offer' = [offer EXCEPT !.status = to]
        /\ line' = [line EXCEPT !.status = IF @ \in {"PURCHASED", "LOST_DEAL"} THEN @ ELSE to]
        /\ item' = [item EXCEPT !.archived = @ \/ (item.published /\ to \in {"LOST_DEAL", "EXPIRED"})]
  /\ UNCHANGED << dossier, reservation >>
  /\ Finish(r, "transition")

ReadLoseOfferVehicle(r) ==
  /\ line.purchased < Quantity
  /\ line.reserved = 0
  /\ Start(r, [op |-> "loseOfferVehicle"])

CommitLoseOfferVehicle(r) ==
  /\ req[r].op = "loseOfferVehicle"
  /\ line' = [line EXCEPT !.status = "LOST_DEAL"]
  /\ item' = [item EXCEPT !.archived = @ \/ item.published]
  /\ UNCHANGED << offer, dossier, reservation >>
  /\ Finish(r, "loseOfferVehicle")

ReadArchive(r) ==
  /\ ActiveReservations = {}
  /\ Start(r, [op |-> "archive"])

CommitArchive(r) ==
  /\ req[r].op = "archive"
  /\ offer' = [offer EXCEPT !.archived = TRUE]
  /\ UNCHANGED << line, item, dossier, reservation >>
  /\ Finish(r, "archive")

(* A new quotation (re)publishes the line in the catalogue. *)
publish ==
  /\ Serve("publish")
  /\ ~ offer.archived
  /\ line.status \notin Unsellable
  /\ line.purchased < Quantity
  /\ item' = [ published |-> TRUE, archived |-> FALSE, reserved |-> item.reserved,
               available |-> LET left == Quantity - line.purchased
                             IN IF item.reserved > left THEN item.reserved ELSE left ]
  /\ UNCHANGED << offer, line, dossier, reservation >>

-----------------------------------------------------------------------------
(* Dossiers: sold from the catalogue, from a reservation, or neither. *)

NewDossier(catalogue) == [Absent EXCEPT !.status = Steps[1], !.catalogue = catalogue]

(* markOfferReserved, on the rows the transaction has read. *)
LineReserved(l) ==
  [ l EXCEPT !.status = IF @ \in {"RECEIVED", "UNDER_VERIFICATION", "VALIDATED"}
                        THEN "RESERVED" ELSE @ ]

createFromCatalogue(d) ==
  /\ Serve("create")
  /\ dossier[d] = Absent
  /\ CatalogueClaimable
  /\ ~ offer.archived
  /\ {line.status, offer.status} \intersect Unsellable = {}
  /\ offer.reserved < offer.available
  /\ offer' = [TakeOne(offer) EXCEPT !.status = "RESERVED"]
  /\ line' = LineReserved(TakeOne(line))
  /\ item' = TakeOne(item)
  /\ dossier' = [dossier EXCEPT ![d] = NewDossier(TRUE)]
  /\ UNCHANGED reservation

createFromReservation(d, k) ==
  /\ Serve("create")
  /\ dossier[d] = Absent
  /\ reservation[k].status = "active"
  /\ reservation[k].dossier = NoDossier
  /\ reservation' = [reservation EXCEPT ![k].dossier = d]
  /\ dossier' = [dossier EXCEPT ![d] = NewDossier(FALSE)]
  /\ UNCHANGED << offer, line, item >>

createWithoutOffer(d) ==
  /\ Serve("create")
  /\ dossier[d] = Absent
  /\ dossier' = [dossier EXCEPT ![d] = NewDossier(FALSE)]
  /\ UNCHANGED << offer, line, item, reservation >>

(* The claim of a transition, and what its commerce synchronisation reads:   *)
(* the claims it will have to settle.                                        *)
ReadStatus(r, d, to) ==
  /\ Exists(d)
  /\ ~ Locked(d)
  /\ Follows(dossier[d].status, to)
  /\ Start(r, [ op |-> IF to = "cancelled" THEN "cancel" ELSE "advance", d |-> d, to |-> to,
                viaItem |-> dossier[d].catalogue /\ item.reserved > 0,
                ks |-> ReservationsOf(d) \intersect ActiveReservations,
                marks |-> line.reserved > 0,
                lineStatus |-> line.status, offerStatus |-> offer.status ])

Moved(d, to) ==
  [ dossier EXCEPT ![d].status = to,
                   ![d].cancelledFrom = IF to = "cancelled" THEN dossier[d].status ELSE @,
                   ![d].bought = @ \/ (to = "purchaseConfirmed" /\ dossier[d].catalogue) ]

(* A reserving step marks the offer and the line of a catalogue claim. *)
CommitReserving(r) ==
  /\ req[r].op = "advance"
  /\ LET c == req[r]
         marking == c.viaItem /\ c.marks
     IN /\ getDossierCommerceAction(c.to) = "reserve"
        /\ dossier' = Moved(c.d, c.to)
        /\ line' = IF marking /\ LineReserved([status |-> c.lineStatus]).status # c.lineStatus
                   THEN [line EXCEPT !.status = "RESERVED"] ELSE line
        /\ offer' = IF marking /\ c.offerStatus # "RESERVED"
                    THEN [offer EXCEPT !.status = "RESERVED"] ELSE offer
  /\ UNCHANGED << item, reservation >>
  /\ Finish(r, "advance")

(* The purchase consumes the claims; each counter is checked again. *)
CommitPurchase(r) ==
  /\ req[r].op = "advance"
  /\ LET c == req[r]
         settled == IF c.viaItem THEN ConsumeOffer(offer, 1) ELSE offer
         q == Quantities(c.ks)
     IN /\ getDossierCommerceAction(c.to) = "purchase"
        /\ dossier' = Moved(c.d, c.to)
        /\ c.viaItem => item.reserved > 0 /\ line.reserved > 0 /\ offer.reserved > 0
        /\ item' = IF c.viaItem THEN [item EXCEPT !.reserved = @ - 1, !.available = @ - 1]
                   ELSE item
        /\ line' = IF c.viaItem THEN ConsumeLine ELSE line
        /\ reservation' = SetReservations(c.ks, "consumed")
        /\ offer' = IF c.ks = {} THEN settled ELSE ConsumeOffer(settled, q)
  /\ Finish(r, "advance")

CommitOtherStep(r) ==
  /\ req[r].op = "advance"
  /\ getDossierCommerceAction(req[r].to) = "none"
  /\ dossier' = Moved(req[r].d, req[r].to)
  /\ UNCHANGED << offer, line, item, reservation >>
  /\ Finish(r, "advance")

(* Mutant: the cancellation does not look for a purchase of the dossier. *)
CommitCancelBought(r) ==
  /\ req[r].op = "cancel"
  /\ LET c == req[r]
         settled == IF c.viaItem THEN ReleaseOffer(offer, 1) ELSE offer
     IN /\ dossier' = Moved(c.d, "cancelled")
        /\ c.viaItem => item.reserved > 0 /\ line.reserved > 0 /\ offer.reserved > 0
        /\ item' = IF c.viaItem THEN [item EXCEPT !.reserved = @ - 1] ELSE item
        /\ line' = IF c.viaItem THEN ReleaseLine ELSE line
        /\ reservation' = SetReservations(c.ks, "released")
        /\ offer' = IF c.ks = {} THEN settled ELSE ReleaseOffer(settled, Quantities(c.ks))
  /\ Finish(r, "cancel")

(* The cancellation gives the claims up, but not one that was bought. *)
CommitCancel(r) ==
  /\ req[r].op = "cancel"
  /\ LET c == req[r]
         viaItem == c.viaItem /\ ~ dossier[c.d].bought
         settled == IF viaItem THEN ReleaseOffer(offer, 1) ELSE offer
         q == Quantities(c.ks)
     IN /\ dossier' = Moved(c.d, "cancelled")
        /\ viaItem => item.reserved > 0 /\ line.reserved > 0 /\ offer.reserved > 0
        /\ item' = IF viaItem THEN [item EXCEPT !.reserved = @ - 1] ELSE item
        /\ line' = IF viaItem THEN ReleaseLine ELSE line
        /\ reservation' = SetReservations(c.ks, "released")
        /\ offer' = IF c.ks = {} THEN settled ELSE ReleaseOffer(settled, q)
  /\ Finish(r, "cancel")

(* POST :id/restore claims again what the cancellation gave up. *)
ReadRestore(r, d) ==
  /\ dossier[d].status = "cancelled"
  /\ \A k \in ReservationsOf(d) :
       /\ reservation[k].status \in {"active", "released"}
       /\ reservation[k].status = "released" =>
            ~ offer.archived /\ offer.reserved + reservation[k].quantity <= offer.available
  /\ dossier[d].catalogue => ~ item.archived /\ item.reserved < item.available
  /\ Start(r, [ op |-> "restore", d |-> d, to |-> dossier[d].cancelledFrom,
                ks |-> ReservationsOf(d) \ ActiveReservations ])

CommitRestore(r) ==
  /\ req[r].op = "restore"
  /\ LET c == req[r]
         q == Quantities(c.ks)
         claims == dossier[c.d].catalogue
     IN /\ ~ Locked(c.d)
        /\ c.ks # {} => ~ offer.archived /\ offer.reserved + q <= offer.available
        /\ claims => CatalogueClaimable
        /\ item' = IF claims THEN TakeOne(item) ELSE item
        /\ line' = IF claims THEN TakeOne(line) ELSE line
        /\ offer' = [offer EXCEPT !.reserved = @ + q + (IF claims THEN 1 ELSE 0)]
        /\ reservation' = SetReservations(c.ks, "active")
        /\ dossier' = [dossier EXCEPT ![c.d].status = c.to, ![c.d].cancelledFrom = "none"]
  /\ Finish(r, "restore")

Abort(r) ==
  /\ req[r] # Idle
  /\ req' = [req EXCEPT ![r] = Idle]
  /\ UNCHANGED << offer, line, item, dossier, reservation >>

-----------------------------------------------------------------------------
Init ==
  /\ offer = [status |-> "RECEIVED", available |-> Quantity, reserved |-> 0, archived |-> FALSE]
  /\ line = [status |-> "RECEIVED", reserved |-> 0, purchased |-> 0]
  /\ item = [published |-> FALSE, archived |-> FALSE, available |-> 0, reserved |-> 0]
  /\ dossier = [d \in Dossiers |-> Absent]
  /\ reservation = [k \in Reservations |-> Unused]
  /\ req = [r \in Requests |-> Idle]

Next ==
  \/ \E k \in Reservations :
       \/ \E q \in 1 .. Quantity : reserve(k, q)
       \/ \E d \in Dossiers : assignToDossier(k, d)
       \/ materialize(k)
  \/ purchaseOfferVehicle
  \/ publish
  \/ \E d \in Dossiers :
       \/ createFromCatalogue(d)
       \/ createWithoutOffer(d)
       \/ \E k \in Reservations : createFromReservation(d, k)
  \/ \E r \in Requests :
       \/ \E k \in Reservations : ReadRelease(r, k)
       \/ ReadExpireReservations(r)
       \/ CommitRelease(r)
       \/ \E to \in OfferStatuses : ReadTransition(r, to)
       \/ CommitTransition(r)
       \/ ReadLoseOfferVehicle(r) \/ CommitLoseOfferVehicle(r)
       \/ ReadArchive(r) \/ CommitArchive(r)
       \/ \E d \in Dossiers, to \in AllStatuses : ReadStatus(r, d, to)
       \/ CommitReserving(r) \/ CommitPurchase(r) \/ CommitOtherStep(r) \/ CommitCancel(r)
       \/ \E d \in Dossiers : ReadRestore(r, d)
       \/ CommitRestore(r)
       \/ Abort(r)

Spec == Init /\ [][Next]_vars

-----------------------------------------------------------------------------
(* Who has a claim on a unit: an active reservation, or a dossier sold from  *)
(* the catalogue that has neither bought nor given its unit up.              *)
Holds(d) ==
  /\ dossier[d].catalogue
  /\ ~ dossier[d].bought
  /\ dossier[d].status \notin TERMINAL_STATUSES

Holders == {d \in Dossiers : Holds(d)}
Claims == Quantities(ActiveReservations) + Cardinality(Holders)

(* The rows have the shape the handlers give them. *)
TypeOK ==
  /\ offer \in [status : OfferStatuses, available : 0 .. Quantity, reserved : 0 .. Quantity,
                archived : BOOLEAN]
  /\ line \in [status : OfferStatuses, reserved : 0 .. Quantity, purchased : 0 .. Quantity]
  /\ item \in [published : BOOLEAN, archived : BOOLEAN, available : 0 .. Quantity,
               reserved : 0 .. Quantity]
  /\ dossier \in [Dossiers -> [status : AllStatuses \union {"absent"},
                               cancelledFrom : AllStatuses \union {"none"},
                               catalogue : BOOLEAN, bought : BOOLEAN]]
  /\ reservation \in [Reservations ->
       [status : {"unused", "active", "released", "expired", "consumed"},
        quantity : 0 .. Quantity, dossier : Dossiers \union {NoDossier}]]

(* Nothing is sold twice: the units promised and the units bought never      *)
(* exceed what the supplier offers.                                          *)
PromisesBacked == Claims + line.purchased <= Quantity

(* Every claim is counted on the offer: a unit that is promised is not       *)
(* offered to somebody else.                                                 *)
ClaimsCounted == Claims <= offer.reserved

(* Every dossier sold from the catalogue is counted on its item, and no unit *)
(* of the line is reserved but through the item.                             *)
CatalogueCounted ==
  Cardinality(Holders) <= item.reserved /\ line.reserved <= item.reserved
=============================================================================
