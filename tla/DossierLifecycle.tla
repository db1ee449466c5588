-------------------------- MODULE DossierLifecycle --------------------------
(***************************************************************************)
(* The row of one dossier under concurrent requests.                       *)
(*                                                                         *)
(* A handler of DossiersService reads the row first, checks it, and only   *)
(* then opens the transaction that writes it.  A request is therefore two  *)
(* actions: Read, which leaves a context in `req', and the commit of that  *)
(* context, which sees the row as it is by then.  A context may also die   *)
(* between the two (an exception, a lost connection, a restart).           *)
(***************************************************************************)
EXTENDS DossierWorkflow, FiniteSets

CONSTANTS
  Requests,        \* handlers that may be in flight at the same time
  Types,           \* the dossier types clients ask for
  Versions,        \* the workflow versions of dossiers that exist
  Ops              \* the operations clients call

ASSUME LifecycleAssumption ==
  /\ Types \subseteq DossierTypes
  /\ Versions \subseteq {1, 2}

VARIABLES
  dossier,         \* the row, or NoRow
  shipped,         \* whether a shipment carries a vehicle of the dossier
  req              \* the context of each request

vars == << dossier, shipped, req >>

-----------------------------------------------------------------------------
NoRow == [exists |-> FALSE]
Idle == [op |-> "idle"]

(* Mutant: creation writes a workflow version that no table knows. *)
NewRowOfNextVersion(type, version) ==
  [ exists |-> TRUE, type |-> type, version |-> version + 1,
    status |-> getInitialStatus(type), archived |-> FALSE,
    cancelledFrom |-> "none", delivered |-> FALSE ]

(* cancelledFrom is the fromStatus of the latest history entry that leads to *)
(* "cancelled"; delivered says that some entry leads to documentsDelivered.  *)
NewRow(type, version) ==
  [ exists        |-> TRUE,
    type          |-> type,
    version       |-> version,
    status        |-> getInitialStatus(type),
    archived      |-> FALSE,
    cancelledFrom |-> "none",
    delivered     |-> FALSE ]

Rows ==
  [ exists : {TRUE}, type : DossierTypes, version : Versions,
    status : AllStatuses, archived : BOOLEAN,
    cancelledFrom : AllStatuses \union {"none"}, delivered : BOOLEAN ]

IsTerminal == dossier.status \in TERMINAL_STATUSES

(* A history entry that ends in status s. *)
Recorded(row, from, s) ==
  [ row EXCEPT !.cancelledFrom = IF s = "cancelled" THEN from ELSE @,
               !.delivered     = @ \/ s = "documentsDelivered" ]

-----------------------------------------------------------------------------
(* Reads: the checks each handler makes before its transaction. *)

Start(r, op, context) ==
  /\ op \in Ops
  /\ dossier.exists
  /\ req[r] = Idle
  /\ req' = [req EXCEPT ![r] = context]
  /\ UNCHANGED << dossier, shipped >>

(* PATCH :id/status and POST :id/advance, cancellation included. *)
ReadUpdateStatus(r) ==
  \E to \in AllStatuses :
    /\ dossier.exists
    /\ validateTransition(dossier.type, dossier.status, to, dossier.version, shipped)
    /\ Start(r, "updateStatus", [op |-> "updateStatus", from |-> dossier.status, to |-> to])

(* The checks of confirmPurchase; a shipment is assumed by default. *)
ReadConfirmPurchase(r) ==
  /\ dossier.exists
  /\ dossier.type # "SHIPPING_ONLY"
  /\ validateTransition(dossier.type, dossier.status, "purchaseConfirmed",
                        dossier.version, TRUE)
  /\ Start(r, "confirmPurchase", [op |-> "confirmPurchase", from |-> dossier.status])

(* Mutant: the upgrade does not look for a documentsDelivered in the history. *)
ReadUpgradeToDdpWhenever(r) ==
  /\ dossier.exists
  /\ dossier.type = "VEHICLE_SALE_CIF"
  /\ ~ IsTerminal
  /\ Start(r, "upgradeToDdp", [op |-> "upgradeToDdp", from |-> dossier.status])

ReadUpgradeToDdp(r) ==
  /\ dossier.exists
  /\ dossier.type = "VEHICLE_SALE_CIF"
  /\ ~ dossier.delivered
  /\ ~ IsTerminal
  /\ Start(r, "upgradeToDdp", [op |-> "upgradeToDdp", from |-> dossier.status])

(* PATCH :id, the edit of the team or of the duty; it checks no status. *)
ReadUpdate(r) ==
  /\ dossier.exists
  /\ Start(r, "update", [op |-> "update", from |-> dossier.status])

ReadRestore(r) ==
  /\ dossier.exists
  /\ dossier.archived
  /\ Start(r, "restore",
           [op |-> "restore",
            to |-> IF dossier.cancelledFrom = "none"
                   THEN getInitialStatus(dossier.type) ELSE dossier.cancelledFrom])

ReadPermanentlyDelete(r) ==
  /\ dossier.exists
  /\ dossier.archived
  /\ Start(r, "permanentlyDelete", [op |-> "permanentlyDelete"])

-----------------------------------------------------------------------------
(* Commits: the transaction of each handler.  An update or a delete by id of *)
(* a row that is gone throws, and the transaction is rolled back.            *)

Finish(r, op, row) ==
  /\ req[r].op = op
  /\ dossier.exists
  /\ dossier' = row
  /\ req' = [req EXCEPT ![r] = Idle]
  /\ UNCHANGED shipped

(* The conditional claim on the status that was read is what makes this one  *)
(* safe; an exception after it rolls it back.                                *)
Claimed(r) ==
  /\ dossier.status = req[r].from
  /\ ~ dossier.archived

CommitUpdateStatus(r) ==
  /\ req[r].op = "updateStatus"
  /\ dossier.exists
  /\ Claimed(r)
  /\ LET to == req[r].to
     IN Finish(r, "updateStatus",
          Recorded([dossier EXCEPT !.status = to, !.archived = @ \/ to = "cancelled"],
                   req[r].from, to))

CommitConfirmPurchase(r) ==
  /\ req[r].op = "confirmPurchase"
  /\ Finish(r, "confirmPurchase", [dossier EXCEPT !.status = "purchaseConfirmed"])

CommitUpgradeToDdp(r) ==
  /\ req[r].op = "upgradeToDdp"
  /\ Finish(r, "upgradeToDdp",
            Recorded([dossier EXCEPT !.type = "VEHICLE_SALE_DDP"], req[r].from, req[r].from))

CommitUpdate(r) ==
  /\ req[r].op = "update"
  /\ Finish(r, "update", Recorded(dossier, req[r].from, req[r].from))

(* Mutant: a restore starts the workflow again. *)
CommitRestoreToStart(r) ==
  /\ req[r].op = "restore"
  /\ Finish(r, "restore",
            [dossier EXCEPT !.status = getInitialStatus(dossier.type), !.archived = FALSE])

CommitRestore(r) ==
  /\ req[r].op = "restore"
  /\ Finish(r, "restore",
            Recorded([dossier EXCEPT !.status = req[r].to, !.archived = FALSE],
                     "cancelled", req[r].to))

CommitPermanentlyDelete(r) == Finish(r, "permanentlyDelete", NoRow)

Abort(r) ==
  /\ req[r] # Idle
  /\ req' = [req EXCEPT ![r] = Idle]
  /\ UNCHANGED << dossier, shipped >>

(* Shipments are created and emptied elsewhere, at any moment. *)
ShipmentChanges ==
  /\ shipped' = ~ shipped
  /\ UNCHANGED << dossier, req >>

-----------------------------------------------------------------------------
(* POST /dossiers writes version 2; version 1 rows predate the migration.    *)
Init ==
  /\ dossier \in {NewRow(t, v) : t \in Types, v \in Versions}
  /\ shipped = FALSE
  /\ req = [r \in Requests |-> Idle]

Next ==
  \/ \E r \in Requests :
       \/ ReadUpdateStatus(r)      \/ CommitUpdateStatus(r)
       \/ ReadConfirmPurchase(r)   \/ CommitConfirmPurchase(r)
       \/ ReadUpgradeToDdp(r)      \/ CommitUpgradeToDdp(r)
       \/ ReadUpdate(r)            \/ CommitUpdate(r)
       \/ ReadRestore(r)           \/ CommitRestore(r)
       \/ ReadPermanentlyDelete(r) \/ CommitPermanentlyDelete(r)
       \/ Abort(r)
  \/ ShipmentChanges

Spec == Init /\ [][Next]_vars

-----------------------------------------------------------------------------
Contexts ==
  {Idle}
  \union [op : {"updateStatus"}, from : AllStatuses, to : AllStatuses]
  \union [op : {"confirmPurchase", "upgradeToDdp", "update"}, from : AllStatuses]
  \union [op : {"restore"}, to : AllStatuses]
  \union [op : {"permanentlyDelete"}]

(* The row and the contexts have the shape the handlers give them. *)
TypeOK ==
  /\ dossier \in Rows \union {NoRow}
  /\ shipped \in BOOLEAN
  /\ req \in [Requests -> Contexts]

(* A dossier that is not finished has a next step: its status is one of the  *)
(* steps of its own type and version, whatever was restored, upgraded or     *)
(* purchased meanwhile (otherwise only a cancellation can ever leave it).    *)
ActiveHasNextStep ==
  dossier.exists /\ ~ IsTerminal =>
    NextSteps(dossier.type, dossier.status, dossier.version, shipped) # {}

(* The restore of a dossier: it was archived, and comes back where it was    *)
(* cancelled from.                                                           *)
Restored ==
  /\ dossier.archived
  /\ ~ dossier'.archived
  /\ dossier'.status = dossier.cancelledFrom

MoveAlongWorkflow ==
  dossier.exists =>
    \/ dossier'.exists /\ dossier'.status = dossier.status
    \/ ~ dossier'.exists /\ dossier.archived
    \/ Restored
    \/ dossier'.exists /\ \E s \in BOOLEAN :
         validateTransition(dossier.type, dossier.status, dossier'.status,
                            dossier.version, s)

(* Whatever was edited, upgraded or restored before, a dossier moves along   *)
(* one edge of its workflow or is restored: no request skips a step, rewinds *)
(* the dossier or leaves a finished status; and only an archived dossier is  *)
(* deleted.                                                                  *)
MovesAlongWorkflow == [][MoveAlongWorkflow]_vars
=============================================================================
