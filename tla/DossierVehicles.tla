--------------------------- MODULE DossierVehicles ---------------------------
(***************************************************************************)
(* Dossiers and the vehicles they hold, under concurrent requests.         *)
(*                                                                         *)
(* The variables are the database rows; `req' holds the contexts of the    *)
(* requests in flight.  A handler that checks before it opens its          *)
(* transaction is a Read action followed by a commit; a handler whose      *)
(* checks are repeated by the conditional writes of the transaction is one *)
(* action.  The status transition is cut once more, inside its             *)
(* transaction: Claim takes the row of the dossier and reads the vehicles, *)
(* CommitStatus writes their statuses and lets the row go.                 *)
(***************************************************************************)
EXTENDS DossierWorkflow, FiniteSets

CONSTANTS
  Dossiers,
  Vehicles,
  NoVehicle,        \* the empty vehicleBookingVehicleId
  Requests,         \* handlers that may be in flight at the same time
  Steps,            \* the steps of the dossiers' workflow, in order
  SettableStatuses, \* the statuses users give a vehicle by hand
  Ops               \* the operations clients call

StepSet == {Steps[i] : i \in DOMAIN Steps}
Targets == StepSet \union {"cancelled"}

ASSUME VehiclesAssumption ==
  /\ NoVehicle \notin Vehicles
  /\ Steps \in Seq(AllStatuses)
  /\ Len(Steps) > 1
  /\ Steps[1] \notin TERMINAL_STATUSES
  /\ StepSet \intersect {"cancelled", "absent", "deleted", "none"} = {}
  /\ SettableStatuses \subseteq VehicleStatuses

VARIABLES
  dossier,  \* the row of each dossier
  vehicle,  \* the status and the archive mark of each vehicle
  links,    \* DossierVehicle: which vehicle belongs to which dossier
  req       \* the context of each request

vars == << dossier, vehicle, links, req >>

-----------------------------------------------------------------------------
Idle == [op |-> "idle"]

NoRow(status) ==
  [ status |-> status, archived |-> FALSE, cancelledFrom |-> "none",
    catalogue |-> FALSE, booking |-> NoVehicle ]

Absent == NoRow("absent")     \* not created yet
Deleted == NoRow("deleted")

Exists(d) == dossier[d].status \notin {"absent", "deleted"}
IsTerminal(status) == status \in TERMINAL_STATUSES
Active(d) == Exists(d) /\ ~ IsTerminal(dossier[d].status)

Linked(d) == {v \in Vehicles : << d, v >> \in links}

(* What a dossier that is not finished holds. *)
held == {l \in links : Active(l[1])}

Holders(v) == {d \in Dossiers : << d, v >> \in held}

(* Mutant: nobody looks for rejected vehicles. *)
RejectedUnseen(S) == {}

Rejected(S) == {v \in S : vehicle[v].status = "rejected"}

SetStatus(S, status) ==
  [ v \in Vehicles |-> IF v \in S THEN [vehicle[v] EXCEPT !.status = status] ELSE vehicle[v] ]

(* The conditional reservation: the vehicle is free by now. *)
Reservable(v) ==
  /\ vehicle[v].status = "available"
  /\ ~ vehicle[v].archived
  /\ Holders(v) = {}

Follows(from, to) ==
  /\ ~ IsTerminal(from)
  /\ \/ to = "cancelled"
     \/ \E i \in 2 .. Len(Steps) : Steps[i - 1] = from /\ Steps[i] = to

-----------------------------------------------------------------------------
Start(r, op, context) ==
  /\ op \in Ops
  /\ req[r] = Idle
  /\ req' = [req EXCEPT ![r] = context]
  /\ UNCHANGED << dossier, vehicle, links >>

Finished(r) == req' = [req EXCEPT ![r] = Idle]

(* A handler without a context of its own needs a free one to run in. *)
Serve(op) ==
  /\ op \in Ops
  /\ \E r \in Requests : req[r] = Idle
  /\ UNCHANGED req

(* Mutant: the claim of a transition does not hold the row until the commit. *)
LockedNever(d) == FALSE

(* The row of a dossier is locked from the claim of a transition to its      *)
(* commit; other writers of the row wait, an insertion of a link does not.   *)
Locked(d) == \E r \in Requests : req[r].op = "claimed" /\ req[r].d = d

-----------------------------------------------------------------------------
(* POST /dossiers.  A dossier sold from the catalogue has exactly one        *)
(* vehicle.  The updateMany reserves all of them or the transaction fails.   *)
Create(d, S, catalogue) ==
  /\ Serve("create")
  /\ dossier[d] = Absent
  /\ catalogue => Cardinality(S) = 1
  /\ \A v \in S : Reservable(v)
  /\ dossier' = [dossier EXCEPT ![d] =
                   [Absent EXCEPT !.status = Steps[1], !.catalogue = catalogue]]
  /\ links' = links \union ({d} \X S)
  /\ vehicle' = SetStatus(S, getTargetVehicleStatus(Steps[1]))

(* POST :id/vehicles.  The status of the dossier is not checked again. *)
ReadAdd(r, d, v) ==
  /\ Active(d)
  /\ v \notin Linked(d)
  /\ Reservable(v)
  /\ Start(r, "add", [op |-> "add", d |-> d, v |-> v])

(* Mutant: the reservation of the transaction is unconditional. *)
CommitAddUnconditionally(r) ==
  /\ req[r].op = "add"
  /\ Exists(req[r].d)
  /\ req[r].v \notin Linked(req[r].d)
  /\ vehicle' = SetStatus({req[r].v}, "reserved")
  /\ links' = links \union {<< req[r].d, req[r].v >>}
  /\ Finished(r)
  /\ UNCHANGED dossier

CommitAdd(r) ==
  /\ req[r].op = "add"
  /\ LET d == req[r].d
         v == req[r].v
     IN /\ Exists(d)
        /\ v \notin Linked(d)
        /\ Reservable(v)
        /\ vehicle' = SetStatus({v}, "reserved")
        /\ links' = links \union {<< d, v >>}
  /\ Finished(r)
  /\ UNCHANGED dossier

(* DELETE :id/vehicles/:vehicleId.  Nothing is checked again. *)
ReadRemove(r, d, v) ==
  /\ v \in Linked(d)
  /\ dossier[d].booking # v
  /\ ~ dossier[d].catalogue
  /\ Active(d)
  /\ vehicle[v].status \notin {"inTransit", "inCustoms", "sold"}
  /\ Start(r, "remove", [op |-> "remove", d |-> d, v |-> v])

CommitRemove(r) ==
  /\ req[r].op = "remove"
  /\ LET d == req[r].d
         v == req[r].v
     IN /\ v \in Linked(d)
        /\ links' = links \ {<< d, v >>}
        /\ vehicle' = SetStatus({v}, "available")
  /\ Finished(r)
  /\ UNCHANGED dossier

-----------------------------------------------------------------------------
(* PATCH :id/status.  The booking step names a vehicle of the dossier; a     *)
(* rejected vehicle stops every step but the cancellation.                   *)
ReadStatus(r, d) ==
  /\ Active(d)
  /\ \E to \in Targets, b \in Vehicles \union {NoVehicle} :
       /\ Follows(dossier[d].status, to)
       /\ IF to = "vehicleBooking" THEN b \in Linked(d) ELSE b = NoVehicle
       /\ to # "cancelled" => Rejected(Linked(d)) = {}
       /\ Start(r, IF to = "cancelled" THEN "cancel" ELSE "advance",
                [op |-> "advance", d |-> d, from |-> dossier[d].status, to |-> to, b |-> b])

(* Mutant: a transition only moves the vehicles that are still reserved. *)
ToWriteReserved(d, to) == {v \in Linked(d) : vehicle[v].status = "reserved"}

(* The statuses of the linked vehicles, as they are now, decide which of     *)
(* them the transition will write.                                           *)
ToWrite(d, to) ==
  IF to = "cancelled"
  THEN {v \in Linked(d) : vehicle[v].status = "reserved"}
  ELSE {v \in Linked(d) : vehicle[v].status # getTargetVehicleStatus(to)}

(* Mutant: the claim matches the dossier whatever its status has become. *)
ClaimableAtAnyStatus(r) ==
  /\ Exists(req[r].d)
  /\ ~ dossier[req[r].d].archived

(* The conditional updateMany: the status is still the one that was read. *)
Claimable(r) ==
  /\ Exists(req[r].d)
  /\ dossier[req[r].d].status = req[r].from
  /\ ~ dossier[req[r].d].archived

Claim(r) ==
  /\ req[r].op = "advance"
  /\ LET d == req[r].d
         to == req[r].to
     IN /\ ~ Locked(d)
        /\ Claimable(r)
        /\ req[r].b # NoVehicle => req[r].b \in Linked(d)
        /\ Rejected(ToWrite(d, to)) = {}
        /\ req' = [req EXCEPT ![r] =
                     [ op |-> "claimed", d |-> d, from |-> req[r].from, to |-> to,
                       b |-> req[r].b, write |-> ToWrite(d, to) ]]
  /\ UNCHANGED << dossier, vehicle, links >>

Moved(row, from, to, b) ==
  [ row EXCEPT !.status        = to,
               !.archived      = to = "cancelled",
               !.cancelledFrom = IF to = "cancelled" THEN from ELSE @,
               !.booking       = IF b = NoVehicle THEN @ ELSE b ]

(* Mutant: a cancellation also gives the vehicles the status of the map. *)
CommitStatusByMap(r) ==
  /\ req[r].op = "claimed"
  /\ dossier' = [dossier EXCEPT ![req[r].d] =
                   Moved(dossier[req[r].d], req[r].from, req[r].to, req[r].b)]
  /\ vehicle' = SetStatus(req[r].write, getTargetVehicleStatus(req[r].to))
  /\ Finished(r)
  /\ UNCHANGED links

CommitStatus(r) ==
  /\ req[r].op = "claimed"
  /\ LET d == req[r].d
         to == req[r].to
     IN /\ dossier' = [dossier EXCEPT ![d] =
                         Moved(dossier[d], req[r].from, to, req[r].b)]
        /\ vehicle' = SetStatus(req[r].write,
                        IF to = "cancelled" THEN "available"
                        ELSE getTargetVehicleStatus(to))
  /\ Finished(r)
  /\ UNCHANGED links

-----------------------------------------------------------------------------
(* Mutant: a restore does not look for another dossier of its vehicles. *)
ConflictingUnseen(d, S) == FALSE

(* POST :id/restore.  The vehicles are those that were read before the       *)
(* transaction; the row is written whatever it has become.                   *)
Conflicting(d, S) ==
  \E e \in Dossiers \ {d} : Active(e) /\ ~ dossier[e].archived /\ Linked(e) \intersect S # {}

ReadRestore(r, d) ==
  /\ dossier[d].archived
  /\ ~ Conflicting(d, Linked(d))
  /\ Start(r, "restore",
           [op |-> "restore", d |-> d, to |-> dossier[d].cancelledFrom, vs |-> Linked(d)])

CommitRestore(r) ==
  /\ req[r].op = "restore"
  /\ LET d == req[r].d
         S == req[r].vs
     IN /\ ~ Locked(d)
        /\ Exists(d)
        /\ ~ Conflicting(d, S)
        /\ dossier' = [dossier EXCEPT ![d] =
              [ @ EXCEPT !.status = req[r].to, !.archived = FALSE, !.cancelledFrom = "none" ]]
        /\ vehicle' = SetStatus({v \in S : vehicle[v].status = "available"}, "reserved")
  /\ Finished(r)
  /\ UNCHANGED links

(* DELETE :id/permanent.  The links go with the row (ON DELETE CASCADE). *)
ReadDelete(r, d) ==
  /\ dossier[d].archived
  /\ Start(r, "delete", [op |-> "delete", d |-> d])

CommitDelete(r) ==
  /\ req[r].op = "delete"
  /\ LET d == req[r].d
     IN /\ ~ Locked(d)
        /\ Exists(d)
        /\ dossier' = [dossier EXCEPT ![d] = Deleted]
        /\ links' = {l \in links : l[1] # d}
  /\ Finished(r)
  /\ UNCHANGED vehicle

-----------------------------------------------------------------------------
(* PATCH /vehicles/:id, one Serializable transaction: while a dossier holds  *)
(* the vehicle, the only status users may give it is "rejected".             *)
UpdateVehicle(v, status) ==
  /\ Serve("updateVehicle")
  /\ status # vehicle[v].status
  /\ Holders(v) # {} => status = "rejected"
  /\ vehicle' = SetStatus({v}, status)
  /\ UNCHANGED << dossier, links >>

(* DELETE /vehicles/:id, which archives. *)
ReadArchive(r, v) ==
  /\ Holders(v) = {}
  /\ Start(r, "archiveVehicle", [op |-> "archiveVehicle", v |-> v])

CommitArchive(r) ==
  /\ req[r].op = "archiveVehicle"
  /\ vehicle' = [vehicle EXCEPT ![req[r].v].archived = TRUE]
  /\ Finished(r)
  /\ UNCHANGED << dossier, links >>

(* A check of the transaction fails, or the process dies: no write is kept.  *)
Abort(r) ==
  /\ req[r] # Idle
  /\ Finished(r)
  /\ UNCHANGED << dossier, vehicle, links >>

-----------------------------------------------------------------------------
Init ==
  /\ dossier = [d \in Dossiers |-> Absent]
  /\ vehicle = [v \in Vehicles |-> [status |-> "available", archived |-> FALSE]]
  /\ links = {}
  /\ req = [r \in Requests |-> Idle]

Next ==
  \/ \E d \in Dossiers, S \in SUBSET Vehicles, c \in BOOLEAN : Create(d, S, c)
  \/ \E v \in Vehicles, s \in SettableStatuses : UpdateVehicle(v, s)
  \/ \E r \in Requests :
       \/ \E d \in Dossiers, v \in Vehicles : ReadAdd(r, d, v) \/ ReadRemove(r, d, v)
       \/ \E d \in Dossiers : ReadStatus(r, d) \/ ReadRestore(r, d) \/ ReadDelete(r, d)
       \/ \E v \in Vehicles : ReadArchive(r, v)
       \/ CommitAdd(r) \/ CommitRemove(r)
       \/ Claim(r) \/ CommitStatus(r)
       \/ CommitRestore(r) \/ CommitDelete(r) \/ CommitArchive(r)
       \/ Abort(r)

Spec == Init /\ [][Next]_vars
-----------------------------------------------------------------------------
DossierRows ==
  [ status : StepSet \union {"cancelled", "absent", "deleted"}, archived : BOOLEAN,
    cancelledFrom : StepSet \union {"none"}, catalogue : BOOLEAN,
    booking : Vehicles \union {NoVehicle} ]

Contexts ==
  {Idle}
  \union [op : {"add", "remove"}, d : Dossiers, v : Vehicles]
  \union [ op : {"advance"}, d : Dossiers, from : StepSet, to : Targets,
           b : Vehicles \union {NoVehicle} ]
  \union [ op : {"claimed"}, d : Dossiers, from : StepSet, to : Targets,
           b : Vehicles \union {NoVehicle}, write : SUBSET Vehicles ]
  \union [op : {"restore"}, d : Dossiers, to : StepSet, vs : SUBSET Vehicles]
  \union [op : {"delete"}, d : Dossiers]
  \union [op : {"archiveVehicle"}, v : Vehicles]

(* The rows and the contexts have the shape the handlers give them. *)
TypeOK ==
  /\ dossier \in [Dossiers -> DossierRows]
  /\ vehicle \in [Vehicles -> [status : VehicleStatuses, archived : BOOLEAN]]
  /\ links \subseteq Dossiers \X Vehicles
  /\ req \in [Requests -> Contexts]

(* A vehicle is promised to one client at a time: no two dossiers that are   *)
(* not finished hold it, however their handlers interleave.                  *)
Exclusive ==
  \A v \in Vehicles : \A d, e \in Holders(v) : d = e

(* A vehicle that a dossier holds is never on offer again.                   *)
HeldIsNotAvailable ==
  \A l \in held : vehicle[l[2]].status # "available"

(* The vehicle of a dossier that is not finished has the status the map      *)
(* gives the dossier's milestone, unless it was rejected by hand.            *)
AgreesWithMilestone ==
  \A l \in held :
    vehicle[l[2]].status \in {getTargetVehicleStatus(dossier[l[1]].status), "rejected"}

(* A change of a dossier's row never overwrites a rejection.                 *)
RejectionSurvivesDossier ==
  [][ dossier' # dossier =>
        \A v \in Vehicles : vehicle[v].status = "rejected" => vehicle'[v].status = "rejected" ]_vars

(* Every change of status follows the workflow, or restores an archived      *)
(* dossier where it was cancelled.                                           *)
FollowsWorkflow ==
  [][ \A d \in Dossiers :
        Exists(d) /\ Exists(d)' /\ dossier'[d].status # dossier[d].status =>
          \/ Follows(dossier[d].status, dossier'[d].status)
          \/ dossier[d].archived /\ dossier'[d].status = dossier[d].cancelledFrom ]_vars

-----------------------------------------------------------------------------
(* The dossiers and their handlers implement exclusive holding: every step   *)
(* takes free vehicles for one dossier, or gives some of one dossier back.   *)
Holding == INSTANCE VehicleHolding WITH holding <- held

ImplementsHolding == Holding!Spec
=============================================================================
