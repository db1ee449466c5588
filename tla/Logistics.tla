----------------------------- MODULE Logistics -----------------------------
(***************************************************************************)
(* Shipments, the vehicles aboard them and the customs files of their      *)
(* dossiers.  A shipment is moved by hand and by the dossiers of the       *)
(* vehicles aboard; an arrival opens customs files; a DDP dossier moves    *)
(* its customs files past the milestones it is the master of.              *)
(*                                                                         *)
(* A handler that decides on rows it read earlier is a Read action and a   *)
(* Commit action; what an opening of customs files decides on is `found',  *)
(* the dossiers that had a file by then.  Ports, freight, dates, volumes   *)
(* and weights, tasks, notifications and the customs files without a       *)
(* shipment (the old workflow) are left out.                               *)
(***************************************************************************)
EXTENDS DossierWorkflow, FiniteSets

CONSTANTS
  Shipments,
  Vehicles,           \* those that are not sold, delivered or rejected
  Dossiers,
  DossiersOf(_),      \* the dossiers a vehicle is linked to
  StepsOfDossier(_),  \* the steps a dossier takes, in order
  DDP,                \* the dossiers of type VEHICLE_SALE_DDP
  Capacities,         \* the container types, by capacity
  MaxAmount,          \* customs amounts are 1 .. MaxAmount
  Requests

ASSUME LogisticsAssumption ==
  /\ DDP \subseteq Dossiers
  /\ \A v \in Vehicles : DossiersOf(v) \subseteq Dossiers
  /\ \A d \in Dossiers :
       /\ StepsOfDossier(d) \in Seq(AllStatuses \ {"cancelled"}) \ {<< >>}
       /\ \A i, j \in DOMAIN StepsOfDossier(d) :
            StepsOfDossier(d)[i] = StepsOfDossier(d)[j] => i = j
  /\ Capacities \subseteq Nat \ {0} /\ MaxAmount \in Nat

VARIABLES
  shipment,   \* Shipment: status and capacity of the container
  aboard,     \* ShipmentVehicle
  stock,      \* the inventory status of each vehicle
  dossier,    \* the status of each dossier
  file,       \* CustomsFile and its actual cost, by the unique (vehicle, dossier)
  req

vars == << shipment, aboard, stock, dossier, file, req >>

-----------------------------------------------------------------------------
SHIPMENT_TRANSITIONS ==
  [ pending |-> {"booked", "cancelled"},  booked  |-> {"loading", "cancelled"},
    loading |-> {"inTransit", "cancelled"}, inTransit |-> {"arrived"},
    arrived |-> {}, cancelled |-> {} ]

MARITIME_STATUSES == << "pending", "booked", "loading", "inTransit", "arrived" >>

(* The keys of CUSTOMS_TRANSITIONS: each status leads to the next one.       *)
CustomsStatuses ==
  << "TO_PREPARE", "AWAITING_ARRIVAL", "ARRIVED_AT_PORT", "FILE_TRANSMITTED",
     "CLEARANCE_IN_PROGRESS", "INSPECTION", "DUTIES_TAXES", "RELEASE",
     "PORT_EXIT", "CLOSED" >>

(* The place of a status in a list; 0 when it is not there.                  *)
Rank(list, status) ==
  IF \E i \in DOMAIN list : list[i] = status
  THEN CHOOSE i \in DOMAIN list : list[i] = status
  ELSE 0

getTargetShipmentStatus(step) ==
  CASE step \in {"shipmentBooking", "booking"} -> "booked"
    [] step = "loading" -> "loading"
    [] step \in {"billOfLadingIssued", "containerBillOfLading", "inTransit"} -> "inTransit"
    [] step \in {"arrivedAtPort", "arrived", "customsClearance", "customsReleased",
                 "portExit", "localTransport", "deliveredToClient",
                 "documentsDelivered", "closed", "serviceCompleted"} -> "arrived"
    [] OTHER -> "none"

getTargetCustomsStatus(step) ==
  CASE step = "customsClearance" -> "CLEARANCE_IN_PROGRESS"
    [] step = "customsReleased"  -> "RELEASE"
    [] step = "portExit"         -> "PORT_EXIT"
    [] step = "closed"           -> "CLOSED"
    [] OTHER -> "none"

(* A DDP dossier starts before the first of its customs milestones.          *)
ASSUME FirstStepAssumption ==
  \A d \in DDP : getTargetCustomsStatus(StepsOfDossier(d)[1]) = "none"

requiredPrevious(target) ==
  CASE target = "CLEARANCE_IN_PROGRESS" -> "FILE_TRANSMITTED"
    [] target = "RELEASE" -> "DUTIES_TAXES"
    [] OTHER -> CustomsStatuses[Rank(CustomsStatuses, target) - 1]

(* Mutant: a shipment takes the status of whichever dossier moves.           *)
takesShipment(current, target) ==
  /\ Rank(MARITIME_STATUSES, current) > 0
  /\ current # target

advancesShipment(current, target) ==
  /\ Rank(MARITIME_STATUSES, current) > 0
  /\ Rank(MARITIME_STATUSES, current) < Rank(MARITIME_STATUSES, target)

-----------------------------------------------------------------------------
Idle   == [op |-> "idle"]
NoFile == [status |-> "none"]
Absent == [status |-> "absent", capacity |-> 0]

Keys == Vehicles \X Dossiers
NewFile(s, status) ==
  [status |-> status, shipment |-> s, amount |-> 0, cost |-> "none", booked |-> 0]

Aboard(s) == {v \in Vehicles : << s, v >> \in aboard}
FilesOf(d) == {k \in Keys : k[2] = d /\ file[k] # NoFile}
WithFile == {d \in Dossiers : FilesOf(d) # {}}

Open(s) == shipment[s].status \in {"pending", "booked", "loading"}
Active(s) == shipment[s].status \notin {"absent", "arrived", "cancelled"}
Finished(d) == dossier[d] \in TERMINAL_STATUSES

(* A transition by hand holds the row of its shipment until it commits.      *)
Locked(s) == \E r \in Requests : req[r].op = "transition" /\ req[r].s = s

Serve == UNCHANGED req /\ \E r \in Requests : req[r] = Idle
Start(r, context) ==
  /\ req[r] = Idle
  /\ req' = [req EXCEPT ![r] = context]
  /\ UNCHANGED << shipment, aboard, stock, dossier, file >>
Finish(r, op) == req[r].op = op /\ req' = [req EXCEPT ![r] = Idle]

-----------------------------------------------------------------------------
(* Mutant: the vehicle may be aboard another active shipment.                *)
LoadableAnywhere(s, v) ==
  /\ Open(s)
  /\ v \notin Aboard(s)
  /\ Cardinality(Aboard(s)) < shipment[s].capacity

(* The checks of assignVehicle, under the locks of shipment and vehicle.     *)
Loadable(s, v) ==
  /\ Open(s)
  /\ \A t \in Shipments \ {s} : v \in Aboard(t) => ~ Active(t)
  /\ v \notin Aboard(s)
  /\ Cardinality(Aboard(s)) < shipment[s].capacity

(* A shipment is created with vehicles, each of them assigned or none.       *)
create(s, capacity, S) ==
  /\ Serve
  /\ shipment[s] = Absent
  /\ Cardinality(S) <= capacity
  /\ \A v \in S, t \in Shipments : v \in Aboard(t) => ~ Active(t)
  /\ shipment' = [shipment EXCEPT ![s] = [status |-> "pending", capacity |-> capacity]]
  /\ aboard' = aboard \union ({s} \X S)
  /\ UNCHANGED << stock, dossier, file >>

update(s, capacity) ==
  /\ Serve
  /\ shipment[s] # Absent /\ ~ Locked(s)
  /\ Cardinality(Aboard(s)) <= capacity
  /\ shipment' = [shipment EXCEPT ![s].capacity = capacity]
  /\ UNCHANGED << aboard, stock, dossier, file >>

addVehicle(s, v) ==
  /\ Serve
  /\ ~ Locked(s)
  /\ Loadable(s, v)
  /\ aboard' = aboard \union {<< s, v >>}
  /\ UNCHANGED << shipment, stock, dossier, file >>

removeVehicle(s, v) ==
  /\ Serve
  /\ ~ Locked(s) /\ Open(s)
  /\ << s, v >> \in aboard
  /\ aboard' = aboard \ {<< s, v >>}
  /\ UNCHANGED << shipment, stock, dossier, file >>

-----------------------------------------------------------------------------
(* The dossier of a vehicle, as the opening of customs files sees it: there  *)
(* is exactly one that is neither closed nor cancelled.  `now' is the status *)
(* of the dossiers in the transaction.                                       *)
SoleDossier(v, d, now) ==
  {e \in DossiersOf(v) : now[e] \notin {"closed", "cancelled"}} = {d}

(* Mutant: a dossier gets a file for each arrival.                           *)
DueAgain(S, found, now) ==
  {d \in Dossiers : \E s \in S, v \in Vehicles :
     /\ << s, v >> \in aboard /\ SoleDossier(v, d, now)
     /\ file[<< v, d >>] = NoFile}

(* The dossiers that get a file from the shipments S: those that had none    *)
(* when the handler looked.                                                  *)
Due(S, found, now) ==
  {d \in Dossiers \ found : \E s \in S, v \in Vehicles :
     << s, v >> \in aboard /\ SoleDossier(v, d, now)}

(* Mutant: the file takes over the status of the shipment.                   *)
OpenedAsShipment(pick, ship) ==
  [ k \in Keys |->
      IF k[2] \in DOMAIN pick /\ pick[k[2]][2] = k[1]
      THEN NewFile(pick[k[2]][1], ship[pick[k[2]][1]].status)
      ELSE file[k] ]

(* The files once each dossier has its own, for its picked shipment and      *)
(* vehicle; `ship' are the shipments as the transaction left them.           *)
Opened(pick, ship) ==
  [ k \in Keys |->
      IF k[2] \in DOMAIN pick /\ pick[k[2]][2] = k[1]
      THEN LET s == pick[k[2]][1]
           IN  NewFile(s, IF ship[s].status = "arrived" THEN "ARRIVED_AT_PORT"
                                                        ELSE "AWAITING_ARRIVAL")
      ELSE file[k] ]

(* createCustomsFilesInTransaction: the files it may leave; none when the    *)
(* unique key of the files refuses the transaction.                          *)
createCustomsFiles(S, ship, found, now) ==
  { Opened(pick, ship) :
      pick \in { p \in [Due(S, found, now) -> aboard] :
                   \A d \in DOMAIN p :
                     /\ p[d][1] \in S /\ SoleDossier(p[d][2], d, now)
                     /\ file[<< p[d][2], d >>] = NoFile } }

(* The inventory once the shipments S departed: a vehicle of an unfinished   *)
(* dossier follows its dossier instead.                                      *)
Departed(S, now) ==
  [ v \in Vehicles |->
      IF /\ \E s \in S : << s, v >> \in aboard
         /\ \A d \in DossiersOf(v) : now[d] \in TERMINAL_STATUSES
         /\ stock[v] = "available"
      THEN "inTransit" ELSE stock[v] ]

Moved(S, to) ==
  [ s \in Shipments |-> IF s \in S THEN [shipment[s] EXCEPT !.status = to] ELSE shipment[s] ]

(* applyTransitionInTransaction, for the shipments S.                        *)
applyTransition(S, to, found, now) ==
  /\ shipment' = Moved(S, to)
  /\ stock' = IF to = "inTransit" THEN Departed(S, now) ELSE stock
  /\ file' \in IF to = "arrived" THEN createCustomsFiles(S, Moved(S, to), found, now)
                                 ELSE {file}

(* A status change by hand: the row is locked, checked and, for an arrival,  *)
(* the files of the dossiers are looked up; then everything is written.      *)
ReadTransition(r, s, to) ==
  /\ shipment[s] # Absent /\ ~ Locked(s)
  /\ to \in SHIPMENT_TRANSITIONS[shipment[s].status]
  /\ Start(r, [op |-> "transition", s |-> s, to |-> to, found |-> WithFile])

transition(r) ==
  /\ Finish(r, "transition")
  /\ applyTransition({req[r].s}, req[r].to, req[r].found, dossier)
  /\ UNCHANGED << aboard, dossier >>

(* The files of a shipment asked for by hand; nothing is locked.             *)
ReadCustomsFromShipment(r, s) ==
  /\ shipment[s] # Absent
  /\ Start(r, [op |-> "fromShipment", s |-> s, found |-> WithFile])

createCustomsFromShipment(r) ==
  /\ Finish(r, "fromShipment")
  /\ file' \in createCustomsFiles({req[r].s}, shipment, req[r].found, dossier)
  /\ UNCHANGED << shipment, aboard, stock, dossier >>

-----------------------------------------------------------------------------
(* CustomsService.create for a vehicle of a dossier aboard a shipment; of    *)
(* two such requests the unique key lets one create the file.                *)
ReadCreateCustoms(r, s, k) ==
  /\ << s, k[1] >> \in aboard /\ k[2] \in DossiersOf(k[1])
  /\ FilesOf(k[2]) = {}
  /\ Start(r, [op |-> "createCustoms", s |-> s, k |-> k])

createCustoms(r) ==
  /\ Finish(r, "createCustoms")
  /\ file[req[r].k] = NoFile
  /\ file' = [file EXCEPT ![req[r].k] = NewFile(req[r].s, "TO_PREPARE")]
  /\ UNCHANGED << shipment, aboard, stock, dossier >>

(* recordCustomsActual: the cost of a file is booked once, if it has one.    *)
recordCustomsActual(f) ==
  IF f.amount > 0 /\ f.cost = "none"
  THEN [f EXCEPT !.cost = "POSTED", !.booked = f.amount]
  ELSE f

WithStatus(f, status) ==
  LET moved == [f EXCEPT !.status = status]
  IN  IF status = "RELEASE" THEN recordCustomsActual(moved) ELSE moved

Precedes(from, to) == Rank(CustomsStatuses, to) = Rank(CustomsStatuses, from) + 1

(* A status change by hand, decided on the row read before the transaction:  *)
(* the milestones of a DDP dossier are left to it.                           *)
ReadCustomsTransition(r, k, to) ==
  /\ file[k] # NoFile
  /\ Precedes(file[k].status, to)
  /\ k[2] \in DDP => to \notin {"CLEARANCE_IN_PROGRESS", "RELEASE", "PORT_EXIT", "CLOSED"}
  /\ Start(r, [op |-> "customs", k |-> k, to |-> to])

transitionCustoms(r) ==
  /\ Finish(r, "customs")
  /\ file' = [file EXCEPT ![req[r].k] = WithStatus(@, req[r].to)]
  /\ UNCHANGED << shipment, aboard, stock, dossier >>

(* Mutant: the amount is corrected without looking for a posted cost.        *)
ReadAmountOfAny(r, k, amount) ==
  /\ file[k] # NoFile
  /\ Start(r, [op |-> "amount", k |-> k, amount |-> amount])

(* CustomsService.update of the amounts.                                     *)
ReadAmount(r, k, amount) ==
  /\ file[k] # NoFile
  /\ file[k].cost # "POSTED"
  /\ Start(r, [op |-> "amount", k |-> k, amount |-> amount])

updateAmount(r) ==
  /\ Finish(r, "amount")
  /\ file' = [file EXCEPT ![req[r].k].amount = req[r].amount]
  /\ UNCHANGED << shipment, aboard, stock, dossier >>

(* CostsService.reverse of the cost of a file.                               *)
reverseCost(k) ==
  /\ Serve
  /\ file[k] # NoFile /\ file[k].cost = "POSTED"
  /\ file' = [file EXCEPT ![k].cost = "REVERSED"]
  /\ UNCHANGED << shipment, aboard, stock, dossier >>

-----------------------------------------------------------------------------
(* The active shipments that carry a vehicle of the dossier or are named by  *)
(* a customs file of it, when the dossier's step moves them forward.         *)
Related(d, step) ==
  { s \in Shipments :
      /\ Active(s) /\ advancesShipment(shipment[s].status, getTargetShipmentStatus(step))
      /\ \/ \E v \in Aboard(s) : d \in DossiersOf(v)
         \/ \E k \in FilesOf(d) : file[k].shipment = s }

(* Mutant: a dossier without customs files passes the milestones as well.    *)
ReadyWithoutFile(d, target, files) ==
  \A v \in Vehicles : LET f == files[<< v, d >>] IN
    f = NoFile \/ Rank(CustomsStatuses, f.status) >= Rank(CustomsStatuses, target)
      \/ f.status = requiredPrevious(target)

(* The dossier has a customs file, and each of its files is at the milestone *)
(* or right before it.                                                       *)
Ready(d, target, files) ==
  /\ \E v \in Vehicles : files[<< v, d >>] # NoFile
  /\ \A v \in Vehicles : LET f == files[<< v, d >>] IN
       f = NoFile \/ Rank(CustomsStatuses, f.status) >= Rank(CustomsStatuses, target)
         \/ f.status = requiredPrevious(target)

(* CustomsService.syncFromDossier: the files moved to the milestone.         *)
Synced(d, target, files) ==
  [ k \in Keys |->
      IF /\ k[2] = d /\ files[k] # NoFile
         /\ Rank(CustomsStatuses, files[k].status) < Rank(CustomsStatuses, target)
      THEN WithStatus(files[k], target)
      ELSE files[k] ]

(* A dossier takes its next step, or is cancelled.  Its gates are those of   *)
(* DossierLifecycle; its vehicles are those of DossierVehicles.              *)
ReadAdvance(r, d, step) ==
  /\ ~ Finished(d)
  /\ \A q \in Requests : req[q].op = "advance" => req[q].d # d
  /\ \/ step = "cancelled"
     \/ \E i \in 2 .. Len(StepsOfDossier(d)) :
          StepsOfDossier(d)[i - 1] = dossier[d] /\ StepsOfDossier(d)[i] = step
  /\ Start(r, [op |-> "advance", d |-> d, step |-> step, found |-> WithFile])

(* The propagation in the transaction of the step: shipments, then customs.  *)
advance(r) ==
  LET d      == req[r].d
      step   == req[r].step
      now    == [dossier EXCEPT ![d] = step]
      ships  == Related(d, step)
      to     == getTargetShipmentStatus(step)
      target == getTargetCustomsStatus(step)
  IN  /\ Finish(r, "advance")
      /\ \A s \in ships : ~ Locked(s)
      /\ dossier' = now
      /\ shipment' = Moved(ships, to)
      /\ stock' = IF to = "inTransit" THEN Departed(ships, now) ELSE stock
      /\ \E files \in IF to = "arrived"
                      THEN createCustomsFiles(ships, Moved(ships, to), req[r].found, now)
                      ELSE {file} :
           IF target = "none" \/ d \notin DDP
           THEN file' = files
           ELSE Ready(d, target, files) /\ file' = Synced(d, target, files)
      /\ UNCHANGED aboard

(* A request fails and its transaction is rolled back.                       *)
Abort(r) ==
  /\ req[r] # Idle
  /\ req' = [req EXCEPT ![r] = Idle]
  /\ UNCHANGED << shipment, aboard, stock, dossier, file >>

-----------------------------------------------------------------------------
Init ==
  /\ shipment = [s \in Shipments |-> Absent]
  /\ aboard = {}
  /\ stock = [v \in Vehicles |-> "available"]
  /\ dossier = [d \in Dossiers |-> StepsOfDossier(d)[1]]
  /\ file = [k \in Keys |-> NoFile]
  /\ req = [r \in Requests |-> Idle]

Loading ==
  \E s \in Shipments :
    \/ \E c \in Capacities, S \in SUBSET Vehicles : create(s, c, S)
    \/ \E c \in Capacities : update(s, c)
    \/ \E v \in Vehicles : addVehicle(s, v)
    \/ \E v \in Vehicles : removeVehicle(s, v)

Customs ==
  \/ \E r \in Requests, k \in Keys :
       \/ \E s \in Shipments : ReadCreateCustoms(r, s, k)
       \/ \E i \in DOMAIN CustomsStatuses : ReadCustomsTransition(r, k, CustomsStatuses[i])
       \/ \E a \in 1 .. MaxAmount : ReadAmount(r, k, a)
  \/ \E r \in Requests : createCustoms(r) \/ transitionCustoms(r) \/ updateAmount(r)
  \/ \E k \in Keys : reverseCost(k)

Voyage ==
  \E r \in Requests :
    \/ \E s \in Shipments : ReadCustomsFromShipment(r, s)
    \/ \E s \in Shipments, to \in DOMAIN SHIPMENT_TRANSITIONS : ReadTransition(r, s, to)
    \/ \E d \in Dossiers, step \in AllStatuses : ReadAdvance(r, d, step)
    \/ createCustomsFromShipment(r)
    \/ transition(r)
    \/ advance(r)
    \/ Abort(r)

Next == Loading \/ Customs \/ Voyage

Spec == Init /\ [][Next]_vars

-----------------------------------------------------------------------------
(* The rows have their types.                                                *)
TypeOK ==
  /\ \A s \in Shipments :
       \/ shipment[s] = Absent
       \/ shipment[s] \in [status : DOMAIN SHIPMENT_TRANSITIONS, capacity : Capacities]
  /\ aboard \subseteq Shipments \X Vehicles
  /\ stock \in [Vehicles -> {"available", "inTransit"}]
  /\ dossier \in [Dossiers -> AllStatuses]
  /\ \A k \in Keys :
       \/ file[k] = NoFile
       \/ file[k] \in [ status : {CustomsStatuses[i] : i \in DOMAIN CustomsStatuses},
                        shipment : Shipments, amount : 0 .. MaxAmount,
                        cost : {"none", "POSTED", "REVERSED"}, booked : 0 .. MaxAmount ]

(* A container never holds more vehicles than its type allows, and a vehicle *)
(* is aboard one shipment that is still under way: through creation, change  *)
(* of container, loading, unloading and cancellations.                       *)
LoadedOnce ==
  /\ \A s \in Shipments : Cardinality(Aboard(s)) <= shipment[s].capacity
  /\ \A s, t \in Shipments : \A v \in Aboard(s) \intersect Aboard(t) :
       Active(s) /\ Active(t) => s = t

ArrivedHasFile ==
  \A s \in Shipments : \A v \in Aboard(s), d \in Dossiers :
    /\ shipment[s].status = "arrived"
    /\ DossiersOf(v) = {d}
    /\ ~ Finished(d)
    => FilesOf(d) # {}

(* A dossier has one customs file, whichever of its vehicles, shipments and  *)
(* staff ask for one; and it has it as soon as a vehicle of that dossier     *)
(* alone has arrived.                                                        *)
OneCustomsFile ==
  /\ \A d \in Dossiers : Cardinality(FilesOf(d)) <= 1
  /\ ArrivedHasFile

(* A dossier that is behind never takes a ship back, a cancelled or arrived  *)
(* shipment stays so, and what is aboard a departed ship stays aboard.       *)
NeverSailsBack ==
  [][ \A s \in Shipments :
        /\ shipment[s].status # "cancelled" =>
             \/ shipment'[s].status = "cancelled"
             \/ Rank(MARITIME_STATUSES, shipment[s].status)
                  <= Rank(MARITIME_STATUSES, shipment'[s].status)
        /\ shipment[s].status \in {"cancelled", "arrived"} =>
             shipment'[s].status = shipment[s].status
        /\ shipment[s].status \in {"inTransit", "arrived"} =>
             {v \in Vehicles : << s, v >> \in aboard'} = Aboard(s) ]_vars

(* The milestones of a DDP dossier and of its customs files agree: the files *)
(* have come at least as far as the dossier says.                            *)
Milestone(d) ==
  LET steps  == StepsOfDossier(d)
      passed == {i \in 1 .. Rank(steps, dossier[d]) : getTargetCustomsStatus(steps[i]) # "none"}
  IN  {Rank(CustomsStatuses, getTargetCustomsStatus(steps[i])) : i \in passed}

CustomsInStep ==
  \A d \in DDP :
    Milestone(d) # {} =>
      /\ FilesOf(d) # {}
      /\ \A k \in FilesOf(d) : \A m \in Milestone(d) :
           Rank(CustomsStatuses, file[k].status) >= m

(* A posted customs cost is the amount of its file: the amount is frozen     *)
(* until the cost is reversed, and no path books it a second time.           *)
BookedIsFrozen ==
  \A k \in Keys :
    file[k] # NoFile /\ file[k].cost = "POSTED" => file[k].booked = file[k].amount
=============================================================================
