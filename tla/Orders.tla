------------------------------- MODULE Orders -------------------------------
(***************************************************************************)
(* Orders and the reservations of their vehicles.  A reservation lasts     *)
(* seven days; that it has lapsed is noticed by the next request that      *)
(* reads orders, and every request that changes one reads it before and    *)
(* after.  A change is decided on the first reading and written by id.     *)
(* Prices, clients and the order's dossier are left out; so is whoever     *)
(* else changes the status of a vehicle.                                   *)
(***************************************************************************)
EXTENDS Naturals, FiniteSets

CONSTANTS Orders, Vehicles, Requests

VARIABLES
  order,        \* Order: status and the vehicles of its items
  reservation,  \* Reservation: the last one of each order for each vehicle
  stock,        \* the status of each vehicle
  req

vars == << order, reservation, stock, req >>

-----------------------------------------------------------------------------
validTransitions ==
  [ draft      |-> {"confirmed", "cancelled"},
    confirmed  |-> {"processing", "cancelled"},
    processing |-> {"completed", "cancelled"},
    completed  |-> {}, cancelled |-> {} ]

Idle    == [op |-> "idle"]
NoOrder == [status |-> "none", items |-> {}]

(* A "due" reservation is an active one whose expiry date has passed.        *)
IsActive(row) == row \in {"active", "due"}
Claims(o, v) == IsActive(reservation[o][v])
Held(v) == \E o \in Orders : Claims(o, v)
Closed(o) == order[o].status \in {"completed", "cancelled"}

Start(r, context) == req[r] = Idle /\ req' = [req EXCEPT ![r] = context]
(* What was changed is read again for the answer.                            *)
Refresh(r, op) == req[r].op = op /\ req' = [req EXCEPT ![r] = [op |-> "refresh"]]

(* Mutant: the vehicle of a lapsed reservation is forgotten.                 *)
expireWithoutVehicle ==
  /\ reservation' = [ o \in Orders |-> [ v \in Vehicles |->
       IF reservation[o][v] = "due" THEN "expired" ELSE reservation[o][v] ] ]
  /\ stock' = stock

(* expireReservations.                                                       *)
expireReservations ==
  /\ reservation' = [ o \in Orders |-> [ v \in Vehicles |->
       IF reservation[o][v] = "due" THEN "expired" ELSE reservation[o][v] ] ]
  /\ stock' = [ v \in Vehicles |->
       IF stock[v] = "reserved" /\ \E o \in Orders : reservation[o][v] = "due"
       THEN "available" ELSE stock[v] ]

(* Seven days are over.                                                      *)
Lapse(o, v) ==
  /\ reservation[o][v] = "active"
  /\ reservation' = [reservation EXCEPT ![o][v] = "due"]
  /\ UNCHANGED << order, stock, req >>

(* GET of an order, of the list, of a history; and the end of a change.      *)
findAll ==
  /\ \E r \in Requests : req[r] = Idle
  /\ expireReservations
  /\ UNCHANGED << order, req >>

findOne(r) ==
  /\ req[r].op = "refresh"
  /\ req' = [req EXCEPT ![r] = Idle]
  /\ expireReservations
  /\ UNCHANGED order

-----------------------------------------------------------------------------
(* Mutant: the row of the reservation gets the status of the vehicle.        *)
ReservesAlike(o, S, claims, free) ==
  /\ \A v \in S : free[v] = "available"
  /\ reservation' = [claims EXCEPT ![o] =
       [v \in Vehicles |-> IF v \in S THEN "reserved" ELSE claims[o][v]]]
  /\ stock' = [v \in Vehicles |-> IF v \in S THEN "reserved" ELSE free[v]]

(* Order o reserves the vehicles S, of which `free' are available to it;     *)
(* the unique index lets a vehicle have one active reservation.              *)
Reserves(o, S, claims, free) ==
  /\ \A v \in S : free[v] = "available"
  /\ \A v \in S, p \in Orders : ~ IsActive(claims[p][v])
  /\ reservation' = [claims EXCEPT ![o] =
       [v \in Vehicles |-> IF v \in S THEN "active" ELSE claims[o][v]]]
  /\ stock' = [v \in Vehicles |-> IF v \in S THEN "reserved" ELSE free[v]]

ReadCreate(r, o, S) ==
  /\ order[o] = NoOrder
  /\ S # {} /\ \A v \in S : stock[v] = "available"
  /\ \A q \in Requests : req[q].op = "create" => req[q].o # o
  /\ Start(r, [op |-> "create", o |-> o, items |-> S])
  /\ UNCHANGED << order, reservation, stock >>

create(r) ==
  LET o == req[r].o
  IN  /\ Refresh(r, "create")
      /\ Reserves(o, req[r].items, reservation, stock)
      /\ order' = [order EXCEPT ![o] = [status |-> "draft", items |-> req[r].items]]

ReadUpdate(r, o, S) ==
  /\ order[o].status = "draft"
  /\ Start(r, [op |-> "update", o |-> o, items |-> S, old |-> order[o].items])
  /\ expireReservations
  /\ UNCHANGED order

(* The items of a draft: its reservations and vehicles are given back, then  *)
(* the new items are reserved.                                               *)
update(r) ==
  LET o        == req[r].o
      released == [reservation EXCEPT ![o] = [v \in Vehicles |->
                     IF Claims(o, v) THEN "released" ELSE @[v]]]
      free     == [v \in Vehicles |->
                     IF v \in req[r].old /\ stock[v] = "reserved"
                     THEN "available" ELSE stock[v]]
  IN  /\ Refresh(r, "update")
      /\ Reserves(o, req[r].items, released, free)
      /\ order' = [order EXCEPT ![o].items = req[r].items]

(* updateStatus, and the deletion of a draft, which cancels it.              *)
ReadStatus(r, o, to) ==
  /\ order[o] # NoOrder
  /\ to \in validTransitions[order[o].status]
  /\ Start(r, [op |-> "status", o |-> o, to |-> to, items |-> order[o].items])
  /\ expireReservations
  /\ UNCHANGED order

(* Mutant: the reservations of a cancelled order stay.                       *)
updateStatusKeepsClaims(r) ==
  LET o  == req[r].o
      to == req[r].to
  IN  /\ Refresh(r, "status")
      /\ order' = [order EXCEPT ![o].status = to]
      /\ reservation' = [reservation EXCEPT ![o] = [v \in Vehicles |->
           IF to = "completed" /\ Claims(o, v) THEN "consumed" ELSE @[v]]]
      /\ stock' = [v \in Vehicles |->
           IF to \in {"completed", "cancelled"} /\ v \in req[r].items
           THEN IF to = "completed" THEN "sold" ELSE "available"
           ELSE stock[v]]

(* Mutant: a finished order gives its vehicles back.                         *)
updateStatusFrees(r) ==
  LET o  == req[r].o
      to == req[r].to
      closing == to \in {"completed", "cancelled"}
  IN  /\ Refresh(r, "status")
      /\ order' = [order EXCEPT ![o].status = to]
      /\ reservation' = [reservation EXCEPT ![o] = [v \in Vehicles |->
           IF closing /\ Claims(o, v) THEN "released" ELSE @[v]]]
      /\ stock' = [v \in Vehicles |->
           IF closing /\ v \in req[r].items THEN "available" ELSE stock[v]]

updateStatus(r) ==
  LET o       == req[r].o
      to      == req[r].to
      closing == to \in {"completed", "cancelled"}
  IN  /\ Refresh(r, "status")
      /\ order' = [order EXCEPT ![o].status = to]
      /\ reservation' = [reservation EXCEPT ![o] = [v \in Vehicles |->
           IF closing /\ Claims(o, v)
           THEN IF to = "completed" THEN "consumed" ELSE "released"
           ELSE @[v]]]
      /\ stock' = [v \in Vehicles |->
           IF closing /\ v \in req[r].items
           THEN IF to = "completed" THEN "sold" ELSE "available"
           ELSE stock[v]]

(* A request fails; its transaction is rolled back.                          *)
Abort(r) ==
  /\ req[r] # Idle
  /\ req' = [req EXCEPT ![r] = Idle]
  /\ UNCHANGED << order, reservation, stock >>

-----------------------------------------------------------------------------
Init ==
  /\ order = [o \in Orders |-> NoOrder]
  /\ reservation = [o \in Orders |-> [v \in Vehicles |-> "none"]]
  /\ stock = [v \in Vehicles |-> "available"]
  /\ req = [r \in Requests |-> Idle]

Next ==
  \/ findAll
  \/ \E o \in Orders, v \in Vehicles : Lapse(o, v)
  \/ \E r \in Requests :
       \/ \E o \in Orders, S \in SUBSET Vehicles : ReadCreate(r, o, S)
       \/ \E o \in Orders, S \in SUBSET Vehicles : ReadUpdate(r, o, S)
       \/ \E o \in Orders, to \in DOMAIN validTransitions : ReadStatus(r, o, to)
       \/ create(r)
       \/ update(r)
       \/ updateStatus(r)
       \/ findOne(r)
       \/ Abort(r)

Spec == Init /\ [][Next]_vars

-----------------------------------------------------------------------------
(* The rows have their types.                                                *)
TypeOK ==
  /\ order \in [Orders -> [status : DOMAIN validTransitions, items : SUBSET Vehicles]
                            \union {NoOrder}]
  /\ reservation \in [Orders -> [Vehicles ->
       {"none", "active", "due", "expired", "released", "consumed"}]]
  /\ stock \in [Vehicles -> {"available", "reserved", "sold"}]

(* Nothing strands a vehicle: one that is reserved is held by an order that  *)
(* still runs, so closing, editing or expiry will give it back.              *)
ReservedIsHeld ==
  \A v \in Vehicles :
    stock[v] = "reserved" =>
      \E o \in Orders : Claims(o, v) /\ v \in order[o].items /\ ~ Closed(o)

(* An order whose reservation of a vehicle lapsed still lists the vehicle:   *)
(* when it is edited or closed later, it gives away or sells what another    *)
(* order may have reserved or sold by then.  The promises below end there.   *)
Lapsed(v) == \E o \in Orders : reservation[o][v] = "expired"

(* A vehicle that an order has reserved is not offered to anybody else.      *)
HeldIsNotOffered ==
  \A v \in Vehicles : Held(v) /\ ~ Lapsed(v) => stock[v] = "reserved"

(* A vehicle of a completed order stays sold, and to that order alone.       *)
SoldOnce ==
  \A o \in Orders : \A v \in order[o].items :
    order[o].status = "completed" /\ ~ Lapsed(v) =>
      /\ stock[v] = "sold"
      /\ \A p \in Orders \ {o} : order[p].status = "completed" => v \notin order[p].items
=============================================================================
