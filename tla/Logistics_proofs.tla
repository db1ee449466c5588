-------------------------- MODULE Logistics_proofs --------------------------
(***************************************************************************)
(* Proofs about Logistics, for every set of shipments, vehicles, dossiers  *)
(* and requests, however many of them interleave: containers keep within   *)
(* their capacity, no vehicle sails twice and no ship sails back.          *)
(***************************************************************************)
EXTENDS Logistics, FiniteSetTheorems, TLAPS

Ships == [status : DOMAIN SHIPMENT_TRANSITIONS, capacity : Capacities]

Typed ==
  /\ shipment \in [Shipments -> {Absent} \union Ships]
  /\ aboard \subseteq Shipments \X Vehicles
  /\ \A s \in Shipments : Aboard(s) # {} => shipment[s] \in Ships
  /\ DOMAIN req = Requests

(* A transition by hand holds its shipment alone, in the status it was       *)
(* checked in.                                                               *)
Transiting(r) == req[r].op = "transition"

LocksHeld ==
  /\ \A r \in Requests : Transiting(r) =>
       /\ req[r].s \in Shipments
       /\ shipment[req[r].s] \in Ships
       /\ req[r].to \in SHIPMENT_TRANSITIONS[shipment[req[r].s].status]
  /\ \A r, q \in Requests : Transiting(r) /\ Transiting(q) /\ req[r].s = req[q].s => r = q

(* The inductive invariant.                                                  *)
Stowed == Typed /\ LocksHeld /\ LoadedOnce

-----------------------------------------------------------------------------
(* The places of the maritime statuses.                                      *)
LEMMA Places ==
  /\ Rank(MARITIME_STATUSES, "pending") = 1
  /\ Rank(MARITIME_STATUSES, "booked") = 2
  /\ Rank(MARITIME_STATUSES, "loading") = 3
  /\ Rank(MARITIME_STATUSES, "inTransit") = 4
  /\ Rank(MARITIME_STATUSES, "arrived") = 5
  /\ \A other : other \notin {"pending", "booked", "loading", "inTransit", "arrived"} =>
       Rank(MARITIME_STATUSES, other) = 0
<1> DEFINE L == MARITIME_STATUSES
<1>1. /\ DOMAIN L = 1 .. 5
      /\ L[1] = "pending" /\ L[2] = "booked" /\ L[3] = "loading"
      /\ L[4] = "inTransit" /\ L[5] = "arrived"
  BY DEF MARITIME_STATUSES
<1> HIDE DEF L
<1>2. \A i, j \in 1 .. 5 : L[i] = L[j] => i = j
  BY <1>1
<1>3. ASSUME NEW i \in 1 .. 5 PROVE Rank(L, L[i]) = i
  BY <1>1, <1>2 DEF Rank
<1>4. ASSUME NEW other, other \notin {"pending", "booked", "loading", "inTransit", "arrived"}
      PROVE  Rank(L, other) = 0
  <2>1. \A i \in 1 .. 5 : L[i] # other
    BY <1>1, <1>4
  <2> QED BY <1>1, <2>1 DEF Rank
<1>5. QED
  BY <1>1, <1>3, <1>4 DEF L

(* The statuses a shipment may take next, by hand.                           *)
LEMMA ByHand ==
  ASSUME NEW from \in DOMAIN SHIPMENT_TRANSITIONS, NEW to \in SHIPMENT_TRANSITIONS[from]
  PROVE  /\ to \in DOMAIN SHIPMENT_TRANSITIONS
         /\ from \notin {"arrived", "cancelled"}
         /\ from = "inTransit" => to = "arrived"
         /\ to = "cancelled" \/ Rank(MARITIME_STATUSES, from) <= Rank(MARITIME_STATUSES, to)
BY Places DEF SHIPMENT_TRANSITIONS

(* A dossier's step moves a shipment forward only.                           *)
LEMMA ByDossier ==
  ASSUME NEW from \in DOMAIN SHIPMENT_TRANSITIONS, NEW step, from # "arrived",
         advancesShipment(from, getTargetShipmentStatus(step))
  PROVE  /\ getTargetShipmentStatus(step) \in DOMAIN SHIPMENT_TRANSITIONS
         /\ from # "cancelled"
         /\ Rank(MARITIME_STATUSES, from)
              <= Rank(MARITIME_STATUSES, getTargetShipmentStatus(step))
<1>1. getTargetShipmentStatus(step) \in {"booked", "loading", "inTransit", "arrived", "none"}
  BY DEF getTargetShipmentStatus
<1>2. QED
  BY <1>1, Places DEF SHIPMENT_TRANSITIONS, advancesShipment

-----------------------------------------------------------------------------
(* A row of a shipment in a step that moves ships: it stays, or it takes a   *)
(* status that its own allows, in the same container.                        *)
Sails(s) ==
  \/ shipment'[s] = shipment[s]
  \/ /\ shipment[s] \in Ships /\ shipment'[s] \in Ships
     /\ shipment'[s].capacity = shipment[s].capacity
     /\ shipment[s].status \notin {"arrived", "cancelled"}
     /\ \/ shipment'[s].status = "cancelled" /\ shipment[s].status # "inTransit"
        \/ Rank(MARITIME_STATUSES, shipment[s].status)
             <= Rank(MARITIME_STATUSES, shipment'[s].status)

(* Moved moves the ships of S, if their statuses allow it, and no other.     *)
LEMMA MovedSails ==
  ASSUME Typed, NEW S \in SUBSET Shipments, NEW to, shipment' = Moved(S, to),
         \A s \in S : /\ shipment[s] \in Ships /\ to \in DOMAIN SHIPMENT_TRANSITIONS
                      /\ shipment[s].status \notin {"arrived", "cancelled"}
                      /\ \/ to = "cancelled" /\ shipment[s].status # "inTransit"
                         \/ Rank(MARITIME_STATUSES, shipment[s].status)
                              <= Rank(MARITIME_STATUSES, to)
  PROVE  /\ shipment' \in [Shipments -> {Absent} \union Ships]
         /\ \A s \in Shipments : Sails(s)
         /\ \A s \in Shipments \ S : shipment'[s] = shipment[s]
         /\ \A s \in Shipments : shipment[s] \in Ships => shipment'[s] \in Ships
<1>1. ASSUME NEW row \in Ships, to \in DOMAIN SHIPMENT_TRANSITIONS
      PROVE  /\ [row EXCEPT !.status = to] \in Ships
             /\ [row EXCEPT !.status = to].status = to
             /\ [row EXCEPT !.status = to].capacity = row.capacity
  BY <1>1 DEF Ships
<1>2. \A s \in Shipments :
        shipment'[s] = IF s \in S THEN [shipment[s] EXCEPT !.status = to] ELSE shipment[s]
  BY DEF Moved
<1>3. \A s \in S : /\ shipment'[s] \in Ships /\ shipment'[s].status = to
                   /\ shipment'[s].capacity = shipment[s].capacity
  BY <1>1, <1>2
<1>4. shipment' \in [Shipments -> {Absent} \union Ships]
  <2>1. \A s \in Shipments : shipment'[s] \in {Absent} \union Ships
    BY <1>2, <1>3 DEF Typed
  <2>2. shipment' = [s \in Shipments |-> shipment'[s]]
    BY DEF Moved
  <2> QED BY <2>1, <2>2
<1>5. QED
  BY <1>2, <1>3, <1>4 DEF Sails
-----------------------------------------------------------------------------
(* What NeverSailsBack says of one shipment.                                 *)
Forward(s) ==
  /\ shipment[s].status # "cancelled" =>
       \/ shipment'[s].status = "cancelled"
       \/ Rank(MARITIME_STATUSES, shipment[s].status)
            <= Rank(MARITIME_STATUSES, shipment'[s].status)
  /\ shipment[s].status \in {"cancelled", "arrived"} =>
       shipment'[s].status = shipment[s].status
  /\ shipment[s].status \in {"inTransit", "arrived"} =>
       {v \in Vehicles : << s, v >> \in aboard'} = Aboard(s)

Good == Stowed' /\ \A s \in Shipments : Forward(s)

(* Ranks are numbers.                                                        *)
LEMMA RankIsNat == \A status : Rank(MARITIME_STATUSES, status) \in 0 .. 5
BY Places

(* Capacities are numbers.                                                   *)
LEMMA CapacityIsNat ==
  ASSUME Typed, NEW s \in Shipments
  PROVE  shipment[s].capacity \in Nat
<1>1. Capacities \subseteq Nat
  BY LogisticsAssumption DEF LogisticsAssumption
<1>2. shipment[s] = Absent \/ shipment[s] \in Ships
  BY DEF Typed
<1>3. \A row \in Ships : row.capacity \in Nat
  BY <1>1 DEF Ships
<1>4. Absent.capacity \in Nat
  BY DEF Absent
<1>5. QED
  BY <1>2, <1>3, <1>4

(* The locks outlive a step that leaves the locked shipments alone.          *)
LEMMA LocksKept ==
  ASSUME LocksHeld,
         \A r \in Requests : Transiting(r)' =>
           /\ req'[r] = req[r]
           /\ shipment'[req[r].s].status = shipment[req[r].s].status
           /\ shipment'[req[r].s] \in Ships
  PROVE  LocksHeld'
BY DEF LocksHeld, Transiting

(* A step that only moves ships keeps everything aboard in its place.        *)
LEMMA VoyageKeeps ==
  ASSUME Stowed, aboard' = aboard, \A s \in Shipments : Sails(s),
         shipment' \in [Shipments -> {Absent} \union Ships],
         \A s \in Shipments : shipment[s] \in Ships => shipment'[s] \in Ships,
         DOMAIN req' = Requests, LocksHeld'
  PROVE  Good
<1> USE DEF Stowed
<1>1. \A s \in Shipments : Aboard(s)' = Aboard(s)
  BY DEF Aboard
<1>2. Typed'
  BY <1>1 DEF Typed
<1>3. \A s \in Shipments :
        /\ shipment'[s].capacity = shipment[s].capacity
        /\ Active(s)' => Active(s)
  BY DEF Sails, Active, Ships, SHIPMENT_TRANSITIONS
<1>4. LoadedOnce'
  BY <1>1, <1>3 DEF LoadedOnce
<1>5. \A s \in Shipments : Forward(s)
  BY RankIsNat DEF Sails, Forward, Aboard
<1>6. QED
  BY <1>2, <1>4, <1>5 DEF Good

(* A step without ships, vehicles aboard or a new transition.                *)
LEMMA IdleKeeps ==
  ASSUME Stowed, UNCHANGED << shipment, aboard >>, DOMAIN req' = Requests,
         \A r \in Requests : Transiting(r)' => req'[r] = req[r]
  PROVE  Good
<1>1. LocksHeld'
  <2>1. \A r \in Requests : Transiting(r)' => Transiting(r)
    BY DEF Transiting
  <2> QED BY <2>1, LocksKept DEF Stowed, LocksHeld
<1>2. \A s \in Shipments : Sails(s)
  BY DEF Sails
<1>3. shipment' \in [Shipments -> {Absent} \union Ships]
  BY DEF Stowed, Typed
<1>4. QED
  BY <1>1, <1>2, <1>3, VoyageKeeps

(* A request that is served, or starts or ends something else than a         *)
(* transition.                                                               *)
LEMMA RequestKeeps ==
  ASSUME Stowed, UNCHANGED << shipment, aboard >>, NEW r \in Requests, NEW context,
         req' = [req EXCEPT ![r] = context], context.op # "transition"
  PROVE  Good
<1>1. /\ DOMAIN req' = Requests /\ req'[r] = context
      /\ \A q \in Requests \ {r} : req'[q] = req[q]
  BY DEF Stowed, Typed
<1>2. QED
  BY <1>1, IdleKeeps DEF Transiting

(* A transition starts on a ship that nobody holds.                          *)
LEMMA ReadTransitionKeeps ==
  ASSUME Stowed, NEW r \in Requests, NEW s \in Shipments, NEW to, ReadTransition(r, s, to)
  PROVE  Good
<1>1. PICK found : found = WithFile
  OBVIOUS
<1> DEFINE context == [op |-> "transition", s |-> s, to |-> to, found |-> found]
<1>2. /\ UNCHANGED << shipment, aboard >>
      /\ req' = [req EXCEPT ![r] = context]
      /\ shipment[s] \in Ships /\ to \in SHIPMENT_TRANSITIONS[shipment[s].status]
      /\ \A q \in Requests : Transiting(q) => req[q].s # s
  BY <1>1 DEF ReadTransition, Start, Locked, Stowed, Typed, Transiting
<1>3. /\ DOMAIN req' = Requests
      /\ req'[r].s = s /\ req'[r].to = to
      /\ \A q \in Requests \ {r} : req'[q] = req[q]
  BY <1>2 DEF Stowed, Typed
<1>4. LocksHeld'
  BY <1>2, <1>3 DEF Stowed, LocksHeld, Transiting
<1>5. \A t \in Shipments : Sails(t)
  BY <1>2 DEF Sails
<1>6. shipment' \in [Shipments -> {Absent} \union Ships]
  BY <1>2 DEF Stowed, Typed
<1>7. QED
  BY <1>2, <1>3, <1>4, <1>5, <1>6, VoyageKeeps

(* The ship of a transition is nobody else's until it is written.            *)
LEMMA TransitionKeeps ==
  ASSUME Stowed, NEW r \in Requests, transition(r)
  PROVE  Good
<1>1. PICK s, to : s = req[r].s /\ to = req[r].to
  OBVIOUS
<1>2. /\ Transiting(r) /\ req' = [req EXCEPT ![r] = Idle]
      /\ shipment' = Moved({s}, to) /\ aboard' = aboard
  BY <1>1 DEF transition, Finish, applyTransition, Transiting
<1>3. /\ s \in Shipments /\ shipment[s] \in Ships
      /\ to \in SHIPMENT_TRANSITIONS[shipment[s].status]
      /\ \A q \in Requests \ {r} : Transiting(q) => req[q].s # s
  BY <1>1, <1>2 DEF Stowed, LocksHeld
<1>4. /\ shipment' \in [Shipments -> {Absent} \union Ships]
      /\ \A t \in Shipments : Sails(t)
      /\ \A t \in Shipments \ {s} : shipment'[t] = shipment[t]
      /\ \A t \in Shipments : shipment[t] \in Ships => shipment'[t] \in Ships
  <2>1. /\ shipment[s].status \in DOMAIN SHIPMENT_TRANSITIONS
        /\ Typed
    BY <1>3 DEF Ships, Stowed
  <2>2. /\ to \in DOMAIN SHIPMENT_TRANSITIONS
        /\ shipment[s].status \notin {"arrived", "cancelled"}
        /\ \/ to = "cancelled" /\ shipment[s].status # "inTransit"
           \/ Rank(MARITIME_STATUSES, shipment[s].status) <= Rank(MARITIME_STATUSES, to)
    BY <2>1, <1>3, ByHand
  <2>3. PICK S : S = {s}
    OBVIOUS
  <2>4. shipment' = Moved(S, to) /\ S \in SUBSET Shipments
    BY <2>3, <1>2, <1>3
  <2>5. \A t \in S : t = s
    BY <2>3
  <2>6. /\ shipment' \in [Shipments -> {Absent} \union Ships]
        /\ \A t \in Shipments : Sails(t)
        /\ \A t \in Shipments \ S : shipment'[t] = shipment[t]
        /\ \A t \in Shipments : shipment[t] \in Ships => shipment'[t] \in Ships
    BY <2>1, <2>2, <2>4, <2>5, <1>3, MovedSails
  <2> QED BY <2>3, <2>6
<1>5. /\ DOMAIN req' = Requests /\ ~ Transiting(r)'
      /\ \A q \in Requests \ {r} : req'[q] = req[q]
  BY <1>2 DEF Stowed, Typed, Transiting, Idle
<1>6. LocksHeld'
  <2>1. ASSUME NEW q \in Requests, Transiting(q)'
        PROVE  /\ req'[q] = req[q]
               /\ shipment'[req[q].s].status = shipment[req[q].s].status
               /\ shipment'[req[q].s] \in Ships
    <3>1. q # r /\ req'[q] = req[q] /\ Transiting(q)
      BY <2>1, <1>5 DEF Transiting
    <3>2. req[q].s \in Shipments \ {s} /\ shipment[req[q].s] \in Ships
      BY <3>1, <1>3 DEF Stowed, LocksHeld
    <3> QED BY <3>1, <3>2, <1>4
  <2> QED BY <2>1, LocksKept DEF Stowed
<1>7. QED
  BY <1>2, <1>4, <1>5, <1>6, VoyageKeeps

(* A dossier moves only ships that nobody holds, and only forward.           *)
LEMMA AdvanceKeeps ==
  ASSUME Stowed, NEW r \in Requests, advance(r)
  PROVE  Good
<1>1. PICK S, step, to :
        /\ S = Related(req[r].d, req[r].step) /\ step = req[r].step
        /\ to = getTargetShipmentStatus(step)
  OBVIOUS
<1>2. /\ req' = [req EXCEPT ![r] = Idle]
      /\ shipment' = Moved(S, to) /\ aboard' = aboard
      /\ \A s \in S : ~ Locked(s)
  BY <1>1 DEF advance, Finish
<1>3. /\ S \in SUBSET Shipments
      /\ \A s \in S : Active(s) /\ advancesShipment(shipment[s].status, to)
  BY <1>1 DEF Related
<1>4. \A s \in S : shipment[s] \in Ships
  BY <1>3 DEF Stowed, Typed, Active, Absent
<1>5. /\ shipment' \in [Shipments -> {Absent} \union Ships]
      /\ \A s \in Shipments : Sails(s)
      /\ \A s \in Shipments \ S : shipment'[s] = shipment[s]
      /\ \A s \in Shipments : shipment[s] \in Ships => shipment'[s] \in Ships
  <2>1. ASSUME NEW s \in S
        PROVE  /\ to \in DOMAIN SHIPMENT_TRANSITIONS
               /\ shipment[s].status \notin {"arrived", "cancelled"}
               /\ Rank(MARITIME_STATUSES, shipment[s].status) <= Rank(MARITIME_STATUSES, to)
    <3>1. shipment[s].status \in DOMAIN SHIPMENT_TRANSITIONS /\ shipment[s].status # "arrived"
      BY <1>3, <1>4 DEF Ships, Active
    <3> QED BY <3>1, <1>1, <1>3, ByDossier
  <2> QED BY <2>1, <1>2, <1>3, <1>4, MovedSails DEF Stowed
<1>6. /\ DOMAIN req' = Requests /\ ~ Transiting(r)'
      /\ \A q \in Requests \ {r} : req'[q] = req[q]
  BY <1>2 DEF Stowed, Typed, Transiting, Idle
<1>7. LocksHeld'
  <2>1. ASSUME NEW q \in Requests, Transiting(q)'
        PROVE  /\ req'[q] = req[q]
               /\ shipment'[req[q].s].status = shipment[req[q].s].status
               /\ shipment'[req[q].s] \in Ships
    <3>1. q # r /\ req'[q] = req[q] /\ Transiting(q)
      BY <2>1, <1>6 DEF Transiting
    <3>2. req[q].s \in Shipments \ S /\ shipment[req[q].s] \in Ships
      BY <3>1, <1>2 DEF Stowed, LocksHeld, Locked, Transiting
    <3> QED BY <3>1, <3>2, <1>5
  <2> QED BY <2>1, LocksKept DEF Stowed
<1>8. QED
  BY <1>2, <1>5, <1>6, <1>7, VoyageKeeps

-----------------------------------------------------------------------------
(* Creation, loading, unloading and another container move no ship.          *)
LEMMA LoadingKeeps ==
  ASSUME Stowed, UNCHANGED req, Typed', LoadedOnce',
         \A s \in Shipments :
           /\ shipment[s] \in Ships =>
                shipment'[s] \in Ships /\ shipment'[s].status = shipment[s].status
           /\ ~ Open(s) /\ shipment[s] \in Ships => Aboard(s)' = Aboard(s)
  PROVE  Good
<1>1. LocksHeld'
  <2>1. ASSUME NEW r \in Requests, Transiting(r)'
        PROVE  /\ req'[r] = req[r]
               /\ shipment'[req[r].s].status = shipment[req[r].s].status
               /\ shipment'[req[r].s] \in Ships
    BY <2>1 DEF Stowed, LocksHeld, Transiting
  <2> QED BY <2>1, LocksKept DEF Stowed
<1>2. ASSUME NEW s \in Shipments PROVE Forward(s)
  <2>1. CASE shipment[s] = Absent
    <3>1. /\ shipment[s].status \notin {"inTransit", "arrived", "cancelled"}
          /\ Rank(MARITIME_STATUSES, shipment[s].status) = 0
      BY <2>1, Places DEF Absent
    <3> QED BY <3>1, RankIsNat DEF Forward
  <2>2. CASE shipment[s] \in Ships
    <3>1. shipment'[s].status = shipment[s].status
      BY <2>2
    <3>2. shipment[s].status \in {"inTransit", "arrived"} => Aboard(s)' = Aboard(s)
      BY <2>2 DEF Open
    <3> QED BY <3>1, <3>2, RankIsNat DEF Forward, Aboard
  <2> QED BY <2>1, <2>2 DEF Stowed, Typed
<1>3. QED
  BY <1>1, <1>2 DEF Good, Stowed

(* A shipment that did not exist carried nothing.                            *)
LEMMA CreateKeeps ==
  ASSUME IsFiniteSet(Vehicles), Stowed, NEW s \in Shipments, NEW capacity \in Capacities,
         NEW S \in SUBSET Vehicles, create(s, capacity, S)
  PROVE  Good
<1> USE DEF Stowed
<1> DEFINE row == [status |-> "pending", capacity |-> capacity]
<1>0. Absent \notin Ships
  BY DEF Absent, Ships, SHIPMENT_TRANSITIONS
<1>1. /\ shipment[s] = Absent /\ Aboard(s) = {}
      /\ Cardinality(S) <= capacity
      /\ \A v \in S, t \in Shipments : v \in Aboard(t) => ~ Active(t)
      /\ shipment' = [shipment EXCEPT ![s] = row]
      /\ aboard' = aboard \union ({s} \X S)
      /\ UNCHANGED req
  BY <1>0 DEF create, Serve, Typed
<1>2. row \in Ships /\ row.capacity = capacity
  BY DEF Ships, SHIPMENT_TRANSITIONS
<1> HIDE DEF row
<1>3. /\ shipment'[s] = row
      /\ \A t \in Shipments \ {s} : shipment'[t] = shipment[t]
      /\ shipment' \in [Shipments -> {Absent} \union Ships]
  BY <1>1, <1>2 DEF Typed
<1>4. /\ Aboard(s)' = S
      /\ \A t \in Shipments \ {s} : Aboard(t)' = Aboard(t)
  BY <1>1 DEF Aboard
<1>5. Typed'
  BY <1>1, <1>2, <1>3, <1>4 DEF Typed
<1>6. LoadedOnce'
  <2>1. \A t \in Shipments : Cardinality(Aboard(t)') <= shipment'[t].capacity
    BY <1>1, <1>2, <1>3, <1>4 DEF LoadedOnce
  <2>2. \A t \in Shipments \ {s} : Active(t)' <=> Active(t)
    BY <1>3 DEF Active
  <2>3. ASSUME NEW t \in Shipments, NEW u \in Shipments, Active(t)', Active(u)',
               NEW v \in Aboard(t)' \intersect Aboard(u)'
        PROVE  t = u
    BY <2>2, <2>3, <1>1, <1>4 DEF LoadedOnce
  <2> QED BY <2>1, <2>3 DEF LoadedOnce
<1>7. \A t \in Shipments : shipment[t] \in Ships =>
        shipment'[t] = shipment[t] /\ Aboard(t)' = Aboard(t)
  BY <1>0, <1>1, <1>3, <1>4
<1>8. QED
  BY <1>1, <1>5, <1>6, <1>7, LoadingKeeps

(* Another container takes what is aboard.                                   *)
LEMMA UpdateKeeps ==
  ASSUME Stowed, NEW s \in Shipments, NEW capacity \in Capacities, update(s, capacity)
  PROVE  Good
<1> USE DEF Stowed
<1> DEFINE old == shipment[s]
           row == [old EXCEPT !.capacity = capacity]
<1>1. /\ old \in Ships /\ aboard' = aboard /\ UNCHANGED req
      /\ Cardinality(Aboard(s)) <= capacity
      /\ shipment' = [shipment EXCEPT ![s] = row]
  BY DEF update, Serve, Typed
<1> HIDE DEF old
<1>2. row \in Ships /\ row.capacity = capacity /\ row.status = old.status
  BY <1>1 DEF Ships
<1> HIDE DEF row
<1>3. /\ shipment'[s] = row
      /\ \A t \in Shipments \ {s} : shipment'[t] = shipment[t]
      /\ shipment' \in [Shipments -> {Absent} \union Ships]
  BY <1>1, <1>2 DEF Typed
<1>4. \A t \in Shipments : Aboard(t)' = Aboard(t) /\ (Active(t)' <=> Active(t))
  BY <1>1, <1>2, <1>3 DEF Aboard, Active, old
<1>5. Typed'
  BY <1>1, <1>2, <1>3, <1>4 DEF Typed
<1>6. LoadedOnce'
  BY <1>1, <1>2, <1>3, <1>4 DEF LoadedOnce
<1>7. QED
  BY <1>1, <1>2, <1>3, <1>4, <1>5, <1>6, LoadingKeeps DEF old

(* One vehicle more is within the capacity.                                  *)
LEMMA AddVehicleKeeps ==
  ASSUME IsFiniteSet(Vehicles), Stowed, NEW s \in Shipments, NEW v \in Vehicles, addVehicle(s, v)
  PROVE  Good
<1> USE DEF Stowed
<1>1. /\ UNCHANGED << shipment, req >>
      /\ aboard' = aboard \union {<< s, v >>}
      /\ Open(s) /\ v \notin Aboard(s)
      /\ \A t \in Shipments \ {s} : v \in Aboard(t) => ~ Active(t)
      /\ Cardinality(Aboard(s)) < shipment[s].capacity
  BY DEF addVehicle, Serve, Loadable
<1>2. /\ Aboard(s)' = Aboard(s) \union {v}
      /\ \A t \in Shipments \ {s} : Aboard(t)' = Aboard(t)
      /\ \A t \in Shipments : Active(t)' <=> Active(t)
  BY <1>1 DEF Aboard, Active
<1>3. shipment[s] \in Ships
  BY <1>1 DEF Typed, Open, Absent
<1>4. Cardinality(Aboard(s)') <= shipment[s].capacity
  <2>1. IsFiniteSet(Aboard(s)) /\ Cardinality(Aboard(s)) \in Nat
    <3>1. Aboard(s) \subseteq Vehicles
      BY DEF Aboard
    <3> QED BY <3>1, FS_Subset, FS_CardinalityType
  <2>2. Cardinality(Aboard(s) \union {v}) = Cardinality(Aboard(s)) + 1
    BY <2>1, <1>1, FS_AddElement
  <2>3. shipment[s].capacity \in Nat
    BY CapacityIsNat
  <2> QED BY <2>1, <2>2, <2>3, <1>1, <1>2
<1>5. Typed'
  BY <1>1, <1>2, <1>3 DEF Typed
<1>6. LoadedOnce'
  <2>1. \A t \in Shipments : Cardinality(Aboard(t)') <= shipment'[t].capacity
    BY <1>1, <1>2, <1>4 DEF LoadedOnce
  <2>2. ASSUME NEW t \in Shipments, NEW u \in Shipments, Active(t)', Active(u)',
               NEW w \in Aboard(t)' \intersect Aboard(u)'
        PROVE  t = u
    BY <2>2, <1>1, <1>2 DEF LoadedOnce
  <2> QED BY <2>1, <2>2 DEF LoadedOnce
<1>7. QED
  BY <1>1, <1>2, <1>5, <1>6, LoadingKeeps

(* One vehicle less is within the capacity.                                  *)
LEMMA RemoveVehicleKeeps ==
  ASSUME IsFiniteSet(Vehicles), Stowed, NEW s \in Shipments, NEW v \in Vehicles,
         removeVehicle(s, v)
  PROVE  Good
<1> USE DEF Stowed
<1>1. /\ UNCHANGED << shipment, req >> /\ Open(s)
      /\ aboard' = aboard \ {<< s, v >>}
  BY DEF removeVehicle, Serve
<1>2. /\ Aboard(s)' = Aboard(s) \ {v}
      /\ \A t \in Shipments \ {s} : Aboard(t)' = Aboard(t)
      /\ \A t \in Shipments : Active(t)' <=> Active(t)
  BY <1>1 DEF Aboard, Active
<1>3. Cardinality(Aboard(s)') <= shipment[s].capacity
  <2>1. Aboard(s) \subseteq Vehicles /\ Aboard(s) \ {v} \subseteq Aboard(s)
    BY DEF Aboard
  <2>2. IsFiniteSet(Aboard(s)) /\ Cardinality(Aboard(s)) \in Nat
    BY <2>1, FS_Subset, FS_CardinalityType
  <2>3. /\ IsFiniteSet(Aboard(s) \ {v}) /\ Cardinality(Aboard(s) \ {v}) \in Nat
        /\ Cardinality(Aboard(s) \ {v}) <= Cardinality(Aboard(s))
    BY <2>1, <2>2, FS_Subset, FS_CardinalityType
  <2>4. Cardinality(Aboard(s)) <= shipment[s].capacity /\ shipment[s].capacity \in Nat
    BY CapacityIsNat DEF LoadedOnce
  <2> QED BY <2>2, <2>3, <2>4, <1>2
<1>4. Typed'
  BY <1>1, <1>2 DEF Typed
<1>5. LoadedOnce'
  BY <1>1, <1>2, <1>3 DEF LoadedOnce
<1>6. QED
  BY <1>1, <1>2, <1>4, <1>5, LoadingKeeps

-----------------------------------------------------------------------------
(* No shipment exists at first.                                              *)
LEMMA InitStowed == Init => Stowed
<1> SUFFICES ASSUME Init PROVE Stowed
  OBVIOUS
<1>1. \A s \in Shipments : Aboard(s) = {} /\ shipment[s] = Absent
  BY DEF Init, Aboard
<1>2. Typed
  BY <1>1 DEF Init, Typed
<1>3. LoadedOnce
  BY <1>1, FS_EmptySet DEF LoadedOnce, Absent
<1>4. LocksHeld
  BY DEF Init, LocksHeld, Transiting, Idle
<1>5. QED
  BY <1>2, <1>3, <1>4 DEF Stowed

(* The steps, one by one.                                                    *)
LEMMA StepGood ==
  ASSUME IsFiniteSet(Vehicles), Stowed, Next
  PROVE  Good
<1>1. ASSUME NEW s \in Shipments, NEW c \in Capacities,
             update(s, c) \/ \E S \in SUBSET Vehicles : create(s, c, S)
      PROVE  Good
  BY <1>1, CreateKeeps, UpdateKeeps
<1>2. ASSUME NEW s \in Shipments, NEW v \in Vehicles, addVehicle(s, v) \/ removeVehicle(s, v)
      PROVE  Good
  BY <1>2, AddVehicleKeeps, RemoveVehicleKeeps
<1>3. ASSUME NEW k \in Keys, reverseCost(k) PROVE Good
  BY <1>3, IdleKeeps DEF reverseCost, Serve, Stowed, Typed
<1>4. ASSUME NEW r \in Requests, NEW context, Start(r, context), context.op # "transition"
      PROVE  Good
  BY <1>4, RequestKeeps DEF Start
<1>5. ASSUME NEW r \in Requests,
             createCustoms(r) \/ transitionCustoms(r) \/ updateAmount(r)
               \/ createCustomsFromShipment(r) \/ Abort(r)
      PROVE  Good
  <2>1. UNCHANGED << shipment, aboard >> /\ req' = [req EXCEPT ![r] = Idle]
    BY <1>5 DEF createCustoms, transitionCustoms, updateAmount, createCustomsFromShipment,
                Abort, Finish
  <2>2. Idle.op # "transition"
    BY DEF Idle
  <2> QED BY <2>1, <2>2, RequestKeeps
<1>6. ASSUME NEW r \in Requests, NEW s \in Shipments, NEW k \in Keys, ReadCreateCustoms(r, s, k)
      PROVE  Good
  BY <1>4, <1>6 DEF ReadCreateCustoms
<1>7. ASSUME NEW r \in Requests, NEW k \in Keys, NEW to, ReadCustomsTransition(r, k, to)
      PROVE  Good
  BY <1>4, <1>7 DEF ReadCustomsTransition
<1>8. ASSUME NEW r \in Requests, NEW k \in Keys, NEW a, ReadAmount(r, k, a) PROVE Good
  BY <1>4, <1>8 DEF ReadAmount
<1>9. ASSUME NEW r \in Requests, NEW s \in Shipments, ReadCustomsFromShipment(r, s)
      PROVE  Good
  BY <1>4, <1>9 DEF ReadCustomsFromShipment
<1>10. ASSUME NEW r \in Requests, NEW d \in Dossiers, NEW step, ReadAdvance(r, d, step)
       PROVE  Good
  BY <1>4, <1>10 DEF ReadAdvance
<1>11. ASSUME NEW r \in Requests, NEW s \in Shipments, NEW to, ReadTransition(r, s, to)
       PROVE  Good
  BY <1>11, ReadTransitionKeeps
<1>12. ASSUME NEW r \in Requests, transition(r) \/ advance(r) PROVE Good
  BY <1>12, TransitionKeeps, AdvanceKeeps
<1>13. CASE Loading
  BY <1>13, <1>1, <1>2 DEF Loading
<1>14. CASE Customs
  BY <1>14, <1>3, <1>5, <1>6, <1>7, <1>8 DEF Customs
<1>15. CASE Voyage
  BY <1>15, <1>5, <1>9, <1>10, <1>11, <1>12 DEF Voyage
<1>16. QED
  BY <1>13, <1>14, <1>15 DEF Next

(* A stuttering step.                                                        *)
LEMMA StutterStowed == Stowed /\ UNCHANGED vars => Stowed'
BY DEF vars, Stowed, Typed, LocksHeld, LoadedOnce, Aboard, Active, Transiting

(* Stowed in every behaviour, however many requests interleave.              *)
THEOREM AlwaysStowed ==
  ASSUME IsFiniteSet(Vehicles)
  PROVE  Spec => []Stowed
  <1>1. Stowed /\ [Next]_vars => Stowed'
    BY StepGood, StutterStowed DEF Good
  <1> QED BY <1>1, InitStowed, PTL DEF Spec

(* The container and the one ship of a vehicle: loading, unloading, creation *)
(* and change of container each count under the locks of the rows.           *)
THEOREM Loadings ==
  ASSUME IsFiniteSet(Vehicles)
  PROVE  Spec => []LoadedOnce
  <1>1. Stowed => LoadedOnce
    BY DEF Stowed
  <1> QED BY <1>1, AlwaysStowed, PTL

(* A status moves forward or to cancelled, by hand and by every dossier, and *)
(* a ship that left keeps what is aboard.                                    *)
THEOREM Forwards ==
  ASSUME IsFiniteSet(Vehicles)
  PROVE  Spec => NeverSailsBack
  <1>1. Stowed /\ [Next]_vars => [\A s \in Shipments : Forward(s)]_vars
    BY StepGood DEF Good
  <1>2. Spec => [][\A s \in Shipments : Forward(s)]_vars
    BY <1>1, AlwaysStowed, PTL DEF Spec
  <1> QED BY <1>2, PTL DEF NeverSailsBack, Forward
-----------------------------------------------------------------------------
(* The customs files: one that exists stays a file, through every opening,   *)
(* transition and synchronisation, and what was booked for it stays its      *)
(* amount.                                                                   *)
CustomsSteps == {CustomsStatuses[i] : i \in DOMAIN CustomsStatuses}

FileRows ==
  [ status : CustomsSteps, shipment : Shipments, amount : 0 .. MaxAmount,
    cost : {"none", "POSTED", "REVERSED"}, booked : 0 .. MaxAmount ]

Files == [Keys -> {NoFile} \union FileRows]

SealedRow(f) == f # NoFile /\ f.cost = "POSTED" => f.booked = f.amount

(* From the files `old' to the files `new'.                                  *)
Grown(old, new) ==
  /\ new \in Files
  /\ \A k \in Keys :
       /\ old[k] # NoFile => new[k] # NoFile
       /\ SealedRow(old[k]) => SealedRow(new[k])

NamesRows(context) ==
  /\ context.op = "fromShipment" => context.s \in Shipments
  /\ context.op = "createCustoms" => context.s \in Shipments /\ context.k \in Keys
  /\ context.op = "customs" =>
       context.k \in Keys /\ context.to \in CustomsSteps /\ file[context.k] # NoFile
  /\ context.op = "amount" =>
       context.k \in Keys /\ context.amount \in 1 .. MaxAmount /\ file[context.k] # NoFile
  /\ context.op = "advance" => context.d \in Dossiers /\ context.step \in AllStatuses

Filed ==
  /\ dossier \in [Dossiers -> AllStatuses]
  /\ stock \in [Vehicles -> {"available", "inTransit"}]
  /\ file \in Files
  /\ \A r \in Requests : NamesRows(req[r])

(* A file is not the mark of a missing one.                                  *)
LEMMA Bounds == MaxAmount \in Nat /\ NoFile \notin FileRows
<1>1. CustomsSteps \subseteq {"TO_PREPARE", "AWAITING_ARRIVAL", "ARRIVED_AT_PORT",
        "FILE_TRANSMITTED", "CLEARANCE_IN_PROGRESS", "INSPECTION", "DUTIES_TAXES", "RELEASE",
        "PORT_EXIT", "CLOSED"}
  BY DEF CustomsSteps, CustomsStatuses
<1>2. NoFile.status \notin CustomsSteps
  BY <1>1 DEF NoFile
<1>3. QED
  BY <1>2, LogisticsAssumption DEF FileRows, LogisticsAssumption

(* The statuses that the code writes are customs statuses.                   *)
LEMMA Milestones ==
  {"TO_PREPARE", "AWAITING_ARRIVAL", "ARRIVED_AT_PORT", "CLEARANCE_IN_PROGRESS", "RELEASE",
   "PORT_EXIT", "CLOSED"} \subseteq CustomsSteps
<1>1. /\ DOMAIN CustomsStatuses = 1 .. 10
      /\ CustomsStatuses[1] = "TO_PREPARE" /\ CustomsStatuses[2] = "AWAITING_ARRIVAL"
      /\ CustomsStatuses[3] = "ARRIVED_AT_PORT" /\ CustomsStatuses[5] = "CLEARANCE_IN_PROGRESS"
      /\ CustomsStatuses[8] = "RELEASE" /\ CustomsStatuses[9] = "PORT_EXIT"
      /\ CustomsStatuses[10] = "CLOSED"
  BY DEF CustomsStatuses
<1>2. QED
  BY <1>1 DEF CustomsSteps

(* A new file has no cost.                                                   *)
LEMMA NewFileRow ==
  ASSUME NEW s \in Shipments, NEW status \in CustomsSteps
  PROVE  NewFile(s, status) \in FileRows /\ SealedRow(NewFile(s, status))
BY Bounds DEF NewFile, FileRows, SealedRow

(* A release books the amount it finds, and only if nothing is posted.       *)
LEMMA WithStatusRow ==
  ASSUME NEW f \in FileRows, NEW status \in CustomsSteps
  PROVE  /\ WithStatus(f, status) \in FileRows
         /\ SealedRow(f) => SealedRow(WithStatus(f, status))
<1> DEFINE g == [f EXCEPT !.status = status]
           h == [g EXCEPT !.cost = "POSTED", !.booked = g.amount]
<1>1. /\ g \in FileRows
      /\ g.amount = f.amount /\ g.cost = f.cost /\ g.booked = f.booked
  BY DEF FileRows
<1> HIDE DEF g
<1>2. h \in FileRows /\ h.booked = h.amount
  BY <1>1 DEF FileRows
<1> HIDE DEF h
<1>3. WithStatus(f, status) \in {g, h}
  BY DEF WithStatus, recordCustomsActual, g, h
<1>4. SealedRow(f) => SealedRow(g) /\ SealedRow(h)
  BY <1>1, <1>2, Bounds DEF SealedRow
<1>5. QED
  BY <1>1, <1>2, <1>3, <1>4

(* An opening writes files only where there are none.                        *)
LEMMA OpeningGrows ==
  ASSUME Typed, file \in Files, NEW S \in SUBSET Shipments, NEW ship, NEW found, NEW now,
         NEW files \in createCustomsFiles(S, ship, found, now)
  PROVE  Grown(file, files)
<1>1. PICK pick \in [Due(S, found, now) -> aboard] :
        /\ \A d \in DOMAIN pick : pick[d][1] \in S /\ file[<< pick[d][2], d >>] = NoFile
        /\ files = Opened(pick, ship)
  BY DEF createCustomsFiles
<1>2. ASSUME NEW k \in Keys
      PROVE  \/ files[k] = file[k]
             \/ file[k] = NoFile /\ files[k] \in FileRows /\ SealedRow(files[k])
  <2> DEFINE opens == k[2] \in DOMAIN pick /\ pick[k[2]][2] = k[1]
  <2>1. CASE ~ opens
    BY <2>1, <1>1 DEF Opened
  <2>2. CASE opens
    <3>1. file[k] = NoFile
      BY <2>2, <1>1 DEF Keys
    <3>2. PICK s, status :
            /\ s = pick[k[2]][1]
            /\ status = IF ship[s].status = "arrived" THEN "ARRIVED_AT_PORT"
                                                      ELSE "AWAITING_ARRIVAL"
      OBVIOUS
    <3>3. s \in Shipments /\ status \in CustomsSteps
      BY <2>2, <3>2, <1>1, Milestones
    <3>4. files[k] = NewFile(s, status)
      BY <2>2, <3>2, <1>1 DEF Opened
    <3> QED BY <3>1, <3>3, <3>4, NewFileRow
  <2> QED BY <2>1, <2>2
<1>3. files = [k \in Keys |-> files[k]]
  BY <1>1 DEF Opened
<1>4. files \in Files
  BY <1>2, <1>3 DEF Files
<1>5. QED
  BY <1>2, <1>4, Bounds DEF Grown

(* A milestone of the dossier moves the files that exist.                    *)
LEMMA SyncingGrows ==
  ASSUME NEW files \in Files, NEW d, NEW target \in CustomsSteps
  PROVE  Grown(files, Synced(d, target, files))
<1> DEFINE new == Synced(d, target, files)
<1>1. ASSUME NEW k \in Keys
      PROVE  \/ new[k] = files[k]
             \/ files[k] # NoFile /\ new[k] = WithStatus(files[k], target)
  BY DEF Synced
<1>2. new = [k \in Keys |-> new[k]]
  BY DEF Synced
<1> HIDE DEF new
<1>3. ASSUME NEW k \in Keys
      PROVE  /\ new[k] \in {NoFile} \union FileRows
             /\ files[k] # NoFile => new[k] # NoFile
             /\ SealedRow(files[k]) => SealedRow(new[k])
  <2>1. files[k] = NoFile \/ files[k] \in FileRows
    BY DEF Files
  <2> QED BY <2>1, <1>1, WithStatusRow, Bounds
<1>4. new \in Files
  BY <1>2, <1>3 DEF Files
<1>5. QED
  BY <1>3, <1>4 DEF Grown, new

-----------------------------------------------------------------------------
(* Two growths are one.                                                      *)
LEMMA GrownTwice ==
  ASSUME NEW f, NEW g, NEW h, Grown(f, g), Grown(g, h)
  PROVE  Grown(f, h)
BY DEF Grown

(* A step of a dossier opens files, then moves those of its milestone.       *)
LEMMA AdvanceFiles ==
  ASSUME Stowed, Filed, NEW r \in Requests, advance(r)
  PROVE  /\ Grown(file, file')
         /\ dossier' \in [Dossiers -> AllStatuses]
         /\ stock' \in [Vehicles -> {"available", "inTransit"}]
<1>1. PICK d, step, now, ships, to, target :
        /\ d = req[r].d /\ step = req[r].step /\ now = [dossier EXCEPT ![d] = step]
        /\ ships = Related(d, step) /\ to = getTargetShipmentStatus(step)
        /\ target = getTargetCustomsStatus(step)
  OBVIOUS
<1>2. d \in Dossiers /\ step \in AllStatuses
  BY <1>1 DEF advance, Finish, Filed, NamesRows
<1>3. dossier' \in [Dossiers -> AllStatuses]
  BY <1>1, <1>2 DEF advance, Filed
<1>4. stock' \in [Vehicles -> {"available", "inTransit"}]
  BY DEF advance, Departed, Filed
<1>5. PICK files \in IF to = "arrived"
                     THEN createCustomsFiles(ships, Moved(ships, to), req[r].found, now)
                     ELSE {file} :
        file' = files \/ (target # "none" /\ file' = Synced(d, target, files))
  BY <1>1 DEF advance
<1>6. Grown(file, files)
  <2>1. ships \in SUBSET Shipments
    BY <1>1 DEF Related
  <2>2. CASE to = "arrived"
    BY <2>1, <2>2, <1>5, OpeningGrows DEF Stowed, Filed
  <2>3. CASE to # "arrived"
    BY <2>3, <1>5 DEF Grown, Filed
  <2> QED BY <2>2, <2>3
<1>7. target \in {"CLEARANCE_IN_PROGRESS", "RELEASE", "PORT_EXIT", "CLOSED", "none"}
  BY <1>1 DEF getTargetCustomsStatus
<1>8. Grown(file, file')
  <2>1. CASE file' = files
    BY <2>1, <1>6
  <2>2. CASE target # "none" /\ file' = Synced(d, target, files)
    <3>1. target \in CustomsSteps
      BY <2>2, <1>7, Milestones
    <3>2. Grown(files, Synced(d, target, files))
      BY <3>1, <1>6, SyncingGrows DEF Grown
    <3> QED BY <3>2, <2>2, <1>6, GrownTwice
  <2> QED BY <2>1, <2>2, <1>5
<1>9. QED
  BY <1>3, <1>4, <1>8

(* The files in each step, but for a corrected amount.                       *)
LEMMA FilesStep ==
  ASSUME Stowed, Filed, [Next]_vars
  PROVE  /\ dossier' \in [Dossiers -> AllStatuses]
         /\ stock' \in [Vehicles -> {"available", "inTransit"}]
         /\ Grown(file, file') \/ \E r \in Requests : updateAmount(r)
<1> DEFINE P == /\ dossier' \in [Dossiers -> AllStatuses]
                /\ stock' \in [Vehicles -> {"available", "inTransit"}]
                /\ Grown(file, file') \/ \E r \in Requests : updateAmount(r)
<1> USE DEF Filed
<1>0. CASE UNCHANGED << stock, dossier, file >>
  BY <1>0 DEF Grown
<1>1. ASSUME NEW r \in Requests, transition(r) PROVE P
  <2>1. PICK s, to : s = req[r].s /\ to = req[r].to
    OBVIOUS
  <2>2. s \in Shipments
    BY <2>1, <1>1 DEF Stowed, LocksHeld, Transiting, transition, Finish
  <2>3. dossier' = dossier /\ stock' \in [Vehicles -> {"available", "inTransit"}]
    BY <1>1 DEF transition, applyTransition, Departed
  <2>4. file' = file \/ file' \in createCustomsFiles({s}, Moved({s}, to), req[r].found, dossier)
    BY <1>1, <2>1 DEF transition, applyTransition
  <2>5. {s} \in SUBSET Shipments
    BY <2>2
  <2> QED BY <2>3, <2>4, <2>5, OpeningGrows DEF Grown, Stowed
<1>2. ASSUME NEW r \in Requests, createCustomsFromShipment(r) PROVE P
  <2>1. PICK s : s = req[r].s
    OBVIOUS
  <2>2. s \in Shipments
    BY <2>1, <1>2 DEF NamesRows, createCustomsFromShipment, Finish
  <2>3. /\ UNCHANGED << dossier, stock >>
        /\ file' \in createCustomsFiles({s}, shipment, req[r].found, dossier)
    BY <1>2, <2>1 DEF createCustomsFromShipment
  <2>4. {s} \in SUBSET Shipments
    BY <2>2
  <2> QED BY <2>3, <2>4, OpeningGrows DEF Stowed
<1>3. ASSUME NEW r \in Requests, createCustoms(r) PROVE P
  <2>1. PICK s, k, row : s = req[r].s /\ k = req[r].k /\ row = NewFile(s, "TO_PREPARE")
    OBVIOUS
  <2>2. s \in Shipments /\ k \in Keys
    BY <2>1, <1>3 DEF NamesRows, createCustoms, Finish
  <2>3. row \in FileRows /\ SealedRow(row)
    BY <2>1, <2>2, NewFileRow, Milestones
  <2>4. /\ UNCHANGED << dossier, stock >>
        /\ file' = [file EXCEPT ![k] = row]
    BY <1>3, <2>1 DEF createCustoms
  <2>5. Grown(file, file')
    BY <2>2, <2>3, <2>4, Bounds DEF Grown, Files
  <2> QED BY <2>4, <2>5
<1>4. ASSUME NEW r \in Requests, transitionCustoms(r) PROVE P
  <2>1. PICK k, to, row : k = req[r].k /\ to = req[r].to /\ row = WithStatus(file[k], to)
    OBVIOUS
  <2>2. k \in Keys /\ to \in CustomsSteps /\ file[k] \in FileRows
    BY <2>1, <1>4 DEF NamesRows, transitionCustoms, Finish, Files
  <2>3. row \in FileRows /\ (SealedRow(file[k]) => SealedRow(row))
    BY <2>1, <2>2, WithStatusRow
  <2>4. /\ UNCHANGED << dossier, stock >>
        /\ file' = [file EXCEPT ![k] = row]
    BY <1>4, <2>1 DEF transitionCustoms
  <2>5. Grown(file, file')
    BY <2>2, <2>3, <2>4, Bounds DEF Grown, Files
  <2> QED BY <2>4, <2>5
<1>5. ASSUME NEW k \in Keys, reverseCost(k) PROVE P
  <2>1. PICK f : f = file[k]
    OBVIOUS
  <2> DEFINE row == [f EXCEPT !.cost = "REVERSED"]
  <2>2. /\ UNCHANGED << dossier, stock >> /\ f \in FileRows
        /\ file' = [file EXCEPT ![k] = row]
    BY <2>1, <1>5 DEF reverseCost, Files
  <2>3. row \in FileRows /\ row.cost = "REVERSED"
    BY <2>2 DEF FileRows
  <2> HIDE DEF row
  <2>4. Grown(file, file')
    BY <2>2, <2>3, Bounds DEF Grown, Files, SealedRow
  <2> QED BY <2>2, <2>4
<1>6. ASSUME NEW r \in Requests, advance(r) PROVE P
  BY <1>6, AdvanceFiles
<1>7. ASSUME NEW r \in Requests, updateAmount(r) PROVE P
  BY <1>7 DEF updateAmount
<1>8. CASE Loading
  BY <1>0, <1>8 DEF Loading, create, update, addVehicle, removeVehicle
<1>9. CASE Customs
  BY <1>0, <1>3, <1>4, <1>5, <1>7, <1>9
  DEF Customs, ReadCreateCustoms, ReadCustomsTransition, ReadAmount, Start
<1>10. CASE Voyage
  BY <1>0, <1>1, <1>2, <1>6, <1>10
  DEF Voyage, ReadCustomsFromShipment, ReadTransition, ReadAdvance, Start, Abort
<1>11. QED
  BY <1>0, <1>8, <1>9, <1>10 DEF Next, vars

(* A corrected amount leaves a file, sealed if its cost is not posted.       *)
LEMMA AmountFiles ==
  ASSUME Filed, NEW r \in Requests, updateAmount(r)
  PROVE  /\ file' \in Files
         /\ \A k \in Keys :
              /\ file[k] # NoFile => file'[k] # NoFile
              /\ SealedRow(file[k]) /\ file[req[r].k].cost # "POSTED" => SealedRow(file'[k])
<1>1. PICK n, f, a : n = req[r].k /\ f = file[n] /\ a = req[r].amount
  OBVIOUS
<1> DEFINE row == [f EXCEPT !.amount = a]
<1>2. n \in Keys /\ f \in FileRows /\ a \in 0 .. MaxAmount
  BY <1>1, Bounds DEF updateAmount, Finish, Filed, NamesRows, Files
<1>3. file' = [file EXCEPT ![n] = row]
  BY <1>1 DEF updateAmount
<1>4. row \in FileRows /\ row.cost = f.cost
  BY <1>2 DEF FileRows
<1> HIDE DEF row
<1>5. file' \in Files
  BY <1>2, <1>3, <1>4 DEF Filed, Files
<1>6. \A k \in Keys : file'[k] = IF k = n THEN row ELSE file[k]
  BY <1>3 DEF Filed, Files
<1>7. QED
  BY <1>1, <1>4, <1>5, <1>6, Bounds DEF SealedRow

(* No step removes a file.                                                   *)
LEMMA FilesStay ==
  ASSUME Stowed, Filed, [Next]_vars
  PROVE  file' \in Files /\ \A k \in Keys : file[k] # NoFile => file'[k] # NoFile
BY FilesStep, AmountFiles DEF Grown

(* Each step answers a request, starts one or leaves them all.               *)
LEMMA RequestStep ==
  ASSUME Filed, [Next]_vars
  PROVE  \/ req' = req
         \/ \E r \in Requests : \E context :
              /\ req' = [req EXCEPT ![r] = context]
              /\ \/ context = Idle
                 \/ file' = file /\ NamesRows(context)
<1> DEFINE P == \/ req' = req
                \/ \E r \in Requests : \E context :
                     /\ req' = [req EXCEPT ![r] = context]
                     /\ \/ context = Idle
                        \/ file' = file /\ NamesRows(context)
<1>1. ASSUME NEW r \in Requests, NEW context, Start(r, context), NamesRows(context) PROVE P
  BY <1>1 DEF Start
<1>2. ASSUME NEW r \in Requests, NEW s \in Shipments, NEW k \in Keys, ReadCreateCustoms(r, s, k)
      PROVE  P
  <2> DEFINE context == [op |-> "createCustoms", s |-> s, k |-> k]
  <2>1. NamesRows(context)
    BY DEF NamesRows
  <2> QED BY <2>1, <1>1, <1>2 DEF ReadCreateCustoms
<1>3. ASSUME NEW r \in Requests, NEW k \in Keys, NEW to \in CustomsSteps,
             ReadCustomsTransition(r, k, to)
      PROVE  P
  <2> DEFINE context == [op |-> "customs", k |-> k, to |-> to]
  <2>1. NamesRows(context)
    BY <1>3 DEF NamesRows, ReadCustomsTransition
  <2> QED BY <2>1, <1>1, <1>3 DEF ReadCustomsTransition
<1>4. ASSUME NEW r \in Requests, NEW k \in Keys, NEW a \in 1 .. MaxAmount, ReadAmount(r, k, a)
      PROVE  P
  <2> DEFINE context == [op |-> "amount", k |-> k, amount |-> a]
  <2>1. NamesRows(context)
    BY <1>4 DEF NamesRows, ReadAmount
  <2> QED BY <2>1, <1>1, <1>4 DEF ReadAmount
<1>5. PICK found : found = WithFile
  OBVIOUS
<1>6. ASSUME NEW r \in Requests, NEW s \in Shipments, ReadCustomsFromShipment(r, s) PROVE P
  <2> DEFINE context == [op |-> "fromShipment", s |-> s, found |-> found]
  <2>1. NamesRows(context)
    BY DEF NamesRows
  <2> QED BY <2>1, <1>1, <1>5, <1>6 DEF ReadCustomsFromShipment
<1>7. ASSUME NEW r \in Requests, NEW s \in Shipments, NEW to, ReadTransition(r, s, to) PROVE P
  <2> DEFINE context == [op |-> "transition", s |-> s, to |-> to, found |-> found]
  <2>1. NamesRows(context)
    BY DEF NamesRows
  <2> QED BY <2>1, <1>1, <1>5, <1>7 DEF ReadTransition
<1>8. ASSUME NEW r \in Requests, NEW d \in Dossiers, NEW step \in AllStatuses,
             ReadAdvance(r, d, step)
      PROVE  P
  <2> DEFINE context == [op |-> "advance", d |-> d, step |-> step, found |-> found]
  <2>1. NamesRows(context)
    BY DEF NamesRows
  <2> QED BY <2>1, <1>1, <1>5, <1>8 DEF ReadAdvance
<1>9. ASSUME NEW r \in Requests, req' = [req EXCEPT ![r] = Idle] PROVE P
  BY <1>9
<1>10. CASE UNCHANGED vars \/ Loading
  BY <1>10 DEF vars, Loading, create, update, addVehicle, removeVehicle, Serve
<1>11. CASE Customs
  BY <1>11, <1>2, <1>3, <1>4, <1>9
  DEF Customs, CustomsSteps, createCustoms, transitionCustoms, updateAmount, reverseCost,
      Finish, Serve
<1>12. CASE Voyage
  BY <1>12, <1>6, <1>7, <1>8, <1>9
  DEF Voyage, createCustomsFromShipment, transition, advance, Finish, Abort
<1>13. QED
  BY <1>10, <1>11, <1>12 DEF Next

(* What a request names stays on record.                                     *)
LEMMA StepFiled ==
  ASSUME Stowed, Filed, [Next]_vars
  PROVE  Filed'
<1>1. ASSUME NEW context, NamesRows(context) PROVE NamesRows(context)'
  BY <1>1, FilesStay DEF NamesRows
<1>2. ASSUME NEW r \in Requests PROVE NamesRows(req[r])'
  <2>1. PICK context : context = req'[r]
    OBVIOUS
  <2>2. context = req[r] \/ context = Idle \/ (file' = file /\ NamesRows(context))
    BY <2>1, RequestStep DEF Stowed, Typed
  <2>3. NamesRows(context)'
    BY <2>2, <1>1 DEF Filed, NamesRows, Idle
  <2> QED BY <2>1, <2>3 DEF NamesRows
<1>3. QED
  BY <1>2, FilesStep, FilesStay DEF Filed

(* No file exists at first.                                                  *)
LEMMA InitFiled == Init => Filed
<1> SUFFICES ASSUME Init PROVE Filed
  OBVIOUS
<1>1. \A d \in Dossiers : StepsOfDossier(d)[1] \in AllStatuses
  <2> SUFFICES ASSUME NEW d \in Dossiers PROVE StepsOfDossier(d)[1] \in AllStatuses
    OBVIOUS
  <2>1. PICK seq : seq = StepsOfDossier(d)
    OBVIOUS
  <2>2. seq \in Seq(AllStatuses) /\ seq # << >>
    BY <2>1, LogisticsAssumption DEF LogisticsAssumption
  <2> QED BY <2>1, <2>2
<1>2. dossier \in [Dossiers -> AllStatuses]
  BY <1>1 DEF Init
<1>3. file \in Files /\ stock \in [Vehicles -> {"available", "inTransit"}]
  BY DEF Init, Files
<1>4. \A r \in Requests : NamesRows(req[r])
  BY DEF Init, NamesRows, Idle
<1>5. QED
  BY <1>2, <1>3, <1>4 DEF Filed

(* The invariants of ships and of files together.                            *)
THEOREM AlwaysFiled ==
  ASSUME IsFiniteSet(Vehicles)
  PROVE  Spec => [](Stowed /\ Filed)
  <1>1. Stowed /\ Filed /\ [Next]_vars => Filed'
    BY StepFiled
  <1> QED BY <1>1, InitFiled, AlwaysStowed, PTL DEF Spec

(* The rows of shipments, customs files, dossiers and stock keep their types,*)
(* however many requests interleave.                                         *)
THEOREM Typing ==
  ASSUME IsFiniteSet(Vehicles)
  PROVE  Spec => []TypeOK
  <1>1. Stowed /\ Filed => TypeOK
    <2> SUFFICES ASSUME Stowed, Filed PROVE TypeOK
      OBVIOUS
    <2>1. \A s \in Shipments : shipment[s] = Absent \/ shipment[s] \in Ships
      BY DEF Stowed, Typed
    <2>2. \A k \in Keys : file[k] = NoFile \/ file[k] \in FileRows
      BY DEF Filed, Files
    <2> QED BY <2>1, <2>2 DEF Stowed, Typed, Filed, TypeOK, Ships, FileRows, CustomsSteps
  <1> QED BY <1>1, AlwaysFiled, PTL

-----------------------------------------------------------------------------
(* One request at a time: the amount that is corrected is the amount of a    *)
(* file whose cost is still not posted.                                      *)
OneAtATime == \A r, s \in Requests : r = s

(* An amount to be written belongs to a file whose cost is not posted.       *)
Unposted == \A r \in Requests : req[r].op = "amount" => file[req[r].k].cost # "POSTED"

Sealed == BookedIsFrozen /\ Unposted

(* A row whose amount is sealed stays so: amounts are only written to rows   *)
(* whose cost is not posted.                                                 *)
LEMMA StepFrozen ==
  ASSUME Stowed, Filed, Sealed, [Next]_vars
  PROVE  BookedIsFrozen'
<1>1. \A k \in Keys : SealedRow(file[k])
  BY DEF Sealed, BookedIsFrozen, SealedRow
<1>2. \A k \in Keys : SealedRow(file'[k])
  <2>1. ASSUME NEW r \in Requests, updateAmount(r)
        PROVE  \A k \in Keys : SealedRow(file'[k])
    <3>1. file[req[r].k].cost # "POSTED"
      BY <2>1 DEF updateAmount, Finish, Sealed, Unposted
    <3> QED BY <3>1, <2>1, <1>1, AmountFiles
  <2> QED BY <2>1, <1>1, FilesStep DEF Grown
<1> QED BY <1>2 DEF BookedIsFrozen, SealedRow

(* Of the steps that leave an amount to be corrected, one looked at the cost.*)
LEMMA StepUnposted ==
  ASSUME OneAtATime, Stowed, Unposted, [Next]_vars
  PROVE  Unposted'
<1>1. ASSUME NEW r \in Requests, req'[r].op = "amount"
      PROVE  file'[req'[r].k].cost # "POSTED"
  <2>1. DOMAIN req = Requests /\ \A q \in Requests : q = r
    BY DEF Stowed, Typed, OneAtATime
  <2>2. /\ ~ Serve
        /\ \A q \in Requests : req' # [req EXCEPT ![q] = Idle]
        /\ \A q \in Requests : \A context : Start(q, context) => context.op = "amount"
    BY <2>1, <1>1 DEF Serve, Start, Idle
  <2>3. ~ Loading
    BY <2>2 DEF Loading, create, update, addVehicle, removeVehicle
  <2>4. ASSUME NEW q \in Requests, NEW s, NEW k, NEW to PROVE ~ ReadCreateCustoms(q, s, k)
    BY <2>2 DEF ReadCreateCustoms
  <2>5. ASSUME NEW q \in Requests, NEW k, NEW to PROVE ~ ReadCustomsTransition(q, k, to)
    BY <2>2 DEF ReadCustomsTransition
  <2>6. ASSUME NEW q \in Requests, NEW s, NEW to
        PROVE  ~ ReadCustomsFromShipment(q, s) /\ ~ ReadTransition(q, s, to)
    BY <2>2 DEF ReadCustomsFromShipment, ReadTransition
  <2>7. ASSUME NEW q \in Requests, NEW d, NEW step PROVE ~ ReadAdvance(q, d, step)
    BY <2>2 DEF ReadAdvance
  <2>8. ~ Voyage
    BY <2>2, <2>6, <2>7
    DEF Voyage, createCustomsFromShipment, transition, advance, Finish, Abort
  <2>9. Customs => \E k \in Keys, a \in 1 .. MaxAmount : ReadAmount(r, k, a)
    BY <2>1, <2>2, <2>4, <2>5
    DEF Customs, createCustoms, transitionCustoms, updateAmount, reverseCost, Finish
  <2>10. CASE UNCHANGED vars
    BY <2>10, <1>1 DEF vars, Unposted
  <2>11. ASSUME NEW k \in Keys, NEW a, ReadAmount(r, k, a)
        PROVE  file'[req'[r].k].cost # "POSTED"
    BY <2>1, <2>11 DEF ReadAmount, Start
  <2> QED BY <2>3, <2>8, <2>9, <2>10, <2>11 DEF Next
<1> QED BY <1>1 DEF Unposted

(* Any number of requests: as long as no amount is written after the release *)
(* posted the cost of its file, a posted cost is the amount of its file.     *)
THEOREM BookingUnlessStale ==
  ASSUME IsFiniteSet(Vehicles)
  PROVE  Spec /\ []Unposted => []BookedIsFrozen
  <1>1. Init => BookedIsFrozen
    BY DEF Init, BookedIsFrozen
  <1>2. Stowed /\ Filed /\ Unposted /\ BookedIsFrozen /\ [Next]_vars => BookedIsFrozen'
    BY StepFrozen DEF Sealed
  <1> QED BY <1>1, <1>2, AlwaysFiled, PTL DEF Spec

(* A posted customs cost is the amount of its file: no release books it a    *)
(* second time, and the amount is frozen until the cost is reversed.         *)
THEOREM Booking ==
  ASSUME OneAtATime, IsFiniteSet(Vehicles)
  PROVE  Spec => []BookedIsFrozen
  <1>1. Init => Unposted
    BY DEF Init, Unposted, Idle
  <1>2. Stowed /\ Filed /\ Unposted /\ [Next]_vars => Unposted'
    BY StepUnposted
  <1> QED BY <1>1, <1>2, AlwaysFiled, BookingUnlessStale, PTL DEF Spec
-----------------------------------------------------------------------------
(* Who holds a context got it from one of the reads.                         *)
Reads(q) ==
  \/ \E s \in Shipments, k \in Keys : ReadCreateCustoms(q, s, k)
  \/ \E k \in Keys, to \in CustomsSteps : ReadCustomsTransition(q, k, to)
  \/ \E k \in Keys, a \in 1 .. MaxAmount : ReadAmount(q, k, a)
  \/ \E s \in Shipments : ReadCustomsFromShipment(q, s)
  \/ \E s \in Shipments, to \in DOMAIN SHIPMENT_TRANSITIONS : ReadTransition(q, s, to)
  \/ \E d \in Dossiers, step \in AllStatuses : ReadAdvance(q, d, step)

(* The steps, by what they do to the requests.                               *)
Answers(r) ==
  \/ createCustoms(r) \/ transitionCustoms(r) \/ updateAmount(r)
  \/ createCustomsFromShipment(r) \/ transition(r) \/ advance(r) \/ Abort(r)

LEMMA StepKinds ==
  ASSUME Next
  PROVE  \/ Serve /\ Loading
         \/ \E k \in Keys : reverseCost(k)
         \/ \E r \in Requests : Reads(r) \/ Answers(r)
<1>1. Loading => Serve
  BY DEF Loading, create, update, addVehicle, removeVehicle
<1>2. Customs => \/ \E k \in Keys : reverseCost(k)
                 \/ \E r \in Requests : Reads(r) \/ Answers(r)
  BY DEF Customs, CustomsSteps, Reads, Answers
<1>3. Voyage => \E r \in Requests : Reads(r) \/ Answers(r)
  BY DEF Voyage, Reads, Answers
<1>4. QED
  BY <1>1, <1>2, <1>3 DEF Next

LEMMA ReadsStart ==
  ASSUME NEW r \in Requests, Reads(r)
  PROVE  /\ req[r] = Idle /\ UNCHANGED << shipment, aboard, stock, dossier, file >>
         /\ \E context : req' = [req EXCEPT ![r] = context]
BY DEF Reads, ReadCreateCustoms, ReadCustomsTransition, ReadAmount,
       ReadCustomsFromShipment, ReadTransition, ReadAdvance, Start

LEMMA AnswersEnd ==
  ASSUME NEW r \in Requests, Answers(r)
  PROVE  req' = [req EXCEPT ![r] = Idle]
BY DEF Answers, createCustoms, transitionCustoms, updateAmount, createCustomsFromShipment,
       transition, advance, Abort, Finish

LEMMA Reader ==
  ASSUME Stowed, [Next]_vars, NEW q \in Requests, req'[q] # req[q]
  PROVE  req'[q] = Idle \/ Reads(q)
<1>1. ASSUME UNCHANGED req PROVE FALSE
  BY <1>1
<1>2. DOMAIN req = Requests
  BY DEF Stowed, Typed
<1>3. ASSUME NEW r \in Requests, Reads(r) PROVE Reads(q)
  <2>1. r = q
    BY <1>2, <1>3, ReadsStart
  <2> QED BY <2>1, <1>3
<1>4. ASSUME NEW r \in Requests, Answers(r) PROVE req'[q] = Idle
  BY <1>2, <1>4, AnswersEnd
<1>5. QED
  BY <1>1, <1>3, <1>4, StepKinds DEF Serve, reverseCost, vars

(* Only a step of the dossier itself moves a dossier.                        *)
LEMMA DossierStep ==
  ASSUME [Next]_vars
  PROVE  dossier' = dossier \/ \E r \in Requests : advance(r)
BY StepKinds, ReadsStart
DEF Loading, create, update, addVehicle, removeVehicle, reverseCost, Answers, createCustoms,
    transitionCustoms, updateAmount, createCustomsFromShipment, transition, Abort, vars

-----------------------------------------------------------------------------
(* An arrival leaves a file with every dossier that is alone on a vehicle    *)
(* aboard, however many requests interleave: a file that was found stays,    *)
(* and nobody finishes a dossier under the feet of its step.                 *)
Finders == {"transition", "fromShipment", "advance"}

Informed ==
  /\ \A r \in Requests : req[r].op \in Finders => req[r].found \subseteq WithFile
  /\ \A r \in Requests : req[r].op = "advance" => ~ Finished(req[r].d)
  /\ \A r, q \in Requests :
       req[r].op = "advance" /\ req[q].op = "advance" /\ req[r].d = req[q].d => r = q

(* What the context of a read says.                                          *)
Says(context) ==
  /\ context.op \in Finders => context.found = WithFile
  /\ context.op = "advance" =>
       /\ context.d \in Dossiers /\ ~ Finished(context.d)
       /\ \A r \in Requests : req[r].op = "advance" => req[r].d # context.d
       /\ \/ context.step = "cancelled"
          \/ \E i \in 2 .. Len(StepsOfDossier(context.d)) :
               /\ StepsOfDossier(context.d)[i - 1] = dossier[context.d]
               /\ StepsOfDossier(context.d)[i] = context.step
  /\ context.op = "createCustoms" => FilesOf(context.k[2]) = {}
  /\ context.op = "customs" => Precedes(file[context.k].status, context.to)

LEMMA ReadsInform ==
  ASSUME Stowed, NEW q \in Requests, Reads(q)
  PROVE  \E context : req' = [req EXCEPT ![q] = context] /\ req'[q] = context /\ Says(context)
<1> DEFINE P == \E context : /\ req' = [req EXCEPT ![q] = context]
                             /\ req'[q] = context /\ Says(context)
<1>1. ASSUME NEW context, Start(q, context), Says(context) PROVE P
  BY <1>1 DEF Start, Stowed, Typed
<1>2. PICK found : found = WithFile
  OBVIOUS
<1> USE DEF Finders
<1>3. ASSUME NEW s \in Shipments, NEW k \in Keys, ReadCreateCustoms(q, s, k) PROVE P
  <2> DEFINE context == [op |-> "createCustoms", s |-> s, k |-> k]
  <2>1. Says(context)
    BY <1>3 DEF Says, ReadCreateCustoms
  <2> QED BY <2>1, <1>1, <1>3 DEF ReadCreateCustoms
<1>4. ASSUME NEW k \in Keys, NEW to \in CustomsSteps, ReadCustomsTransition(q, k, to) PROVE P
  <2> DEFINE context == [op |-> "customs", k |-> k, to |-> to]
  <2>1. Says(context)
    BY <1>4 DEF Says, ReadCustomsTransition
  <2> QED BY <2>1, <1>1, <1>4 DEF ReadCustomsTransition
<1>5. ASSUME NEW k \in Keys, NEW a \in 1 .. MaxAmount, ReadAmount(q, k, a) PROVE P
  <2> DEFINE context == [op |-> "amount", k |-> k, amount |-> a]
  <2>1. Says(context)
    BY DEF Says
  <2> QED BY <2>1, <1>1, <1>5 DEF ReadAmount
<1>6. ASSUME NEW s \in Shipments, ReadCustomsFromShipment(q, s) PROVE P
  <2> DEFINE context == [op |-> "fromShipment", s |-> s, found |-> found]
  <2>1. Says(context)
    BY <1>2 DEF Says
  <2> QED BY <2>1, <1>1, <1>2, <1>6 DEF ReadCustomsFromShipment
<1>7. ASSUME NEW s \in Shipments, NEW to, ReadTransition(q, s, to) PROVE P
  <2> DEFINE context == [op |-> "transition", s |-> s, to |-> to, found |-> found]
  <2>1. Says(context)
    BY <1>2 DEF Says
  <2> QED BY <2>1, <1>1, <1>2, <1>7 DEF ReadTransition
<1>8. ASSUME NEW d \in Dossiers, NEW step \in AllStatuses, ReadAdvance(q, d, step) PROVE P
  <2> DEFINE context == [op |-> "advance", d |-> d, step |-> step, found |-> found]
  <2>1. Says(context)
    BY <1>2, <1>8 DEF Says, ReadAdvance
  <2> QED BY <2>1, <1>1, <1>2, <1>8 DEF ReadAdvance
<1>9. QED
  BY <1>3, <1>4, <1>5, <1>6, <1>7, <1>8 DEF Reads

LEMMA WithFileStays ==
  ASSUME Stowed, Filed, [Next]_vars
  PROVE  WithFile \subseteq WithFile'
BY FilesStay DEF WithFile, FilesOf

LEMMA StepInformed ==
  ASSUME Stowed, Filed, Informed, [Next]_vars
  PROVE  /\ Informed'
         /\ \A d \in Dossiers : ~ Finished(d)' => ~ Finished(d)
<1>1. ASSUME NEW r \in Requests, advance(r)
      PROVE  /\ req[r].op = "advance" /\ req'[r] = Idle /\ req[r].d \in Dossiers
             /\ \A d \in Dossiers \ {req[r].d} : dossier'[d] = dossier[d]
             /\ ~ Finished(req[r].d)
  <2>1. /\ req[r].op = "advance" /\ req' = [req EXCEPT ![r] = Idle]
        /\ dossier' = [dossier EXCEPT ![req[r].d] = req[r].step]
    BY <1>1 DEF advance, Finish
  <2>2. req'[r] = Idle
    BY <2>1 DEF Stowed, Typed
  <2>3. req[r].d \in Dossiers /\ ~ Finished(req[r].d)
    BY <2>1 DEF Filed, NamesRows, Informed
  <2> QED BY <2>1, <2>2, <2>3 DEF Filed
<1>2. ASSUME NEW q \in Requests, NEW context, req'[q] = context, context.op = "advance"
      PROVE  ~ Finished(context.d)'
  <2>1. CASE req[q] = context
    <3>1. ~ Finished(context.d) /\ context.d \in Dossiers
      BY <1>2, <2>1 DEF Informed, Filed, NamesRows
    <3>2. dossier'[context.d] = dossier[context.d]
      <4>1. ASSUME NEW r \in Requests, advance(r) PROVE req[r].d # context.d
        BY <1>1, <1>2, <2>1, <4>1 DEF Informed, Idle
      <4> QED BY <1>1, <3>1, <4>1, DossierStep
    <3> QED BY <3>1, <3>2 DEF Finished
  <2>2. CASE req[q] # context
    <3>1. Reads(q)
      BY <1>2, <2>2, Reader DEF Idle
    <3>2. Says(context) /\ dossier' = dossier
      BY <1>2, <3>1, ReadsInform, ReadsStart
    <3> QED BY <1>2, <3>2 DEF Finished, Says
  <2> QED BY <2>1, <2>2
<1>3. ASSUME NEW q \in Requests, req'[q].op \in Finders
      PROVE  req'[q].found \subseteq WithFile'
  <2>1. CASE req'[q] = req[q]
    BY <1>3, <2>1, WithFileStays DEF Informed
  <2>2. CASE req'[q] # req[q]
    <3>1. Reads(q)
      BY <1>3, <2>2, Reader DEF Idle, Finders
    <3>2. req'[q].found = WithFile
      BY <1>3, <3>1, ReadsInform DEF Says
    <3> QED BY <3>2, WithFileStays
  <2> QED BY <2>1, <2>2
<1>4. ASSUME NEW r \in Requests, NEW q \in Requests, r # q,
             req'[r].op = "advance", req'[q].op = "advance"
      PROVE  req'[r].d # req'[q].d
  <2>1. ASSUME NEW t \in Requests, Reads(t), req'[t].op = "advance", NEW u \in Requests, u # t,
               req'[u].op = "advance"
        PROVE  req'[t].d # req'[u].d
    <3>1. req'[u] = req[u]
      BY <2>1, ReadsStart DEF Stowed, Typed
    <3> QED BY <3>1, <2>1, ReadsInform DEF Says
  <2>2. CASE req'[r] = req[r] /\ req'[q] = req[q]
    BY <1>4, <2>2 DEF Informed
  <2>3. CASE req'[r] # req[r]
    BY <1>4, <2>1, <2>3, Reader DEF Idle
  <2>4. CASE req'[q] # req[q]
    BY <1>4, <2>1, <2>4, Reader DEF Idle
  <2> QED BY <2>2, <2>3, <2>4
<1>5. ASSUME NEW d \in Dossiers, ~ Finished(d)'
      PROVE  ~ Finished(d)
  BY <1>1, <1>5, DossierStep DEF Finished
<1>6. QED
  <2>1. ASSUME NEW q \in Requests, req'[q].op = "advance" PROVE ~ Finished(req[q].d)'
    BY <1>2, <2>1
  <2> QED BY <1>3, <1>4, <1>5, <2>1 DEF Informed

(* The dossiers that alone claim a vehicle of the shipments have a file.     *)
Covers(S, now, files) ==
  \A s \in S : \A v \in Aboard(s), d \in Dossiers :
    DossiersOf(v) = {d} /\ now[d] \notin TERMINAL_STATUSES =>
      \E w \in Vehicles : files[<< w, d >>] # NoFile

(* An opening leaves every dossier of the shipments with a file: its own, or *)
(* the one that was found.                                                   *)
LEMMA OpeningCovers ==
  ASSUME Typed, file \in Files, NEW S \in SUBSET Shipments, NEW ship, NEW now,
         NEW found \in SUBSET WithFile, NEW files \in createCustomsFiles(S, ship, found, now)
  PROVE  Covers(S, now, files)
<1> SUFFICES ASSUME NEW s \in S, NEW v \in Aboard(s), NEW d \in Dossiers,
                    DossiersOf(v) = {d}, now[d] \notin TERMINAL_STATUSES
             PROVE  \E w \in Vehicles : files[<< w, d >>] # NoFile
  BY DEF Covers
<1>1. CASE d \in found
  <2>1. PICK k \in Keys : k[2] = d /\ file[k] # NoFile
    BY <1>1 DEF WithFile, FilesOf
  <2>2. Grown(file, files)
    BY OpeningGrows, Zenon
  <2>3. k = << k[1], d >> /\ k[1] \in Vehicles
    BY <2>1 DEF Keys
  <2> QED BY <2>1, <2>2, <2>3 DEF Grown
<1>2. CASE d \notin found
  <2>1. v \in Vehicles /\ << s, v >> \in aboard /\ SoleDossier(v, d, now)
    BY DEF Aboard, SoleDossier, TERMINAL_STATUSES
  <2>2. d \in Due(S, found, now)
    BY <1>2, <2>1 DEF Due
  <2>3. PICK pick \in [Due(S, found, now) -> aboard] :
          /\ \A e \in DOMAIN pick : pick[e][1] \in S
          /\ files = Opened(pick, ship)
    BY DEF createCustomsFiles
  <2>4. PICK w, t : w = pick[d][2] /\ t = pick[d][1]
    OBVIOUS
  <2>5. w \in Vehicles /\ t \in Shipments
    BY <2>2, <2>3, <2>4 DEF Typed
  <2>6. PICK status \in {"ARRIVED_AT_PORT", "AWAITING_ARRIVAL"} :
          files[<< w, d >>] = NewFile(t, status)
    BY <2>2, <2>3, <2>4, <2>5 DEF Opened, Keys
  <2>7. files[<< w, d >>] \in FileRows
    BY <2>5, <2>6, NewFileRow, Milestones
  <2> QED BY <2>5, <2>7, Bounds
<1>3. QED
  BY <1>1, <1>2

(* Only a transition by hand and a step of a dossier bring a ship to port.   *)
LEMMA ShipStep ==
  ASSUME Stowed, [Next]_vars, NEW s \in Shipments,
         shipment'[s].status = "arrived", shipment[s].status # "arrived"
  PROVE  \E r \in Requests : transition(r) \/ advance(r)
<1>1. ASSUME shipment' = shipment PROVE FALSE
  BY <1>1
<1>2. ASSUME NEW t \in Shipments, NEW c \in Capacities, NEW S \in SUBSET Vehicles,
             create(t, c, S)
      PROVE  FALSE
  BY <1>2 DEF create, Stowed, Typed
<1>3. ASSUME NEW t \in Shipments, NEW c \in Capacities, update(t, c) PROVE FALSE
  <2>1. PICK row : row = shipment[t]
    OBVIOUS
  <2>2. row \in Ships /\ shipment' = [shipment EXCEPT ![t] = [row EXCEPT !.capacity = c]]
    BY <1>3, <2>1 DEF update, Stowed, Typed
  <2>3. [row EXCEPT !.capacity = c].status = row.status
    BY <2>2 DEF Ships
  <2> QED BY <2>1, <2>2, <2>3 DEF Stowed, Typed
<1>4. ~ Loading
  BY <1>1, <1>2, <1>3 DEF Loading, addVehicle, removeVehicle
<1>5. QED
  BY <1>1, <1>4, StepKinds, ReadsStart
  DEF reverseCost, Answers, createCustoms, transitionCustoms, updateAmount,
      createCustomsFromShipment, Abort, vars

(* What is aboard a ship in port was aboard before.                          *)
LEMMA AboardInPort ==
  ASSUME IsFiniteSet(Vehicles), Stowed, [Next]_vars, NEW s \in Shipments,
         shipment'[s].status = "arrived", NEW v, << s, v >> \in aboard'
  PROVE  v \in Aboard(s)
<1>1. CASE shipment[s].status = "arrived"
  <2>1. v \in Vehicles
    BY StepGood, StutterStowed DEF Good, Stowed, Typed
  <2>2. CASE Next
    BY <1>1, <2>1, <2>2, StepGood DEF Good, Forward
  <2> QED BY <2>1, <2>2 DEF Aboard, vars
<1>2. CASE shipment[s].status # "arrived"
  <2>1. aboard' = aboard
    BY <1>2, ShipStep DEF transition, advance
  <2> QED BY <2>1 DEF Aboard, Stowed, Typed
<1>3. QED
  BY <1>1, <1>2

LEMMA TransitionArrives ==
  ASSUME Stowed, Filed, Informed, NEW r \in Requests, transition(r),
         NEW s \in Shipments, shipment'[s].status = "arrived", shipment[s].status # "arrived",
         NEW v \in Aboard(s), NEW d \in Dossiers, DossiersOf(v) = {d}, ~ Finished(d)'
  PROVE  \E w \in Vehicles : file'[<< w, d >>] # NoFile
<1>1. PICK t, to, found : t = req[r].s /\ to = req[r].to /\ found = req[r].found
  OBVIOUS
<1>2. /\ shipment' = Moved({t}, to) /\ dossier' = dossier
      /\ to = "arrived" => file' \in createCustomsFiles({t}, Moved({t}, to), found, dossier)
  BY <1>1 DEF transition, applyTransition
<1>3. /\ t \in Shipments /\ shipment[t] \in Ships
      /\ found \in SUBSET WithFile
  BY <1>1 DEF transition, Finish, Stowed, LocksHeld, Transiting, Informed, Finders
<1>4. s = t /\ to = "arrived"
  <2>1. s = t
    BY <1>2 DEF Moved
  <2>2. shipment'[t].status = to
    BY <1>2, <1>3 DEF Moved, Ships
  <2> QED BY <2>1, <2>2
<1>5. PICK S, ship, now : S = {t} /\ ship = Moved({t}, to) /\ now = dossier
  OBVIOUS
<1>6. PICK files : files = file'
  OBVIOUS
<1>7. /\ S \in SUBSET Shipments /\ s \in S
      /\ files \in createCustomsFiles(S, ship, found, now)
      /\ now[d] \notin TERMINAL_STATUSES
  BY <1>2, <1>3, <1>4, <1>5, <1>6 DEF Finished
<1>8. Typed /\ file \in Files
  BY DEF Stowed, Filed
<1>9. \E w \in Vehicles : files[<< w, d >>] # NoFile
  <2>1. Covers(S, now, files)
    BY <1>3, <1>7, <1>8, OpeningCovers
  <2> QED BY <1>7, <2>1 DEF Covers
<1>10. QED
  BY <1>6, <1>9

LEMMA AdvanceArrives ==
  ASSUME Stowed, Filed, Informed, NEW r \in Requests, advance(r),
         NEW s \in Shipments, shipment'[s].status = "arrived", shipment[s].status # "arrived",
         NEW v \in Aboard(s), NEW d \in Dossiers, DossiersOf(v) = {d}, ~ Finished(d)'
  PROVE  \E w \in Vehicles : file'[<< w, d >>] # NoFile
<1>1. PICK e, step, now, ships, to, target, found, ship :
        /\ e = req[r].d /\ step = req[r].step /\ now = [dossier EXCEPT ![e] = step]
        /\ ships = Related(e, step) /\ to = getTargetShipmentStatus(step)
        /\ target = getTargetCustomsStatus(step) /\ found = req[r].found
        /\ ship = Moved(ships, to)
  OBVIOUS
<1>2. /\ found \in SUBSET WithFile /\ ships \in SUBSET Shipments
      /\ dossier' = now /\ shipment' = ship
  BY <1>1 DEF advance, Finish, Informed, Finders, Related
<1>3. s \in ships /\ to = "arrived"
  <2>1. s \in ships
    BY <1>1, <1>2 DEF Moved
  <2>2. shipment[s] \in Ships
    BY <1>1, <2>1 DEF Related, Active, Stowed, Typed, Absent
  <2>3. shipment'[s].status = to
    BY <1>1, <1>2, <2>1, <2>2 DEF Moved, Ships
  <2> QED BY <2>1, <2>3
<1>4. PICK files \in createCustomsFiles(ships, ship, found, now) :
        file' = files \/ (target # "none" /\ file' = Synced(e, target, files))
  BY <1>1, <1>3 DEF advance
<1>5. now[d] \notin TERMINAL_STATUSES
  BY <1>2 DEF Finished
<1>6. PICK w \in Vehicles : files[<< w, d >>] # NoFile
  <2>1. Typed /\ file \in Files
    BY DEF Stowed, Filed
  <2>2. Covers(ships, now, files)
    BY <2>1, <1>2, <1>3, <1>4, OpeningCovers
  <2> QED BY <1>3, <1>5, <2>2 DEF Covers
<1>7. CASE target # "none" /\ file' = Synced(e, target, files)
  <2>1. target \in CustomsSteps
    BY <1>1, <1>7, Milestones DEF getTargetCustomsStatus
  <2>2. files \in Files
    BY <1>2, OpeningGrows DEF Grown, Stowed, Filed
  <2>3. << w, d >> \in Keys
    BY DEF Keys
  <2> QED BY <1>6, <1>7, <2>1, <2>2, <2>3, SyncingGrows DEF Grown
<1>8. QED
  BY <1>4, <1>6, <1>7

LEMMA StepArrivedHasFile ==
  ASSUME IsFiniteSet(Vehicles), Stowed, Filed, Informed, ArrivedHasFile, [Next]_vars
  PROVE  ArrivedHasFile'
<1> SUFFICES ASSUME NEW s \in Shipments, NEW v \in Vehicles, << s, v >> \in aboard',
                    NEW d \in Dossiers, shipment'[s].status = "arrived",
                    DossiersOf(v) = {d}, ~ Finished(d)'
             PROVE  FilesOf(d)' # {}
  BY DEF ArrivedHasFile, Aboard
<1>1. v \in Aboard(s) /\ ~ Finished(d)
  BY AboardInPort, StepInformed
<1>2. CASE shipment[s].status = "arrived"
  <2>1. FilesOf(d) # {}
    BY <1>1, <1>2 DEF ArrivedHasFile
  <2> QED BY <2>1, FilesStay DEF FilesOf
<1>3. CASE shipment[s].status # "arrived"
  <2>1. PICK w \in Vehicles : file'[<< w, d >>] # NoFile
    BY <1>1, <1>3, ShipStep, TransitionArrives, AdvanceArrives
  <2>2. << w, d >> \in Keys /\ << w, d >>[2] = d
    BY DEF Keys
  <2> QED BY <2>1, <2>2 DEF FilesOf
<1>4. QED
  BY <1>2, <1>3

(* As soon as a vehicle that only one unfinished dossier claims has arrived, *)
(* that dossier has a customs file, whoever moved the ship and whatever      *)
(* other arrivals, openings and steps were under way.                        *)
THEOREM Arrivals ==
  ASSUME IsFiniteSet(Vehicles)
  PROVE  Spec => []ArrivedHasFile
  <1>1. Init => Informed /\ ArrivedHasFile
    BY DEF Init, Informed, ArrivedHasFile, Idle, Finders, Aboard
  <1>2. Stowed /\ Filed /\ Informed /\ ArrivedHasFile /\ [Next]_vars
          => Informed' /\ ArrivedHasFile'
    BY StepInformed, StepArrivedHasFile
  <1> QED BY <1>1, <1>2, AlwaysFiled, PTL DEF Spec
-----------------------------------------------------------------------------
(* One request at a time: a dossier has one file, and the files of a DDP     *)
(* dossier keep pace with it.  What a request decided on still holds when it *)
(* writes.                                                                   *)
Current(context) ==
  /\ context.op \in Finders => WithFile \subseteq context.found
  /\ context.op = "advance" =>
       \/ context.step = "cancelled"
       \/ \E i \in 2 .. Len(StepsOfDossier(context.d)) :
            /\ StepsOfDossier(context.d)[i - 1] = dossier[context.d]
            /\ StepsOfDossier(context.d)[i] = context.step
  /\ context.op = "createCustoms" => FilesOf(context.k[2]) = {}
  /\ context.op = "customs" => Precedes(file[context.k].status, context.to)

InTurn == \A r \in Requests : Current(req[r])

(* Nothing happens under the feet of the only request.                       *)
LEMMA Lone ==
  ASSUME OneAtATime, Stowed, [Next]_vars, NEW q \in Requests, req[q] # Idle, req'[q] = req[q]
  PROVE  UNCHANGED vars
<1>1. ~ Serve
  BY DEF Serve, OneAtATime
<1>2. ASSUME NEW r \in Requests, Reads(r) PROVE FALSE
  BY <1>2, ReadsStart DEF OneAtATime
<1>3. ASSUME NEW r \in Requests, Answers(r) PROVE FALSE
  <2>1. r = q /\ DOMAIN req = Requests
    BY DEF OneAtATime, Stowed, Typed
  <2> QED BY <1>3, <2>1, AnswersEnd
<1>4. QED
  BY <1>1, <1>2, <1>3, StepKinds DEF reverseCost

LEMMA StepInTurn ==
  ASSUME OneAtATime, Stowed, InTurn, [Next]_vars
  PROVE  InTurn'
<1> SUFFICES ASSUME NEW q \in Requests PROVE Current(req[q])'
  BY DEF InTurn
<1>1. PICK context : context = req'[q]
  OBVIOUS
<1>2. CASE context = Idle
  <2>1. Current(context)'
    BY <1>2 DEF Current, Idle, Finders
  <2> QED BY <1>1, <2>1 DEF Current
<1>3. CASE context # Idle /\ context = req[q]
  <2>1. UNCHANGED vars /\ Current(req[q])
    BY <1>1, <1>3, Lone DEF InTurn
  <2> QED BY <2>1 DEF vars, Current, WithFile, FilesOf
<1>4. CASE context # Idle /\ context # req[q]
  <2>1. Reads(q)
    BY <1>1, <1>4, Reader
  <2>2. Says(context) /\ UNCHANGED << dossier, file >>
    BY <1>1, <2>1, ReadsInform, ReadsStart
  <2>3. Current(context)
    BY <2>2 DEF Says, Current
  <2>4. Current(context)'
    BY <2>2, <2>3 DEF Current, WithFile, FilesOf
  <2> QED BY <1>1, <2>4 DEF Current
<1>5. QED
  BY <1>2, <1>3, <1>4

(* The places of the customs statuses.                                       *)
LEMMA CustomsRank ==
  /\ \A status : Rank(CustomsStatuses, status) \in 0 .. 10
  /\ \A status \in CustomsSteps : Rank(CustomsStatuses, status) > 0
<1>1. DOMAIN CustomsStatuses = 1 .. 10
  BY DEF CustomsStatuses
<1>2. QED
  BY <1>1 DEF Rank, CustomsSteps

(* No file is lost, none goes back, and a dossier that had one gets no other.*)
RankOf(f) == Rank(CustomsStatuses, f.status)

OneMore(old, new) ==
  /\ \A k \in Keys : old[k] # NoFile => new[k] # NoFile /\ RankOf(old[k]) <= RankOf(new[k])
  /\ \A k, l \in Keys :
       old[k] = NoFile /\ new[k] # NoFile /\ new[l] # NoFile /\ k[2] = l[2] => k = l

(* The same files, none of them back.                                        *)
Raised(old, new) ==
  \A k \in Keys : /\ old[k] # NoFile => RankOf(old[k]) <= RankOf(new[k])
                  /\ old[k] # NoFile <=> new[k] # NoFile

LEMMA RaisedIsOneMore ==
  ASSUME NEW f, NEW g, NEW h, OneMore(f, g), Raised(g, h)
  PROVE  OneMore(f, h)
<1>1. \A k \in Keys : RankOf(f[k]) \in Int /\ RankOf(g[k]) \in Int /\ RankOf(h[k]) \in Int
  BY CustomsRank DEF RankOf
<1>2. QED
  BY <1>1 DEF OneMore, Raised

LEMMA SameIsOneMore == \A f : OneMore(f, f)
BY CustomsRank DEF OneMore, RankOf

(* A new status is the status of the file.                                   *)
LEMMA WithStatusIs ==
  ASSUME NEW f \in FileRows, NEW status
  PROVE  WithStatus(f, status).status = status
<1> DEFINE g == [f EXCEPT !.status = status]
<1>1. g.status = status
  BY DEF FileRows
<1>2. [g EXCEPT !.cost = "POSTED", !.booked = g.amount].status = status
  BY <1>1 DEF FileRows
<1>3. QED
  BY <1>1, <1>2 DEF WithStatus, recordCustomsActual

(* An opening that knows every file opens one for who has none.              *)
LEMMA OpensOne ==
  ASSUME Typed, file \in Files, NEW S \in SUBSET Shipments, NEW ship, NEW found, NEW now,
         NEW files \in createCustomsFiles(S, ship, found, now), WithFile \subseteq found
  PROVE  OneMore(file, files)
<1>1. PICK pick \in [Due(S, found, now) -> aboard] :
        /\ \A d \in DOMAIN pick : file[<< pick[d][2], d >>] = NoFile
        /\ files = Opened(pick, ship)
  BY DEF createCustomsFiles
<1>2. ASSUME NEW k \in Keys, files[k] # file[k]
      PROVE  k[2] \in DOMAIN pick /\ pick[k[2]][2] = k[1] /\ file[k] = NoFile
  <2>1. k[2] \in DOMAIN pick /\ pick[k[2]][2] = k[1]
    BY <1>1, <1>2 DEF Opened
  <2> QED BY <2>1, <1>1 DEF Keys
<1>3. ASSUME NEW k \in Keys, NEW l \in Keys, file[k] = NoFile, files[k] # NoFile,
             files[l] # NoFile, k[2] = l[2]
      PROVE  k = l
  <2>1. k[2] \in DOMAIN pick /\ pick[k[2]][2] = k[1]
    BY <1>2, <1>3
  <2>2. k[2] \notin WithFile
    BY <2>1, <1>1 DEF Due
  <2>3. file[l] = NoFile
    BY <2>2, <1>3 DEF WithFile, FilesOf, Keys
  <2>4. pick[l[2]][2] = l[1]
    BY <1>2, <1>3, <2>3
  <2> QED BY <2>1, <2>4, <1>3 DEF Keys
<1>4. \A k \in Keys : file[k] # NoFile => files[k] = file[k]
  BY <1>2
<1>5. \A k \in Keys : RankOf(file[k]) \in Int
  BY CustomsRank DEF RankOf
<1>6. QED
  BY <1>3, <1>4, <1>5 DEF OneMore

(* A milestone moves the files that are behind, up to it.                    *)
LEMMA SyncedRaises ==
  ASSUME NEW files \in Files, NEW d, NEW target \in CustomsSteps
  PROVE  /\ Raised(files, Synced(d, target, files))
         /\ \A k \in Keys : k[2] = d /\ files[k] # NoFile =>
              Rank(CustomsStatuses, target) <= RankOf(Synced(d, target, files)[k])
<1>1. PICK new : new = Synced(d, target, files)
  OBVIOUS
<1>2. ASSUME NEW k \in Keys
      PROVE  /\ files[k] # NoFile => RankOf(files[k]) <= RankOf(new[k])
             /\ files[k] # NoFile <=> new[k] # NoFile
             /\ k[2] = d /\ files[k] # NoFile =>
                  Rank(CustomsStatuses, target) <= RankOf(new[k])
  <2> DEFINE moves == /\ k[2] = d /\ files[k] # NoFile
                      /\ RankOf(files[k]) < Rank(CustomsStatuses, target)
  <2>1. RankOf(files[k]) \in Int /\ Rank(CustomsStatuses, target) \in Int
    BY CustomsRank DEF RankOf
  <2>2. CASE moves
    <3>1. new[k] = WithStatus(files[k], target) /\ files[k] \in FileRows
      BY <1>1, <2>2 DEF Synced, RankOf, Files
    <3>2. new[k] \in FileRows /\ new[k].status = target
      BY <3>1, WithStatusRow, WithStatusIs
    <3> QED BY <2>1, <2>2, <3>2, Bounds DEF RankOf
  <2>3. CASE ~ moves
    <3>1. new[k] = files[k]
      BY <1>1, <2>3 DEF Synced, RankOf
    <3> QED BY <2>1, <2>3, <3>1
  <2> QED BY <2>2, <2>3
<1>3. QED
  BY <1>1, <1>2 DEF Raised

(* A step of a DDP dossier past a milestone leaves it with files that passed *)
(* it too.                                                                   *)
Passed(d, target, files) ==
  /\ \E k \in Keys : k[2] = d /\ files[k] # NoFile
  /\ \A k \in Keys : k[2] = d /\ files[k] # NoFile =>
       Rank(CustomsStatuses, target) <= RankOf(files[k])

LEMMA AdvanceOneMore ==
  ASSUME Stowed, Filed, InTurn, NEW r \in Requests, advance(r)
  PROVE  /\ OneMore(file, file')
         /\ req[r].d \in DDP /\ getTargetCustomsStatus(req[r].step) # "none" =>
              Passed(req[r].d, getTargetCustomsStatus(req[r].step), file')
<1>1. PICK d, step, now, ships, to, target, found :
        /\ d = req[r].d /\ step = req[r].step /\ now = [dossier EXCEPT ![d] = step]
        /\ ships = Related(d, step) /\ to = getTargetShipmentStatus(step)
        /\ target = getTargetCustomsStatus(step) /\ found = req[r].found
  OBVIOUS
<1>2. d \in Dossiers /\ WithFile \subseteq found
  BY <1>1 DEF advance, Finish, Filed, NamesRows, InTurn, Current, Finders
<1>3. PICK files \in IF to = "arrived"
                     THEN createCustomsFiles(ships, Moved(ships, to), found, now)
                     ELSE {file} :
        IF target = "none" \/ d \notin DDP
        THEN file' = files
        ELSE Ready(d, target, files) /\ file' = Synced(d, target, files)
  BY <1>1 DEF advance
<1>4. OneMore(file, files) /\ files \in Files
  <2>1. ships \in SUBSET Shipments
    BY <1>1 DEF Related
  <2>2. PICK ship : ship = Moved(ships, to)
    OBVIOUS
  <2>3. CASE to = "arrived"
    <3>1. files \in createCustomsFiles(ships, ship, found, now)
      BY <2>2, <2>3, <1>3
    <3> QED BY <3>1, <2>1, <1>2, OpensOne, OpeningGrows DEF Stowed, Filed, Grown
  <2>4. CASE to # "arrived"
    <3>1. files = file
      BY <2>4, <1>3
    <3> QED BY <3>1, SameIsOneMore DEF Filed
  <2> QED BY <2>3, <2>4
<1>5. CASE target = "none" \/ d \notin DDP
  BY <1>1, <1>3, <1>4, <1>5
<1>6. CASE target # "none" /\ d \in DDP
  <2>1. target \in CustomsSteps
    BY <1>1, <1>6, Milestones DEF getTargetCustomsStatus
  <2>2. PICK new : new = Synced(d, target, files)
    OBVIOUS
  <2>3. /\ Raised(files, new)
        /\ \A k \in Keys : k[2] = d /\ files[k] # NoFile =>
             Rank(CustomsStatuses, target) <= RankOf(new[k])
    BY <2>1, <2>2, <1>4, SyncedRaises
  <2>4. OneMore(file, new)
    BY <2>3, <1>4, RaisedIsOneMore
  <2>5. file' = new /\ \E v \in Vehicles : files[<< v, d >>] # NoFile
    BY <1>3, <1>6, <2>2 DEF Ready
  <2>6. Passed(d, target, new)
    BY <2>3, <2>5, <1>2 DEF Passed, Raised, Keys
  <2> QED BY <1>1, <2>4, <2>5, <2>6
<1>7. QED
  BY <1>5, <1>6

(* Every step adds at most the one file of a dossier without one.            *)
LEMMA StepOneMore ==
  ASSUME Stowed, Filed, InTurn, [Next]_vars
  PROVE  OneMore(file, file')
<1>0. CASE file' = file
  BY <1>0, SameIsOneMore
<1>1. ASSUME NEW r \in Requests, transition(r) PROVE OneMore(file, file')
  <2>1. PICK S, ship, found, now, to : /\ S = {req[r].s} /\ to = req[r].to
                                       /\ found = req[r].found /\ now = dossier
                                       /\ ship = Moved(S, to)
    OBVIOUS
  <2>2. S \in SUBSET Shipments /\ WithFile \subseteq found
    BY <2>1, <1>1 DEF transition, Finish, Stowed, LocksHeld, Transiting, InTurn, Current, Finders
  <2>3. file' = file \/ file' \in createCustomsFiles(S, ship, found, now)
    BY <1>1, <2>1 DEF transition, applyTransition
  <2>4. PICK files : files = file'
    OBVIOUS
  <2> QED BY <1>0, <2>2, <2>3, <2>4, OpensOne DEF Stowed, Filed
<1>2. ASSUME NEW r \in Requests, createCustomsFromShipment(r) PROVE OneMore(file, file')
  <2>1. PICK S, ship, found, now : /\ S = {req[r].s} /\ ship = shipment
                                   /\ found = req[r].found /\ now = dossier
    OBVIOUS
  <2>2. S \in SUBSET Shipments /\ WithFile \subseteq found
    BY <2>1, <1>2
    DEF createCustomsFromShipment, Finish, Filed, NamesRows, InTurn, Current, Finders
  <2>3. PICK files : files = file' /\ files \in createCustomsFiles(S, ship, found, now)
    BY <1>2, <2>1 DEF createCustomsFromShipment
  <2> QED BY <2>2, <2>3, OpensOne DEF Stowed, Filed
<1>3. ASSUME NEW r \in Requests, createCustoms(r) PROVE OneMore(file, file')
  <2>1. PICK k, row : k = req[r].k /\ row = NewFile(req[r].s, "TO_PREPARE")
    OBVIOUS
  <2>2. k \in Keys /\ FilesOf(k[2]) = {} /\ file' = [file EXCEPT ![k] = row]
    BY <1>3, <2>1 DEF createCustoms, Finish, Filed, NamesRows, InTurn, Current
  <2>3. \A l \in Keys : l[2] = k[2] => file[l] = NoFile
    BY <2>2 DEF FilesOf
  <2>4. \A l \in Keys : file'[l] = IF l = k THEN row ELSE file[l]
    BY <2>2 DEF Filed, Files
  <2>5. \A l \in Keys : RankOf(file[l]) \in Int
    BY CustomsRank DEF RankOf
  <2> QED BY <2>2, <2>3, <2>4, <2>5 DEF OneMore
<1>4. ASSUME NEW k \in Keys, NEW row, file' = [file EXCEPT ![k] = row], file[k] # NoFile,
             row # NoFile, RankOf(file[k]) <= RankOf(row)
      PROVE  OneMore(file, file')
  <2>1. \A l \in Keys : file'[l] = IF l = k THEN row ELSE file[l]
    BY <1>4 DEF Filed, Files
  <2>2. \A l \in Keys : RankOf(file[l]) \in Int
    BY CustomsRank DEF RankOf
  <2> QED BY <1>4, <2>1, <2>2 DEF OneMore
<1>5. ASSUME NEW r \in Requests, transitionCustoms(r) PROVE OneMore(file, file')
  <2>1. PICK k, to, row : k = req[r].k /\ to = req[r].to /\ row = WithStatus(file[k], to)
    OBVIOUS
  <2>2. /\ k \in Keys /\ to \in CustomsSteps /\ file[k] # NoFile /\ file[k] \in FileRows
        /\ Precedes(file[k].status, to)
    BY <1>5, <2>1
    DEF transitionCustoms, Finish, Filed, Files, NamesRows, InTurn, Current
  <2>3. row \in FileRows /\ row.status = to
    BY <2>1, <2>2, WithStatusRow, WithStatusIs
  <2>4. RankOf(file[k]) <= RankOf(row)
    BY <2>2, <2>3, CustomsRank DEF RankOf, Precedes
  <2>5. file' = [file EXCEPT ![k] = row]
    BY <1>5, <2>1 DEF transitionCustoms
  <2> QED BY <2>2, <2>3, <2>4, <2>5, <1>4, Bounds
<1>6. ASSUME NEW r \in Requests, updateAmount(r) PROVE OneMore(file, file')
  <2>1. PICK k, f, a : k = req[r].k /\ f = file[k] /\ a = req[r].amount
    OBVIOUS
  <2> DEFINE row == [f EXCEPT !.amount = a]
  <2>2. k \in Keys /\ f # NoFile /\ f \in FileRows /\ a \in 0 .. MaxAmount
    BY <1>6, <2>1, Bounds DEF updateAmount, Finish, Filed, Files, NamesRows
  <2>3. row \in FileRows /\ row.status = f.status
    BY <2>2 DEF FileRows
  <2>4. file' = [file EXCEPT ![k] = row]
    BY <1>6, <2>1 DEF updateAmount
  <2> HIDE DEF row
  <2>5. RankOf(f) <= RankOf(row)
    BY <2>3, CustomsRank DEF RankOf
  <2> QED BY <2>1, <2>2, <2>3, <2>4, <2>5, <1>4, Bounds
<1>7. ASSUME NEW k \in Keys, reverseCost(k) PROVE OneMore(file, file')
  <2>1. PICK f : f = file[k]
    OBVIOUS
  <2> DEFINE row == [f EXCEPT !.cost = "REVERSED"]
  <2>2. f # NoFile /\ f \in FileRows /\ file' = [file EXCEPT ![k] = row]
    BY <1>7, <2>1 DEF reverseCost, Filed, Files
  <2>3. row \in FileRows /\ row.status = f.status
    BY <2>2 DEF FileRows
  <2> HIDE DEF row
  <2>4. RankOf(f) <= RankOf(row)
    BY <2>3, CustomsRank DEF RankOf
  <2> QED BY <2>1, <2>2, <2>3, <2>4, <1>4, Bounds
<1>8. ASSUME NEW r \in Requests, advance(r) PROVE OneMore(file, file')
  BY <1>8, AdvanceOneMore
<1>9. ASSUME NEW r \in Requests, Reads(r) \/ Abort(r) PROVE file' = file
  BY <1>9, ReadsStart DEF Abort
<1>10. Loading \/ UNCHANGED vars => file' = file
  BY DEF Loading, create, update, addVehicle, removeVehicle, vars
<1>11. QED
  BY <1>0, <1>1, <1>2, <1>3, <1>5, <1>6, <1>7, <1>8, <1>9, <1>10, StepKinds DEF Answers

-----------------------------------------------------------------------------
UniqueFile ==
  \A k, l \in Keys : file[k] # NoFile /\ file[l] # NoFile /\ k[2] = l[2] => k = l

(* Of a set whose elements are all equal, the cardinality.                   *)
LEMMA AtMostOne ==
  ASSUME NEW S, \A k, l \in S : k = l
  PROVE  Cardinality(S) <= 1
<1>1. CASE S = {}
  BY <1>1, FS_EmptySet
<1>2. CASE S # {}
  <2>1. PICK k : S = {k}
    BY <1>2
  <2> QED BY <2>1, FS_Singleton
<1>3. QED
  BY <1>1, <1>2

(* One request at a time, nothing is stale.                                  *)
LEMMA AlwaysInTurn ==
  ASSUME OneAtATime, IsFiniteSet(Vehicles)
  PROVE  Spec => []InTurn
  <1>1. Init => InTurn
    BY DEF Init, InTurn, Current, Idle, Finders
  <1>2. Stowed /\ Filed /\ InTurn /\ [Next]_vars => InTurn'
    BY StepInTurn
  <1> QED BY <1>1, <1>2, AlwaysFiled, PTL DEF Spec

(* Any number of requests: as long as none opens a file for a dossier that   *)
(* got one since it looked, or moves a file that has moved, a dossier has    *)
(* one customs file, and has it when its vehicle has arrived.                *)
THEOREM OneFileUnlessStale ==
  ASSUME IsFiniteSet(Vehicles)
  PROVE  Spec /\ []InTurn => []OneCustomsFile
  <1>1. Init => UniqueFile
    BY DEF Init, UniqueFile
  <1>2. Stowed /\ Filed /\ InTurn /\ UniqueFile /\ [Next]_vars => UniqueFile'
    BY StepOneMore DEF UniqueFile, OneMore
  <1>3. UniqueFile /\ ArrivedHasFile => OneCustomsFile
    <2>1. ASSUME UniqueFile, NEW d \in Dossiers PROVE Cardinality(FilesOf(d)) <= 1
      BY <2>1, AtMostOne DEF UniqueFile, FilesOf
    <2> QED BY <2>1 DEF OneCustomsFile
  <1> QED BY <1>1, <1>2, <1>3, AlwaysFiled, Arrivals, PTL DEF Spec

(* A dossier has one customs file, whichever of its vehicles, shipments and  *)
(* staff ask for one, and it has it when its vehicle has arrived.            *)
THEOREM OneFile ==
  ASSUME OneAtATime, IsFiniteSet(Vehicles)
  PROVE  Spec => []OneCustomsFile
  BY AlwaysInTurn, OneFileUnlessStale, PTL
-----------------------------------------------------------------------------
(* The milestones that a dossier in this status has passed.                  *)
MilestoneAt(d, status) ==
  {Rank(CustomsStatuses, getTargetCustomsStatus(StepsOfDossier(d)[i])) :
     i \in {i \in 1 .. Rank(StepsOfDossier(d), status) :
              getTargetCustomsStatus(StepsOfDossier(d)[i]) # "none"}}

Paced(d, M, files) ==
  M # {} => /\ \E k \in Keys : k[2] = d /\ files[k] # NoFile
            /\ \A k \in Keys : k[2] = d /\ files[k] # NoFile =>
                 \A m \in M : m <= RankOf(files[k])

LEMMA InStepIsPaced ==
  /\ CustomsInStep <=> \A d \in DDP : Paced(d, MilestoneAt(d, dossier[d]), file)
  /\ CustomsInStep' <=> \A d \in DDP : Paced(d, MilestoneAt(d, dossier'[d]), file')
<1>1. ASSUME NEW d, NEW M
      PROVE  /\ Paced(d, M, file) <=>
                  (M # {} => /\ FilesOf(d) # {}
                             /\ \A k \in FilesOf(d) : \A m \in M : RankOf(file[k]) >= m)
             /\ Paced(d, M, file') <=>
                  (M # {} => /\ FilesOf(d)' # {}
                             /\ \A k \in FilesOf(d)' : \A m \in M : RankOf(file'[k]) >= m)
  BY DEF Paced, FilesOf
<1>2. \A d : Milestone(d) = MilestoneAt(d, dossier[d])
  BY DEF Milestone, MilestoneAt
<1>3. ASSUME NEW d PROVE Milestone(d)' = MilestoneAt(d, dossier'[d])
  BY DEF Milestone, MilestoneAt
<1>4. QED
  BY <1>1, <1>2, <1>3 DEF CustomsInStep, RankOf

(* The status of a dossier after a step: one more milestone, or none.        *)
LEMMA NextMilestone ==
  ASSUME NEW d \in Dossiers
  PROVE  /\ MilestoneAt(d, "cancelled") = {}
         /\ \A i \in 2 .. Len(StepsOfDossier(d)) : \E step, before :
              /\ step = StepsOfDossier(d)[i] /\ before = StepsOfDossier(d)[i - 1]
              /\ MilestoneAt(d, step) =
                   MilestoneAt(d, before) \union
                   (IF getTargetCustomsStatus(step) = "none" THEN {}
                    ELSE {Rank(CustomsStatuses, getTargetCustomsStatus(step))})
<1>1. PICK steps : steps = StepsOfDossier(d)
  OBVIOUS
<1>2. /\ steps \in Seq(AllStatuses \ {"cancelled"})
      /\ \A i, j \in DOMAIN steps : steps[i] = steps[j] => i = j
  BY <1>1, LogisticsAssumption DEF LogisticsAssumption
<1>3. PICK n \in Nat : n = Len(steps) /\ DOMAIN steps = 1 .. n
  BY <1>2
<1>4. \A i \in 1 .. n : steps[i] # "cancelled" /\ Rank(steps, steps[i]) = i
  BY <1>2, <1>3 DEF Rank
<1>5. Rank(steps, "cancelled") = 0
  BY <1>3, <1>4 DEF Rank
<1>6. MilestoneAt(d, "cancelled") = {}
  BY <1>1, <1>5 DEF MilestoneAt
<1>7. ASSUME NEW i \in 2 .. n
      PROVE  MilestoneAt(d, steps[i]) =
               MilestoneAt(d, steps[i - 1]) \union
               (IF getTargetCustomsStatus(steps[i]) = "none" THEN {}
                ELSE {Rank(CustomsStatuses, getTargetCustomsStatus(steps[i]))})
  <2>1. Rank(steps, steps[i]) = i /\ Rank(steps, steps[i - 1]) = i - 1
    BY <1>4
  <2>2. 1 .. i = (1 .. (i - 1)) \union {i}
    OBVIOUS
  <2>3. MilestoneAt(d, steps[i]) =
          {Rank(CustomsStatuses, getTargetCustomsStatus(steps[j])) :
             j \in {j \in 1 .. i : getTargetCustomsStatus(steps[j]) # "none"}}
    BY <1>1, <2>1 DEF MilestoneAt
  <2>4. MilestoneAt(d, steps[i - 1]) =
          {Rank(CustomsStatuses, getTargetCustomsStatus(steps[j])) :
             j \in {j \in 1 .. (i - 1) : getTargetCustomsStatus(steps[j]) # "none"}}
    BY <1>1, <2>1 DEF MilestoneAt
  <2> QED BY <2>2, <2>3, <2>4
<1>8. QED
  BY <1>1, <1>3, <1>6, <1>7

(* What one more file does not disturb.                                      *)
LEMMA StaysPaced ==
  ASSUME NEW old, NEW new, OneMore(old, new), NEW d, NEW M \in SUBSET Int, Paced(d, M, old)
  PROVE  Paced(d, M, new)
<1>1. \A k \in Keys : RankOf(old[k]) \in Int /\ RankOf(new[k]) \in Int
  BY CustomsRank DEF RankOf
<1>2. CASE M # {}
  <2>1. PICK l \in Keys : l[2] = d /\ old[l] # NoFile
    BY <1>2 DEF Paced
  <2>2. new[l] # NoFile
    BY <2>1 DEF OneMore
  <2>3. ASSUME NEW k \in Keys, k[2] = d, new[k] # NoFile
        PROVE  old[k] # NoFile /\ RankOf(old[k]) <= RankOf(new[k])
    BY <2>1, <2>2, <2>3 DEF OneMore
  <2>4. ASSUME NEW k \in Keys, k[2] = d, new[k] # NoFile, NEW m \in M
        PROVE  m <= RankOf(new[k])
    <3>1. m <= RankOf(old[k])
      BY <2>3, <2>4, <1>2 DEF Paced
    <3> QED BY <3>1, <2>3, <2>4, <1>1
  <2> QED BY <2>1, <2>2, <2>4 DEF Paced
<1>3. QED
  BY <1>2 DEF Paced

LEMMA StepPaced ==
  ASSUME Stowed, Filed, InTurn, CustomsInStep, [Next]_vars
  PROVE  CustomsInStep'
<1> SUFFICES ASSUME NEW d \in DDP PROVE Paced(d, MilestoneAt(d, dossier'[d]), file')
  BY InStepIsPaced
<1>1. d \in Dossiers /\ Paced(d, MilestoneAt(d, dossier[d]), file)
  BY InStepIsPaced, LogisticsAssumption DEF LogisticsAssumption
<1>2. OneMore(file, file')
  BY StepOneMore
<1>3. \A status : MilestoneAt(d, status) \in SUBSET Int
  BY CustomsRank DEF MilestoneAt
<1>4. Paced(d, MilestoneAt(d, dossier[d]), file')
  BY <1>1, <1>2, <1>3, StaysPaced
<1>5. CASE dossier'[d] = dossier[d]
  BY <1>4, <1>5
<1>6. CASE dossier'[d] # dossier[d]
  <2>1. PICK r \in Requests : advance(r)
    BY <1>6, DossierStep
  <2>2. PICK step : /\ step = req[r].step /\ req[r].op = "advance"
                    /\ dossier' = [dossier EXCEPT ![req[r].d] = step]
    BY <2>1 DEF advance, Finish
  <2>3. d = req[r].d /\ dossier'[d] = step
    BY <1>1, <1>6, <2>2 DEF Filed
  <2>4. CASE step = "cancelled"
    <3>1. MilestoneAt(d, dossier'[d]) = {}
      BY <1>1, <2>3, <2>4, NextMilestone
    <3> QED BY <3>1 DEF Paced
  <2>5. CASE step # "cancelled"
    <3>1. PICK i \in 2 .. Len(StepsOfDossier(d)) :
            StepsOfDossier(d)[i - 1] = dossier[d] /\ StepsOfDossier(d)[i] = step
      BY <2>2, <2>3, <2>5 DEF InTurn, Current
    <3>2. PICK target : target = getTargetCustomsStatus(step)
      OBVIOUS
    <3>3. MilestoneAt(d, step) =
            MilestoneAt(d, dossier[d]) \union
            (IF target = "none" THEN {} ELSE {Rank(CustomsStatuses, target)})
      BY <1>1, <3>1, <3>2, NextMilestone
    <3>4. target # "none" => Passed(d, target, file')
      BY <2>1, <2>2, <2>3, <3>2, AdvanceOneMore
    <3>5. CASE target = "none"
      BY <3>3, <3>5, <1>4, <2>3
    <3>6. CASE target # "none"
      BY <3>3, <3>4, <3>6, <1>4, <2>3 DEF Paced, Passed
    <3> QED BY <3>5, <3>6
  <2> QED BY <2>4, <2>5
<1>7. QED
  BY <1>5, <1>6

(* Any number of requests: as long as no dossier takes a step, and no file   *)
(* a status, that follows on one it has left, the customs files of a DDP     *)
(* dossier have come as far as the dossier says.                             *)
THEOREM InStepUnlessStale ==
  ASSUME IsFiniteSet(Vehicles)
  PROVE  Spec /\ []InTurn => []CustomsInStep
  <1>1. Init => CustomsInStep
    <2> SUFFICES ASSUME Init, NEW d \in DDP PROVE Paced(d, MilestoneAt(d, dossier[d]), file)
      BY InStepIsPaced
    <2>1. PICK steps : steps = StepsOfDossier(d)
      OBVIOUS
    <2>2. d \in Dossiers /\ dossier[d] = steps[1]
      BY <2>1, LogisticsAssumption DEF Init, LogisticsAssumption
    <2>3. /\ steps \in Seq(AllStatuses \ {"cancelled"}) \ {<< >>}
          /\ \A i, j \in DOMAIN steps : steps[i] = steps[j] => i = j
      BY <2>1, <2>2, LogisticsAssumption DEF LogisticsAssumption
    <2>4. PICK n \in Nat : n = Len(steps) /\ DOMAIN steps = 1 .. n /\ n > 0
      BY <2>3
    <2>5. Rank(steps, steps[1]) = 1
      BY <2>3, <2>4 DEF Rank
    <2>6. getTargetCustomsStatus(steps[1]) = "none"
      BY <2>1, FirstStepAssumption DEF FirstStepAssumption
    <2>7. MilestoneAt(d, dossier[d]) = {}
      BY <2>1, <2>2, <2>5, <2>6 DEF MilestoneAt
    <2> QED BY <2>7 DEF Paced
  <1>2. Stowed /\ Filed /\ InTurn /\ CustomsInStep /\ [Next]_vars => CustomsInStep'
    BY StepPaced
  <1> QED BY <1>1, <1>2, AlwaysFiled, PTL DEF Spec

(* One request at a time, they have: its milestones move them, and nothing   *)
(* takes them back or adds one behind.                                       *)
THEOREM InStep ==
  ASSUME OneAtATime, IsFiniteSet(Vehicles)
  PROVE  Spec => []CustomsInStep
  BY AlwaysInTurn, InStepUnlessStale, PTL
=============================================================================
