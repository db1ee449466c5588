--------------------------- MODULE Orders_proofs ---------------------------
(***************************************************************************)
(* Proofs about Orders, for every set of orders, vehicles and requests     *)
(* that are served one after the other: no vehicle is stranded, a vehicle  *)
(* that is held is not offered, and a sold one is sold once.               *)
(***************************************************************************)
EXTENDS Orders, TLAPS

(* Requests served one after the other. *)
OneAtATime == \A r, s \in Requests : r = s

Statuses == {"draft", "confirmed", "processing", "completed", "cancelled"}
States   == {"none", "active", "due", "expired", "released", "consumed"}

Rows == [status : Statuses, items : SUBSET Vehicles]

Typed ==
  /\ order \in [Orders -> Rows \union {NoOrder}]
  /\ reservation \in [Orders -> [Vehicles -> States]]
  /\ stock \in [Vehicles -> {"available", "reserved", "sold"}]

(* What a request has read of its order still holds when it writes.          *)
ReadIsCurrent(context) ==
  LET o == context.o
  IN  /\ context.op = "create" =>
           /\ o \in Orders /\ order[o] = NoOrder
           /\ context.items \in SUBSET Vehicles
      /\ context.op = "update" =>
           /\ o \in Orders /\ order[o] \in Rows /\ order[o].status = "draft"
           /\ context.items \in SUBSET Vehicles
           /\ context.old = order[o].items
      /\ context.op = "status" =>
           /\ o \in Orders /\ order[o] \in Rows /\ context.to \in Statuses
           /\ order[o].status \notin {"completed", "cancelled"}
           /\ context.items = order[o].items

Fresh == DOMAIN req = Requests /\ \A r \in Requests : ReadIsCurrent(req[r])

(* An order that does not exist has reserved nothing; one that has is open   *)
(* and lists the vehicle.                                                    *)
ClaimsListed ==
  \A o \in Orders, v \in Vehicles :
    /\ order[o] = NoOrder => reservation[o][v] = "none"
    /\ Claims(o, v) => v \in order[o].items /\ ~ Closed(o)

(* A vehicle has one holder.                                                 *)
OneHolder ==
  \A o, p \in Orders, v \in Vehicles : Claims(o, v) /\ Claims(p, v) => o = p

ReservedIsClaimed == \A v \in Vehicles : stock[v] = "reserved" => Held(v)

(* An open order has reserved what it lists, unless that has lapsed.         *)
ItemsClaimed ==
  \A o \in Orders : \A v \in order[o].items :
    ~ Closed(o) => Claims(o, v) \/ reservation[o][v] = "expired"

(* An order was closed after its reservation of the vehicle had lapsed:      *)
(* unlike another lapse, that one is not undone by an edit.                  *)
Spoiled(v) == \E o \in Orders : Closed(o) /\ reservation[o][v] = "expired"

(* A vehicle of a completed order is sold, nobody holds it, and it belongs   *)
(* to no other completed order.                                              *)
SoldAndGone ==
  \A o \in Orders : \A v \in order[o].items :
    order[o].status = "completed" /\ ~ Spoiled(v) =>
      /\ stock[v] = "sold"
      /\ ~ Held(v)
      /\ \A p \in Orders \ {o} : order[p].status = "completed" => v \notin order[p].items

(* The inductive invariant.                                                  *)
Consistent ==
  /\ Typed
  /\ ClaimsListed
  /\ OneHolder
  /\ ReservedIsClaimed
  /\ ItemsClaimed
  /\ HeldIsNotOffered
  /\ SoldAndGone

Serial == Consistent /\ Fresh

(* The statuses and the row of an order that does not exist.                 *)
LEMMA Shapes ==
  /\ DOMAIN validTransitions = Statuses
  /\ \A from \in Statuses : validTransitions[from] \subseteq Statuses
  /\ NoOrder.status = "none" /\ NoOrder.items = {}
  /\ NoOrder \notin Rows
  /\ \A from \in {"completed", "cancelled"} : validTransitions[from] = {}
BY DEF validTransitions, Statuses, NoOrder, Rows

(* Nothing is ordered, reserved or under way at first.                       *)
LEMMA InitSerial == Init => Serial
<1> SUFFICES ASSUME Init PROVE Serial
  OBVIOUS
<1>1. \A o \in Orders : order[o] = NoOrder /\ \A v \in Vehicles : reservation[o][v] = "none"
  BY DEF Init
<1>2. Typed
  BY DEF Init, Typed, States
<1>3. \A o \in Orders, v \in Vehicles : ~ Claims(o, v)
  BY <1>1 DEF Claims, IsActive
<1>4. ClaimsListed /\ OneHolder /\ HeldIsNotOffered
  BY <1>1, <1>3 DEF ClaimsListed, OneHolder, HeldIsNotOffered, Held
<1>5. ReservedIsClaimed
  BY DEF Init, ReservedIsClaimed
<1>6. ItemsClaimed /\ SoldAndGone
  BY <1>1, Shapes DEF ItemsClaimed, SoldAndGone
<1>7. Fresh
  BY DEF Init, Fresh, ReadIsCurrent, Idle
<1>8. QED
  BY <1>2, <1>4, <1>5, <1>6, <1>7 DEF Serial, Consistent

-----------------------------------------------------------------------------
(* Expiry: the holder of a vehicle is known before and after, and only a     *)
(* vehicle whose reservation is due becomes available.                       *)
LEMMA ExpireKeeps ==
  ASSUME Consistent, expireReservations, order' = order
  PROVE  Consistent'
<1> USE DEF Consistent
<1>1. \A o \in Orders, v \in Vehicles :
        reservation'[o][v] = IF reservation[o][v] = "due" THEN "expired" ELSE reservation[o][v]
  BY DEF expireReservations
<1>2. \A v \in Vehicles :
        stock'[v] = IF stock[v] = "reserved" /\ \E o \in Orders : reservation[o][v] = "due"
                    THEN "available" ELSE stock[v]
  BY DEF expireReservations
<1>3. Typed'
  BY DEF expireReservations, Typed, States
<1>4. \A o \in Orders, v \in Vehicles :
        Claims(o, v)' <=> reservation[o][v] = "active"
  BY <1>1 DEF Claims, IsActive
<1>5. \A o \in Orders, v \in Vehicles : Claims(o, v)' => Claims(o, v)
  BY <1>4 DEF Claims, IsActive
<1>6. \A o \in Orders : Closed(o)' <=> Closed(o)
  BY DEF Closed
<1>7. ClaimsListed'
  BY <1>1, <1>5, <1>6 DEF ClaimsListed
<1>8. OneHolder'
  BY <1>5 DEF OneHolder
<1>9. ReservedIsClaimed'
  <2> SUFFICES ASSUME NEW v \in Vehicles, stock'[v] = "reserved" PROVE Held(v)'
    BY DEF ReservedIsClaimed
  <2>1. stock[v] = "reserved" /\ \A o \in Orders : reservation[o][v] # "due"
    BY <1>2
  <2>2. PICK o \in Orders : Claims(o, v)
    BY <2>1 DEF ReservedIsClaimed, Held
  <2>3. reservation[o][v] = "active"
    BY <2>1, <2>2 DEF Claims, IsActive
  <2>4. QED
    BY <2>3, <1>4 DEF Held
<1>10. ItemsClaimed'
  <2> SUFFICES ASSUME NEW o \in Orders, NEW v \in order[o].items, ~ Closed(o)
               PROVE  Claims(o, v)' \/ reservation'[o][v] = "expired"
    BY <1>6 DEF ItemsClaimed
  <2>1. v \in Vehicles
    BY Shapes DEF Typed, Rows
  <2>2. Claims(o, v) \/ reservation[o][v] = "expired"
    BY DEF ItemsClaimed
  <2>3. QED
    BY <2>1, <2>2, <1>1, <1>4 DEF Claims, IsActive
<1>11. HeldIsNotOffered'
  <2> SUFFICES ASSUME NEW v \in Vehicles, Held(v)', ~ Lapsed(v)'
               PROVE  stock'[v] = "reserved"
    BY DEF HeldIsNotOffered
  <2>1. \A o \in Orders : reservation[o][v] \notin {"due", "expired"}
    BY <1>1 DEF Lapsed
  <2>2. Held(v) /\ ~ Lapsed(v)
    BY <2>1, <1>5 DEF Held, Lapsed
  <2>3. QED
    BY <2>1, <2>2, <1>2 DEF HeldIsNotOffered
<1>12. SoldAndGone'
  <2> SUFFICES ASSUME NEW o \in Orders, NEW v \in order[o].items,
                      order[o].status = "completed", ~ Spoiled(v)'
               PROVE  /\ stock'[v] = "sold"
                      /\ ~ Held(v)'
                      /\ \A p \in Orders \ {o} :
                           order[p].status = "completed" => v \notin order[p].items
    BY DEF SoldAndGone
  <2>1. v \in Vehicles
    BY Shapes DEF Typed, Rows
  <2>2. ~ Spoiled(v)
    BY <2>1, <1>1, <1>6 DEF Spoiled
  <2>3. stock[v] = "sold" /\ ~ Held(v)
    BY <2>2 DEF SoldAndGone
  <2>4. QED
    BY <2>1, <2>2, <2>3, <1>2, <1>5 DEF SoldAndGone, Held
<1>13. QED
  BY <1>3, <1>7, <1>8, <1>9, <1>10, <1>11, <1>12

(* A reservation that becomes due is in force as before.                     *)
LEMMA LapseKeeps ==
  ASSUME Consistent, NEW o \in Orders, NEW v \in Vehicles, Lapse(o, v)
  PROVE  Consistent'
<1> USE DEF Consistent
<1>1. order' = order /\ stock' = stock
  BY DEF Lapse
<1>2. Typed'
  BY DEF Lapse, Typed, States
<1>3. \A p \in Orders, w \in Vehicles :
        /\ Claims(p, w)' <=> Claims(p, w)
        /\ reservation'[p][w] = "expired" <=> reservation[p][w] = "expired"
        /\ reservation'[p][w] = "none" <=> reservation[p][w] = "none"
  BY DEF Lapse, Typed, Claims, IsActive
<1>4. \A p \in Orders : Closed(p)' <=> Closed(p)
  BY <1>1 DEF Closed
<1>5. \A w \in Vehicles :
        (Held(w)' <=> Held(w)) /\ (Lapsed(w)' <=> Lapsed(w)) /\ (Spoiled(w)' <=> Spoiled(w))
  BY <1>3, <1>4 DEF Held, Lapsed, Spoiled
<1>6. \A p \in Orders : order[p].items \subseteq Vehicles
  BY Shapes DEF Typed, Rows
<1>7. ClaimsListed' /\ OneHolder' /\ ItemsClaimed'
  BY <1>1, <1>3, <1>4, <1>6 DEF ClaimsListed, OneHolder, ItemsClaimed
<1>8. ReservedIsClaimed' /\ HeldIsNotOffered' /\ SoldAndGone'
  BY <1>1, <1>5, <1>6 DEF ReservedIsClaimed, HeldIsNotOffered, SoldAndGone
<1>9. QED
  BY <1>2, <1>7, <1>8

-----------------------------------------------------------------------------
(* A creation and an edit are one step: the order o, a draft or new, gives   *)
(* back what it holds and reserves S.                                        *)
Rewrites(o, S) ==
  /\ \A w \in S, p \in Orders \ {o} : ~ Claims(p, w)
  /\ \A w \in S : stock[w] = "available" \/ (w \in order[o].items /\ stock[w] = "reserved")
  /\ order' = [order EXCEPT ![o] = [status |-> "draft", items |-> S]]
  /\ reservation' = [reservation EXCEPT ![o] = [w \in Vehicles |->
       IF w \in S THEN "active" ELSE IF Claims(o, w) THEN "released" ELSE reservation[o][w]]]
  /\ stock' = [w \in Vehicles |->
       IF w \in S THEN "reserved"
       ELSE IF w \in order[o].items /\ stock[w] = "reserved" THEN "available" ELSE stock[w]]

(* A new order holds nothing yet.                                            *)
LEMMA CreateRewrites ==
  ASSUME Consistent, NEW r \in Requests, ReadIsCurrent(req[r]), create(r)
  PROVE  /\ req[r].o \in Orders /\ req[r].items \in SUBSET Vehicles
         /\ order[req[r].o] = NoOrder \/ order[req[r].o].status = "draft"
         /\ Rewrites(req[r].o, req[r].items)
<1> DEFINE o == req[r].o
           S == req[r].items
<1>1. /\ o \in Orders /\ order[o] = NoOrder /\ S \in SUBSET Vehicles
      /\ Reserves(o, S, reservation, stock)
      /\ order' = [order EXCEPT ![o] = [status |-> "draft", items |-> S]]
  BY DEF create, Refresh, ReadIsCurrent
<1> HIDE DEF o, S
<1>2. order[o].items = {} /\ \A w \in Vehicles : ~ Claims(o, w)
  BY <1>1, Shapes DEF Consistent, ClaimsListed, Claims, IsActive
<1>3. /\ \A w \in S : stock[w] = "available"
      /\ \A w \in S, p \in Orders : ~ Claims(p, w)
  BY <1>1 DEF Reserves, Claims
<1>4. reservation' = [reservation EXCEPT ![o] = [w \in Vehicles |->
        IF w \in S THEN "active" ELSE IF Claims(o, w) THEN "released" ELSE reservation[o][w]]]
  BY <1>1, <1>2 DEF Reserves, Consistent, Typed
<1>5. stock' = [w \in Vehicles |->
        IF w \in S THEN "reserved"
        ELSE IF w \in order[o].items /\ stock[w] = "reserved" THEN "available" ELSE stock[w]]
  BY <1>1, <1>2 DEF Reserves, Consistent, Typed
<1>6. Rewrites(o, S)
  BY <1>1, <1>3, <1>4, <1>5 DEF Rewrites
<1>7. QED
  BY <1>1, <1>6 DEF o, S

(* The items of a draft: what it gives back is free for it.                  *)
LEMMA UpdateRewrites ==
  ASSUME Consistent, NEW r \in Requests, ReadIsCurrent(req[r]), update(r)
  PROVE  /\ req[r].o \in Orders /\ req[r].items \in SUBSET Vehicles
         /\ order[req[r].o] = NoOrder \/ order[req[r].o].status = "draft"
         /\ Rewrites(req[r].o, req[r].items)
<1> DEFINE o == req[r].o
           S == req[r].items
           released == [reservation EXCEPT ![o] = [w \in Vehicles |->
                          IF Claims(o, w) THEN "released" ELSE reservation[o][w]]]
           free     == [w \in Vehicles |->
                          IF w \in order[o].items /\ stock[w] = "reserved"
                          THEN "available" ELSE stock[w]]
<1>1. /\ o \in Orders /\ order[o] \in Rows /\ order[o].status = "draft"
      /\ S \in SUBSET Vehicles
      /\ order' = [order EXCEPT ![o].items = S]
  BY DEF update, Refresh, ReadIsCurrent
<1>2. Reserves(o, S, released, free)
  <2>1. req[r].op = "update" /\ req[r].old = order[o].items
    BY DEF update, Refresh, ReadIsCurrent
  <2>2. QED
    BY <2>1 DEF update, Consistent, Typed
<1> HIDE DEF o, S
<1>3. order' = [order EXCEPT ![o] = [status |-> "draft", items |-> S]]
  <2> DEFINE row == order[o]
  <2>1. row \in Rows /\ row.status = "draft" /\ order' = [order EXCEPT ![o] = [row EXCEPT !.items = S]]
    BY <1>1
  <2> HIDE DEF row
  <2>2. [row EXCEPT !.items = S] = [status |-> "draft", items |-> S]
    BY <2>1 DEF Rows
  <2>3. QED
    BY <2>1, <2>2
<1>4. \A w \in S : /\ stock[w] = "available" \/ (w \in order[o].items /\ stock[w] = "reserved")
                   /\ \A p \in Orders \ {o} : ~ Claims(p, w)
  BY <1>1, <1>2 DEF Reserves, Claims, Consistent, Typed
<1>5. reservation' = [reservation EXCEPT ![o] = [w \in Vehicles |->
        IF w \in S THEN "active" ELSE IF Claims(o, w) THEN "released" ELSE reservation[o][w]]]
  BY <1>1, <1>2 DEF Reserves, Consistent, Typed
<1>6. stock' = [w \in Vehicles |->
        IF w \in S THEN "reserved"
        ELSE IF w \in order[o].items /\ stock[w] = "reserved" THEN "available" ELSE stock[w]]
  BY <1>1, <1>2 DEF Reserves, Consistent, Typed
<1>7. Rewrites(o, S)
  BY <1>3, <1>4, <1>5, <1>6 DEF Rewrites
<1>8. QED
  BY <1>1, <1>7 DEF o, S

(* The other holders lose nothing, and what was sold is not for S.           *)
LEMMA RewriteKeeps ==
  ASSUME Consistent, NEW o \in Orders, NEW S \in SUBSET Vehicles,
         order[o] = NoOrder \/ order[o].status = "draft", Rewrites(o, S)
  PROVE  Consistent'
<1> USE DEF Consistent
<1>1. /\ order'[o] = [status |-> "draft", items |-> S]
      /\ \A p \in Orders \ {o} : order'[p] = order[p] /\ reservation'[p] = reservation[p]
      /\ \A w \in Vehicles : reservation'[o][w] =
           IF w \in S THEN "active" ELSE IF Claims(o, w) THEN "released" ELSE reservation[o][w]
      /\ \A w \in Vehicles : stock'[w] =
           IF w \in S THEN "reserved"
           ELSE IF w \in order[o].items /\ stock[w] = "reserved" THEN "available" ELSE stock[w]
  BY DEF Rewrites, Typed
<1>2. /\ \A w \in S, p \in Orders \ {o} : ~ Claims(p, w)
      /\ \A w \in S : stock[w] # "sold"
  BY DEF Rewrites
<1>3. Typed'
  <2>1. [status |-> "draft", items |-> S] \in Rows
    BY DEF Rows, Statuses
  <2>2. QED
    BY <2>1 DEF Rewrites, Typed, States
<1>4. /\ ~ Closed(o) /\ ~ Closed(o)'
      /\ \A p \in Orders : Closed(p)' <=> Closed(p)
  BY <1>1, Shapes DEF Closed
<1>5. /\ \A w \in Vehicles : Claims(o, w)' <=> w \in S
      /\ \A p \in Orders \ {o}, w \in Vehicles : Claims(p, w)' <=> Claims(p, w)
  BY <1>1 DEF Claims, IsActive
<1>6. \A w \in Vehicles : Spoiled(w)' <=> Spoiled(w)
  BY <1>1, <1>4 DEF Spoiled
<1>7. \A p \in Orders : order[p].items \subseteq Vehicles /\ order'[p].items \subseteq Vehicles
  BY <1>1, Shapes DEF Typed, Rows
<1>8. ClaimsListed'
  BY <1>1, <1>4, <1>5, Shapes DEF ClaimsListed
<1>9. OneHolder'
  BY <1>2, <1>5 DEF OneHolder
<1>10. ReservedIsClaimed'
  <2> SUFFICES ASSUME NEW w \in Vehicles, stock'[w] = "reserved", w \notin S
               PROVE  Held(w)'
    BY <1>5 DEF ReservedIsClaimed, Held
  <2>1. stock[w] = "reserved" /\ w \notin order[o].items
    BY <1>1
  <2>2. PICK p \in Orders : Claims(p, w)
    BY <2>1 DEF ReservedIsClaimed, Held
  <2>3. p # o
    BY <2>1, <2>2 DEF ClaimsListed
  <2>4. QED
    BY <2>2, <2>3, <1>5 DEF Held
<1>11. ItemsClaimed'
  BY <1>1, <1>4, <1>5, <1>7 DEF ItemsClaimed
<1>12. HeldIsNotOffered'
  <2> SUFFICES ASSUME NEW w \in Vehicles, Held(w)', ~ Lapsed(w)', w \notin S
               PROVE  stock'[w] = "reserved"
    BY <1>1 DEF HeldIsNotOffered
  <2>1. PICK p \in Orders \ {o} : Claims(p, w)
    BY <1>5 DEF Held
  <2>2. ~ Lapsed(w)
    BY <1>1 DEF Lapsed, Claims, IsActive
  <2>3. stock[w] = "reserved"
    BY <2>1, <2>2 DEF HeldIsNotOffered, Held
  <2>4. w \notin order[o].items
    BY <2>1, <2>2, <1>4 DEF ItemsClaimed, OneHolder, Lapsed
  <2>5. QED
    BY <2>3, <2>4, <1>1
<1>13. SoldAndGone'
  <2> SUFFICES ASSUME NEW q \in Orders, NEW w \in order'[q].items,
                      order'[q].status = "completed", ~ Spoiled(w)'
               PROVE  /\ stock'[w] = "sold"
                      /\ ~ Held(w)'
                      /\ \A p \in Orders \ {q} :
                           order'[p].status = "completed" => w \notin order'[p].items
    BY DEF SoldAndGone
  <2>1. w \in Vehicles /\ q # o /\ ~ Spoiled(w)
    BY <1>1, <1>6, <1>7
  <2>2. /\ stock[w] = "sold" /\ ~ Held(w)
        /\ \A p \in Orders \ {q} : order[p].status = "completed" => w \notin order[p].items
    BY <2>1, <1>1 DEF SoldAndGone
  <2>3. w \notin S
    BY <2>2, <1>2
  <2>4. QED
    BY <2>1, <2>2, <2>3, <1>1, <1>5 DEF Held
<1>14. QED
  BY <1>3, <1>8, <1>9, <1>10, <1>11, <1>12, <1>13

-----------------------------------------------------------------------------
(* A change of status, read back from what it writes.                        *)
LEMMA StatusWrites ==
  ASSUME Consistent, NEW r \in Requests, ReadIsCurrent(req[r]), updateStatus(r),
         NEW o, NEW to, o = req[r].o, to = req[r].to
  PROVE  /\ o \in Orders /\ order[o] \in Rows /\ ~ Closed(o) /\ to \in Statuses
         /\ Typed'
         /\ order'[o].status = to
         /\ \A p \in Orders : order'[p].items = order[p].items
         /\ \A p \in Orders \ {o} : order'[p] = order[p] /\ reservation'[p] = reservation[p]
         /\ \A w \in Vehicles : reservation'[o][w] =
              IF to \in {"completed", "cancelled"} /\ Claims(o, w)
              THEN IF to = "completed" THEN "consumed" ELSE "released"
              ELSE reservation[o][w]
         /\ \A w \in Vehicles : stock'[w] =
              IF to \in {"completed", "cancelled"} /\ w \in order[o].items
              THEN IF to = "completed" THEN "sold" ELSE "available"
              ELSE stock[w]
<1> DEFINE row == order[o]
<1>1. /\ o \in Orders /\ row \in Rows /\ ~ Closed(o) /\ to \in Statuses
      /\ req[r].items = order[o].items
      /\ order' = [order EXCEPT ![o] = [row EXCEPT !.status = to]]
  BY DEF updateStatus, Refresh, ReadIsCurrent, Closed
<1>2. /\ \A w \in Vehicles : reservation'[o][w] =
           IF to \in {"completed", "cancelled"} /\ Claims(o, w)
           THEN IF to = "completed" THEN "consumed" ELSE "released"
           ELSE reservation[o][w]
      /\ \A p \in Orders \ {o} : reservation'[p] = reservation[p]
      /\ reservation' \in [Orders -> [Vehicles -> States]]
  BY <1>1 DEF updateStatus, Consistent, Typed, States
<1>3. /\ \A w \in Vehicles : stock'[w] =
           IF to \in {"completed", "cancelled"} /\ w \in order[o].items
           THEN IF to = "completed" THEN "sold" ELSE "available"
           ELSE stock[w]
      /\ stock' \in [Vehicles -> {"available", "reserved", "sold"}]
  BY <1>1 DEF updateStatus, Consistent, Typed
<1> HIDE DEF row
<1>4. /\ [row EXCEPT !.status = to] \in Rows
      /\ [row EXCEPT !.status = to].status = to
      /\ [row EXCEPT !.status = to].items = row.items
  BY <1>1 DEF Rows
<1>5. /\ order' \in [Orders -> Rows \union {NoOrder}]
      /\ order'[o].status = to /\ order'[o].items = row.items
      /\ \A p \in Orders \ {o} : order'[p] = order[p]
  BY <1>1, <1>4 DEF Consistent, Typed
<1>6. QED
  BY <1>1, <1>2, <1>3, <1>5 DEF Typed, row

(* Closing o settles its own vehicles; one it no longer holds is spoiled.    *)
LEMMA StatusKeeps ==
  ASSUME Consistent, NEW r \in Requests, ReadIsCurrent(req[r]), updateStatus(r)
  PROVE  Consistent'
<1> USE DEF Consistent
<1>0. PICK o, to : o = req[r].o /\ to = req[r].to
  OBVIOUS
<1> DEFINE closing == to \in {"completed", "cancelled"}
<1>1. /\ o \in Orders /\ order[o] \in Rows /\ ~ Closed(o) /\ to \in Statuses
      /\ Typed'
      /\ order'[o].status = to
      /\ \A p \in Orders : order'[p].items = order[p].items
      /\ \A p \in Orders \ {o} : order'[p] = order[p] /\ reservation'[p] = reservation[p]
  BY <1>0, StatusWrites
<1>2. \A w \in Vehicles : reservation'[o][w] =
        IF closing /\ Claims(o, w)
        THEN IF to = "completed" THEN "consumed" ELSE "released" ELSE reservation[o][w]
  BY <1>0, StatusWrites
<1>3. \A w \in Vehicles : stock'[w] =
        IF closing /\ w \in order[o].items
        THEN IF to = "completed" THEN "sold" ELSE "available" ELSE stock[w]
  BY <1>0, StatusWrites
<1>4. \A p \in Orders : order[p].items \subseteq Vehicles
  BY Shapes DEF Typed, Rows
<1>5. /\ Closed(o)' <=> closing
      /\ \A p \in Orders \ {o} : Closed(p)' <=> Closed(p)
  BY <1>1 DEF Closed
<1>6. /\ \A w \in Vehicles : Claims(o, w)' <=> Claims(o, w) /\ ~ closing
      /\ \A p \in Orders \ {o}, w \in Vehicles : Claims(p, w)' <=> Claims(p, w)
      /\ \A w \in Vehicles : reservation'[o][w] = "expired" <=> reservation[o][w] = "expired"
  BY <1>1, <1>2 DEF Claims, IsActive
<1>7. \A w \in Vehicles : (Lapsed(w)' <=> Lapsed(w)) /\ (Spoiled(w) => Spoiled(w)')
  BY <1>1, <1>5, <1>6 DEF Lapsed, Spoiled

(* The vehicles of o are those it holds, but for what has lapsed.            *)
<1>8. \A w \in order[o].items : Claims(o, w) \/ reservation[o][w] = "expired"
  BY <1>1 DEF ItemsClaimed
<1>9. ClaimsListed' /\ OneHolder'
  <2>1. order'[o] # NoOrder /\ order[o] # NoOrder
    BY <1>1, Shapes DEF Statuses
  <2>2. QED
    BY <2>1, <1>1, <1>5, <1>6 DEF ClaimsListed, OneHolder
<1>10. ReservedIsClaimed'
  <2> SUFFICES ASSUME NEW w \in Vehicles, stock'[w] = "reserved" PROVE Held(w)'
    BY DEF ReservedIsClaimed
  <2>1. stock[w] = "reserved" /\ (closing => w \notin order[o].items)
    BY <1>3
  <2>2. PICK p \in Orders : Claims(p, w)
    BY <2>1 DEF ReservedIsClaimed, Held
  <2>3. closing => p # o
    BY <2>1, <2>2 DEF ClaimsListed
  <2>4. QED
    BY <2>2, <2>3, <1>6 DEF Held
<1>11. ItemsClaimed'
  BY <1>1, <1>4, <1>5, <1>6 DEF ItemsClaimed
<1>12. HeldIsNotOffered'
  <2> SUFFICES ASSUME NEW w \in Vehicles, Held(w)', ~ Lapsed(w)'
               PROVE  stock'[w] = "reserved"
    BY DEF HeldIsNotOffered
  <2>1. PICK p \in Orders : Claims(p, w) /\ (closing => p # o)
    BY <1>6 DEF Held
  <2>2. stock[w] = "reserved"
    BY <2>1, <1>7 DEF HeldIsNotOffered, Held
  <2>3. closing => w \notin order[o].items
    BY <2>1, <1>1, <1>7, <1>8 DEF OneHolder, Lapsed
  <2>4. QED
    BY <2>2, <2>3, <1>3
<1>13. SoldAndGone'
  <2> SUFFICES ASSUME NEW q \in Orders, NEW w \in order[q].items,
                      order'[q].status = "completed", ~ Spoiled(w)'
               PROVE  /\ stock'[w] = "sold"
                      /\ ~ Held(w)'
                      /\ \A p \in Orders \ {q} :
                           order'[p].status = "completed" => w \notin order[p].items
    BY <1>1 DEF SoldAndGone
  <2>1. w \in Vehicles /\ ~ Spoiled(w)
    BY <1>4, <1>7
  <2>2. closing /\ w \in order[o].items => Claims(o, w)
    BY <2>1, <1>1, <1>5, <1>6, <1>8 DEF Spoiled
  <2>3. ASSUME NEW p \in Orders, p # o, order[p].status = "completed", w \in order[p].items
        PROVE  /\ stock[w] = "sold" /\ ~ Held(w)
               /\ \A x \in Orders \ {p} : order[x].status = "completed" => w \notin order[x].items
    BY <2>1, <2>3 DEF SoldAndGone
  <2>4. CASE q = o
    <3>1. closing /\ to = "completed" /\ Claims(o, w)
      BY <2>2, <2>4, <1>1
    <3>2. ~ Held(w)'
      BY <3>1, <2>1, <1>1, <1>6 DEF Held, OneHolder
    <3>3. \A p \in Orders \ {q} : order'[p].status = "completed" => w \notin order[p].items
      BY <3>1, <2>3, <2>4, <1>1 DEF Held
    <3>4. QED
      BY <3>1, <3>2, <3>3, <2>1, <2>4, <1>3
  <2>5. CASE q # o
    <3>1. /\ stock[w] = "sold" /\ ~ Held(w)
          /\ \A x \in Orders \ {q} : order[x].status = "completed" => w \notin order[x].items
      BY <2>3, <2>5, <1>1
    <3>2. closing => w \notin order[o].items
      BY <2>2, <3>1, <1>1 DEF Held
    <3>3. ~ Held(w)'
      BY <3>1, <2>1, <1>6 DEF Held
    <3>4. QED
      BY <3>1, <3>2, <3>3, <2>1, <1>1, <1>3
  <2>6. QED
    BY <2>4, <2>5
<1>14. QED
  BY <1>1, <1>9, <1>10, <1>11, <1>12, <1>13

-----------------------------------------------------------------------------
(* With one request at a time nothing changes between its reading and its    *)
(* writing but what expires.                                                 *)
LEMMA StepFresh ==
  ASSUME OneAtATime, Serial, [Next]_vars
  PROVE  Fresh'
<1>0. /\ DOMAIN req = Requests
      /\ \A r \in Requests : ReadIsCurrent(req[r])
  BY DEF Serial, Fresh
<1>1. ASSUME NEW r \in Requests, NEW context, req' = [req EXCEPT ![r] = context],
             ReadIsCurrent(context)'
      PROVE  Fresh'
  <2>1. \A s \in Requests : s = r
    BY DEF OneAtATime
  <2>2. DOMAIN req' = Requests /\ req'[r] = context
    BY <1>0, <1>1
  <2>3. QED
    BY <2>1, <2>2, <1>1 DEF Fresh, ReadIsCurrent
<1>2. CASE req' = req /\ order' = order
  BY <1>0, <1>2 DEF Fresh, ReadIsCurrent
<1>3. ASSUME NEW r \in Requests,
             create(r) \/ update(r) \/ updateStatus(r) \/ findOne(r) \/ Abort(r)
      PROVE  Fresh'
  <2>1. PICK context \in {Idle, [op |-> "refresh"]} : req' = [req EXCEPT ![r] = context]
    BY <1>3 DEF create, update, updateStatus, findOne, Abort, Refresh
  <2>2. context.op \in {"idle", "refresh"}
    BY <2>1 DEF Idle
  <2>3. QED
    BY <1>1, <2>1, <2>2 DEF ReadIsCurrent
<1>4. ASSUME NEW r \in Requests, NEW o \in Orders, NEW S \in SUBSET Vehicles, ReadCreate(r, o, S)
      PROVE  Fresh'
  <2> DEFINE context == [op |-> "create", o |-> o, items |-> S]
  <2>1. order' = order /\ order[o] = NoOrder /\ req' = [req EXCEPT ![r] = context]
    BY <1>4 DEF ReadCreate, Start
  <2>2. ReadIsCurrent(context)'
    BY <2>1 DEF ReadIsCurrent
  <2> HIDE DEF context
  <2>3. QED
    BY <1>1, <2>1, <2>2
<1>5. ASSUME NEW r \in Requests, NEW o \in Orders, NEW S \in SUBSET Vehicles, ReadUpdate(r, o, S)
      PROVE  Fresh'
  <2>1. PICK old : old = order[o].items
    OBVIOUS
  <2> DEFINE context == [op |-> "update", o |-> o, items |-> S, old |-> old]
  <2>2. order' = order /\ order[o].status = "draft" /\ req' = [req EXCEPT ![r] = context]
    BY <1>5, <2>1 DEF ReadUpdate, Start
  <2>3. order[o] \in Rows
    BY <2>2, Shapes DEF Serial, Consistent, Typed
  <2>4. ReadIsCurrent(context)'
    BY <2>1, <2>2, <2>3 DEF ReadIsCurrent
  <2> HIDE DEF context
  <2>5. QED
    BY <1>1, <2>2, <2>4
<1>6. ASSUME NEW r \in Requests, NEW o \in Orders, NEW to \in DOMAIN validTransitions,
             ReadStatus(r, o, to)
      PROVE  Fresh'
  <2>1. PICK items : items = order[o].items
    OBVIOUS
  <2> DEFINE context == [op |-> "status", o |-> o, to |-> to, items |-> items]
  <2>2. /\ order' = order /\ order[o] # NoOrder /\ to \in validTransitions[order[o].status]
        /\ req' = [req EXCEPT ![r] = context]
    BY <1>6, <2>1 DEF ReadStatus, Start
  <2>3. order[o] \in Rows /\ to \in Statuses /\ order[o].status \notin {"completed", "cancelled"}
    BY <2>2, Shapes DEF Serial, Consistent, Typed
  <2>4. ReadIsCurrent(context)'
    BY <2>1, <2>2, <2>3 DEF ReadIsCurrent
  <2> HIDE DEF context
  <2>5. QED
    BY <1>1, <2>2, <2>4
<1>7. QED
  BY <1>2, <1>3, <1>4, <1>5, <1>6 DEF Next, vars, findAll, Lapse

(* Every step is an expiry, a lapse, a rewriting, a change of status or none.*)
LEMMA StepConsistent ==
  ASSUME Serial, [Next]_vars
  PROVE  Consistent'
<1>0. Consistent /\ \A r \in Requests : ReadIsCurrent(req[r])
  BY DEF Serial, Fresh
<1>1. CASE expireReservations /\ order' = order
  BY <1>0, <1>1, ExpireKeeps
<1>2. CASE UNCHANGED << order, reservation, stock >>
  BY <1>0, <1>2 DEF Consistent, Typed, ClaimsListed, OneHolder, ReservedIsClaimed, ItemsClaimed,
                    HeldIsNotOffered, SoldAndGone, Claims, Held, Closed, Lapsed, Spoiled
<1>3. ASSUME NEW o \in Orders, NEW v \in Vehicles, Lapse(o, v) PROVE Consistent'
  BY <1>0, <1>3, LapseKeeps
<1>4. ASSUME NEW r \in Requests, create(r) \/ update(r) PROVE Consistent'
  <2>1. PICK o, S : o = req[r].o /\ S = req[r].items
    OBVIOUS
  <2>2. /\ o \in Orders /\ S \in SUBSET Vehicles
        /\ order[o] = NoOrder \/ order[o].status = "draft"
        /\ Rewrites(o, S)
    BY <1>0, <1>4, <2>1, CreateRewrites, UpdateRewrites
  <2>3. QED
    BY <1>0, <2>2, RewriteKeeps
<1>5. ASSUME NEW r \in Requests, updateStatus(r) PROVE Consistent'
  BY <1>0, <1>5, StatusKeeps
<1>6. QED
  BY <1>1, <1>2, <1>3, <1>4, <1>5
  DEF Next, vars, findAll, findOne, Abort, ReadCreate, ReadUpdate, ReadStatus

(* What the invariant gives. *)
LEMMA ConsistentGives == Consistent => TypeOK /\ ReservedIsHeld /\ HeldIsNotOffered /\ SoldOnce
<1> SUFFICES ASSUME Consistent PROVE TypeOK /\ ReservedIsHeld /\ HeldIsNotOffered /\ SoldOnce
  OBVIOUS
<1>1. TypeOK
  BY Shapes DEF Consistent, Typed, Rows, States, TypeOK
<1>2. ReservedIsHeld /\ HeldIsNotOffered
  BY DEF Consistent, ReservedIsClaimed, Held, ClaimsListed, ReservedIsHeld
<1>3. ASSUME NEW o \in Orders, NEW v \in order[o].items,
             order[o].status = "completed", ~ Lapsed(v)
      PROVE  /\ stock[v] = "sold"
             /\ \A p \in Orders \ {o} :
                  order[p].status = "completed" => v \notin order[p].items
  <2>1. ~ Spoiled(v)
    BY <1>3 DEF Lapsed, Spoiled
  <2> QED BY <1>3, <2>1 DEF Consistent, SoldAndGone
<1> QED BY <1>1, <1>2, <1>3 DEF SoldOnce

(* Any number of requests: as long as none writes on an order that moved     *)
(* since it was read, no vehicle is stranded, offered while it is held, or   *)
(* sold twice, until a reservation of it lapses.                             *)
THEOREM SellingUnlessStale ==
  Spec /\ []Fresh => [](TypeOK /\ ReservedIsHeld /\ HeldIsNotOffered /\ SoldOnce)
  <1>1. Init => Consistent
    BY InitSerial DEF Serial
  <1>2. Consistent /\ Fresh /\ [Next]_vars => Consistent'
    BY StepConsistent DEF Serial
  <1> QED BY <1>1, <1>2, ConsistentGives, PTL DEF Spec

-----------------------------------------------------------------------------
(* What a request writes by, however old it is: an order that it has read    *)
(* is still there.                                                           *)
Names(context) ==
  /\ context.op \in {"create", "update", "status"} =>
       context.o \in Orders /\ context.items \in SUBSET Vehicles
  /\ context.op \in {"update", "status"} => order[context.o] \in Rows
  /\ context.op = "status" => context.to \in Statuses

Named == Typed /\ DOMAIN req = Requests /\ \A r \in Requests : Names(req[r])

LEMMA ExpireTyped ==
  ASSUME Typed, expireReservations, order' \in [Orders -> Rows \union {NoOrder}]
  PROVE  Typed'
BY DEF Typed, expireReservations, States

LEMMA ReservesTyped ==
  ASSUME Typed, NEW o \in Orders, NEW S, NEW claims, NEW free, Reserves(o, S, claims, free),
         claims \in [Orders -> [Vehicles -> States]],
         free \in [Vehicles -> {"available", "reserved", "sold"}],
         order' \in [Orders -> Rows \union {NoOrder}]
  PROVE  Typed'
BY DEF Typed, Reserves, States

LEMMA StepTyped ==
  ASSUME Named, [Next]_vars
  PROVE  Typed' /\ \A o \in Orders : order[o] \in Rows => order'[o] \in Rows
<1>0. Typed /\ \A r \in Requests : Names(req[r])
  BY DEF Named
<1>1. CASE UNCHANGED order /\ expireReservations
  BY <1>0, <1>1, ExpireTyped DEF Typed
<1>2. CASE UNCHANGED << order, reservation, stock >>
  BY <1>0, <1>2 DEF Typed
<1>3. ASSUME NEW o \in Orders, NEW v \in Vehicles, Lapse(o, v)
      PROVE  Typed' /\ UNCHANGED order
  BY <1>0, <1>3 DEF Lapse, Typed, States
<1>4. ASSUME NEW r \in Requests, create(r)
      PROVE  Typed' /\ \A o \in Orders : order[o] \in Rows => order'[o] \in Rows
  <2>1. PICK o, S, row : /\ o = req[r].o /\ S = req[r].items
                         /\ row = [status |-> "draft", items |-> S]
    OBVIOUS
  <2>2. o \in Orders /\ S \in SUBSET Vehicles
    BY <1>0, <1>4, <2>1 DEF create, Refresh, Names
  <2>3. row \in Rows
    BY <2>1, <2>2 DEF Rows, Statuses
  <2>4. order' = [order EXCEPT ![o] = row] /\ Reserves(o, S, reservation, stock)
    BY <1>4, <2>1 DEF create
  <2>5. /\ order' \in [Orders -> Rows \union {NoOrder}]
        /\ \A p \in Orders : order[p] \in Rows => order'[p] \in Rows
    BY <1>0, <2>2, <2>3, <2>4 DEF Typed
  <2> QED BY <1>0, <2>2, <2>4, <2>5, ReservesTyped DEF Typed
<1>5. ASSUME NEW r \in Requests, update(r)
      PROVE  Typed' /\ \A o \in Orders : order[o] \in Rows => order'[o] \in Rows
  <2>1. PICK o, S, row, released, free :
          /\ o = req[r].o /\ S = req[r].items /\ row = [order[o] EXCEPT !.items = S]
          /\ released = [reservation EXCEPT ![o] = [v \in Vehicles |->
                IF Claims(o, v) THEN "released" ELSE reservation[o][v]]]
          /\ free = [v \in Vehicles |->
                IF v \in req[r].old /\ stock[v] = "reserved" THEN "available" ELSE stock[v]]
    OBVIOUS
  <2>2. o \in Orders /\ S \in SUBSET Vehicles /\ order[o] \in Rows
    BY <1>0, <1>5, <2>1 DEF update, Refresh, Names
  <2>3. row \in Rows
    BY <2>1, <2>2 DEF Rows
  <2>4. order' = [order EXCEPT ![o] = row] /\ Reserves(o, S, released, free)
    BY <1>0, <1>5, <2>1, <2>2 DEF update, Typed
  <2>5. /\ order' \in [Orders -> Rows \union {NoOrder}]
        /\ \A p \in Orders : order[p] \in Rows => order'[p] \in Rows
    BY <1>0, <2>2, <2>3, <2>4 DEF Typed
  <2>6. /\ released \in [Orders -> [Vehicles -> States]]
        /\ free \in [Vehicles -> {"available", "reserved", "sold"}]
    BY <1>0, <2>1, <2>2 DEF Typed, States
  <2> QED BY <1>0, <2>2, <2>4, <2>5, <2>6, ReservesTyped
<1>6. ASSUME NEW r \in Requests, updateStatus(r)
      PROVE  Typed' /\ \A o \in Orders : order[o] \in Rows => order'[o] \in Rows
  <2>1. PICK o, to, row : /\ o = req[r].o /\ to = req[r].to
                          /\ row = [order[o] EXCEPT !.status = to]
    OBVIOUS
  <2>2. o \in Orders /\ to \in Statuses /\ order[o] \in Rows
    BY <1>0, <1>6, <2>1 DEF updateStatus, Refresh, Names
  <2>3. row \in Rows
    BY <2>1, <2>2 DEF Rows
  <2>4. order' = [order EXCEPT ![o] = row]
    BY <1>0, <1>6, <2>1, <2>2 DEF updateStatus, Typed
  <2>5. /\ order' \in [Orders -> Rows \union {NoOrder}]
        /\ \A p \in Orders : order[p] \in Rows => order'[p] \in Rows
    BY <1>0, <2>2, <2>3, <2>4 DEF Typed
  <2>6. /\ reservation' \in [Orders -> [Vehicles -> States]]
        /\ stock' \in [Vehicles -> {"available", "reserved", "sold"}]
    BY <1>0, <1>6, <2>1, <2>2 DEF updateStatus, Typed, States
  <2> QED BY <2>5, <2>6 DEF Typed
<1> QED
  BY <1>1, <1>2, <1>3, <1>4, <1>5, <1>6
  DEF Next, vars, findAll, findOne, Abort, ReadCreate, ReadUpdate, ReadStatus

LEMMA StepNamed ==
  ASSUME Named, [Next]_vars
  PROVE  Named'
<1>0. /\ Typed /\ DOMAIN req = Requests /\ \A r \in Requests : Names(req[r])
      /\ Typed' /\ \A o \in Orders : order[o] \in Rows => order'[o] \in Rows
  BY StepTyped DEF Named
<1>1. ASSUME NEW context, Names(context) PROVE Names(context)'
  BY <1>0, <1>1 DEF Names
<1>2. ASSUME NEW r \in Requests, NEW context, req' = [req EXCEPT ![r] = context],
             Names(context)
      PROVE  Named'
  <2>1. ASSUME NEW q \in Requests PROVE Names(req[q])'
    <3>1. PICK c : c = req'[q]
      OBVIOUS
    <3>2. Names(c)
      BY <1>0, <1>2, <3>1
    <3>3. Names(c)'
      BY <1>1, <3>2
    <3> QED BY <3>1, <3>3 DEF Names
  <2> QED BY <1>0, <1>2, <2>1 DEF Named
<1>3. CASE UNCHANGED req
  <2>1. ASSUME NEW q \in Requests PROVE Names(req[q])'
    BY <1>0, <1>3 DEF Names
  <2> QED BY <1>0, <1>3, <2>1 DEF Named
<1>4. ASSUME NEW r \in Requests,
             create(r) \/ update(r) \/ updateStatus(r) \/ findOne(r) \/ Abort(r)
      PROVE  Named'
  <2>1. PICK context \in {Idle, [op |-> "refresh"]} : req' = [req EXCEPT ![r] = context]
    BY <1>4 DEF create, update, updateStatus, findOne, Abort, Refresh
  <2>2. context.op \in {"idle", "refresh"}
    BY <2>1 DEF Idle
  <2>3. Names(context)
    BY <2>2 DEF Names
  <2> QED BY <1>2, <2>1, <2>3
<1>5. ASSUME NEW r \in Requests, NEW o \in Orders, NEW S \in SUBSET Vehicles, ReadCreate(r, o, S)
      PROVE  Named'
  <2>1. Names([op |-> "create", o |-> o, items |-> S])
    BY DEF Names
  <2> QED BY <1>2, <1>5, <2>1 DEF ReadCreate, Start
<1>6. ASSUME NEW r \in Requests, NEW o \in Orders, NEW S \in SUBSET Vehicles, ReadUpdate(r, o, S)
      PROVE  Named'
  <2>1. order[o] \in Rows
    BY <1>0, <1>6, Shapes DEF ReadUpdate, Typed
  <2>2. Names([op |-> "update", o |-> o, items |-> S, old |-> order[o].items])
    BY <2>1 DEF Names
  <2> QED BY <1>2, <1>6, <2>2 DEF ReadUpdate, Start
<1>7. ASSUME NEW r \in Requests, NEW o \in Orders, NEW to \in DOMAIN validTransitions,
             ReadStatus(r, o, to)
      PROVE  Named'
  <2>1. order[o] \in Rows /\ order[o].items \in SUBSET Vehicles /\ to \in Statuses
    BY <1>0, <1>7, Shapes DEF ReadStatus, Typed, Rows
  <2>2. Names([op |-> "status", o |-> o, to |-> to, items |-> order[o].items])
    BY <2>1 DEF Names
  <2> QED BY <1>2, <1>7, <2>2 DEF ReadStatus, Start
<1> QED
  BY <1>3, <1>4, <1>5, <1>6, <1>7 DEF Next, vars, findAll, Lapse

(* However many requests interleave, the rows keep their types: none of      *)
(* expiry, edits and closings leaves a status outside the tables, or writes  *)
(* to an order that is not there.                                            *)
THEOREM Typing == Spec => []TypeOK
<1>1. Init => Named
  BY InitSerial DEF Init, Serial, Consistent, Named, Names, Idle
<1>2. Named => TypeOK
  BY Shapes DEF Named, Typed, Rows, States, TypeOK
<1> QED BY <1>1, <1>2, StepNamed, PTL DEF Spec

-----------------------------------------------------------------------------
(* The invariant, of every behaviour whose requests are served in turn.      *)
LEMMA AlwaysSerial ==
  ASSUME OneAtATime
  PROVE  Spec => []Serial
  <1>1. Serial /\ [Next]_vars => Serial'
    BY OneAtATime, StepFresh, StepConsistent DEF Serial
  <1> QED BY <1>1, InitSerial, PTL DEF Spec

LEMMA SerialGives == Serial => TypeOK /\ ReservedIsHeld /\ HeldIsNotOffered /\ SoldOnce
  BY ConsistentGives DEF Serial

(* No vehicle is stranded: whatever is reserved belongs to a running order,  *)
(* which will give it back.                                                  *)
THEOREM NoneStranded ==
  ASSUME OneAtATime
  PROVE  Spec => []ReservedIsHeld
  BY AlwaysSerial, SerialGives, PTL

(* What an order has reserved stays reserved, through every expiry, edit and *)
(* closing of the other orders, until a reservation of the vehicle lapses.   *)
THEOREM NotOffered ==
  ASSUME OneAtATime
  PROVE  Spec => []HeldIsNotOffered
  BY AlwaysSerial, SerialGives, PTL

(* A vehicle of a completed order stays sold, and to that order alone.       *)
THEOREM Selling ==
  ASSUME OneAtATime
  PROVE  Spec => []SoldOnce
  BY AlwaysSerial, SerialGives, PTL
=============================================================================
