------------------------------ MODULE CashBook ------------------------------
(***************************************************************************)
(* What finance promises about a movement of money, without rows, requests *)
(* or invoices: it is expected, then collected once or dropped, and what   *)
(* was collected can be returned once.                                     *)
(***************************************************************************)
CONSTANT Movements

VARIABLE stage   \* where each movement stands

Move(m, from, to) ==
  /\ stage[m] = from
  /\ stage' = [stage EXCEPT ![m] = to]

Collect(m) == Move(m, "expected", "held")
Drop(m)    == Move(m, "expected", "dropped")
Return(m)  == Move(m, "held", "returned")

Init == stage = [m \in Movements |-> "expected"]
Next == \E m \in Movements : Collect(m) \/ Drop(m) \/ Return(m)

Spec == Init /\ [][Next]_stage
=============================================================================
