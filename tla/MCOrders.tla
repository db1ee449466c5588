------------------------------ MODULE MCOrders ------------------------------
(* A small instance of Orders. *)
EXTENDS Orders, TLC

CONSTANTS o1, o2, o3, v1, v2, r1

ThreeOrders == {o1, o2, o3}
TwoVehicles == {v1, v2}
OneRequest == {r1}

Symmetry == Permutations(ThreeOrders) \union Permutations(TwoVehicles)
=============================================================================
