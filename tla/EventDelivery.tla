---------------------------- MODULE EventDelivery ----------------------------
(***************************************************************************)
(* What a webhook inbox promises for the events a provider sends until     *)
(* they are answered: each event is taken at most once, has an effect at   *)
(* most once and only after it was taken, and every event is taken and     *)
(* answered in the end.  It does not promise the effect: the process that  *)
(* took the event may die.                                                 *)
(***************************************************************************)
CONSTANT Events

VARIABLES taken, applied, answered

delivery == << taken, applied, answered >>

Init ==
  /\ taken = {}
  /\ applied = {}
  /\ answered = {}

Take(e) ==
  /\ e \notin taken
  /\ taken' = taken \union {e}
  /\ UNCHANGED << applied, answered >>

Apply(e) ==
  /\ e \in taken \ applied
  /\ applied' = applied \union {e}
  /\ UNCHANGED << taken, answered >>

Answer(e) ==
  /\ e \in taken \ answered
  /\ answered' = answered \union {e}
  /\ UNCHANGED << taken, applied >>

Next == \E e \in Events : Take(e) \/ Apply(e) \/ Answer(e)

Spec ==
  /\ Init
  /\ [][Next]_delivery
  /\ \A e \in Events : WF_delivery(Take(e)) /\ WF_delivery(Answer(e))
=============================================================================
