----------------------------- MODULE MCCallInbox -----------------------------
(* Small instances of CallInbox. *)
EXTENDS CallInbox

CONSTANTS ringing, unanswered, text, again, c1, mc, m1, a1, d1, d2, r1, r2

RingingAndUnanswered == {ringing, unanswered}
TextTwice == {text, again}
OneCall == {c1}
OneManualCall == {mc}
OneMessage == {m1}
OneAgent == {a1}
OneDelivery == {d1}
TwoDeliveries == {d1, d2}
OneRequest == {r1}
TwoRequests == {r1, r2}
None == {}

AboutOf(e) == IF e \in {text, again} THEN m1 ELSE c1
SaysOf(e) == IF e = ringing THEN "RINGING" ELSE "MISSED"
=============================================================================
