---------------------------- MODULE MCEvaluator ----------------------------
(* Three routes, of which one shares a pool with each of the others and has *)
(* an anchor whose smallest unit is ten wei.                                *)
EXTENDS Evaluator, TLC

CONSTANTS p1, p2, p3, p4

SomePools == {p1, p2, p3, p4}
SomeKinds == (p1 :> "v2") @@ (p2 :> "v3") @@ (p3 :> "v4") @@ (p4 :> "stable")
Overlapping == {{p1, p2}, {p2, p3}, {p3, p4}}
Anchored == [r \in Overlapping |-> IF r = {p2, p3} THEN "USDG" ELSE "WETH"]
Rates == [WETH |-> [num |-> 1, den |-> 1], USDG |-> [num |-> 10, den |-> 1]]
LeastProfits == [WETH |-> 20, USDG |-> 2]
SomeChanges == {{p1}, {p2, p3}}
\* At the edge of the gate at one base fee or another.
SomeProfits == [WETH |-> {520}, USDG |-> {76}]
Tip == [share |-> 1, of |-> 10, min |-> 0, max |-> 2]
TenPercent == [num |-> 11, den |-> 10]

=============================================================================
