---------------------------- MODULE MCDecisionLog ----------------------------
(* Small instances of DecisionLog for TLC: the code's bounds scaled down,   *)
(* in the same order.                                                       *)
EXTENDS DecisionLog, TLC

CONSTANTS c1, c2, c3, alex, ross

(* A fan-out, a decision without employees, and the decision an empty       *)
(* roster leads to: one employee, with the empty key.                       *)
SomeDecisions == c1 :> <<alex, ross>> @@ c2 :> <<>> @@ c3 :> <<Blank>>

MCConfiguredMax == {-1, 2, 3, 9}
MCQueries == {-1, 0, 1, 2, 9}
==============================================================================
