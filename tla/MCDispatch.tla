----------------------------- MODULE MCDispatch -----------------------------
(* Small instances of Dispatch for TLC. *)
EXTENDS Dispatch, TLC

CONSTANTS c1, c2, alex, ross

(* A fan-out that names an employee twice and a blank, and a mention. *)
FanoutAndMention == c1 :> <<alex, Blank, ross, alex>> @@ c2 :> <<ross>>
==============================================================================
