------------------------------- MODULE HandOff -------------------------------
(***************************************************************************)
(* What the Events API queue between the Socket Mode loop and the worker   *)
(* pool promises, without its goroutines: within one life of the process   *)
(* items are accepted one at a time, each at most once, and are taken by   *)
(* the workers in exactly the order they were accepted; an item is never   *)
(* taken twice and never skipped; at most Capacity of them wait.  The      *)
(* buffer is memory, so the end of the process forgets both ends.          *)
(***************************************************************************)
EXTENDS Naturals, Sequences

CONSTANTS Item,       \* what is handed off
          Capacity    \* how many items may wait

VARIABLES accepted,   \* everything accepted in this life, in order
          taken       \* everything taken in this life, in order

vars == <<accepted, taken>>

Waiting == Len(accepted) - Len(taken)

Init == accepted = <<>> /\ taken = <<>>

Accept(item) ==
    /\ Waiting < Capacity
    /\ \A i \in 1..Len(accepted) : accepted[i] # item
    /\ accepted' = Append(accepted, item)
    /\ UNCHANGED taken

Take ==
    /\ Waiting > 0
    /\ taken' = Append(taken, accepted[Len(taken) + 1])
    /\ UNCHANGED accepted

Forget ==
    /\ accepted' = <<>>
    /\ taken' = <<>>

Next == (\E item \in Item : Accept(item)) \/ Take \/ Forget

Spec == Init /\ [][Next]_vars

(* Somebody takes what waits, unless the process ends first. *)
FairSpec == Spec /\ WF_vars(Take)
==============================================================================
