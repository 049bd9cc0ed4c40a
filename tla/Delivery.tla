------------------------------ MODULE Delivery ------------------------------
(***************************************************************************)
(* What dispatch.Decision promises the handler that calls it, without the  *)
(* connection, the stream and the retries: a call returns nothing, or the  *)
(* answers for its distinct employees in the order it names them.          *)
(* Publishing is at least once: an employee whose answer is a failure may  *)
(* still be sent the message, even after the call has returned.            *)
(***************************************************************************)
EXTENDS Integers, Sequences, FiniteSets

CONSTANTS
    Calls,              \* calls of Decision
    Employee,           \* employee keys
    Blank,              \* a name that trims to ""
    EmployeesOf,        \* Decision.Employees of each call
    Modes               \* the configurations to start from

VARIABLES
    mode,        \* DispatchEnabled and NatsURL, fixed at start
    outcome,     \* how each call stands
    results,     \* its answers so far
    sent         \* <<call, employee>>: in the stream at least once

vars == <<mode, outcome, results, sent>>

Outcomes == {"open", "skipped", "failed", "answered"}

Answered(c) == {results[c][i].employee : i \in 1..Len(results[c])}

Targets(c) == {EmployeesOf[c][i] : i \in 1..Len(EmployeesOf[c])} \ {Blank}

(* Nothing to publish: dispatch is disabled, has no URL or no employees. *)
Silent(c) == mode # "enabled" \/ EmployeesOf[c] = <<>>

(* The first employee named that has no answer yet. *)
IsNext(c, e) ==
    \E i \in 1..Len(EmployeesOf[c]) :
        /\ EmployeesOf[c][i] = e
        /\ e \in Targets(c) \ Answered(c)
        /\ \A j \in 1..(i - 1) : EmployeesOf[c][j] \in Answered(c) \cup {Blank}

Init ==
    /\ mode \in Modes
    /\ outcome = [c \in Calls |-> "open"]
    /\ results = [c \in Calls |-> <<>>]
    /\ sent = {}

(* A publish whose answer was, or will be, a failure is stored. *)
IsSent(c, e) ==
    /\ outcome[c] \in {"open", "answered"} /\ ~Silent(c)
    /\ e \in Answered(c) \/ IsNext(c, e)
    /\ sent' = sent \cup {<<c, e>>}
    /\ UNCHANGED <<mode, outcome, results>>

(* OK is said only of what is stored. *)
Answers(c, e, ok) ==
    /\ outcome[c] = "open" /\ ~Silent(c)
    /\ IsNext(c, e)
    /\ results' = [results EXCEPT ![c] = Append(@, [employee |-> e, ok |-> ok])]
    /\ sent' = IF ok THEN sent \cup {<<c, e>>} ELSE sent
    /\ UNCHANGED <<mode, outcome>>

Returns(c, how) ==
    /\ outcome[c] = "open"
    /\ CASE how = "skipped"  -> Silent(c)
         [] how = "failed"   -> ~Silent(c) /\ results[c] = <<>>
                                /\ \A e \in Targets(c) : <<c, e>> \notin sent
         [] how = "answered" -> ~Silent(c) /\ Answered(c) = Targets(c)
    /\ outcome' = [outcome EXCEPT ![c] = how]
    /\ UNCHANGED <<mode, results, sent>>

Call(c) ==
    \/ \E e \in Employee, ok \in BOOLEAN : Answers(c, e, ok)
    \/ \E how \in Outcomes \ {"open"} : Returns(c, how)

Arrives == \E c \in Calls, e \in Employee : IsSent(c, e)

Next == Arrives \/ \E c \in Calls : Call(c)

Spec == Init /\ [][Next]_vars
==============================================================================
