----------------------------- MODULE DecisionLog -----------------------------
(***************************************************************************)
(* internal/decisionlog/decisionlog.go and the end of emitDecision         *)
(* (internal/slackrun/handler.go): concurrent workers publish a decision   *)
(* and append what became of it to one bounded log, whose newest entries   *)
(* GET /debug/decisions shows.  Publishing is Delivery, which Dispatch     *)
(* implements.  Append and Snapshot hold the log's mutex and touch nothing *)
(* else, so each is one step.  "Oldest" and "newest" are in the order of   *)
(* the appends: an entry's time, its text and its ids are left out.        *)
(***************************************************************************)
EXTENDS Integers, Sequences, FiniteSetsExt, SequencesExt

CONSTANTS
    Calls, Employee, Blank, EmployeesOf, Modes,  \* see Delivery
    ConfiguredMax,                       \* values of cfg.DecisionLogMax
    SmallestMax, DefaultMax, LargestMax, \* 10, 500 and 5000 in the code
    DefaultLimit, LargestLimit,          \* 100 and 500 in the code
    Queries,                             \* ?limit=, 0 when absent or no number
    DebugToken, DebugAllowAnon           \* whether they are set

VARIABLES
    mode, outcome, results, sent,   \* see Delivery
    max,        \* Store.max
    entries,    \* Store.entries
    response,   \* the last response of /debug/decisions
    history     \* every call that appended an entry, in order

logVars == <<max, entries, history>>
vars == <<mode, outcome, results, sent, logVars, response>>

D == INSTANCE Delivery

ASSUME LogAssumption ==
    /\ LargestMax \in Nat
    /\ DefaultMax \in 1..LargestMax /\ SmallestMax \in 1..DefaultMax
    /\ DefaultLimit \in 1..LargestLimit /\ LargestLimit \in Nat
    /\ ConfiguredMax \subseteq Int /\ Queries \subseteq Int
    /\ DebugToken \in BOOLEAN /\ DebugAllowAnon \in BOOLEAN

------------------------------------------------------------------------------
(* Fault: any positive bound is kept. *)
UncutMax(n) == IF n < 1 THEN DefaultMax ELSE n

(* New: too small a bound is taken for none, too large a one is cut. *)
ClampedMax(n) ==
    CASE n < SmallestMax -> DefaultMax
      [] n > LargestMax  -> LargestMax
      [] OTHER           -> n

(* Fault: the slice is taken from its older end. *)
Oldest(s, n) == SubSeq(s, 1, n)

Newest(s, n) == SubSeq(s, Len(s) - n + 1, Len(s))

(* dispatchNote looks at the configuration and the decision, and not at    *)
(* what became of publishing it.                                           *)
DispatchNote(c) ==
    IF mode = "disabled" THEN "dispatch_disabled"
    ELSE IF mode = "no_url" THEN "no_nats_url"
    ELSE IF EmployeesOf[c] = <<>> THEN "no_employees"
    ELSE ""

Snapshot(limit) ==
    IF limit <= 0 THEN <<>>
    ELSE Newest(entries, Min({limit, Len(entries), max}))

LimitOf(query) == IF query \in 1..LargestLimit THEN query ELSE DefaultLimit

(* What HTTPHandler answers before it looks at the log. *)
Status(method, bearer) ==
    IF method # "GET" THEN 405
    ELSE IF DebugAllowAnon THEN 200
    ELSE IF ~DebugToken THEN 503
    ELSE IF bearer # "token" THEN 401
    ELSE 200

Response(limit) ==
    [status |-> 200, limit |-> limit, seen |-> Len(history),
     shown |-> Snapshot(limit)]

Refusal(status) == [status |-> status, limit |-> 0, seen |-> 0, shown |-> <<>>]

Init ==
    /\ D!Init
    /\ max \in {ClampedMax(n) : n \in ConfiguredMax}
    /\ entries = <<>> /\ history = <<>>
    /\ response = Refusal(0)

Publishes ==
    /\ D!Next
    /\ UNCHANGED <<logVars, response>>

(* Fault: OK is taken for granted where there is no result. *)
AssumedEntry(c) ==
    [call |-> c, note |-> DispatchNote(c),
     results |-> IF results[c] # <<>> \/ D!Silent(c) THEN results[c]
                 ELSE SetToSeq([employee : D!Targets(c), ok : {TRUE}])]

EntryOf(c) ==
    [call |-> c, note |-> DispatchNote(c), results |-> results[c]]

(* Fault: only a decision with results is logged. *)
AppendsResults(c) ==
    /\ outcome[c] # "open" /\ c \notin ToSet(history) /\ results[c] # <<>>
    /\ LET s == Append(entries, EntryOf(c))
       IN entries' = Newest(s, Min({Len(s), max}))
    /\ history' = Append(history, c)
    /\ UNCHANGED <<mode, outcome, results, sent, max, response>>

Appends(c) ==
    /\ outcome[c] # "open" /\ c \notin ToSet(history)
    /\ LET s == Append(entries, EntryOf(c))
       IN entries' = Newest(s, Min({Len(s), max}))
    /\ history' = Append(history, c)
    /\ UNCHANGED <<mode, outcome, results, sent, max, response>>

Refuses(method, bearer) ==
    /\ Status(method, bearer) # 200
    /\ response' = Refusal(Status(method, bearer))
    /\ UNCHANGED <<mode, outcome, results, sent, logVars>>

Shows(method, bearer, query) ==
    /\ Status(method, bearer) = 200
    /\ response' = Response(LimitOf(query))
    /\ UNCHANGED <<mode, outcome, results, sent, logVars>>

Reader ==
    \E method \in {"GET", "POST"}, bearer \in {"", "token"} :
        \/ Refuses(method, bearer)
        \/ \E query \in Queries : Shows(method, bearer, query)

Next == Publishes \/ Reader \/ \E c \in Calls : Appends(c)

Spec == Init /\ [][Next]_vars

(* A worker runs on, and Decision returns in its own time (CallsReturn of  *)
(* Dispatch).                                                              *)
FairSpec ==
    /\ Spec
    /\ \A c \in Calls : WF_vars(Appends(c)) /\ WF_vars(D!Call(c) /\ Publishes)

------------------------------------------------------------------------------
Results == Seq([employee : Employee, ok : BOOLEAN])

Entries == [call : Calls, results : Results,
            note : {"", "dispatch_disabled", "no_nats_url", "no_employees"}]

(* Every variable has the values the program can give it, and the log is   *)
(* within its bound.                                                       *)
TypeOK ==
    /\ mode \in Modes
    /\ outcome \in [Calls -> D!Outcomes]
    /\ results \in [Calls -> Results]
    /\ sent \subseteq Calls \X Employee
    /\ max \in SmallestMax..LargestMax
    /\ entries \in Seq(Entries) /\ Len(entries) <= max
    /\ history \in Seq(Calls)
    /\ response \in [status : {0, 200, 401, 405, 503}, limit : 0..LargestLimit,
                     seen : Nat, shown : Seq(Entries)]

(* However the workers' appends and the reader interleave, a response is   *)
(* the newest entries of all that had been appended at one moment, as many *)
(* as were asked for and kept, without a gap.                              *)
ShowsTheNewest ==
    response.status = 200 =>
        LET n == Min({response.limit, response.seen, max})
        IN /\ Len(response.shown) = n
           /\ \A i \in 1..n :
                  response.shown[i].call = history[response.seen - n + i]

(* What an entry tells is true, for good: its results are the call's, OK   *)
(* is said only of what is in the stream, and an entry with neither        *)
(* results nor a note belongs to a decision none of whose employees was or *)
(* will be sent anything.                                                  *)
EntriesAreTrue ==
    \A i \in 1..Len(entries) :
        LET e == entries[i]
            reached == {p[2] : p \in {q \in sent : q[1] = e.call}}
        IN /\ {r.employee : r \in {x \in ToSet(e.results) : x.ok}} \subseteq reached
           /\ e.results = <<>> /\ e.note = "" => reached = {}
           /\ e.results # <<>> => {r.employee : r \in ToSet(e.results)}
                                       = D!Targets(e.call)

(* Every decision enters the log, whatever became of publishing it. *)
EveryDecisionIsLogged ==
    \A c \in Calls : <>(c \in ToSet(history))
==============================================================================
