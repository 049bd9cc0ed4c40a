------------------------------ MODULE Dispatch ------------------------------
(***************************************************************************)
(* internal/dispatch/dispatch.go: dispatch.Decision, called concurrently   *)
(* by the workers, publishes one message per target employee to JetStream. *)
(* The calls share one NATS connection, made and replaced under jsMu, and  *)
(* the record of which streams were ensured, under streamEnsureMu.  A call *)
(* keeps using the connection it was given after another call replaced it. *)
(*                                                                         *)
(* NATS and its client are external: the server goes away and comes back,  *)
(* the client reconnects in its own time, and a publish that timed out may *)
(* still be on its way - it carries no message id, so a retry stores the   *)
(* message again.                                                          *)
(***************************************************************************)
EXTENDS Integers, Sequences, FiniteSets

CONSTANTS
    Calls,              \* concurrent calls of Decision
    Employee,           \* employee keys
    Blank,              \* a name that trims to ""
    EmployeesOf,        \* Decision.Employees of each call
    Modes,              \* the configurations to start from
    ConfiguredAttempts, \* cfg.DispatchPublishMaxAttempts
    NoCall,             \* jsMu is free
    MaxConns,           \* bound: connections ever made
    MaxOutages,         \* bound: outages of the server
    MaxDeletes          \* bound: deletions of the stream

AllModes == {"enabled", "disabled", "no_url"}

ASSUME DecisionAssumption ==
    /\ EmployeesOf \in [Calls -> Seq(Employee \cup {Blank})]
    /\ Blank \notin Employee
    /\ NoCall \notin Calls
    /\ Modes \subseteq AllModes

ASSUME DispatchBoundsAssumption ==
    /\ ConfiguredAttempts \in Int
    /\ MaxConns \in Nat /\ MaxOutages \in Nat /\ MaxDeletes \in Nat

VARIABLES
    mode,        \* DispatchEnabled and NatsURL, fixed at start
    \* NATS (external)
    natsUp, outages,
    stream,      \* the stream exists on the server
    deletes,
    conns,       \* connections made so far
    linkOf,      \* the state of each
    inFlight,    \* per call and employee: publishes given up, not yet stored
    stored,      \* per call and employee: messages the stream was ever given
    \* shared by the calls
    jsMu,        \* who holds the mutex
    jsConn,      \* the current connection, 0 for nil
    ensured,     \* streamEnsureSuccess[stream]
    \* each call
    pc, js, next, seen, attempt, results,
    \* history
    existed      \* the stream has existed

natsVars   == <<natsUp, outages, stream, deletes, existed>>
connVars   == <<conns, linkOf>>
msgVars    == <<inFlight, stored>>
sharedVars == <<jsMu, jsConn, ensured>>
loopVars   == <<next, seen, attempt, results>>
vars == <<mode, natsVars, connVars, msgVars, sharedVars, pc, js, loopVars>>

------------------------------------------------------------------------------
(* publishJetStreamWithRetries clamps the configured number of attempts. *)
MaxAttempts ==
    IF ConfiguredAttempts < 1 THEN 3
    ELSE IF ConfiguredAttempts > 10 THEN 10
    ELSE ConfiguredAttempts

Errors == {"timeout", "no_responders", "disconnected", "closed", "draining",
           "rejected"}

(* isRetryableNatsPublishErr; a net.OpError timeout counts as "timeout". *)
IsRetryable(err) == err \in {"timeout", "no_responders", "disconnected", "closed"}

Current(c) == EmployeesOf[c][next[c]]

(* The distinct employees a call is to publish to. *)
Targets(c) == {EmployeesOf[c][i] : i \in 1..Len(EmployeesOf[c])} \ {Blank}

Init ==
    /\ mode \in Modes
    /\ natsUp = TRUE /\ outages = 0
    /\ stream \in BOOLEAN /\ deletes = 0
    /\ conns = 0 /\ linkOf = [g \in 1..MaxConns |-> "none"]
    /\ inFlight = [c \in Calls |-> [e \in Employee |-> 0]]
    /\ stored = [c \in Calls |-> [e \in Employee |-> 0]]
    /\ jsMu = NoCall /\ jsConn = 0 /\ ensured = FALSE
    /\ pc = [c \in Calls |-> "start"]
    /\ js = [c \in Calls |-> 0]
    /\ next = [c \in Calls |-> 1]
    /\ seen = [c \in Calls |-> {}]
    /\ attempt = [c \in Calls |-> 0]
    /\ results = [c \in Calls |-> <<>>]
    /\ existed = stream

------------------------------------------------------------------------------
(* NATS. *)

(* Every connection that was up finds out and starts to reconnect. *)
ServerGoesDown ==
    /\ natsUp /\ outages < MaxOutages
    /\ natsUp' = FALSE
    /\ outages' = outages + 1
    /\ linkOf' = [g \in 1..MaxConns |->
                     IF linkOf[g] = "up" THEN "reconnecting" ELSE linkOf[g]]
    /\ UNCHANGED <<mode, stream, deletes, existed, conns, msgVars, sharedVars,
                   pc, js, loopVars>>

ServerComesUp ==
    /\ ~natsUp
    /\ natsUp' = TRUE
    /\ UNCHANGED <<mode, outages, stream, deletes, existed, connVars, msgVars,
                   sharedVars, pc, js, loopVars>>

Reconnects(g) ==
    /\ natsUp /\ linkOf[g] = "reconnecting"
    /\ linkOf' = [linkOf EXCEPT ![g] = "up"]
    /\ UNCHANGED <<mode, natsVars, conns, msgVars, sharedVars, pc, js, loopVars>>

StreamIsDeleted ==
    /\ natsUp /\ stream /\ deletes < MaxDeletes
    /\ stream' = FALSE
    /\ deletes' = deletes + 1
    /\ UNCHANGED <<mode, natsUp, outages, existed, connVars, msgVars, sharedVars,
                   pc, js, loopVars>>

(* A publish whose caller stopped waiting is stored after all. *)
ArrivesLate(c, e) ==
    /\ natsUp /\ stream
    /\ inFlight[c][e] > 0
    /\ inFlight' = [inFlight EXCEPT ![c][e] = @ - 1]
    /\ stored' = [stored EXCEPT ![c][e] = @ + 1]
    /\ UNCHANGED <<mode, natsVars, connVars, sharedVars, pc, js, loopVars>>

Nats ==
    \/ ServerGoesDown \/ ServerComesUp \/ StreamIsDeleted
    \/ \E g \in 1..MaxConns : Reconnects(g)
    \/ \E c \in Calls, e \in Employee : ArrivesLate(c, e)

------------------------------------------------------------------------------
(* Decision, up to the loop over the employees. *)

Goto(c, label) == pc' = [pc EXCEPT ![c] = label]

(* Disabled, no URL, no employees: nothing is published. *)
Skips(c) ==
    /\ pc[c] = "start"
    /\ mode # "enabled" \/ Len(EmployeesOf[c]) = 0
    /\ Goto(c, "skipped")
    /\ UNCHANGED <<mode, natsVars, connVars, msgVars, sharedVars, js, loopVars>>

Starts(c) ==
    /\ pc[c] = "start"
    /\ mode = "enabled" /\ Len(EmployeesOf[c]) > 0
    /\ Goto(c, "lock")
    /\ UNCHANGED <<mode, natsVars, connVars, msgVars, sharedVars, js, loopVars>>

(* Fault: jetStreamContext does not take its mutex. *)
LocksNothing(c) ==
    /\ pc[c] = "lock"
    /\ jsMu' = c
    /\ Goto(c, "check")
    /\ UNCHANGED <<mode, natsVars, connVars, msgVars, jsConn, ensured, js, loopVars>>

Locks(c) ==
    /\ pc[c] = "lock"
    /\ jsMu = NoCall
    /\ jsMu' = c
    /\ Goto(c, "check")
    /\ UNCHANGED <<mode, natsVars, connVars, msgVars, jsConn, ensured, js, loopVars>>

(* The connection is reused while it is connected. *)
Reuses(c) ==
    /\ pc[c] = "check"
    /\ jsConn # 0 /\ linkOf[jsConn] = "up"
    /\ js' = [js EXCEPT ![c] = jsConn]
    /\ jsMu' = NoCall
    /\ Goto(c, "ensure")
    /\ UNCHANGED <<mode, natsVars, connVars, msgVars, jsConn, ensured,
                   loopVars>>

(* Otherwise the old one is drained, whoever is using it: a connection     *)
(* that is reconnecting is closed at once.                                 *)
Replaces(c) ==
    /\ pc[c] = "check"
    /\ ~(jsConn # 0 /\ linkOf[jsConn] = "up")
    /\ linkOf' = [g \in 1..MaxConns |-> IF g = jsConn THEN "closed" ELSE linkOf[g]]
    /\ jsConn' = 0
    /\ Goto(c, "dial")
    /\ UNCHANGED <<mode, natsVars, conns, msgVars, jsMu, ensured, js, loopVars>>

Dials(c) ==
    /\ pc[c] = "dial"
    /\ natsUp /\ conns < MaxConns
    /\ conns' = conns + 1
    /\ linkOf' = [linkOf EXCEPT ![conns + 1] = "up"]
    /\ jsConn' = conns + 1
    /\ js' = [js EXCEPT ![c] = conns + 1]
    /\ jsMu' = NoCall
    /\ Goto(c, "ensure")
    /\ UNCHANGED <<mode, natsVars, msgVars, ensured, loopVars>>

(* Fault: the error return of nats.Connect keeps the mutex. *)
DialFailsLocked(c) ==
    /\ pc[c] = "dial"
    /\ Goto(c, "failed")
    /\ UNCHANGED <<mode, natsVars, connVars, msgVars, sharedVars, js, loopVars>>

(* No connection: the decision fails for every employee, with no results. *)
DialFails(c) ==
    /\ pc[c] = "dial"
    /\ jsMu' = NoCall
    /\ Goto(c, "failed")
    /\ UNCHANGED <<mode, natsVars, connVars, msgVars, jsConn, ensured, js, loopVars>>

Connect(c) ==
    Locks(c) \/ Reuses(c) \/ Replaces(c) \/ Dials(c) \/ DialFails(c)

(* ensureStreamOnce reads the record, unlocks, and acts on what it read. *)
ReadsEnsured(c) ==
    /\ pc[c] = "ensure"
    /\ Goto(c, IF ensured THEN "loop" ELSE "stream_info")
    /\ UNCHANGED <<mode, natsVars, connVars, msgVars, sharedVars, js, loopVars>>

Reaches(c) == natsUp /\ linkOf[js[c]] = "up"

(* Fault: a stream that is not found counts as ensured. *)
TrustsStreamInfo(c) ==
    /\ pc[c] = "stream_info"
    /\ Reaches(c)
    /\ Goto(c, "record")
    /\ UNCHANGED <<mode, natsVars, connVars, msgVars, sharedVars, js, loopVars>>

FindsStream(c) ==
    /\ pc[c] = "stream_info"
    /\ Reaches(c)
    /\ Goto(c, IF stream THEN "record" ELSE "add_stream")
    /\ UNCHANGED <<mode, natsVars, connVars, msgVars, sharedVars, js, loopVars>>

AddsStream(c) ==
    /\ pc[c] = "add_stream"
    /\ Reaches(c)
    /\ stream' = TRUE /\ existed' = TRUE
    /\ Goto(c, "record")
    /\ UNCHANGED <<mode, natsUp, outages, deletes, connVars, msgVars, sharedVars,
                   js, loopVars>>

(* StreamInfo or AddStream fails or times out; it is not tried again.  The *)
(* stream may have been added all the same.                                *)
EnsureFails(c) ==
    /\ pc[c] \in {"stream_info", "add_stream"}
    /\ stream' \in IF pc[c] = "add_stream" /\ Reaches(c) THEN {stream, TRUE}
                   ELSE {stream}
    /\ existed' = (existed \/ stream')
    /\ Goto(c, "failed")
    /\ UNCHANGED <<mode, natsUp, outages, deletes, connVars, msgVars, sharedVars,
                   js, loopVars>>

RecordsEnsured(c) ==
    /\ pc[c] = "record"
    /\ ensured' = TRUE
    /\ Goto(c, "loop")
    /\ UNCHANGED <<mode, natsVars, connVars, msgVars, jsMu, jsConn, js, loopVars>>

Ensure(c) ==
    \/ ReadsEnsured(c) \/ FindsStream(c) \/ AddsStream(c) \/ EnsureFails(c)
    \/ RecordsEnsured(c)

------------------------------------------------------------------------------
(* The loop over the employees. *)

Ends(c) ==
    /\ pc[c] = "loop"
    /\ next[c] > Len(EmployeesOf[c])
    /\ Goto(c, "done")
    /\ UNCHANGED <<mode, natsVars, connVars, msgVars, sharedVars, js, loopVars>>

(* A blank name, or an employee this call has already published to. *)
PassesOver(c) ==
    /\ pc[c] = "loop"
    /\ next[c] <= Len(EmployeesOf[c])
    /\ Current(c) \in seen[c] \cup {Blank}
    /\ next' = [next EXCEPT ![c] = @ + 1]
    /\ UNCHANGED <<mode, natsVars, connVars, msgVars, sharedVars, pc, js, seen,
                   attempt, results>>

(* The call turns to an employee. *)
Addresses(c) ==
    /\ pc[c] = "loop"
    /\ next[c] <= Len(EmployeesOf[c])
    /\ Current(c) # Blank
    /\ seen' = [seen EXCEPT ![c] = @ \cup {Current(c)}]
    /\ attempt' = [attempt EXCEPT ![c] = 1]
    /\ Goto(c, "publish")
    /\ UNCHANGED <<mode, natsVars, connVars, msgVars, sharedVars, js, next, results>>

(* Fault: no look at who was published to already. *)
TakesUpAgain(c) == Addresses(c)

TakesUp(c) == Addresses(c) /\ Current(c) \notin seen[c]

(* The result for the current employee, and on to the given place. *)
Answers(c, ok, place) ==
    /\ results' = [results EXCEPT ![c] = Append(@, [employee |-> Current(c), ok |-> ok])]
    /\ next' = [next EXCEPT ![c] = @ + 1]
    /\ attempt' = [attempt EXCEPT ![c] = 0]
    /\ Goto(c, place)
    /\ UNCHANGED seen

(* What the outside world can make of one publish. *)
PossibleErrors(c) ==
    IF linkOf[js[c]] = "closed" THEN {"closed", "draining"}
    ELSE {"timeout", "rejected"}
         \cup (IF linkOf[js[c]] = "reconnecting" THEN {"disconnected"} ELSE {})
         \cup (IF natsUp /\ ~stream THEN {"no_responders"} ELSE {})

PublishStored(c) ==
    /\ pc[c] = "publish"
    /\ Reaches(c) /\ stream
    /\ stored' = [stored EXCEPT ![c][Current(c)] = @ + 1]
    /\ Answers(c, TRUE, "loop")
    /\ UNCHANGED <<mode, natsVars, connVars, inFlight, sharedVars, js>>

(* js.Publish returns err.  The message may be on its way when the answer  *)
(* did not come in time, or the connection was lost or closed under it.    *)
Fails(c, err) ==
    /\ pc[c] = "publish"
    /\ err \in PossibleErrors(c)
    /\ \/ UNCHANGED inFlight
       \/ /\ err \in {"timeout", "disconnected", "closed"}
          /\ inFlight' = [inFlight EXCEPT ![c][Current(c)] = @ + 1]
    /\ UNCHANGED <<mode, natsVars, connVars, stored, sharedVars, js>>

(* Fault: one more attempt than configured. *)
RetriesOnceMore(c, err) ==
    /\ Fails(c, err)
    /\ attempt[c] <= MaxAttempts /\ IsRetryable(err)
    /\ attempt' = [attempt EXCEPT ![c] = @ + 1]
    /\ UNCHANGED <<pc, next, seen, results>>

(* A transient error, and an attempt left: the same connection again, *)
(* after the backoff.                                                 *)
Retries(c, err) ==
    /\ Fails(c, err)
    /\ attempt[c] < MaxAttempts /\ IsRetryable(err)
    /\ attempt' = [attempt EXCEPT ![c] = @ + 1]
    /\ UNCHANGED <<pc, next, seen, results>>

(* Fault: the first failed publish ends the loop. *)
AbandonsRest(c, err) ==
    /\ Fails(c, err)
    /\ attempt[c] >= MaxAttempts \/ ~IsRetryable(err)
    /\ Answers(c, FALSE, "done")

(* Fault: a timeout is taken for delivery. *)
AssumesDelivery(c, err) ==
    /\ Fails(c, err)
    /\ attempt[c] >= MaxAttempts \/ ~IsRetryable(err)
    /\ Answers(c, err = "timeout", "loop")

(* Fault: the failed publish ends the call, which forgets its results. *)
ReturnsNothing(c, err) ==
    /\ Fails(c, err)
    /\ attempt[c] >= MaxAttempts \/ ~IsRetryable(err)
    /\ results' = [results EXCEPT ![c] = <<>>]
    /\ Goto(c, "failed")
    /\ UNCHANGED <<next, seen, attempt>>

(* The employee's publish failed; the next employee is still tried. *)
GivesUp(c, err) ==
    /\ Fails(c, err)
    /\ attempt[c] >= MaxAttempts \/ ~IsRetryable(err)
    /\ Answers(c, FALSE, "loop")

Publish(c) ==
    \/ PublishStored(c)
    \/ \E err \in Errors : Retries(c, err) \/ GivesUp(c, err)

Call(c) ==
    \/ Skips(c) \/ Starts(c) \/ Connect(c) \/ Ensure(c)
    \/ Ends(c) \/ PassesOver(c) \/ TakesUp(c) \/ Publish(c)

Next == Nats \/ \E c \in Calls : Call(c)

Spec == Init /\ [][Next]_vars

(* Every step of a call is Go code that runs, or a wait with a timeout:    *)
(* nats.Connect 20 seconds, a JetStream request 5, a backoff 2.  The steps *)
(* that fail stand for those timeouts.  Nothing is assumed of NATS.        *)
FairSpec == Spec /\ \A c \in Calls : WF_vars(Call(c))

------------------------------------------------------------------------------
Counts == [Calls -> [Employee -> Nat]]

(* Every variable has the values the program can give it. *)
TypeOK ==
    /\ mode \in AllModes
    /\ natsUp \in BOOLEAN /\ outages \in 0..MaxOutages
    /\ stream \in BOOLEAN /\ existed \in BOOLEAN /\ deletes \in 0..MaxDeletes
    /\ conns \in 0..MaxConns
    /\ linkOf \in [1..MaxConns -> {"none", "up", "reconnecting", "closed"}]
    /\ inFlight \in Counts /\ stored \in Counts
    /\ jsMu \in Calls \cup {NoCall}
    /\ jsConn \in 0..conns
    /\ ensured \in BOOLEAN
    /\ pc \in [Calls -> {"start", "skipped", "lock", "check", "dial", "ensure",
                         "stream_info", "add_stream", "record", "failed", "loop",
                         "publish", "done"}]
    /\ js \in [Calls -> 0..conns]
    /\ next \in [Calls -> Nat \ {0}]
    /\ seen \in [Calls -> SUBSET Employee]
    /\ attempt \in [Calls -> 0..MaxAttempts]
    /\ results \in [Calls -> Seq([employee : Employee, ok : BOOLEAN])]

(* A result that says OK is backed by a message that the stream stored,    *)
(* whatever timed out before it.                                           *)
OkMeansStored ==
    \A c \in Calls : \A i \in 1..Len(results[c]) :
        results[c][i].ok => stored[c][results[c][i].employee] > 0

(* Retries after ambiguous timeouts may store a message again, and late;   *)
(* with the ones still on their way the copies for one employee are no     *)
(* more than the attempts of one publish, however often the decision names *)
(* the employee.                                                           *)
CopiesAreBounded ==
    \A c \in Calls, e \in Employee : stored[c][e] + inFlight[c][e] <= MaxAttempts

(* The decision names d before it names e for the first time. *)
IsNamedBefore(c, d, e) ==
    \E k \in 1..Len(EmployeesOf[c]) :
        /\ EmployeesOf[c][k] = d
        /\ \A l \in 1..k : EmployeesOf[c][l] # e

(* The failure of one employee's publish costs the others nothing: a call  *)
(* that gets past the connection and the stream answers for every distinct *)
(* employee, once, in the order of the decision.                           *)
EveryTargetIsAnswered ==
    \A c \in Calls : pc[c] = "done" =>
        /\ {results[c][i].employee : i \in 1..Len(results[c])} = Targets(c)
        /\ Len(results[c]) = Cardinality(Targets(c))
        /\ \A i, j \in 1..Len(results[c]) :
               i < j => IsNamedBefore(c, results[c][i].employee, results[c][j].employee)

(* Whatever calls race to replace a lost connection, one that is no longer *)
(* current is closed: none is leaked, and none is made while another lives.*)
OneLiveConnection ==
    \A g \in 1..conns : linkOf[g] # "closed" => g = jsConn

(* The record says "ensured" only of a stream that JetStream confirmed. *)
EnsuredHasExisted == ensured => existed

(* Every call returns, whatever NATS does: no error path keeps the mutex. *)
CallsReturn ==
    \A c \in Calls : <>(pc[c] \in {"skipped", "failed", "done"})

(* What Delivery promises is what the calls do: the connection, the stream *)
(* and the retries are invisible to the handler.                           *)
Promise == INSTANCE Delivery WITH
    outcome <- [c \in Calls |-> CASE pc[c] = "done" -> "answered"
                                  [] pc[c] \in {"skipped", "failed"} -> pc[c]
                                  [] OTHER -> "open"],
    sent <- {p \in Calls \X Employee : stored[p[1]][p[2]] > 0}

(* A call answers for each employee it names, once, in the order of the    *)
(* decision, or for none before anything was published; it says OK only    *)
(* of what the stream was given; and nothing is stored for an employee     *)
(* before its turn has come, nor ever by a call that failed as a whole.    *)
DeliversAsPromised == Promise!Spec
==============================================================================
