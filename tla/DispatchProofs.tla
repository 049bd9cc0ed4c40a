--------------------------- MODULE DispatchProofs ---------------------------
(***************************************************************************)
(* Theorems about Dispatch, for every value of its constants.              *)
(***************************************************************************)
EXTENDS Dispatch, SequenceFacts

USE DecisionAssumption, DispatchBoundsAssumption

------------------------------------------------------------------------------
(* Types. *)

Result == [employee : Employee, ok : BOOLEAN]

(* A call that publishes does so to an employee its decision names, and is *)
(* at its first attempt or a later one.                                    *)
Aimed ==
    \A c \in Calls : pc[c] = "publish" =>
        /\ next[c] <= Len(EmployeesOf[c])
        /\ Current(c) # Blank
        /\ attempt[c] > 0

TypeInv == TypeOK /\ Aimed

(* The number of attempts is clamped to 1..10 whatever is configured. *)
LEMMA MaxAttemptsType == MaxAttempts \in 1..10
BY DEF MaxAttempts

(* A place in a decision holds an employee key or a blank. *)
LEMMA PlaceType ==
    ASSUME NEW c \in Calls, NEW i \in 1..Len(EmployeesOf[c])
    PROVE  EmployeesOf[c][i] \in Employee \cup {Blank}
<1>1. EmployeesOf[c] \in Seq(Employee \cup {Blank})
  OBVIOUS
<1>2. QED
  BY <1>1, ElementOfSeq

(* Decisions have a length. *)
LEMMA DecisionLen == \A c \in Calls : Len(EmployeesOf[c]) \in Nat
<1>1. \A c \in Calls : EmployeesOf[c] \in Seq(Employee \cup {Blank})
  OBVIOUS
<1>2. QED
  BY <1>1

(* Within the decision, and past the blanks, is an employee. *)
LEMMA CurrentType ==
    ASSUME TypeOK, NEW c \in Calls,
           next[c] <= Len(EmployeesOf[c]), Current(c) # Blank
    PROVE  Current(c) \in Employee
<1>1. next[c] \in 1..Len(EmployeesOf[c])
  BY DecisionLen DEF TypeOK
<1>2. QED
  BY <1>1, PlaceType DEF Current

(* One more message for a call and employee, or one fewer. *)
Up(f, c, e) == [f EXCEPT ![c][e] = @ + 1]
Down(f, c, e) == [f EXCEPT ![c][e] = @ - 1]

(* One more changes that count alone. *)
LEMMA CountUp ==
    ASSUME NEW f \in Counts, NEW c \in Calls, NEW e \in Employee
    PROVE  /\ Up(f, c, e) \in Counts
           /\ \A d \in Calls, x \in Employee :
                 Up(f, c, e)[d][x] = IF d = c /\ x = e THEN f[d][x] + 1 ELSE f[d][x]
<1>1. f[c] \in [Employee -> Nat] /\ f[c][e] + 1 \in Nat
  BY DEF Counts
<1>2. [f[c] EXCEPT ![e] = f[c][e] + 1] \in [Employee -> Nat]
  BY <1>1
<1>3. QED
  BY <1>1, <1>2 DEF Up, Counts

(* So does one fewer, where there is one. *)
LEMMA CountDown ==
    ASSUME NEW f \in Counts, NEW c \in Calls, NEW e \in Employee, f[c][e] > 0
    PROVE  /\ Down(f, c, e) \in Counts
           /\ \A d \in Calls, x \in Employee :
                 Down(f, c, e)[d][x] = IF d = c /\ x = e THEN f[d][x] - 1 ELSE f[d][x]
<1>1. f[c] \in [Employee -> Nat] /\ f[c][e] - 1 \in Nat
  BY DEF Counts
<1>2. [f[c] EXCEPT ![e] = f[c][e] - 1] \in [Employee -> Nat]
  BY <1>1
<1>3. QED
  BY <1>1, <1>2 DEF Down, Counts

(* Before anything was called, every variable has a value of its type. *)
LEMMA TypeInit == Init => TypeInv
<1> SUFFICES ASSUME Init
             PROVE  TypeInv
  OBVIOUS
<1>1. /\ mode \in AllModes
      /\ natsUp \in BOOLEAN /\ outages \in 0..MaxOutages
      /\ stream \in BOOLEAN /\ existed \in BOOLEAN /\ deletes \in 0..MaxDeletes
  BY DEF Init
<1>2. /\ conns \in 0..MaxConns /\ jsConn \in 0..conns
      /\ linkOf \in [1..MaxConns -> {"none", "up", "reconnecting", "closed"}]
  BY DEF Init
<1>3. inFlight \in Counts /\ stored \in Counts
  BY DEF Init, Counts
<1>4. jsMu \in Calls \cup {NoCall} /\ ensured \in BOOLEAN
  BY DEF Init
<1>5. /\ pc = [c \in Calls |-> "start"]
      /\ js \in [Calls -> 0..conns]
      /\ next \in [Calls -> Nat \ {0}]
      /\ seen \in [Calls -> SUBSET Employee]
      /\ results \in [Calls -> Seq(Result)]
  BY DEF Init
<1>6. attempt \in [Calls -> 0..MaxAttempts]
  BY MaxAttemptsType DEF Init
<1>7. TypeOK
  BY <1>1, <1>2, <1>3, <1>4, <1>5, <1>6 DEF TypeOK, Result
<1>8. Aimed
  BY <1>5 DEF Aimed
<1>9. QED
  BY <1>7, <1>8 DEF TypeInv

(* Every step of a call or of NATS keeps every variable to its values. *)
LEMMA TypeStep == TypeInv /\ [Next]_vars => TypeInv'
<1> SUFFICES ASSUME TypeInv, [Next]_vars
             PROVE  TypeInv'
  OBVIOUS
<1> DEFINE Labels == {"start", "skipped", "lock", "check", "dial", "ensure",
                      "stream_info", "add_stream", "record", "failed", "loop",
                      "publish", "done"}
<1>0. TypeOK /\ Aimed
  BY DEF TypeInv
<1> USE DEF natsVars, connVars, msgVars, sharedVars, loopVars
<1>1. CASE ServerGoesDown
  <2>1. /\ linkOf' \in [1..MaxConns -> {"none", "up", "reconnecting", "closed"}]
        /\ outages' \in 0..MaxOutages
    BY <1>0, <1>1 DEF ServerGoesDown, TypeOK
  <2>2. natsUp' \in BOOLEAN
    BY <1>1 DEF ServerGoesDown
  <2>3. QED
    BY <1>0, <1>1, <2>1, <2>2 DEF ServerGoesDown, TypeInv, TypeOK, Aimed, Current
<1>2. CASE ServerComesUp
  BY <1>0, <1>2 DEF ServerComesUp, TypeInv, TypeOK, Aimed, Current
<1>3. ASSUME NEW g \in 1..MaxConns, Reconnects(g)
      PROVE  TypeInv'
  BY <1>0, <1>3 DEF Reconnects, TypeInv, TypeOK, Aimed, Current
<1>4. CASE StreamIsDeleted
  <2>1. deletes' \in 0..MaxDeletes
    BY <1>0, <1>4 DEF StreamIsDeleted, TypeOK
  <2>2. stream' \in BOOLEAN
    BY <1>4 DEF StreamIsDeleted
  <2>3. QED
    BY <1>0, <1>4, <2>1, <2>2 DEF StreamIsDeleted, TypeInv, TypeOK, Aimed, Current
<1>5. ASSUME NEW c \in Calls, NEW e \in Employee, ArrivesLate(c, e)
      PROVE  TypeInv'
  <2>1. inFlight' \in Counts /\ stored' \in Counts
    <3>1. /\ stored' = Up(stored, c, e) /\ inFlight' = Down(inFlight, c, e)
          /\ inFlight[c][e] > 0
      BY <1>5 DEF ArrivesLate, Up, Down
    <3>2. QED
      BY <1>0, <3>1, CountUp, CountDown DEF TypeOK
  <2>2. QED
    BY <1>0, <1>5, <2>1 DEF ArrivesLate, TypeInv, TypeOK, Aimed, Current
<1>6. ASSUME NEW c \in Calls, Skips(c) \/ Starts(c)
      PROVE  TypeInv'
  BY <1>0, <1>6 DEF Skips, Starts, Goto, TypeInv, TypeOK, Aimed, Current
<1>7. ASSUME NEW c \in Calls, Connect(c)
      PROVE  TypeInv'
  <2>1. CASE Locks(c)
    BY <1>0, <2>1 DEF Locks, Goto, TypeInv, TypeOK, Aimed, Current
  <2>2. CASE Reuses(c)
    BY <1>0, <2>2 DEF Reuses, Goto, TypeInv, TypeOK, Aimed, Current
  <2>3. CASE Replaces(c)
    <3>1. /\ linkOf' \in [1..MaxConns -> {"none", "up", "reconnecting", "closed"}]
          /\ jsConn' \in 0..conns'
      BY <1>0, <2>3 DEF Replaces, TypeOK
    <3>2. QED
      BY <1>0, <2>3, <3>1 DEF Replaces, Goto, TypeInv, TypeOK, Aimed, Current
  <2>4. CASE Dials(c)
    <3>1. /\ conns' \in 0..MaxConns
          /\ linkOf' \in [1..MaxConns -> {"none", "up", "reconnecting", "closed"}]
          /\ jsConn' \in 0..conns'
          /\ js' \in [Calls -> 0..conns']
      BY <1>0, <2>4 DEF Dials, TypeOK
    <3>2. QED
      BY <1>0, <2>4, <3>1 DEF Dials, Goto, TypeInv, TypeOK, Aimed, Current
  <2>5. CASE DialFails(c)
    BY <1>0, <2>5 DEF DialFails, Goto, TypeInv, TypeOK, Aimed, Current
  <2>6. QED
    BY <1>7, <2>1, <2>2, <2>3, <2>4, <2>5 DEF Connect
<1>8. ASSUME NEW c \in Calls, Ensure(c)
      PROVE  TypeInv'
  <2>1. CASE ReadsEnsured(c) \/ FindsStream(c) \/ RecordsEnsured(c)
    BY <1>0, <2>1 DEF ReadsEnsured, FindsStream, RecordsEnsured, Goto,
                      TypeInv, TypeOK, Aimed, Current
  <2>2. CASE AddsStream(c)
    BY <1>0, <2>2 DEF AddsStream, Goto, TypeInv, TypeOK, Aimed, Current
  <2>3. CASE EnsureFails(c)
    <3>1. stream' \in BOOLEAN /\ existed' \in BOOLEAN
      BY <1>0, <2>3 DEF EnsureFails, TypeOK
    <3>2. QED
      BY <1>0, <2>3, <3>1 DEF EnsureFails, Goto, TypeInv, TypeOK, Aimed, Current
  <2>4. QED
    BY <1>8, <2>1, <2>2, <2>3 DEF Ensure
<1>9. ASSUME NEW c \in Calls, Ends(c) \/ PassesOver(c)
      PROVE  TypeInv'
  <2>1. CASE Ends(c)
    BY <1>0, <2>1 DEF Ends, Goto, TypeInv, TypeOK, Aimed, Current
  <2>2. CASE PassesOver(c)
    <3>1. next' \in [Calls -> Nat \ {0}]
      BY <1>0, <2>2 DEF PassesOver, TypeOK
    <3>2. Aimed'
      BY <1>0, <2>2 DEF PassesOver, TypeOK, Aimed, Current
    <3>3. QED
      BY <1>0, <2>2, <3>1, <3>2 DEF PassesOver, TypeInv, TypeOK
  <2>3. QED
    BY <1>9, <2>1, <2>2
<1>10. ASSUME NEW c \in Calls, TakesUp(c)
       PROVE  TypeInv'
  <2>1. Current(c) \in Employee
    BY <1>0, <1>10, CurrentType DEF TakesUp, Addresses
  <2>2. /\ seen' \in [Calls -> SUBSET Employee]
        /\ attempt' \in [Calls -> 0..MaxAttempts]
    BY <1>0, <1>10, <2>1, MaxAttemptsType DEF TakesUp, Addresses, TypeOK
  <2>3. Aimed'
    BY <1>0, <1>10 DEF TakesUp, Addresses, Goto, TypeOK, Aimed, Current
  <2>4. QED
    BY <1>0, <1>10, <2>2, <2>3 DEF TakesUp, Addresses, Goto, TypeInv, TypeOK
<1>11. ASSUME NEW c \in Calls, Publish(c)
       PROVE  TypeInv'
  <2>1. pc[c] = "publish" /\ Current(c) \in Employee
    BY <1>0, <1>11, CurrentType DEF Publish, PublishStored, Retries, GivesUp, Fails, Aimed
  <2>2. ASSUME NEW ok \in BOOLEAN, Answers(c, ok, "loop")
        PROVE  /\ next' \in [Calls -> Nat \ {0}]
               /\ seen' \in [Calls -> SUBSET Employee]
               /\ attempt' \in [Calls -> 0..MaxAttempts]
               /\ results' \in [Calls -> Seq(Result)]
               /\ pc' \in [Calls -> Labels]
               /\ Aimed'
    <3>1. results' \in [Calls -> Seq(Result)]
      <4>1. results \in [Calls -> Seq(Result)]
        BY <1>0 DEF TypeOK, Result
      <4>2. [employee |-> Current(c), ok |-> ok] \in Result
        BY <2>1 DEF Result
      <4>3. QED
        BY <2>2, <4>1, <4>2 DEF Answers
    <3>2. Aimed'
      BY <1>0, <2>2 DEF Answers, Goto, TypeOK, Aimed, Current
    <3>3. QED
      BY <1>0, <2>2, <3>1, <3>2, MaxAttemptsType DEF Answers, Goto, TypeOK
  <2>3. CASE PublishStored(c)
    <3>1. stored' \in Counts
      <4>1. stored' = Up(stored, c, Current(c))
        BY <2>3 DEF PublishStored, Up
      <4>2. QED
        BY <1>0, <2>1, <4>1, CountUp DEF TypeOK
    <3>2. QED
      BY <1>0, <2>2, <2>3, <3>1 DEF PublishStored, TypeInv, TypeOK, Result
  <2>4. ASSUME NEW err \in Errors, Fails(c, err)
        PROVE  inFlight' \in Counts
    <3>1. inFlight \in Counts
      BY <1>0 DEF TypeOK
    <3>2. Up(inFlight, c, Current(c)) \in Counts
      BY <2>1, <3>1, CountUp
    <3>3. QED
      BY <2>4, <3>1, <3>2 DEF Fails, Up
  <2>5. ASSUME NEW err \in Errors, Retries(c, err)
        PROVE  TypeInv'
    <3>1. inFlight' \in Counts
      BY <2>4, <2>5 DEF Retries
    <3>2. attempt' \in [Calls -> 0..MaxAttempts]
      BY <1>0, <2>5, MaxAttemptsType DEF Retries, TypeOK
    <3>3. Aimed'
      BY <1>0, <2>5, MaxAttemptsType DEF Retries, Fails, TypeOK, Aimed, Current
    <3>4. QED
      BY <1>0, <2>5, <3>1, <3>2, <3>3 DEF Retries, Fails, TypeInv, TypeOK
  <2>6. ASSUME NEW err \in Errors, GivesUp(c, err)
        PROVE  TypeInv'
    BY <1>0, <2>2, <2>4, <2>6 DEF GivesUp, Fails, TypeInv, TypeOK, Result
  <2>7. QED
    BY <1>11, <2>3, <2>5, <2>6 DEF Publish
<1>12. CASE UNCHANGED vars
  BY <1>0, <1>12 DEF vars, TypeInv, TypeOK, Aimed, Current
<1>13. QED
  BY <1>1, <1>2, <1>3, <1>4, <1>5, <1>6, <1>7, <1>8, <1>9, <1>10, <1>11, <1>12
     DEF Next, Nats, Call

(* TypeOK always holds: the answers name employees, no more attempts are   *)
(* made than are configured, and no call uses a connection never made.     *)
THEOREM TypeCorrect == Spec => []TypeOK
<1>1. TypeInv => TypeOK
  BY DEF TypeInv
<1>2. QED
  BY TypeInit, TypeStep, <1>1, PTL DEF Spec

------------------------------------------------------------------------------
(* The connection and its mutex. *)

(* A call between Lock and Unlock of jetStreamContext holds the mutex, and *)
(* one about to dial has dropped the connection that was there.            *)
Exclusive ==
    \A c \in Calls :
        /\ pc[c] \in {"check", "dial"} => jsMu = c
        /\ pc[c] = "dial" => jsConn = 0

(* What a step can do to the connections: the server takes them down, the  *)
(* client brings one up, or jetStreamContext acts; anything else leaves    *)
(* them, the mutex and who is inside jetStreamContext as they are.         *)
LEMMA ConnectionSteps ==
    ASSUME TypeOK, [Next]_vars
    PROVE  \/ ServerGoesDown
           \/ \E g \in 1..MaxConns : Reconnects(g)
           \/ \E c \in Calls : Connect(c)
           \/ /\ UNCHANGED <<conns, linkOf, jsMu, jsConn>>
              /\ \A c \in Calls : pc'[c] \in {"check", "dial"} => pc'[c] = pc[c]
<1> DEFINE Elsewhere ==
               /\ UNCHANGED <<conns, linkOf, jsMu, jsConn>>
               /\ \A c \in Calls : pc'[c] \in {"check", "dial"} => pc'[c] = pc[c]
<1> USE DEF natsVars, connVars, msgVars, sharedVars, loopVars
<1>1. CASE ServerComesUp \/ StreamIsDeleted
  BY <1>1 DEF ServerComesUp, StreamIsDeleted
<1>2. ASSUME NEW c \in Calls, NEW e \in Employee, ArrivesLate(c, e)
      PROVE  Elsewhere
  BY <1>2 DEF ArrivesLate
<1>3. ASSUME NEW c \in Calls, Skips(c) \/ Starts(c) \/ Ensure(c) \/ Ends(c)
                                \/ PassesOver(c) \/ TakesUp(c)
      PROVE  Elsewhere
  BY <1>3 DEF TypeOK, Skips, Starts, Ensure, ReadsEnsured, FindsStream, AddsStream,
              EnsureFails, RecordsEnsured, Ends, PassesOver, TakesUp, Addresses,
              Goto
<1>4. ASSUME NEW c \in Calls, Publish(c)
      PROVE  Elsewhere
  BY <1>4 DEF TypeOK, Publish, PublishStored, Retries, GivesUp, Fails, Answers, Goto
<1>5. CASE UNCHANGED vars
  BY <1>5 DEF vars
<1>6. QED
  BY <1>1, <1>2, <1>3, <1>4, <1>5 DEF Next, Nats, Call

ConnectionInv == Exclusive /\ OneLiveConnection

(* No call is inside jetStreamContext at the start, and no connection made. *)
LEMMA ConnectionInit == Init => ConnectionInv
BY DEF Init, ConnectionInv, Exclusive, OneLiveConnection

(* Whatever calls race, only the holder of the mutex replaces the         *)
(* connection, and it closes the old one before it dials.                  *)
LEMMA ConnectionStep == TypeInv /\ ConnectionInv /\ [Next]_vars => ConnectionInv'
<1> SUFFICES ASSUME TypeOK, ConnectionInv, [Next]_vars
             PROVE  ConnectionInv'
  BY DEF TypeInv
<1> USE DEF ConnectionInv, natsVars, connVars, msgVars, sharedVars, loopVars
<1>1. CASE ServerGoesDown
  BY <1>1 DEF ServerGoesDown, TypeOK, Exclusive, OneLiveConnection
<1>2. ASSUME NEW g \in 1..MaxConns, Reconnects(g)
      PROVE  ConnectionInv'
  BY <1>2 DEF Reconnects, TypeOK, Exclusive, OneLiveConnection
<1>3. ASSUME NEW c \in Calls, Connect(c)
      PROVE  ConnectionInv'
  <2>1. CASE Locks(c)
    BY <2>1 DEF Locks, Goto, TypeOK, Exclusive, OneLiveConnection
  <2>2. CASE Reuses(c)
    BY <2>2 DEF Reuses, Goto, TypeOK, Exclusive, OneLiveConnection
  <2>3. CASE Replaces(c)
    BY <2>3 DEF Replaces, Goto, TypeOK, Exclusive, OneLiveConnection
  <2>4. CASE Dials(c)
    <3>1. Exclusive'
      BY <2>4 DEF Dials, Goto, TypeOK, Exclusive
    <3>2. \A g \in 1..conns : linkOf[g] = "closed"
      BY <2>4 DEF Dials, TypeOK, Exclusive, OneLiveConnection
    <3>3. OneLiveConnection'
      BY <2>4, <3>2 DEF Dials, TypeOK, OneLiveConnection
    <3>4. QED
      BY <3>1, <3>3
  <2>5. CASE DialFails(c)
    BY <2>5 DEF DialFails, Goto, TypeOK, Exclusive, OneLiveConnection
  <2>6. QED
    BY <1>3, <2>1, <2>2, <2>3, <2>4, <2>5 DEF Connect
<1>4. CASE /\ UNCHANGED <<conns, linkOf, jsMu, jsConn>>
           /\ \A c \in Calls : pc'[c] \in {"check", "dial"} => pc'[c] = pc[c]
  BY <1>4 DEF TypeOK, Exclusive, OneLiveConnection
<1>5. QED
  BY <1>1, <1>2, <1>3, <1>4, ConnectionSteps

(* OneLiveConnection always holds: of all connections ever made, none but  *)
(* the current one is left open, however the calls race to replace it.     *)
THEOREM ConnectionsAreNotLeaked == Spec => []OneLiveConnection
<1>1. ConnectionInv => OneLiveConnection
  BY DEF ConnectionInv
<1>2. QED
  BY TypeInit, TypeStep, ConnectionInit, ConnectionStep, <1>1, PTL DEF Spec

------------------------------------------------------------------------------
(* The record of ensured streams. *)

(* What is known of the stream, by NATS, by the record, or by the call     *)
(* about to write the record, was true of it at some time.                 *)
ExistedInv ==
    /\ stream => existed
    /\ ensured => existed
    /\ \A c \in Calls : pc[c] = "record" => existed

(* At the start the stream may exist, and nothing is recorded of it. *)
LEMMA ExistedInit == Init => ExistedInv
BY DEF Init, ExistedInv

(* Only a call that JetStream answered gets to write the record, and the   *)
(* record outlives the stream.                                             *)
LEMMA ExistedStep == TypeInv /\ ExistedInv /\ [Next]_vars => ExistedInv'
<1> SUFFICES ASSUME TypeOK, ExistedInv, [Next]_vars
             PROVE  ExistedInv'
  BY DEF TypeInv
<1> DEFINE Elsewhere ==
               /\ UNCHANGED <<stream, existed, ensured>>
               /\ \A c \in Calls : pc'[c] = "record" => pc[c] = "record"
<1> USE DEF natsVars, connVars, msgVars, sharedVars, loopVars
<1>1. CASE Nats
  BY <1>1 DEF Nats, ServerGoesDown, ServerComesUp, StreamIsDeleted, Reconnects,
              ArrivesLate, ExistedInv
<1>2. ASSUME NEW c \in Calls, Skips(c) \/ Starts(c) \/ Connect(c) \/ Ends(c)
                                \/ PassesOver(c) \/ TakesUp(c)
      PROVE  Elsewhere
  BY <1>2 DEF TypeOK, Skips, Starts, Connect, Locks, Reuses, Replaces, Dials,
              DialFails, Ends, PassesOver, TakesUp, Addresses, Goto
<1>3. ASSUME NEW c \in Calls, Publish(c)
      PROVE  Elsewhere
  BY <1>3 DEF TypeOK, Publish, PublishStored, Retries, GivesUp, Fails, Answers, Goto
<1>4. ASSUME NEW c \in Calls, Ensure(c)
      PROVE  ExistedInv'
  <2>1. CASE ReadsEnsured(c)
    BY <2>1 DEF ReadsEnsured, Goto, TypeOK, ExistedInv
  <2>2. CASE FindsStream(c)
    BY <2>2 DEF FindsStream, Goto, TypeOK, ExistedInv
  <2>3. CASE AddsStream(c)
    BY <2>3 DEF AddsStream, Goto, TypeOK, ExistedInv
  <2>4. CASE EnsureFails(c)
    BY <2>4 DEF EnsureFails, Goto, TypeOK, ExistedInv
  <2>5. CASE RecordsEnsured(c)
    BY <2>5 DEF RecordsEnsured, Goto, TypeOK, ExistedInv
  <2>6. QED
    BY <1>4, <2>1, <2>2, <2>3, <2>4, <2>5 DEF Ensure
<1>5. CASE Elsewhere
  BY <1>5 DEF ExistedInv
<1>6. CASE UNCHANGED vars
  BY <1>6 DEF vars, ExistedInv
<1>7. QED
  BY <1>1, <1>2, <1>3, <1>4, <1>5, <1>6 DEF Next, Call

(* EnsuredHasExisted always holds: no call records a stream that JetStream *)
(* has neither found nor added.                                            *)
THEOREM RecordIsBacked == Spec => []EnsuredHasExisted
<1>1. ExistedInv => EnsuredHasExisted
  BY DEF ExistedInv, EnsuredHasExisted
<1>2. QED
  BY TypeInit, TypeStep, ExistedInit, ExistedStep, <1>1, PTL DEF Spec

------------------------------------------------------------------------------
(* The loop over the employees. *)

Looping == {"loop", "publish", "done"}

(* The employees among the first n places of the decision, *)
Named(c, n) == {EmployeesOf[c][i] : i \in 1..n} \ {Blank}

(* and those the call has answered for. *)
Answered(c) == {results[c][i].employee : i \in 1..Len(results[c])}

(* A call on its way to the loop, or to its end without one. *)
Prepares(c) ==
    /\ pc[c] \notin Looping \cup {"skipped", "failed"}
    /\ \/ /\ Goto(c, "skipped")
          /\ mode # "enabled" \/ Len(EmployeesOf[c]) = 0
       \/ /\ pc[c] = "start" => mode = "enabled" /\ Len(EmployeesOf[c]) > 0
          /\ \E label \in {"lock", "check", "dial", "ensure", "stream_info",
                            "add_stream", "record", "failed", "loop"} :
                Goto(c, label)
    /\ UNCHANGED <<mode, msgVars, loopVars>>

(* What a step can do to the progress of the calls. *)
LEMMA LoopSteps ==
    ASSUME [Next]_vars
    PROVE  \/ UNCHANGED <<mode, msgVars, pc, loopVars>>
           \/ \E c \in Calls, e \in Employee : ArrivesLate(c, e)
           \/ \E c \in Calls : Prepares(c)
           \/ \E c \in Calls : Ends(c) \/ PassesOver(c) \/ TakesUp(c) \/ Publish(c)
<1> USE DEF natsVars, connVars, msgVars, sharedVars, loopVars
<1>1. CASE ServerGoesDown \/ ServerComesUp \/ StreamIsDeleted
           \/ \E g \in 1..MaxConns : Reconnects(g)
  BY <1>1 DEF ServerGoesDown, ServerComesUp, StreamIsDeleted, Reconnects
<1>2. ASSUME NEW c \in Calls, Skips(c) \/ Starts(c)
      PROVE  Prepares(c)
  BY <1>2, DecisionLen DEF Skips, Starts, Prepares, Looping
<1> DEFINE Ahead == {"lock", "check", "dial", "ensure", "stream_info",
                     "add_stream", "record", "failed", "loop"}
<1>0. ASSUME NEW c \in Calls, pc[c] \in Ahead \ {"failed", "loop"},
             NEW label \in Ahead, Goto(c, label), UNCHANGED <<mode, msgVars, loopVars>>
      PROVE  Prepares(c)
  <2>1. pc[c] \notin Looping \cup {"skipped", "failed", "start"}
    BY <1>0 DEF Looping
  <2>2. \E l \in Ahead : Goto(c, l)
    BY <1>0
  <2>3. QED
    BY <1>0, <2>1, <2>2 DEF Prepares
<1> HIDE DEF Ahead
<1>3. ASSUME NEW c \in Calls, Connect(c)
      PROVE  Prepares(c)
  <2>1. CASE Locks(c)
    BY <1>0, <2>1 DEF Locks, Ahead
  <2>2. CASE Reuses(c)
    BY <1>0, <2>2 DEF Reuses, Ahead
  <2>3. CASE Replaces(c)
    BY <1>0, <2>3 DEF Replaces, Ahead
  <2>4. CASE Dials(c)
    BY <1>0, <2>4 DEF Dials, Ahead
  <2>5. CASE DialFails(c)
    BY <1>0, <2>5 DEF DialFails, Ahead
  <2>6. QED
    BY <1>3, <2>1, <2>2, <2>3, <2>4, <2>5 DEF Connect
<1>4. ASSUME NEW c \in Calls, Ensure(c)
      PROVE  Prepares(c)
  <2>1. CASE ReadsEnsured(c)
    BY <1>0, <2>1 DEF ReadsEnsured, Ahead
  <2>2. CASE FindsStream(c)
    BY <1>0, <2>2 DEF FindsStream, Ahead
  <2>3. CASE AddsStream(c) \/ EnsureFails(c) \/ RecordsEnsured(c)
    BY <1>0, <2>3 DEF AddsStream, EnsureFails, RecordsEnsured, Ahead
  <2>4. QED
    BY <1>4, <2>1, <2>2, <2>3 DEF Ensure
<1>5. CASE UNCHANGED vars
  BY <1>5 DEF vars
<1>6. QED
  BY <1>1, <1>2, <1>3, <1>4, <1>5 DEF Next, Nats, Call

(* The names of one place more. *)
LEMMA NamedGrows ==
    ASSUME NEW c \in Calls, NEW n \in Nat \ {0}
    PROVE  Named(c, n) = Named(c, n - 1) \cup ({EmployeesOf[c][n]} \ {Blank})
<1>1. 1..n = (1..(n - 1)) \cup {n}
  OBVIOUS
<1>2. QED
  BY <1>1 DEF Named

(* The employees of one answer more. *)
LEMMA AnswersGrow ==
    ASSUME NEW s \in Seq(Result), NEW r \in Result
    PROVE  {Append(s, r)[i].employee : i \in 1..Len(Append(s, r))}
               = {s[i].employee : i \in 1..Len(s)} \cup {r.employee}
<1>1. /\ Len(s) \in Nat /\ Len(Append(s, r)) = Len(s) + 1
      /\ \A i \in 1..Len(s) : Append(s, r)[i] = s[i]
      /\ Append(s, r)[Len(s) + 1] = r
  BY AppendProperties
<1>2. 1..Len(Append(s, r)) = 1..Len(s) \cup {Len(s) + 1}
  BY <1>1
<1>3. QED
  BY <1>1, <1>2

(* The answers of a call are in the order of its decision. *)
InTheirOrder(c) ==
    \A i, j \in 1..Len(results[c]) :
        i < j => IsNamedBefore(c, results[c][i].employee, results[c][j].employee)

(* An answer for the employee at place n, when all before are for those    *)
(* named before that place, comes last.                                    *)
LEMMA OrderGrows ==
    ASSUME NEW c \in Calls, NEW n \in 1..Len(EmployeesOf[c]), NEW r \in Result,
           results[c] \in Seq(Result), r.employee = EmployeesOf[c][n], r.employee # Blank,
           Answered(c) = Named(c, n - 1), r.employee \notin Answered(c),
           InTheirOrder(c), results'[c] = Append(results[c], r)
    PROVE  InTheirOrder(c)'
<1> DEFINE s == results[c]
           t == Append(s, r)
<1>1. /\ Len(s) \in Nat /\ Len(t) = Len(s) + 1
      /\ \A i \in 1..Len(s) : t[i] = s[i]
      /\ t[Len(s) + 1] = r
  BY AppendProperties
<1>2. \A l \in 1..(n - 1) : EmployeesOf[c][l] # r.employee
  BY DEF Named
<1>3. ASSUME NEW i \in 1..Len(s)
      PROVE  IsNamedBefore(c, s[i].employee, r.employee)
  <2>1. s[i].employee \in Named(c, n - 1)
    BY DEF Answered
  <2>2. PICK k \in 1..(n - 1) : EmployeesOf[c][k] = s[i].employee
    BY <2>1 DEF Named
  <2>3. k \in 1..Len(EmployeesOf[c])
    BY DecisionLen
  <2>4. \A l \in 1..k : l \in 1..(n - 1)
    BY <2>2
  <2>5. QED
    BY <1>2, <2>2, <2>3, <2>4 DEF IsNamedBefore
<1> HIDE DEF s, t
<1>4. ASSUME NEW i \in 1..Len(t), NEW j \in 1..Len(t), i < j
      PROVE  IsNamedBefore(c, t[i].employee, t[j].employee)
  <2>1. i \in 1..Len(s) /\ (j \in 1..Len(s) \/ j = Len(s) + 1)
    BY <1>1, <1>4
  <2>2. CASE j \in 1..Len(s)
    BY <1>1, <1>4, <2>1, <2>2 DEF InTheirOrder, s
  <2>3. CASE j = Len(s) + 1
    BY <1>1, <1>3, <2>1, <2>3
  <2>4. QED
    BY <2>1, <2>2, <2>3
<1>5. results'[c] = t
  BY DEF s, t
<1>6. QED
  BY <1>4, <1>5 DEF InTheirOrder, IsNamedBefore

(* How far a call has come: past the start only when there is something to *)
(* publish; before the loop it has done nothing; in the loop it has        *)
(* answered, once each and in their order, for the employees named before  *)
(* its place, and has addressed those and, while it publishes, the one at  *)
(* its place.                                                              *)
Progress(c) ==
    /\ pc[c] \notin {"start", "skipped"} =>
          mode = "enabled" /\ Len(EmployeesOf[c]) > 0
    /\ pc[c] \notin Looping => next[c] = 1 /\ seen[c] = {} /\ results[c] = <<>>
    /\ next[c] <= Len(EmployeesOf[c]) + 1
    /\ Answered(c) = Named(c, next[c] - 1)
    /\ seen[c] = IF pc[c] = "publish" THEN Answered(c) \cup {Current(c)}
                 ELSE Answered(c)
    /\ pc[c] = "publish" => Current(c) \notin Answered(c)
    /\ pc[c] = "done" => next[c] = Len(EmployeesOf[c]) + 1
    /\ IsFiniteSet(Answered(c)) /\ Len(results[c]) = Cardinality(Answered(c))
    /\ InTheirOrder(c)

ProgressInv == \A c \in Calls : Progress(c)

(* No call has come anywhere at the start. *)
LEMMA ProgressInit == Init => ProgressInv
<1> SUFFICES ASSUME Init, NEW c \in Calls
             PROVE  Progress(c)
  BY DEF ProgressInv
<1>1. /\ pc[c] = "start" /\ next[c] = 1 /\ seen[c] = {} /\ results[c] = <<>>
  BY DEF Init
<1>2. Answered(c) = {} /\ Named(c, next[c] - 1) = {}
  BY <1>1 DEF Answered, Named
<1>3. IsFiniteSet({}) /\ Cardinality({}) = 0
  BY FS_EmptySet
<1>4. InTheirOrder(c)
  BY <1>1 DEF InTheirOrder
<1>5. QED
  BY <1>1, <1>2, <1>3, <1>4, DecisionLen DEF Progress, Looping

(* The progress of a call is its own: it reads nothing another call writes. *)
LEMMA ProgressFrame ==
    ASSUME NEW c \in Calls, Progress(c),
           UNCHANGED <<mode, pc[c], next[c], seen[c], results[c]>>
    PROVE  Progress(c)'
<1>1. /\ Answered(c)' = Answered(c) /\ Current(c)' = Current(c)
      /\ Named(c, next[c] - 1)' = Named(c, next[c] - 1)
      /\ InTheirOrder(c)' = InTheirOrder(c)
  BY DEF Answered, Current, Named, InTheirOrder, IsNamedBefore
<1>2. QED
  BY <1>1 DEF Progress

(* One answer for the employee whose turn it is, and on to the next place. *)
LEMMA ProgressAnswers ==
    ASSUME TypeInv, NEW c \in Calls, Progress(c), pc[c] = "publish",
           NEW ok \in BOOLEAN, Answers(c, ok, "loop"), UNCHANGED mode
    PROVE  Progress(c)'
<1> DEFINE r == [employee |-> Current(c), ok |-> ok]
           n == next[c]
<1>1. /\ n <= Len(EmployeesOf[c]) /\ Current(c) # Blank /\ n \in Nat \ {0}
      /\ Current(c) = EmployeesOf[c][n]
      /\ TypeOK
  BY DEF TypeInv, TypeOK, Aimed, Current
<1>2. r \in Result /\ results[c] \in Seq(Result)
  BY <1>1, CurrentType DEF Result, TypeOK
<1>3. /\ pc'[c] = "loop" /\ next'[c] = n + 1 /\ seen'[c] = seen[c]
      /\ results'[c] = Append(results[c], r)
  BY <1>1 DEF Answers, Goto, TypeOK
<1>4. Answered(c)' = Answered(c) \cup {Current(c)}
  <2>1. Answered(c)' = {Append(results[c], r)[i].employee :
                           i \in 1..Len(Append(results[c], r))}
    BY <1>3 DEF Answered
  <2>2. {Append(results[c], r)[i].employee : i \in 1..Len(Append(results[c], r))}
            = Answered(c) \cup {r.employee}
    BY <1>2, AnswersGrow DEF Answered
  <2>3. r.employee = Current(c)
    OBVIOUS
  <2>4. QED
    BY <2>1, <2>2, <2>3
<1>5. Named(c, next[c] - 1)' = Named(c, n - 1) \cup {Current(c)}
  <2>1. next'[c] - 1 = n
    BY <1>1, <1>3
  <2>2. Named(c, n) = Named(c, n - 1) \cup ({EmployeesOf[c][n]} \ {Blank})
    BY <1>1, NamedGrows
  <2>3. QED
    BY <1>1, <2>1, <2>2 DEF Named
<1>6. /\ Answered(c) = Named(c, n - 1) /\ Current(c) \notin Answered(c)
      /\ seen[c] = Answered(c) \cup {Current(c)}
      /\ IsFiniteSet(Answered(c)) /\ Len(results[c]) = Cardinality(Answered(c))
      /\ mode = "enabled" /\ Len(EmployeesOf[c]) > 0
  BY DEF Progress
<1>7. /\ IsFiniteSet(Answered(c)') 
      /\ Cardinality(Answered(c)') = Cardinality(Answered(c)) + 1
  <2>1. /\ IsFiniteSet(Answered(c) \cup {Current(c)})
        /\ Cardinality(Answered(c) \cup {Current(c)}) = Cardinality(Answered(c)) + 1
    BY <1>6, FS_AddElement
  <2>2. QED
    BY <1>4, <2>1
<1>8. Len(results'[c]) = Len(results[c]) + 1
  BY <1>2, <1>3, AppendProperties
<1>9. n + 1 <= Len(EmployeesOf[c]) + 1
  BY <1>1, DecisionLen
<1>10. InTheirOrder(c)'
  <2>1. r.employee = Current(c) /\ n \in 1..Len(EmployeesOf[c])
    BY <1>1, DecisionLen
  <2>2. InTheirOrder(c)
    BY DEF Progress
  <2> HIDE DEF r, n
  <2>3. QED
    BY <1>1, <1>2, <1>3, <1>6, <2>1, <2>2, OrderGrows
<1>11. QED
  BY <1>3, <1>4, <1>5, <1>6, <1>7, <1>8, <1>9, <1>10 DEF Progress, Looping

(* Every step leaves each call answered for the places it has passed. *)
LEMMA ProgressStep == TypeInv /\ ProgressInv /\ [Next]_vars => ProgressInv'
<1> SUFFICES ASSUME TypeInv, ProgressInv, [Next]_vars, NEW c \in Calls
             PROVE  Progress(c)'
  BY DEF ProgressInv
<1>0. TypeOK /\ Aimed /\ Progress(c) /\ Len(EmployeesOf[c]) \in Nat
  BY DecisionLen DEF TypeInv, ProgressInv
<1> USE DEF msgVars, loopVars, natsVars, connVars, sharedVars
<1>1. CASE UNCHANGED <<mode, msgVars, pc, loopVars>>
  BY <1>0, <1>1, ProgressFrame
<1>2. ASSUME NEW d \in Calls, NEW e \in Employee, ArrivesLate(d, e)
      PROVE  Progress(c)'
  BY <1>0, <1>2, ProgressFrame DEF ArrivesLate
<1>3. ASSUME NEW d \in Calls,
             Prepares(d) \/ Ends(d) \/ PassesOver(d) \/ TakesUp(d) \/ Publish(d),
             c # d
      PROVE  Progress(c)'
  <2>1. UNCHANGED <<mode, pc[c], next[c], seen[c], results[c]>>
    <3>1. CASE Prepares(d)
      BY <1>0, <1>3, <3>1 DEF Prepares, Goto, TypeOK
    <3>2. CASE Ends(d) \/ PassesOver(d) \/ TakesUp(d)
      BY <1>0, <1>3, <3>2 DEF Ends, PassesOver, TakesUp, Addresses, Goto, TypeOK
    <3>3. CASE Publish(d)
      BY <1>0, <1>3, <3>3
         DEF Publish, PublishStored, Retries, GivesUp, Fails, Answers, Goto, TypeOK
    <3>4. QED
      BY <1>3, <3>1, <3>2, <3>3
  <2>2. QED
    BY <1>0, <2>1, ProgressFrame
<1>4. CASE Prepares(c)
  <2>1. /\ UNCHANGED <<mode, next[c], seen[c], results[c]>>
        /\ pc[c] \notin Looping
        /\ pc'[c] # "publish" /\ pc'[c] # "done"
        /\ pc'[c] \notin {"start", "skipped"} =>
              mode = "enabled" /\ Len(EmployeesOf[c]) > 0
    BY <1>0, <1>4 DEF Prepares, Goto, TypeOK, Progress
  <2>2. /\ Answered(c)' = Answered(c)
        /\ Named(c, next[c] - 1)' = Named(c, next[c] - 1)
        /\ InTheirOrder(c)' = InTheirOrder(c)
    BY <2>1 DEF Answered, Named, InTheirOrder, IsNamedBefore
  <2>3. QED
    BY <1>0, <2>1, <2>2 DEF Progress, Looping
<1>5. CASE Ends(c)
  <2>1. /\ UNCHANGED <<mode, next[c], seen[c], results[c]>>
        /\ pc[c] = "loop" /\ pc'[c] = "done" /\ next[c] > Len(EmployeesOf[c])
        /\ next[c] \in Nat
    BY <1>0, <1>5 DEF Ends, Goto, TypeOK
  <2>2. /\ Answered(c)' = Answered(c)
        /\ Named(c, next[c] - 1)' = Named(c, next[c] - 1)
        /\ InTheirOrder(c)' = InTheirOrder(c)
    BY <2>1 DEF Answered, Named, InTheirOrder, IsNamedBefore
  <2>3. QED
    BY <1>0, <2>1, <2>2 DEF Progress, Looping
<1>6. CASE PassesOver(c)
  <2>1. /\ UNCHANGED <<mode, pc[c], seen[c], results[c]>>
        /\ pc[c] = "loop" /\ next'[c] = next[c] + 1 /\ next[c] \in Nat \ {0}
        /\ next[c] <= Len(EmployeesOf[c])
        /\ EmployeesOf[c][next[c]] \in seen[c] \cup {Blank}
    BY <1>0, <1>6 DEF PassesOver, TypeOK, Current
  <2>2. Answered(c)' = Answered(c) /\ InTheirOrder(c)' = InTheirOrder(c)
    BY <2>1 DEF Answered, InTheirOrder, IsNamedBefore
  <2>3. Named(c, next[c] - 1)' = Named(c, next[c] - 1)
    <3>1. next'[c] - 1 = next[c]
      BY <2>1
    <3>2. Named(c, next[c]) = Named(c, next[c] - 1)
      <4>1. seen[c] = Named(c, next[c] - 1)
        BY <1>0, <2>1 DEF Progress
      <4>2. {EmployeesOf[c][next[c]]} \ {Blank} \subseteq Named(c, next[c] - 1)
        BY <2>1, <4>1
      <4>3. Named(c, next[c]) = Named(c, next[c] - 1)
                                   \cup ({EmployeesOf[c][next[c]]} \ {Blank})
        BY <2>1, NamedGrows
      <4>4. QED
        BY <4>2, <4>3
    <3>3. QED
      BY <3>1, <3>2 DEF Named
  <2>4. QED
    BY <1>0, <2>1, <2>2, <2>3 DEF Progress, Looping
<1>7. CASE TakesUp(c)
  <2>1. /\ UNCHANGED <<mode, next[c], results[c]>>
        /\ pc[c] = "loop" /\ pc'[c] = "publish"
        /\ seen'[c] = seen[c] \cup {Current(c)} /\ Current(c) \notin seen[c]
    BY <1>0, <1>7 DEF TakesUp, Addresses, Goto, TypeOK
  <2>2. /\ Answered(c)' = Answered(c) /\ Current(c)' = Current(c)
        /\ Named(c, next[c] - 1)' = Named(c, next[c] - 1)
        /\ InTheirOrder(c)' = InTheirOrder(c)
    BY <2>1 DEF Answered, Named, Current, InTheirOrder, IsNamedBefore
  <2>3. QED
    BY <1>0, <2>1, <2>2 DEF Progress, Looping
<1>8. CASE Publish(c)
  <2>1. ASSUME NEW ok \in BOOLEAN, Answers(c, ok, "loop"),
               pc[c] = "publish", UNCHANGED mode
        PROVE  Progress(c)'
    BY <1>0, <2>1, ProgressAnswers
  <2>2. CASE PublishStored(c)
    BY <2>1, <2>2 DEF PublishStored
  <2>3. ASSUME NEW err \in Errors, Retries(c, err)
        PROVE  Progress(c)'
    BY <1>0, <2>3, ProgressFrame DEF Retries, Fails
  <2>4. ASSUME NEW err \in Errors, GivesUp(c, err)
        PROVE  Progress(c)'
    BY <2>1, <2>4 DEF GivesUp, Fails
  <2>5. QED
    BY <1>8, <2>2, <2>3, <2>4 DEF Publish
<1>9. QED
  BY <1>1, <1>2, <1>3, <1>4, <1>5, <1>6, <1>7, <1>8, LoopSteps

(* EveryTargetIsAnswered always holds: a call that gets to the end of the  *)
(* loop has answered once for every distinct employee, in the order of the *)
(* decision, whatever failed.                                              *)
THEOREM AnswersAreComplete == Spec => []EveryTargetIsAnswered
<1>1. TypeInv /\ ProgressInv => EveryTargetIsAnswered
  <2> SUFFICES ASSUME TypeInv, NEW c \in Calls, Progress(c), pc[c] = "done"
               PROVE  /\ Answered(c) = Targets(c)
                      /\ Len(results[c]) = Cardinality(Targets(c))
                      /\ InTheirOrder(c)
    BY DEF ProgressInv, EveryTargetIsAnswered, Answered, InTheirOrder
  <2>1. next[c] - 1 = Len(EmployeesOf[c])
    BY DecisionLen DEF Progress
  <2>2. QED
    BY <2>1 DEF Progress, Named, Targets
<1>2. QED
  BY TypeInit, TypeStep, ProgressInit, ProgressStep, <1>1, PTL DEF Spec

------------------------------------------------------------------------------
(* The messages. *)

Copies(c, e) == stored[c][e] + inFlight[c][e]

(* Nothing is published for an employee the call has not addressed; while  *)
(* it publishes for one, every copy comes of an attempt that failed; and   *)
(* each OK stands for a message in the stream.                             *)
CopiesInv ==
    \A c \in Calls :
        /\ \A e \in Employee : /\ Copies(c, e) <= MaxAttempts
                               /\ e \notin seen[c] => Copies(c, e) = 0
        /\ pc[c] = "publish" => Copies(c, Current(c)) < attempt[c]
        /\ \A i \in 1..Len(results[c]) :
              results[c][i].ok => stored[c][results[c][i].employee] > 0

(* The counts of messages are numbers. *)
LEMMA CopiesType ==
    ASSUME TypeOK, NEW c \in Calls, NEW e \in Employee
    PROVE  stored[c][e] \in Nat /\ inFlight[c][e] \in Nat
BY DEF TypeOK, Counts

(* The answers of a call are results about employees. *)
LEMMA AnswerType ==
    ASSUME TypeOK, NEW c \in Calls, NEW i \in 1..Len(results[c])
    PROVE  results[c] \in Seq(Result) /\ results[c][i].employee \in Employee
<1>1. results[c] \in Seq(Result)
  BY DEF TypeOK, Result
<1>2. results[c][i] \in Result
  BY <1>1, ElementOfSeq
<1>3. QED
  BY <1>1, <1>2 DEF Result

(* Nothing is published at the start. *)
LEMMA CopiesInit == Init => CopiesInv
<1> SUFFICES ASSUME Init, NEW c \in Calls
             PROVE  /\ \A e \in Employee : /\ Copies(c, e) <= MaxAttempts
                                           /\ e \notin seen[c] => Copies(c, e) = 0
                    /\ pc[c] # "publish"
                    /\ Len(results[c]) = 0
  BY DEF CopiesInv
<1>1. \A e \in Employee : Copies(c, e) = 0
  BY DEF Init, Copies
<1>2. QED
  BY <1>1, MaxAttemptsType DEF Init

(* One more OK, or a failure, at the end of a call's answers. *)
LEMMA OkStep ==
    ASSUME TypeInv, NEW c \in Calls, pc[c] = "publish", NEW ok \in BOOLEAN,
           \A i \in 1..Len(results[c]) :
               results[c][i].ok => stored[c][results[c][i].employee] > 0,
           \A e \in Employee : stored'[c][e] >= stored[c][e] /\ stored'[c][e] \in Nat,
           ok => stored'[c][Current(c)] > 0,
           Answers(c, ok, "loop")
    PROVE  \A i \in 1..Len(results'[c]) :
               results'[c][i].ok => stored'[c][results'[c][i].employee] > 0
<1> DEFINE r == [employee |-> Current(c), ok |-> ok]
<1>1. Current(c) \in Employee /\ TypeOK
  BY CurrentType DEF TypeInv, Aimed
<1>2. r \in Result /\ results[c] \in Seq(Result)
  BY <1>1 DEF Result, TypeOK
<1>3. results'[c] = Append(results[c], r)
  BY <1>1 DEF Answers, TypeOK
<1> HIDE DEF r
<1>4. /\ Len(results'[c]) = Len(results[c]) + 1 /\ Len(results[c]) \in Nat
      /\ \A i \in 1..Len(results[c]) : results'[c][i] = results[c][i]
      /\ results'[c][Len(results[c]) + 1] = r
  BY <1>2, <1>3, AppendProperties
<1>5. ASSUME NEW i \in 1..Len(results'[c]), results'[c][i].ok
      PROVE  stored'[c][results'[c][i].employee] > 0
  <2>1. CASE i \in 1..Len(results[c])
    <3>1. results[c][i].employee \in Employee
      BY <1>1, <2>1, AnswerType
    <3>2. results'[c][i] = results[c][i]
      BY <1>4, <2>1
    <3>3. stored[c][results[c][i].employee] > 0
      BY <1>5, <2>1, <3>2
    <3>4. QED
      BY <1>1, <3>1, <3>2, <3>3, CopiesType
  <2>2. CASE i = Len(results[c]) + 1
    BY <1>4, <1>5, <2>2 DEF r
  <2>3. QED
    BY <1>4, <2>1, <2>2
<1>6. QED
  BY <1>5

(* A copy is made by an attempt, or moved from the wire to the stream. *)
LEMMA CopiesStep == TypeInv /\ ProgressInv /\ CopiesInv /\ [Next]_vars => CopiesInv'
<1> DEFINE Fine(c) ==
        /\ \A e \in Employee : /\ Copies(c, e) <= MaxAttempts
                               /\ e \notin seen[c] => Copies(c, e) = 0
        /\ pc[c] = "publish" => Copies(c, Current(c)) < attempt[c]
        /\ \A i \in 1..Len(results[c]) :
              results[c][i].ok => stored[c][results[c][i].employee] > 0
<1> SUFFICES ASSUME TypeInv, ProgressInv, CopiesInv, [Next]_vars, NEW c \in Calls
             PROVE  Fine(c)'
  BY DEF CopiesInv
<1>0. TypeOK /\ Aimed /\ Progress(c) /\ Fine(c)
  BY DEF TypeInv, ProgressInv, CopiesInv
<1> USE DEF msgVars, loopVars, natsVars, connVars, sharedVars
<1>1. ASSUME UNCHANGED <<stored[c], inFlight[c], pc[c], next[c], seen[c], attempt[c],
                         results[c]>>
      PROVE  Fine(c)'
  BY <1>0, <1>1 DEF Copies, Current
<1>2. CASE UNCHANGED <<mode, msgVars, pc, loopVars>>
  BY <1>1, <1>2
<1>3. ASSUME NEW d \in Calls, NEW e \in Employee, ArrivesLate(d, e)
      PROVE  Fine(c)'
  <2>1. inFlight[d][e] > 0 /\ stored \in Counts /\ inFlight \in Counts
    BY <1>0, <1>3 DEF ArrivesLate, TypeOK
  <2>2. \A x \in Employee :
            /\ stored'[c][x] = IF c = d /\ x = e THEN stored[c][x] + 1 ELSE stored[c][x]
            /\ inFlight'[c][x] = IF c = d /\ x = e THEN inFlight[c][x] - 1
                                 ELSE inFlight[c][x]
    <3>1. stored' = Up(stored, d, e) /\ inFlight' = Down(inFlight, d, e)
      BY <1>3 DEF ArrivesLate, Up, Down
    <3>2. QED
      BY <2>1, <3>1, CountUp, CountDown
  <2>3. \A x \in Employee : Copies(c, x)' = Copies(c, x) /\ stored'[c][x] >= stored[c][x]
    <3>1. \A x \in Employee : stored[c][x] \in Nat /\ inFlight[c][x] \in Nat
      BY <1>0, CopiesType
    <3>2. ASSUME NEW x \in Employee
          PROVE  /\ stored'[c][x] + inFlight'[c][x] = stored[c][x] + inFlight[c][x]
                 /\ stored'[c][x] >= stored[c][x]
      <4>1. stored[c][x] \in Nat /\ inFlight[c][x] \in Nat
        BY <3>1
      <4>2. CASE c = d /\ x = e
        <5>1. stored'[c][x] = stored[c][x] + 1 /\ inFlight'[c][x] = inFlight[c][x] - 1
          BY <2>2, <4>2
        <5>2. \A m \in Nat, n \in Nat : (m + 1) + (n - 1) = m + n /\ m + 1 >= m
          OBVIOUS
        <5>3. QED
          BY ZenonT(30), <4>1, <5>1, <5>2
      <4>3. CASE ~(c = d /\ x = e)
        BY <2>2, <4>1, <4>3
      <4>4. QED
        BY <4>2, <4>3
    <3>3. QED
      BY <3>2 DEF Copies
  <2>4. pc[c] = "publish" => Current(c) \in Employee
    BY <1>0, CurrentType DEF Aimed
  <2>5. UNCHANGED <<pc, next, seen, attempt, results>>
    BY <1>3 DEF ArrivesLate
  <2>6. Current(c)' = Current(c)
    BY <2>5 DEF Current
  <2>7. \A i \in 1..Len(results[c]) :
            results[c][i].ok => stored'[c][results[c][i].employee] > 0
    <3>1. ASSUME NEW i \in 1..Len(results[c]), results[c][i].ok
          PROVE  stored'[c][results[c][i].employee] > 0
      <4>1. results[c][i].employee \in Employee
        BY <1>0, AnswerType
      <4>2. stored[c][results[c][i].employee] > 0
        BY <1>0, <3>1
      <4>3. QED
        BY SMTT(30), <1>0, <2>2, <4>1, <4>2, CopiesType
    <3>2. QED
      BY <3>1
  <2>8. pc'[c] = "publish" => Copies(c, Current(c))' < attempt'[c]
    BY <1>0, <2>3, <2>4, <2>5, <2>6 DEF Copies
  <2>9. QED
    BY <1>0, <2>3, <2>5, <2>7, <2>8 DEF Copies
<1>4. ASSUME NEW d \in Calls,
             Prepares(d) \/ Ends(d) \/ PassesOver(d) \/ TakesUp(d) \/ Publish(d),
             c # d
      PROVE  Fine(c)'
  <2>1. CASE Prepares(d)
    BY <1>0, <1>1, <1>4, <2>1 DEF Prepares, Goto, TypeOK
  <2>2. CASE Ends(d) \/ PassesOver(d) \/ TakesUp(d)
    BY <1>0, <1>1, <1>4, <2>2 DEF Ends, PassesOver, TakesUp, Addresses, Goto, TypeOK
  <2>3. CASE Publish(d)
    <3>1. UNCHANGED <<pc[c], next[c], seen[c], attempt[c], results[c]>>
      BY <1>0, <1>4, <2>3
         DEF Publish, PublishStored, Retries, GivesUp, Fails, Answers, Goto, TypeOK
    <3>2. UNCHANGED <<stored[c], inFlight[c]>>
      BY <1>0, <1>4, <2>3
         DEF Publish, PublishStored, Retries, GivesUp, Fails, TypeOK, Counts
    <3>3. QED
      BY <1>1, <3>1, <3>2
  <2>4. QED
    BY <1>4, <2>1, <2>2, <2>3
<1>5. CASE Prepares(c) \/ Ends(c) \/ PassesOver(c)
  <2>1. /\ UNCHANGED <<stored[c], inFlight[c], seen[c], results[c]>>
        /\ pc'[c] # "publish"
    BY <1>0, <1>5 DEF Prepares, Ends, PassesOver, Goto, TypeOK
  <2>2. QED
    BY <1>0, <2>1 DEF Copies
<1>6. CASE TakesUp(c)
  <2>1. /\ UNCHANGED <<stored[c], inFlight[c], next[c], results[c]>>
        /\ seen'[c] = seen[c] \cup {Current(c)} /\ Current(c) \notin seen[c]
        /\ pc'[c] = "publish" /\ attempt'[c] = 1
        /\ Current(c) \in Employee
    BY <1>0, <1>6, CurrentType DEF TakesUp, Addresses, Goto, TypeOK
  <2>2. Current(c)' = Current(c) /\ \A x \in Employee : Copies(c, x)' = Copies(c, x)
    BY <2>1 DEF Current, Copies
  <2>3. Copies(c, Current(c))' = 0
    BY <1>0, <2>1, <2>2 DEF Copies
  <2>4. QED
    BY <1>0, <2>1, <2>2, <2>3 DEF Copies
<1>7. CASE Publish(c)
  <2>1. /\ pc[c] = "publish" /\ Current(c) \in Employee
        /\ Copies(c, Current(c)) < attempt[c]
        /\ attempt[c] \in 0..MaxAttempts
        /\ Current(c) \in seen[c]
    BY <1>0, <1>7, CurrentType
       DEF Publish, PublishStored, Retries, GivesUp, Fails, Aimed, TypeOK, Progress
  <2>2. CASE PublishStored(c)
    <3>1. \A x \in Employee :
              stored'[c][x] = IF x = Current(c) THEN stored[c][x] + 1 ELSE stored[c][x]
      <4>1. stored \in Counts /\ stored' = Up(stored, c, Current(c))
        BY <1>0, <2>2 DEF TypeOK, PublishStored, Up
      <4>2. QED
        BY <2>1, <4>1, CountUp
    <3>2. inFlight'[c] = inFlight[c] /\ seen'[c] = seen[c] /\ pc'[c] = "loop"
      BY <1>0, <2>2 DEF PublishStored, Answers, Goto, TypeOK
    <3>3. \A x \in Employee : /\ Copies(c, x)' <= MaxAttempts
                              /\ x \notin seen'[c] => Copies(c, x)' = 0
      <4> SUFFICES ASSUME NEW x \in Employee
                   PROVE  /\ Copies(c, x)' <= MaxAttempts
                          /\ x \notin seen'[c] => Copies(c, x)' = 0
        OBVIOUS
      <4>1. /\ stored[c][x] \in Nat /\ inFlight[c][x] \in Nat
            /\ attempt[c] \in Int /\ MaxAttempts \in Int
        BY <1>0, <2>1, CopiesType, MaxAttemptsType
      <4>2. CASE x = Current(c)
        <5>1. Copies(c, x)' = Copies(c, x) + 1
          <6>1. stored'[c][x] = stored[c][x] + 1
            BY <3>1, <4>2
          <6>2. inFlight'[c][x] = inFlight[c][x]
            BY <3>2
          <6>3. \A a, b \in Nat : (a + 1) + b = (a + b) + 1
            OBVIOUS
          <6>4. (stored[c][x] + 1) + inFlight[c][x] = (stored[c][x] + inFlight[c][x]) + 1
            BY <4>1, <6>3
          <6>5. QED
            BY <6>1, <6>2, <6>4 DEF Copies
        <5>2. /\ Copies(c, x) \in Nat /\ Copies(c, x) < attempt[c]
              /\ attempt[c] <= MaxAttempts
          <6>1. Copies(c, x) \in Nat
            BY <4>1 DEF Copies
          <6> HIDE DEF Copies
          <6>2. QED
            BY <2>1, <4>1, <4>2, <6>1
        <5>3. Copies(c, x)' <= MaxAttempts
          BY <4>1, <5>1, <5>2
        <5>4. QED
          BY <2>1, <3>2, <4>2, <5>3
      <4>3. CASE x # Current(c)
        <5>1. Copies(c, x)' = Copies(c, x)
          BY <3>1, <3>2, <4>3 DEF Copies
        <5>2. QED
          BY <1>0, <3>2, <5>1
      <4>4. QED
        BY <4>2, <4>3
    <3>4. \A i \in 1..Len(results'[c]) :
              results'[c][i].ok => stored'[c][results'[c][i].employee] > 0
      <4>1. \A x \in Employee : stored[c][x] \in Nat
        BY <1>0, CopiesType
      <4>2. \A x \in Employee : stored'[c][x] >= stored[c][x] /\ stored'[c][x] \in Nat
        BY <3>1, <4>1
      <4>3. stored'[c][Current(c)] > 0
        BY <2>1, <3>1, <4>1
      <4>4. Answers(c, TRUE, "loop")
        BY <2>2 DEF PublishStored
      <4>5. QED
        BY <1>0, <2>1, <4>2, <4>3, <4>4, OkStep
    <3>5. QED
      BY <3>2, <3>3, <3>4
  <2>3. ASSUME NEW err \in Errors, Fails(c, err)
        PROVE  /\ \A x \in Employee : stored'[c][x] = stored[c][x]
               /\ \A x \in Employee : x # Current(c) => Copies(c, x)' = Copies(c, x)
               /\ Copies(c, Current(c)) \in Nat
               /\ stored'[c][Current(c)] + inFlight'[c][Current(c)]
                     \in {Copies(c, Current(c)), Copies(c, Current(c)) + 1}
    <3>1. stored' = stored
      BY <2>3 DEF Fails
    <3>2. \/ inFlight' = inFlight
          \/ \A x \in Employee :
                inFlight'[c][x] = IF x = Current(c) THEN inFlight[c][x] + 1
                                  ELSE inFlight[c][x]
      <4>1. /\ inFlight \in Counts
            /\ inFlight' = inFlight \/ inFlight' = Up(inFlight, c, Current(c))
        BY <1>0, <2>3 DEF TypeOK, Fails, Up
      <4>2. QED
        BY <2>1, <4>1, CountUp
    <3>3. QED
      BY <1>0, <2>1, <3>1, <3>2, CopiesType DEF Copies
  <2>4. ASSUME NEW err \in Errors, Retries(c, err)
        PROVE  Fine(c)'
    <3>1. /\ UNCHANGED <<pc[c], next[c], seen[c], results[c]>>
          /\ attempt'[c] = attempt[c] + 1 /\ attempt[c] < MaxAttempts
          /\ Fails(c, err)
      BY <1>0, <2>4 DEF Retries, TypeOK
    <3>2. Current(c)' = Current(c)
      BY <3>1 DEF Current
    <3>3. Copies(c, Current(c))' < attempt'[c]
      BY <2>1, <2>3, <3>1, <3>2 DEF Copies
    <3>4. \A x \in Employee : /\ Copies(c, x)' <= MaxAttempts
                              /\ x \notin seen'[c] => Copies(c, x)' = 0
      BY <1>0, <2>1, <2>3, <3>1, <3>2, <3>3, MaxAttemptsType DEF Copies
    <3>5. \A i \in 1..Len(results'[c]) :
              results'[c][i].ok => stored'[c][results'[c][i].employee] > 0
      BY <1>0, <2>3, <3>1, AnswerType
    <3>6. QED
      BY <3>3, <3>4, <3>5
  <2>5. ASSUME NEW err \in Errors, GivesUp(c, err)
        PROVE  Fine(c)'
    <3>1. /\ seen'[c] = seen[c] /\ pc'[c] = "loop"
          /\ Fails(c, err) /\ Answers(c, FALSE, "loop")
      BY <1>0, <2>5 DEF GivesUp, Answers, Goto, TypeOK
    <3>2. stored'[c][Current(c)] + inFlight'[c][Current(c)] <= MaxAttempts
      BY <2>1, <2>3, <3>1, MaxAttemptsType
    <3>3. \A x \in Employee : /\ Copies(c, x)' <= MaxAttempts
                              /\ x \notin seen'[c] => Copies(c, x)' = 0
      BY <1>0, <2>1, <2>3, <3>1, <3>2 DEF Copies
    <3>4. \A i \in 1..Len(results'[c]) :
              results'[c][i].ok => stored'[c][results'[c][i].employee] > 0
      <4>1. \A x \in Employee : stored'[c][x] >= stored[c][x] /\ stored'[c][x] \in Nat
        BY <1>0, <2>3, <3>1, CopiesType
      <4>2. QED
        BY <1>0, <2>1, <3>1, <4>1, OkStep
    <3>5. QED
      BY <3>1, <3>3, <3>4
  <2>6. QED
    BY <1>7, <2>2, <2>4, <2>5 DEF Publish
<1>8. QED
  BY <1>2, <1>3, <1>4, <1>5, <1>6, <1>7, LoopSteps

DispatchInv == TypeInv /\ ProgressInv /\ CopiesInv

(* The invariants of the calls hold together. *)
LEMMA DispatchInvCorrect == Spec => []DispatchInv
<1>1. Init => DispatchInv
  BY TypeInit, ProgressInit, CopiesInit DEF DispatchInv
<1>2. DispatchInv /\ [Next]_vars => DispatchInv'
  BY TypeStep, ProgressStep, CopiesStep DEF DispatchInv
<1>3. QED
  BY <1>1, <1>2, PTL DEF Spec

(* OkMeansStored always holds: no result says OK of a message that the     *)
(* stream never got, whatever timed out before it.                         *)
THEOREM OkIsBacked == Spec => []OkMeansStored
<1>1. DispatchInv => OkMeansStored
  BY DEF DispatchInv, CopiesInv, OkMeansStored
<1>2. QED
  BY DispatchInvCorrect, <1>1, PTL

(* CopiesAreBounded always holds: however timeouts and late arrivals mix,  *)
(* an employee gets no more copies than one publish has attempts.          *)
THEOREM RetriesAreBounded == Spec => []CopiesAreBounded
<1>1. DispatchInv => CopiesAreBounded
  BY DEF DispatchInv, CopiesInv, CopiesAreBounded, Copies
<1>2. QED
  BY DispatchInvCorrect, <1>1, PTL

------------------------------------------------------------------------------
(* The calls deliver as Delivery promises.  OutcomeAt and SentIn are the   *)
(* values Promise substitutes for outcome and sent.                        *)

OutcomeAt(labels) ==
    [c \in Calls |-> CASE labels[c] = "done" -> "answered"
                       [] labels[c] \in {"skipped", "failed"} -> labels[c]
                       [] OTHER -> "open"]

SentIn(messages) == {p \in Calls \X Employee : messages[p[1]][p[2]] > 0}

(* The outcome of a call is open until it ends. *)
LEMMA OutcomeValue ==
    ASSUME NEW labels, NEW c \in Calls
    PROVE  OutcomeAt(labels)[c] = IF labels[c] = "done" THEN "answered"
                                  ELSE IF labels[c] \in {"skipped", "failed"}
                                       THEN labels[c]
                                  ELSE "open"
BY DEF OutcomeAt

(* A call that goes on leaves every outcome as it was. *)
LEMMA OutcomeOpen ==
    ASSUME NEW labels, NEW c \in Calls, NEW label,
           labels[c] \notin {"skipped", "failed", "done"},
           label \notin {"skipped", "failed", "done"}
    PROVE  OutcomeAt([labels EXCEPT ![c] = label]) = OutcomeAt(labels)
BY DEF OutcomeAt

(* A call that ends gets its outcome. *)
LEMMA OutcomeEnds ==
    ASSUME NEW S, NEW labels \in [Calls -> S], NEW c \in Calls,
           NEW label \in {"skipped", "failed", "done"}
    PROVE  OutcomeAt([labels EXCEPT ![c] = label])
               = [OutcomeAt(labels) EXCEPT
                     ![c] = IF label = "done" THEN "answered" ELSE label]
BY DEF OutcomeAt

(* A message more in the stream makes one call and employee more. *)
LEMMA SentMore ==
    ASSUME NEW f \in Counts, NEW c \in Calls, NEW e \in Employee
    PROVE  SentIn(Up(f, c, e)) = SentIn(f) \cup {<<c, e>>}
<1>1. ASSUME NEW d \in Calls, NEW x \in Employee
      PROVE  Up(f, c, e)[d][x] > 0 <=> f[d][x] > 0 \/ <<d, x>> = <<c, e>>
  <2>1. f[d][x] \in Nat
    BY DEF Counts
  <2>2. Up(f, c, e)[d][x] = IF d = c /\ x = e THEN f[d][x] + 1 ELSE f[d][x]
    BY CountUp
  <2>3. QED
    BY <2>1, <2>2
<1>2. QED
  BY <1>1 DEF SentIn

(* Delivery's actions, in those terms. *)
LEMMA PromiseAnswers ==
    ASSUME NEW c \in Calls, NEW e \in Employee, NEW ok \in BOOLEAN,
           OutcomeAt(pc)[c] = "open", ~Promise!Silent(c), Promise!IsNext(c, e),
           results' = [results EXCEPT ![c] = Append(@, [employee |-> e, ok |-> ok])],
           SentIn(stored') = IF ok THEN SentIn(stored) \cup {<<c, e>>} ELSE SentIn(stored),
           OutcomeAt(pc') = OutcomeAt(pc), mode' = mode
    PROVE  Promise!Next
<1>1. Promise!Answers(c, e, ok)
  BY DEF Promise!Answers, OutcomeAt, SentIn
<1>2. QED
  BY <1>1 DEF Promise!Next, Promise!Call

(* So with a message that arrives, *)
LEMMA PromiseSends ==
    ASSUME NEW c \in Calls, NEW e \in Employee,
           OutcomeAt(pc)[c] \in {"open", "answered"}, ~Promise!Silent(c),
           e \in Promise!Answered(c) \/ Promise!IsNext(c, e),
           SentIn(stored') = SentIn(stored) \cup {<<c, e>>},
           OutcomeAt(pc') = OutcomeAt(pc), UNCHANGED <<mode, results>>
    PROVE  Promise!Next
<1>1. Promise!IsSent(c, e)
  BY DEF Promise!IsSent, OutcomeAt, SentIn
<1>2. QED
  BY <1>1 DEF Promise!Next, Promise!Arrives

(* a call that returns, *)
LEMMA PromiseReturns ==
    ASSUME NEW c \in Calls, NEW how \in {"skipped", "failed", "answered"},
           OutcomeAt(pc)[c] = "open",
           how = "skipped" => Promise!Silent(c),
           how = "failed" => /\ ~Promise!Silent(c) /\ results[c] = <<>>
                             /\ \A e \in Promise!Targets(c) : <<c, e>> \notin SentIn(stored),
           how = "answered" => /\ ~Promise!Silent(c)
                               /\ Promise!Answered(c) = Promise!Targets(c),
           OutcomeAt(pc') = [OutcomeAt(pc) EXCEPT ![c] = how],
           UNCHANGED <<mode, results, stored>>
    PROVE  Promise!Next
<1>1. Promise!Returns(c, how)
  BY DEF Promise!Returns, OutcomeAt, SentIn
<1>2. QED
  BY <1>1 DEF Promise!Next, Promise!Call, Promise!Outcomes

(* and with what it does not see. *)
LEMMA PromiseStutters ==
    ASSUME OutcomeAt(pc') = OutcomeAt(pc), UNCHANGED <<mode, results, stored>>
    PROVE  UNCHANGED Promise!vars
BY DEF Promise!vars, OutcomeAt, SentIn

(* The employee a call publishes for is the next one of its decision. *)
LEMMA TurnIsNext ==
    ASSUME TypeInv, NEW c \in Calls, Progress(c), pc[c] = "publish"
    PROVE  Current(c) \in Employee /\ Promise!IsNext(c, Current(c))
<1>1. /\ next[c] \in 1..Len(EmployeesOf[c]) /\ Current(c) = EmployeesOf[c][next[c]]
      /\ Current(c) # Blank /\ TypeOK
  <2>1. /\ next[c] <= Len(EmployeesOf[c]) /\ Current(c) # Blank /\ TypeOK
    BY DEF TypeInv, Aimed
  <2>2. next[c] \in Nat \ {0} /\ Len(EmployeesOf[c]) \in Nat
    BY <2>1, DecisionLen DEF TypeOK
  <2>3. QED
    BY <2>1, <2>2 DEF Current
<1>2. /\ Answered(c) = Named(c, next[c] - 1) /\ Current(c) \notin Answered(c)
      /\ Answered(c) = Promise!Answered(c)
  BY DEF Progress, Answered, Promise!Answered
<1>3. Current(c) \in Promise!Targets(c) \ Promise!Answered(c)
  BY <1>1, <1>2 DEF Promise!Targets
<1>4. \A j \in 1..(next[c] - 1) : EmployeesOf[c][j] \in Promise!Answered(c) \cup {Blank}
  BY <1>2 DEF Named
<1>5. Promise!IsNext(c, Current(c))
  BY <1>1, <1>3, <1>4 DEF Promise!IsNext
<1>6. QED
  BY <1>1, <1>5, CurrentType

(* At the start nothing is answered and nothing sent. *)
LEMMA PromiseInit == Init => Promise!Init
<1> SUFFICES ASSUME Init
             PROVE  Promise!Init
  OBVIOUS
<1>1. OutcomeAt(pc) = [c \in Calls |-> "open"]
  BY DEF Init, OutcomeAt
<1>2. SentIn(stored) = {}
  BY DEF Init, SentIn
<1>3. mode \in Modes /\ results = [c \in Calls |-> <<>>]
  BY DEF Init
<1>4. QED
  BY <1>1, <1>2, <1>3 DEF Promise!Init, OutcomeAt, SentIn

(* Every step of the calls and of NATS is a step of the promise or none. *)
LEMMA PromiseStep == DispatchInv /\ [Next]_vars => [Promise!Next]_(Promise!vars)
<1> SUFFICES ASSUME DispatchInv, [Next]_vars
             PROVE  Promise!Next \/ UNCHANGED Promise!vars
  OBVIOUS
<1>0. /\ TypeOK /\ TypeInv /\ CopiesInv
      /\ \A c \in Calls : Progress(c) /\ Len(EmployeesOf[c]) \in Nat
  BY DecisionLen DEF DispatchInv, TypeInv, ProgressInv
<1>a. ASSUME NEW c \in Calls, pc[c] \in Looping
      PROVE  ~Promise!Silent(c)
  <2>1. mode = "enabled" /\ Len(EmployeesOf[c]) > 0
    BY <1>0, <1>a DEF Progress, Looping
  <2>2. QED
    BY <2>1 DEF Promise!Silent
<1> USE DEF msgVars, loopVars, natsVars, connVars, sharedVars
<1>1. CASE UNCHANGED <<mode, msgVars, pc, loopVars>>
  BY <1>1, PromiseStutters
<1>2. ASSUME NEW c \in Calls, NEW e \in Employee, ArrivesLate(c, e)
      PROVE  Promise!Next
  <2>1. /\ SentIn(stored') = SentIn(stored) \cup {<<c, e>>}
        /\ UNCHANGED <<mode, pc, results>>
        /\ inFlight[c][e] > 0
    <3>1. stored' = Up(stored, c, e) /\ stored \in Counts
      BY <1>0, <1>2 DEF ArrivesLate, Up, TypeOK
    <3>2. QED
      BY <1>2, <3>1, SentMore DEF ArrivesLate
  <2>2. e \in seen[c]
    <3>1. Copies(c, e) # 0
      BY <1>0, <2>1, CopiesType DEF Copies
    <3>2. QED
      BY <1>0, <3>1 DEF CopiesInv
  <2>3. pc[c] \in Looping
    BY <1>0, <2>2 DEF Progress
  <2>4. OutcomeAt(pc)[c] \in {"open", "answered"}
    BY <2>3, OutcomeValue DEF Looping
  <2>5. e \in Promise!Answered(c) \/ Promise!IsNext(c, e)
    <3>1. CASE e \in Answered(c)
      BY <3>1 DEF Answered, Promise!Answered
    <3>2. CASE pc[c] = "publish" /\ e = Current(c)
      BY <1>0, <3>2, TurnIsNext
    <3>3. QED
      BY <1>0, <2>2, <3>1, <3>2 DEF Progress
  <2>6. QED
    BY <1>a, <2>1, <2>3, <2>4, <2>5, PromiseSends
<1>3. ASSUME NEW c \in Calls, Prepares(c)
      PROVE  Promise!Next \/ UNCHANGED Promise!vars
  <2>1. /\ OutcomeAt(pc)[c] = "open" /\ UNCHANGED <<mode, results, stored>>
        /\ pc[c] \notin Looping \cup {"skipped", "failed"}
    BY <1>3, OutcomeValue DEF Prepares, Looping
  <2>2. CASE Goto(c, "skipped") /\ (mode # "enabled" \/ Len(EmployeesOf[c]) = 0)
    <3>1. OutcomeAt(pc') = [OutcomeAt(pc) EXCEPT ![c] = "skipped"]
      BY <1>0, <2>2, OutcomeEnds DEF Goto, TypeOK
    <3>2. Promise!Silent(c)
      BY <2>2 DEF Promise!Silent
    <3>3. QED
      BY <2>1, <3>1, <3>2, PromiseReturns
  <2>3. CASE /\ Goto(c, "failed")
             /\ pc[c] = "start" => mode = "enabled" /\ Len(EmployeesOf[c]) > 0
    <3>1. OutcomeAt(pc') = [OutcomeAt(pc) EXCEPT ![c] = "failed"]
      BY <1>0, <2>3, OutcomeEnds DEF Goto, TypeOK
    <3>2. mode = "enabled" /\ Len(EmployeesOf[c]) > 0
      BY <1>0, <2>1, <2>3 DEF Progress
    <3>3. ~Promise!Silent(c)
      BY <3>2 DEF Promise!Silent
    <3>4. results[c] = <<>> /\ seen[c] = {}
      BY <1>0, <2>1 DEF Progress
    <3>5. ASSUME NEW e \in Promise!Targets(c)
          PROVE  <<c, e>> \notin SentIn(stored)
      <4>1. e \in Employee => Copies(c, e) = 0
        BY <1>0, <3>4 DEF CopiesInv
      <4>2. e \in Employee => stored[c][e] = 0
        BY <1>0, <4>1, CopiesType DEF Copies
      <4>3. QED
        BY <4>2 DEF SentIn
    <3>6. QED
      BY <2>1, <3>1, <3>3, <3>4, <3>5, PromiseReturns
  <2>4. ASSUME NEW label \in {"lock", "check", "dial", "ensure", "stream_info",
                              "add_stream", "record", "loop"}, Goto(c, label)
        PROVE  UNCHANGED Promise!vars
    <3>1. OutcomeAt(pc') = OutcomeAt(pc)
      BY <2>1, <2>4, OutcomeOpen DEF Goto, Looping
    <3>2. QED
      BY <2>1, <3>1, PromiseStutters
  <2>5. QED
    BY <1>3, <2>2, <2>3, <2>4 DEF Prepares
<1>4. ASSUME NEW c \in Calls, Ends(c)
      PROVE  Promise!Next
  <2>1. /\ pc[c] = "loop" /\ next[c] > Len(EmployeesOf[c])
        /\ OutcomeAt(pc)[c] = "open" /\ UNCHANGED <<mode, results, stored>>
    BY <1>4, OutcomeValue DEF Ends
  <2>2. OutcomeAt(pc') = [OutcomeAt(pc) EXCEPT ![c] = "answered"]
    BY <1>0, <1>4, OutcomeEnds DEF Ends, Goto, TypeOK
  <2>3. next[c] - 1 = Len(EmployeesOf[c])
    <3>1. next[c] \in Nat /\ Len(EmployeesOf[c]) \in Nat
          /\ next[c] <= Len(EmployeesOf[c]) + 1
      BY <1>0 DEF TypeOK, Progress
    <3>2. QED
      BY <2>1, <3>1
  <2>4. Promise!Answered(c) = Promise!Targets(c)
    <3>1. Answered(c) = Named(c, Len(EmployeesOf[c]))
      BY <1>0, <2>3 DEF Progress
    <3>2. QED
      BY <3>1 DEF Answered, Named, Promise!Answered, Promise!Targets
  <2>5. ~Promise!Silent(c)
    BY <1>a, <2>1 DEF Looping
  <2>6. QED
    BY <2>1, <2>2, <2>4, <2>5, PromiseReturns
<1>5. ASSUME NEW c \in Calls, PassesOver(c)
      PROVE  UNCHANGED Promise!vars
  BY <1>5, PromiseStutters DEF PassesOver
<1>6. ASSUME NEW c \in Calls, TakesUp(c)
      PROVE  UNCHANGED Promise!vars
  <2>1. OutcomeAt(pc') = OutcomeAt(pc)
    BY <1>6, OutcomeOpen DEF TakesUp, Addresses, Goto
  <2>2. QED
    BY <1>6, <2>1, PromiseStutters DEF TakesUp, Addresses
<1>7. ASSUME NEW c \in Calls, Publish(c)
      PROVE  Promise!Next \/ UNCHANGED Promise!vars
  <2>1. pc[c] = "publish"
    BY <1>7 DEF Publish, PublishStored, Retries, GivesUp, Fails
  <2>2. /\ OutcomeAt(pc)[c] = "open" /\ ~Promise!Silent(c)
        /\ Current(c) \in Employee /\ Promise!IsNext(c, Current(c))
    BY <1>0, <1>a, <2>1, TurnIsNext, OutcomeValue DEF Looping
  <2>3. ASSUME NEW ok \in BOOLEAN, Answers(c, ok, "loop")
        PROVE  /\ OutcomeAt(pc') = OutcomeAt(pc)
               /\ results' = [results EXCEPT
                      ![c] = Append(@, [employee |-> Current(c), ok |-> ok])]
    BY <2>1, <2>3, OutcomeOpen DEF Answers, Goto
  <2>4. CASE PublishStored(c)
    <3>1. /\ Answers(c, TRUE, "loop") /\ mode' = mode
          /\ stored' = Up(stored, c, Current(c)) /\ stored \in Counts
      BY <1>0, <2>4 DEF PublishStored, Up, TypeOK
    <3>2. SentIn(stored') = SentIn(stored) \cup {<<c, Current(c)>>}
      BY <2>2, <3>1, SentMore
    <3>3. QED
      BY <2>2, <2>3, <3>1, <3>2, PromiseAnswers
  <2>5. ASSUME NEW err \in Errors, Retries(c, err)
        PROVE  UNCHANGED Promise!vars
    BY <2>5, PromiseStutters DEF Retries, Fails
  <2>6. ASSUME NEW err \in Errors, GivesUp(c, err)
        PROVE  Promise!Next
    <3>1. Answers(c, FALSE, "loop") /\ mode' = mode /\ stored' = stored
      BY <2>6 DEF GivesUp, Fails
    <3>2. QED
      BY <2>2, <2>3, <3>1, PromiseAnswers
  <2>7. QED
    BY <1>7, <2>4, <2>5, <2>6 DEF Publish
<1>8. QED
  BY <1>1, <1>2, <1>3, <1>4, <1>5, <1>6, <1>7, LoopSteps

(* The concurrent, retrying, reconnecting calls deliver as Delivery        *)
(* promises, with outcome and sent read off the calls and the stream.      *)
THEOREM DeliversWhatItPromises == Spec => DeliversAsPromised
BY DispatchInvCorrect, PromiseInit, PromiseStep, PTL
   DEF Spec, DeliversAsPromised, Promise!Spec
==============================================================================
