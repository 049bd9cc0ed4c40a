--------------------------- MODULE EventLoopProofs ---------------------------
(***************************************************************************)
(* Theorems about EventLoop, for every value of its constants.             *)
(***************************************************************************)
EXTENDS EventLoop, SequenceFacts

USE SizesAssumption, EnvelopeAssumption, BoundsAssumption

------------------------------------------------------------------------------
(* Types. *)

(* Right after main has started, every variable has a value of its type. *)
LEMMA TypeInit == Init => TypeOK
<1> SUFFICES ASSUME Init
             PROVE  TypeOK
  OBVIOUS
<1> USE DEF Init
<1>1. /\ inbox \in Seq(Item)
      /\ queue \in Seq(Envelope) /\ Len(queue) <= QueueSize
      /\ accepted \in Seq(Envelope) /\ taken \in Seq(Envelope)
  OBVIOUS
<1>2. /\ sent \in [Events -> 0..MaxDeliveries]
      /\ workerPc \in [Workers -> {"select", "handle", "set_gauge", "quit"}]
      /\ job \in [Workers -> Envelope \cup {NoEnvelope}]
      /\ workerDepth \in [Workers -> 0..QueueSize]
  OBVIOUS
<1>3. \A w \in Workers :
          job[w] \in IF workerPc[w] = "handle" THEN Envelope ELSE {NoEnvelope}
  OBVIOUS
<1>4. 0 \in 0..QueueSize /\ 0 \in 0..MaxLinkEvents /\ 0 \in 0..MaxRestarts
  OBVIOUS
<1>5. QED
  BY <1>1, <1>2, <1>3, <1>4 DEF TypeOK

(* Every step of the loop, a worker, the process, Slack or the client      *)
(* keeps every variable to its values.                                     *)
LEMMA TypeStep == TypeOK /\ [Next]_vars => TypeOK'
<1> SUFFICES ASSUME TypeOK, [Next]_vars
             PROVE  TypeOK'
  OBVIOUS
<1> USE DEF TypeOK, slackVars, linkVars, lifeVars, readyVars, loopVars,
            channelVars, workerVars, historyVars, processVars
<1>1. ASSUME NEW e \in Events, NEW shape \in Shapes, SlackDelivers(e, shape)
      PROVE  TypeOK'
  <2>1. [event |-> e, delivery |-> sent[e] + 1, shape |-> shape] \in Envelope
    BY <1>1 DEF SlackDelivers, Envelope
  <2>2. inbox' \in Seq(Item)
    BY <1>1, <2>1 DEF SlackDelivers, Push, Delivery, Item
  <2>3. QED
    BY <1>1, <2>2 DEF SlackDelivers
<1>2. ASSUME NEW v \in acksInFlight, SlackReceivesAck(v)
      PROVE  TypeOK'
  <2>1. /\ acksInFlight' \subseteq acksInFlight
        /\ slackAcked' = slackAcked \cup {v.event}
        /\ UNCHANGED <<sent, linkVars, inbox, processVars>>
    BY <1>2 DEF SlackReceivesAck
  <2>2. v.event \in Events
    BY <1>2 DEF Envelope
  <2>3. slackAcked' \subseteq Events /\ acksInFlight' \subseteq Envelope
    BY <2>1, <2>2
  <2>4. QED
    BY <2>1, <2>3
<1>3. ASSUME NEW type \in Reports, LinkReports(type)
      PROVE  TypeOK'
  <2>1. Report(type) \in Item
    BY DEF Report, Item
  <2>2. QED
    BY <1>3, <2>1 DEF LinkReports, Push
<1>4. CASE ClientReportsOther
  <2>1. Report("other") \in Item
    BY DEF Report, Item, Reports
  <2>2. QED
    BY <1>4, <2>1 DEF ClientReportsOther, Push
<1>5. CASE Loop
  <2>1. \A type : Receives(type) =>
            /\ inbox' \in Seq(Item)
            /\ Head(inbox) \in Item
            /\ type = "events_api" => Head(inbox).envelope \in Envelope
    <3>1. SUFFICES ASSUME NEW type, Receives(type)
                   PROVE  /\ inbox' \in Seq(Item)
                          /\ Head(inbox) \in Item
                          /\ type = "events_api" => Head(inbox).envelope \in Envelope
      OBVIOUS
    <3>2. Head(inbox) \in Item /\ inbox' \in Seq(Item)
      BY <3>1, HeadTailProperties DEF Receives
    <3>3. "events_api" \notin Reports
      BY DEF Reports
    <3>4. QED
      BY <3>1, <3>2, <3>3 DEF Receives, Item
  <2>2. CASE LoopSeesConnecting \/ LoopSeesConnectionError
             \/ LoopSeesConnected \/ LoopSeesDisconnect
             \/ LoopSeesInvalidAuth \/ LoopSeesOther \/ LoopDropsNilRequest
    BY ZenonT(30), <2>1, <2>2
       DEF LoopSeesConnecting, LoopSeesConnectionError, LoopSeesConnected,
           LoopSeesDisconnect, LoopSeesInvalidAuth, LoopSeesOther,
           LoopDropsNilRequest, OnlyReceives
  <2>3. CASE LoopDropsUnexpected
    BY SMTT(30), <2>1, <2>3 DEF LoopDropsUnexpected
  <2>4. CASE LoopAcks
    BY <2>1, <2>4 DEF LoopAcks
  <2>5. CASE LoopSends
    BY <2>5 DEF LoopSends, LetsGo, Enqueues
  <2>6. CASE LoopMeasures
    BY <2>6 DEF LoopMeasures
  <2>7. CASE LoopSetsGauge
    BY <2>7 DEF LoopSetsGauge
  <2>8. QED
    BY <1>5, <2>2, <2>3, <2>4, <2>5, <2>6, <2>7 DEF Loop
<1>6. ASSUME NEW w \in Workers, Worker(w)
      PROVE  TypeOK'
  <2>1. CASE WorkerReceives(w)
    <3>1. /\ Head(queue) \in Envelope
          /\ Tail(queue) \in Seq(Envelope)
          /\ Len(Tail(queue)) <= QueueSize
      BY <2>1, HeadTailProperties DEF WorkerReceives, Takes
    <3>2. QED
      BY SMTT(30), <2>1, <3>1 DEF WorkerReceives, Takes
  <2>2. CASE WorkerQuits(w)
    BY <2>2 DEF WorkerQuits
  <2>3. CASE WorkerHandles(w)
    BY <2>3 DEF WorkerHandles
  <2>4. CASE WorkerSetsGauge(w)
    BY <2>4 DEF WorkerSetsGauge, SetsGauge
  <2>5. QED
    BY <1>6, <2>1, <2>2, <2>3, <2>4 DEF Worker
<1>7. CASE Cancel \/ MainReturns \/ Crash \/ Restart
  <2>1. CASE Cancel
    BY <2>1 DEF Cancel
  <2>2. CASE ProcessEnds
    <3>1. lost' \subseteq Envelope
      BY <2>2, RangeOfSeq DEF ProcessEnds, InMemory
    <3>2. /\ workerPc' \in [Workers -> {"select", "handle", "set_gauge", "quit"}]
          /\ job' \in [Workers -> Envelope \cup {NoEnvelope}]
          /\ \A w \in Workers : workerPc'[w] # "handle" /\ job'[w] = NoEnvelope
          /\ workerDepth' \in [Workers -> 0..QueueSize]
      BY <2>2 DEF ProcessEnds
    <3>3. /\ inbox' \in Seq(Item)
          /\ queue' \in Seq(Envelope) /\ Len(queue') <= QueueSize
          /\ accepted' \in Seq(Envelope) /\ taken' \in Seq(Envelope)
          /\ 0 \in 0..QueueSize
      BY <2>2 DEF ProcessEnds
    <3>4. QED
      BY <2>2, <3>1, <3>2, <3>3 DEF ProcessEnds
  <2>3. CASE Restart
    BY <2>3 DEF Restart
  <2>4. QED
    BY <1>7, <2>1, <2>2, <2>3 DEF MainReturns, Crash
<1>8. CASE UNCHANGED vars
  BY <1>8 DEF vars
<1>9. QED
  BY <1>1, <1>2, <1>3, <1>4, <1>5, <1>6, <1>7, <1>8 DEF Next, Slack

(* TypeOK is an invariant: every variable of the loop, the channel, the    *)
(* workers and the client keeps to its values; in particular a goroutine   *)
(* has an envelope in hand exactly where its code holds one, and the       *)
(* channel never exceeds EVENTS_API_QUEUE_SIZE.                            *)
THEOREM TypeCorrect == Spec => []TypeOK
<1>1. QED
  BY TypeInit, TypeStep, PTL DEF Spec

------------------------------------------------------------------------------
(* The steps by what they change. *)

placeVars == <<acked, discarded, handled, lost, hand, queue, job>>

(* All other steps leave every acknowledged envelope where it is. *)
LEMMA PlaceSteps ==
    ASSUME [Next]_vars
    PROVE  \/ UNCHANGED placeVars
           \/ LoopDropsUnexpected
           \/ LoopAcks
           \/ LoopSends
           \/ \E w \in Workers : WorkerReceives(w)
           \/ \E w \in Workers : WorkerHandles(w)
           \/ ProcessEnds
BY DEF Next, Slack, Loop, Worker, vars, placeVars, historyVars, loopVars, workerVars,
       channelVars, processVars, SetsGauge,
       SlackDelivers, SlackReceivesAck, LinkReports, ClientReportsOther,
       LoopSeesConnecting, LoopSeesConnectionError, LoopSeesConnected,
       LoopSeesDisconnect, LoopSeesInvalidAuth, LoopSeesOther,
       OnlyReceives, LoopDropsNilRequest, LoopMeasures, LoopSetsGauge,
       WorkerQuits, WorkerSetsGauge, Cancel, MainReturns, Crash, Restart

(* All other steps leave the logs and the channel as they are. *)
LEMMA LogSteps ==
    ASSUME [Next]_vars
    PROVE  \/ UNCHANGED <<accepted, taken, queue, hand>> /\ acked \subseteq acked'
           \/ LoopAcks
           \/ LoopSends
           \/ \E w \in Workers : WorkerReceives(w)
           \/ ProcessEnds
BY DEF Next, Slack, Loop, Worker, vars, historyVars, loopVars, workerVars,
       channelVars, processVars, SetsGauge,
       SlackDelivers, SlackReceivesAck, LinkReports, ClientReportsOther,
       LoopSeesConnecting, LoopSeesConnectionError, LoopSeesConnected,
       LoopSeesDisconnect, LoopSeesInvalidAuth, LoopSeesOther,
       LoopDropsUnexpected,
       OnlyReceives, LoopDropsNilRequest, LoopMeasures, LoopSetsGauge,
       WorkerQuits, WorkerHandles, WorkerSetsGauge,
       Cancel, MainReturns, Crash, Restart

(* The inbox is fed by Slack and the client, and consumed by the loop,     *)
(* which acknowledges at most what it consumes.                            *)
LEMMA InboxSteps ==
    ASSUME [Next]_vars
    PROVE  \/ UNCHANGED <<sent, inbox, acked>>
           \/ \E e \in Events, shape \in Shapes : SlackDelivers(e, shape)
           \/ /\ UNCHANGED <<sent, acked>>
              /\ \E type \in Reports : Push(Report(type))
           \/ /\ UNCHANGED sent
              /\ \E type \in Reports : Receives(type)
              /\ UNCHANGED acked
           \/ /\ UNCHANGED sent
              /\ Receives("events_api")
              /\ acked' \subseteq acked \cup {Head(inbox).envelope}
              /\ acked \subseteq acked'
           \/ ProcessEnds
<1> USE DEF vars, slackVars, historyVars, processVars
<1>1. CASE Slack
  <2>1. ASSUME NEW v \in acksInFlight, SlackReceivesAck(v)
        PROVE  UNCHANGED <<sent, inbox, acked>>
    BY <2>1 DEF SlackReceivesAck
  <2>2. ASSUME NEW type \in Reports, LinkReports(type)
        PROVE  UNCHANGED <<sent, acked>> /\ Push(Report(type))
    BY <2>2 DEF LinkReports
  <2>3. ASSUME ClientReportsOther
        PROVE  UNCHANGED <<sent, acked>> /\ Push(Report("other")) /\ "other" \in Reports
    BY <2>3 DEF ClientReportsOther, Reports
  <2>4. QED
    BY <1>1, <2>1, <2>2, <2>3 DEF Slack
<1>2. CASE Loop
  BY <1>2 DEF Loop, Reports, OnlyReceives,
       LoopSeesConnecting, LoopSeesConnectionError, LoopSeesConnected,
       LoopSeesDisconnect, LoopSeesInvalidAuth, LoopSeesOther,
       LoopDropsUnexpected, LoopDropsNilRequest, LoopAcks, LoopSends, LetsGo, Enqueues,
       LoopMeasures, LoopSetsGauge
<1>3. ASSUME NEW w \in Workers, Worker(w)
      PROVE  UNCHANGED <<sent, inbox, acked>>
  BY <1>3 DEF Worker, WorkerReceives, WorkerQuits, WorkerHandles,
              WorkerSetsGauge, Takes, SetsGauge
<1>4. CASE Cancel \/ Restart \/ UNCHANGED vars
  BY <1>4 DEF Cancel, Restart
<1>5. QED
  BY <1>1, <1>2, <1>3, <1>4 DEF Next, MainReturns, Crash

------------------------------------------------------------------------------
(* The inbox. *)

(* An item of type "events_api" carries an envelope. *)
LEMMA ItemOfDelivery ==
    ASSUME NEW item \in Item, item.type = "events_api"
    PROVE  /\ item = Delivery(item.envelope)
           /\ item.envelope \in Envelope
           /\ item.envelope.event \in Events
           /\ item.envelope.delivery \in Nat
<1>1. item \in [type : {"events_api"}, envelope : Envelope]
  BY DEF Item, Reports
<1>2. QED
  BY <1>1 DEF Delivery, Envelope

(* What waits in client.Events stays new: Slack numbers its envelopes, and *)
(* the loop takes out what it acknowledges.                                *)
LEMMA FreshStep ==
    ASSUME TypeOK, InboxIsFresh, [Next]_vars
    PROVE  InboxIsFresh'
<1> USE DEF TypeOK
<1>1. CASE UNCHANGED <<sent, inbox, acked>>
  BY <1>1 DEF InboxIsFresh
<1>2. ASSUME NEW e \in Events, NEW shape \in Shapes, SlackDelivers(e, shape)
      PROVE  InboxIsFresh'
  <2> DEFINE v == [event |-> e, delivery |-> sent[e] + 1, shape |-> shape]
  <2>1. /\ v \in Envelope /\ v.event = e /\ v.delivery = sent[e] + 1
        /\ acked' = acked
        /\ sent' = [sent EXCEPT ![e] = sent[e] + 1]
        /\ inbox' = Append(inbox, Delivery(v))
    BY <1>2 DEF SlackDelivers, Push, historyVars, processVars, Envelope
  <2>2. \A d \in Events : sent'[d] \in Nat /\ sent[d] \in Nat /\ sent'[d] >= sent[d]
    BY <2>1
  <2>3. v \notin acked /\ v.delivery <= sent'[v.event]
    BY <2>1 DEF InboxIsFresh
  <2>4. Delivery(v) \in Item /\ Delivery(v).envelope = v
    BY <2>1 DEF Delivery, Item
  <2>5. /\ Len(inbox') = Len(inbox) + 1 /\ Len(inbox) \in Nat
        /\ \A i \in 1..Len(inbox) : inbox'[i] = inbox[i]
        /\ inbox'[Len(inbox) + 1] = Delivery(v)
    BY <2>1, <2>4, AppendProperties
  <2>6. \A i \in 1..Len(inbox) : inbox[i] # Delivery(v)
    <3>1. Delivery(v).type = "events_api" /\ ~(v.delivery <= sent[v.event])
      BY <2>1 DEF Delivery
    <3>2. QED
      BY <2>4, <3>1 DEF InboxIsFresh
  <2>7. \A u \in acked : u.delivery <= sent[u.event] /\ u.event \in Events
                         /\ u.delivery \in Nat
    BY DEF InboxIsFresh, Envelope
  <2>8. \A i \in 1..Len(inbox) : inbox[i].type = "events_api" =>
            inbox[i].envelope.event \in Events /\ inbox[i].envelope.delivery \in Nat
    <3>1. \A i \in 1..Len(inbox) : inbox[i] \in Item
      BY ElementOfSeq
    <3>2. QED
      BY <3>1, ItemOfDelivery
  <2> HIDE DEF v
  <2>9. ASSUME NEW i \in 1..Len(inbox'), inbox'[i].type = "events_api"
        PROVE  /\ inbox'[i].envelope \notin acked'
               /\ inbox'[i].envelope.delivery <= sent'[inbox'[i].envelope.event]
               /\ \A j \in 1..Len(inbox') : inbox'[j] = inbox'[i] => i = j
    <3>1. CASE i = Len(inbox) + 1
      BY <2>1, <2>3, <2>4, <2>5, <2>6, <3>1
    <3>2. CASE i \in 1..Len(inbox)
      <4>1. inbox'[i].envelope.delivery <= sent'[inbox'[i].envelope.event]
        <5>1. inbox[i].envelope.delivery <= sent[inbox[i].envelope.event]
          BY <2>5, <2>9, <3>2 DEF InboxIsFresh
        <5>2. inbox'[i] = inbox[i] /\ inbox[i].type = "events_api"
          BY <2>5, <2>9, <3>2
        <5>3. /\ inbox[i].envelope.event \in Events
              /\ inbox[i].envelope.delivery \in Nat
          BY <2>8, <3>2, <5>2
        <5>4. /\ sent[inbox[i].envelope.event] \in Nat
              /\ sent'[inbox[i].envelope.event] \in Nat
              /\ sent'[inbox[i].envelope.event] >= sent[inbox[i].envelope.event]
          BY <2>2, <5>3
        <5>5. inbox[i].envelope.delivery <= sent'[inbox[i].envelope.event]
          <6>1. \A x, y, z \in Nat : x <= y /\ z >= y => x <= z
            OBVIOUS
          <6>2. QED
            BY <5>1, <5>3, <5>4, <6>1
        <5>6. QED
          BY <5>2, <5>5
      <4>2. ASSUME NEW j \in 1..Len(inbox'), inbox'[j] = inbox'[i]
            PROVE  i = j
        <5>1. CASE j = Len(inbox) + 1
          BY <2>5, <2>6, <3>2, <4>2, <5>1
        <5>2. CASE j \in 1..Len(inbox)
          BY <2>5, <2>9, <3>2, <4>2, <5>2 DEF InboxIsFresh
        <5>3. QED
          BY <2>5, <5>1, <5>2
      <4>3. QED
        BY <2>1, <2>5, <2>9, <3>2, <4>1, <4>2 DEF InboxIsFresh
    <3>3. QED
      BY SMTT(30), <2>5, <3>1, <3>2
  <2>10. \A u \in acked' : u.delivery <= sent'[u.event]
    BY <2>1, <2>2, <2>7
  <2>11. QED
    BY <2>9, <2>10 DEF InboxIsFresh
<1>3. ASSUME UNCHANGED <<sent, acked>>, NEW type \in Reports, Push(Report(type))
      PROVE  InboxIsFresh'
  <2>1. /\ Report(type) \in Item /\ Report(type).type # "events_api"
        /\ inbox' = Append(inbox, Report(type))
    BY <1>3 DEF Push, Report, Item, Reports
  <2>2. /\ Len(inbox') = Len(inbox) + 1 /\ Len(inbox) \in Nat
        /\ \A i \in 1..Len(inbox) : inbox'[i] = inbox[i]
        /\ inbox'[Len(inbox) + 1] = Report(type)
    BY <2>1, AppendProperties
  <2>3. QED
    BY <1>3, <2>1, <2>2 DEF InboxIsFresh
<1>4. ASSUME UNCHANGED sent, inbox # <<>>, inbox' = Tail(inbox),
             \/ UNCHANGED acked
             \/ /\ Head(inbox).type = "events_api"
                /\ acked' \subseteq acked \cup {Head(inbox).envelope}
      PROVE  InboxIsFresh'
  <2>1. /\ Len(inbox) \in Nat \ {0} /\ Head(inbox) = inbox[1]
        /\ Len(inbox') = Len(inbox) - 1
        /\ \A i \in 1..Len(inbox') : inbox'[i] = inbox[i + 1]
    BY <1>4, HeadTailProperties
  <2>2. \A u \in acked' : u.delivery <= sent'[u.event]
    BY SMTT(30), <1>4, <2>1 DEF InboxIsFresh
  <2>3. \A i \in 1..Len(inbox') : i + 1 \in 1..Len(inbox) /\ i + 1 # 1
    BY <2>1
  <2>4. ASSUME NEW i \in 1..Len(inbox'), inbox'[i].type = "events_api"
        PROVE  inbox'[i].envelope \notin acked'
    <3>1. inbox[i + 1].envelope \notin acked /\ inbox[1] # inbox[i + 1]
      <4>1. inbox[i + 1].type = "events_api" /\ i + 1 \in 1..Len(inbox)
        BY <2>1, <2>3, <2>4
      <4>2. 1 \in 1..Len(inbox) /\ i + 1 # 1
        BY <2>1, <2>3
      <4>3. QED
        BY <4>1, <4>2 DEF InboxIsFresh
    <3>2. inbox[1] \in Item /\ inbox[i + 1] \in Item
      BY <2>1, <2>3, ElementOfSeq
    <3>3. inbox[1].type = "events_api" => inbox[1].envelope # inbox[i + 1].envelope
      BY <2>1, <2>4, <3>1, <3>2, ItemOfDelivery
    <3>4. QED
      BY <1>4, <2>1, <3>1, <3>3
  <2>5. QED
    BY <1>4, <2>1, <2>2, <2>3, <2>4 DEF InboxIsFresh
<1>5. CASE ProcessEnds
  BY <1>5 DEF ProcessEnds, InboxIsFresh, slackVars
<1>6. QED
  BY <1>1, <1>2, <1>3, <1>4, <1>5, InboxSteps DEF Receives

------------------------------------------------------------------------------
(* The places of an acknowledged envelope. *)

(* What the loop takes from the inbox is new to every place. *)
LEMMA ReceivedIsFresh ==
    ASSUME TypeOK, InboxIsFresh, AckedAreAccountedFor, Receives("events_api")
    PROVE  /\ Head(inbox).envelope \in Envelope
           /\ Head(inbox).envelope \notin acked
           /\ Head(inbox).envelope \notin discarded \cup handled \cup lost \cup InMemory
<1>1. /\ Head(inbox) = inbox[1] /\ 1 \in 1..Len(inbox)
      /\ Head(inbox) \in Item /\ Head(inbox).type = "events_api"
  BY HeadTailProperties DEF Receives, TypeOK
<1>2. Head(inbox).envelope \notin acked
  BY <1>1 DEF InboxIsFresh
<1>3. QED
  BY <1>1, <1>2, ItemOfDelivery DEF AckedAreAccountedFor

Accounted == AckedAreAccountedFor /\ OnePlaceInMemory

(* Every step that moves an acknowledged envelope moves it from one place  *)
(* to one other.                                                           *)
LEMMA PlacesStep ==
    ASSUME TypeOK, TypeOK', InboxIsFresh, Accounted, [Next]_vars
    PROVE  Accounted'
<1> USE DEF Accounted
<1>1. CASE UNCHANGED placeVars
  BY <1>1 DEF placeVars, AckedAreAccountedFor, OnePlaceInMemory, InMemory
<1>2. CASE LoopDropsUnexpected
  <2>1. InMemory' = InMemory /\ OnePlaceInMemory'
    BY <1>2 DEF LoopDropsUnexpected, loopVars, channelVars, workerVars, InMemory, OnePlaceInMemory
  <2>2. Receives("events_api")
    BY <1>2 DEF LoopDropsUnexpected
  <2>3. QED
    BY <1>2, <2>1, <2>2, ReceivedIsFresh
       DEF LoopDropsUnexpected, AckedAreAccountedFor
<1>3. CASE LoopAcks
  <2> DEFINE v == Head(inbox).envelope
  <2>1. /\ v \in Envelope
        /\ v \notin discarded \cup handled \cup lost \cup InMemory
    BY <1>3, ReceivedIsFresh DEF LoopAcks
  <2>2. /\ hand = NoEnvelope /\ hand' = v /\ acked' = acked \cup {v}
        /\ UNCHANGED <<queue, job, discarded, handled, lost>>
    BY <1>3 DEF LoopAcks, Receives, channelVars, workerVars, TypeOK
  <2> HIDE DEF v
  <2>3. InMemory' = InMemory \cup {v}
    BY <2>1, <2>2 DEF InMemory
  <2>4. v \notin Range(queue) /\ \A w \in Workers : job[w] # v
    BY <2>1 DEF InMemory
  <2>5. QED
    BY <2>1, <2>2, <2>3, <2>4 DEF AckedAreAccountedFor, OnePlaceInMemory
<1>4. CASE LoopSends
  <2>1. /\ hand \in Envelope /\ hand' = NoEnvelope
        /\ queue \in Seq(Envelope) /\ queue' = Append(queue, hand)
        /\ UNCHANGED <<job, acked, discarded, handled, lost>>
    BY <1>4 DEF LoopSends, LetsGo, Enqueues, TypeOK, workerVars, historyVars
  <2>2. Range(queue') = Range(queue) \cup {hand}
    BY <2>1, RangeAppend
  <2>3. InMemory' = InMemory
    BY <2>1, <2>2 DEF InMemory
  <2>4. hand \notin Range(queue) /\ \A w \in Workers : job[w] # hand
    BY <2>1 DEF OnePlaceInMemory
  <2>5. \A i, j \in 1..Len(queue') : queue'[i] = queue'[j] => i = j
    <3>1. /\ Len(queue') = Len(queue) + 1 /\ Len(queue) \in Nat
          /\ \A i \in 1..Len(queue) : queue'[i] = queue[i]
          /\ queue'[Len(queue) + 1] = hand
      BY <2>1, AppendProperties
    <3>2. \A i \in 1..Len(queue) : queue[i] # hand
      BY <2>1, <2>4 DEF Range
    <3>3. QED
      BY <3>1, <3>2 DEF OnePlaceInMemory
  <2>6. QED
    BY <2>1, <2>2, <2>3, <2>4, <2>5 DEF AckedAreAccountedFor, OnePlaceInMemory
<1>5. ASSUME NEW w \in Workers, WorkerReceives(w)
      PROVE  Accounted'
  <2> DEFINE v == Head(queue)
  <2>1. /\ queue \in Seq(Envelope) /\ queue # <<>>
        /\ queue' = Tail(queue) /\ v \in Envelope
        /\ job \in [Workers -> Envelope \cup {NoEnvelope}]
        /\ job[w] = NoEnvelope /\ job' = [job EXCEPT ![w] = v]
        /\ UNCHANGED <<hand, acked, discarded, handled, lost>>
    BY <1>5, HeadTailProperties DEF WorkerReceives, Takes, TypeOK, loopVars, historyVars
  <2>2. Range(queue) = {v} \cup Range(Tail(queue))
    BY <2>1, RangeHeadTail
  <2>3. /\ Len(queue) \in Nat \ {0} /\ v = queue[1]
        /\ Len(queue') = Len(queue) - 1 /\ queue' \in Seq(Envelope)
        /\ \A i \in 1..Len(queue') : queue'[i] = queue[i + 1]
    BY <2>1, HeadTailProperties
  <2> HIDE DEF v
  <2>4. v \notin Range(queue')
    <3>1. \A i \in 1..Len(queue') : queue'[i] # v
      BY <2>3 DEF OnePlaceInMemory
    <3>2. QED
      BY <2>3, <3>1 DEF Range
  <2>5. InMemory' = InMemory
    BY <2>1, <2>2 DEF InMemory
  <2>6. /\ v # hand
        /\ \A u \in Workers : job[u] # v
    BY <2>1, <2>2 DEF OnePlaceInMemory
  <2>7. \A i, j \in 1..Len(queue') : queue'[i] = queue'[j] => i = j
    BY <2>3 DEF OnePlaceInMemory
  <2>8. OnePlaceInMemory'
    BY <2>1, <2>2, <2>4, <2>6, <2>7 DEF OnePlaceInMemory
  <2>9. QED
    BY <2>1, <2>5, <2>8 DEF AckedAreAccountedFor
<1>6. ASSUME NEW w \in Workers, WorkerHandles(w)
      PROVE  Accounted'
  <2>1. /\ job[w] \in Envelope /\ job' = [job EXCEPT ![w] = NoEnvelope]
        /\ job \in [Workers -> Envelope \cup {NoEnvelope}]
        /\ handled' = handled \cup {job[w]}
        /\ UNCHANGED <<hand, queue, acked, discarded, lost>>
    BY <1>6 DEF WorkerHandles, TypeOK, loopVars, channelVars
  <2>2. /\ job[w] # hand /\ job[w] \notin Range(queue)
        /\ \A u \in Workers : job[u] = job[w] => u = w
    BY <2>1 DEF OnePlaceInMemory
  <2>3. InMemory = InMemory' \cup {job[w]} /\ job[w] \notin InMemory'
    BY <2>1, <2>2 DEF InMemory
  <2>4. NoEnvelope \notin Range(queue)
    BY RangeOfSeq DEF TypeOK
  <2>5. OnePlaceInMemory'
    BY <2>1, <2>2, <2>4 DEF OnePlaceInMemory
  <2>6. QED
    BY <2>1, <2>3, <2>5 DEF AckedAreAccountedFor
<1>7. CASE ProcessEnds
  <2>1. /\ queue' = <<>> /\ hand' = NoEnvelope
        /\ \A w \in Workers : job'[w] = NoEnvelope
        /\ lost' = lost \cup InMemory
        /\ UNCHANGED <<acked, discarded, handled>>
    BY <1>7 DEF ProcessEnds
  <2>2. Range(queue') = {}
    BY <2>1, RangeEmpty
  <2>3. InMemory' = {}
    BY <2>1, <2>2 DEF InMemory
  <2>4. OnePlaceInMemory'
    BY <2>1, <2>2 DEF OnePlaceInMemory
  <2>5. QED
    BY <2>1, <2>3, <2>4 DEF AckedAreAccountedFor
<1>8. QED
  BY <1>1, <1>2, <1>3, <1>4, <1>5, <1>6, <1>7, PlaceSteps

------------------------------------------------------------------------------
(* The logs of the channel. *)

(* Every step keeps what was received and what the channel holds, put      *)
(* together, equal to what was sent.                                       *)
LEMMA LogsStep ==
    ASSUME TypeOK, TypeOK', InboxIsFresh, Accounted, LogsAgree, [Next]_vars
    PROVE  LogsAgree'
<1>1. CASE UNCHANGED <<accepted, taken, queue, hand>> /\ acked \subseteq acked'
  BY <1>1 DEF LogsAgree
<1>2. CASE LoopAcks
  <2> DEFINE v == Head(inbox).envelope
  <2>1. v \notin acked
    BY <1>2, ReceivedIsFresh DEF LoopAcks, Accounted
  <2>2. /\ hand' = v /\ acked' = acked \cup {v}
        /\ UNCHANGED <<accepted, taken, queue>>
    BY <1>2 DEF LoopAcks, channelVars
  <2> HIDE DEF v
  <2>3. QED
    BY <2>1, <2>2 DEF LogsAgree
<1>3. CASE LoopSends
  <2>1. /\ hand \in Envelope /\ hand' = NoEnvelope
        /\ queue \in Seq(Envelope) /\ queue' = Append(queue, hand)
        /\ accepted \in Seq(Envelope) /\ accepted' = Append(accepted, hand)
        /\ taken \in Seq(Envelope)
        /\ UNCHANGED <<taken, acked>>
    BY <1>3 DEF LoopSends, LetsGo, Enqueues, TypeOK, historyVars
  <2>2. accepted' = taken' \o queue'
    <3>1. taken \o Append(queue, hand) = Append(taken \o queue, hand)
      BY <2>1, ConcatAppend
    <3>2. accepted = taken \o queue
      BY DEF LogsAgree
    <3>3. QED
      BY <2>1, <3>1, <3>2
  <2>3. Range(accepted') = Range(accepted) \cup {hand}
    BY <2>1, RangeAppend
  <2>4. hand \in acked /\ NoEnvelope \notin Range(accepted')
    <3>1. hand \in InMemory
      BY <2>1 DEF InMemory
    <3>2. accepted' \in Seq(Envelope)
      BY <2>1
    <3>3. QED
      BY <3>1, <3>2, RangeOfSeq DEF Accounted, AckedAreAccountedFor
  <2>5. \A i, j \in 1..Len(accepted') : accepted'[i] = accepted'[j] => i = j
    <3>1. /\ Len(accepted') = Len(accepted) + 1 /\ Len(accepted) \in Nat
          /\ \A i \in 1..Len(accepted) : accepted'[i] = accepted[i]
          /\ accepted'[Len(accepted) + 1] = hand
      BY <2>1, AppendProperties
    <3>2. \A i \in 1..Len(accepted) : accepted[i] # hand
      <4>1. hand \notin Range(accepted)
        BY DEF LogsAgree
      <4>2. Range(accepted) = {accepted[i] : i \in 1..Len(accepted)}
        BY <2>1, RangeEquality
      <4>3. QED
        BY <4>1, <4>2
    <3>3. QED
      BY <3>1, <3>2 DEF LogsAgree
  <2>6. QED
    BY <2>1, <2>2, <2>3, <2>4, <2>5 DEF LogsAgree
<1>4. ASSUME NEW w \in Workers, WorkerReceives(w)
      PROVE  LogsAgree'
  <2>1. /\ queue \in Seq(Envelope) /\ queue # <<>> /\ queue' = Tail(queue)
        /\ taken \in Seq(Envelope) /\ taken' = Append(taken, Head(queue))
        /\ UNCHANGED <<accepted, hand, acked>>
    BY <1>4 DEF WorkerReceives, Takes, TypeOK, loopVars, historyVars
  <2>2. taken' \o queue' = taken \o queue
    BY <2>1, MoveHead
  <2>3. QED
    BY <2>1, <2>2 DEF LogsAgree
<1>5. CASE ProcessEnds
  <2>1. accepted' = <<>> /\ taken' = <<>> /\ queue' = <<>>
    BY <1>5 DEF ProcessEnds
  <2>2. Range(accepted') = {} /\ Len(accepted') = 0
    BY <2>1, RangeEmpty
  <2>3. accepted' = taken' \o queue'
    BY <2>1, ConcatEmptySeq
  <2>4. QED
    BY <2>2, <2>3 DEF LogsAgree
<1>6. QED
  BY <1>1, <1>2, <1>3, <1>4, <1>5, LogSteps

------------------------------------------------------------------------------
(* The invariant. *)

(* The inductive invariant holds right after main has started. *)
LEMMA InvariantInit == Init => Invariant
<1> SUFFICES ASSUME Init
             PROVE  Invariant
  OBVIOUS
<1> USE DEF Init
<1>1. TypeOK
  BY TypeInit
<1>2. Range(queue) = {} /\ Range(accepted) = {}
  BY RangeEmpty
<1>3. InMemory = {}
  BY <1>2 DEF InMemory
<1>4. AckedAreAccountedFor /\ OnePlaceInMemory
  BY <1>2, <1>3 DEF AckedAreAccountedFor, OnePlaceInMemory
<1>5. InboxIsFresh
  BY DEF InboxIsFresh
<1>6. LogsAgree
  <2>1. accepted = taken \o queue /\ Len(accepted) = 0
    BY ConcatEmptySeq
  <2>2. QED
    BY <1>2, <2>1 DEF LogsAgree
<1>7. QED
  BY <1>1, <1>4, <1>5, <1>6 DEF Invariant

(* Every step of the program or of its environment preserves it. *)
LEMMA InvariantStep == Invariant /\ [Next]_vars => Invariant'
<1> SUFFICES ASSUME Invariant, [Next]_vars
             PROVE  Invariant'
  OBVIOUS
<1>1. TypeOK'
  BY TypeStep DEF Invariant
<1>2. QED
  BY <1>1, FreshStep, PlacesStep, LogsStep DEF Invariant, Accounted

(* So it holds in every state that the program reaches. *)
LEMMA InvariantHolds == Spec => []Invariant
BY InvariantInit, InvariantStep, PTL DEF Spec

(* Every acknowledged envelope is discarded for its type, handled, lost    *)
(* with a process, or in memory, and only one of these: the program drops  *)
(* none while it lives, and none is handled twice.                         *)
THEOREM AcknowledgedAreAccountedFor == Spec => []AckedAreAccountedFor
<1>1. Invariant => AckedAreAccountedFor
  BY DEF Invariant
<1>2. QED
  BY <1>1, InvariantHolds, PTL

(* In memory it is in the loop's hand, once in the channel, or with one    *)
(* worker: no two goroutines ever hold the same envelope.                  *)
THEOREM AcknowledgedAreInOnePlace == Spec => []OnePlaceInMemory
<1>1. Invariant => OnePlaceInMemory
  BY DEF Invariant
<1>2. QED
  BY <1>1, InvariantHolds, PTL

------------------------------------------------------------------------------
(* The bound on loss. *)

(* However many workers and whatever the size of the channel, what is in   *)
(* memory is at most the channel, an envelope per worker, and one in hand. *)
LEMMA InMemoryIsBounded ==
    ASSUME TypeOK
    PROVE  /\ IsFiniteSet(InMemory)
           /\ Cardinality(InMemory) <= AtRisk
<1> DEFINE H == {hand}
           Q == Range(queue)
           J == {job[w] : w \in Workers}
<1>1. IsFiniteSet(H) /\ Cardinality(H) = 1
  BY FS_Singleton
<1>2. IsFiniteSet(Q) /\ Cardinality(Q) <= QueueSize /\ Cardinality(Q) \in Nat
  <2>1. queue \in Seq(Envelope) /\ Len(queue) \in Nat /\ Len(queue) <= QueueSize
    BY DEF TypeOK
  <2>2. IsFiniteSet(1..Len(queue)) /\ Cardinality(1..Len(queue)) = Len(queue)
    <3>1. 1 \in Int /\ Len(queue) \in Int
      BY <2>1
    <3>2. /\ IsFiniteSet(1..Len(queue))
          /\ Cardinality(1..Len(queue)) = IF 1 > Len(queue) THEN 0
                                          ELSE Len(queue) - 1 + 1
      BY <3>1, FS_Interval
    <3>3. QED
      BY <2>1, <3>2
  <2>3. queue \in Surjection(1..Len(queue), Q)
    <3>1. Q = {queue[i] : i \in 1..Len(queue)}
      BY <2>1, RangeEquality
    <3>2. queue \in [1..Len(queue) -> Q]
      BY <2>1, <3>1
    <3>3. QED
      BY <3>1, <3>2 DEF Surjection
  <2>4. IsFiniteSet(Q) /\ Cardinality(Q) <= Len(queue)
    BY <2>2, <2>3, FS_Surjection
  <2>5. QED
    BY <2>1, <2>4, FS_CardinalityType
<1>3. IsFiniteSet(J) /\ Cardinality(J) <= Cardinality(Workers) /\ Cardinality(J) \in Nat
  <2>1. job \in Surjection(Workers, J)
    BY DEF Surjection, TypeOK
  <2>2. QED
    BY <2>1, FS_Surjection, FS_CardinalityType
<1>4. /\ IsFiniteSet(H \cup Q)
      /\ Cardinality(H \cup Q) \in Nat
      /\ Cardinality(H \cup Q) <= 1 + QueueSize
  BY <1>1, <1>2, UnionBound
<1>5. /\ IsFiniteSet(H \cup Q \cup J)
      /\ Cardinality(H \cup Q \cup J) <= AtRisk
  <2>1. /\ IsFiniteSet((H \cup Q) \cup J)
        /\ Cardinality((H \cup Q) \cup J) <= Cardinality(H \cup Q) + Cardinality(J)
        /\ Cardinality((H \cup Q) \cup J) \in Nat
    BY <1>3, <1>4, UnionBound
  <2>2. Cardinality(Workers) \in Nat
    BY FS_CardinalityType
  <2>3. QED
    BY <1>3, <1>4, <2>1, <2>2 DEF AtRisk
<1>6. InMemory = (H \cup Q \cup J) \ {NoEnvelope}
  BY DEF InMemory
<1>7. AtRisk \in Nat
  BY FS_CardinalityType DEF AtRisk
<1> HIDE DEF H, Q, J
<1>8. QED
  <2>1. InMemory \in SUBSET (H \cup Q \cup J)
    BY <1>6
  <2>2. /\ IsFiniteSet(InMemory)
        /\ Cardinality(InMemory) <= Cardinality(H \cup Q \cup J)
    BY <1>5, <2>1, FS_Subset
  <2>3. Cardinality(InMemory) \in Nat /\ Cardinality(H \cup Q \cup J) \in Nat
    BY <1>5, <2>2, FS_CardinalityType
  <2>4. QED
    BY <1>5, <1>7, <2>2, <2>3

(* A process never takes more than AtRisk acknowledged events with it,     *)
(* whatever the configured sizes are.                                      *)
THEOREM LossOfOneProcess == Spec => LossIsBounded
<1>1. ASSUME TypeOK, [Next]_vars
      PROVE  [Cardinality(lost' \ lost) <= AtRisk]_vars
  <2>1. CASE ProcessEnds
    <3>1. lost' \ lost \in SUBSET InMemory
      BY <2>1 DEF ProcessEnds
    <3>2. /\ IsFiniteSet(InMemory) /\ Cardinality(InMemory) <= AtRisk
      BY <1>1, InMemoryIsBounded
    <3>3. /\ IsFiniteSet(lost' \ lost)
          /\ Cardinality(lost' \ lost) <= Cardinality(InMemory)
      BY <3>1, <3>2, FS_Subset
    <3>4. /\ Cardinality(InMemory) \in Nat /\ Cardinality(lost' \ lost) \in Nat
          /\ AtRisk \in Nat
      BY <3>2, <3>3, FS_CardinalityType DEF AtRisk
    <3>5. QED
      BY <3>2, <3>3, <3>4
  <2>2. CASE lost' = lost
    <3>1. Cardinality(lost' \ lost) = 0
      <4>1. lost' \ lost = {}
        BY <2>2
      <4>2. QED
        BY <4>1, FS_EmptySet
    <3>2. AtRisk \in Nat
      BY FS_CardinalityType DEF AtRisk
    <3>3. QED
      BY <3>1, <3>2
  <2>3. QED
    BY <1>1, <2>1, <2>2, PlaceSteps
       DEF placeVars, LoopDropsUnexpected, LoopAcks, LoopSends, LetsGo, Enqueues, WorkerReceives, Takes,
           WorkerHandles, historyVars
<1>2. QED
  BY <1>1, TypeCorrect, PTL DEF Spec, LossIsBounded

------------------------------------------------------------------------------
(* The refinement. *)

(* The loop, the channel and the workers implement HandOff: what is sent   *)
(* is accepted once, what is received is taken in the order of acceptance, *)
(* and only the end of the process forgets.                                *)
THEOREM ImplementsHandOff == Spec => HandsOffInOrder
<1>1. Init => HandOffSpec!Init
  BY DEF Init, HandOffSpec!Init
<1>2. ASSUME Invariant, TypeOK', [Next]_vars
      PROVE  [HandOffSpec!Next]_HandOffSpec!vars
  <2> USE DEF HandOffSpec!vars
  <2>1. CASE UNCHANGED <<accepted, taken, queue, hand>>
    BY <2>1
  <2>2. /\ queue \in Seq(Envelope) /\ taken \in Seq(Envelope)
        /\ accepted = taken \o queue
        /\ Len(queue) \in Nat /\ Len(taken) \in Nat
        /\ Len(accepted) = Len(taken) + Len(queue)
    <3>1. /\ queue \in Seq(Envelope) /\ taken \in Seq(Envelope)
          /\ accepted = taken \o queue
      BY <1>2 DEF Invariant, TypeOK, LogsAgree
    <3>2. Len(taken \o queue) = Len(taken) + Len(queue)
      BY <3>1, ConcatProperties
    <3>3. QED
      BY <3>1, <3>2
  <2>3. CASE LoopSends
    <3>1. /\ hand \in Envelope /\ Len(queue) < QueueSize
          /\ accepted' = Append(accepted, hand) /\ taken' = taken
      BY <1>2, <2>3 DEF LoopSends, LetsGo, Enqueues, Invariant, TypeOK
    <3>2. \A i \in 1..Len(accepted) : accepted[i] # hand
      <4>1. accepted \in Seq(Envelope) /\ hand \notin Range(accepted)
        BY <1>2 DEF Invariant, TypeOK, LogsAgree
      <4>2. QED
        BY <4>1, RangeEquality
    <3>3. HandOffSpec!Accept(hand)
      BY <2>2, <3>1, <3>2 DEF HandOffSpec!Accept, HandOffSpec!Waiting
    <3>4. QED
      BY <3>1, <3>3 DEF HandOffSpec!Next
  <2>4. ASSUME NEW w \in Workers, WorkerReceives(w)
        PROVE  HandOffSpec!Take
    <3>1. /\ queue # <<>> /\ taken' = Append(taken, Head(queue))
          /\ accepted' = accepted
      BY <2>4 DEF WorkerReceives, Takes
    <3>2. Len(queue) > 0 /\ Head(queue) = queue[1]
      BY <2>2, <3>1
    <3>3. accepted[Len(taken) + 1] = queue[1]
      <4>1. \A i \in 1..Len(taken) + Len(queue) :
                accepted[i] = IF i <= Len(taken) THEN taken[i]
                              ELSE queue[i - Len(taken)]
        BY <2>2, ConcatProperties
      <4>2. QED
        BY <2>2, <3>2, <4>1
    <3>4. QED
      BY <2>2, <3>1, <3>2, <3>3 DEF HandOffSpec!Take, HandOffSpec!Waiting
  <2>5. CASE ProcessEnds
    BY <2>5 DEF ProcessEnds, HandOffSpec!Forget, HandOffSpec!Next
  <2>6. CASE LoopAcks
    BY <2>6 DEF LoopAcks, channelVars
  <2>7. QED
    BY <1>2, <2>1, <2>3, <2>4, <2>5, <2>6, LogSteps DEF HandOffSpec!Next
<1>3. QED
  BY <1>1, <1>2, InvariantHolds, TypeCorrect, PTL
     DEF Spec, HandsOffInOrder, HandOffSpec!Spec

------------------------------------------------------------------------------
(* Readiness and the metric. *)

(* When the loop comes to place i of the inbox, the metric is not          *)
(* "connected": an attempt was reported before that, and no success since. *)
Quiet(i) ==
    \/ /\ socketState # "connected"
       /\ \A k \in 1..(i - 1) : inbox[k].type # "connected"
    \/ \E j \in 1..(i - 1) :
          /\ inbox[j].type = "connecting"
          /\ \A k \in (j + 1)..(i - 1) : inbox[k].type # "connected"

(* invalid_auth, which leaves the metric alone, only ever ends an attempt. *)
ReadyInv ==
    /\ \A i \in 1..Len(inbox) : inbox[i].type = "invalid_auth" => Quiet(i)
    /\ link = "connecting" => Quiet(Len(inbox) + 1)
    /\ connected <=> socketState = "connected"

(* What the client adds at the end leaves the earlier places as they were. *)
LEMMA QuietAtTheFront ==
    ASSUME TypeOK, NEW item \in Item, inbox' = Append(inbox, item),
           socketState' = socketState, NEW i \in 1..(Len(inbox) + 1), Quiet(i)
    PROVE  Quiet(i)'
<1>1. \A k \in 1..Len(inbox) : inbox'[k] = inbox[k]
  BY AppendProperties DEF TypeOK
<1>2. Len(inbox) \in Nat /\ \A k \in 1..(i - 1) : k \in 1..Len(inbox)
  BY DEF TypeOK
<1>3. CASE /\ socketState # "connected"
           /\ \A k \in 1..(i - 1) : inbox[k].type # "connected"
  BY <1>1, <1>2, <1>3 DEF Quiet
<1>4. ASSUME NEW j \in 1..(i - 1), inbox[j].type = "connecting",
             \A k \in (j + 1)..(i - 1) : inbox[k].type # "connected"
      PROVE  Quiet(i)'
  <2>1. inbox'[j].type = "connecting"
    BY <1>1, <1>2, <1>4
  <2>2. \A k \in (j + 1)..(i - 1) : inbox'[k].type # "connected"
    BY <1>1, <1>2, <1>4
  <2>3. QED
    BY <2>1, <2>2 DEF Quiet
<1>5. QED
  BY <1>3, <1>4 DEF Quiet

(* What the loop takes from the front was either the attempt itself, which *)
(* it has now reported, or is not a success.                               *)
LEMMA QuietAfterTheHead ==
    ASSUME TypeOK, inbox # <<>>, inbox' = Tail(inbox),
           Head(inbox).type = "connecting" => socketState' = "connecting",
           \/ Head(inbox).type = "connected"
           \/ socketState' = "connected" => socketState = "connected",
           NEW i \in 2..(Len(inbox) + 1), Quiet(i)
    PROVE  (\/ /\ socketState' # "connected"
               /\ \A k \in 1..(i - 2) : inbox'[k].type # "connected"
            \/ \E j \in 1..(i - 2) :
                  /\ inbox'[j].type = "connecting"
                  /\ \A k \in (j + 1)..(i - 2) : inbox'[k].type # "connected")
<1>1. /\ Len(inbox) \in Nat /\ Head(inbox) = inbox[1]
      /\ \A k \in 1..(Len(inbox) - 1) : inbox'[k] = inbox[k + 1]
  BY HeadTailProperties DEF TypeOK
<1>2. CASE /\ socketState # "connected"
           /\ \A k \in 1..(i - 1) : inbox[k].type # "connected"
  <2>1. Head(inbox).type # "connected"
    BY <1>1, <1>2
  <2>2. \A k \in 1..(i - 2) : inbox'[k].type # "connected"
    BY <1>1, <1>2
  <2>3. QED
    BY <1>2, <2>1, <2>2
<1>3. ASSUME NEW j \in 1..(i - 1), inbox[j].type = "connecting",
             \A k \in (j + 1)..(i - 1) : inbox[k].type # "connected"
      PROVE  \/ /\ socketState' # "connected"
                /\ \A k \in 1..(i - 2) : inbox'[k].type # "connected"
             \/ \E l \in 1..(i - 2) :
                   /\ inbox'[l].type = "connecting"
                   /\ \A k \in (l + 1)..(i - 2) : inbox'[k].type # "connected"
  <2>1. \A k \in j..(i - 2) : inbox'[k].type # "connected"
    BY <1>1, <1>3
  <2>2. CASE j = 1
    <3>1. socketState' = "connecting"
      BY <1>1, <1>3, <2>2
    <3>2. QED
      BY <2>1, <2>2, <3>1
  <2>3. CASE j # 1
    <3>1. j - 1 \in 1..(i - 2) /\ inbox'[j - 1] = inbox[j]
      BY <1>1, <2>3
    <3>2. \A k \in ((j - 1) + 1)..(i - 2) : inbox'[k].type # "connected"
      <4>1. j \in Int /\ (j - 1) + 1 = j
        OBVIOUS
      <4>2. QED
        BY <2>1, <4>1
    <3>3. QED
      BY <1>3, <3>1, <3>2
  <2>4. QED
    BY <2>2, <2>3
<1>4. QED
  BY <1>2, <1>3 DEF Quiet

(* The client adds a report, or a message. *)
LEMMA ReadyKeptByPush ==
    ASSUME TypeOK, ReadyInv, NEW item \in Item, inbox' = Append(inbox, item),
           UNCHANGED readyVars,
           item.type = "invalid_auth" => link = "connecting",
           link' = "connecting" => link = "connecting" \/ item.type = "connecting",
           item.type = "connected" => link' # "connecting"
    PROVE  ReadyInv'
<1>1. /\ Len(inbox) \in Nat /\ Len(inbox') = Len(inbox) + 1
      /\ \A k \in 1..Len(inbox) : inbox'[k] = inbox[k]
      /\ inbox'[Len(inbox) + 1] = item
  BY AppendProperties DEF TypeOK
<1>2. socketState' = socketState /\ connected' = connected
  BY DEF readyVars
<1>3. ASSUME NEW i \in 1..Len(inbox'), inbox'[i].type = "invalid_auth"
      PROVE  Quiet(i)'
  <2>1. i \in 1..(Len(inbox) + 1) /\ Quiet(i)
    <3>1. CASE i \in 1..Len(inbox)
      BY <1>1, <1>3, <3>1 DEF ReadyInv
    <3>2. CASE i = Len(inbox) + 1
      BY <1>1, <1>3, <3>2 DEF ReadyInv
    <3>3. QED
      BY <1>1, <3>1, <3>2
  <2>2. QED
    BY <1>2, <2>1, QuietAtTheFront
<1>4. ASSUME link' = "connecting", NEW n, n = Len(inbox) + 2
      PROVE  Quiet(n)'
  <2> DEFINE L == Len(inbox)
  <2>1. CASE item.type = "connecting"
    <3>1. L + 1 \in 1..(n - 1) /\ inbox'[L + 1].type = "connecting"
      BY <1>1, <1>4, <2>1
    <3>2. \A k \in ((L + 1) + 1)..(n - 1) : inbox'[k].type # "connected"
      BY <1>1, <1>4
    <3>3. QED
      BY <3>1, <3>2 DEF Quiet
  <2>2. CASE link = "connecting" /\ item.type # "connecting"
    <3>1. /\ n - 1 \in 1..(L + 1) /\ n - 1 = L + 1
          /\ 1..(n - 1) = 1..((n - 1) - 1) \cup {L + 1}
      BY <1>1, <1>4
    <3>2. Quiet(n - 1)
      BY <1>4, <2>2, <3>1 DEF ReadyInv
    <3>3. \A m \in 1..(L + 1) : Quiet(m) => Quiet(m)'
      BY <1>2, QuietAtTheFront
    <3>4. PICK m \in 1..(L + 1) : m = L + 1
      BY <1>1
    <3>5. Quiet(m)' /\ inbox'[m].type # "connected"
      BY <1>1, <1>4, <3>1, <3>2, <3>3, <3>4
    <3>6. m \in Nat /\ n - 1 = m /\ \A k, j : k \in j..m <=> k \in j..(m - 1) \/ (k = m /\ j <= m)
      BY <3>1, <3>4
    <3>7. QED
      BY SMTT(30), <3>5, <3>6 DEF Quiet
  <2>3. QED
    BY <1>4, <2>1, <2>2
<1>5. link' = "connecting" => Quiet(Len(inbox) + 1)'
  <2>1. Len(inbox') + 1 = Len(inbox) + 2
    BY <1>1
  <2>2. QED
    BY <1>4, <2>1 DEF Quiet
<1>6. connected' <=> socketState' = "connected"
  BY <1>2 DEF ReadyInv
<1>7. QED
  BY <1>3, <1>5, <1>6 DEF ReadyInv

(* The loop takes a report, or a message. *)
LEMMA ReadyKeptByLoop ==
    ASSUME TypeOK, ReadyInv, inbox # <<>>, inbox' = Tail(inbox), link' = link,
           Head(inbox).type = "connecting" => socketState' = "connecting",
           \/ Head(inbox).type = "connected"
           \/ socketState' = "connected" => socketState = "connected",
           (connected <=> socketState = "connected")'
    PROVE  ReadyInv'
<1>1. /\ Len(inbox) \in Nat /\ Len(inbox') = Len(inbox) - 1
      /\ \A k \in 1..(Len(inbox) - 1) : inbox'[k] = inbox[k + 1]
  BY HeadTailProperties DEF TypeOK
<1>2. ASSUME NEW i \in 1..Len(inbox), Quiet(i + 1)
      PROVE  Quiet(i)'
  <2>1. i + 1 \in 2..(Len(inbox) + 1) /\ (i + 1) - 2 = i - 1
    BY <1>1
  <2>2. \/ /\ socketState' # "connected"
           /\ \A k \in 1..((i + 1) - 2) : inbox'[k].type # "connected"
        \/ \E j \in 1..((i + 1) - 2) :
              /\ inbox'[j].type = "connecting"
              /\ \A k \in (j + 1)..((i + 1) - 2) : inbox'[k].type # "connected"
    BY <1>2, <2>1, QuietAfterTheHead
  <2>3. QED
    BY <2>1, <2>2 DEF Quiet
<1>3. ASSUME NEW i \in 1..Len(inbox'), inbox'[i].type = "invalid_auth"
      PROVE  Quiet(i)'
  <2>1. i + 1 \in 1..Len(inbox) /\ inbox[i + 1].type = "invalid_auth"
    BY <1>1, <1>3
  <2>2. i \in 1..Len(inbox)
    BY <1>1
  <2>3. QED
    BY <1>2, <2>1, <2>2 DEF ReadyInv
<1>4. ASSUME link' = "connecting"
      PROVE  Quiet(Len(inbox) + 1)'
  <2>1. Len(inbox) \in 1..Len(inbox) /\ Len(inbox') + 1 = Len(inbox)
    BY <1>1, EmptySeq DEF TypeOK
  <2>2. \A n : n = Len(inbox) => Quiet(n)'
    BY <1>2, <1>4, <2>1 DEF ReadyInv
  <2>3. QED
    BY <2>1, <2>2 DEF Quiet
<1>5. QED
  BY <1>3, <1>4 DEF ReadyInv

(* Nothing happened yet when a process starts. *)
LEMMA ReadyAtStart ==
    ASSUME inbox = <<>>, link = "down", connected = FALSE,
           socketState = "disconnected"
    PROVE  ReadyInv
BY DEF ReadyInv

(* Every step keeps the order of the reports and, with it, readiness and   *)
(* the metric together.                                                    *)
LEMMA ReadyStep == TypeOK /\ ReadyInv /\ [Next]_vars => ReadyInv'
<1> SUFFICES ASSUME TypeOK, ReadyInv, [Next]_vars
             PROVE  ReadyInv'
  OBVIOUS
<1> USE DEF slackVars, linkVars, lifeVars, readyVars, loopVars,
            channelVars, workerVars, historyVars, processVars
<1>1. ASSUME UNCHANGED <<inbox, link, readyVars>>
      PROVE  ReadyInv'
  BY <1>1 DEF ReadyInv, Quiet
<1>2. ASSUME NEW e \in Events, NEW shape \in Shapes, SlackDelivers(e, shape)
      PROVE  ReadyInv'
  <2> DEFINE v == [event |-> e, delivery |-> sent[e] + 1, shape |-> shape]
  <2>1. Delivery(v) \in Item /\ Delivery(v).type = "events_api"
    BY <1>2 DEF SlackDelivers, Envelope, Delivery, Item, TypeOK
  <2>2. inbox' = Append(inbox, Delivery(v)) /\ UNCHANGED <<link, readyVars>>
    BY <1>2 DEF SlackDelivers, Push
  <2>3. QED
    BY <2>1, <2>2, ReadyKeptByPush
<1>3. ASSUME NEW type \in Reports, LinkReports(type)
      PROVE  ReadyInv'
  <2>1. Report(type) \in Item /\ Report(type).type = type
    BY DEF Report, Item
  <2>2. /\ inbox' = Append(inbox, Report(type)) /\ UNCHANGED readyVars
        /\ link' = type /\ <<link, type>> \in LinkSteps
    BY <1>3 DEF LinkReports, Push
  <2>3. type = "invalid_auth" => link = "connecting"
    BY <2>2 DEF LinkSteps
  <2>4. QED
    BY <2>1, <2>2, <2>3, ReadyKeptByPush
<1>4. CASE ClientReportsOther
  <2>1. Report("other") \in Item /\ Report("other").type = "other"
    BY DEF Report, Item, Reports
  <2>2. inbox' = Append(inbox, Report("other")) /\ UNCHANGED <<link, readyVars>>
    BY <1>4 DEF ClientReportsOther, Push
  <2>3. QED
    BY <2>1, <2>2, ReadyKeptByPush
<1>5. ASSUME NEW type, Receives(type), link' = link,
             type = "connecting" => socketState' = "connecting",
             \/ type = "connected"
             \/ socketState' = "connected" => socketState = "connected",
             connected' <=> socketState' = "connected"
      PROVE  ReadyInv'
  BY <1>5, ReadyKeptByLoop DEF Receives
<1>6. CASE LoopSeesConnecting
  BY <1>5, <1>6 DEF LoopSeesConnecting, OnlyReceives
<1>7. CASE LoopSeesConnectionError
  BY <1>5, <1>7 DEF LoopSeesConnectionError, OnlyReceives
<1>8. CASE LoopSeesConnected
  BY <1>5, <1>8 DEF LoopSeesConnected, OnlyReceives
<1>9. CASE LoopSeesDisconnect
  BY <1>5, <1>9 DEF LoopSeesDisconnect, OnlyReceives
<1>10. CASE LoopSeesInvalidAuth
  <2>1. /\ Receives("invalid_auth") /\ link' = link
        /\ connected' = FALSE /\ socketState' = socketState
    BY <1>10 DEF LoopSeesInvalidAuth, OnlyReceives
  <2>2. socketState # "connected"
    <3>1. 1 \in 1..Len(inbox) /\ inbox[1].type = "invalid_auth"
      BY <2>1 DEF Receives, TypeOK
    <3>2. Quiet(1)
      BY <3>1 DEF ReadyInv
    <3>3. QED
      BY <3>2 DEF Quiet
  <2>3. QED
    BY <1>5, <2>1, <2>2
<1>11. ASSUME NEW type, Receives(type), type \notin {"connecting", "connected"},
              UNCHANGED <<link, readyVars>>
       PROVE  ReadyInv'
  BY <1>5, <1>11 DEF ReadyInv
<1>12. CASE LoopSeesOther
  BY <1>11, <1>12 DEF LoopSeesOther, OnlyReceives
<1>13. CASE LoopDropsUnexpected \/ LoopDropsNilRequest \/ LoopAcks
  BY <1>11, <1>13 DEF LoopDropsUnexpected, LoopDropsNilRequest, LoopAcks, OnlyReceives
<1>14. CASE ProcessEnds
  BY <1>14 DEF ProcessEnds, ReadyInv
<1>15. CASE UNCHANGED vars
  BY <1>1, <1>15 DEF vars
<1>16. ASSUME NEW v \in acksInFlight, SlackReceivesAck(v)
       PROVE  ReadyInv'
  BY <1>1, <1>16 DEF SlackReceivesAck
<1>17. CASE LoopSends \/ LoopMeasures \/ LoopSetsGauge
  BY <1>1, <1>17 DEF LoopSends, LetsGo, LoopMeasures, LoopSetsGauge
<1>18. ASSUME NEW w \in Workers, Worker(w)
       PROVE  ReadyInv'
  BY <1>1, <1>18 DEF Worker, WorkerReceives, Takes, WorkerQuits, WorkerHandles,
                     WorkerSetsGauge, SetsGauge
<1>19. CASE Cancel \/ Restart
  BY <1>1, <1>19 DEF Cancel, Restart
<1>20. QED
  BY <1>2, <1>3, <1>4, <1>6, <1>7, <1>8, <1>9, <1>10, <1>12, <1>13, <1>14, <1>15,
     <1>16, <1>17, <1>18, <1>19 DEF Next, Slack, Loop, MainReturns, Crash

(* ReadyAgreesWithMetric always holds, although invalid_auth sets only one *)
(* of the two: it never comes while the metric says "connected".           *)
THEOREM ReadinessAgrees == Spec => []ReadyAgreesWithMetric
<1>1. Init => ReadyInv
  BY ReadyAtStart DEF Init
<1>2. ReadyInv => ReadyAgreesWithMetric
  BY DEF ReadyInv, ReadyAgreesWithMetric
<1>3. QED
  BY TypeCorrect, ReadyStep, <1>1, <1>2, PTL DEF Spec
==============================================================================
