------------------------------ MODULE EventLoop ------------------------------
(***************************************************************************)
(* cmd/slack-orchestrator/main.go: the goroutine that ranges over the      *)
(* Socket Mode client's events, the buffered channel it fills, the pool of *)
(* workers that drains it, readiness, and the end of the process.          *)
(*                                                                         *)
(* The loop acknowledges an Events API envelope BEFORE it sends it to the  *)
(* channel, so from then on the only copy of the event is in memory.       *)
(* Slack and the slack-go client are external: Slack redelivers an event   *)
(* until it has received one acknowledgement of it, and the client reports *)
(* the state of its connection in the same stream as the envelopes.        *)
(***************************************************************************)
EXTENDS Naturals, Sequences, FiniteSets, Functions

CONSTANTS
    Events,          \* Slack events, the things a person or a bot did
    Shapes,          \* the shapes of envelope the client may hand over
    Workers,         \* the worker goroutines, EVENTS_API_WORKERS of them
    QueueSize,       \* EVENTS_API_QUEUE_SIZE
    NoEnvelope,      \* "nothing in hand"
    MaxDeliveries,   \* bound: envelopes Slack sends for one event
    InboxSize,       \* bound: the buffer of client.Events
    MaxLinkEvents,   \* bound: reports of the connection
    MaxRestarts      \* bound: restarts of the process

AllShapes == {"callback", "unexpected", "unexpected_no_request", "no_request"}

Envelope == [event : Events, delivery : 1..MaxDeliveries, shape : Shapes]

(* config.FromEnv raises both settings to at least 1. *)
ASSUME SizesAssumption ==
    /\ QueueSize \in Nat \ {0}
    /\ IsFiniteSet(Workers) /\ Workers # {}

ASSUME EnvelopeAssumption ==
    /\ Shapes \subseteq AllShapes
    /\ NoEnvelope \notin Envelope

ASSUME BoundsAssumption ==
    /\ MaxDeliveries \in Nat
    /\ InboxSize \in Nat
    /\ MaxLinkEvents \in Nat
    /\ MaxRestarts \in Nat

VARIABLES
    \* Slack and the Socket Mode client (external)
    sent,            \* how many envelopes Slack has sent for each event
    slackAcked,      \* the events Slack has an acknowledgement of
    acksInFlight,    \* acknowledgements given to the client, not yet received
    link,            \* the connection as the client sees it
    linkEvents,      \* how many reports it has made
    inbox,           \* client.Events
    \* the process
    process,         \* "running" or "down"
    restarts,
    cancelled,       \* ctx is done
    connected,       \* socketConnected
    socketState,     \* the metric socket_mode_state
    loopPc, hand, loopDepth,     \* the loop: where, with what, len() read
    queue,           \* eventsAPIQueue
    workerPc, job, workerDepth,  \* the workers: the same three
    depthGauge,      \* the metric events_api_queue_depth
    \* history
    acked,           \* envelopes passed to client.Ack, ever
    discarded,       \* acknowledged, then dropped for their data type
    handled,         \* envelopes whose HandleEventsAPI returned
    lost,            \* acknowledged, and still in memory when a process ended
    accepted, taken  \* this life: sent to the channel, received from it

slackVars   == <<sent, slackAcked, acksInFlight>>
linkVars    == <<link, linkEvents>>
readyVars   == <<connected, socketState>>
loopVars    == <<loopPc, hand, loopDepth>>
channelVars == <<queue, accepted, taken>>
workerVars  == <<workerPc, job, workerDepth>>
historyVars == <<acked, discarded, handled, lost>>
lifeVars    == <<process, restarts, cancelled>>

\* what only the process changes
processVars == <<lifeVars, readyVars, loopVars, channelVars, workerVars,
                 depthGauge, historyVars>>

vars == <<slackVars, linkVars, inbox, processVars>>

------------------------------------------------------------------------------
(* Connection reports, and the variables they set. *)

Reports == {"connecting", "connected", "connection_error", "disconnect",
            "invalid_auth", "other"}

Item == [type : Reports, envelope : {NoEnvelope}]
            \cup [type : {"events_api"}, envelope : Envelope]

Report(type) == [type |-> type, envelope |-> NoEnvelope]

Delivery(v) == [type |-> "events_api", envelope |-> v]

(* Acknowledged envelopes of which this process holds the only copy. *)
InMemory ==
    ({hand} \cup Range(queue) \cup {job[w] : w \in Workers}) \ {NoEnvelope}

------------------------------------------------------------------------------
Init ==
    /\ sent = [e \in Events |-> 0]
    /\ slackAcked = {} /\ acksInFlight = {}
    /\ link = "down" /\ linkEvents = 0
    /\ inbox = <<>>
    /\ process = "running" /\ restarts = 0
    /\ cancelled = FALSE
    /\ connected = FALSE /\ socketState = "disconnected"
    /\ loopPc = "receive" /\ hand = NoEnvelope /\ loopDepth = 0
    /\ queue = <<>>
    /\ workerPc = [w \in Workers |-> "select"]
    /\ job = [w \in Workers |-> NoEnvelope]
    /\ workerDepth = [w \in Workers |-> 0]
    /\ depthGauge = 0
    /\ acked = {} /\ discarded = {} /\ handled = {} /\ lost = {}
    /\ accepted = <<>> /\ taken = <<>>

------------------------------------------------------------------------------
(* Slack and the client. *)

Push(item) ==
    /\ process = "running"
    /\ Len(inbox) < InboxSize
    /\ inbox' = Append(inbox, item)

(* Slack sends the next envelope of an event it has no acknowledgement of: *)
(* the first one, or a redelivery after three seconds or a reconnection.   *)
SlackDelivers(e, shape) ==
    /\ link = "connected"
    /\ e \notin slackAcked
    /\ sent[e] < MaxDeliveries
    /\ sent' = [sent EXCEPT ![e] = @ + 1]
    /\ Push(Delivery([event |-> e, delivery |-> sent[e] + 1, shape |-> shape]))
    /\ UNCHANGED <<slackAcked, acksInFlight, linkVars, processVars>>

(* An acknowledgement that is lost is one that is never received. *)
SlackReceivesAck(v) ==
    /\ v \in acksInFlight
    /\ acksInFlight' = acksInFlight \ {v}
    /\ slackAcked' = slackAcked \cup {v.event}
    /\ UNCHANGED <<sent, linkVars, inbox, processVars>>

(* The order in which slack-go reports: an attempt starts with             *)
(* "connecting" and ends "connected", in an error it retries, or refused;  *)
(* a connection ends with Slack's "disconnect" or with the next attempt.   *)
LinkSteps ==
    {<<"down", "connecting">>, <<"connected", "connecting">>,
     <<"connecting", "connected">>, <<"connecting", "connection_error">>,
     <<"connection_error", "connecting">>, <<"connecting", "invalid_auth">>,
     <<"connected", "disconnect">>, <<"disconnect", "connecting">>}

LinkReports(type) ==
    /\ <<link, type>> \in LinkSteps
    /\ linkEvents < MaxLinkEvents
    /\ link' = type
    /\ linkEvents' = linkEvents + 1
    /\ Push(Report(type))
    /\ UNCHANGED <<slackVars, processVars>>

(* hello, bad message, incoming error, and the types nobody handles *)
ClientReportsOther ==
    /\ link = "connected"
    /\ linkEvents < MaxLinkEvents
    /\ linkEvents' = linkEvents + 1
    /\ Push(Report("other"))
    /\ UNCHANGED <<slackVars, link, processVars>>

------------------------------------------------------------------------------
(* The event loop. *)

Receives(type) ==
    /\ process = "running"
    /\ loopPc = "receive"
    /\ inbox # <<>>
    /\ Head(inbox).type = type
    /\ inbox' = Tail(inbox)

(* The loop does nothing else for what it received. *)
OnlyReceives ==
    UNCHANGED <<slackVars, linkVars, lifeVars, loopVars, channelVars, workerVars,
                depthGauge, historyVars>>

(* Fault: readiness survives the next connection attempt. *)
LoopKeepsReady ==
    /\ Receives("connecting") /\ OnlyReceives
    /\ socketState' = "connecting" /\ UNCHANGED connected

LoopSeesConnecting ==
    /\ Receives("connecting") /\ OnlyReceives
    /\ socketState' = "connecting" /\ connected' = FALSE

LoopSeesConnectionError ==
    /\ Receives("connection_error") /\ OnlyReceives
    /\ socketState' = "connection_error" /\ connected' = FALSE

LoopSeesConnected ==
    /\ Receives("connected") /\ OnlyReceives
    /\ socketState' = "connected" /\ connected' = TRUE

LoopSeesDisconnect ==
    /\ Receives("disconnect") /\ OnlyReceives
    /\ socketState' = "disconnected" /\ connected' = FALSE

(* The metric keeps its value here. *)
LoopSeesInvalidAuth ==
    /\ Receives("invalid_auth") /\ OnlyReceives
    /\ connected' = FALSE /\ UNCHANGED socketState

LoopSeesOther ==
    /\ Receives("other") /\ OnlyReceives
    /\ UNCHANGED readyVars

(* Not an EventsAPIEvent: acknowledged if there is a request, then dropped. *)
LoopDropsUnexpected ==
    /\ Receives("events_api")
    /\ LET v == Head(inbox).envelope IN
       \/ /\ v.shape = "unexpected"
          /\ acked' = acked \cup {v}
          /\ discarded' = discarded \cup {v}
          /\ acksInFlight' = acksInFlight \cup {v}
       \/ /\ v.shape = "unexpected_no_request"
          /\ UNCHANGED <<acked, discarded, acksInFlight>>
    /\ UNCHANGED <<sent, slackAcked, linkVars, lifeVars, readyVars, loopVars,
                   channelVars, workerVars, depthGauge, handled, lost>>

(* An event with no request cannot be acknowledged and is not enqueued. *)
LoopDropsNilRequest ==
    /\ Receives("events_api") /\ OnlyReceives
    /\ Head(inbox).envelope.shape = "no_request"
    /\ UNCHANGED readyVars

(* client.Ack, and only then the send on the channel. *)
LoopAcks ==
    /\ Receives("events_api")
    /\ LET v == Head(inbox).envelope IN
       /\ v.shape = "callback"
       /\ acked' = acked \cup {v}
       /\ acksInFlight' = acksInFlight \cup {v}
       /\ hand' = v
    /\ loopPc' = "send"
    /\ UNCHANGED <<sent, slackAcked, linkVars, lifeVars, readyVars, loopDepth,
                   channelVars, workerVars, depthGauge, discarded, handled, lost>>

(* The loop is done with what it had in hand. *)
LetsGo ==
    /\ process = "running"
    /\ loopPc = "send"
    /\ hand' = NoEnvelope
    /\ loopPc' = "measure"
    /\ UNCHANGED <<slackVars, linkVars, inbox, lifeVars, readyVars, loopDepth,
                   workerVars, depthGauge, historyVars, taken>>

Enqueues ==
    /\ queue' = Append(queue, hand)
    /\ accepted' = Append(accepted, hand)

(* Fault: a send that does not block drops the event when it cannot. *)
LoopSendsOrDrops ==
    /\ LetsGo
    /\ \/ Len(queue) < QueueSize /\ Enqueues
       \/ Len(queue) = QueueSize /\ UNCHANGED <<queue, accepted>>

(* Fault: an unbounded buffer. *)
LoopSendsUnbounded == LetsGo /\ Enqueues

(* eventsAPIQueue <- eventsAPI blocks while the buffer is full; ctx is not *)
(* consulted.                                                              *)
LoopSends ==
    /\ Len(queue) < QueueSize
    /\ LetsGo
    /\ Enqueues

LoopMeasures ==
    /\ process = "running"
    /\ loopPc = "measure"
    /\ loopDepth' = Len(queue)
    /\ loopPc' = "set_gauge"
    /\ UNCHANGED <<slackVars, linkVars, inbox, lifeVars, readyVars, hand,
                   channelVars, workerVars, depthGauge, historyVars>>

LoopSetsGauge ==
    /\ process = "running"
    /\ loopPc = "set_gauge"
    /\ depthGauge' = loopDepth
    /\ loopDepth' = 0
    /\ loopPc' = "receive"
    /\ UNCHANGED <<slackVars, linkVars, inbox, lifeVars, readyVars, hand,
                   channelVars, workerVars, historyVars>>

Loop ==
    \/ LoopSeesConnecting \/ LoopSeesConnectionError \/ LoopSeesConnected
    \/ LoopSeesDisconnect \/ LoopSeesInvalidAuth \/ LoopSeesOther
    \/ LoopDropsUnexpected \/ LoopDropsNilRequest
    \/ LoopAcks \/ LoopSends \/ LoopMeasures \/ LoopSetsGauge

------------------------------------------------------------------------------
(* The workers. *)

(* Worker w receives v and leaves rest in the channel. *)
Takes(w, v, rest) ==
    /\ process = "running"
    /\ workerPc[w] = "select"
    /\ queue # <<>>
    /\ queue' = rest
    /\ taken' = Append(taken, v)
    /\ job' = [job EXCEPT ![w] = v]
    /\ workerPc' = [workerPc EXCEPT ![w] = "handle"]
    /\ UNCHANGED <<slackVars, linkVars, inbox, lifeVars, readyVars, loopVars,
                   accepted, workerDepth, depthGauge, historyVars>>

(* Fault: two workers are given the same event. *)
WorkerPeeks(w) == Takes(w, Head(queue), queue)

(* Fault: the buffer is a stack. *)
WorkerTakesNewest(w) ==
    Takes(w, queue[Len(queue)], SubSeq(queue, 1, Len(queue) - 1))

(* With both branches of the select ready, Go takes either. *)
WorkerReceives(w) == Takes(w, Head(queue), Tail(queue))

WorkerQuits(w) ==
    /\ process = "running"
    /\ workerPc[w] = "select"
    /\ cancelled
    /\ workerPc' = [workerPc EXCEPT ![w] = "quit"]
    /\ UNCHANGED <<slackVars, linkVars, inbox, lifeVars, readyVars, loopVars,
                   channelVars, job, workerDepth, depthGauge, historyVars>>

(* HandleEventsAPI returns, and len(eventsAPIQueue) is read for the gauge. *)
WorkerHandles(w) ==
    /\ process = "running"
    /\ workerPc[w] = "handle"
    /\ handled' = handled \cup {job[w]}
    /\ job' = [job EXCEPT ![w] = NoEnvelope]
    /\ workerDepth' = [workerDepth EXCEPT ![w] = Len(queue)]
    /\ workerPc' = [workerPc EXCEPT ![w] = "set_gauge"]
    /\ UNCHANGED <<slackVars, linkVars, inbox, lifeVars, readyVars, loopVars,
                   channelVars, depthGauge, acked, discarded, lost>>

SetsGauge(w, next) ==
    /\ process = "running"
    /\ workerPc[w] = "set_gauge"
    /\ depthGauge' = workerDepth[w]
    /\ workerDepth' = [workerDepth EXCEPT ![w] = 0]
    /\ workerPc' = [workerPc EXCEPT ![w] = next]
    /\ UNCHANGED <<slackVars, linkVars, inbox, lifeVars, readyVars, loopVars,
                   channelVars, job, historyVars>>

(* Fault: a worker serves one event and returns. *)
WorkerServesOnce(w) == SetsGauge(w, "quit")

WorkerSetsGauge(w) == SetsGauge(w, "select")

Worker(w) ==
    WorkerReceives(w) \/ WorkerQuits(w) \/ WorkerHandles(w) \/ WorkerSetsGauge(w)

------------------------------------------------------------------------------
(* The life of the process. *)

(* SIGINT or SIGTERM, or client.Run returning its error (after it reported *)
(* invalid_auth).                                                          *)
Cancel ==
    /\ process = "running"
    /\ ~cancelled
    /\ cancelled' = TRUE
    /\ UNCHANGED <<slackVars, linkVars, inbox, process, restarts, readyVars,
                   loopVars, channelVars, workerVars, depthGauge, historyVars>>

(* Everything the process held is gone with it. *)
ProcessEnds ==
    /\ process = "running"
    /\ process' = "down"
    /\ cancelled' = FALSE
    /\ lost' = lost \cup InMemory
    /\ link' = "down"
    /\ inbox' = <<>>
    /\ connected' = FALSE /\ socketState' = "disconnected"
    /\ loopPc' = "receive" /\ hand' = NoEnvelope /\ loopDepth' = 0
    /\ queue' = <<>>
    /\ workerPc' = [w \in Workers |-> "select"]
    /\ job' = [w \in Workers |-> NoEnvelope]
    /\ workerDepth' = [w \in Workers |-> 0]
    /\ depthGauge' = 0
    /\ accepted' = <<>> /\ taken' = <<>>
    /\ UNCHANGED <<slackVars, linkEvents, restarts, acked, discarded, handled>>

(* main returns once ctx is done and the HTTP server is shut down: it      *)
(* waits for neither the loop nor the workers.                             *)
MainReturns == cancelled /\ ProcessEnds

(* os.Exit(1) of the HTTP listener, a panic in a handler, SIGKILL *)
Crash == ~cancelled /\ ProcessEnds

(* The supervisor starts it again. *)
Restart ==
    /\ process = "down"
    /\ restarts < MaxRestarts
    /\ process' = "running"
    /\ restarts' = restarts + 1
    /\ UNCHANGED <<slackVars, linkVars, inbox, cancelled, readyVars, loopVars,
                   channelVars, workerVars, depthGauge, historyVars>>

------------------------------------------------------------------------------
Slack ==
    \/ \E e \in Events, shape \in Shapes : SlackDelivers(e, shape)
    \/ \E v \in acksInFlight : SlackReceivesAck(v)
    \/ \E type \in Reports : LinkReports(type)
    \/ ClientReportsOther

Next ==
    \/ Slack
    \/ Loop
    \/ \E w \in Workers : Worker(w)
    \/ Cancel \/ MainReturns \/ Crash \/ Restart

Spec == Init /\ [][Next]_vars

(* The Go scheduler runs every goroutine that can run; a handler returns,  *)
(* because each call it makes has a timeout; the shutdown of the HTTP      *)
(* server is bounded by ten seconds.  Nothing is assumed of Slack, of the  *)
(* link, of signals or of the supervisor.                                  *)
FairSpec ==
    /\ Spec
    /\ WF_vars(Loop)
    /\ \A w \in Workers : WF_vars(Worker(w))
    /\ WF_vars(MainReturns)

------------------------------------------------------------------------------
(* Every variable has the values the program can give it. *)
TypeOK ==
    /\ sent \in [Events -> 0..MaxDeliveries]
    /\ slackAcked \subseteq Events
    /\ acksInFlight \subseteq Envelope
    /\ link \in {"down"} \cup Reports
    /\ linkEvents \in 0..MaxLinkEvents
    /\ inbox \in Seq(Item)
    /\ process \in {"running", "down"}
    /\ restarts \in 0..MaxRestarts
    /\ cancelled \in BOOLEAN /\ connected \in BOOLEAN
    /\ socketState \in {"disconnected", "connecting", "connected", "connection_error"}
    /\ loopPc \in {"receive", "send", "measure", "set_gauge"}
    /\ hand \in IF loopPc = "send" THEN Envelope ELSE {NoEnvelope}
    /\ loopDepth \in 0..QueueSize
    /\ queue \in Seq(Envelope) /\ Len(queue) <= QueueSize
    /\ workerPc \in [Workers -> {"select", "handle", "set_gauge", "quit"}]
    /\ job \in [Workers -> Envelope \cup {NoEnvelope}]
    /\ \A w \in Workers :
           job[w] \in IF workerPc[w] = "handle" THEN Envelope ELSE {NoEnvelope}
    /\ workerDepth \in [Workers -> 0..QueueSize]
    /\ depthGauge \in 0..QueueSize
    /\ acked \subseteq Envelope /\ discarded \subseteq Envelope
    /\ handled \subseteq Envelope /\ lost \subseteq Envelope
    /\ accepted \in Seq(Envelope) /\ taken \in Seq(Envelope)

(* Acknowledging first puts the event at risk, but only as far as memory:  *)
(* each envelope the loop acknowledged is discarded for its type, handled, *)
(* lost with a process, or in exactly one place of the running process -   *)
(* the loop's hand, the channel, one worker.  None is dropped while the    *)
(* process lives and none is in two places, across restarts and            *)
(* redeliveries.                                                           *)
AckedAreAccountedFor ==
    /\ acked = discarded \cup handled \cup lost \cup InMemory
    /\ discarded \cap (handled \cup lost \cup InMemory) = {}
    /\ handled \cap (lost \cup InMemory) = {}
    /\ lost \cap InMemory = {}

(* What is in memory is in one place of it only. *)
OnePlaceInMemory ==
    /\ hand # NoEnvelope =>
          /\ hand \notin Range(queue)
          /\ \A w \in Workers : job[w] # hand
    /\ \A i, j \in 1..Len(queue) : queue[i] = queue[j] => i = j
    /\ \A w \in Workers : job[w] \notin Range(queue)
    /\ \A w, u \in Workers : job[w] # NoEnvelope /\ job[w] = job[u] => w = u

(* An envelope waiting in client.Events is new: it was sent, it was not    *)
(* acknowledged, and it waits there once.                                  *)
InboxIsFresh ==
    /\ \A v \in acked : v.delivery <= sent[v.event]
    /\ \A i \in 1..Len(inbox) : inbox[i].type = "events_api" =>
           /\ inbox[i].envelope \notin acked
           /\ inbox[i].envelope.delivery <= sent[inbox[i].envelope.event]
           /\ \A j \in 1..Len(inbox) : inbox[j] = inbox[i] => i = j

(* What was sent to the channel in this life is what was received from it  *)
(* and then what it holds; nothing was sent twice.                         *)
LogsAgree ==
    /\ accepted = taken \o queue
    /\ Range(accepted) \subseteq acked
    /\ hand \notin Range(accepted)
    /\ \A i, j \in 1..Len(accepted) : accepted[i] = accepted[j] => i = j

(* The conjunction that every step preserves. *)
Invariant ==
    /\ TypeOK
    /\ AckedAreAccountedFor
    /\ OnePlaceInMemory
    /\ InboxIsFresh
    /\ LogsAgree

(* However the process ends, it loses no more acknowledged events than the *)
(* channel holds, one for each worker and the one in the loop's hand.      *)
AtRisk == QueueSize + Cardinality(Workers) + 1

LossIsBounded == [][Cardinality(lost' \ lost) <= AtRisk]_vars

(* /readyz (socketConnected) and the socket_mode_state metric are set by   *)
(* separate statements, and invalid_auth sets only one of them; between    *)
(* two events they still never disagree on whether the socket is up.       *)
ReadyAgreesWithMetric ==
    loopPc = "receive" => (connected <=> socketState = "connected")

(* An acknowledged event is eventually handled, unless its process ends.   *)
AckedAreHandled ==
    \A e \in Events, d \in 1..MaxDeliveries, shape \in Shapes :
        LET v == [event |-> e, delivery |-> d, shape |-> shape] IN
        v \in acked ~> v \in handled \cup lost \cup discarded

(* Readiness is reported from the same loop that blocks on a full channel: *)
(* an outage is still reported eventually, even when the workers have quit *)
(* under a full channel (then because the process ends).                   *)
OutageIsReported ==
    link # "connected" ~> (~connected \/ link = "connected")

(* The help text of events_api_queue_depth calls it the current number of  *)
(* envelopes waiting: when the loop and all workers are at rest, the gauge *)
(* should show the length of the channel.                                  *)
AtRest == /\ process = "running"
          /\ loopPc = "receive"
          /\ \A w \in Workers : workerPc[w] = "select"

GaugeShowsDepth == AtRest => depthGauge = Len(queue)

(* The channel and its two ends hand envelopes off in order. *)
HandOffSpec == INSTANCE HandOff WITH Item <- Envelope, Capacity <- QueueSize

HandsOffInOrder == HandOffSpec!Spec

HandsOffEventually == HandOffSpec!FairSpec
==============================================================================
