# slack-orchestrator in TLA+

A verification project for slack-orchestrator: TLA+ modules translated from the Go source, TLC
configurations that check them on small instances, and TLAPS proofs of the safety properties for every value
of the constants. `PROJECT.json` maps each definition to the lines it stands for and lists runs, mutants, hazards,
findings and theorems.

    tlc -workers 2 -config EventLoopAccounting.cfg MCEventLoop.tla     # a run
    tlapm EventLoopProofs.tla                                          # the proofs

## 1. The system

The program receives Slack events over Socket Mode, decides which employees (bots) of a squad answer a message
and with which tool, and publishes one work item for each to a NATS JetStream stream.

    Slack --socketmode--> event loop --eventsAPIQueue--> workers: slackrun.HandleEventsAPI
                             | ack, readiness               | thread history (Slack), pin and terms (Redis)
                             v                              v
                        /readyz, metrics               routing.Decide --> dispatch.Decision --> NATS

| Component | State | Operations | What makes it correct |
|---|---|---|---|
| Event loop, queue, workers (`cmd/slack-orchestrator/main.go`) | the channel, what each goroutine has in hand, `ctx` | one case per event type; ack, then send; receive, handle; cancel, return | an acknowledged envelope is nowhere lost or doubled while the process lives; what its end loses is bounded; order of the hand-off |
| Readiness (`main.go`, `metrics`) | `socketConnected`, two gauges | set by the loop and the workers | readiness follows the connection, also under back-pressure |
| Dispatch (`internal/dispatch`) | shared NATS connection under `jsMu`, record of ensured streams under `streamEnsureMu` | connect, ensure, publish with retries | a result says what happened; copies are bounded; one live connection; every call returns |
| Message handler (`internal/slackrun`) | none of its own; what it has read so far | filters, history, pin, terms, decide, pin, dispatch | the terms gate; a follow-up goes to the employee its thread was handed to |
| Routing (`internal/routing`) | none | `Decide` and what it calls | one employee answers except to a broadcast; a pipeline follows the text |
| Thread pins (`internal/threadpin`, `slackrun/thread_pin.go`) | Redis key per thread, seven days | set, get | a pin names who its root kicked off |
| Terms (`internal/termsredis`, `slackrun/terms_gate.go`) | two Redis records, written elsewhere | two reads | nobody is routed before acceptance |
| Decision log (`internal/decisionlog`) | bounded list under a mutex, in memory only | append after publishing, snapshot for `/debug/decisions` | the newest entries, in order; what an entry says of the dispatch is true |
| Configuration (`internal/config`) | none | read the environment at the start | the roster and its order do not depend on Go's map order; sizes the other parts rely on |
| Listings (`internal/memberchannels`, `internal/channelmembers`) | none beyond the request | paginate Slack, look people up, for one HTTP request | complete, or marked as cut; every request ends |
| Inbound contract, catalogue, metrics, logging, generators | tables | none | - |

What is hard here: the workers share one channel, one NATS connection, one record and one gauge; Slack delivers
events late, again and out of order, and has two events for a message that mentions the orchestrator; each of
Slack, Redis and NATS fails or times out, and a timed-out publish may have been stored; the acknowledgement
precedes everything else, so a restart loses work. Section 8 names the properties, `PROJECT.json` each hazard
at its line.

## 2. The modules

| Module | Models | Uses |
|---|---|---|
| `HandOff` | abstract specification: items are accepted and taken in order, at most `Capacity` wait, the end of the process forgets | |
| `EventLoop` | `main.go`: event loop, channel, workers, readiness, the process | instantiates `HandOff` |
| `Delivery` | abstract specification: at-least-once publishing of one decision to its employees | |
| `Dispatch` | `internal/dispatch`, with NATS outside | instantiates `Delivery` |
| `DecisionLog` | `internal/decisionlog` and the end of `emitDecision` | instantiates `Delivery` for the publishing |
| `Listing` | `internal/memberchannels`, `internal/channelmembers` | |
| `Routing` | `internal/routing` as operators over texts of words | instantiates `Tier1` |
| `Tier1` | `internal/routing/tools.go` as operators over words | |
| `Settings` | `internal/config` as operators over an environment | |
| `Payload` | `slackrun/message_fields.go` as operators over a message event | |
| `RoutingCheck` | evaluates `Decide`, Tier 1, the settings and the extraction on bounded inputs | extends `Routing`, instantiates `Settings`, `Payload` |
| `Threads` | `internal/slackrun` with its Redis stores, run by several workers | extends `Routing` |
| `Ordered` | sorted sequences: a set of numbers in order, what a sequence has at some places, a set in the order of a relation | extended by `Routing`, `Tier1`, `Settings`, `Payload`, `Listing` |
| `SequenceFacts` | lemmas about queues, sets in order, and folds | extended by the proofs below |
| `EventLoopProofs`, `DispatchProofs`, `DecisionLogProofs`, `ListingProofs`, `RoutingCheckProofs`, `ThreadsProofs` | the theorems of section 5 | extend the module they are named for |
| `RoutingFacts` | lemmas about the operators of `Routing` | extended by `RoutingCheckProofs`, `ThreadsProofs` |
| `MCEventLoop`, `MCDispatch`, `MCDecisionLog`, `MCListing`, `MCRouting`, `MCThreads` | values for TLC | extend the above |

**EventLoop.** `loopPc` is where the loop's goroutine stands: `receive` (the `range`), `send` (blocked or about
to send, after the ack), `measure` and `set_gauge` (`len()` and `Set` are two steps). `workerPc` is the same for
a worker: `select`, `handle`, `set_gauge`, `quit`. There is one action per `case` of the loop. `SlackDelivers`
and the connection reports are external: Slack redelivers an event until it has an acknowledgement of it, and
the reports follow the order in which slack-go emits them (`LinkSteps`). An envelope has one of four shapes,
one for each branch of the `EventsAPI` case. `acked`, `discarded`, `handled`, `lost`, `accepted` and `taken` are
history. `ProcessEnds` is both the return of `main`, which waits for no goroutine, and a crash.

**Dispatch.** A call of `Decision` steps through the lock, the check of the connection, the dial, the read of the
ensured record, `StreamInfo`, `AddStream`, the record, and the loop over the employees. `js[c]` is the connection a
call was given; another call may close it. A failed publish is one of the errors the client can return in that state
(`PossibleErrors`); after a timeout, and when the connection is lost or closed by another worker under the publish,
the message may be on its way all the same (`inFlight`), which is what makes retries store copies. `stored` counts the
messages the stream was ever given: the deletion of the stream takes none back, so `OkMeansStored` says that an OK was
true when it was returned. `Promise` maps the call's place to one of four outcomes and the stored copies to `sent`: to
its caller a call is `Delivery`, in which connections, streams and retries do not exist.

**DecisionLog.** The worker's `dispatch.Decision` is a call of `Delivery`; that `Dispatch` implements `Delivery`
(`DeliversAsPromised`) is what lets the log be checked without the steps of `Dispatch`. `Appends` and `Shows` each
hold the log's mutex for all they do, so each is one step. An entry keeps its call, its results and its note.
`history` is every call that appended, also the ones whose entries were dropped.

**Listing.** A request is for channels or for members; the handler stands at `start`, `page`, `lookup` or `answered`.
A page is any sequence of ids and blanks up to its size, with or without a next cursor; `DeadlinePasses` makes every
later call fail. Ids are numbers in alphabetical order. `shown` and `unknown` are history.

**Routing.** A text is what routing reads of it: its words, in which a user id stands for a mention; the broadcast it
calls; whether it has the form of a roster or of a create-company post; whether it asks for the terms. Where `Decide`
or the pipeline classifies a message or a segment of it, the operator is the code's Tier 1 on exactly those words
(`Classify`, which is `Tier1`'s `ClassifyWithReason` without the reason), so that a tool that is only talked about, or
is named beside another, is conversation here too. `Intn` stands for the generator seeded with SHA-256; `ShuffleOrder`
is the code's Fisher-Yates over it. Loops are folds; a filter is `Selected` and a sort `InOrder` or `SortedBy`, all of
`Ordered`, since the prover has no definition of the library's. In `Settings` the order of a Go map is a parameter,
`walk`; `RoutingCheck` starts the program with one walk and restarts it with any other. In `Payload` an event has
fields at its top and in a nested message, which need not agree.

**Threads.** A script is what people and bots post, numbered by timestamp. A post has a bot id or not, whoever its
author is, because `handleMessage` looks at the one for its filter and the terms gate and at the other for delegation.
A message that starts a thread may name itself as the thread (`thread_ts` equal to `ts`), as Slack does once it has
replies. A worker's place `pc` is the call to the outside it is about to make: `history` (conversations.replies),
`pin`, `index` and `profile` (the two reads of `HumansTermsAccepted`), `decide`, `pin_set`, `dispatch`. Every read has
a step that succeeds and one that fails; between any two steps other workers run, people post, the backend records
acceptance, a pin expires, the process restarts. `dispatched` is the history of what was handed to
`dispatch.Decision`.

## 3. The runs

All runs finish well within five minutes with two workers. Model values stand for ids; every bound is a constant
named in the module.

| Run | Configuration | Bounds | Shows |
|---|---|---|---|
| `hand_off` | `EventLoopHandOff.cfg` | 2 events, 2 deliveries each, 2 workers, queue of 2, 2 reports, 1 restart | `OnePlaceInMemory`; the code implements `HandOff` (`HandsOffInOrder`) |
| `accounting` | `EventLoopAccounting.cfg` | 1 event in all shapes with 4 deliveries, 1 worker, queue of 1, 4 reports, 1 restart | `TypeOK`, `AckedAreAccountedFor`, `LossIsBounded`, `ReadyAgreesWithMetric` |
| `liveness` | `EventLoopLiveness.cfg` | 1 event with 3 deliveries, 1 worker, queue of 1, 4 reports, 1 restart, fairness | `AckedAreHandled`, `OutageIsReported`, `HandsOffEventually` |
| `gauge` | `EventLoopGauge.cfg` | 1 event, 1 worker | finding: `GaugeShowsDepth` fails |
| `dispatch` | `Dispatch.cfg` | 2 calls (a fan-out with a duplicate and a blank; a mention), 2 attempts, 2 connections, 1 outage, 1 deletion, all configurations, fairness | eight properties of section 8, the refinement of `Delivery` among them |
| `decision_log` | `DecisionLog.cfg` | 3 calls (a fan-out, no employees, a blank one), a log configured with -1, 2, 3 or 9 (clamped to 2 or 3 entries), 5 limits asked for, fairness | `TypeOK`, `ShowsTheNewest`, `EntriesAreTrue`, `EveryDecisionIsLogged` |
| `listing` | `Listing.cfg` | 4 ids, 3 of them humans, pages of up to 2, caps of 3, 5 and 2, 5 requests, fairness | five properties of the listings |
| `routing` | `Routing.cfg` | messages: every text with up to 3 mentions of 3 users and 4 phrases after each, with or without words before the first, 2 authors, 3 forms, broadcasts, plain messages and requests for the terms, only such as the handlers let through; words: every text of up to 4 of 13 phrases; environments: rosters of up to 3 pairs or 4 ids with blanks and repeats, numbers in and out of range; events: 5 texts at the top and nested, with files | seven properties of the pure parts |
| `tier1_names` | `Tier1Names.cfg` | the same texts of words | finding: `OneNameOneIntent` fails |
| `threads` | `Threads.cfg` | 10 scripts of up to 4 messages, 2 workers, 2 deliveries of each event, 3 configurations, 1 expiry, 1 restart | five properties of the handler |
| `threads_created` | `ThreadsCreated.cfg` | 1 message, no Redis | finding: `CreatedPostIsNotRouted` fails |
| `threads_long` | `ThreadsLong.cfg` | 4 messages, a page of 2 | finding: `HandoffIsLastMention` fails |

`dispatch`, `decision_log`, `listing`, `routing` and `threads` have 172,853, 13,402, 152,037, 127,490 and 533,748 distinct
states.

Why the bounds are enough to be interesting: in `hand_off` four envelopes meet a queue of two, so the loop
blocks, two workers compete, and redelivered copies of one event are in memory together; in `accounting` the
four deliveries exceed what queue, worker and loop hold together, so the bound on loss is reached (the mutant
without a bound on the queue breaks it). In `dispatch` two connections suffice for one call to close the other's;
two attempts for a copy to be stored late and again. In `threads` a script has at least one message before and
one after the follow-up in question, and two workers suffice for one to be late. In `decision_log` three calls
overflow a log of two; in `listing` no cap is a multiple of the page, so each is reached within a page, at its end
and by the last page; in `routing` two names of one tool, a longer name around a shorter one and the words around
them fit into four phrases, and three pairs make bots that share a key and ids that are given twice.

Symmetry is declared over events and workers in `hand_off` and over workers in `threads`; both check safety
properties only. Deadlock is not checked: with its bounds used up each model stops, and a process that is down
may stay down.

## 4. Fairness

`EventLoop.FairSpec`: weak fairness of the loop, of each worker and of the return of `main`. The Go scheduler
runs a goroutine that can run; a handler returns because each of its calls has a timeout (five seconds for Slack,
two for Redis, twenty for a NATS dial, five for a JetStream request); the HTTP server is given ten seconds to
shut down. Nothing is assumed of Slack, of the connection, of signals or of the supervisor, so
`AckedAreHandled` has `lost` among its outcomes and the link may stay down for ever.

`Dispatch.FairSpec`: weak fairness of each call, one action `Call(c)` for all its steps. The steps that fail stand
for the timeouts. Nothing is assumed of NATS. Mutual exclusion needs no stronger fairness in the run because each
of the finitely many calls takes the mutex once.

`DecisionLog.FairSpec`: weak fairness of each worker's append and of each call of `Delivery`. The latter is what
`CallsReturn` shows of `Dispatch` under its own fairness; that a publish arrives late is not fair.

`Listing.FairSpec`: weak fairness of the handler, and of the passing of time, which ends the request's context after
45 or 60 seconds. Nothing is assumed of Slack: pages may go on for ever, and `RequestsEnd` rests on the deadline.

`Routing`, `RoutingCheck` and `Threads` state safety only.

## 5. What is proved

Each theorem is about the specification with nothing but its named assumptions about the constants, so it holds for
any number of events, workers, calls, connections, pages and messages and any size of queue, log, page and cap.
TLC evaluates the assumptions on every run.

| Module | Theorem | States |
|---|---|---|
| `EventLoopProofs` | `TypeCorrect` | `Spec => []TypeOK` |
| | `AcknowledgedAreAccountedFor` | `Spec => []AckedAreAccountedFor` |
| | `AcknowledgedAreInOnePlace` | `Spec => []OnePlaceInMemory` |
| | `LossOfOneProcess` | `Spec => LossIsBounded` |
| | `ImplementsHandOff` | `Spec => HandsOffInOrder`, the refinement of `HandOff` |
| | `ReadinessAgrees` | `Spec => []ReadyAgreesWithMetric` |
| `DispatchProofs` | `TypeCorrect` | `Spec => []TypeOK` |
| | `ConnectionsAreNotLeaked` | `Spec => []OneLiveConnection` |
| | `RecordIsBacked` | `Spec => []EnsuredHasExisted` |
| | `AnswersAreComplete` | `Spec => []EveryTargetIsAnswered` |
| | `OkIsBacked` | `Spec => []OkMeansStored` |
| | `RetriesAreBounded` | `Spec => []CopiesAreBounded` |
| | `DeliversWhatItPromises` | `Spec => DeliversAsPromised`, the refinement of `Delivery` |
| `DecisionLogProofs` | `TypeCorrect` | `Spec => []TypeOK` |
| | `EntriesStayTrue` | `Spec => []EntriesAreTrue` |
| | `ReaderSeesTheNewest` | `Spec => []ShowsTheNewest` |
| `ListingProofs` | `TypeCorrect` | `Spec => []TypeOK` |
| | `ChannelsAreNotMissed` | `Spec => []ChannelsAreCompleteOrCut` |
| | `HumansAreNotMissed` | `Spec => []HumansAreCompleteOrCut` |
| | `FirstHumansAreKept` | `Spec => []CutKeepsTheFirst` |
| `RoutingCheckProofs` | `OnlyBroadcastsFanOut` | `Spec => []OneEmployeeAnswers` |
| | `StepsAreTheText` | `Spec => []StepsFollowTheText` |
| | `BroadcastsReachTheRoster` | `Spec => []BroadcastReachesRoster` |
| | `RestartsGiveTheSame` | `Spec => RestartsAgree` |
| | `RosterMakesTheOrder` | `Spec => []OrderIsTheRoster` |
| | `GuardsReadEverything` | `Spec => []GuardsSeeEverySurface` |
| | `NamesMakeTheTool` | `Spec => []NamesDecideTheTool` |
| `ThreadsProofs` | `TypeCorrect` | `Spec => []TypeOK` |
| | `TermsAreGated` | `Spec => []TermsGate` |
| | `PinsNameTheirKickoff` | `Spec => []PinNamesKickoff` |
| | `OneAnswerPerMessage` | `Spec => []SameMessageSameAnswer` |
| | `FollowUpsAreFollowed` | `Spec => []FollowUpsFollowTheThread`, if `ThreadsFit` |

**The event loop.** From `SizesAssumption` (the queue holds at least one, the workers are finitely many and at least
one: `config.FromEnv` raises both settings to 1), `EnvelopeAssumption` and `BoundsAssumption`.
`AckedAreAccountedFor` is not inductive: the loop could acknowledge an envelope that was handled before. So
`Invariant` adds `InboxIsFresh` (an envelope waiting in `client.Events` was never acknowledged and waits there once,
because Slack numbers its deliveries), `OnePlaceInMemory` (otherwise the end of one goroutine's work would leave a
second copy behind) and `LogsAgree` (what was accepted is what was taken followed by what waits). `PlaceSteps`,
`LogSteps` and `InboxSteps` sort the actions by what they change; `FreshStep`, `PlacesStep` and `LogsStep` prove the
parts, one case per action. The bound on loss follows from the cardinality of the union of the hand, the channel and
the jobs (`InMemoryIsBounded`). The refinement needs `LogsAgree`: the head of the channel is the next accepted item,
and what is in the loop's hand was not accepted before. `ReadyInv` is why readiness and the gauge agree though
`invalid_auth` sets only one of them: before such a report in the inbox there is always a `connecting` with no
`connected` after it, or the gauge already says so (`Quiet`).

**Dispatch.** `TypeInv` is `TypeOK` with what a call at the publish is aimed at. `ConnectionInv` adds to
`OneLiveConnection` who may stand between lock and unlock (`Exclusive`): only the holder drains, dials or assigns.
`ExistedInv` follows the three places that say something of the stream - JetStream, the record, and a call about to
write the record, which another call or a deletion may overtake. `ProgressInv` says how far each call has got: what
was answered is what was named by the places passed, and `InTheirOrder` that it was answered in the order in which the
decision names each employee first (`OrderGrows`: the place reached is later than all that were answered). `CopiesInv`
counts: an employee not yet taken up has no copy stored or on its way, and the one being published to has fewer than
the attempts begun. The refinement follows action by action from these (`PromiseStep`): most steps of the lock, the
connection, the stream and the retries stutter.

**The decision log.** From `LogAssumption` (the bounds of `New` and of the endpoint). `PromiseInv` is what `Delivery`
lets a call's results mean for ever after: a call that ended silent never publishes later. `LogInv` says that the
entries are the suffix of the history that the bound allows, each the entry of its call; `ResponseInv` that a response
keeps being the suffix of what had been appended when it was given. `TypeOK` covers every variable: an entry and a sent
message get their types from `PromiseInv` and `LogInv`, a response from `ResponseType`, since a snapshot holds entries
of the log (`SnapshotType`).

**The listings.** From `ListingAssumption`. `CollectProperties` goes through the loop over a page: the ids grow up to
the cap, and below the cap nothing is left out. `ListingInv` carries that over the pages (`CollectedInv`), over the
lookups (`HumansInv`: of the ids looked up, each human once, but for failed lookups) and to the answer (`AnswerInv`).
`KeptProperties` is about the sort and the second cut: an id that is not kept is greater than all that are. So
`CutKeepsTheFirst` says of each cut what is true of it: the first keeps what the pages showed first and marks the answer
unless it lost nothing; only the second is independent of the pages, among the humans that were collected.

**Routing and the other pure parts.** The invariant, `CheckInv`, is only that what was evaluated is the value of the
operator for that kind of input (of an environment: for some walk of its roster); the work is in the lemmas about the
operators, which are for every input the assumptions admit.

- *Messages*, from `RosterAssumption`, `ToolAssumption`, `CheckAssumption` and `DrawAssumption` (`rand.Intn(k)` is one
  of k numbers; nothing else is assumed of the shuffle). `OwnPlaces` and `SegmentIsOwn` compare the segments the code
  cuts out with the places a mention owns; `LimitedOrder` and `ShuffleKeeps` say that removing the poster, cutting and
  shuffling leave the first members of the order, as many as the limit allows. That they are distinct is stated, and
  proved, for an order that has no member twice; an order the operator sets may have one, and the fan-out then names
  it twice.
- *Texts of words*, from `PatternAssumption`: the patterns are finitely many, the sort does not tie, and a pattern
  that contains another has more letters. `WithinIsPart` says that an occurrence within another one is of a pattern
  the code looks for later. So the first pattern it finds is a name (`MatchesAreNames`), and the only match if the
  text has no other name, because every occurrence lies within a name (`OccurrencesAreInNames`).
  `DescriptiveIsTalkedAbout` compares the words that `firstWord`, `secondWord` and `lastWord` cut out with their
  places in the text.
- *Environments*, from `EnvironmentAssumption` and `StringAssumption` (Go's order of strings is strict and total).
  `WalksSeeAll` says that a walk of a map visits each key once; all that a start makes of a walk is a set that is
  sorted, so two starts agree (`StartsAgree`). `SortedKeys`, `ShuffleKeeps` and the count of the keys make the derived
  order a permutation of them (`RosterIsShuffled`), `ClampedInRange` bounds the sizes.
- *Events*, from `EventAssumption` (a field is blank or a text). `JoinedMentions` says that the text the guards read
  mentions whom any surface mentions.

**The handler.** From `ThreadsAssumption`, `ScriptAssumption` and those of `Routing`. `TypeInv` holds what a worker
has in hand while it stands at each call (`Building`) and that a stored pin is a kickoff's (`PinsAreKickoffs`), which
is `PinNamesKickoff`: what the property reads off the root itself, `FirstMentioned` and `SaidToFirst`, is what the
pipeline makes of its first segment (`FirstSegment` of `RoutingFacts`). `TermsInv` says which of the two acceptance
records a worker has seen where it stands; the records only grow, so what it saw stays true while it is slow.
`AnswerInv` says where the handoff in a worker's hand came from - the thread before the message or the pin of its root
(`Grounds`) - and keeps the same of everything dispatched, so that two decisions on one message can be compared though
messages were posted in between. `FollowUpsAreFollowed` has a hypothesis, `ThreadsFit`: no thread is longer than the
page the code reads. The `threads` run satisfies it, and finding 4 is what happens without it.

**Folds.** The library's induction theorems take an operator as a parameter, which the provers cannot instantiate.
`LeastNatural` replaces them: a property that fails for some natural fails for a least one. With it `FoldExists` shows
that the function a fold chooses exists and obeys its recursion, whatever the length of the sequence, so that the
loops of `LastSquadHandoffKey`, of the shuffle and of a page are proved about step by step.

Model-checked only: liveness, for which the provers have no ENABLED and no fairness rules that work here -
`AckedAreHandled`, `OutageIsReported`, `HandsOffEventually`, `CallsReturn`, `EveryDecisionIsLogged`, `RequestsEnd` -
and the four findings, which are counterexamples. Every invariant, every safety property of steps and both refinements
are proved.

## 6. Findings

1. **The queue depth gauge goes stale** (`GaugeShowsDepth`, `main.go:253`). Loop and workers read `len()` and set
   the gauge in separate steps; an older reading can be set last and stays until the next event.
2. **One tool, two intents** (`OneNameOneIntent`, `tools.go:180`). A tool's second name is skipped as already matched and
   covers nothing, so the shorter name of another tool within it is added: a text with `create-email-welcome` and
   `write-email-welcome` names one tool, is taken for two and goes to conversation.
3. **A create-company post without squad mentions is routed** (`CreatedPostIsNotRouted`, `decide.go:120`). The guard
   against it looks only at posts that mention the squad, and the `app_mention` event passes no bot filter. It
   takes a deployment without the terms gate.
4. **A long thread's last handover is not seen** (`HandoffIsLastMention`, `main.go:123`). One page of 200 replies is
   read. The run scales the page to 2. That the first page holds the oldest replies is Slack's behaviour, external
   to this code; the comment at `main.go:132` relies on it.

Observed while modelling, and admitted by the properties because no text of the repository says otherwise:

- `ensureStreamOnce` reads and writes its record in two critical sections, so two first decisions may both ensure the
  stream. Harmless: adding it again changes nothing, and `EnsuredHasExisted` shows what the record still promises.
- Only the first occurrence of a pattern counts (`tools.go:176`). In "create-email-welcome ... create-email" the second
  name is not looked at; "read <@U1> company" names read-company, since the token is removed before the match.
- A members listing that runs out of time while it looks people up answers 200 with the people found so far, and is
  not marked as cut (`channelmembers.go:143`).
- A mention that stands only in the nested text of an event keeps the handler from reading the thread
  (`handler.go:118`), while `Decide`, which is given the other text, sees a plain message.
- An entry's time is taken before the log's mutex (`handler.go:215`), so neighbouring entries may be out of order by it.
- The log shows an empty entry - no results, no note - when the connection or the stream failed; `EntriesAreTrue` shows
  that such an entry means that nothing was or will be published.

## 7. What is abstracted, and what is not modelled

- One text per message in `Threads`. `Payload` has the two texts an event may hold, and `GuardsSeeEverySurface` what the
  guards make of them. Edited messages are dropped by subtype (`notice`), whatever they contain.
- Raw text. Regular expressions, letter case, Unicode and the separators within a name are part of the abstract texts,
  which are sequences of words; a token between the words of a name is removed as the code does. Whether a text calls a
  broadcast, has the form of a roster or asks for the terms is a field of it and not read off its words.
- Team ids are present, so a pin is always keyed. One channel: keys and threads of different channels are disjoint.
- A pipeline's later steps travel in the payload; the worker that runs them is another program.
- The decision log's append is a step of `DecisionLog`, not of `Threads`: routing reads nothing back from it. The log
  lives in memory and starts empty with each process.
- Settings that are passed on as they are read (addresses, tokens, switches, limits); the trimming and lower-casing of
  keys.
- The names of listed channels and the sort by them; the guards of the listings' debug variants, which are those of
  `/debug/decisions`.
- Counters and log lines. `/readyz` returns a text beside the status; only the status is modelled.
- The payload is a plain struct, so the branch for a failing `json.Marshal` is not taken.
- The retry backoff has no duration, and `DispatchPublishRetryBaseMS` no effect on the model.
- Contract tables, the catalogue endpoint that serves them, the generators, metrics registration and logger set-up have
  no behaviour to check.

## 8. The properties

| Property | Module | In a sentence |
|---|---|---|
| `AckedAreAccountedFor` | EventLoop | what was acknowledged is discarded, handled, lost or in memory, and only one of these |
| `OnePlaceInMemory` | EventLoop | no envelope is in two places |
| `LossIsBounded` | EventLoop | one end of the process loses at most queue, workers and one |
| `ReadyAgreesWithMetric` | EventLoop | `/readyz` and `socket_mode_state` agree between two events |
| `HandsOffInOrder`, `HandsOffEventually` | EventLoop | refinement of `HandOff`, with and without its fairness |
| `AckedAreHandled`, `OutageIsReported` | EventLoop | liveness of the workers and of readiness |
| `OkMeansStored` | Dispatch | an OK result is backed by a stored message |
| `CopiesAreBounded` | Dispatch | no more copies than attempts, late ones included |
| `EveryTargetIsAnswered` | Dispatch | one result per distinct employee, in the order of the decision, whatever fails |
| `OneLiveConnection` | Dispatch | no connection is leaked by racing replacements |
| `EnsuredHasExisted` | Dispatch | the record speaks only of a stream JetStream confirmed |
| `CallsReturn` | Dispatch | no path keeps the mutex or waits for ever |
| `DeliversAsPromised` | Dispatch | refinement of `Delivery`: in order, once each, OK only of what is stored, nothing by a call that failed as a whole |
| `ShowsTheNewest` | DecisionLog | a response is the suffix of all appends that limit and bound allow |
| `EntriesAreTrue` | DecisionLog | results and their absence say what was and will be in the stream |
| `EveryDecisionIsLogged` | DecisionLog | each decision enters the log, whatever became of its publishing |
| `ChannelsAreCompleteOrCut`, `HumansAreCompleteOrCut` | Listing | what Slack showed is in the answer, or the answer is marked |
| `CutKeepsTheFirst` | Listing | the first cut is marked; the second leaves out the last of the alphabet of those collected |
| `RequestsEnd` | Listing | every request is answered, also when the pages never end |
| `OneEmployeeAnswers` | RoutingCheck | only a broadcast has several answers |
| `BroadcastReachesRoster` | RoutingCheck | the first members of the order up to the limit, never the poster; each once if the order has none twice |
| `StepsFollowTheText` | RoutingCheck | a pipeline has one step per mention, in order, with the tool Tier 1 makes of the words that belong to it |
| `NamesDecideTheTool` | RoutingCheck | the maximal names in a text and the words around a single one decide the tool |
| `RestartsAgree` | RoutingCheck | a restart in the same environment has the same settings |
| `OrderIsTheRoster` | RoutingCheck | a derived order has each key once; the sizes are in range |
| `GuardsSeeEverySurface` | RoutingCheck | no guard drops a message, or reads its thread, against a mention it holds |
| `TermsGate` | Threads | before acceptance only a request for the terms gets through, to Joanne |
| `FollowUpsFollowTheThread` | Threads | a plain reply goes to the employee mentioned last before it, else to its root's kickoff or one of the roster |
| `SameMessageSameAnswer` | Threads | redeliveries and the two events of a message are decided alike |
| `PinNamesKickoff` | Threads | a pin names who its root kicked off, and no reply moves it |

Each property of a passing run has a mutant in `PROJECT.json`: a definition replaced by a faulty variant (marked
"Fault" in the modules), under which TLC finds the property violated.

## 9. Plan

Done: `EventLoop`, `HandOff` and their proofs; `Dispatch` and its refinement of `Delivery`; `Routing`, `Tier1`,
`Settings` and `Payload` with `RoutingCheck`; `Threads`; `DecisionLog` over `Delivery`; `Listing`.

Proved: every invariant of every module, the two refinements, the bound on loss, and that restarts agree.

Left: a composition of `EventLoop` with the handler, so that a redelivery after a restart meets what Redis remembers.
Today `Threads` has the redelivery and the restart, and `EventLoop` the order in which workers take events.
