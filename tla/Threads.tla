------------------------------- MODULE Threads -------------------------------
(***************************************************************************)
(* internal/slackrun: HandleEventsAPI, run by several workers at once, from *)
(* the filters of a message to its dispatch.  A worker reads the history of *)
(* the thread from Slack, the thread's pin and the poster's acceptance of   *)
(* the terms from Redis, and other workers and people write all three in    *)
(* the meantime; each read may fail or time out.                            *)
(*                                                                          *)
(* Slack is external: people and bots post the messages of a script, one    *)
(* after the other; an event is delivered late, out of order or again; a    *)
(* message that mentions the orchestrator's own bot has two events.  The    *)
(* backend that records acceptance, and the expiry of a pin, are external.  *)
(***************************************************************************)
EXTENDS Routing

CONSTANTS
    Scripts,         \* what may be posted: sequences of messages
    Workers,
    Bots,            \* user ids of bots
    Orchestrator,    \* the orchestrator's own user id
    NoUser,          \* a message without a user
    Modes,           \* the configurations to start from
    PageSize,        \* the Limit of conversations.replies
    MaxWords,        \* bound: words of one text
    MaxDeliveries,   \* bound: deliveries of one event
    MaxExpiries,     \* bound: expiries of a pin
    MaxRestarts      \* bound: restarts of the process

AllModes == {"full", "no_redis", "no_dispatch"}

EventTypes == {"message", "app_mention"}

ASSUME ThreadsAssumption ==
    /\ Squad \subseteq Bots /\ Bots \subseteq User
    /\ Orchestrator \in Bots \ Squad
    /\ NoUser \notin User
    /\ Modes \subseteq AllModes
    /\ {MaxWords, MaxDeliveries, MaxExpiries, MaxRestarts} \subseteq Nat
    /\ PageSize \in Nat \ {0}

(* A post carries a bot id, or does not, whoever is its author. *)
Post == [author : User \cup {NoUser}, bot : BOOLEAN, thread : Nat, text : Text,
         notice : BOOLEAN]

(* A reply is to an earlier message that starts a thread, which may name   *)
(* itself as its thread; an edit or a join has no app_mention.             *)
ASSUME ScriptAssumption ==
    \A posts \in Scripts :
        /\ posts \in Seq(Post)
        /\ \A m \in 1..Len(posts) :
              /\ posts[m].thread # 0 =>
                     /\ posts[m].thread <= m
                     /\ posts[posts[m].thread].thread \in {0, posts[m].thread}
              /\ posts[m].notice => Orchestrator \notin Mentions(posts[m].text)

VARIABLES
    mode,             \* which of Redis and NATS are configured
    \* Slack (external)
    script, posted,   \* the script, and how much of it was posted
    deliveries,       \* how often each event was delivered
    \* Redis
    indexed, agreed,  \* users in the Slack index; users who accepted the terms
    pin,              \* for each thread root, the pinned employee
    expiries,
    \* the workers
    pc, job,          \* where, with which event
    in,               \* the routing.Input built so far
    history,          \* whether conversations.replies was asked, and answered
    decision,
    restarts,
    \* history
    dispatched        \* what was handed to dispatch.Decision

redisVars == <<indexed, agreed, pin, expiries>>
slackVars == <<script, posted, deliveries>>
vars == <<mode, slackVars, redisVars, pc, job, in, history, decision, restarts,
          dispatched>>

------------------------------------------------------------------------------
(* The messages of the script are numbered in the order of their           *)
(* timestamps.  A message that starts a thread has thread 0 or its own     *)
(* number, a reply the number of its root.                                 *)

Root(m) == IF script[m].thread = 0 THEN m ELSE script[m].thread

NoJob == [m |-> 0, type |-> "message"]

NoInput == [ts |-> 0]

(* What the handler fills in before it asks anybody. *)
Input(m) ==
    [text |-> script[m].text, author |-> script[m].author, ts |-> m,
     thread |-> script[m].thread # 0, handoff |-> NoKey, rootCreated |-> FALSE,
     bypass |-> FALSE]

Init ==
    /\ mode \in Modes
    /\ script \in Scripts /\ posted = 0
    /\ deliveries = [e \in (1..Len(script)) \X EventTypes |-> 0]
    /\ indexed = {} /\ agreed = {}
    /\ pin = [m \in 1..Len(script) |-> NoKey] /\ expiries = 0
    /\ pc = [w \in Workers |-> "idle"]
    /\ job = [w \in Workers |-> NoJob]
    /\ in = [w \in Workers |-> NoInput]
    /\ history = [w \in Workers |-> "none"]
    /\ decision = [w \in Workers |-> NoDecision]
    /\ restarts = 0
    /\ dispatched = {}

------------------------------------------------------------------------------
(* Slack, the backend that records acceptance, and Redis. *)

Posts ==
    /\ posted < Len(script)
    /\ posted' = posted + 1
    /\ UNCHANGED <<mode, script, deliveries, redisVars, pc, job, in, history,
                   decision, restarts, dispatched>>

IsIndexed(u) ==
    /\ u \notin indexed
    /\ indexed' = indexed \cup {u}
    /\ UNCHANGED <<mode, slackVars, agreed, pin, expiries, pc, job, in, history,
                   decision, restarts, dispatched>>

Agrees(u) ==
    /\ u \notin agreed
    /\ agreed' = agreed \cup {u}
    /\ UNCHANGED <<mode, slackVars, indexed, pin, expiries, pc, job, in, history,
                   decision, restarts, dispatched>>

(* A pin lives seven days. *)
PinExpires(m) ==
    /\ pin[m] # NoKey /\ expiries < MaxExpiries
    /\ pin' = [pin EXCEPT ![m] = NoKey]
    /\ expiries' = expiries + 1
    /\ UNCHANGED <<mode, slackVars, indexed, agreed, pc, job, in, history,
                   decision, restarts, dispatched>>

Outside ==
    \/ Posts
    \/ \E u \in User \ Bots : IsIndexed(u) \/ Agrees(u)
    \/ \E m \in 1..Len(script) : PinExpires(m)

------------------------------------------------------------------------------
(* What a step reads. *)

RedisOn == mode # "no_redis"

(* handleMessage: notices about threads, edits and joins, messages without *)
(* a user, with a bot id but no broadcast or delegation, empty texts       *)
(* and messages for somebody outside the squad go no further.              *)
HandlesMessage(m) ==
    LET post == script[m] IN
    /\ ~post.notice
    /\ post.author # NoUser
    /\ post.bot =>
           post.text.broadcast # "none" \/ DelegatesToOther(post.author, post.text)
    /\ ~IsEmpty(post.text)
    /\ ~HasOnlyNonSquadMentions(post.text)

(* handleAppMention looks at the text only. *)
HandlesAppMention(m) == ~IsEmpty(script[m].text)

Handles(m, type) ==
    IF type = "message" THEN HandlesMessage(m) ELSE HandlesAppMention(m)

(* A plain reply to a thread asks Slack who the thread was handed to. *)
AsksHistory(i) == i.thread /\ Mentioned(i.text) = {}

(* One that Slack could not answer for asks for the pin. *)
AsksPin(i) == RedisOn /\ i.thread /\ i.handoff = NoKey /\ Mentioned(i.text) = {}

(* A message event with a bot id is not held to the terms; an app_mention  *)
(* is, whoever wrote it.                                                   *)
AsksTerms(i, type) == RedisOn /\ (type = "app_mention" \/ ~script[i.ts].bot)

BeforeTerms(i, type) == IF AsksTerms(i, type) THEN "index" ELSE "decide"

BeforePin(i, type) == IF AsksPin(i) THEN "pin" ELSE BeforeTerms(i, type)

FirstStep(i, type) ==
    IF type = "message" /\ AsksHistory(i) THEN "history"
    ELSE IF type = "message" THEN BeforePin(i, type)
    ELSE BeforeTerms(i, type)

ThreadOf(m) == {i \in 1..posted : Root(i) = Root(m) /\ ~script[i].notice}

MessagesAt(places) ==
    LET at == InOrder(places)
    IN [k \in 1..Len(at) |-> [ts |-> at[k], text |-> script[at[k]].text]]

(* Fault: a later message of the thread counts as a handoff. *)
WholePage(m) == MessagesAt(ThreadOf(m))

(* One page of conversations.replies, the parent first, and of it what is  *)
(* older than the message itself.                                          *)
OlderInPage(m) ==
    MessagesAt({i \in ThreadOf(m) :
                i < m /\ Cardinality(UpTo(ThreadOf(m), i)) <= PageSize})

(* Fault: any message may pin its thread, a reply too. *)
PinsAnyMessage(i, d) ==
    /\ mode = "full"
    /\ Len(d.employees) = 1 /\ d.trigger = "mention"
    /\ d.tool \in PinnedTools

(* maybePersistThreadSkillPin: an explicit mention at the root of a thread *)
(* that starts a skill which gathers its fields in the thread.             *)
PinsThread(i, d) ==
    /\ mode = "full"
    /\ Len(d.employees) = 1 /\ d.trigger = "mention"
    /\ d.tool \in PinnedTools
    /\ Root(i.ts) = i.ts

------------------------------------------------------------------------------
(* The steps of a worker. *)

At(w, place) == pc[w] = place

Goto(w, place) == pc' = [pc EXCEPT ![w] = place]

(* The handler is called, and passes its filters. *)
Delivers(m, type) ==
    /\ m <= posted
    /\ type = "app_mention" => Orchestrator \in Mentions(script[m].text)
    /\ deliveries[<<m, type>>] < MaxDeliveries
    /\ deliveries' = [deliveries EXCEPT ![<<m, type>>] = @ + 1]

Takes(w, m, type) ==
    /\ At(w, "idle")
    /\ Delivers(m, type)
    /\ Handles(m, type)
    /\ job' = [job EXCEPT ![w] = [m |-> m, type |-> type]]
    /\ in' = [in EXCEPT ![w] = Input(m)]
    /\ Goto(w, FirstStep(Input(m), type))
    /\ UNCHANGED <<mode, script, posted, redisVars, history, decision, restarts,
                   dispatched>>

Drops(w, m, type) ==
    /\ At(w, "idle")
    /\ Delivers(m, type)
    /\ ~Handles(m, type)
    /\ UNCHANGED <<mode, script, posted, redisVars, pc, job, in, history, decision,
                   restarts, dispatched>>

(* threadRoutingFetcher *)
ReadsHistory(w) ==
    /\ At(w, "history")
    /\ LET m == job[w].m
           i == [in[w] EXCEPT
                    !.handoff = LastSquadHandoffKey(OlderInPage(m), Root(m)),
                    !.rootCreated = script[Root(m)].text.form = "created"]
       IN /\ in' = [in EXCEPT ![w] = i]
          /\ Goto(w, BeforePin(i, "message"))
    /\ history' = [history EXCEPT ![w] = "read"]
    /\ UNCHANGED <<mode, slackVars, redisVars, job, decision, restarts, dispatched>>

HistoryFails(w) ==
    /\ At(w, "history")
    /\ Goto(w, BeforePin(in[w], "message"))
    /\ history' = [history EXCEPT ![w] = "failed"]
    /\ UNCHANGED <<mode, slackVars, redisVars, job, in, decision, restarts, dispatched>>

(* mergeThreadHandoffWithSkillPin *)
ReadsPin(w) ==
    /\ At(w, "pin")
    /\ in' = [in EXCEPT ![w].handoff = pin[Root(job[w].m)]]
    /\ Goto(w, BeforeTerms(in[w], "message"))
    /\ UNCHANGED <<mode, slackVars, redisVars, job, history, decision, restarts,
                   dispatched>>

PinReadFails(w) ==
    /\ At(w, "pin")
    /\ Goto(w, BeforeTerms(in[w], "message"))
    /\ UNCHANGED <<mode, slackVars, redisVars, job, in, history, decision, restarts,
                   dispatched>>

(* HumansTermsAccepted: the user's e-mail address, then its profile. *)
FindsUser(w) ==
    /\ At(w, "index")
    /\ in[w].author \in indexed
    /\ Goto(w, "profile")
    /\ UNCHANGED <<mode, slackVars, redisVars, job, in, history, decision, restarts,
                   dispatched>>

FindsAcceptance(w) ==
    /\ At(w, "profile")
    /\ in[w].author \in agreed
    /\ Goto(w, "decide")
    /\ UNCHANGED <<mode, slackVars, redisVars, job, in, history, decision, restarts,
                   dispatched>>

(* The worker is done with its event. *)
Returns(w) ==
    /\ Goto(w, "idle")
    /\ job' = [job EXCEPT ![w] = NoJob]
    /\ in' = [in EXCEPT ![w] = NoInput]
    /\ history' = [history EXCEPT ![w] = "none"]
    /\ decision' = [decision EXCEPT ![w] = NoDecision]

(* No acceptance found, or Redis did not answer. *)
FindsNone(w) ==
    /\ pc[w] \in {"index", "profile"}
    /\ UNCHANGED <<mode, slackVars, redisVars, restarts, dispatched>>

AsksForTerms(i) == i.author # NoUser /\ i.text.broadcast = "none" /\ i.text.terms

(* Fault: without an answer the user is taken to have accepted. *)
LetsThrough(w) ==
    /\ FindsNone(w)
    /\ AsksForTerms(in[w])
    /\ Goto(w, "decide")
    /\ UNCHANGED <<job, in, history, decision>>

(* Asking for the terms is let through to Joanne all the same. *)
Bypasses(w) ==
    /\ FindsNone(w)
    /\ AsksForTerms(in[w])
    /\ in' = [in EXCEPT ![w].bypass = TRUE]
    /\ Goto(w, "decide")
    /\ UNCHANGED <<job, history, decision>>

Refuses(w) ==
    /\ FindsNone(w)
    /\ ~AsksForTerms(in[w])
    /\ Returns(w)

(* emitDecision *)
Decides(w) ==
    /\ At(w, "decide")
    /\ decision' = [decision EXCEPT ![w] = Decide(in[w])]
    /\ Goto(w, IF PinsThread(in[w], Decide(in[w])) THEN "pin_set" ELSE "dispatch")
    /\ UNCHANGED <<mode, slackVars, redisVars, job, in, history, restarts, dispatched>>

(* Fault: the pin names the tool of the decision. *)
PinsTool(w) ==
    /\ At(w, "pin_set")
    /\ pin' = [pin EXCEPT ![job[w].m] = decision[w].tool]
    /\ Goto(w, "dispatch")
    /\ UNCHANGED <<mode, slackVars, indexed, agreed, expiries, job, in, history,
                   decision, restarts, dispatched>>

(* The pin is set before, and whether or not, the decision is published. *)
SetsPin(w) ==
    /\ At(w, "pin_set")
    /\ pin' = [pin EXCEPT ![job[w].m] = Head(decision[w].employees)]
    /\ Goto(w, "dispatch")
    /\ UNCHANGED <<mode, slackVars, indexed, agreed, expiries, job, in, history,
                   decision, restarts, dispatched>>

PinSetFails(w) ==
    /\ At(w, "pin_set")
    /\ Goto(w, "dispatch")
    /\ UNCHANGED <<mode, slackVars, redisVars, job, in, history, decision, restarts,
                   dispatched>>

(* dispatch.Decision is called; a blank employee is nobody to it. *)
Dispatches(w) ==
    /\ At(w, "dispatch")
    /\ dispatched' =
           IF mode = "no_dispatch" \/ ToSet(decision[w].employees) \subseteq {NoKey}
           THEN dispatched
           ELSE dispatched \cup
                {[m |-> job[w].m, type |-> job[w].type, history |-> history[w],
                  handoff |-> in[w].handoff, bypass |-> in[w].bypass,
                  decision |-> decision[w]]}
    /\ Returns(w)
    /\ UNCHANGED <<mode, slackVars, redisVars, restarts>>

Worker(w) ==
    \/ \E m \in 1..Len(script), type \in EventTypes :
           Takes(w, m, type) \/ Drops(w, m, type)
    \/ ReadsHistory(w) \/ HistoryFails(w)
    \/ ReadsPin(w) \/ PinReadFails(w)
    \/ FindsUser(w) \/ FindsAcceptance(w) \/ Bypasses(w) \/ Refuses(w)
    \/ Decides(w) \/ SetsPin(w) \/ PinSetFails(w) \/ Dispatches(w)

(* The process dies with what its workers were doing; Redis remains. *)
Restarts ==
    /\ restarts < MaxRestarts
    /\ restarts' = restarts + 1
    /\ pc' = [w \in Workers |-> "idle"]
    /\ job' = [w \in Workers |-> NoJob]
    /\ in' = [w \in Workers |-> NoInput]
    /\ history' = [w \in Workers |-> "none"]
    /\ decision' = [w \in Workers |-> NoDecision]
    /\ UNCHANGED <<mode, slackVars, redisVars, dispatched>>

Next == Outside \/ (\E w \in Workers : Worker(w)) \/ Restarts

Spec == Init /\ [][Next]_vars

------------------------------------------------------------------------------
(* Every variable has the values the program can give it; of what a worker *)
(* has in hand, the input and the decision, the timestamp only.            *)
TypeOK ==
    /\ mode \in Modes
    /\ script \in Scripts /\ posted \in 0..Len(script)
    /\ deliveries \in [(1..Len(script)) \X EventTypes -> 0..MaxDeliveries]
    /\ indexed \subseteq User \ Bots /\ agreed \subseteq User \ Bots
    /\ pin \in [1..Len(script) -> Employee \cup {NoKey}]
    /\ expiries \in 0..MaxExpiries /\ restarts \in 0..MaxRestarts
    /\ pc \in [Workers -> {"idle", "history", "pin", "index", "profile", "decide",
                           "pin_set", "dispatch"}]
    /\ job \in [Workers -> [m : 0..posted, type : EventTypes]]
    /\ \A w \in Workers : (job[w] = NoJob <=> pc[w] = "idle") /\ in[w].ts = job[w].m
    /\ history \in [Workers -> {"none", "read", "failed"}]
    /\ \A d \in dispatched : d.m \in 1..posted /\ d.type \in EventTypes

TextOf(d) == script[d.m].text

(* Until the poster's acceptance of the terms is on record, a message      *)
(* reaches nobody but Joanne, and her only to update the terms - whichever *)
(* of its two events is handled, whatever Redis fails to answer, and       *)
(* however the two reads of the record interleave with its being written.  *)
(* A broadcast does not get through at all.  Only the message event of a   *)
(* post with a bot id is not held to that.                                 *)
TermsGate ==
    RedisOn => \A d \in dispatched :
        \/ script[d.m].author \in indexed \cap agreed
        \/ d.type = "message" /\ script[d.m].bot
        \/ /\ TextOf(d).terms /\ TextOf(d).broadcast = "none"
           /\ script[d.m].author # NoUser
           /\ d.decision.employees = <<Joanne>> /\ d.decision.tool = UpdateTerms

(* Every mention of a squad bot in the thread of m, before m, that is not  *)
(* in a broadcast or create-company root; and the employee of the latest.  *)
Handovers(m) ==
    {h \in (1..(m - 1)) \X (1..MaxWords) :
        LET post == script[h[1]] IN
        /\ Root(h[1]) = Root(m) /\ ~post.notice
        /\ h[1] = Root(m) => post.text.form # "created" /\ post.text.broadcast = "none"
        /\ h[2] <= Len(post.text.words) /\ post.text.words[h[2]] \in Squad}

LastMention(m) ==
    IF Handovers(m) = {} THEN NoKey
    ELSE LET latest == CHOOSE h \in Handovers(m) : \A g \in Handovers(m) :
                           g[1] < h[1] \/ (g[1] = h[1] /\ g[2] <= h[2])
         IN KeyOf[script[latest[1]].text.words[latest[2]]]

(* Where a text mentions the squad, and whom it mentions first. *)
SquadAt(text) == {i \in 1..Len(text.words) : text.words[i] \in Squad}

FirstMentioned(text) == KeyOf[text.words[Min(SquadAt(text))]]

(* What a text says to them: what is before the second mention and not the *)
(* first itself; the whole text, if that is nothing, or there is no second.*)
SaidToFirst(text) ==
    LET first == Min(SquadAt(text))
        later == SquadAt(text) \ {first}
        said  == {i \in 1..Len(text.words) : i # first /\ i < Min(later)}
    IN IF later = {} \/ said = {} THEN text.words ELSE Selected(text.words, said)

IsFollowUp(d) ==
    /\ d.type = "message" /\ ~d.bypass
    /\ script[d.m].thread # 0
    /\ Mentioned(TextOf(d)) = {} /\ TextOf(d).broadcast = "none"

(* A plain reply goes to the employee mentioned last before it, whoever    *)
(* posted and whatever was handled in the meantime, and is never given a   *)
(* tool that way; with nobody mentioned, to one member of the roster, and  *)
(* to nobody under a create-company post - but for one that a human wrote  *)
(* as a kickoff, which may still be pinned.  When Slack does not answer,   *)
(* it goes to the roster's member or to the employee its root kicked off.  *)
FollowUpsFollowTheThread ==
    \A d \in dispatched : IsFollowUp(d) =>
        LET root   == script[Root(d.m)]
            answer == d.decision
            picked == answer.employees = <<PickPlainResponder(d.m)>>
            pinned == /\ Mentioned(root.text) # {} /\ answer.tool = NoTool
                      /\ answer.employees = <<FirstMentioned(root.text)>>
        IN IF d.history = "failed" THEN picked \/ pinned
           ELSE IF LastMention(d.m) # NoKey
           THEN answer.employees = <<LastMention(d.m)>> /\ answer.tool = NoTool
           ELSE IF root.text.form = "created" THEN pinned /\ root.author \notin Squad
           ELSE picked

(* An event that is delivered twice, and the two events of a message that  *)
(* mentions the orchestrator, get the same decision whenever they are      *)
(* handled - the worker that acts on both can tell that they are one -     *)
(* unless Slack failed to answer or the poster accepted in between.        *)
SameMessageSameAnswer ==
    \A c, d \in dispatched :
        c.m = d.m /\ "failed" \notin {c.history, d.history} /\ ~c.bypass /\ ~d.bypass
            => c.decision = d.decision

(* A pin is on the root of a thread, and names the employee that the root  *)
(* itself told to start a skill that gathers its fields in the thread; no  *)
(* reply moves it, whichever worker is late.                               *)
PinNamesKickoff ==
    \A m \in DOMAIN pin : pin[m] # NoKey =>
        LET text == script[m].text IN
        /\ m <= posted /\ Root(m) = m
        /\ text.broadcast = "none" /\ Mentioned(text) # {}
        /\ pin[m] = FirstMentioned(text)
        /\ Classify(SaidToFirst(text)) \in PinnedTools

(* decide.go on Joanne's create-company post: it is a status roster, not a *)
(* handoff, and no squad is dispatched for it.                             *)
CreatedPostIsNotRouted ==
    \A d \in dispatched :
        ~(script[d.m].author \in Squad /\ TextOf(d).form = "created")

(* decide.go on Input.ThreadPlainHandoffKey: the last squad-bot mention    *)
(* before this message in thread history.                                  *)
HandoffIsLastMention ==
    \A d \in dispatched :
        IsFollowUp(d) /\ d.history = "read" => d.handoff = LastMention(d.m)
==============================================================================
