---------------------------- MODULE RoutingCheck ----------------------------
(***************************************************************************)
(* The pure parts of the program, evaluated on bounded inputs: Decide on a *)
(* message, the Tier-1 classifier on a text of words, the settings on an   *)
(* environment, and the extraction of a message from its event.  One step  *)
(* evaluates the input, and the properties compare the result with a       *)
(* reference that is stated without the code's loops.  Only a start can be *)
(* repeated: the process restarts, and walks its maps in another order.    *)
(***************************************************************************)
EXTENDS Routing

CONSTANTS
    Messages, Texts, Environments, Events,  \* inputs, each with its kind
    DefaultSquadOrder, NotANumber, Precedes(_, _), Digest(_),  \* see Settings
    Blank, ImageText, MaxImages      \* see Payload

S == INSTANCE Settings WITH Shuffle <- ShuffleOrder
P == INSTANCE Payload

ASSUME CheckAssumption ==
    /\ \A m \in Messages : m.kind = "message" /\ m.text \in Text
    /\ \A t \in Texts : t.kind = "words" /\ t.text \in Seq(User \cup STRING)
    /\ \A e \in Environments : e.kind = "environment"
    /\ \A e \in Events : e.kind = "payload"

(* The lists of the environment are split at the commas already, and its   *)
(* numbers are parsed.                                                     *)
ASSUME EnvironmentAssumption ==
    /\ \A e \in Environments :
          /\ e.env.keyed =>
                 e.env.bots \in Seq([key : Employee \cup {Blank}, uid : User \cup {Blank}])
          /\ ~e.env.keyed => e.env.bots \in Seq(User \cup {Blank})
          /\ {e.env.workers, e.env.queueSize, e.env.attempts, e.env.retryBase}
                 \subseteq Int \cup {NotANumber}
    /\ DefaultSquadOrder \in Seq(Employee)

(* Strings are in a strict order. *)
ASSUME StringAssumption ==
    \A x, y, z \in Employee :
        /\ ~Precedes(x, x)
        /\ x = y \/ Precedes(x, y) \/ Precedes(y, x)
        /\ Precedes(x, y) /\ Precedes(y, z) => Precedes(x, z)

ASSUME EventAssumption ==
    /\ \A e \in Events : {e.event.top.text, e.event.message.text} \subseteq Text \cup {Blank}
    /\ ImageText \in Text /\ Mentions(ImageText) = {} /\ Blank \notin Text
    /\ MaxImages \in Nat \ {0}

(* rng.Intn(k) is one of k numbers. *)
ASSUME DrawAssumption ==
    /\ \A ts \in {m.ts : m \in Messages}, order \in BoundedSeq(Employee, Len(Order)),
          k \in 1..Len(Order) : Intn(ts, order, k) \in 1..k
    /\ \A e \in Environments : \A walk \in S!Walks(e.env) :
          LET start == S!FromEnv(e.env, walk)
              keys  == S!RosterKeys(start.botUserToKey, walk)
          IN \A k \in DOMAIN keys : Intn(start.shuffleSecret, keys, k) \in 1..k

VARIABLES in, decided, decision

vars == <<in, decided, decision>>

Init ==
    /\ in \in Messages \/ in \in Texts \/ in \in Environments \/ in \in Events
    /\ decided = FALSE /\ decision = NoDecision

Evaluates(kind, result) ==
    /\ in.kind = kind /\ ~decided
    /\ decided' = TRUE
    /\ decision' = result
    /\ UNCHANGED in

Decides == Evaluates("message", Decide(in))

Classifies == Evaluates("words", T!ClassifyWithReason(in.text))

Extracts == Evaluates("payload", P!Extract(in.event))

Starts ==
    /\ in.kind = "environment"
    /\ \E walk \in S!Walks(in.env) :
           Evaluates("environment", S!FromEnv(in.env, walk))

(* The process starts once more, in the same environment. *)
Restarts ==
    /\ in.kind = "environment" /\ decided
    /\ \E walk \in S!Walks(in.env) : decision' = S!FromEnv(in.env, walk)
    /\ UNCHANGED <<in, decided>>

Next == Decides \/ Classifies \/ Extracts \/ Starts \/ Restarts

Spec == Init /\ [][Next]_vars

Evaluated(kind) == in.kind = kind /\ decided

------------------------------------------------------------------------------
(* Only a broadcast has several answers: the code keeps a fan-out for      *)
(* messages that mention several bots, but the pipeline takes all of them, *)
(* and no other message is given to two employees.                         *)
OneEmployeeAnswers ==
    Evaluated("message") /\ in.text.broadcast = "none" =>
        Len(decision.employees) <= 1 /\ decision.mode # "fanout"

(* A broadcast goes to the first members of the roster, up to the limit,   *)
(* and never to the squad bot that posted it, whose place the next member  *)
(* takes; each of them once, unless the order itself has a member twice.   *)
BroadcastReachesRoster ==
    Evaluated("message") /\ ~in.bypass /\ in.text.broadcast # "none" =>
        LET limit   == IF in.text.broadcast = "everyone" THEN EveryoneLimit
                       ELSE ChannelLimit
            others  == {i \in 1..Len(Order) :
                            in.author \in Squad => Order[i] # KeyOf[in.author]}
            reached == {i \in others : Cardinality({j \in others : j <= i}) <= limit}
        IN /\ ToSet(decision.employees) = {Order[i] : i \in reached}
           /\ Len(decision.employees) = Cardinality(reached)
           /\ IsInjective(Order) => IsInjective(decision.employees)

(* The mention of the squad that a place of a text belongs to: the last    *)
(* one up to it, or the first of all.                                      *)
OwnerOf(text, place) ==
    LET squad  == {i \in 1..Len(text.words) : text.words[i] \in Squad}
        before == {i \in squad : i <= place}
    IN IF before # {} THEN Max(before) ELSE Min(squad)

(* A message that mentions squad bots at least twice - the same one twice  *)
(* counts - is one step per mention, for the bot mentioned, in the order   *)
(* of the text.  A step has the tool Tier 1 makes of exactly the words     *)
(* that belong to its mention (NamesDecideTheTool says which that is); a   *)
(* mention nothing belongs to has the tool of the whole message.           *)
StepsFollowTheText ==
    Evaluated("message") /\ ~in.bypass /\ decision.trigger = "mention" =>
        LET words  == in.text.words
            squad  == {i \in 1..Len(words) : words[i] \in Squad}
            own(m) == {p \in 1..Len(words) : p # m /\ OwnerOf(in.text, p) = m}
            nth(m) == Cardinality({i \in squad : i <= m})
        IN Cardinality(squad) >= 2 =>
            /\ Len(decision.steps) = Cardinality(squad)
            /\ \A m \in squad :
                   LET step == decision.steps[nth(m)]
                       said == IF own(m) = {} THEN words ELSE Selected(words, own(m))
                   IN /\ step.target = KeyOf[words[m]]
                      /\ step.tool = T!ClassifyWithReason(said).tool
------------------------------------------------------------------------------
(* The names in a text are the patterns that occur in it, longest first: a *)
(* shorter one within a longer one is no name of its own.                  *)
NamesIn(text) ==
    LET spans == UNION {{T!Span(p, i) : i \in T!Places(p, text)} :
                            p \in PatternEntries}
    IN {m \in spans : \A n \in spans : T!IsWithin(m, n) => n = m}

ToolsNamedIn(text) == {m.canonical : m \in NamesIn(text)}

(* The word next to a name, whatever marks stand between: "" if none. *)
WordBefore(text, i) ==
    LET at == {j \in 1..(i - 1) : text[j] \notin Marks}
    IN IF at = {} THEN "" ELSE text[Max(at)]

PlaceAfter(text, i) ==
    Min({j \in (i + 1)..Len(text) : text[j] \notin Marks} \cup {Len(text) + 1})

WordAfter(text, i) ==
    IF PlaceAfter(text, i) > Len(text) THEN "" ELSE text[PlaceAfter(text, i)]

IsTalkedAbout(text, m) ==
    LET after == WordAfter(text, m.end)
    IN \/ WordBefore(text, m.start) \in T!Introducing
       \/ after \in T!Naming
       \/ after = "is" /\ WordAfter(text, PlaceAfter(text, m.end)) \in T!States

(* One name in a text is the tool, unless the words around it talk about   *)
(* the tool; without a name there is none; and whatever names there are, a *)
(* tool is never one that only occurs within a longer name.                *)
NamesDecideTheTool ==
    Evaluated("words") =>
        LET text  == T!NormalizeMessage(in.text)
            names == NamesIn(text)
        IN /\ decision.tool # NoTool => decision.tool \in ToolsNamedIn(text)
           /\ decision.reason = "no_match" <=> names = {}
           /\ \A m \in names : names = {m} =>
                  IF IsTalkedAbout(text, m)
                  THEN decision = [tool |-> NoTool, reason |-> "descriptive_reference"]
                  ELSE decision = [tool |-> m.canonical, reason |-> "single_match"]

(* tools.go:173-174: a candidate within a match is skipped "so a single    *)
(* explicit name does not register two intents" - several intents mean     *)
(* several tools.                                                          *)
OneNameOneIntent ==
    Evaluated("words") /\ decision.reason = "multi_match" =>
        Cardinality(ToolsNamedIn(T!NormalizeMessage(in.text))) > 1

------------------------------------------------------------------------------
(* What a start makes of the environment does not depend on the order in   *)
(* which Go walks the roster: after a restart the same message gets the    *)
(* same answer.                                                            *)
RestartsAgree ==
    [][Evaluated("environment") => decision' = decision]_vars

(* An order the operator does not give has each key of the roster once,    *)
(* also when bots share a key; and the sizes are in the range the event    *)
(* loop and the publisher rely on.                                         *)
OrderIsTheRoster ==
    Evaluated("environment") =>
        LET keys == {decision.botUserToKey[u] : u \in DOMAIN decision.botUserToKey}
        IN /\ S!NonBlank(in.env.order) = <<>> =>
                  /\ ToSet(decision.multiagentOrder) = keys
                  /\ IsInjective(decision.multiagentOrder)
           /\ decision.eventsAPIWorkers > 0 /\ decision.eventsAPIQueueSize > 0
           /\ decision.publishMaxAttempts \in 1..10
           /\ decision.publishRetryBaseMS \in 0..5000

------------------------------------------------------------------------------
(* The surfaces of a message as the one text the guards read: of what it   *)
(* says they only look at the mentions.                                    *)
Joined(surfaces) ==
    [words |-> SetToSeq(UNION {ToSet(text.words) : text \in surfaces})]

(* A message is dropped as a talk between people only when no surface of   *)
(* it mentions the squad, and its thread is read only when the text that   *)
(* is routed does not mention the squad either; a message that has words   *)
(* or a picture anywhere is not dropped as empty.                          *)
GuardsSeeEverySurface ==
    Evaluated("payload") =>
        LET event    == in.event
            said     == {event.top.text} \cup
                            (IF event.hasMessage THEN {event.message.text} ELSE {})
            squad(t) == t # Blank /\ Mentioned(t) # {}
            guard    == Joined(decision.surfaces)
        IN /\ HasOnlyNonSquadMentions(guard) => ~\E t \in said : squad(t)
           /\ Mentioned(guard) = {} => ~squad(decision.text)
           /\ decision.text = Blank <=> said \subseteq {Blank} /\ decision.images = <<>>
==============================================================================
