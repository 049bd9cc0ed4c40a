------------------------------- MODULE Routing -------------------------------
(***************************************************************************)
(* internal/routing: who answers a message, with which tool.  decide.go,   *)
(* pipeline.go, thread_handoff.go and trigger.go, over the classifier of   *)
(* tools.go (Tier1), as operators over abstract texts.                     *)
(*                                                                         *)
(* A text keeps what routing reads: its words, a user id standing for the  *)
(* Slack mention <@U...>; the broadcast it calls; whether it has the form  *)
(* of a roster or of Joanne's create-company post; and whether it asks for *)
(* the terms.  A broadcast token is not among the words.                   *)
(***************************************************************************)
EXTENDS Integers, Sequences, FiniteSets, SequencesExt, Ordered

CONSTANTS
    User,            \* Slack user ids
    Employee,        \* employee keys
    NoKey,           \* the empty key
    KeyOf,           \* cfg.BotUserToKey: the squad's user ids, and their keys
    Order,           \* cfg.MultiagentOrder
    EveryoneLimit, ChannelLimit,
    Intn(_, _, _),   \* rng.Intn seeded by a timestamp and an order
    PatternEntries, Marks, NoTool,  \* see Tier1
    PinnedTools,     \* the tools ToolPinsThreadSkillFollowup accepts
    UpdateTerms,     \* "update-terms"
    Joanne           \* "joanne"

T == INSTANCE Tier1 WITH Tokens <- User

Squad == DOMAIN KeyOf

ASSUME RosterAssumption ==
    /\ Squad \subseteq User /\ User \cap STRING = {}
    /\ \A u \in Squad : KeyOf[u] \in Employee
    /\ Order \in Seq(Employee)
    /\ NoKey \notin Employee
    /\ EveryoneLimit \in Int /\ ChannelLimit \in Int

ASSUME ToolAssumption == NoTool \notin PinnedTools /\ Joanne \in Employee

(* Of two patterns one comes first, and one that contains another has more *)
(* letters.                                                                *)
ASSUME PatternAssumption ==
    /\ IsFiniteSet(PatternEntries)
    /\ \A p \in PatternEntries :
          /\ p.words \in Seq(STRING) /\ p.words # <<>> /\ p.canonical # NoTool
          /\ p.letters \in Nat /\ p.place \in Nat
    /\ \A p, q \in PatternEntries :
          p # q => /\ p.letters # q.letters \/ p.place # q.place
                   /\ T!Places(p, q.words) # {} => q.letters > p.letters

Text == [words : Seq(User \cup STRING),
         broadcast : {"none", "everyone", "channel"},
         form : {"chat", "participants", "created"}, terms : BOOLEAN]

------------------------------------------------------------------------------
(* Texts. *)

Classify(words) == T!ClassifyWithReason(words).tool

IsEmpty(text) == text.words = <<>> /\ text.broadcast = "none"

Mentions(text) == ToSet(text.words) \cap User

(* squadMentionOccurrences: every mention of a squad bot, left to right. *)
Occurrences(text) ==
    InOrder({i \in 1..Len(text.words) : text.words[i] \in Squad})

(* mentionedEmployeeKeys, without the order: Decide only counts them. *)
Mentioned(text) == {KeyOf[u] : u \in Mentions(text) \cap Squad}

(* SquadBotMentionsOtherSquadMember *)
DelegatesToOther(author, text) ==
    author \in Squad /\ Mentioned(text) \ {KeyOf[author]} # {}

(* HasOnlyNonSquadMentions *)
HasOnlyNonSquadMentions(text) ==
    Mentions(text) # {} /\ Mentions(text) \cap Squad = {}

(* segmentTextsForSquadMentions: from one squad mention to the next, what  *)
(* precedes the first belonging to it; the mention itself is cut out.      *)
Segment(text, k) ==
    LET at    == Occurrences(text)
        first == IF k = 1 THEN 1 ELSE at[k]
        last  == IF k = Len(at) THEN Len(text.words) ELSE at[k + 1] - 1
    IN Selected(text.words, (first..last) \ {at[k]})

------------------------------------------------------------------------------
(* The roster. *)

Exchange(s, i, j) == [s EXCEPT ![i] = s[j], ![j] = s[i]]

(* Fisher-Yates from the last slot down, with draws seeded by the anchor. *)
ShuffleOrder(ts, order) ==
    FoldRightDomain(LAMBDA k, s : Exchange(s, k, Intn(ts, order, k)), order, order)

PickPlainResponder(ts) ==
    IF Order = <<>> THEN NoKey ELSE Head(ShuffleOrder(ts, Order))

LimitParticipants(order, limit) ==
    IF limit <= 0 THEN <<>> ELSE SubSeq(order, 1, Min({limit, Len(order)}))

(* Fault: a squad bot is sent its own broadcast. *)
OrderWithPoster(author) == Order

OrderExcludingPoster(author) ==
    Selected(Order, {i \in 1..Len(Order) :
                         author \in Squad => Order[i] # KeyOf[author]})

------------------------------------------------------------------------------
(* Decisions. *)

NoDecision == [trigger |-> "", employees |-> <<>>, tool |-> NoTool,
               mode |-> "", steps |-> <<>>]

Single(trigger, employee, tool) ==
    [trigger |-> trigger, employees |-> <<employee>>, tool |-> tool,
     mode |-> "single", steps |-> <<>>]

Broadcasts(in) ==
    LET limit == IF in.text.broadcast = "everyone" THEN EveryoneLimit
                 ELSE ChannelLimit
        order == LimitParticipants(OrderExcludingPoster(in.author), limit)
    IN [trigger |-> in.text.broadcast, employees |-> ShuffleOrder(in.ts, order),
        tool |-> NoTool, mode |-> "fanout", steps |-> <<>>]

(* Fault: a step without words of its own is left to conversation. *)
BlankStepChats(text, k) ==
    [target |-> KeyOf[text.words[Occurrences(text)[k]]],
     tool   |-> Classify(Segment(text, k))]

(* A step without words of its own is given the whole text. *)
Step(text, k) ==
    [target |-> KeyOf[text.words[Occurrences(text)[k]]],
     tool   |-> Classify(IF Segment(text, k) = <<>> THEN text.words
                         ELSE Segment(text, k))]

(* TryPipelineDecision: the first step goes out, the rest travels with it. *)
Pipeline(text) ==
    LET steps == [k \in 1..Len(Occurrences(text)) |-> Step(text, k)]
    IN [trigger |-> "mention", employees |-> <<steps[1].target>>,
        tool |-> steps[1].tool, mode |-> "single", steps |-> steps]

(* Fault: several mentions of one bot are one step. *)
PipelinesDistinct(text) == Cardinality(Mentioned(text)) >= 2

(* Fault: two mentions are not enough. *)
PipelinesLate(text) == Len(Occurrences(text)) > 2

TriesPipeline(text) == Len(Occurrences(text)) >= 2

(* The multi-target branch is there in the code; OneEmployeeAnswers shows  *)
(* that no message reaches it.                                             *)
AnswersMention(text) ==
    [trigger |-> "mention", employees |-> SetToSeq(Mentioned(text)),
     tool |-> Classify(text.words),
     mode |-> IF Cardinality(Mentioned(text)) > 1 THEN "fanout" ELSE "single",
     steps |-> <<>>]

DecideMention(in) ==
    CASE in.text.form = "created" /\ in.author \in Squad -> NoDecision
      [] in.text.form = "participants" /\ in.author \in Squad
            /\ Cardinality(Mentioned(in.text)) >= 2 ->
             Single("plain", KeyOf[in.author], Classify(in.text.words))
      [] OTHER -> IF TriesPipeline(in.text) THEN Pipeline(in.text)
                  ELSE AnswersMention(in.text)

(* Plain: the employee the thread was handed to, for conversation only; no *)
(* one under a create-company post; otherwise one member of the roster.    *)
DecidePlain(in) ==
    CASE in.thread /\ in.handoff # NoKey -> Single("plain", in.handoff, NoTool)
      [] in.thread /\ in.handoff = NoKey /\ in.rootCreated -> NoDecision
      [] OTHER -> Single("plain", PickPlainResponder(in.ts),
                         Classify(in.text.words))

Decide(in) ==
    IF in.bypass THEN Single("plain", Joanne, UpdateTerms)
    ELSE IF in.text.broadcast # "none" THEN Broadcasts(in)
    ELSE IF Mentioned(in.text) # {} THEN DecideMention(in)
    ELSE DecidePlain(in)

------------------------------------------------------------------------------
(* Threads. *)

(* The messages whose mentions count as a handoff: not a broadcast root,   *)
(* nor a create-company root.                                              *)
HandsOff(message, root) ==
    \/ message.ts # root
    \/ message.text.form # "created" /\ message.text.broadcast = "none"

(* LastSquadHandoffKey: the last mention of a squad bot, in the order of   *)
(* the messages and of appearance in each.                                 *)
LastSquadHandoffKey(messages, root) ==
    LET lastIn(message, key) ==
            LET at == Occurrences(message.text) IN
            IF HandsOff(message, root) /\ at # <<>>
            THEN KeyOf[message.text.words[Last(at)]]
            ELSE key
    IN FoldLeft(LAMBDA key, message : lastIn(message, key), NoKey, messages)
==============================================================================
