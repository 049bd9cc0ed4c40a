------------------------------ MODULE MCRouting ------------------------------
(* A small squad, and the inputs for RoutingCheck. *)
EXTENDS RoutingCheck

CONSTANTS ann, alexBot, rossBot, joanneBot, alex, ross, joanne

MCKeyOf == alexBot :> alex @@ rossBot :> ross @@ joanneBot :> joanne

MCOrder == <<ross, joanne, alex>>

(* rng.Intn(k) + 1, some function of the seed. *)
MCIntn(ts, order, k) == 1 + ((ts * 5 + Len(order) + k) % k)

(* What is said after a mention: nothing, conversation, a tool, a tool and *)
(* something that talks about it, or the name of another user.             *)
MCPhrases == {<<>>, <<"hello">>, <<"create", "email">>, <<"create", "email", "tool">>}

MCMentions == {<<u>> \o p : u \in {alexBot, rossBot}, p \in MCPhrases}
                  \cup {<<ann>>, <<ann, "create", "issue">>}

MCParts == {FlattenSeq(s) : s \in UNION {[1..n -> MCMentions] : n \in 1..3}}

Message(text, author, ts) ==
    [kind |-> "message", text |-> text, author |-> author, ts |-> ts, thread |-> FALSE,
     handoff |-> NoKey, rootCreated |-> FALSE, bypass |-> FALSE]

Said(words, broadcast, form) ==
    [words |-> words, broadcast |-> broadcast, form |-> form, terms |-> FALSE]

(* What the handlers let through: a squad bot's message delegates to        *)
(* another bot, or mentions somebody outside the squad - the orchestrator,  *)
(* whose app_mention then carries it.                                       *)
Passes(message) ==
    message.author \in Squad =>
        \/ DelegatesToOther(message.author, message.text)
        \/ ann \in Mentions(message.text)

(* Up to three mentions, with and without words, by a human and by a bot. *)
Mentioning ==
    {message \in
        {Message(Said(head \o parts, "none", form), author, 1) :
            head \in {<<>>, <<"write", "email">>, <<"with">>}, parts \in MCParts,
            form \in {"chat", "participants", "created"}, author \in {ann, alexBot}} :
     Passes(message)}

Broadcasting ==
    {Message(Said(words, broadcast, "chat"), author, ts) :
        words \in {<<"hello">>, <<rossBot, "create", "email">>},
        broadcast \in {"everyone", "channel"},
        author \in {ann, alexBot, rossBot}, ts \in 1..3}

(* Plain messages: at the root, in a thread with and without a handoff, and *)
(* one that asks for the terms before they are accepted.                    *)
Plain ==
    {[Message(Said(words, "none", "chat"), ann, ts) EXCEPT
         !.thread = context.thread, !.handoff = context.handoff,
         !.rootCreated = context.created] :
        words \in MCPhrases \ {<<>>}, ts \in 1..3,
        context \in [thread : {TRUE}, handoff : {NoKey, alex}, created : BOOLEAN]
                    \cup {[thread |-> FALSE, handoff |-> NoKey, created |-> FALSE]}}

Asking ==
    {[Message([Said(words, "none", "chat") EXCEPT !.terms = TRUE], ann, ts)
         EXCEPT !.thread = thread, !.bypass = TRUE] :
        words \in {<<"the", "terms">>, <<"update", "terms">>}, ts \in 1..3,
        thread \in BOOLEAN}

MCMessages == Mentioning \cup Broadcasting \cup Plain \cup Asking

------------------------------------------------------------------------------
(* Two tools, the name of one being the beginning of the other's, each  *)
(* under two names; and one with a word between.                           *)
Pattern(words, canonical, letters, place) ==
    [words |-> words, canonical |-> canonical, letters |-> letters, place |-> place]

MCPatterns ==
    {Pattern(<<"create", "email">>, "create-email", 12, 1),
     Pattern(<<"write", "email">>, "create-email", 11, 4),
     Pattern(<<"create", "email", "welcome">>, "create-email-welcome", 20, 2),
     Pattern(<<"write", "email", "welcome">>, "create-email-welcome", 19, 5),
     Pattern(<<"create", "an", "issue">>, "create-issue", 15, 3),
     Pattern(<<"update", "terms">>, "update-terms", 12, 6)}

Phrases ==
    {p.words : p \in MCPatterns}
        \cup {<<w>> : w \in {"create", "welcome", "with", "tool", "is", "live", ann, ","}}

(* Every text of up to four phrases. *)
MCTexts ==
    {[kind |-> "words", text |-> FlattenSeq(s)] : s \in BoundedSeq(Phrases, 4)}

------------------------------------------------------------------------------
Names == <<alex, joanne, ross, alexBot, joanneBot, rossBot>>

Place(x) == CHOOSE i \in 1..Len(Names) : Names[i] = x

MCPrecedes(x, y) == Place(x) < Place(y)

(* Some number for a list of pairs that depends on their order. *)
MCDigest(s) == FoldLeft(LAMBDA n, p : (n * 7 + Place(p[1]) * 3 + Place(p[2])) % 101, 0, s)

MCDefaultOrder == <<alex, ross>>

Env(keyed, bots, secret, order) ==
    [keyed |-> keyed, bots |-> bots, secret |-> secret, order |-> order,
     workers |-> 8, queueSize |-> 256, attempts |-> 3, retryBase |-> 50]

MCPairs == [key : {alex, ross, Blank}, uid : {alexBot, rossBot, joanneBot}]

(* Rosters of both forms, with blanks, repeated ids and shared keys, with  *)
(* and without a secret and an order; and one roster with numbers in and   *)
(* out of range.                                                           *)
MCEnvironments ==
    {[kind |-> "environment", env |-> env] : env \in
        {Env(TRUE, bots, secret, order) : bots \in BoundedSeq(MCPairs, 3),
            secret \in {Blank, 2}, order \in {<<>>, <<Blank, ross>>}}
        \cup {Env(FALSE, bots, secret, <<Blank>>) : secret \in {Blank, 2},
                bots \in BoundedSeq({alexBot, rossBot, joanneBot, Blank}, 4)}
        \cup {[Env(FALSE, <<alexBot>>, Blank, <<>>) EXCEPT !.workers = n,
                  !.queueSize = m, !.attempts = n, !.retryBase = m] :
                n \in {NotANumber, -1, 0, 1, 99}, m \in {NotANumber, -1, 0, 1, 9999}}}

------------------------------------------------------------------------------
Saying(words) == Said(words, "none", "chat")

EventTexts ==
    {Blank} \cup {Saying(users) : users \in {<<"hello">>, <<ann>>, <<alexBot>>, <<ann, alexBot>>}}

MCImageText == Saying(<<"image">>)

File(image, id) == [image |-> image, id |-> id]

(* Texts at the top, within or in both, and files: none, no image with an  *)
(* id, or more images than are kept.                                       *)
MCEvents ==
    {[kind |-> "payload", event |->
        [top |-> [text |-> top, user |-> user, bot |-> Blank, thread |-> Blank],
         message |-> [text |-> nested, user |-> alexBot, bot |-> Blank, thread |-> 1],
         hasMessage |-> has, files |-> files]] :
        top \in EventTexts, nested \in EventTexts, user \in {ann, Blank},
        has \in BOOLEAN,
        files \in {<<>>, <<File(TRUE, Blank), File(FALSE, 1)>>,
                   <<File(TRUE, 1), File(TRUE, Blank), File(TRUE, 2), File(TRUE, 3)>>}}
==============================================================================
