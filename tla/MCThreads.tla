------------------------------ MODULE MCThreads ------------------------------
(* A small squad and what is said to it, for Threads. *)
EXTENDS Threads

CONSTANTS ann, alexBot, rossBot, joanneBot, alex, ross, joanne

Symmetry == Permutations(Workers)

MCKeyOf == alexBot :> alex @@ rossBot :> ross @@ joanneBot :> joanne

MCOrder == <<ross, joanne, alex>>

MCIntn(ts, order, k) == 1 + ((ts * 5 + Len(order) + k) % k)

Says(words) ==
    [words |-> words, broadcast |-> "none", form |-> "chat", terms |-> FALSE]

MCPatterns ==
    {[words |-> <<"create", "issue">>, canonical |-> "create-issue", letters |-> 12, place |-> 1],
     [words |-> <<"read", "web">>, canonical |-> "read-web", letters |-> 8, place |-> 2]}

Talk      == Says(<<"hello">>)
ReadThis  == Says(<<"read", "web">>)
Empty     == Says(<<>>)
Kickoff   == Says(<<alexBot, "create", "issue">>)
BothAsked == Says(<<alexBot, "create", "issue", rossBot, "read", "web">>)
ToRoss    == Says(<<rossBot, "hello">>)
ToAnn     == Says(<<ann, "hello">>)
Everyone  == [ToRoss EXCEPT !.broadcast = "everyone"]
AskTerms  == [Talk EXCEPT !.terms = TRUE]
Summons   == Says(<<Orchestrator, "hello", rossBot, "read", "web">>)
AskSummons == [Says(<<Orchestrator, "hello">>) EXCEPT !.terms = TRUE]
Created   == [Says(<<"created", ann, Orchestrator, alexBot>>) EXCEPT !.form = "created"]
CreatedKickoff == [Kickoff EXCEPT !.form = "created"]
CreatedAlone == [Says(<<"created", ann, Orchestrator>>) EXCEPT !.form = "created"]

Posted(author, thread, text) ==
    [author |-> author, bot |-> author \in Bots, thread |-> thread, text |-> text,
     notice |-> FALSE]

WithBotId(m) == [m EXCEPT !.bot = TRUE]

Notice(m) == [m EXCEPT !.notice = TRUE]

MCScripts ==
  { <<Posted(ann, 0, Kickoff), Posted(ann, 1, ReadThis), Posted(ann, 1, ToRoss)>>,
    <<Posted(ann, 0, Kickoff), Posted(alexBot, 1, ToRoss), Posted(ann, 1, Talk)>>,
    <<Posted(ann, 1, BothAsked), Posted(ann, 1, Talk)>>,
    <<Posted(ann, 0, Everyone), Posted(ann, 1, Talk), Posted(ann, 1, Kickoff)>>,
    <<Posted(joanneBot, 0, Created), Posted(ann, 1, Talk), Posted(ann, 1, ToRoss)>>,
    <<Posted(ann, 0, CreatedKickoff), Posted(ann, 1, Talk)>>,
    <<Posted(ann, 1, AskTerms), Posted(ann, 1, Summons)>>,
    <<Posted(alexBot, 0, Talk), Posted(alexBot, 0, Everyone), Posted(ann, 2, Talk)>>,
    <<WithBotId(Posted(ann, 0, Everyone)), Posted(NoUser, 0, AskSummons)>>,
    <<Posted(NoUser, 0, Talk), Posted(ann, 0, Empty), Notice(Posted(ann, 0, Talk)),
      Posted(ann, 0, ToAnn)>> }

LongThread ==
  { <<Posted(ann, 0, Kickoff), Posted(ann, 1, Talk), Posted(ann, 1, ToRoss),
      Posted(ann, 1, Talk)>> }

CreatedScript == { <<Posted(joanneBot, 0, CreatedAlone)>> }
==============================================================================
