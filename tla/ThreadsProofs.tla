---------------------------- MODULE ThreadsProofs ----------------------------
(***************************************************************************)
(* What Threads promises, for every script, roster, number of workers and  *)
(* limit: its values, the terms gate, whom a pin names, and that a message *)
(* has one answer.                                                         *)
(***************************************************************************)
EXTENDS Threads, RoutingFacts

(* What the assumptions say of the script that is being posted. *)
LEMMA ScriptFacts ==
    ASSUME script \in Scripts
    PROVE  /\ script \in Seq(Post) /\ Len(script) \in Nat
           /\ DOMAIN script = 1..Len(script)
           /\ \A m \in 1..Len(script) :
                 /\ script[m] \in Post /\ script[m].text \in Text
                 /\ script[m].thread \in Nat /\ script[m].notice \in BOOLEAN
                 /\ script[m].notice => Orchestrator \notin Mentions(script[m].text)
                 /\ Root(m) \in 1..m /\ Root(m) \in 1..Len(script)
                 /\ Root(Root(m)) = Root(m)
<1>1. /\ script \in Seq(Post)
      /\ \A m \in 1..Len(script) :
            /\ script[m].thread # 0 =>
                   /\ script[m].thread <= m
                   /\ script[script[m].thread].thread \in {0, script[m].thread}
            /\ script[m].notice => Orchestrator \notin Mentions(script[m].text)
  BY ScriptAssumption
<1>2. Len(script) \in Nat /\ DOMAIN script = 1..Len(script)
  BY <1>1, LenProperties
<1>3. ASSUME NEW m \in 1..Len(script)
      PROVE  /\ script[m] \in Post /\ script[m].text \in Text
             /\ script[m].thread \in Nat /\ script[m].notice \in BOOLEAN
  <2>1. script[m] \in Post
    BY <1>1, <1>3, ElementOfSeq
  <2>2. QED
    BY <2>1 DEF Post
<1>4. ASSUME NEW m \in 1..Len(script)
      PROVE  /\ Root(m) \in 1..m /\ Root(m) \in 1..Len(script)
             /\ Root(Root(m)) = Root(m)
  <2>1. CASE script[m].thread = 0
    BY <1>2, <2>1 DEF Root
  <2>2. CASE script[m].thread # 0
    <3>1. script[m].thread \in Nat /\ script[m].thread <= m
          /\ script[script[m].thread].thread \in {0, script[m].thread}
      BY <1>1, <1>3, <2>2
    <3>2. QED
      BY <1>2, <2>2, <3>1 DEF Root
  <2>3. QED
    BY <2>1, <2>2
<1>5. QED
  BY <1>1, <1>2, <1>3, <1>4
------------------------------------------------------------------------------
(* The page of a thread. *)

(* The messages of the thread of m that the worker makes use of. *)
Earlier(m) ==
    {i \in ThreadOf(m) : i < m /\ Cardinality(UpTo(ThreadOf(m), i)) <= PageSize}

(* What is posted later does not change them, *)
LEMMA PageIsStable ==
    ASSUME script' = script, script \in Scripts, posted \in Nat, posted' \in Nat,
           posted <= posted', NEW m \in 1..posted
    PROVE  Earlier(m)' = Earlier(m)
<1>1. /\ ThreadOf(m) = {i \in 1..posted : Root(i) = Root(m) /\ ~script[i].notice}
      /\ ThreadOf(m)' = {i \in 1..posted' : Root(i) = Root(m) /\ ~script[i].notice}
  BY DEF ThreadOf, Root
<1>2. \A i \in 1..posted : i \in ThreadOf(m) <=> i \in ThreadOf(m)'
  BY <1>1
<1>3. ASSUME NEW i \in 1..posted
      PROVE  UpTo(ThreadOf(m), i) = UpTo(ThreadOf(m)', i)
  BY <1>1 DEF UpTo
<1>4. Earlier(m)' = {i \in ThreadOf(m)' :
                        i < m /\ Cardinality(UpTo(ThreadOf(m)', i)) <= PageSize}
  BY DEF Earlier
<1>5. /\ ThreadOf(m) \subseteq 1..posted
      /\ \A i \in ThreadOf(m)' : i < m => i \in 1..posted
  BY <1>1
<1>6. QED
  BY <1>2, <1>3, <1>4, <1>5 DEF Earlier

(* and each of them is one message of the page. *)
LEMMA PageMessages ==
    ASSUME script \in Scripts, NEW S, S \subseteq 1..Len(script)
    PROVE  /\ MessagesAt(S) \in Seq(Message)
           /\ \A k \in 1..Len(MessagesAt(S)) :
                 /\ MessagesAt(S)[k].ts \in S
                 /\ MessagesAt(S)[k].text = script[MessagesAt(S)[k].ts].text
           /\ \A j, k \in 1..Len(MessagesAt(S)) :
                 j < k => MessagesAt(S)[j].ts < MessagesAt(S)[k].ts
           /\ \A i \in S : \E k \in 1..Len(MessagesAt(S)) : MessagesAt(S)[k].ts = i
<1> DEFINE at == InOrder(S)
           n == Cardinality(S)
<1>1. S \subseteq Int /\ IsFiniteSet(S)
  <2>1. Len(script) \in Nat
    BY ScriptFacts
  <2>2. IsFiniteSet(1..Len(script))
    BY <2>1, FS_Interval
  <2>3. IsFiniteSet(S)
    BY <2>2, FS_Subset
  <2>4. QED
    BY <2>1, <2>3
<1>2. /\ at \in Seq(S) /\ Len(at) = n /\ n \in Nat
      /\ \A i, j \in 1..n : i < j => at[i] < at[j]
      /\ \A x \in S : Cardinality(UpTo(S, x)) \in 1..n /\ at[Cardinality(UpTo(S, x))] = x
  BY <1>1, InOrderProperties
<1>3. \A k \in 1..n : at[k] \in S
  BY <1>2, ElementOfSeq
<1>4. MessagesAt(S) = [k \in 1..n |-> [ts |-> at[k], text |-> script[at[k]].text]]
  BY <1>2 DEF MessagesAt
<1> HIDE DEF at, n
<1>5. ASSUME NEW k \in 1..n
      PROVE  [ts |-> at[k], text |-> script[at[k]].text] \in Message
  <2>1. at[k] \in 1..Len(script)
    BY <1>3
  <2>2. script[at[k]].text \in Text
    BY <2>1, ScriptFacts
  <2>3. QED
    BY <2>1, <2>2, ScriptFacts DEF Message
<1>6. MessagesAt(S) \in Seq(Message) /\ Len(MessagesAt(S)) = n
  <2> DEFINE q == [k \in 1..n |-> [ts |-> at[k], text |-> script[at[k]].text]]
  <2>1. q \in [1..n -> Message]
    BY <1>5
  <2> HIDE DEF q
  <2>2. q \in Seq(Message) /\ Len(q) = n
    BY <1>2, <2>1
  <2>3. QED
    BY <1>4, <2>2 DEF q
<1>7. \A k \in 1..n : /\ MessagesAt(S)[k].ts = at[k]
                      /\ MessagesAt(S)[k].text = script[at[k]].text
  BY <1>4
<1>8. \A i \in S : \E k \in 1..n : MessagesAt(S)[k].ts = i
  BY <1>2, <1>7
<1>9. \A j, k \in 1..n : j < k => MessagesAt(S)[j].ts < MessagesAt(S)[k].ts
  BY <1>2, <1>7
<1>10. \A k \in 1..n : /\ MessagesAt(S)[k].ts \in S
                       /\ MessagesAt(S)[k].text = script[MessagesAt(S)[k].ts].text
  BY <1>3, <1>7
<1>11. QED
  BY <1>6, <1>8, <1>9, <1>10

(* Of these the messages that mention the squad hand the thread over, the  *)
(* root only if it is neither a broadcast nor a create-company post.       *)
Handers(m) ==
    {i \in Earlier(m) : /\ i = Root(m) => /\ script[i].text.form # "created"
                                          /\ script[i].text.broadcast = "none"
                        /\ Occurrences(script[i].text) # <<>>}

HandoffOf(m) == LastSquadHandoffKey(OlderInPage(m), Root(m))

(* threadRoutingFetcher finds the employee that the latest of them         *)
(* mentions last.                                                          *)
LEMMA HandoffOfThread ==
    ASSUME script \in Scripts, posted \in 0..Len(script), NEW m \in 1..posted
    PROVE  /\ HandoffOf(m) \in Employee \cup {NoKey}
           /\ Handers(m) = {} => HandoffOf(m) = NoKey
           /\ Handers(m) # {} =>
                 /\ Max(Handers(m)) \in Handers(m)
                 /\ \A i \in Handers(m) : Max(Handers(m)) >= i
                 /\ HandoffOf(m) = LastMentioned(script[Max(Handers(m))].text)
                 /\ HandoffOf(m) \in Employee
<1> DEFINE S == Earlier(m)
           messages == MessagesAt(S)
           H == Handing(messages, Root(m))
           key == LastSquadHandoffKey(messages, Root(m))
<1>1. Len(script) \in Nat /\ S \subseteq 1..Len(script) /\ \A i \in S : i \in Int
  <2>1. Len(script) \in Nat
    BY ScriptFacts
  <2>2. QED
    BY <2>1 DEF Earlier, ThreadOf
<1>2. /\ messages \in Seq(Message)
      /\ \A k \in 1..Len(messages) :
            messages[k].ts \in S /\ messages[k].text = script[messages[k].ts].text
      /\ \A j, k \in 1..Len(messages) : j < k => messages[j].ts < messages[k].ts
      /\ \A i \in S : \E k \in 1..Len(messages) : messages[k].ts = i
  BY <1>1, PageMessages
<1>3. HandoffOf(m) = key
  BY DEF HandoffOf, OlderInPage, Earlier
<1>4. /\ key \in Employee \cup {NoKey}
      /\ key = IF H = {} THEN NoKey ELSE LastMentioned(messages[Max(H)].text)
  BY <1>2, HandoffIsTheLatest
<1>5. Len(messages) \in Nat /\ H \subseteq 1..Len(messages)
  BY <1>2, LenProperties DEF Handing
<1> HIDE DEF S, messages, key
<1>6. \A k \in 1..Len(messages) : k \in H <=> messages[k].ts \in Handers(m)
  BY <1>2 DEF Handing, HandsOff, Handers, S
<1> HIDE DEF H
<1>7. \A i \in Handers(m) : \E k \in H : messages[k].ts = i
  BY <1>2, <1>6 DEF Handers, S
<1>8. CASE H = {}
  BY <1>3, <1>4, <1>7, <1>8
<1>9. CASE H # {}
  <2> DEFINE last == messages[Max(H)].ts
  <2>1. Max(H) \in H /\ \A k \in H : Max(H) >= k
    BY <1>5, <1>9, MaxProperties
  <2>2. last \in Handers(m) /\ last \in S /\ messages[Max(H)].text = script[last].text
    BY <1>2, <1>5, <1>6, <2>1
  <2>3. ASSUME NEW i \in Handers(m)
        PROVE  last >= i
    <3>1. PICK k \in H : messages[k].ts = i
      BY <1>7
    <3>2. k \in 1..Len(messages) /\ Max(H) \in 1..Len(messages) /\ Max(H) >= k
      BY <1>5, <2>1
    <3>3. i \in Int /\ last \in Int
      <4>1. i \in S /\ last \in S
        BY <1>2, <3>1, <3>2
      <4>2. QED
        BY <1>1, <4>1
    <3>4. CASE k = Max(H)
      BY <3>1, <3>3, <3>4
    <3>5. CASE k # Max(H)
      <4>1. k < Max(H)
        BY <1>5, <3>2, <3>5
      <4>2. QED
        BY <1>2, <3>1, <3>2, <3>3, <4>1
    <3>6. QED
      BY <3>4, <3>5
  <2>4. Handers(m) \subseteq 1..Len(script) /\ Handers(m) # {}
    BY <1>1, <2>2 DEF Handers, S
  <2>5. /\ Max(Handers(m)) \in Handers(m)
        /\ \A i \in Handers(m) : Max(Handers(m)) >= i
    BY <1>1, <2>4, MaxProperties
  <2>6. Max(Handers(m)) = last
    <3> HIDE DEF last
    <3>1. last \in Int /\ Max(Handers(m)) \in Int
      BY <1>1, <2>2, <2>4, <2>5
    <3>2. last >= Max(Handers(m)) /\ Max(Handers(m)) >= last
      BY <2>2, <2>3, <2>5
    <3>3. QED
      BY <3>1, <3>2
  <2>7. script[last].text \in Text /\ Occurrences(script[last].text) # <<>>
    <3>1. last \in 1..Len(script)
      BY <2>2, <2>4
    <3>2. script[last].text \in Text
      BY <3>1, ScriptFacts
    <3>3. QED
      BY <2>2, <3>2 DEF Handers
  <2>8. LastMentioned(script[last].text) \in Employee
    BY <2>7, LastSpot
  <2> HIDE DEF last
  <2>9. HandoffOf(m) = LastMentioned(script[last].text)
    BY <1>3, <1>4, <1>9, <2>2
  <2>10. QED
    BY <2>4, <2>5, <2>6, <2>8, <2>9
<1>10. QED
  BY <1>8, <1>9
------------------------------------------------------------------------------
(* The inductive invariants. *)

(* What a worker can have made of message m. *)
Inputs(m) ==
    [text : {script[m].text}, author : {script[m].author}, ts : {m},
     thread : {script[m].thread # 0}, handoff : Employee \cup {NoKey},
     rootCreated : BOOLEAN, bypass : BOOLEAN]

(* A busy worker has a message that passed its filters, and once it has    *)
(* decided, what it is about to do is what the input says.                 *)
Building(w) ==
    pc[w] # "idle" =>
        /\ job[w].m \in 1..posted /\ in[w] \in Inputs(job[w].m)
        /\ Handles(job[w].m, job[w].type)
        /\ job[w].type = "app_mention" =>
               Orchestrator \in Mentions(script[job[w].m].text)
        /\ pc[w] \in {"pin_set", "dispatch"} => decision[w] = Decide(in[w])
        /\ pc[w] = "pin_set" => PinsThread(in[w], decision[w])

(* The root m told the employee key, mentioned first, to start a skill; it *)
(* is no create-company post, but for one that a human wrote.              *)
KickedOff(m, key) ==
    /\ m \in 1..posted /\ Root(m) = m /\ ~script[m].notice
    /\ script[m].text.broadcast = "none"
    /\ script[m].text.form = "created" => script[m].author \notin Squad
    /\ Classify(SaidToFirst(script[m].text)) \in PinnedTools
    /\ Mentioned(script[m].text) # {} /\ key = FirstMentioned(script[m].text)

PinsAreKickoffs == \A m \in 1..Len(script) : pin[m] # NoKey => KickedOff(m, pin[m])

Places == {"idle", "history", "pin", "index", "profile", "decide", "pin_set",
           "dispatch"}

EachWorker(f) == f = [w \in Workers |-> f[w]]

(* The part of the invariant that is about the workers, and the rest. *)
WorkersInv ==
    /\ pc \in [Workers -> Places]
    /\ job \in [Workers -> [m : 0..posted, type : EventTypes]]
    /\ EachWorker(in) /\ EachWorker(decision)
    /\ history \in [Workers -> {"none", "read", "failed"}]
    /\ \A w \in Workers : /\ job[w] = NoJob <=> pc[w] = "idle"
                          /\ in[w].ts = job[w].m
                          /\ Building(w)

StoreInv ==
    /\ mode \in Modes
    /\ script \in Scripts /\ posted \in 0..Len(script)
    /\ deliveries \in [(1..Len(script)) \X EventTypes -> 0..MaxDeliveries]
    /\ indexed \subseteq User \ Bots /\ agreed \subseteq User \ Bots
    /\ pin \in [1..Len(script) -> Employee \cup {NoKey}]
    /\ expiries \in 0..MaxExpiries /\ restarts \in 0..MaxRestarts
    /\ \A d \in dispatched : d.m \in 1..posted /\ d.type \in EventTypes
    /\ PinsAreKickoffs

TypeInv == WorkersInv /\ StoreInv

(* How far a worker has got with the terms; both records only grow. *)
Cleared(w) ==
    pc[w] # "idle" =>
        /\ pc[w] \in {"history", "pin"} => job[w].type = "message"
        /\ in[w].bypass => AsksForTerms(in[w])
        /\ RedisOn /\ pc[w] = "profile" => in[w].author \in indexed
        /\ RedisOn /\ pc[w] \in {"decide", "pin_set", "dispatch"} =>
               \/ in[w].bypass
               \/ job[w].type = "message" /\ script[job[w].m].bot
               \/ in[w].author \in indexed \cap agreed

TermsInv == TypeInv /\ (\A w \in Workers : Cleared(w)) /\ TermsGate

(* Where the handoff of an input comes from: the thread before the         *)
(* message, or a pin of its root if that names nobody or was not read.     *)
Grounds(i, m, type, asked) ==
    IF type = "message" /\ AsksHistory(i)
    THEN /\ asked \in {"read", "failed"}
         /\ asked = "read" =>
                /\ i.rootCreated = (script[Root(m)].text.form = "created")
                /\ \/ i.handoff = HandoffOf(m)
                   \/ HandoffOf(m) = NoKey /\ KickedOff(Root(m), i.handoff)
         /\ asked = "failed" =>
                /\ ~i.rootCreated
                /\ i.handoff = NoKey \/ KickedOff(Root(m), i.handoff)
    ELSE i.handoff = NoKey /\ ~i.rootCreated

Informed(w) ==
    /\ pc[w] = "history" =>
           /\ in[w] = Input(job[w].m) /\ job[w].type = "message" /\ AsksHistory(in[w])
    /\ pc[w] \notin {"idle", "history"} =>
           Grounds(in[w], job[w].m, job[w].type, history[w])
    /\ pc[w] = "pin" => job[w].type = "message" /\ AsksPin(in[w])

(* What is dispatched was decided on such an input. *)
Reasoned(d) ==
    /\ d.m \in 1..posted /\ d.type \in EventTypes /\ Handles(d.m, d.type)
    /\ d.type = "app_mention" => Orchestrator \in Mentions(script[d.m].text)
    /\ ~(ToSet(d.decision.employees) \subseteq {NoKey})
    /\ \E i \in Inputs(d.m) :
           /\ Grounds(i, d.m, d.type, d.history)
           /\ d.handoff = i.handoff /\ d.bypass = i.bypass
           /\ d.decision = Decide(i)

AnswerInv ==
    /\ TypeInv
    /\ \A w \in Workers : Informed(w)
    /\ \A d \in dispatched : Reasoned(d)
------------------------------------------------------------------------------
(* How the variables change. *)

(* A worker's step leaves the others where they are. *)
OnlyMoves(w) ==
    /\ pc' = [pc EXCEPT ![w] = pc'[w]]
    /\ job' = [job EXCEPT ![w] = job'[w]]
    /\ in' = [in EXCEPT ![w] = in'[w]]
    /\ history' = [history EXCEPT ![w] = history'[w]]
    /\ decision' = [decision EXCEPT ![w] = decision'[w]]

WorkerVars == <<pc, job, in, history, decision>>

(* Whatever a worker does, it does to itself and to the shared stores. *)
LEMMA OneWorkerMoves ==
    ASSUME WorkersInv, NEW w \in Workers, Worker(w)
    PROVE  /\ OnlyMoves(w)
           /\ UNCHANGED <<mode, script, posted, indexed, agreed, expiries, restarts>>
<1>1. pc \in [Workers -> Places] /\ EachWorker(job) /\ EachWorker(in)
      /\ EachWorker(history) /\ EachWorker(decision)
  BY DEF WorkersInv, EachWorker
<1>2. /\ pc = [pc EXCEPT ![w] = pc[w]]
      /\ job = [job EXCEPT ![w] = job[w]]
      /\ in = [in EXCEPT ![w] = in[w]]
      /\ history = [history EXCEPT ![w] = history[w]]
      /\ decision = [decision EXCEPT ![w] = decision[w]]
  BY <1>1 DEF EachWorker
<1>3. /\ pc' = pc => pc' = [pc EXCEPT ![w] = pc'[w]]
      /\ job' = job => job' = [job EXCEPT ![w] = job'[w]]
      /\ in' = in => in' = [in EXCEPT ![w] = in'[w]]
      /\ history' = history => history' = [history EXCEPT ![w] = history'[w]]
      /\ decision' = decision => decision' = [decision EXCEPT ![w] = decision'[w]]
  BY <1>2
<1>4. /\ \A x : pc' = [pc EXCEPT ![w] = x] => pc' = [pc EXCEPT ![w] = pc'[w]]
      /\ \A x : job' = [job EXCEPT ![w] = x] => job' = [job EXCEPT ![w] = job'[w]]
      /\ \A x : in' = [in EXCEPT ![w] = x] => in' = [in EXCEPT ![w] = in'[w]]
      /\ \A x : history' = [history EXCEPT ![w] = x]
             => history' = [history EXCEPT ![w] = history'[w]]
      /\ \A x : decision' = [decision EXCEPT ![w] = x]
             => decision' = [decision EXCEPT ![w] = decision'[w]]
  BY <1>1 DEF EachWorker
<1>5. ASSUME NEW m \in 1..Len(script), NEW type \in EventTypes, Takes(w, m, type)
      PROVE  /\ OnlyMoves(w)
             /\ UNCHANGED <<mode, script, posted, indexed, agreed, expiries, restarts>>
  BY <1>3, <1>4, <1>5 DEF Takes, OnlyMoves, Goto, redisVars, slackVars
<1>6. ASSUME NEW m \in 1..Len(script), NEW type \in EventTypes, Drops(w, m, type)
      PROVE  /\ OnlyMoves(w)
             /\ UNCHANGED <<mode, script, posted, indexed, agreed, expiries, restarts>>
  BY <1>3, <1>4, <1>6 DEF Drops, OnlyMoves, Goto, redisVars, slackVars
<1>7. ASSUME ReadsHistory(w)
      PROVE  /\ OnlyMoves(w)
             /\ UNCHANGED <<mode, script, posted, indexed, agreed, expiries, restarts>>
  BY <1>3, <1>4, <1>7 DEF ReadsHistory, OnlyMoves, Goto, redisVars, slackVars
<1>8. ASSUME HistoryFails(w)
      PROVE  /\ OnlyMoves(w)
             /\ UNCHANGED <<mode, script, posted, indexed, agreed, expiries, restarts>>
  BY <1>3, <1>4, <1>8 DEF HistoryFails, OnlyMoves, Goto, redisVars, slackVars
<1>9. ASSUME ReadsPin(w)
      PROVE  /\ OnlyMoves(w)
             /\ UNCHANGED <<mode, script, posted, indexed, agreed, expiries, restarts>>
  BY <1>3, <1>4, <1>9 DEF ReadsPin, OnlyMoves, Goto, redisVars, slackVars
<1>10. ASSUME PinReadFails(w)
      PROVE  /\ OnlyMoves(w)
             /\ UNCHANGED <<mode, script, posted, indexed, agreed, expiries, restarts>>
  BY <1>3, <1>4, <1>10 DEF PinReadFails, OnlyMoves, Goto, redisVars, slackVars
<1>11. ASSUME FindsUser(w)
      PROVE  /\ OnlyMoves(w)
             /\ UNCHANGED <<mode, script, posted, indexed, agreed, expiries, restarts>>
  BY <1>3, <1>4, <1>11 DEF FindsUser, OnlyMoves, Goto, redisVars, slackVars
<1>12. ASSUME FindsAcceptance(w)
      PROVE  /\ OnlyMoves(w)
             /\ UNCHANGED <<mode, script, posted, indexed, agreed, expiries, restarts>>
  BY <1>3, <1>4, <1>12 DEF FindsAcceptance, OnlyMoves, Goto, redisVars, slackVars
<1>13. ASSUME Bypasses(w)
      PROVE  /\ OnlyMoves(w)
             /\ UNCHANGED <<mode, script, posted, indexed, agreed, expiries, restarts>>
  BY <1>3, <1>4, <1>13 DEF Bypasses, FindsNone, OnlyMoves, Goto, redisVars, slackVars
<1>14. ASSUME Refuses(w)
      PROVE  /\ OnlyMoves(w)
             /\ UNCHANGED <<mode, script, posted, indexed, agreed, expiries, restarts>>
  BY <1>3, <1>4, <1>14 DEF Refuses, FindsNone, Returns, OnlyMoves, Goto, redisVars, slackVars
<1>15. ASSUME Decides(w)
      PROVE  /\ OnlyMoves(w)
             /\ UNCHANGED <<mode, script, posted, indexed, agreed, expiries, restarts>>
  BY <1>3, <1>4, <1>15 DEF Decides, OnlyMoves, Goto, redisVars, slackVars
<1>16. ASSUME SetsPin(w)
      PROVE  /\ OnlyMoves(w)
             /\ UNCHANGED <<mode, script, posted, indexed, agreed, expiries, restarts>>
  BY <1>3, <1>4, <1>16 DEF SetsPin, OnlyMoves, Goto, redisVars, slackVars
<1>17. ASSUME PinSetFails(w)
      PROVE  /\ OnlyMoves(w)
             /\ UNCHANGED <<mode, script, posted, indexed, agreed, expiries, restarts>>
  BY <1>3, <1>4, <1>17 DEF PinSetFails, OnlyMoves, Goto, redisVars, slackVars
<1>18. ASSUME Dispatches(w)
      PROVE  /\ OnlyMoves(w)
             /\ UNCHANGED <<mode, script, posted, indexed, agreed, expiries, restarts>>
  BY <1>3, <1>4, <1>18 DEF Dispatches, Returns, OnlyMoves, Goto, redisVars, slackVars
<1>19. QED
  BY <1>5, <1>6, <1>7, <1>8, <1>9, <1>10, <1>11, <1>12, <1>13, <1>14, <1>15, <1>16, <1>17, <1>18 DEF Worker

(* A worker that does nothing keeps what it has, whatever is posted.       *)
LEMMA BuildingKept ==
    ASSUME script' = script, mode' = mode, posted \in Nat, posted' \in Nat,
           posted <= posted', NEW w \in Workers, pc'[w] = pc[w], job'[w] = job[w],
           in'[w] = in[w], decision'[w] = decision[w], Building(w)
    PROVE  Building(w)'
<1>1. /\ Inputs(job[w].m)' = Inputs(job[w].m)
      /\ Handles(job[w].m, job[w].type)' = Handles(job[w].m, job[w].type)
      /\ PinsThread(in[w], decision[w])' = PinsThread(in[w], decision[w])
  BY DEF Inputs, Handles, HandlesMessage, HandlesAppMention, PinsThread, Root
<1>2. job[w].m \in 1..posted => job[w].m \in 1..posted'
  OBVIOUS
<1>3. QED
  BY <1>1, <1>2 DEF Building

(* So a step of one worker preserves the invariant if that worker's state  *)
(* is right after it.                                                      *)
LEMMA WorkersKept ==
    ASSUME WorkersInv, NEW w \in Workers, OnlyMoves(w),
           UNCHANGED <<mode, script, posted>>, posted \in Nat,
           pc'[w] \in Places, job'[w] \in [m : 0..posted, type : EventTypes],
           history'[w] \in {"none", "read", "failed"},
           job'[w] = NoJob <=> pc'[w] = "idle", in'[w].ts = job'[w].m,
           Building(w)'
    PROVE  WorkersInv'
<1>1. /\ pc' \in [Workers -> Places]
      /\ job' \in [Workers -> [m : 0..posted', type : EventTypes]]
      /\ history' \in [Workers -> {"none", "read", "failed"}]
  <2>1. pc' \in [Workers -> Places]
    BY DEF WorkersInv, OnlyMoves
  <2>2. job' \in [Workers -> [m : 0..posted, type : EventTypes]] /\ posted' = posted
    BY DEF WorkersInv, OnlyMoves
  <2>3. history' \in [Workers -> {"none", "read", "failed"}]
    BY DEF WorkersInv, OnlyMoves
  <2>4. QED
    BY <2>1, <2>2, <2>3
<1>2. EachWorker(in)' /\ EachWorker(decision)'
  BY DEF WorkersInv, OnlyMoves, EachWorker
<1>3. ASSUME NEW v \in Workers, v # w
      PROVE  /\ pc'[v] = pc[v] /\ job'[v] = job[v] /\ in'[v] = in[v]
             /\ decision'[v] = decision[v]
  BY <1>3 DEF WorkersInv, OnlyMoves, EachWorker
<1>4. ASSUME NEW v \in Workers
      PROVE  /\ job'[v] = NoJob <=> pc'[v] = "idle"
             /\ in'[v].ts = job'[v].m
             /\ Building(v)'
  <2>1. CASE v = w
    BY <2>1
  <2>2. CASE v # w
    <3>1. /\ pc'[v] = pc[v] /\ job'[v] = job[v] /\ in'[v] = in[v]
          /\ decision'[v] = decision[v]
      BY <1>3, <2>2
    <3>2. /\ job[v] = NoJob <=> pc[v] = "idle"
          /\ in[v].ts = job[v].m
          /\ Building(v)
      BY DEF WorkersInv
    <3>3. Building(v)'
      BY <3>1, <3>2, BuildingKept
    <3>4. QED
      BY <3>1, <3>2, <3>3
  <2>3. QED
    BY <2>1, <2>2
<1>5. QED
  BY <1>1, <1>2, <1>4 DEF WorkersInv

(* What goes on outside leaves all of them right. *)
LEMMA WorkersIdleBy ==
    ASSUME WorkersInv, UNCHANGED WorkerVars, UNCHANGED <<mode, script>>,
           posted \in Nat, posted' \in Nat, posted <= posted'
    PROVE  WorkersInv'
<1>1. /\ pc' = pc /\ job' = job /\ in' = in /\ history' = history
      /\ decision' = decision
  BY DEF WorkerVars
<1>2. job' \in [Workers -> [m : 0..posted', type : EventTypes]]
  <2>1. 0..posted \subseteq 0..posted'
    OBVIOUS
  <2>2. \A w \in Workers : job[w] \in [m : 0..posted', type : EventTypes]
    BY <2>1 DEF WorkersInv
  <2>3. QED
    BY <1>1, <2>2 DEF WorkersInv
<1>3. ASSUME NEW w \in Workers
      PROVE  /\ job'[w] = NoJob <=> pc'[w] = "idle"
             /\ in'[w].ts = job'[w].m
             /\ Building(w)'
  <2>1. /\ job[w] = NoJob <=> pc[w] = "idle"
        /\ in[w].ts = job[w].m
        /\ Building(w)
    BY DEF WorkersInv
  <2>2. Building(w)'
    BY <1>1, <2>1, BuildingKept
  <2>3. QED
    BY <1>1, <2>1, <2>2
<1>4. QED
  BY <1>1, <1>2, <1>3 DEF WorkersInv, EachWorker
------------------------------------------------------------------------------
(* Type correctness. *)

(* No more is posted than the script has. *)
LEMMA PostedIsNatural ==
    ASSUME StoreInv
    PROVE  posted \in Nat /\ Len(script) \in Nat /\ posted <= Len(script)
<1>1. Len(script) \in Nat /\ posted \in 0..Len(script)
  BY ScriptFacts DEF StoreInv
<1>2. QED
  BY <1>1

(* The input of a new event is one of its message's. *)
LEMMA InputIsOne ==
    ASSUME NEW m
    PROVE  Input(m) \in Inputs(m)
BY DEF Input, Inputs

(* A worker takes an event that passes its filters. *)
LEMMA TakesKeepsWorkers ==
    ASSUME TypeInv, NEW w \in Workers, NEW m \in 1..Len(script),
           NEW type \in EventTypes, Takes(w, m, type)
    PROVE  WorkersInv'
<1>1. /\ m \in 1..posted /\ posted \in Nat
      /\ type = "app_mention" => Orchestrator \in Mentions(script[m].text)
  BY PostedIsNatural DEF TypeInv, Takes, Delivers
<1>2. /\ OnlyMoves(w)
      /\ UNCHANGED <<mode, script, posted>>
  BY OneWorkerMoves DEF TypeInv, Worker
<1>3. /\ pc'[w] = FirstStep(Input(m), type) /\ job'[w] = [m |-> m, type |-> type]
      /\ in'[w] = Input(m) /\ history'[w] = history[w]
  BY DEF TypeInv, WorkersInv, EachWorker, Takes, Goto
<1>4. pc'[w] \in Places \ {"idle", "pin_set", "dispatch"}
  BY <1>3 DEF FirstStep, BeforePin, BeforeTerms, Places
<1>5. job'[w] # NoJob /\ in'[w].ts = m
  BY <1>1, <1>3 DEF NoJob, Input
<1>6. job'[w].m = m /\ job'[w].type = type
  BY <1>3
<1>7. history'[w] \in {"none", "read", "failed"}
  BY <1>3 DEF TypeInv, WorkersInv
<1>8. Handles(m, type)'
  BY <1>2 DEF Takes, Handles, HandlesMessage, HandlesAppMention
<1>9. in'[w] \in Inputs(m)'
  BY <1>2, <1>3, InputIsOne DEF Inputs
<1>10. Building(w)'
  BY <1>1, <1>2, <1>4, <1>6, <1>8, <1>9 DEF Building
<1>11. job'[w] \in [m : 0..posted, type : EventTypes]
  BY <1>1, <1>3
<1>12. QED
  BY <1>1, <1>2, <1>4, <1>5, <1>6, <1>7, <1>10, <1>11, WorkersKept DEF TypeInv

(* A worker goes on with its message: a step that leaves its job alone.    *)
LEMMA GoesOn ==
    ASSUME TypeInv, NEW w \in Workers, Worker(w), pc[w] # "idle", job'[w] = job[w],
           pc'[w] \in Places \ {"idle"}, in'[w] \in Inputs(job[w].m),
           history'[w] \in {"none", "read", "failed"},
           pc'[w] \in {"pin_set", "dispatch"} => decision'[w] = Decide(in'[w]),
           pc'[w] = "pin_set" => PinsThread(in'[w], decision'[w])
    PROVE  WorkersInv'
<1>1. OnlyMoves(w) /\ UNCHANGED <<mode, script, posted>>
  BY OneWorkerMoves DEF TypeInv
<1>2. posted \in Nat
  BY PostedIsNatural DEF TypeInv
<1>3. /\ job[w].m \in 1..posted /\ Handles(job[w].m, job[w].type)
      /\ job[w].type = "app_mention" =>
             Orchestrator \in Mentions(script[job[w].m].text)
  BY DEF TypeInv, WorkersInv, Building
<1>4. job[w] \in [m : 0..posted, type : EventTypes] /\ job[w] # NoJob
  BY DEF TypeInv, WorkersInv
<1>5. in'[w].ts = job[w].m
  BY DEF Inputs
<1>6. /\ Handles(job[w].m, job[w].type)' = Handles(job[w].m, job[w].type)
      /\ PinsThread(in[w], decision[w])' = PinsThread(in'[w], decision'[w])
      /\ Inputs(job[w].m)' = Inputs(job[w].m)
  BY <1>1 DEF Handles, HandlesMessage, HandlesAppMention, PinsThread, Inputs, Root
<1>7. Building(w)'
  BY <1>1, <1>3, <1>6 DEF Building
<1>8. QED
  BY <1>1, <1>2, <1>4, <1>5, <1>7, WorkersKept DEF TypeInv

(* A worker is done with its message. *)
LEMMA EndsWork ==
    ASSUME TypeInv, NEW w \in Workers, Worker(w), Returns(w)
    PROVE  WorkersInv'
<1>1. OnlyMoves(w) /\ UNCHANGED <<mode, script, posted>>
  BY OneWorkerMoves DEF TypeInv
<1>2. posted \in Nat
  BY PostedIsNatural DEF TypeInv
<1>3. pc'[w] = "idle" /\ job'[w] = NoJob /\ in'[w] = NoInput /\ history'[w] = "none"
  BY DEF Returns, Goto, TypeInv, WorkersInv, EachWorker
<1>4. /\ pc'[w] \in Places /\ job'[w] \in [m : 0..posted, type : EventTypes]
      /\ in'[w].ts = job'[w].m
  BY <1>2, <1>3 DEF Places, NoJob, NoInput, EventTypes
<1>5. Building(w)'
  BY <1>3 DEF Building
<1>6. QED
  BY <1>1, <1>2, <1>3, <1>4, <1>5, WorkersKept DEF TypeInv

(* What a worker reads is a handoff that an input can have. *)
LEMMA ReadsAreInputs ==
    ASSUME TypeInv, NEW w \in Workers, pc[w] # "idle"
    PROVE  /\ job[w].m \in 1..posted /\ Root(job[w].m) \in 1..Len(script)
           /\ in[w] \in Inputs(job[w].m)
           /\ \A key \in Employee \cup {NoKey}, created \in BOOLEAN :
                 [in[w] EXCEPT !.handoff = key, !.rootCreated = created]
                     \in Inputs(job[w].m)
           /\ \A key \in Employee \cup {NoKey} :
                 [in[w] EXCEPT !.handoff = key] \in Inputs(job[w].m)
           /\ [in[w] EXCEPT !.bypass = TRUE] \in Inputs(job[w].m)
<1>1. job[w].m \in 1..posted /\ in[w] \in Inputs(job[w].m)
  BY DEF TypeInv, WorkersInv, Building
<1>2. Root(job[w].m) \in 1..Len(script)
  BY <1>1, ScriptFacts, PostedIsNatural DEF TypeInv, StoreInv
<1>3. QED
  BY <1>1, <1>2 DEF Inputs

(* The step of a busy worker keeps all of them right. *)
LEMMA BusyKeepsWorkers ==
    ASSUME TypeInv, NEW w \in Workers, pc[w] # "idle", Worker(w)
    PROVE  WorkersInv'
<1>1. /\ pc \in [Workers -> Places] /\ EachWorker(in) /\ EachWorker(decision)
      /\ job \in [Workers -> [m : 0..posted, type : EventTypes]]
      /\ history \in [Workers -> {"none", "read", "failed"}]
  BY DEF TypeInv, WorkersInv
<1>2. /\ pc[w] \in {"pin_set", "dispatch"} => decision[w] = Decide(in[w])
      /\ pc[w] = "pin_set" => PinsThread(in[w], decision[w])
      /\ history[w] \in {"none", "read", "failed"}
  BY <1>1 DEF TypeInv, WorkersInv, Building
<1>3. job[w].m \in 1..posted /\ in[w] \in Inputs(job[w].m)
  BY ReadsAreInputs
<1>4. \A i : /\ BeforeTerms(i, "message") \in {"index", "decide"}
             /\ BeforePin(i, "message") \in {"pin", "index", "decide"}
  BY DEF BeforePin, BeforeTerms
<1>5. CASE ReadsHistory(w)
  <2> DEFINE key == LastSquadHandoffKey(OlderInPage(job[w].m), Root(job[w].m))
             created == script[Root(job[w].m)].text.form = "created"
             i == [in[w] EXCEPT !.handoff = key, !.rootCreated = created]
  <2>1. key \in Employee \cup {NoKey}
    BY <1>3, HandoffOfThread DEF HandoffOf, TypeInv, StoreInv
  <2>2. i \in Inputs(job[w].m)
    BY <2>1, ReadsAreInputs
  <2>3. /\ in'[w] = i /\ pc'[w] = BeforePin(i, "message") /\ job' = job
        /\ history'[w] = "read"
    BY <1>1, <1>5 DEF ReadsHistory, Goto, EachWorker
  <2> HIDE DEF i
  <2>4. pc'[w] \in Places \ {"idle", "pin_set", "dispatch"}
    BY <1>4, <2>3 DEF Places
  <2>5. job'[w] = job[w] /\ history'[w] \in {"none", "read", "failed"}
    BY <2>3
  <2>6. in'[w] \in Inputs(job[w].m)
    BY <2>2, <2>3
  <2>7. /\ pc'[w] \in {"pin_set", "dispatch"} => decision'[w] = Decide(in'[w])
        /\ pc'[w] = "pin_set" => PinsThread(in'[w], decision'[w])
        /\ pc'[w] \in Places \ {"idle"}
    BY <2>4
  <2>8. QED
    BY <2>5, <2>6, <2>7, GoesOn
<1>6. CASE HistoryFails(w)
  <2>1. /\ in'[w] = in[w] /\ job'[w] = job[w]
        /\ pc'[w] \in {"pin", "index", "decide"}
        /\ history'[w] \in {"none", "read", "failed"}
    BY <1>1, <1>2, <1>4, <1>6 DEF HistoryFails, Goto, At, EachWorker
  <2>2. in'[w] \in Inputs(job[w].m)
    BY <1>3, <2>1
  <2>3. /\ pc'[w] \in Places \ {"idle"}
        /\ pc'[w] \in {"pin_set", "dispatch"} => decision'[w] = Decide(in'[w])
        /\ pc'[w] = "pin_set" => PinsThread(in'[w], decision'[w])
    BY <2>1 DEF Places
  <2>4. QED
    BY <2>1, <2>2, <2>3, GoesOn
<1>7. CASE ReadsPin(w)
  <2>1. /\ in'[w] = [in[w] EXCEPT !.handoff = pin[Root(job[w].m)]] /\ job'[w] = job[w]
        /\ pc'[w] \in {"pin", "index", "decide"}
        /\ history'[w] \in {"none", "read", "failed"}
    BY <1>1, <1>2, <1>4, <1>7 DEF ReadsPin, Goto, At, EachWorker
  <2>2. in'[w] \in Inputs(job[w].m)
    <3>1. pin[Root(job[w].m)] \in Employee \cup {NoKey}
      BY ReadsAreInputs DEF TypeInv, StoreInv
    <3>2. QED
      BY <2>1, <3>1, ReadsAreInputs
  <2>3. /\ pc'[w] \in Places \ {"idle"}
        /\ pc'[w] \in {"pin_set", "dispatch"} => decision'[w] = Decide(in'[w])
        /\ pc'[w] = "pin_set" => PinsThread(in'[w], decision'[w])
    BY <2>1 DEF Places
  <2>4. QED
    BY <2>1, <2>2, <2>3, GoesOn
<1>8. CASE PinReadFails(w)
  <2>1. /\ in'[w] = in[w] /\ job'[w] = job[w]
        /\ pc'[w] \in {"pin", "index", "decide"}
        /\ history'[w] \in {"none", "read", "failed"}
    BY <1>1, <1>2, <1>4, <1>8 DEF PinReadFails, Goto, At, EachWorker
  <2>2. in'[w] \in Inputs(job[w].m)
    BY <1>3, <2>1
  <2>3. /\ pc'[w] \in Places \ {"idle"}
        /\ pc'[w] \in {"pin_set", "dispatch"} => decision'[w] = Decide(in'[w])
        /\ pc'[w] = "pin_set" => PinsThread(in'[w], decision'[w])
    BY <2>1 DEF Places
  <2>4. QED
    BY <2>1, <2>2, <2>3, GoesOn
<1>9. CASE FindsUser(w)
  <2>1. /\ in'[w] = in[w] /\ job'[w] = job[w]
        /\ pc'[w] \in {"profile"}
        /\ history'[w] \in {"none", "read", "failed"}
    BY <1>1, <1>2, <1>4, <1>9 DEF FindsUser, Goto, At, EachWorker
  <2>2. in'[w] \in Inputs(job[w].m)
    BY <1>3, <2>1
  <2>3. /\ pc'[w] \in Places \ {"idle"}
        /\ pc'[w] \in {"pin_set", "dispatch"} => decision'[w] = Decide(in'[w])
        /\ pc'[w] = "pin_set" => PinsThread(in'[w], decision'[w])
    BY <2>1 DEF Places
  <2>4. QED
    BY <2>1, <2>2, <2>3, GoesOn
<1>10. CASE FindsAcceptance(w)
  <2>1. /\ in'[w] = in[w] /\ job'[w] = job[w]
        /\ pc'[w] \in {"decide"}
        /\ history'[w] \in {"none", "read", "failed"}
    BY <1>1, <1>2, <1>4, <1>10 DEF FindsAcceptance, Goto, At, EachWorker
  <2>2. in'[w] \in Inputs(job[w].m)
    BY <1>3, <2>1
  <2>3. /\ pc'[w] \in Places \ {"idle"}
        /\ pc'[w] \in {"pin_set", "dispatch"} => decision'[w] = Decide(in'[w])
        /\ pc'[w] = "pin_set" => PinsThread(in'[w], decision'[w])
    BY <2>1 DEF Places
  <2>4. QED
    BY <2>1, <2>2, <2>3, GoesOn
<1>11. CASE Bypasses(w)
  <2>1. /\ in'[w] = [in[w] EXCEPT !.bypass = TRUE] /\ job'[w] = job[w]
        /\ pc'[w] \in {"decide"}
        /\ history'[w] \in {"none", "read", "failed"}
    BY <1>1, <1>2, <1>4, <1>11 DEF Bypasses, Goto, At, EachWorker, FindsNone
  <2>2. in'[w] \in Inputs(job[w].m)
    BY <2>1, ReadsAreInputs
  <2>3. /\ pc'[w] \in Places \ {"idle"}
        /\ pc'[w] \in {"pin_set", "dispatch"} => decision'[w] = Decide(in'[w])
        /\ pc'[w] = "pin_set" => PinsThread(in'[w], decision'[w])
    BY <2>1 DEF Places
  <2>4. QED
    BY <2>1, <2>2, <2>3, GoesOn
<1>12. CASE Decides(w)
  <2>1. /\ in'[w] = in[w] /\ job'[w] = job[w] /\ decision'[w] = Decide(in[w])
        /\ pc'[w] = IF PinsThread(in[w], Decide(in[w])) THEN "pin_set" ELSE "dispatch"
        /\ history'[w] \in {"none", "read", "failed"}
    BY <1>1, <1>2, <1>12 DEF Decides, Goto, EachWorker
  <2>2. in'[w] \in Inputs(job[w].m)
    BY <1>3, <2>1
  <2>3. /\ pc'[w] \in Places \ {"idle"}
        /\ decision'[w] = Decide(in'[w])
        /\ pc'[w] = "pin_set" => PinsThread(in'[w], decision'[w])
    BY <2>1 DEF Places
  <2>4. QED
    BY <2>1, <2>2, <2>3, GoesOn
<1>13. CASE SetsPin(w) \/ PinSetFails(w)
  <2>1. /\ in'[w] = in[w] /\ job'[w] = job[w] /\ pc'[w] = "dispatch"
        /\ decision'[w] = Decide(in[w])
        /\ history'[w] \in {"none", "read", "failed"}
    BY <1>1, <1>2, <1>13 DEF SetsPin, PinSetFails, Goto, At
  <2>2. in'[w] \in Inputs(job[w].m)
    BY <1>3, <2>1
  <2>3. /\ pc'[w] \in Places \ {"idle"}
        /\ decision'[w] = Decide(in'[w])
        /\ pc'[w] # "pin_set"
    BY <2>1 DEF Places
  <2>4. QED
    BY <2>1, <2>2, <2>3, GoesOn
<1>14. CASE Refuses(w) \/ Dispatches(w)
  <2>1. Returns(w)
    BY <1>14 DEF Refuses, Dispatches
  <2>2. QED
    BY <2>1, EndsWork
<1>15. ASSUME NEW m, NEW type, Takes(w, m, type) \/ Drops(w, m, type)
       PROVE  FALSE
  BY <1>15 DEF Takes, Drops, At
<1>16. QED
  BY <1>5, <1>6, <1>7, <1>8, <1>9, <1>10, <1>11, <1>12, <1>13, <1>14, <1>15 DEF Worker

(* A pin outlives what is posted later. *)
LEMMA KickedOffKept ==
    ASSUME script' = script, posted \in Nat, posted' \in Nat, posted <= posted',
           NEW m, NEW key, KickedOff(m, key)
    PROVE  KickedOff(m, key)'
BY DEF KickedOff, Root

(* A pin that is set is a kickoff: the input of its worker was decided as  *)
(* a mention with a pinned tool.                                           *)
LEMMA SetsAKickoff ==
    ASSUME TypeInv, NEW w \in Workers, pc[w] = "pin_set"
    PROVE  /\ Head(decision[w].employees) \in Employee
           /\ KickedOff(job[w].m, Head(decision[w].employees))
<1> DEFINE m == job[w].m
           i == in[w]
<1>1. /\ m \in 1..posted /\ i \in Inputs(m) /\ Handles(m, job[w].type)
      /\ job[w].type = "app_mention" => Orchestrator \in Mentions(script[m].text)
      /\ decision[w] = Decide(i) /\ PinsThread(i, Decide(i))
  BY DEF TypeInv, WorkersInv, Building
<1>2. /\ m \in 1..Len(script) /\ script[m].text \in Text
      /\ script[m].notice => Orchestrator \notin Mentions(script[m].text)
      /\ i.ts = m /\ i.text = script[m].text /\ i.author = script[m].author
  <2>1. m \in 1..Len(script)
    BY <1>1, PostedIsNatural DEF TypeInv
  <2>2. QED
    BY <1>1, <2>1, ScriptFacts DEF TypeInv, StoreInv, Inputs
<1>3. job[w].type \in EventTypes
  BY DEF TypeInv, WorkersInv
<1>4. ~script[m].notice
  BY <1>1, <1>2, <1>3 DEF EventTypes, Handles, HandlesMessage
<1> HIDE DEF m, i
<1>5. Decide(i).trigger = "mention" /\ Decide(i).tool \in PinnedTools /\ Root(m) = m
  BY <1>1, <1>2 DEF PinsThread
<1>6. /\ i.text.broadcast = "none" /\ Mentioned(i.text) # {}
      /\ i.text.form = "created" => i.author \notin Squad
      /\ Decide(i).tool = Classify(FirstSaid(i.text))
      /\ Decide(i).employees = <<FirstNamed(i.text)>>
      /\ FirstNamed(i.text) \in Employee
  BY <1>2, <1>5, MentionNamesATool
<1>7. /\ FirstMentioned(i.text) = FirstNamed(i.text)
      /\ SaidToFirst(i.text) = FirstSaid(i.text)
  BY DEF FirstMentioned, FirstNamed, SaidToFirst, FirstSaid, SquadAt, Spots
<1>8. Head(decision[w].employees) = FirstNamed(i.text)
  BY <1>1, <1>6
<1>9. KickedOff(m, FirstNamed(i.text))
  BY <1>1, <1>2, <1>4, <1>5, <1>6, <1>7 DEF KickedOff
<1>10. QED
  BY <1>6, <1>8, <1>9 DEF m

(* Nothing that is stored changes. *)
LEMMA StoreKept ==
    ASSUME StoreInv, UNCHANGED <<mode, slackVars, redisVars, restarts, dispatched>>
    PROVE  StoreInv'
BY DEF StoreInv, slackVars, redisVars, PinsAreKickoffs, KickedOff, Root

(* The rest of the invariant, step by step. *)
LEMMA BusyKeepsStore ==
    ASSUME TypeInv, NEW w \in Workers, pc[w] # "idle", Worker(w)
    PROVE  StoreInv'
<1>1. StoreInv /\ job[w].m \in 1..posted /\ job[w].type \in EventTypes
  BY ReadsAreInputs DEF TypeInv, WorkersInv
<1>2. CASE \/ ReadsHistory(w) \/ HistoryFails(w) \/ ReadsPin(w) \/ PinReadFails(w)
           \/ FindsUser(w) \/ FindsAcceptance(w) \/ Bypasses(w) \/ Refuses(w)
           \/ Decides(w) \/ PinSetFails(w)
  <2>1. UNCHANGED <<mode, slackVars, redisVars, restarts, dispatched>>
    BY <1>2 DEF ReadsHistory, HistoryFails, ReadsPin, PinReadFails, FindsUser,
                FindsAcceptance, Bypasses, Refuses, FindsNone, Decides, PinSetFails
  <2>2. QED
    BY <1>1, <2>1, StoreKept
<1>3. CASE SetsPin(w)
  <2> DEFINE key == Head(decision[w].employees)
             m == job[w].m
  <2>1. /\ pin' = [pin EXCEPT ![m] = key]
        /\ UNCHANGED <<mode, slackVars, indexed, agreed, expiries, restarts, dispatched>>
    BY <1>3 DEF SetsPin
  <2>2. key \in Employee /\ KickedOff(m, key)
    BY <1>3, SetsAKickoff DEF SetsPin, At
  <2> HIDE DEF key, m
  <2>3. pin' \in [1..Len(script) -> Employee \cup {NoKey}]
    BY <1>1, <2>1, <2>2 DEF StoreInv
  <2>4. PinsAreKickoffs'
    BY <1>1, <2>1, <2>2 DEF StoreInv, PinsAreKickoffs, KickedOff, Root, slackVars
  <2>5. QED
    BY <1>1, <2>1, <2>3, <2>4 DEF StoreInv, slackVars
<1>4. CASE Dispatches(w)
  <2>1. UNCHANGED <<mode, slackVars, redisVars, restarts>>
    BY <1>4 DEF Dispatches
  <2>2. \A d \in dispatched' : d.m \in 1..posted /\ d.type \in EventTypes
    BY <1>1, <1>4 DEF Dispatches, StoreInv
  <2>3. QED
    BY <1>1, <2>1, <2>2 DEF StoreInv, slackVars, redisVars, PinsAreKickoffs, KickedOff, Root
<1>5. ASSUME NEW m, NEW type, Takes(w, m, type) \/ Drops(w, m, type)
      PROVE  FALSE
  BY <1>5 DEF Takes, Drops, At
<1>6. QED
  BY <1>2, <1>3, <1>4, <1>5 DEF Worker

(* An event is delivered. *)
LEMMA DeliveryKeepsStore ==
    ASSUME TypeInv, NEW w \in Workers, NEW m \in 1..Len(script), NEW type \in EventTypes,
           Takes(w, m, type) \/ Drops(w, m, type)
    PROVE  StoreInv'
<1>1. /\ Delivers(m, type)
      /\ UNCHANGED <<mode, script, posted, redisVars, restarts, dispatched>>
  BY DEF Takes, Drops
<1>2. deliveries' \in [(1..Len(script)) \X EventTypes -> 0..MaxDeliveries]
  <2>1. /\ deliveries \in [(1..Len(script)) \X EventTypes -> 0..MaxDeliveries]
        /\ deliveries[<<m, type>>] < MaxDeliveries /\ MaxDeliveries \in Nat
        /\ deliveries' = [deliveries EXCEPT ![<<m, type>>] = @ + 1]
    BY <1>1, ThreadsAssumption DEF TypeInv, StoreInv, Delivers
  <2>2. <<m, type>> \in (1..Len(script)) \X EventTypes
    OBVIOUS
  <2>3. deliveries[<<m, type>>] + 1 \in 0..MaxDeliveries
    BY <2>1, <2>2
  <2>4. QED
    BY <2>1, <2>2, <2>3
<1>3. QED
  BY <1>1, <1>2 DEF TypeInv, StoreInv, redisVars, PinsAreKickoffs, KickedOff, Root

(* A message is posted, a user is recorded, a pin expires. *)
LEMMA OutsideKeeps ==
    ASSUME TypeInv, Outside
    PROVE  TypeInv'
<1>1. /\ StoreInv /\ WorkersInv /\ posted \in Nat /\ Len(script) \in Nat
      /\ posted \in 0..Len(script)
  BY PostedIsNatural DEF TypeInv, StoreInv
<1>2. /\ UNCHANGED WorkerVars /\ UNCHANGED <<mode, script>>
      /\ posted' \in 0..Len(script) /\ posted <= posted'
      /\ UNCHANGED <<deliveries, restarts, dispatched>>
  BY <1>1 DEF Outside, Posts, IsIndexed, Agrees, PinExpires, WorkerVars, slackVars
<1>3. WorkersInv'
  BY <1>1, <1>2, WorkersIdleBy
<1>4. CASE Posts
  <2>1. UNCHANGED <<indexed, agreed, pin, expiries>>
    BY <1>4 DEF Posts, redisVars
  <2>2. PinsAreKickoffs'
    BY <1>1, <1>2, <2>1 DEF StoreInv, PinsAreKickoffs, KickedOff, Root
  <2>3. \A d \in dispatched' : d.m \in 1..posted' /\ d.type \in EventTypes
    BY <1>1, <1>2 DEF StoreInv
  <2>4. StoreInv'
    BY <1>1, <1>2, <2>1, <2>2, <2>3 DEF StoreInv
  <2>5. QED
    BY <1>3, <2>4 DEF TypeInv
<1>5. ASSUME NEW u \in User \ Bots, IsIndexed(u) \/ Agrees(u)
      PROVE  TypeInv'
  <2>1. /\ indexed' \subseteq User \ Bots /\ agreed' \subseteq User \ Bots
        /\ UNCHANGED <<mode, slackVars, pin, expiries, restarts, dispatched>>
    BY <1>1, <1>5 DEF IsIndexed, Agrees, StoreInv
  <2>2. StoreInv'
    BY <1>1, <2>1 DEF StoreInv, slackVars, PinsAreKickoffs, KickedOff, Root
  <2>3. QED
    BY <1>3, <2>2 DEF TypeInv
<1>6. ASSUME NEW m \in 1..Len(script), PinExpires(m)
      PROVE  TypeInv'
  <2>1. /\ pin' = [pin EXCEPT ![m] = NoKey] /\ expiries' = expiries + 1
        /\ expiries < MaxExpiries /\ MaxExpiries \in Nat
        /\ UNCHANGED <<mode, slackVars, indexed, agreed, restarts, dispatched>>
    BY <1>6, ThreadsAssumption DEF PinExpires
  <2>2. /\ pin' \in [1..Len(script) -> Employee \cup {NoKey}]
        /\ expiries' \in 0..MaxExpiries
    BY <1>1, <2>1 DEF StoreInv
  <2>3. PinsAreKickoffs'
    BY <1>1, <2>1 DEF StoreInv, slackVars, PinsAreKickoffs, KickedOff, Root
  <2>4. StoreInv'
    BY <1>1, <2>1, <2>2, <2>3 DEF StoreInv, slackVars
  <2>5. QED
    BY <1>3, <2>4 DEF TypeInv
<1>7. QED
  BY <1>4, <1>5, <1>6 DEF Outside

(* The process restarts. *)
LEMMA RestartKeeps ==
    ASSUME TypeInv, Restarts
    PROVE  TypeInv'
<1>1. StoreInv /\ WorkersInv /\ posted \in Nat
  BY PostedIsNatural DEF TypeInv
<1>2. /\ pc' = [w \in Workers |-> "idle"] /\ job' = [w \in Workers |-> NoJob]
      /\ in' = [w \in Workers |-> NoInput] /\ history' = [w \in Workers |-> "none"]
      /\ decision' = [w \in Workers |-> NoDecision]
      /\ UNCHANGED <<mode, slackVars, redisVars, dispatched>>
      /\ restarts' = restarts + 1 /\ restarts < MaxRestarts /\ MaxRestarts \in Nat
  BY ThreadsAssumption DEF Restarts
<1>3. WorkersInv'
  <2>1. NoJob \in [m : 0..posted', type : EventTypes] /\ NoInput.ts = NoJob.m
    BY <1>1, <1>2 DEF NoJob, NoInput, EventTypes, slackVars
  <2>2. \A w \in Workers : Building(w)'
    BY <1>2 DEF Building
  <2>3. EachWorker(in)' /\ EachWorker(decision)'
    BY <1>2 DEF EachWorker
  <2>4. /\ pc' \in [Workers -> Places]
        /\ job' \in [Workers -> [m : 0..posted', type : EventTypes]]
        /\ history' \in [Workers -> {"none", "read", "failed"}]
    BY <1>2, <2>1 DEF Places
  <2>5. \A w \in Workers : /\ job'[w] = NoJob <=> pc'[w] = "idle"
                           /\ in'[w].ts = job'[w].m
    BY <1>2, <2>1
  <2>6. QED
    BY <2>2, <2>3, <2>4, <2>5 DEF WorkersInv
<1>4. StoreInv'
  <2>1. restarts' \in 0..MaxRestarts
    BY <1>1, <1>2 DEF StoreInv
  <2>2. QED
    BY <1>1, <1>2, <2>1 DEF StoreInv, slackVars, redisVars, PinsAreKickoffs, KickedOff, Root
<1>5. QED
  BY <1>3, <1>4 DEF TypeInv

(* The invariant holds when the process starts. *)
LEMMA TypeAtStart ==
    ASSUME Init
    PROVE  TypeInv
<1>1. script \in Scripts /\ Len(script) \in Nat
  BY ScriptFacts DEF Init
<1>2. WorkersInv
  <2>1. NoJob \in [m : 0..posted, type : EventTypes] /\ NoInput.ts = NoJob.m
    BY DEF NoJob, NoInput, EventTypes, Init
  <2>2. \A w \in Workers : Building(w)
    BY DEF Building, Init
  <2>3. EachWorker(in) /\ EachWorker(decision)
    BY DEF EachWorker, Init
  <2>4. /\ pc \in [Workers -> Places]
        /\ job \in [Workers -> [m : 0..posted, type : EventTypes]]
        /\ history \in [Workers -> {"none", "read", "failed"}]
    BY <2>1 DEF Places, Init
  <2>5. \A w \in Workers : /\ job[w] = NoJob <=> pc[w] = "idle"
                           /\ in[w].ts = job[w].m
    BY <2>1 DEF Init
  <2>6. QED
    BY <2>2, <2>3, <2>4, <2>5 DEF WorkersInv
<1>3. StoreInv
  <2>1. {MaxDeliveries, MaxExpiries, MaxRestarts} \subseteq Nat
    BY ThreadsAssumption
  <2>2. /\ posted \in 0..Len(script) /\ expiries \in 0..MaxExpiries
        /\ restarts \in 0..MaxRestarts
    BY <1>1, <2>1 DEF Init
  <2>3. /\ deliveries \in [(1..Len(script)) \X EventTypes -> 0..MaxDeliveries]
        /\ pin \in [1..Len(script) -> Employee \cup {NoKey}]
        /\ PinsAreKickoffs
    BY <2>1 DEF Init, PinsAreKickoffs
  <2>4. QED
    BY <2>2, <2>3 DEF StoreInv, Init
<1>4. QED
  BY <1>2, <1>3 DEF TypeInv

(* All that an idle worker can do is take the next event or drop it. *)
LEMMA IdleActs ==
    ASSUME NEW w \in Workers, pc[w] = "idle", Worker(w)
    PROVE  \E m \in 1..Len(script), type \in EventTypes :
               Takes(w, m, type) \/ Drops(w, m, type)
BY DEF Worker, ReadsHistory, HistoryFails, ReadsPin, PinReadFails, FindsUser,
       FindsAcceptance, Bypasses, Refuses, FindsNone, Decides, SetsPin, PinSetFails,
       Dispatches, At

(* Every step preserves the invariant. *)
LEMMA TypeStep ==
    ASSUME TypeInv, [Next]_vars
    PROVE  TypeInv'
<1>1. CASE Outside
  BY <1>1, OutsideKeeps
<1>2. ASSUME NEW w \in Workers, Worker(w), pc[w] # "idle"
      PROVE  TypeInv'
  BY <1>2, BusyKeepsWorkers, BusyKeepsStore DEF TypeInv
<1>3. ASSUME NEW w \in Workers, Worker(w), pc[w] = "idle"
      PROVE  TypeInv'
  <2>1. PICK m \in 1..Len(script), type \in EventTypes :
            Takes(w, m, type) \/ Drops(w, m, type)
    BY <1>3, IdleActs
  <2>2. StoreInv'
    BY <2>1, DeliveryKeepsStore
  <2>3. CASE Takes(w, m, type)
    BY <2>2, <2>3, TakesKeepsWorkers DEF TypeInv
  <2>4. CASE Drops(w, m, type)
    <3>1. UNCHANGED WorkerVars /\ UNCHANGED <<mode, script, posted>>
      BY <2>4 DEF Drops, WorkerVars
    <3>2. WorkersInv /\ posted \in Nat /\ posted' \in Nat /\ posted <= posted'
      BY <3>1, PostedIsNatural DEF TypeInv
    <3>3. WorkersInv'
      BY <3>1, <3>2, WorkersIdleBy
    <3>4. QED
      BY <2>2, <3>3 DEF TypeInv
  <2>5. QED
    BY <2>1, <2>3, <2>4
<1>4. CASE Restarts
  BY <1>4, RestartKeeps
<1>5. CASE UNCHANGED vars
  <2>1. /\ UNCHANGED WorkerVars /\ UNCHANGED <<mode, script, posted>>
        /\ UNCHANGED <<mode, slackVars, redisVars, restarts, dispatched>>
    BY <1>5 DEF vars, WorkerVars, slackVars
  <2>2. WorkersInv /\ StoreInv /\ posted \in Nat /\ posted' \in Nat /\ posted <= posted'
    BY <2>1, PostedIsNatural DEF TypeInv
  <2>3. WorkersInv'
    BY <2>1, <2>2, WorkersIdleBy
  <2>4. QED
    BY <2>1, <2>2, <2>3, StoreKept DEF TypeInv
<1>6. QED
  BY <1>1, <1>2, <1>3, <1>4, <1>5 DEF Next

(* So it holds throughout. *)
LEMMA TypeAlways == Spec => []TypeInv
<1>1. Init => TypeInv
  BY TypeAtStart
<1>2. TypeInv /\ [Next]_vars => TypeInv'
  BY TypeStep
<1>3. QED
  BY <1>1, <1>2, PTL DEF Spec

(* Every variable keeps to its values, TypeOK, for every script, roster    *)
(* and number of workers; that a pin always names an employee is the part  *)
(* that does not go without saying.                                        *)
THEOREM TypeCorrect == Spec => []TypeOK
<1>1. TypeInv => TypeOK
  BY DEF TypeInv, WorkersInv, StoreInv, TypeOK, Places
<1>2. QED
  BY <1>1, TypeAlways, PTL

(* PinNamesKickoff: whichever worker is late, whichever pin has expired    *)
(* and whoever restarts, a pin is on the root of a thread and names the    *)
(* employee that the root told to start a skill.                           *)
THEOREM PinsNameTheirKickoff == Spec => []PinNamesKickoff
<1>1. TypeInv => PinNamesKickoff
  <2> SUFFICES ASSUME TypeInv, NEW m \in DOMAIN pin, pin[m] # NoKey
               PROVE  /\ m <= posted /\ Root(m) = m
                      /\ script[m].text.broadcast = "none"
                      /\ Mentioned(script[m].text) # {}
                      /\ Classify(SaidToFirst(script[m].text)) \in PinnedTools
                      /\ pin[m] = FirstMentioned(script[m].text)
    BY DEF PinNamesKickoff
  <2>1. m \in 1..Len(script) /\ posted \in Nat
    BY PostedIsNatural DEF TypeInv, StoreInv
  <2>2. KickedOff(m, pin[m])
    BY <2>1 DEF TypeInv, StoreInv, PinsAreKickoffs
  <2>3. QED
    BY <2>1, <2>2 DEF KickedOff
<1>2. QED
  BY <1>1, TypeAlways, PTL
------------------------------------------------------------------------------
(* The terms gate. *)

(* Both records only grow, so nobody who was cleared is held back later. *)
LEMMA ClearedKept ==
    ASSUME UNCHANGED <<mode, script>>, indexed \subseteq indexed', agreed \subseteq agreed',
           NEW w \in Workers, pc'[w] = pc[w], job'[w] = job[w], in'[w] = in[w],
           Cleared(w)
    PROVE  Cleared(w)'
<1>1. in[w].author \in indexed \cap agreed => in[w].author \in indexed' \cap agreed'
  OBVIOUS
<1>2. QED
  BY <1>1 DEF Cleared, RedisOn

(* What was let through remains justified, as the records of acceptance    *)
(* only grow.                                                              *)
LEMMA GateKept ==
    ASSUME TermsGate, UNCHANGED <<mode, script, dispatched>>,
           indexed \subseteq indexed', agreed \subseteq agreed'
    PROVE  TermsGate'
BY DEF TermsGate, RedisOn, TextOf

(* A worker's step preserves the invariant if that worker is right after it. *)
LEMMA TermsKept ==
    ASSUME TermsInv, TypeInv', NEW w \in Workers, OnlyMoves(w),
           UNCHANGED <<mode, script, indexed, agreed>>, Cleared(w)', TermsGate'
    PROVE  TermsInv'
<1>1. ASSUME NEW v \in Workers
      PROVE  Cleared(v)'
  <2>1. CASE v = w
    BY <2>1
  <2>2. CASE v # w
    <3>1. pc'[v] = pc[v] /\ job'[v] = job[v] /\ in'[v] = in[v]
      BY <2>2 DEF TermsInv, TypeInv, WorkersInv, OnlyMoves, EachWorker
    <3>2. Cleared(v)
      BY DEF TermsInv
    <3>3. QED
      BY <3>1, <3>2, ClearedKept
  <2>3. QED
    BY <2>1, <2>2
<1>2. QED
  BY <1>1 DEF TermsInv

(* Whoever need not ask for the terms goes on to the decision. *)
LEMMA BeforeTermsClears ==
    ASSUME NEW i, NEW type \in EventTypes, RedisOn, BeforeTerms(i, type) = "decide"
    PROVE  type = "message" /\ script[i.ts].bot
BY DEF BeforeTerms, AsksTerms, EventTypes

(* A worker with an event preserves it: nothing reaches the decision but   *)
(* by the record, by the bypass or past the gate, and so nothing else is   *)
(* dispatched.                                                             *)
LEMMA BusyKeepsTerms ==
    ASSUME TermsInv, TypeInv', NEW w \in Workers, pc[w] # "idle", Worker(w)
    PROVE  TermsInv'
<1>1. /\ OnlyMoves(w) /\ UNCHANGED <<mode, script, posted, indexed, agreed>>
      /\ pc \in [Workers -> Places] /\ EachWorker(in) /\ EachWorker(decision)
      /\ EachWorker(job) /\ TermsGate
  BY OneWorkerMoves DEF TermsInv, TypeInv, WorkersInv, EachWorker
<1>2. /\ pc[w] \in {"history", "pin"} => job[w].type = "message"
      /\ in[w].bypass => AsksForTerms(in[w])
      /\ RedisOn /\ pc[w] = "profile" => in[w].author \in indexed
      /\ RedisOn /\ pc[w] \in {"decide", "pin_set", "dispatch"} =>
             \/ in[w].bypass
             \/ job[w].type = "message" /\ script[job[w].m].bot
             \/ in[w].author \in indexed \cap agreed
  BY DEF TermsInv, Cleared
<1>3. RedisOn' = RedisOn
  BY <1>1 DEF RedisOn
<1>4. \A i : RedisOn /\ BeforeTerms(i, "message") = "decide" => script[i.ts].bot
  BY BeforeTermsClears DEF EventTypes
<1>5. \A i : RedisOn /\ BeforePin(i, "message") = "decide" => script[i.ts].bot
  BY <1>4 DEF BeforePin
<1>6. \A i : /\ BeforeTerms(i, "message") \in {"index", "decide"}
             /\ BeforePin(i, "message") \in {"pin", "index", "decide"}
  BY DEF BeforePin, BeforeTerms
<1>7. /\ job[w].m \in 1..posted /\ in[w] \in Inputs(job[w].m)
      /\ in[w].author = script[job[w].m].author /\ in[w].text = script[job[w].m].text
      /\ in[w].ts = job[w].m
  BY ReadsAreInputs DEF Inputs, TermsInv
<1>8. CASE ReadsHistory(w)
  <2> DEFINE i == [in[w] EXCEPT
                      !.handoff = LastSquadHandoffKey(OlderInPage(job[w].m),
                                                      Root(job[w].m)),
                      !.rootCreated = script[Root(job[w].m)].text.form = "created"]
  <2>1. /\ in'[w] = i /\ pc'[w] = BeforePin(i, "message") /\ job'[w] = job[w]
        /\ dispatched' = dispatched /\ job[w].type = "message"
    BY <1>1, <1>2, <1>8 DEF ReadsHistory, Goto, EachWorker, At
  <2>2. /\ i.author = in[w].author /\ i.bypass = in[w].bypass /\ i.text = in[w].text
        /\ i.ts = job[w].m
    BY <1>7 DEF Inputs
  <2> HIDE DEF i
  <2>3. Cleared(w)'
    BY <1>1, <1>2, <1>3, <1>5, <1>6, <2>1, <2>2 DEF Cleared, AsksForTerms
  <2>4. TermsGate'
    BY <1>1, <2>1, GateKept
  <2>5. QED
    BY <1>1, <2>3, <2>4, TermsKept
<1>9. CASE HistoryFails(w)
  <2>1. /\ in'[w] = in[w] /\ pc'[w] = BeforePin(in[w], "message") /\ job'[w] = job[w]
        /\ dispatched' = dispatched /\ job[w].type = "message"
    BY <1>1, <1>2, <1>9 DEF HistoryFails, Goto, At
  <2>2. Cleared(w)'
    BY <1>1, <1>2, <1>3, <1>5, <1>6, <1>7, <2>1 DEF Cleared
  <2>3. TermsGate'
    BY <1>1, <2>1, GateKept
  <2>4. QED
    BY <1>1, <2>2, <2>3, TermsKept
<1>10. CASE ReadsPin(w) \/ PinReadFails(w)
  <2>1. /\ in'[w].author = in[w].author /\ in'[w].text = in[w].text
        /\ in'[w].bypass = in[w].bypass
        /\ pc'[w] = BeforeTerms(in[w], "message") /\ job'[w] = job[w]
        /\ dispatched' = dispatched /\ job[w].type = "message"
    BY <1>1, <1>2, <1>7, <1>10 DEF ReadsPin, PinReadFails, Goto, EachWorker, Inputs, At
  <2>2. Cleared(w)'
    BY <1>1, <1>2, <1>3, <1>4, <1>6, <1>7, <2>1 DEF Cleared, AsksForTerms
  <2>3. TermsGate'
    BY <1>1, <2>1, GateKept
  <2>4. QED
    BY <1>1, <2>2, <2>3, TermsKept
<1>11. CASE FindsUser(w) \/ FindsAcceptance(w)
  <2>1. /\ in'[w] = in[w] /\ job'[w] = job[w] /\ dispatched' = dispatched
        /\ \/ pc'[w] = "profile" /\ in[w].author \in indexed
           \/ pc'[w] = "decide" /\ pc[w] = "profile" /\ in[w].author \in agreed
    BY <1>1, <1>11 DEF FindsUser, FindsAcceptance, Goto, At
  <2>2. Cleared(w)'
    BY <1>1, <1>2, <1>3, <2>1 DEF Cleared
  <2>3. TermsGate'
    BY <1>1, <2>1, GateKept
  <2>4. QED
    BY <1>1, <2>2, <2>3, TermsKept
<1>12. CASE Bypasses(w)
  <2>1. /\ in'[w].text = in[w].text /\ in'[w].author = in[w].author
        /\ in'[w].bypass /\ job'[w] = job[w]
        /\ dispatched' = dispatched /\ pc'[w] = "decide" /\ AsksForTerms(in[w])
    BY <1>1, <1>7, <1>12 DEF Bypasses, FindsNone, Goto, EachWorker, Inputs
  <2>2. Cleared(w)'
    BY <2>1 DEF Cleared, AsksForTerms
  <2>3. TermsGate'
    BY <1>1, <2>1, GateKept
  <2>4. QED
    BY <1>1, <2>2, <2>3, TermsKept
<1>13. CASE Decides(w) \/ SetsPin(w) \/ PinSetFails(w)
  <2>1. /\ in'[w] = in[w] /\ job'[w] = job[w] /\ dispatched' = dispatched
        /\ pc'[w] \in {"pin_set", "dispatch"} /\ pc[w] \in {"decide", "pin_set"}
    BY <1>1, <1>13 DEF Decides, SetsPin, PinSetFails, Goto, At
  <2>2. Cleared(w)'
    BY <1>1, <1>2, <1>3, <2>1 DEF Cleared
  <2>3. TermsGate'
    BY <1>1, <2>1, GateKept
  <2>4. QED
    BY <1>1, <2>2, <2>3, TermsKept
<1>14. CASE Refuses(w)
  <2>1. pc'[w] = "idle" /\ dispatched' = dispatched
    BY <1>1, <1>14 DEF Refuses, FindsNone, Returns, Goto
  <2>2. Cleared(w)'
    BY <2>1 DEF Cleared
  <2>3. TermsGate'
    BY <1>1, <2>1, GateKept
  <2>4. QED
    BY <1>1, <2>2, <2>3, TermsKept
<1>15. CASE Dispatches(w)
  <2> DEFINE d == [m |-> job[w].m, type |-> job[w].type, history |-> history[w],
                   handoff |-> in[w].handoff, bypass |-> in[w].bypass,
                   decision |-> decision[w]]
  <2>1. pc'[w] = "idle" /\ pc[w] = "dispatch" /\ dispatched' \subseteq dispatched \cup {d}
    BY <1>1, <1>15 DEF Dispatches, Returns, Goto, At
  <2>2. Cleared(w)'
    BY <2>1 DEF Cleared
  <2>3. decision[w] = Decide(in[w])
    BY <2>1 DEF TermsInv, TypeInv, WorkersInv, Building
  <2>4. in[w].bypass => /\ decision[w].employees = <<Joanne>>
                        /\ decision[w].tool = UpdateTerms
    BY <2>3 DEF Decide, Single
  <2>5. d.m = job[w].m /\ d.type = job[w].type /\ d.decision = decision[w]
    OBVIOUS
  <2> HIDE DEF d
  <2>6. RedisOn => \/ script[d.m].author \in indexed \cap agreed
                   \/ d.type = "message" /\ script[d.m].bot
                   \/ /\ TextOf(d).terms /\ TextOf(d).broadcast = "none"
                      /\ script[d.m].author # NoUser
                      /\ d.decision.employees = <<Joanne>>
                      /\ d.decision.tool = UpdateTerms
    BY <1>2, <1>7, <2>1, <2>4, <2>5 DEF TextOf, AsksForTerms
  <2>7. TermsGate'
    BY <1>1, <1>3, <2>1, <2>6 DEF TermsGate, TextOf
  <2>8. QED
    BY <1>1, <2>2, <2>7, TermsKept
<1>16. ASSUME NEW m, NEW type, Takes(w, m, type) \/ Drops(w, m, type)
       PROVE  FALSE
  BY <1>16 DEF Takes, Drops, At
<1>17. QED
  BY <1>8, <1>9, <1>10, <1>11, <1>12, <1>13, <1>14, <1>15, <1>16 DEF Worker

(* What goes on outside, and a step that changes nothing. *)
LEMMA TermsGoOn ==
    ASSUME TermsInv, TypeInv', UNCHANGED WorkerVars, UNCHANGED <<mode, script, dispatched>>,
           indexed \subseteq indexed', agreed \subseteq agreed'
    PROVE  TermsInv'
<1>1. pc' = pc /\ job' = job /\ in' = in
  BY DEF WorkerVars
<1>2. \A w \in Workers : Cleared(w)'
  BY <1>1, ClearedKept DEF TermsInv
<1>3. TermsGate'
  BY GateKept DEF TermsInv
<1>4. QED
  BY <1>2, <1>3 DEF TermsInv

(* Every step preserves it. *)
LEMMA TermsStep ==
    ASSUME TermsInv, [Next]_vars
    PROVE  TermsInv'
<1>1. TypeInv'
  BY TypeStep DEF TermsInv
<1>2. CASE Outside \/ UNCHANGED vars
  <2>1. /\ UNCHANGED WorkerVars /\ UNCHANGED <<mode, script, dispatched>>
        /\ indexed \subseteq indexed' /\ agreed \subseteq agreed'
    BY <1>2 DEF Outside, Posts, IsIndexed, Agrees, PinExpires, vars, WorkerVars,
                slackVars, redisVars
  <2>2. QED
    BY <1>1, <2>1, TermsGoOn
<1>3. ASSUME NEW w \in Workers, Worker(w), pc[w] # "idle"
      PROVE  TermsInv'
  BY <1>1, <1>3, BusyKeepsTerms
<1>4. ASSUME NEW w \in Workers, Worker(w), pc[w] = "idle"
      PROVE  TermsInv'
  <2>1. PICK m \in 1..Len(script), type \in EventTypes :
            Takes(w, m, type) \/ Drops(w, m, type)
    BY <1>4, IdleActs
  <2>2. CASE Takes(w, m, type)
    <3>1. /\ OnlyMoves(w) /\ UNCHANGED <<mode, script, posted, indexed, agreed>>
          /\ dispatched' = dispatched
      BY <1>4, <2>2, OneWorkerMoves DEF Takes, TermsInv, TypeInv
    <3>2. /\ pc'[w] = FirstStep(Input(m), type)
          /\ job'[w] = [m |-> m, type |-> type] /\ in'[w] = Input(m)
      BY <2>2 DEF TermsInv, TypeInv, WorkersInv, EachWorker, Takes, Goto
    <3>3. ~Input(m).bypass
      BY DEF Input
    <3>4. FirstStep(Input(m), type) \in {"history", "pin"} => type = "message"
      BY DEF FirstStep, BeforePin, BeforeTerms
    <3>5. /\ FirstStep(Input(m), type) \in {"history", "pin", "index", "decide"}
          /\ RedisOn /\ FirstStep(Input(m), type) = "decide" =>
                 type = "message" /\ script[m].bot
      BY BeforeTermsClears DEF FirstStep, BeforePin, BeforeTerms, AsksTerms, Input
    <3>6. Cleared(w)'
      BY <3>1, <3>2, <3>3, <3>4, <3>5 DEF Cleared, RedisOn
    <3>7. TermsGate'
      BY <3>1, GateKept DEF TermsInv
    <3>8. QED
      BY <1>1, <3>1, <3>6, <3>7, TermsKept
  <2>3. CASE Drops(w, m, type)
    <3>1. /\ UNCHANGED WorkerVars /\ UNCHANGED <<mode, script, dispatched>>
          /\ indexed \subseteq indexed' /\ agreed \subseteq agreed'
      BY <2>3 DEF Drops, WorkerVars, redisVars
    <3>2. QED
      BY <1>1, <3>1, TermsGoOn
  <2>4. QED
    BY <2>1, <2>2, <2>3
<1>5. CASE Restarts
  <2>1. \A w \in Workers : Cleared(w)'
    BY <1>5 DEF Restarts, Cleared
  <2>2. /\ UNCHANGED <<mode, script, dispatched>>
        /\ indexed \subseteq indexed' /\ agreed \subseteq agreed'
    BY <1>5 DEF Restarts, slackVars, redisVars
  <2>3. TermsGate'
    BY <2>2, GateKept DEF TermsInv
  <2>4. QED
    BY <1>1, <2>1, <2>3 DEF TermsInv
<1>6. QED
  BY <1>2, <1>3, <1>4, <1>5 DEF Next

(* TermsGate: until a human's acceptance is on record, whatever that human *)
(* writes reaches nobody but Joanne, and her only to update the terms, for *)
(* either event of the message and however the reads interleave.           *)
THEOREM TermsAreGated == Spec => []TermsGate
<1>1. Init => TermsInv
  <2> SUFFICES ASSUME Init
               PROVE  TermsInv
    OBVIOUS
  <2>1. TypeInv
    BY TypeAtStart
  <2>2. (\A w \in Workers : Cleared(w)) /\ TermsGate
    BY DEF Init, Cleared, TermsGate
  <2>3. QED
    BY <2>1, <2>2 DEF TermsInv
<1>2. TermsInv /\ [Next]_vars => TermsInv'
  BY TermsStep
<1>3. TermsInv => TermsGate
  BY DEF TermsInv
<1>4. QED
  BY <1>1, <1>2, <1>3, PTL DEF Spec
------------------------------------------------------------------------------
(* One message, one answer. *)

(* What the thread says before a message does not change when more is      *)
(* posted,                                                                 *)
LEMMA HandoffIsStable ==
    ASSUME script' = script, script \in Scripts, posted \in Nat, posted' \in Nat,
           posted <= posted', NEW m \in 1..posted
    PROVE  HandoffOf(m)' = HandoffOf(m)
<1>1. Earlier(m)' = Earlier(m)
  BY PageIsStable
<1>2. OlderInPage(m) = MessagesAt(Earlier(m)) /\ OlderInPage(m)' = MessagesAt(Earlier(m))'
  BY DEF OlderInPage, Earlier
<1>3. MessagesAt(Earlier(m))' = MessagesAt(Earlier(m))
  BY <1>1 DEF MessagesAt
<1>4. Root(m)' = Root(m)
  BY DEF Root
<1>5. QED
  BY <1>2, <1>3, <1>4 DEF HandoffOf

(* so the grounds of an input hold for good. *)
LEMMA GroundsKept ==
    ASSUME script' = script, script \in Scripts, posted \in Nat, posted' \in Nat,
           posted <= posted', NEW m \in 1..posted, NEW i, NEW type, NEW asked,
           Grounds(i, m, type, asked)
    PROVE  Grounds(i, m, type, asked)'
<1>1. HandoffOf(m)' = HandoffOf(m) /\ Root(m)' = Root(m)
  BY HandoffIsStable DEF Root
<1>2. \A key : KickedOff(Root(m), key) => KickedOff(Root(m), key)'
  BY <1>1 DEF KickedOff, Root
<1>3. QED
  BY <1>1, <1>2 DEF Grounds

(* What was decided remains so, whatever is posted later. *)
LEMMA ReasonedKept ==
    ASSUME script' = script, script \in Scripts, posted \in Nat, posted' \in Nat,
           posted <= posted', NEW d, Reasoned(d)
    PROVE  Reasoned(d)'
<1>1. PICK i \in Inputs(d.m) : /\ Grounds(i, d.m, d.type, d.history)
                               /\ d.handoff = i.handoff /\ d.bypass = i.bypass
                               /\ d.decision = Decide(i)
  BY DEF Reasoned
<1>2. d.m \in 1..posted
  BY DEF Reasoned
<1> DEFINE m == d.m
<1>3. Grounds(i, m, d.type, d.history)'
  <2>1. Grounds(i, m, d.type, d.history)
    BY <1>1
  <2> HIDE DEF m
  <2>2. m \in 1..posted
    BY <1>2 DEF m
  <2>3. QED
    BY <2>1, <2>2, GroundsKept
<1>4. i \in Inputs(m)'
  BY <1>1 DEF Inputs
<1>5. Handles(m, d.type)' = Handles(m, d.type)
  BY DEF Handles, HandlesMessage, HandlesAppMention
<1>6. QED
  BY <1>1, <1>2, <1>3, <1>4, <1>5 DEF Reasoned

(* A worker that does nothing keeps the grounds of its input. *)
LEMMA InformedKept ==
    ASSUME script' = script, script \in Scripts, mode' = mode, posted \in Nat,
           posted' \in Nat, posted <= posted', NEW w \in Workers, pc'[w] = pc[w],
           job'[w] = job[w], in'[w] = in[w], history'[w] = history[w],
           pc[w] # "idle" => job[w].m \in 1..posted, Informed(w)
    PROVE  Informed(w)'
<1>1. Input(job[w].m)' = Input(job[w].m)
  BY DEF Input
<1>2. AsksPin(in[w])' = AsksPin(in[w])
  BY DEF AsksPin, RedisOn
<1>3. pc[w] \notin {"idle", "history"} =>
          Grounds(in[w], job[w].m, job[w].type, history[w])'
  <2> SUFFICES ASSUME pc[w] \notin {"idle", "history"}
               PROVE  Grounds(in[w], job[w].m, job[w].type, history[w])'
    OBVIOUS
  <2>1. /\ job[w].m \in 1..posted
        /\ Grounds(in[w], job[w].m, job[w].type, history[w])
    BY DEF Informed
  <2>2. PICK i, m, type, asked : /\ i = in[w] /\ m = job[w].m /\ type = job[w].type
                                 /\ asked = history[w]
    OBVIOUS
  <2>3. Grounds(i, m, type, asked) /\ m \in 1..posted
    BY <2>1, <2>2
  <2>4. Grounds(i, m, type, asked)'
    BY <2>3, GroundsKept
  <2>5. QED
    BY <2>2, <2>4
<1>4. QED
  BY <1>1, <1>2, <1>3 DEF Informed

(* A step of one worker keeps the others informed, and what was dispatched *)
(* reasoned.                                                               *)
LEMMA AnswersKept ==
    ASSUME AnswerInv, TypeInv', NEW w \in Workers, OnlyMoves(w),
           UNCHANGED <<mode, script, posted>>, Informed(w)',
           \A d \in dispatched' : d \notin dispatched => Reasoned(d)'
    PROVE  AnswerInv'
<1>1. /\ TypeInv /\ WorkersInv /\ script \in Scripts
      /\ posted \in Nat /\ posted' \in Nat /\ posted <= posted'
  BY PostedIsNatural DEF AnswerInv, TypeInv, StoreInv
<1>2. ASSUME NEW v \in Workers
      PROVE  Informed(v)'
  <2>1. CASE v = w
    BY <2>1
  <2>2. CASE v # w
    <3>1. /\ pc'[v] = pc[v] /\ job'[v] = job[v] /\ in'[v] = in[v]
          /\ history'[v] = history[v]
      BY <1>1, <2>2 DEF WorkersInv, OnlyMoves, EachWorker
    <3>2. Informed(v) /\ (pc[v] # "idle" => job[v].m \in 1..posted)
      BY <1>1, ReadsAreInputs DEF AnswerInv
    <3>3. QED
      BY <1>1, <3>1, <3>2, InformedKept
  <2>3. QED
    BY <2>1, <2>2
<1>3. ASSUME NEW d \in dispatched'
      PROVE  Reasoned(d)'
  <2>1. CASE d \in dispatched
    <3>1. Reasoned(d)
      BY <2>1 DEF AnswerInv
    <3>2. QED
      BY <1>1, <3>1, ReasonedKept
  <2>2. CASE d \notin dispatched
    BY <2>2
  <2>3. QED
    BY <2>1, <2>2
<1>4. QED
  BY <1>2, <1>3 DEF AnswerInv

(* And so does a step of none. *)
LEMMA AnswersGoOn ==
    ASSUME AnswerInv, TypeInv', UNCHANGED WorkerVars, UNCHANGED <<mode, script, dispatched>>,
           posted \in Nat, posted' \in Nat, posted <= posted'
    PROVE  AnswerInv'
<1>1. pc' = pc /\ job' = job /\ in' = in /\ history' = history
  BY DEF WorkerVars
<1>2. TypeInv /\ script \in Scripts
  BY DEF AnswerInv, TypeInv, StoreInv
<1>3. ASSUME NEW v \in Workers
      PROVE  Informed(v)'
  <2>1. Informed(v) /\ (pc[v] # "idle" => job[v].m \in 1..posted)
    BY <1>2, ReadsAreInputs DEF AnswerInv
  <2>2. QED
    BY <1>1, <1>2, <2>1, InformedKept
<1>4. ASSUME NEW d \in dispatched'
      PROVE  Reasoned(d)'
  <2>1. Reasoned(d)
    BY DEF AnswerInv
  <2>2. QED
    BY <1>2, <2>1, ReasonedKept
<1>5. QED
  BY <1>3, <1>4 DEF AnswerInv

(* Steps that leave a worker its input keep it informed. *)
LEMMA StaysInformed ==
    ASSUME AnswerInv, NEW w \in Workers, UNCHANGED <<mode, script, posted>>,
           pc[w] \notin {"idle", "history"}, pc'[w] \notin {"history", "pin"},
           job'[w] = job[w], history'[w] = history[w], in'[w].text = in[w].text,
           in'[w].thread = in[w].thread, in'[w].handoff = in[w].handoff,
           in'[w].rootCreated = in[w].rootCreated
    PROVE  Informed(w)'
<1>1. Grounds(in[w], job[w].m, job[w].type, history[w])
  BY DEF AnswerInv, Informed
<1>2. HandoffOf(job[w].m)' = HandoffOf(job[w].m) /\ Root(job[w].m)' = Root(job[w].m)
  <2>1. PICK m : m = job[w].m
    OBVIOUS
  <2>2. /\ m \in 1..posted /\ script \in Scripts
        /\ posted \in Nat /\ posted' \in Nat /\ posted <= posted'
    <3>1. TypeInv /\ script \in Scripts /\ pc[w] # "idle"
      BY DEF AnswerInv, TypeInv, StoreInv
    <3>2. posted \in Nat /\ posted' = posted
      BY <3>1, PostedIsNatural DEF TypeInv
    <3>3. job[w].m \in 1..posted
      BY <3>1, ReadsAreInputs
    <3>4. QED
      BY <2>1, <3>1, <3>2, <3>3
  <2>3. HandoffOf(m)' = HandoffOf(m)
    BY <2>2, HandoffIsStable
  <2>4. QED
    BY <2>1, <2>3 DEF Root
<1>3. Grounds(in[w], job[w].m, job[w].type, history[w])'
  BY <1>1, <1>2 DEF Grounds, AsksHistory, KickedOff, Root
<1>4. QED
  BY <1>3 DEF Informed

(* A worker with an event preserves the invariant: it reads the thread,    *)
(* the pin or neither, decides on that, and dispatches what it decided.    *)
LEMMA BusyKeepsAnswers ==
    ASSUME AnswerInv, TypeInv', NEW w \in Workers, pc[w] # "idle", Worker(w)
    PROVE  AnswerInv'
<1>1. /\ OnlyMoves(w) /\ UNCHANGED <<mode, script, posted>>
      /\ pc \in [Workers -> Places] /\ EachWorker(in) /\ EachWorker(decision)
      /\ EachWorker(job) /\ EachWorker(history)
  BY OneWorkerMoves DEF AnswerInv, TypeInv, WorkersInv, EachWorker
<1>2. /\ pc[w] = "history" => /\ in[w] = Input(job[w].m) /\ job[w].type = "message"
                              /\ AsksHistory(in[w])
      /\ pc[w] \notin {"idle", "history"} =>
             Grounds(in[w], job[w].m, job[w].type, history[w])
      /\ pc[w] = "pin" => job[w].type = "message" /\ AsksPin(in[w])
  BY DEF AnswerInv, Informed
<1>3. job[w].m \in 1..posted /\ in[w] \in Inputs(job[w].m)
  BY ReadsAreInputs DEF AnswerInv
<1>4. \A i : BeforePin(i, "message") = "pin" => AsksPin(i)
  BY DEF BeforePin, BeforeTerms
<1>5. \A i : /\ BeforeTerms(i, "message") \in {"index", "decide"}
             /\ BeforePin(i, "message") \in {"pin", "index", "decide"}
  BY DEF BeforePin, BeforeTerms
<1>6. job'[w] = job[w] => /\ HandoffOf(job[w].m)' = HandoffOf(job[w].m)
                          /\ Root(job[w].m)' = Root(job[w].m)
  <2>1. PICK m : m = job[w].m
    OBVIOUS
  <2>2. TypeInv /\ script \in Scripts
    BY DEF AnswerInv, TypeInv, StoreInv
  <2>3. posted \in Nat /\ posted' = posted /\ m \in 1..posted
    BY <1>1, <1>3, <2>1, <2>2, PostedIsNatural DEF TypeInv
  <2>4. HandoffOf(m)' = HandoffOf(m)
    BY <1>1, <2>2, <2>3, HandoffIsStable
  <2>5. QED
    BY <1>1, <2>1, <2>4 DEF Root
<1>7. AsksPin(in[w])' = AsksPin(in'[w])
  BY <1>1 DEF AsksPin, RedisOn
<1>8. CASE ReadsHistory(w)
  <2> DEFINE i == [in[w] EXCEPT
                      !.handoff = HandoffOf(job[w].m),
                      !.rootCreated = script[Root(job[w].m)].text.form = "created"]
  <2>1. /\ in'[w] = i /\ pc'[w] = BeforePin(i, "message") /\ job'[w] = job[w]
        /\ history'[w] = "read" /\ dispatched' = dispatched
        /\ job[w].type = "message" /\ AsksHistory(in[w])
    BY <1>1, <1>2, <1>8 DEF ReadsHistory, Goto, EachWorker, At, HandoffOf
  <2>2. /\ i.text = in[w].text /\ i.thread = in[w].thread
        /\ i.handoff = HandoffOf(job[w].m)
        /\ i.rootCreated = (script[Root(job[w].m)].text.form = "created")
    BY <1>3 DEF Inputs
  <2> HIDE DEF i
  <2>3. AsksHistory(i)
    BY <2>1, <2>2 DEF AsksHistory
  <2>4. Grounds(in[w], job[w].m, job[w].type, history[w])'
    BY <1>1, <1>6, <2>1, <2>2, <2>3 DEF Grounds
  <2>5. AsksPin(in[w])' = AsksPin(i)
    BY <1>7, <2>1
  <2>6. Informed(w)'
    BY <1>4, <1>5, <2>1, <2>4, <2>5 DEF Informed
  <2>7. QED
    BY <1>1, <2>1, <2>6, AnswersKept
<1>9. CASE HistoryFails(w)
  <2>1. /\ in'[w] = in[w] /\ pc'[w] = BeforePin(in[w], "message") /\ job'[w] = job[w]
        /\ history'[w] = "failed" /\ dispatched' = dispatched
        /\ job[w].type = "message" /\ AsksHistory(in[w]) /\ in[w] = Input(job[w].m)
    BY <1>1, <1>2, <1>9 DEF HistoryFails, Goto, EachWorker, At
  <2>2. in[w].handoff = NoKey /\ ~in[w].rootCreated
    BY <2>1 DEF Input
  <2>3. Grounds(in[w], job[w].m, job[w].type, history[w])'
    BY <1>1, <2>1, <2>2 DEF Grounds
  <2>4. AsksPin(in[w])' = AsksPin(in[w])
    BY <1>7, <2>1
  <2>5. Informed(w)'
    BY <1>4, <1>5, <2>1, <2>3, <2>4 DEF Informed
  <2>6. QED
    BY <1>1, <2>1, <2>5, AnswersKept
<1>10. CASE ReadsPin(w)
  <2> DEFINE key == pin[Root(job[w].m)]
             i == [in[w] EXCEPT !.handoff = key]
  <2>1. /\ in'[w] = i /\ pc'[w] = BeforeTerms(in[w], "message") /\ job'[w] = job[w]
        /\ history'[w] = history[w] /\ dispatched' = dispatched
        /\ job[w].type = "message" /\ AsksPin(in[w])
        /\ Grounds(in[w], job[w].m, job[w].type, history[w])
    BY <1>1, <1>2, <1>10 DEF ReadsPin, Goto, EachWorker, At
  <2>2. /\ i.text = in[w].text /\ i.thread = in[w].thread
        /\ i.handoff = key /\ i.rootCreated = in[w].rootCreated
    BY <1>3 DEF Inputs
  <2>3. in[w].handoff = NoKey /\ AsksHistory(in[w])
    BY <2>1 DEF AsksPin, AsksHistory
  <2>4. key = NoKey \/ KickedOff(Root(job[w].m), key)
    <3>1. Root(job[w].m) \in 1..Len(script)
      BY ReadsAreInputs DEF AnswerInv
    <3>2. QED
      BY <3>1 DEF AnswerInv, TypeInv, StoreInv, PinsAreKickoffs
  <2> HIDE DEF i, key
  <2>5. AsksHistory(i)
    BY <2>2, <2>3 DEF AsksHistory
  <2>6. Grounds(in[w], job[w].m, job[w].type, history[w])'
    <3>1. CASE key = NoKey
      BY <1>1, <1>6, <2>1, <2>2, <2>3, <2>5, <3>1 DEF Grounds, KickedOff, Root
    <3>2. CASE KickedOff(Root(job[w].m), key)
      BY <1>1, <1>6, <2>1, <2>2, <2>3, <2>5, <3>2 DEF Grounds, KickedOff, Root
    <3>3. QED
      BY <2>4, <3>1, <3>2
  <2>7. Informed(w)'
    BY <1>5, <2>1, <2>6 DEF Informed
  <2>8. QED
    BY <1>1, <2>1, <2>7, AnswersKept
<1>11. CASE PinReadFails(w) \/ FindsUser(w) \/ FindsAcceptance(w) \/ Bypasses(w)
            \/ Decides(w) \/ SetsPin(w) \/ PinSetFails(w)
  <2>1. /\ in'[w].text = in[w].text /\ in'[w].thread = in[w].thread
        /\ in'[w].handoff = in[w].handoff /\ in'[w].rootCreated = in[w].rootCreated
    BY <1>1, <1>3, <1>11 DEF PinReadFails, FindsUser, FindsAcceptance, Bypasses, FindsNone,
                Decides, SetsPin, PinSetFails, EachWorker, Inputs
  <2>2. /\ pc[w] \notin {"idle", "history"} /\ pc'[w] \notin {"history", "pin"}
        /\ job'[w] = job[w] /\ history'[w] = history[w] /\ dispatched' = dispatched
    BY <1>1, <1>5, <1>11 DEF PinReadFails, FindsUser, FindsAcceptance, Bypasses, FindsNone,
                Decides, SetsPin, PinSetFails, Goto, At
  <2>3. Informed(w)'
    BY <1>1, <2>1, <2>2, StaysInformed
  <2>4. QED
    BY <1>1, <2>2, <2>3, AnswersKept
<1>12. CASE Refuses(w)
  <2>1. pc'[w] = "idle" /\ dispatched' = dispatched
    BY <1>1, <1>12 DEF Refuses, FindsNone, Returns, Goto
  <2>2. Informed(w)'
    BY <2>1 DEF Informed
  <2>3. QED
    BY <1>1, <2>1, <2>2, AnswersKept
<1>13. CASE Dispatches(w)
  <2> DEFINE d == [m |-> job[w].m, type |-> job[w].type, history |-> history[w],
                   handoff |-> in[w].handoff, bypass |-> in[w].bypass,
                   decision |-> decision[w]]
  <2>1. /\ pc'[w] = "idle" /\ pc[w] = "dispatch"
        /\ \/ dispatched' = dispatched
           \/ /\ dispatched' = dispatched \cup {d}
              /\ ~(ToSet(decision[w].employees) \subseteq {NoKey})
    BY <1>1, <1>13 DEF Dispatches, Returns, Goto, At
  <2>2. Informed(w)'
    BY <2>1 DEF Informed
  <2>3. /\ decision[w] = Decide(in[w]) /\ Handles(job[w].m, job[w].type)
        /\ job[w].type \in EventTypes
        /\ job[w].type = "app_mention" =>
               Orchestrator \in Mentions(script[job[w].m].text)
    BY <2>1 DEF AnswerInv, TypeInv, WorkersInv, Building
  <2>4. Grounds(in[w], job[w].m, job[w].type, history[w])
    BY <1>2, <2>1
  <2>5. /\ d.m = job[w].m /\ d.type = job[w].type /\ d.decision = decision[w]
        /\ d.history = history[w] /\ d.handoff = in[w].handoff /\ d.bypass = in[w].bypass
    OBVIOUS
  <2> HIDE DEF d
  <2>6. ~(ToSet(decision[w].employees) \subseteq {NoKey}) => Reasoned(d)
    BY <1>3, <2>3, <2>4, <2>5 DEF Reasoned
  <2>7. ASSUME NEW e \in dispatched', e \notin dispatched
        PROVE  Reasoned(e)'
    <3>1. e = d /\ Reasoned(e)
      BY <2>1, <2>6, <2>7
    <3>2. /\ script \in Scripts /\ posted \in Nat /\ posted' \in Nat /\ posted <= posted'
      BY <1>1, PostedIsNatural DEF AnswerInv, TypeInv, StoreInv
    <3>3. QED
      BY <1>1, <3>1, <3>2, ReasonedKept
  <2>8. QED
    BY <1>1, <2>2, <2>7, AnswersKept
<1>14. ASSUME NEW m, NEW type, Takes(w, m, type) \/ Drops(w, m, type)
       PROVE  FALSE
  BY <1>14 DEF Takes, Drops, At
<1>15. QED
  BY <1>8, <1>9, <1>10, <1>11, <1>12, <1>13, <1>14 DEF Worker

(* Every step preserves it. *)
LEMMA AnswerStep ==
    ASSUME AnswerInv, [Next]_vars
    PROVE  AnswerInv'
<1>1. /\ TypeInv /\ TypeInv' /\ posted \in Nat /\ Len(script) \in Nat
      /\ posted \in 0..Len(script)
  BY TypeStep, PostedIsNatural DEF AnswerInv, TypeInv, StoreInv
<1>2. CASE Outside \/ UNCHANGED vars
  <2>1. /\ UNCHANGED WorkerVars /\ UNCHANGED <<mode, script, dispatched>>
        /\ posted' \in Nat /\ posted <= posted'
    BY <1>1, <1>2 DEF Outside, Posts, IsIndexed, Agrees, PinExpires, vars, WorkerVars,
                      slackVars, redisVars
  <2>2. QED
    BY <1>1, <2>1, AnswersGoOn
<1>3. ASSUME NEW w \in Workers, Worker(w), pc[w] # "idle"
      PROVE  AnswerInv'
  BY <1>1, <1>3, BusyKeepsAnswers
<1>4. ASSUME NEW w \in Workers, Worker(w), pc[w] = "idle"
      PROVE  AnswerInv'
  <2>1. PICK m \in 1..Len(script), type \in EventTypes :
            Takes(w, m, type) \/ Drops(w, m, type)
    BY <1>4, IdleActs
  <2>2. CASE Takes(w, m, type)
    <3>1. /\ OnlyMoves(w) /\ UNCHANGED <<mode, script, posted>> /\ dispatched' = dispatched
      BY <1>1, <1>4, <2>2, OneWorkerMoves DEF Takes, TypeInv
    <3>2. /\ pc'[w] = FirstStep(Input(m), type)
          /\ job'[w] = [m |-> m, type |-> type] /\ in'[w] = Input(m)
      BY <1>1, <2>2 DEF TypeInv, WorkersInv, EachWorker, Takes, Goto
    <3>3. /\ job'[w].m = m /\ job'[w].type = type
          /\ Input(m).handoff = NoKey /\ ~Input(m).rootCreated
      BY <3>2 DEF Input
    <3>4. /\ FirstStep(Input(m), type) = "history" => type = "message" /\ AsksHistory(Input(m))
          /\ FirstStep(Input(m), type) # "history" =>
                 ~(type = "message" /\ AsksHistory(Input(m)))
          /\ FirstStep(Input(m), type) = "pin" => type = "message" /\ AsksPin(Input(m))
      BY DEF FirstStep, BeforePin, BeforeTerms
    <3>5. AsksPin(Input(m))' = AsksPin(Input(m)) /\ Input(m)' = Input(m)
      BY <3>1 DEF AsksPin, RedisOn, Input
    <3>6. pc'[w] # "history" => Grounds(in[w], job[w].m, job[w].type, history[w])'
      BY <3>2, <3>3, <3>4 DEF Grounds
    <3>7. pc'[w] = "history" => /\ in'[w] = Input(job[w].m)' /\ job'[w].type = "message"
                                /\ AsksHistory(in'[w])
      BY <3>1, <3>2, <3>3, <3>4 DEF Input
    <3>8. pc'[w] = "pin" => job'[w].type = "message" /\ AsksPin(in[w])'
      BY <3>1, <3>2, <3>3, <3>4 DEF AsksPin, RedisOn
    <3>9. Informed(w)'
      BY <3>6, <3>7, <3>8 DEF Informed
    <3>10. QED
      BY <1>1, <3>1, <3>9, AnswersKept
  <2>3. CASE Drops(w, m, type)
    <3>1. /\ UNCHANGED WorkerVars /\ UNCHANGED <<mode, script, dispatched, posted>>
      BY <2>3 DEF Drops, WorkerVars
    <3>2. QED
      BY <1>1, <3>1, AnswersGoOn
  <2>4. QED
    BY <2>1, <2>2, <2>3
<1>5. CASE Restarts
  <2>1. \A w \in Workers : Informed(w)'
    BY <1>5 DEF Restarts, Informed
  <2>2. /\ UNCHANGED <<script, posted, dispatched>> /\ script \in Scripts
    BY <1>1, <1>5 DEF Restarts, slackVars, TypeInv, StoreInv
  <2>3. \A d \in dispatched' : Reasoned(d)'
    BY <1>1, <2>2, ReasonedKept DEF AnswerInv
  <2>4. QED
    BY <1>1, <2>1, <2>3 DEF AnswerInv
<1>6. QED
  BY <1>2, <1>3, <1>4, <1>5 DEF Next

(* So it holds throughout. *)
LEMMA AnswerAlways == Spec => []AnswerInv
<1>1. Init => AnswerInv
  <2> SUFFICES ASSUME Init
               PROVE  AnswerInv
    OBVIOUS
  <2>1. TypeInv
    BY TypeAtStart
  <2>2. (\A w \in Workers : Informed(w)) /\ (\A d \in dispatched : Reasoned(d))
    BY DEF Init, Informed
  <2>3. QED
    BY <2>1, <2>2 DEF AnswerInv
<1>2. AnswerInv /\ [Next]_vars => AnswerInv'
  BY AnswerStep
<1>3. QED
  BY <1>1, <1>2, PTL DEF Spec

(* A root that was a kickoff, and that is no create-company post, is on    *)
(* the page of every reply and hands the thread over there.                *)
LEMMA KickoffHandsOver ==
    ASSUME TypeInv, NEW m \in 1..posted, Mentioned(script[m].text) = {}, NEW key,
           KickedOff(Root(m), key), script[Root(m)].text.form # "created"
    PROVE  Root(m) \in Handers(m)
<1> DEFINE r == Root(m)
<1>1. script \in Scripts /\ posted \in Nat /\ Len(script) \in Nat /\ posted <= Len(script)
  BY PostedIsNatural DEF TypeInv, StoreInv
<1>2. \A i \in 1..posted : Root(i) \in 1..i
  BY <1>1, ScriptFacts
<1>3. /\ r \in 1..posted /\ r < m /\ Root(r) = r /\ script[r].text \in Text
  <2>1. m \in 1..Len(script)
    BY <1>1
  <2>2. r \in 1..m /\ Root(r) = r /\ r \in 1..Len(script) /\ r # m
    BY <1>1, <2>1, ScriptFacts DEF KickedOff
  <2>3. QED
    BY <1>1, <2>2, ScriptFacts
<1>4. r \in ThreadOf(m)
  BY <1>3 DEF ThreadOf, KickedOff
<1>5. UpTo(ThreadOf(m), r) = {r}
  <2>1. ASSUME NEW i \in ThreadOf(m), i <= r
        PROVE  i = r
    <3>1. i \in 1..posted /\ Root(i) = r
      BY DEF ThreadOf
    <3>2. r \in 1..i
      BY <1>2, <3>1
    <3> HIDE DEF r
    <3>3. QED
      BY <1>1, <1>3, <2>1, <3>1, <3>2
  <2>2. r <= r
    BY <1>3
  <2> HIDE DEF r
  <2>3. QED
    BY <1>4, <2>1, <2>2 DEF UpTo
<1>6. Cardinality(UpTo(ThreadOf(m), r)) <= PageSize
  <2>1. Cardinality({r}) = 1
    BY FS_Singleton
  <2>2. 1 <= PageSize
    BY ThreadsAssumption
  <2>3. QED
    BY <1>5, <2>1, <2>2
<1>7. Occurrences(script[r].text) # <<>>
  <2>1. Mentioned(script[r].text) # {}
    BY DEF KickedOff
  <2>2. Len(Occurrences(script[r].text)) # 0
    BY <1>3, <2>1, MentionedKeys
  <2>3. QED
    BY <2>2, EmptySeq
<1>8. QED
  BY <1>3, <1>4, <1>6, <1>7 DEF Handers, Earlier, KickedOff

(* A plain message is read from one of its two events only: the filters    *)
(* take the message event just if nobody else is mentioned, and the other  *)
(* event exists just if the orchestrator is.                               *)
LEMMA PlainHasOneEvent ==
    ASSUME NEW m, script[m].text \in Text, Mentioned(script[m].text) = {},
           Handles(m, "message"), Orchestrator \in Mentions(script[m].text)
    PROVE  FALSE
<1> DEFINE text == script[m].text
<1>1. ~HasOnlyNonSquadMentions(text)
  BY DEF Handles, HandlesMessage
<1>2. Mentions(text) \cap Squad = {}
  BY MentionedKeys
<1>3. Mentions(text) = {}
  BY <1>1, <1>2 DEF HasOnlyNonSquadMentions
<1>4. QED
  BY <1>3

(* Whatever does not ask the thread is decided by the message alone. *)
LEMMA DecidedByTheMessage ==
    ASSUME NEW i, NEW j, i.text = j.text, i.author = j.author, i.ts = j.ts,
           i.thread = j.thread, ~i.bypass, ~j.bypass,
           \/ i.text.broadcast # "none" \/ Mentioned(i.text) # {}
           \/ i.handoff = j.handoff /\ i.rootCreated = j.rootCreated
    PROVE  Decide(i) = Decide(j)
<1>1. Broadcasts(i) = Broadcasts(j) /\ DecideMention(i) = DecideMention(j)
  BY DEF Broadcasts, DecideMention
<1>2. i.handoff = j.handoff /\ i.rootCreated = j.rootCreated
          => DecidePlain(i) = DecidePlain(j)
  BY DEF DecidePlain
<1>3. QED
  BY <1>1, <1>2 DEF Decide

(* Two answers to one message agree. *)
LEMMA AnswersAgree ==
    ASSUME AnswerInv, NEW c \in dispatched, NEW d \in dispatched, c.m = d.m,
           c.history # "failed", d.history # "failed", ~c.bypass, ~d.bypass
    PROVE  c.decision = d.decision
<1> DEFINE m == c.m
           text == script[m].text
<1>1. PICK i \in Inputs(m) : /\ Grounds(i, m, c.type, c.history)
                            /\ c.bypass = i.bypass /\ c.decision = Decide(i)
  BY DEF AnswerInv, Reasoned
<1>2. PICK j \in Inputs(m) : /\ Grounds(j, m, d.type, d.history)
                            /\ d.bypass = j.bypass /\ d.decision = Decide(j)
  BY DEF AnswerInv, Reasoned
<1>3. /\ m \in 1..posted /\ {c.type, d.type} \subseteq {"message", "app_mention"}
      /\ Handles(m, c.type) /\ Handles(m, d.type)
      /\ c.type = "app_mention" => Orchestrator \in Mentions(text)
      /\ d.type = "app_mention" => Orchestrator \in Mentions(text)
      /\ ~(ToSet(c.decision.employees) \subseteq {NoKey})
      /\ ~(ToSet(d.decision.employees) \subseteq {NoKey})
  BY DEF AnswerInv, Reasoned, EventTypes
<1>4. /\ script \in Scripts /\ m \in 1..Len(script) /\ posted \in 0..Len(script)
  BY <1>3, PostedIsNatural DEF AnswerInv, TypeInv, StoreInv
<1>5. text \in Text
  BY <1>4, ScriptFacts
<1> HIDE DEF m
<1>6. /\ i.text = text /\ j.text = text /\ i.author = j.author /\ i.ts = j.ts
      /\ i.thread = (script[m].thread # 0) /\ j.thread = (script[m].thread # 0)
      /\ ~i.bypass /\ ~j.bypass
      /\ i.rootCreated \in BOOLEAN /\ j.rootCreated \in BOOLEAN
  BY <1>1, <1>2 DEF Inputs
<1> HIDE DEF text
<1>7. SUFFICES ASSUME ~(i.handoff = j.handoff /\ i.rootCreated = j.rootCreated)
               PROVE  Decide(i) = Decide(j)
  BY <1>1, <1>2, <1>6, DecidedByTheMessage
<1>8. CASE text.broadcast # "none" \/ Mentioned(text) # {}
  BY <1>6, <1>8, DecidedByTheMessage
<1>9. CASE text.broadcast = "none" /\ Mentioned(text) = {}
  <2>1. AsksHistory(i) = i.thread /\ AsksHistory(j) = j.thread
    BY <1>6, <1>9 DEF AsksHistory
  <2>2. script[m].thread # 0 /\ (c.type = "message" \/ d.type = "message")
    <3>1. ~(c.type = "message" /\ AsksHistory(i)) => i.handoff = NoKey /\ ~i.rootCreated
      BY <1>1 DEF Grounds
    <3>2. ~(d.type = "message" /\ AsksHistory(j)) => j.handoff = NoKey /\ ~j.rootCreated
      BY <1>2 DEF Grounds, m
    <3>3. \/ c.type = "message" /\ AsksHistory(i)
          \/ d.type = "message" /\ AsksHistory(j)
      BY <1>6, <1>7, <3>1, <3>2
    <3>4. QED
      BY <1>6, <2>1, <3>3
  <2>3. c.type = "message" /\ d.type = "message"
    BY <1>3, <1>5, <1>9, <2>2, PlainHasOneEvent DEF text
  <2>4. /\ i.rootCreated = (script[Root(m)].text.form = "created")
        /\ j.rootCreated = (script[Root(m)].text.form = "created")
        /\ \/ i.handoff = HandoffOf(m)
           \/ HandoffOf(m) = NoKey /\ KickedOff(Root(m), i.handoff)
        /\ \/ j.handoff = HandoffOf(m)
           \/ HandoffOf(m) = NoKey /\ KickedOff(Root(m), j.handoff)
    BY <1>1, <1>2, <1>6, <2>1, <2>2, <2>3 DEF Grounds, m
  <2>5. HandoffOf(m) = NoKey /\ \E key : KickedOff(Root(m), key)
    BY <1>7, <2>4
  <2>6. script[Root(m)].text.form = "created"
    <3>1. SUFFICES ASSUME script[Root(m)].text.form # "created"
                   PROVE  FALSE
      OBVIOUS
    <3>2. Root(m) \in Handers(m)
      BY <1>3, <1>9, <2>5, <3>1, KickoffHandsOver DEF AnswerInv, text
    <3>3. HandoffOf(m) \in Employee
      BY <1>3, <1>4, <3>2, HandoffOfThread
    <3>4. QED
      BY <2>5, <3>3, RosterAssumption
  <2>7. \A k : k \in {i, j} /\ k.handoff = NoKey => Decide(k) = NoDecision
    <3>1. ASSUME NEW k, k \in {i, j}, k.handoff = NoKey
          PROVE  Decide(k) = NoDecision
      <4>1. /\ k.text = text /\ ~k.bypass /\ k.thread /\ k.rootCreated
            /\ k.handoff = NoKey
        BY <1>6, <2>2, <2>4, <2>6, <3>1
      <4>2. QED
        BY <1>9, <4>1 DEF Decide, DecidePlain
    <3>2. QED
      BY <3>1
  <2>8. ToSet(NoDecision.employees) = {}
    BY DEF NoDecision, ToSet
  <2>9. i.handoff # NoKey /\ j.handoff # NoKey
    BY <1>1, <1>2, <1>3, <2>7, <2>8
  <2>10. i.handoff = j.handoff
    BY <2>4, <2>9 DEF KickedOff
  <2>11. QED
    BY <1>7, <2>4, <2>10
<1>10. QED
  BY <1>8, <1>9

(* SameMessageSameAnswer: an event delivered twice, and the two events of  *)
(* a message that mentions the orchestrator, are decided alike whenever    *)
(* and by whichever worker they are handled.                               *)
THEOREM OneAnswerPerMessage == Spec => []SameMessageSameAnswer
<1>1. AnswerInv => SameMessageSameAnswer
  BY AnswersAgree DEF SameMessageSameAnswer
<1>2. QED
  BY <1>1, AnswerAlways, PTL
------------------------------------------------------------------------------
(* Follow-ups, while a thread fits the page that the worker reads. *)

(* No thread of a script is longer than a page, and no text mentions more  *)
(* than the bound of the property.                                         *)
ThreadsFit ==
    \A posts \in Scripts : \A m \in 1..Len(posts) :
        /\ Len(posts[m].text.words) <= MaxWords
        /\ Cardinality({i \in 1..Len(posts) : i = m \/ posts[i].thread = m}) <= PageSize

(* Then the page holds all that was said in the thread before a message.   *)
LEMMA PageIsWhole ==
    ASSUME ThreadsFit, TypeInv, NEW m \in 1..posted
    PROVE  Earlier(m) = {i \in 1..(m - 1) : Root(i) = Root(m) /\ ~script[i].notice}
<1>1. script \in Scripts /\ posted \in Nat /\ Len(script) \in Nat /\ posted <= Len(script)
  BY PostedIsNatural DEF TypeInv, StoreInv
<1> DEFINE r == Root(m)
           all == {i \in 1..Len(script) : i = r \/ script[i].thread = r}
<1>2. r \in 1..Len(script)
  BY <1>1, ScriptFacts
<1>3. IsFiniteSet(all) /\ Cardinality(all) \in Nat /\ Cardinality(all) <= PageSize
  <2>1. IsFiniteSet(1..Len(script))
    BY <1>1, FS_Interval
  <2>2. all \subseteq 1..Len(script)
    OBVIOUS
  <2>3. Cardinality(all) <= PageSize
    BY <1>1, <1>2 DEF ThreadsFit
  <2> HIDE DEF all
  <2>4. IsFiniteSet(all)
    BY <2>1, <2>2, FS_Subset
  <2>5. QED
    BY <2>3, <2>4, FS_CardinalityType
<1>4. ThreadOf(m) \subseteq all
  <2>1. ASSUME NEW i \in 1..posted, Root(i) = r
        PROVE  i \in 1..Len(script) /\ (i = r \/ script[i].thread = r)
    BY <1>1, <2>1 DEF Root
  <2>2. QED
    BY <2>1 DEF ThreadOf
<1>5. ASSUME NEW i \in ThreadOf(m)
      PROVE  Cardinality(UpTo(ThreadOf(m), i)) <= PageSize
  <2> HIDE DEF all
  <2>1. UpTo(ThreadOf(m), i) \subseteq all
    BY <1>4 DEF UpTo
  <2>2. /\ Cardinality(UpTo(ThreadOf(m), i)) \in Nat
        /\ Cardinality(UpTo(ThreadOf(m), i)) <= Cardinality(all)
    BY <1>3, <2>1, FS_Subset, FS_CardinalityType
  <2>3. QED
    BY <1>3, <2>2, ThreadsAssumption
<1>6. Earlier(m) = {i \in ThreadOf(m) : i < m}
  BY <1>5 DEF Earlier
<1>7. QED
  BY <1>1, <1>6 DEF ThreadOf

(* So what the worker finds is what was said.                              *)
LEMMA HandoffIsLastMentioned ==
    ASSUME ThreadsFit, TypeInv, NEW m \in 1..posted
    PROVE  HandoffOf(m) = LastMention(m)
<1>1. /\ script \in Scripts /\ posted \in Nat /\ Len(script) \in Nat
      /\ posted <= Len(script) /\ posted \in 0..Len(script)
  BY PostedIsNatural DEF TypeInv, StoreInv
<1> DEFINE Spot(i) == Spots(script[i].text)
           at(i) == Occurrences(script[i].text)
           H == Handers(m)
<1>2. H = {i \in 1..(m - 1) : /\ Root(i) = Root(m) /\ ~script[i].notice
                              /\ i = Root(m) => /\ script[i].text.form # "created"
                                                /\ script[i].text.broadcast = "none"
                              /\ at(i) # <<>>}
  BY PageIsWhole DEF Handers
<1>3. ASSUME NEW i \in 1..(m - 1)
      PROVE  /\ script[i].text \in Text /\ Len(script[i].text.words) <= MaxWords
             /\ Len(script[i].text.words) \in Nat
             /\ Spot(i) \subseteq 1..MaxWords
             /\ at(i) # <<>> <=> Spot(i) # {}
             /\ at(i) # <<>> => /\ Last(at(i)) \in Spot(i)
                                /\ \A k \in Spot(i) : k <= Last(at(i))
  <2>1. i \in 1..Len(script)
    BY <1>1
  <2>2. script[i].text \in Text /\ Len(script[i].text.words) <= MaxWords
    BY <1>1, <2>1, ScriptFacts DEF ThreadsFit
  <2>3. Len(script[i].text.words) \in Nat /\ MaxWords \in Nat
    BY <2>2, TextWords, ThreadsAssumption
  <2>4. Spot(i) \subseteq 1..MaxWords
    BY <2>2, <2>3 DEF Spots
  <2>5. at(i) # <<>> => Last(at(i)) \in Spot(i) /\ \A k \in Spot(i) : k <= Last(at(i))
    BY <2>2, LastSpot
  <2>6. at(i) # <<>> <=> Spot(i) # {}
    <3>1. at(i) = <<>> <=> Len(at(i)) = 0
      BY <2>2, SquadMentions, EmptySeq, LenProperties
    <3>2. QED
      BY <2>2, <3>1, MentionedKeys
  <2>7. QED
    BY <2>2, <2>3, <2>4, <2>5, <2>6
<1>4. \A h : h \in Handovers(m) <=> /\ h \in (1..(m - 1)) \X (1..MaxWords)
                                     /\ h[1] \in H /\ h[2] \in Spot(h[1])
  <2> SUFFICES ASSUME NEW h, h \in (1..(m - 1)) \X (1..MaxWords)
               PROVE  h \in Handovers(m) <=> h[1] \in H /\ h[2] \in Spot(h[1])
    BY DEF Handovers
  <2>1. h[1] \in 1..(m - 1) /\ h[2] \in 1..MaxWords
    OBVIOUS
  <2>2. h[2] \in Spot(h[1]) => at(h[1]) # <<>>
    BY <1>3, <2>1
  <2>3. /\ Len(script[h[1]].text.words) \in Nat
        /\ h[2] <= Len(script[h[1]].text.words) <=> h[2] \in 1..Len(script[h[1]].text.words)
    BY <1>3, <2>1
  <2>4. h[2] \in Spot(h[1]) <=>
            /\ h[2] <= Len(script[h[1]].text.words)
            /\ script[h[1]].text.words[h[2]] \in Squad
    BY <2>3 DEF Spots
  <2> HIDE DEF Spot, at, H
  <2>5. h[1] \in H <=>
            /\ Root(h[1]) = Root(m) /\ ~script[h[1]].notice
            /\ h[1] = Root(m) => /\ script[h[1]].text.form # "created"
                                 /\ script[h[1]].text.broadcast = "none"
            /\ at(h[1]) # <<>>
    BY <1>2, <2>1
  <2>6. h \in Handovers(m) <=>
            /\ Root(h[1]) = Root(m) /\ ~script[h[1]].notice
            /\ h[1] = Root(m) => /\ script[h[1]].text.form # "created"
                                 /\ script[h[1]].text.broadcast = "none"
            /\ h[2] <= Len(script[h[1]].text.words)
            /\ script[h[1]].text.words[h[2]] \in Squad
    BY DEF Handovers
  <2>7. QED
    BY <2>2, <2>4, <2>5, <2>6
<1>5. CASE H = {}
  <2>1. Handovers(m) = {}
    BY <1>4, <1>5
  <2>2. HandoffOf(m) = NoKey
    BY <1>1, <1>5, HandoffOfThread
  <2>3. QED
    BY <2>1, <2>2 DEF LastMention
<1>6. CASE H # {}
  <2> DEFINE top == Max(H)
             last == Last(at(top))
             Latest(h) == \A g \in Handovers(m) :
                              g[1] < h[1] \/ (g[1] = h[1] /\ g[2] <= h[2])
  <2>1. /\ top \in H /\ \A i \in H : top >= i
        /\ HandoffOf(m) = LastMentioned(script[top].text)
    BY <1>1, <1>6, HandoffOfThread
  <2>2. top \in 1..(m - 1) /\ H \subseteq 1..(m - 1)
    BY <1>2, <2>1
  <2>3. last \in Spot(top) /\ last \in 1..MaxWords /\ \A k \in Spot(top) : k <= last
    BY <1>2, <1>3, <2>1, <2>2
  <2> HIDE DEF H, top, last, at, Spot
  <2>4. <<top, last>> \in Handovers(m)
    BY <1>4, <2>1, <2>2, <2>3
  <2>5. ASSUME NEW g \in Handovers(m)
        PROVE  /\ g = <<g[1], g[2]>> /\ g[1] \in 1..(m - 1) /\ g[2] \in 1..MaxWords
               /\ g[1] < top \/ (g[1] = top /\ g[2] <= last)
    <3>1. /\ g \in (1..(m - 1)) \X (1..MaxWords) /\ g[1] \in H /\ g[2] \in Spot(g[1])
      BY <1>4
    <3>2. g = <<g[1], g[2]>> /\ g[1] \in 1..(m - 1) /\ g[2] \in 1..MaxWords
      BY <3>1
    <3>3. g[1] < top \/ g[1] = top
      BY <2>1, <2>2, <3>1, <3>2
    <3>4. g[1] = top => g[2] <= last
      BY <2>3, <3>1
    <3>5. QED
      BY <3>2, <3>3, <3>4
  <2>6. Latest(<<top, last>>)
    BY <2>5
  <2> DEFINE latest == CHOOSE h \in Handovers(m) : Latest(h)
  <2>7. latest \in Handovers(m) /\ Latest(latest)
    <3> HIDE DEF Latest
    <3>1. QED
      BY <2>4, <2>6
  <2>8. latest[1] = top /\ latest[2] = last
    <3>1. top < latest[1] \/ (top = latest[1] /\ last <= latest[2])
      BY <2>4, <2>7
    <3> HIDE DEF latest
    <3>2. /\ latest[1] \in 1..(m - 1) /\ latest[2] \in 1..MaxWords
          /\ latest[1] < top \/ (latest[1] = top /\ latest[2] <= last)
      BY <2>5, <2>7
    <3>3. MaxWords \in Nat
      BY ThreadsAssumption
    <3>4. QED
      BY <1>1, <2>2, <2>3, <3>1, <3>2, <3>3
  <2>9. LastMention(m) = KeyOf[script[latest[1]].text.words[latest[2]]]
    BY <2>4 DEF LastMention
  <2> HIDE DEF latest
  <2>10. QED
    BY <2>1, <2>8, <2>9 DEF LastMentioned, last, at
<1>7. QED
  BY <1>5, <1>6

(* The employee that a root kicked off is one. *)
LEMMA KickedOffEmployee ==
    ASSUME TypeInv, NEW m, NEW key, KickedOff(m, key)
    PROVE  key \in Employee /\ key # NoKey
<1>1. script[m].text \in Text
  BY ScriptFacts, PostedIsNatural DEF TypeInv, StoreInv, KickedOff
<1>2. Spots(script[m].text) # {}
  BY <1>1, MentionedKeys DEF KickedOff
<1>3. /\ key = FirstNamed(script[m].text)
      /\ Min(Spots(script[m].text)) \in Spots(script[m].text)
  BY <1>1, <1>2, FirstSpot DEF KickedOff, FirstMentioned, FirstNamed, SquadAt, Spots
<1>4. QED
  BY <1>3, RosterAssumption DEF FirstNamed, Spots

(* What a plain reply is decided to be: for whom the thread was handed to, *)
(* else for nobody under a create-company post, else for the roster's.     *)
LEMMA PlainDecision ==
    ASSUME NEW i, ~i.bypass, i.text.broadcast = "none", Mentioned(i.text) = {},
           i.thread
    PROVE  /\ i.handoff # NoKey => Decide(i) = Single("plain", i.handoff, NoTool)
           /\ i.handoff = NoKey /\ i.rootCreated => Decide(i) = NoDecision
           /\ i.handoff = NoKey /\ ~i.rootCreated =>
                 Decide(i).employees = <<PickPlainResponder(i.ts)>>
<1>1. Decide(i) = DecidePlain(i)
  BY DEF Decide
<1>2. CASE i.handoff # NoKey
  BY <1>1, <1>2 DEF DecidePlain
<1>3. CASE i.handoff = NoKey /\ i.rootCreated
  BY <1>1, <1>3 DEF DecidePlain
<1>4. CASE i.handoff = NoKey /\ ~i.rootCreated
  <2>1. DecidePlain(i) = Single("plain", PickPlainResponder(i.ts),
                                Classify(i.text.words))
    BY <1>4 DEF DecidePlain
  <2>2. QED
    BY <1>1, <1>4, <2>1 DEF Single
<1>5. QED
  BY <1>2, <1>3, <1>4

(* One reply, however late it is handled. *)
LEMMA FollowUpIsFollowed ==
    ASSUME ThreadsFit, AnswerInv, NEW d \in dispatched, IsFollowUp(d)
    PROVE  LET root   == script[Root(d.m)]
               answer == d.decision
               picked == answer.employees = <<PickPlainResponder(d.m)>>
               pinned == /\ Mentioned(root.text) # {} /\ answer.tool = NoTool
                         /\ answer.employees = <<FirstMentioned(root.text)>>
           IN IF d.history = "failed" THEN picked \/ pinned
              ELSE IF LastMention(d.m) # NoKey
              THEN answer.employees = <<LastMention(d.m)>> /\ answer.tool = NoTool
              ELSE IF root.text.form = "created"
                   THEN pinned /\ root.author \notin Squad
              ELSE picked
<1> DEFINE m      == d.m
           root   == script[Root(d.m)]
           answer == d.decision
           picked == answer.employees = <<PickPlainResponder(d.m)>>
           pinned == /\ Mentioned(root.text) # {} /\ answer.tool = NoTool
                     /\ answer.employees = <<FirstMentioned(root.text)>>
<1>1. PICK i \in Inputs(m) : /\ Grounds(i, m, d.type, d.history)
                            /\ d.bypass = i.bypass /\ d.decision = Decide(i)
  BY DEF AnswerInv, Reasoned
<1>2. TypeInv /\ m \in 1..posted /\ ~(ToSet(answer.employees) \subseteq {NoKey})
  BY DEF AnswerInv, Reasoned
<1>3. /\ d.type = "message" /\ ~i.bypass /\ i.ts = m
      /\ i.thread /\ Mentioned(i.text) = {} /\ i.text.broadcast = "none"
      /\ script[m].thread # 0
  BY <1>1 DEF Inputs, IsFollowUp, TextOf
<1>4. /\ d.history \in {"read", "failed"}
      /\ d.history = "read" =>
            /\ i.rootCreated = (root.text.form = "created")
            /\ \/ i.handoff = HandoffOf(m)
               \/ HandoffOf(m) = NoKey /\ KickedOff(Root(m), i.handoff)
      /\ d.history = "failed" =>
            /\ ~i.rootCreated
            /\ i.handoff = NoKey \/ KickedOff(Root(m), i.handoff)
  BY <1>1, <1>3 DEF Grounds, AsksHistory
<1>5. HandoffOf(m) = LastMention(m)
  BY <1>2, HandoffIsLastMentioned
<1>6. /\ i.handoff # NoKey => answer = Single("plain", i.handoff, NoTool)
      /\ i.handoff = NoKey /\ i.rootCreated => answer = NoDecision
      /\ i.handoff = NoKey /\ ~i.rootCreated => picked
  BY <1>1, <1>3, PlainDecision
<1>7. KickedOff(Root(m), i.handoff) =>
          pinned /\ (root.text.form = "created" => root.author \notin Squad)
  <2>1. SUFFICES ASSUME KickedOff(Root(m), i.handoff)
                 PROVE  pinned /\ (root.text.form = "created" => root.author \notin Squad)
    OBVIOUS
  <2>2. i.handoff # NoKey
    BY <1>2, <2>1, KickedOffEmployee
  <2>3. answer.employees = <<i.handoff>> /\ answer.tool = NoTool
    BY <1>6, <2>2 DEF Single
  <2>4. QED
    BY <2>1, <2>3 DEF KickedOff
<1>8. CASE d.history = "failed"
  BY <1>4, <1>6, <1>7, <1>8
<1>9. CASE d.history = "read" /\ LastMention(m) # NoKey
  <2>1. answer = Single("plain", LastMention(m), NoTool)
    BY <1>4, <1>5, <1>6, <1>9
  <2>2. QED
    BY <1>9, <2>1 DEF Single
<1>10. CASE d.history = "read" /\ LastMention(m) = NoKey
  <2>1. CASE KickedOff(Root(m), i.handoff)
    <3>1. root.text.form = "created"
      <4>1. SUFFICES ASSUME root.text.form # "created"
                     PROVE  FALSE
        OBVIOUS
      <4>2. Root(m) \in Handers(m)
        BY <1>1, <1>2, <1>3, <2>1, <4>1, KickoffHandsOver DEF Inputs
      <4>3. script \in Scripts /\ posted \in 0..Len(script)
        BY <1>2 DEF TypeInv, StoreInv
      <4>4. HandoffOf(m) \in Employee
        BY <1>2, <4>2, <4>3, HandoffOfThread
      <4>5. QED
        BY <1>5, <1>10, <4>4, RosterAssumption
    <3>2. QED
      BY <1>7, <1>10, <2>1, <3>1
  <2>2. CASE i.handoff = NoKey
    <3>1. CASE root.text.form = "created"
      <4>1. answer = NoDecision
        BY <1>4, <1>6, <1>10, <2>2, <3>1
      <4>2. ToSet(NoDecision.employees) = {}
        BY DEF NoDecision, ToSet
      <4>3. QED
        BY <1>2, <4>1, <4>2
    <3>2. CASE root.text.form # "created"
      BY <1>4, <1>6, <1>10, <2>2, <3>2
    <3>3. QED
      BY <3>1, <3>2
  <2>3. QED
    BY <1>4, <1>5, <1>10, <2>1, <2>2
<1>11. QED
  BY <1>4, <1>8, <1>9, <1>10

(* FollowUpsFollowTheThread: as long as a thread fits one page, a plain    *)
(* reply goes where the thread before it says, whoever posted and whatever *)
(* other workers handled, pinned or let expire in the meantime.            *)
THEOREM FollowUpsAreFollowed ==
    ASSUME ThreadsFit
    PROVE  Spec => []FollowUpsFollowTheThread
<1>1. AnswerInv => FollowUpsFollowTheThread
  BY FollowUpIsFollowed DEF FollowUpsFollowTheThread
<1>2. QED
  BY <1>1, AnswerAlways, PTL
==============================================================================
