---------------------------- MODULE RoutingFacts ----------------------------
(***************************************************************************)
(* Facts about the operators of Routing, for every text and every roster:  *)
(* where the squad is mentioned, what a segment can name, which decisions  *)
(* can start a skill in a thread, and whom the messages of a thread hand   *)
(* it to.                                                                  *)
(***************************************************************************)
EXTENDS Routing, SequenceFacts

(* The places of a text's mentions of the squad. *)
Spots(text) == {i \in 1..Len(text.words) : text.words[i] \in Squad}

(* What a text of the model is made of. *)
LEMMA TextWords ==
    ASSUME NEW text \in Text
    PROVE  /\ text.words \in Seq(User \cup STRING)
           /\ Len(text.words) \in Nat /\ DOMAIN text.words = 1..Len(text.words)
           /\ \A i \in 1..Len(text.words) : text.words[i] \in User \cup STRING
<1>1. text.words \in Seq(User \cup STRING)
  BY DEF Text
<1>2. QED
  BY <1>1, LenProperties, ElementOfSeq

(* squadMentionOccurrences finds every mention of the squad, each once,    *)
(* from left to right.                                                     *)
LEMMA SquadMentions ==
    ASSUME NEW text \in Text
    PROVE  /\ Occurrences(text) \in Seq(Spots(text))
           /\ Len(Occurrences(text)) = Cardinality(Spots(text))
           /\ Len(Occurrences(text)) \in Nat
           /\ \A j, k \in 1..Len(Occurrences(text)) :
                  j < k => Occurrences(text)[j] < Occurrences(text)[k]
           /\ \A i \in Spots(text) : \E k \in 1..Len(Occurrences(text)) :
                  Occurrences(text)[k] = i
<1>1. Spots(text) \subseteq 1..Len(text.words) /\ Len(text.words) \in Nat
  BY TextWords DEF Spots
<1>2. IsFiniteSet(Spots(text)) /\ Spots(text) \subseteq Int
  <2>1. IsFiniteSet(1..Len(text.words))
    BY <1>1, FS_Interval
  <2>2. QED
    BY <1>1, <2>1, FS_Subset
<1>3. Occurrences(text) = InOrder(Spots(text))
  BY DEF Occurrences, Spots
<1>4. QED
  BY <1>2, <1>3, InOrderProperties

(* mentionedEmployeeKeys is nobody exactly if the text mentions no squad   *)
(* bot; the keys are those of the bots.                                    *)
LEMMA MentionedKeys ==
    ASSUME NEW text \in Text
    PROVE  /\ Mentioned(text) = {KeyOf[text.words[i]] : i \in Spots(text)}
           /\ Mentioned(text) \subseteq Employee
           /\ Mentioned(text) = {} <=> Spots(text) = {}
           /\ Mentioned(text) = {} <=> Mentions(text) \cap Squad = {}
           /\ Mentioned(text) = {} <=> Len(Occurrences(text)) = 0
<1>1. Mentioned(text) = {KeyOf[text.words[i]] : i \in Spots(text)}
  <2>1. ToSet(text.words) = {text.words[i] : i \in 1..Len(text.words)}
    BY TextWords DEF ToSet
  <2>2. Mentioned(text) = {KeyOf[u] : u \in ToSet(text.words) \cap Squad}
    BY RosterAssumption DEF Mentioned, Mentions
  <2>3. QED
    BY <2>1, <2>2 DEF Spots
<1>2. Mentioned(text) \subseteq Employee
  BY RosterAssumption DEF Mentioned
<1>3. Spots(text) = {} <=> Len(Occurrences(text)) = 0
  <2>1. /\ Occurrences(text) \in Seq(Spots(text)) /\ Len(Occurrences(text)) \in Nat
        /\ \A i \in Spots(text) : \E k \in 1..Len(Occurrences(text)) :
               Occurrences(text)[k] = i
    BY SquadMentions
  <2>2. \A k \in 1..Len(Occurrences(text)) : Occurrences(text)[k] \in Spots(text)
    BY <2>1, ElementOfSeq
  <2>3. QED
    BY <2>1, <2>2
<1>4. QED
  BY <1>1, <1>2, <1>3 DEF Mentioned

(* The first mention of the squad. *)
LEMMA FirstSpot ==
    ASSUME NEW text \in Text, Spots(text) # {}
    PROVE  /\ Len(Occurrences(text)) >= 1
           /\ Occurrences(text)[1] \in Spots(text)
           /\ Min(Spots(text)) = Occurrences(text)[1]
<1> DEFINE at == Occurrences(text)
<1>1. /\ at \in Seq(Spots(text)) /\ Len(at) \in Nat
      /\ \A j, k \in 1..Len(at) : j < k => at[j] < at[k]
      /\ \A i \in Spots(text) : \E k \in 1..Len(at) : at[k] = i
  BY SquadMentions
<1>2. Len(at) >= 1 /\ at[1] \in Spots(text)
  BY <1>1, ElementOfSeq
<1>3. Spots(text) \subseteq Int
  BY TextWords DEF Spots
<1> HIDE DEF at
<1>4. ASSUME NEW i \in Spots(text)
      PROVE  at[1] <= i
  <2>1. PICK k \in 1..Len(at) : at[k] = i
    BY <1>1
  <2>2. CASE k = 1
    BY <1>3, <2>1, <2>2
  <2>3. CASE k # 1
    <3>1. 1 \in 1..Len(at) /\ 1 < k
      BY <1>1, <1>2, <2>1, <2>3
    <3>2. at[1] < at[k]
      BY <1>1, <2>1, <3>1
    <3>3. QED
      BY <1>2, <1>3, <2>1, <3>2
  <2>4. QED
    BY <2>2, <2>3
<1>5. /\ Min(Spots(text)) \in Spots(text)
      /\ \A i \in Spots(text) : Min(Spots(text)) <= i
  BY <1>2, <1>4 DEF Min
<1>6. Min(Spots(text)) = at[1]
  BY <1>2, <1>3, <1>4, <1>5
<1>7. QED
  BY <1>2, <1>6 DEF at
------------------------------------------------------------------------------
(* Tools. *)

(* What a text says to the employee mentioned first: what is before the    *)
(* second mention and not the first itself; the whole text, if that is     *)
(* nothing, or there is no second.                                         *)
FirstSaid(text) ==
    LET first == Min(Spots(text))
        later == Spots(text) \ {first}
        said  == {i \in 1..Len(text.words) : i # first /\ i < Min(later)}
    IN IF later = {} \/ said = {} THEN text.words ELSE Selected(text.words, said)

(* The first segment is cut out of the text just so. *)
LEMMA FirstSegment ==
    ASSUME NEW text \in Text, Len(Occurrences(text)) >= 2
    PROVE  FirstSaid(text) = IF Segment(text, 1) = <<>> THEN text.words
                             ELSE Segment(text, 1)
<1> DEFINE at == Occurrences(text)
           n == Len(text.words)
           S == Spots(text)
           later == S \ {Min(S)}
           said == {i \in 1..n : i # Min(S) /\ i < Min(later)}
           cut == (1..(at[2] - 1)) \ {at[1]}
<1>1. /\ n \in Nat /\ S \subseteq 1..n /\ at = InOrder(S)
      /\ Len(at) = Cardinality(S) /\ Len(at) \in Nat
  BY TextWords, SquadMentions DEF Spots, Occurrences
<1>2. at[1] \in S /\ at[2] \in S
  <2>1. at \in Seq(S) /\ 1 \in 1..Len(at) /\ 2 \in 1..Len(at)
    BY <1>1, SquadMentions
  <2>2. QED
    BY <2>1, ElementOfSeq
<1> HIDE DEF n, S, at
<1>3. later # {} /\ Min(S) = at[1] /\ Min(later) = at[2]
  <2>1. S # {} /\ Cardinality(S) >= 2
    BY <1>1, <1>2 DEF at
  <2>2. QED
    BY <1>1, <2>1, InOrderEnds
<1>4. said = cut
  <2>1. at[2] \in 1..n
    BY <1>1, <1>2
  <2>2. said = {i \in 1..n : i # at[1] /\ i < at[2]}
    BY <1>3
  <2>3. \A i \in 1..n : i < at[2] <=> i \in 1..(at[2] - 1)
    BY <1>1, <2>1
  <2>4. 1..(at[2] - 1) \subseteq 1..n
    BY <1>1, <2>1
  <2>5. QED
    BY <2>2, <2>3, <2>4
<1>5. Segment(text, 1) = Selected(text.words, cut)
  <2>1. Len(at) # 1
    BY <1>1 DEF at
  <2>2. QED
    BY <2>1 DEF Segment, at
<1>6. Selected(text.words, cut) = <<>> <=> cut = {}
  <2>1. cut \subseteq 1..Len(text.words)
    BY <1>4 DEF n
  <2>2. QED
    BY <2>1, TextWords, SelectedNothing
<1>7. FirstSaid(text) = IF later = {} \/ said = {} THEN text.words
                        ELSE Selected(text.words, said)
  BY DEF FirstSaid, S, n
<1> HIDE DEF cut, said, later
<1>8. QED
  BY <1>3, <1>4, <1>5, <1>6, <1>7

(* The sequence of one thing. *)
LEMMA SetToSeqOfOne ==
    ASSUME NEW x
    PROVE  SetToSeq({x}) = <<x>>
<1>1. Cardinality({x}) = 1
  BY FS_Singleton
<1>2. <<x>> \in [1..1 -> {x}] /\ IsInjective(<<x>>)
  BY DEF IsInjective
<1>3. \A f \in [1..1 -> {x}] : f = <<x>>
  OBVIOUS
<1>4. SetToSeq({x}) \in [1..1 -> {x}]
  BY <1>1, <1>2 DEF SetToSeq
<1>5. QED
  BY <1>3, <1>4
------------------------------------------------------------------------------
(* Decisions. *)

(* The employee whose bot a text mentions first. *)
FirstNamed(text) == KeyOf[text.words[Min(Spots(text))]]

(* A pipeline sends out its first step: to the employee mentioned first,   *)
(* with the tool that what is said to them names.                          *)
LEMMA PipelineStarts ==
    ASSUME NEW text \in Text, Spots(text) # {}, TriesPipeline(text)
    PROVE  /\ Pipeline(text).trigger = "mention"
           /\ Pipeline(text).employees = <<FirstNamed(text)>>
           /\ Pipeline(text).tool = Classify(FirstSaid(text))
<1> DEFINE at == Occurrences(text)
           steps == [k \in 1..Len(at) |-> Step(text, k)]
<1>1. 1 \in 1..Len(at) /\ Min(Spots(text)) = at[1]
  BY FirstSpot, SquadMentions
<1>2. steps[1] = Step(text, 1)
  BY <1>1
<1>3. Step(text, 1).target = FirstNamed(text)
  BY <1>1 DEF Step, FirstNamed
<1>4. Step(text, 1).tool = Classify(FirstSaid(text))
  BY FirstSegment DEF Step, TriesPipeline
<1>5. /\ Pipeline(text).trigger = "mention"
      /\ Pipeline(text).employees = <<steps[1].target>>
      /\ Pipeline(text).tool = steps[1].tool
  BY DEF Pipeline
<1> HIDE DEF steps
<1>6. QED
  BY <1>2, <1>3, <1>4, <1>5

(* A single mention is answered by the employee mentioned, who is told all *)
(* of the text.                                                            *)
LEMMA MentionAnswered ==
    ASSUME NEW text \in Text, Spots(text) # {}, ~TriesPipeline(text)
    PROVE  /\ AnswersMention(text).trigger = "mention"
           /\ AnswersMention(text).employees = <<FirstNamed(text)>>
           /\ AnswersMention(text).tool = Classify(FirstSaid(text))
           /\ AnswersMention(text).mode = "single"
<1> DEFINE at == Occurrences(text)
           i == at[1]
<1>1. /\ at \in Seq(Spots(text)) /\ Len(at) \in Nat
      /\ \A j \in Spots(text) : \E k \in 1..Len(at) : at[k] = j
  BY SquadMentions
<1>2. Len(at) >= 1 /\ i \in Spots(text) /\ Min(Spots(text)) = i
  BY FirstSpot
<1>3. Len(at) = 1
  BY <1>1, <1>2 DEF TriesPipeline
<1>4. Spots(text) = {i}
  BY <1>1, <1>2, <1>3
<1> HIDE DEF i, at
<1>5. Mentioned(text) = {KeyOf[text.words[i]]}
  BY <1>4, MentionedKeys
<1>6. SetToSeq(Mentioned(text)) = <<FirstNamed(text)>>
  BY <1>2, <1>5, SetToSeqOfOne DEF FirstNamed
<1>7. ~(Cardinality(Mentioned(text)) > 1)
  <2>1. Cardinality(Mentioned(text)) = 1
    BY <1>5, FS_Singleton
  <2>2. QED
    BY <2>1
<1>8. FirstSaid(text) = text.words
  <2>1. Spots(text) \ {Min(Spots(text))} = {}
    BY <1>2, <1>4
  <2>2. QED
    BY <2>1 DEF FirstSaid
<1>9. QED
  BY <1>6, <1>7, <1>8 DEF AnswersMention

(* A decision that answers a mention comes from neither a bypass nor a     *)
(* broadcast, but from a text that mentions the squad.                     *)
LEMMA MentionIsDecided ==
    ASSUME NEW in, in.text \in Text, Decide(in).trigger = "mention"
    PROVE  /\ ~in.bypass /\ in.text.broadcast = "none" /\ Mentioned(in.text) # {}
           /\ Decide(in) = DecideMention(in)
           /\ in.text.form = "created" => in.author \notin Squad
           /\ \/ Decide(in) = Pipeline(in.text) /\ TriesPipeline(in.text)
              \/ Decide(in) = AnswersMention(in.text) /\ ~TriesPipeline(in.text)
<1>1. ~in.bypass
  <2>1. Single("plain", Joanne, UpdateTerms).trigger # "mention"
    BY DEF Single
  <2>2. QED
    BY <2>1 DEF Decide
<1>2. in.text.broadcast = "none"
  <2>1. in.text.broadcast # "mention"
    BY DEF Text
  <2>2. Broadcasts(in).trigger # "mention"
    BY <2>1 DEF Broadcasts
  <2>3. QED
    BY <1>1, <2>2 DEF Decide
<1>3. DecidePlain(in).trigger # "mention"
  <2>1. /\ NoDecision.trigger # "mention"
        /\ \A key, tool : Single("plain", key, tool).trigger # "mention"
    BY DEF NoDecision, Single
  <2>2. DecidePlain(in) = NoDecision \/ \E key, tool : DecidePlain(in) = Single("plain", key, tool)
    BY DEF DecidePlain
  <2>3. QED
    BY <2>1, <2>2
<1>4. Mentioned(in.text) # {} /\ Decide(in) = DecideMention(in)
  BY <1>1, <1>2, <1>3 DEF Decide
<1>5. \/ DecideMention(in) = Pipeline(in.text) /\ TriesPipeline(in.text)
      \/ DecideMention(in) = AnswersMention(in.text) /\ ~TriesPipeline(in.text)
  <2>1. /\ NoDecision.trigger # "mention"
        /\ \A key, tool : Single("plain", key, tool).trigger # "mention"
    BY DEF NoDecision, Single
  <2>2. \/ DecideMention(in) = NoDecision
        \/ \E key, tool : DecideMention(in) = Single("plain", key, tool)
        \/ DecideMention(in) = Pipeline(in.text) /\ TriesPipeline(in.text)
        \/ DecideMention(in) = AnswersMention(in.text) /\ ~TriesPipeline(in.text)
    BY DEF DecideMention
  <2>3. QED
    BY <1>4, <2>1, <2>2
<1>6. in.text.form = "created" => in.author \notin Squad
  <2>1. NoDecision.trigger # "mention"
    BY DEF NoDecision
  <2>2. QED
    BY <1>4, <2>1 DEF DecideMention
<1>7. QED
  BY <1>1, <1>2, <1>4, <1>5, <1>6

(* A decision that answers a mention goes to the employee mentioned first, *)
(* with the tool that what is said to them names.                          *)
LEMMA MentionNamesATool ==
    ASSUME NEW in, in.text \in Text, Decide(in).trigger = "mention"
    PROVE  /\ ~in.bypass /\ in.text.broadcast = "none" /\ Mentioned(in.text) # {}
           /\ in.text.form = "created" => in.author \notin Squad
           /\ Decide(in).tool = Classify(FirstSaid(in.text))
           /\ Decide(in).employees = <<FirstNamed(in.text)>>
           /\ FirstNamed(in.text) \in Mentioned(in.text) \cap Employee
<1> DEFINE text == in.text
           d == Decide(in)
<1>1. /\ ~in.bypass /\ text.broadcast = "none" /\ Mentioned(text) # {}
      /\ text.form = "created" => in.author \notin Squad
      /\ \/ d = Pipeline(text) /\ TriesPipeline(text)
         \/ d = AnswersMention(text) /\ ~TriesPipeline(text)
  BY MentionIsDecided
<1>2. Spots(text) # {} /\ Mentioned(text) \subseteq Employee
  BY <1>1, MentionedKeys
<1>3. FirstNamed(text) \in Mentioned(text)
  BY <1>2, FirstSpot, MentionedKeys DEF FirstNamed
<1>4. d.employees = <<FirstNamed(text)>> /\ d.tool = Classify(FirstSaid(text))
  <2>1. CASE d = Pipeline(text) /\ TriesPipeline(text)
    BY <1>2, <2>1, PipelineStarts
  <2>2. CASE d = AnswersMention(text) /\ ~TriesPipeline(text)
    BY <1>2, <2>2, MentionAnswered
  <2>3. QED
    BY <1>1, <2>1, <2>2
<1>5. QED
  BY <1>1, <1>2, <1>3, <1>4
------------------------------------------------------------------------------
(* Threads. *)

Message == [ts : Nat, text : Text]

(* The employee whose bot a text mentions last. *)
LastMentioned(text) == KeyOf[text.words[Last(Occurrences(text))]]

(* Whom a message hands its thread to, if it was key's before. *)
HandedTo(message, root, key) ==
    IF HandsOff(message, root) /\ Occurrences(message.text) # <<>>
    THEN LastMentioned(message.text) ELSE key

(* The last mention is one of the squad's, and there is one if the squad   *)
(* is mentioned.                                                           *)
LEMMA LastSpot ==
    ASSUME NEW text \in Text, Occurrences(text) # <<>>
    PROVE  /\ Last(Occurrences(text)) \in Spots(text)
           /\ \A i \in Spots(text) : i <= Last(Occurrences(text))
           /\ LastMentioned(text) \in Employee
<1> DEFINE at == Occurrences(text)
           n == Len(at)
<1>1. /\ at \in Seq(Spots(text)) /\ n \in Nat /\ n >= 1
      /\ \A j, k \in 1..n : j < k => at[j] < at[k]
      /\ \A i \in Spots(text) : \E k \in 1..n : at[k] = i
  BY SquadMentions, EmptySeq, LenProperties
<1>2. at[n] \in Spots(text) /\ Last(at) = at[n]
  BY <1>1, ElementOfSeq DEF Last
<1>3. Spots(text) \subseteq Int
  BY TextWords DEF Spots
<1> HIDE DEF n, at
<1>4. ASSUME NEW i \in Spots(text)
      PROVE  i <= at[n]
  <2>1. PICK k \in 1..n : at[k] = i
    BY <1>1
  <2>2. n \in 1..n /\ (k = n \/ k < n)
    BY <1>1
  <2>3. at[k] = at[n] \/ at[k] < at[n]
    BY <1>1, <2>2
  <2>4. QED
    BY <1>2, <1>3, <2>1, <2>3
<1>5. LastMentioned(text) \in Employee
  BY <1>2, RosterAssumption DEF LastMentioned, Spots, at
<1>6. QED
  BY <1>2, <1>4, <1>5 DEF at

(* LastSquadHandoffKey goes through the messages in their order, each      *)
(* taking over the key or handing the thread to whom it mentions last.     *)
LEMMA HandoffStepByStep ==
    ASSUME NEW messages \in Seq(Message), NEW root
    PROVE  \E v \in [0..Len(messages) -> Employee \cup {NoKey}] :
              /\ v[0] = NoKey
              /\ v[Len(messages)] = LastSquadHandoffKey(messages, root)
              /\ \A k \in 1..Len(messages) :
                     v[k] = HandedTo(messages[k], root, v[k - 1])
<1> DEFINE n == Len(messages)
           Y == Employee \cup {NoKey}
           G == [p \in (1..n) \X Y |-> HandedTo(messages[p[1]], root, p[2])]
           Obeys(f) == f = [s \in SUBSET (DOMAIN messages) |->
                               IF s = {} THEN NoKey
                               ELSE HandedTo(messages[Max(s)], root, f[s \ {Max(s)}])]
           iter == CHOOSE f : Obeys(f)
<1>1. /\ n \in Nat /\ DOMAIN messages = 1..n
      /\ \A k \in 1..n : messages[k] \in Message
  BY LenProperties, ElementOfSeq
<1>2. \A k \in 1..n, key \in Y : HandedTo(messages[k], root, key) \in Y
  BY <1>1, LastSpot DEF HandedTo, Message
<1>3. G \in [(1..n) \X Y -> Y] /\ NoKey \in Y
  BY <1>2
<1>4. PICK h \in [SUBSET (1..n) -> Y] : \A s \in SUBSET (1..n) :
          h[s] = IF s = {} THEN NoKey ELSE G[<<Max(s), h[s \ {Max(s)}]>>]
  <2> HIDE DEF G, n, Y
  <2>1. FoldValues(1..n, Y, NoKey, G, [s \in SUBSET (1..n) |-> Max(s)]) # {}
    BY <1>1, <1>3, FoldLeftExists
  <2>2. QED
    BY <2>1 DEF FoldValues
<1>5. ASSUME NEW s \in SUBSET (1..n), s # {}
      PROVE  /\ Max(s) \in 1..n /\ s \ {Max(s)} \in SUBSET (1..n)
             /\ h[s] = HandedTo(messages[Max(s)], root, h[s \ {Max(s)}])
  <2>1. Max(s) \in s
    BY <1>1, <1>5, MaxProperties
  <2>2. h[s \ {Max(s)}] \in Y
    BY <1>4
  <2> HIDE DEF n, Y
  <2>3. QED
    BY <1>4, <1>5, <2>1, <2>2
<1>6. Obeys(h)
  <2> HIDE DEF n, Y
  <2>1. QED
    BY <1>1, <1>4, <1>5
<1>7. Obeys(iter)
  <2> HIDE DEF Obeys
  <2>1. QED
    BY <1>6
<1>8. LastSquadHandoffKey(messages, root) = iter[DOMAIN messages]
  BY DEF LastSquadHandoffKey, FoldLeft, MapThenFoldSet,
         HandedTo, LastMentioned
<1> HIDE DEF iter
<1>9. iter[{}] = NoKey
  BY <1>7
<1>10. ASSUME NEW k \in 1..n
       PROVE  iter[1..k] = HandedTo(messages[k], root, iter[1..(k - 1)])
  <2>1. /\ 1..k \in SUBSET (1..n) /\ 1..k # {}
        /\ Max(1..k) = k /\ (1..k) \ {k} = 1..(k - 1)
    BY <1>1, MaxOfPrefix
  <2> HIDE DEF n
  <2>2. QED
    BY <1>1, <1>7, <2>1
<1> DEFINE v == [k \in 0..n |-> iter[1..k]]
<1>11. v[0] = NoKey /\ v[n] = LastSquadHandoffKey(messages, root)
  BY <1>1, <1>8, <1>9
<1>12. \A k \in 1..n : v[k] = HandedTo(messages[k], root, v[k - 1])
  BY <1>1, <1>10
<1> HIDE DEF v
<1>13. \A k \in 0..n : v[k] \in Y
  <2> DEFINE bad == {k \in 0..n : v[k] \notin Y}
  <2> SUFFICES ASSUME bad # {}
               PROVE  FALSE
    OBVIOUS
  <2>1. PICK k \in bad : \A j \in bad : k <= j
    <3>1. bad \subseteq Nat
      BY <1>1
    <3> HIDE DEF bad
    <3>2. QED
      BY <3>1, LeastNatural
  <2>2. k \in 1..n /\ k - 1 \in 0..n /\ k - 1 \notin bad
    BY <1>1, <1>11, <2>1
  <2>3. v[k - 1] \in Y
    BY <2>2
  <2>4. v[k] \in Y
    BY <1>2, <1>12, <2>2, <2>3
  <2>5. QED
    BY <2>1, <2>4
<1>14. QED
  BY <1>11, <1>12, <1>13 DEF v

(* The messages that hand their thread to somebody, and to whom. *)
Handing(messages, root) ==
    {k \in 1..Len(messages) : /\ HandsOff(messages[k], root)
                              /\ Occurrences(messages[k].text) # <<>>}

(* So the key is that of the last of these messages. *)
LEMMA HandoffIsTheLatest ==
    ASSUME NEW messages \in Seq(Message), NEW root
    PROVE  /\ LastSquadHandoffKey(messages, root) \in Employee \cup {NoKey}
           /\ LastSquadHandoffKey(messages, root) =
                  IF Handing(messages, root) = {} THEN NoKey
                  ELSE LastMentioned(messages[Max(Handing(messages, root))].text)
<1> DEFINE n == Len(messages)
           H == Handing(messages, root)
           key == LastSquadHandoffKey(messages, root)
<1>1. n \in Nat /\ H \subseteq 1..n
  BY LenProperties DEF Handing
<1>2. PICK v \in [0..n -> Employee \cup {NoKey}] :
          /\ v[0] = NoKey /\ v[n] = key
          /\ \A k \in 1..n : v[k] = HandedTo(messages[k], root, v[k - 1])
  BY HandoffStepByStep
<1>3. /\ \A k \in (1..n) \ H : v[k] = v[k - 1]
      /\ \A k \in H : v[k] = LastMentioned(messages[k].text)
  BY <1>2 DEF HandedTo, Handing
<1> HIDE DEF n, H, key
<1>4. ASSUME NEW from \in 0..n, \A k \in H : k <= from
      PROVE  v[n] = v[from]
  <2> DEFINE bad == {k \in from..n : v[k] # v[from]}
  <2> SUFFICES ASSUME bad # {}
               PROVE  FALSE
    BY <1>1
  <2>1. PICK k \in bad : \A j \in bad : k <= j
    <3>1. bad \subseteq Nat
      BY <1>1
    <3> HIDE DEF bad
    <3>2. QED
      BY <3>1, LeastNatural
  <2>2. /\ k \in (1..n) \ H /\ k - 1 \in from..n
        /\ k - 1 \notin bad
    BY <1>1, <1>4, <2>1
  <2>3. v[k] = v[k - 1] /\ v[k - 1] = v[from]
    BY <1>3, <2>2
  <2>4. QED
    BY <2>1, <2>3
<1>5. CASE H = {}
  <2>1. v[n] = v[0]
    BY <1>1, <1>4, <1>5
  <2>2. QED
    BY <1>2, <1>5, <2>1 DEF H, key, n
<1>6. CASE H # {}
  <2>1. Max(H) \in H /\ \A k \in H : Max(H) >= k
    BY <1>1, <1>6, MaxProperties
  <2>2. v[n] = v[Max(H)]
    <3>1. Max(H) \in 0..n /\ \A k \in H : k <= Max(H)
      BY <1>1, <2>1
    <3>2. QED
      BY <1>4, <3>1
  <2>3. v[Max(H)] = LastMentioned(messages[Max(H)].text)
    BY <1>3, <2>1
  <2>4. v[n] \in Employee \cup {NoKey}
    BY <1>1, <1>2
  <2>5. QED
    BY <1>2, <1>6, <2>2, <2>3, <2>4 DEF H, key
<1>7. QED
  BY <1>5, <1>6
==============================================================================
