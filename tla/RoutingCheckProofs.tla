-------------------------- MODULE RoutingCheckProofs --------------------------
(***************************************************************************)
(* What the pure parts promise, for every roster, every message, every     *)
(* text, every event and every environment: who answers, whom a broadcast  *)
(* reaches, and what the steps of a pipeline are; what a start makes of    *)
(* the environment; what the guards see of a message; and which tool the   *)
(* names in a text decide.                                                 *)
(***************************************************************************)
EXTENDS RoutingCheck, RoutingFacts

(* An input that was evaluated is one of the inputs, and the decision is   *)
(* what the code makes of it; of an environment it makes the configuration *)
(* that some walk of the roster gives.                                     *)
CheckInv ==
    /\ in \in Messages \/ in \in Texts \/ in \in Environments \/ in \in Events
    /\ Evaluated("message") => decision = Decide(in)
    /\ Evaluated("words") => decision = T!ClassifyWithReason(in.text)
    /\ Evaluated("payload") => decision = P!Extract(in.event)
    /\ Evaluated("environment") =>
          \E walk \in S!Walks(in.env) : decision = S!FromEnv(in.env, walk)

(* Every evaluation, and every restart, keeps it. *)
LEMMA CheckAlways == Spec => []CheckInv
<1>1. Init => CheckInv
  BY DEF Init, CheckInv, Evaluated
<1>2. CheckInv /\ [Next]_vars => CheckInv'
  <2> SUFFICES ASSUME CheckInv, [Next]_vars
               PROVE  CheckInv'
    OBVIOUS
  <2>1. CASE Decides
    BY <2>1 DEF Decides, Evaluates, CheckInv, Evaluated
  <2>2. CASE Classifies
    BY <2>2 DEF Classifies, Evaluates, CheckInv, Evaluated
  <2>3. CASE Extracts
    BY <2>3 DEF Extracts, Evaluates, CheckInv, Evaluated
  <2>4. CASE Starts
    BY <2>4 DEF Starts, Evaluates, CheckInv, Evaluated
  <2>5. CASE Restarts
    BY <2>5 DEF Restarts, CheckInv, Evaluated
  <2>6. CASE UNCHANGED vars
    BY <2>6 DEF vars, CheckInv, Evaluated
  <2>7. QED
    BY <2>1, <2>2, <2>3, <2>4, <2>5, <2>6 DEF Next
<1>3. QED
  BY <1>1, <1>2, PTL DEF Spec

(* So it is enough to look at Decide. *)
LEMMA MessageEvaluated ==
    ASSUME CheckInv, Evaluated("message")
    PROVE  in \in Messages /\ in.text \in Text /\ decision = Decide(in)
BY CheckAssumption DEF CheckInv, Evaluated
------------------------------------------------------------------------------
(* Who answers. *)

(* A message that is no broadcast is answered by one employee or by nobody. *)
LEMMA AtMostOneAnswers ==
    ASSUME NEW i, i.text \in Text, i.text.broadcast = "none"
    PROVE  Len(Decide(i).employees) <= 1 /\ Decide(i).mode # "fanout"
<1> DEFINE One(d) == Len(d.employees) <= 1 /\ d.mode # "fanout"
<1>1. One(NoDecision)
  BY DEF NoDecision
<1>2. \A trigger, key, tool : One(Single(trigger, key, tool))
  BY DEF Single
<1>3. CASE i.bypass
  BY <1>2, <1>3 DEF Decide
<1>4. CASE ~i.bypass /\ Mentioned(i.text) = {}
  <2>1. Decide(i) = DecidePlain(i)
    BY <1>4 DEF Decide
  <2>2. DecidePlain(i) = NoDecision
        \/ \E trigger, key, tool : DecidePlain(i) = Single(trigger, key, tool)
    BY DEF DecidePlain
  <2> HIDE DEF One
  <2>3. One(Decide(i))
    BY <1>1, <1>2, <2>1, <2>2
  <2>4. QED
    BY <2>3 DEF One
<1>5. CASE ~i.bypass /\ Mentioned(i.text) # {}
  <2>1. Decide(i) = DecideMention(i)
    BY <1>5 DEF Decide
  <2>2. \/ DecideMention(i) = NoDecision
        \/ \E trigger, key, tool : DecideMention(i) = Single(trigger, key, tool)
        \/ DecideMention(i) = Pipeline(i.text)
        \/ DecideMention(i) = AnswersMention(i.text) /\ ~TriesPipeline(i.text)
    BY DEF DecideMention
  <2>3. Spots(i.text) # {}
    BY <1>5, MentionedKeys
  <2>4. One(Pipeline(i.text))
    BY DEF Pipeline
  <2>5. ~TriesPipeline(i.text) => One(AnswersMention(i.text))
    <3>1. ASSUME ~TriesPipeline(i.text)
          PROVE  /\ AnswersMention(i.text).employees = <<FirstNamed(i.text)>>
                 /\ AnswersMention(i.text).mode = "single"
      BY <2>3, <3>1, MentionAnswered
    <3>2. \A key : Len(<<key>>) <= 1
      OBVIOUS
    <3>3. QED
      BY <3>1, <3>2
  <2> HIDE DEF One
  <2>6. One(Decide(i))
    BY <1>1, <1>2, <2>1, <2>2, <2>4, <2>5
  <2>7. QED
    BY <2>6 DEF One
<1>6. QED
  BY <1>3, <1>4, <1>5

(* OneEmployeeAnswers: whatever a message mentions, only a broadcast has   *)
(* several answers; the multi-target branch of decide.go is not reached.   *)
THEOREM OnlyBroadcastsFanOut == Spec => []OneEmployeeAnswers
<1>1. CheckInv => OneEmployeeAnswers
  BY MessageEvaluated, AtMostOneAnswers DEF OneEmployeeAnswers
<1>2. QED
  BY <1>1, CheckAlways, PTL
------------------------------------------------------------------------------
(* The steps of a pipeline. *)

(* The places of a text that belong to the mention at m. *)
Own(text, m) == {p \in 1..Len(text.words) : p # m /\ OwnerOf(text, p) = m}

(* The owner of a place is the last mention before it, or the first of all. *)
LEMMA OwnerIsLast ==
    ASSUME NEW text \in Text, Spots(text) # {}, NEW p \in 1..Len(text.words)
    PROVE  /\ OwnerOf(text, p) \in Spots(text)
           /\ OwnerOf(text, p) <= p \/ OwnerOf(text, p) = Occurrences(text)[1]
           /\ \A j \in Spots(text) : j <= p => j <= OwnerOf(text, p)
<1> DEFINE before == {i \in Spots(text) : i <= p}
           n == Len(text.words)
<1>1. n \in Nat /\ Spots(text) \subseteq 1..n /\ p \in 1..n
  BY TextWords DEF Spots
<1>2. OwnerOf(text, p) = IF before # {} THEN Max(before) ELSE Min(Spots(text))
  BY DEF OwnerOf, Spots
<1>3. CASE before # {}
  <2>1. before \subseteq 1..n
    BY <1>1
  <2>2. Max(before) \in before /\ \A j \in before : Max(before) >= j
    BY <1>1, <1>3, <2>1, MaxProperties
  <2>3. OwnerOf(text, p) = Max(before)
    BY <1>2, <1>3
  <2>4. OwnerOf(text, p) \in Spots(text) /\ OwnerOf(text, p) <= p
    BY <2>2, <2>3
  <2>5. ASSUME NEW j \in Spots(text), j <= p
        PROVE  j <= OwnerOf(text, p)
    <3>1. j \in before /\ j \in Int
      BY <1>1, <2>5
    <3>2. Max(before) >= j /\ Max(before) \in Int
      BY <1>1, <2>2, <3>1
    <3>3. QED
      BY <2>3, <3>1, <3>2
  <2>6. QED
    BY <2>4, <2>5
<1>4. CASE before = {}
  <2>1. /\ OwnerOf(text, p) = Min(Spots(text))
        /\ \A j \in Spots(text) : ~(j <= p)
    BY <1>2, <1>4
  <2>2. Occurrences(text)[1] \in Spots(text) /\ Min(Spots(text)) = Occurrences(text)[1]
    BY FirstSpot
  <2>3. QED
    BY <2>1, <2>2
<1>5. QED
  BY <1>3, <1>4

(* What belongs to a mention goes from it to the next one; what precedes   *)
(* the first belongs to it.                                                *)
LEMMA OwnPlaces ==
    ASSUME NEW text \in Text, NEW k \in 1..Len(Occurrences(text))
    PROVE  \A p \in 1..Len(text.words) :
              OwnerOf(text, p) = Occurrences(text)[k] <=>
                  /\ k = 1 \/ Occurrences(text)[k] <= p
                  /\ k = Len(Occurrences(text)) \/ p < Occurrences(text)[k + 1]
<1> DEFINE at == Occurrences(text)
           n == Len(at)
<1>1. /\ n \in Nat /\ at \in Seq(Spots(text))
      /\ \A i, j \in 1..n : i < j => at[i] < at[j]
      /\ \A i \in Spots(text) : \E j \in 1..n : at[j] = i
  BY SquadMentions
<1>2. \A j \in 1..n : at[j] \in Spots(text)
  BY <1>1, ElementOfSeq
<1>3. Spots(text) \subseteq Int /\ Spots(text) # {}
  BY <1>2, TextWords DEF Spots
<1> HIDE DEF at, n
<1>4. ASSUME NEW i \in 1..n, NEW j \in 1..n
      PROVE  (at[i] = at[j] => i = j) /\ (at[i] <= at[j] => i <= j)
  <2>1. at[i] \in Int /\ at[j] \in Int
    BY <1>2, <1>3
  <2>2. /\ i < j => at[i] < at[j]
        /\ j < i => at[j] < at[i]
    BY <1>1
  <2>3. i < j \/ j < i \/ i = j
    BY <1>1
  <2>4. QED
    BY <1>1, <2>1, <2>2, <2>3
<1>5. ASSUME NEW p \in 1..Len(text.words)
      PROVE  OwnerOf(text, p) = at[k] <=>
                 /\ k = 1 \/ at[k] <= p
                 /\ k = n \/ p < at[k + 1]
  <2>1. k \in 1..n /\ p \in Int /\ (k # n => k + 1 \in 1..n) /\ 1 \in 1..n
    BY <1>1 DEF at, n
  <2>2. PICK o \in 1..n : at[o] = OwnerOf(text, p)
    BY <1>1, <1>3, OwnerIsLast
  <2>3. /\ at[o] <= p \/ o = 1
        /\ \A j \in 1..n : at[j] <= p => at[j] <= at[o]
    <3>1. /\ at[o] <= p \/ at[o] = at[1]
          /\ \A j \in Spots(text) : j <= p => j <= at[o]
      BY <1>3, <2>2, OwnerIsLast DEF at
    <3>2. QED
      BY <1>2, <1>4, <2>1, <3>1
  <2>4. ASSUME OwnerOf(text, p) = at[k]
        PROVE  (k = 1 \/ at[k] <= p) /\ (k = n \/ p < at[k + 1])
    <3>1. o = k
      BY <1>4, <2>1, <2>2, <2>4
    <3>2. ASSUME k # n
          PROVE  p < at[k + 1]
      <4>1. k + 1 \in 1..n /\ at[k + 1] \in Int /\ at[k] < at[k + 1] /\ at[k] \in Int
        BY <1>1, <1>2, <1>3, <2>1, <3>2
      <4>2. ~(at[k + 1] <= at[o])
        BY <3>1, <4>1
      <4>3. ~(at[k + 1] <= p)
        BY <2>3, <4>1, <4>2
      <4>4. QED
        BY <2>1, <4>1, <4>3
    <3>3. QED
      BY <2>3, <3>1, <3>2
  <2>5. ASSUME k = 1 \/ at[k] <= p, k = n \/ p < at[k + 1]
        PROVE  OwnerOf(text, p) = at[k]
    <3>1. k <= o
      <4>1. CASE k = 1
        BY <2>1, <4>1
      <4>2. CASE at[k] <= p
        BY <1>4, <2>1, <2>3, <4>2
      <4>3. QED
        BY <2>5, <4>1, <4>2
    <3>2. ~(k < o)
      <4>1. SUFFICES ASSUME k < o
                     PROVE  FALSE
        OBVIOUS
      <4>2. k # n /\ k + 1 \in 1..n /\ k + 1 <= o /\ o # 1
        BY <1>1, <2>1, <4>1
      <4>3. p < at[k + 1] /\ at[o] <= p
        BY <2>3, <2>5, <4>2
      <4>4. at[k + 1] = at[o] \/ at[k + 1] < at[o]
        BY <1>1, <2>1, <4>2
      <4>5. at[k + 1] \in Int /\ at[o] \in Int
        BY <1>2, <1>3, <4>2
      <4>6. QED
        BY <2>1, <4>3, <4>4, <4>5
    <3>3. o = k
      BY <2>1, <3>1, <3>2
    <3>4. QED
      BY <2>2, <3>3
  <2>6. QED
    BY <2>4, <2>5
<1>6. QED
  BY <1>5 DEF at, n

(* segmentTextsForSquadMentions cuts exactly that out of the text, without *)
(* the mention itself.                                                     *)
LEMMA SegmentIsOwn ==
    ASSUME NEW text \in Text, NEW k \in 1..Len(Occurrences(text)),
           NEW m, Occurrences(text)[k] = m
    PROVE  /\ Segment(text, k) = Selected(text.words, Own(text, m))
           /\ Segment(text, k) = <<>> <=> Own(text, m) = {}
<1> DEFINE at == Occurrences(text)
           n == Len(at)
           N == Len(text.words)
           first == IF k = 1 THEN 1 ELSE at[k]
           last == IF k = n THEN N ELSE at[k + 1] - 1
<1>1. /\ n \in Nat /\ N \in Nat /\ k \in 1..n
      /\ \A j \in 1..n : at[j] \in 1..N
  <2>1. n \in Nat /\ at \in Seq(Spots(text))
    BY SquadMentions
  <2>2. N \in Nat /\ Spots(text) \subseteq 1..N
    BY TextWords DEF Spots
  <2>3. \A j \in 1..n : at[j] \in Spots(text)
    BY <2>1, ElementOfSeq
  <2>4. QED
    BY <2>1, <2>2, <2>3
<1>2. Segment(text, k) = Selected(text.words, (first..last) \ {m})
  BY DEF Segment
<1>3. \A p \in 1..N :
         OwnerOf(text, p) = m <=>
             /\ k = 1 \/ at[k] <= p
             /\ k = n \/ p < at[k + 1]
  <2>1. \A p \in 1..Len(text.words) :
            OwnerOf(text, p) = Occurrences(text)[k] <=>
                /\ k = 1 \/ Occurrences(text)[k] <= p
                /\ k = Len(Occurrences(text)) \/ p < Occurrences(text)[k + 1]
    BY OwnPlaces
  <2>2. QED
    BY <2>1
<1>4. /\ at[k] \in 1..N
      /\ k # n => at[k + 1] \in 1..N
  <2>1. k # n => k + 1 \in 1..n
    BY <1>1
  <2> HIDE DEF at, n, N
  <2>2. QED
    BY <1>1, <2>1
<1> HIDE DEF at, n, N
<1>5. first \in 1..N /\ last \in 0..N
  BY <1>1, <1>4
<1>6. ASSUME NEW p \in 1..N
      PROVE  p \in first..last <=> OwnerOf(text, p) = m
  <2>1. first <= p <=> (k = 1 \/ at[k] <= p)
    BY <1>1, <1>4
  <2>2. p <= last <=> (k = n \/ p < at[k + 1])
    BY <1>1, <1>4
  <2>3. OwnerOf(text, p) = m <=> first <= p /\ p <= last
    BY <1>3, <2>1, <2>2
  <2> HIDE DEF first, last
  <2>4. QED
    BY <1>1, <1>5, <2>3
<1> HIDE DEF first, last
<1>7. first..last \subseteq 1..N
  BY <1>1, <1>5
<1>8. (first..last) \ {m} = Own(text, m)
  BY <1>6, <1>7 DEF Own, N
<1>9. Own(text, m) \subseteq 1..Len(text.words)
  BY DEF Own
<1>10. QED
  BY <1>2, <1>8, <1>9, TextWords, SelectedNothing

(* What the step of the mention at m is about: what belongs to the mention *)
(* or, when that is nothing, the whole text.                               *)
About(text, m) ==
    IF Own(text, m) = {} THEN text.words ELSE Selected(text.words, Own(text, m))

(* One step of a pipeline. *)
LEMMA StepOfMention ==
    ASSUME NEW text \in Text, NEW k \in 1..Len(Occurrences(text)),
           NEW m, Occurrences(text)[k] = m
    PROVE  /\ Step(text, k).target = KeyOf[text.words[m]]
           /\ Step(text, k).tool = T!ClassifyWithReason(About(text, m)).tool
<1>1. (IF Segment(text, k) = <<>> THEN text.words ELSE Segment(text, k))
          = About(text, m)
  BY SegmentIsOwn DEF About
<1>2. QED
  BY <1>1 DEF Step, Classify

(* The steps of a message that mentions the squad at least twice. *)
LEMMA StepsOfMessage ==
    ASSUME NEW i, i.text \in Text, Decide(i).trigger = "mention",
           Cardinality(Spots(i.text)) >= 2
    PROVE  /\ Len(Decide(i).steps) = Cardinality(Spots(i.text))
           /\ \A m \in Spots(i.text) :
                 \E k \in 1..Len(Occurrences(i.text)) :
                    /\ k = Cardinality({j \in Spots(i.text) : j <= m})
                    /\ Occurrences(i.text)[k] = m
                    /\ Decide(i).steps[k] = Step(i.text, k)
<1> DEFINE text == i.text
           at == Occurrences(text)
           steps == [k \in 1..Len(at) |-> Step(text, k)]
<1>1. /\ at \in Seq(Spots(text)) /\ Len(at) = Cardinality(Spots(text)) /\ Len(at) \in Nat
  BY SquadMentions
<1>2. Decide(i) = Pipeline(text)
  BY <1>1, MentionIsDecided DEF TriesPipeline
<1>3. Decide(i).steps = steps
  BY <1>2 DEF Pipeline
<1>4. Len(steps) = Len(at)
  <2> HIDE DEF at
  <2>1. QED
    BY <1>1
<1>5. ASSUME NEW m \in Spots(text)
      PROVE  /\ Cardinality({j \in Spots(text) : j <= m}) \in 1..Len(at)
             /\ at[Cardinality({j \in Spots(text) : j <= m})] = m
  <2>1. Len(text.words) \in Nat
    BY TextWords
  <2>2. IsFiniteSet(1..Len(text.words))
    BY <2>1, FS_Interval
  <2>3. Spots(text) \subseteq 1..Len(text.words)
    BY DEF Spots
  <2>4. IsFiniteSet(Spots(text)) /\ Spots(text) \subseteq Int
    BY <2>1, <2>2, <2>3, FS_Subset
  <2>5. at = InOrder(Spots(text)) /\ UpTo(Spots(text), m) = {j \in Spots(text) : j <= m}
    BY DEF Occurrences, Spots, UpTo
  <2> HIDE DEF at
  <2>6. QED
    BY <1>1, <2>4, <2>5, InOrderProperties
<1> HIDE DEF at
<1>6. QED
  BY <1>1, <1>3, <1>4, <1>5 DEF at

(* StepsFollowTheText: each mention is a step of its own, in the order of  *)
(* the text, with the tool Tier 1 makes of the words that belong to it.    *)
THEOREM StepsAreTheText == Spec => []StepsFollowTheText
<1>1. ASSUME CheckInv
      PROVE  StepsFollowTheText
  <2> DEFINE text == in.text
             squad == {i \in 1..Len(text.words) : text.words[i] \in Squad}
             nth(m) == Cardinality({i \in squad : i <= m})
             Right(step, m) == /\ step.target = KeyOf[text.words[m]]
                               /\ step.tool = T!ClassifyWithReason(About(text, m)).tool
  <2>1. SUFFICES ASSUME Evaluated("message"), decision.trigger = "mention",
                        Cardinality(squad) >= 2
                 PROVE  /\ Len(decision.steps) = Cardinality(squad)
                        /\ \A m \in squad : Right(decision.steps[nth(m)], m)
    BY DEF StepsFollowTheText, About, Own
  <2>2. text \in Text /\ decision = Decide(in) /\ squad = Spots(text)
    BY <1>1, <2>1, MessageEvaluated DEF Spots
  <2> HIDE DEF squad
  <2>3. /\ Len(decision.steps) = Cardinality(squad)
        /\ \A m \in squad : \E k \in 1..Len(Occurrences(text)) :
              /\ k = nth(m) /\ Occurrences(text)[k] = m
              /\ decision.steps[k] = Step(text, k)
    BY <2>1, <2>2, StepsOfMessage
  <2>4. ASSUME NEW m \in squad
        PROVE  Right(decision.steps[nth(m)], m)
    <3>1. PICK k \in 1..Len(Occurrences(text)) :
              /\ k = nth(m) /\ Occurrences(text)[k] = m
              /\ decision.steps[k] = Step(text, k)
      BY <2>3
    <3> HIDE DEF nth, text
    <3>2. Right(Step(text, k), m)
      BY <2>2, <3>1, StepOfMention
    <3>3. QED
      BY <3>1, <3>2
  <2>5. QED
    BY <2>3, <2>4
<1>2. QED
  BY <1>1, CheckAlways, PTL
------------------------------------------------------------------------------
(* Broadcasts. *)

(* An exchange keeps what a list holds. *)
LEMMA ExchangeKeeps ==
    ASSUME NEW n \in Nat, NEW E, NEW s \in [1..n -> E], NEW i \in 1..n, NEW j \in 1..n
    PROVE  Exchange(s, i, j) \in [1..n -> E] /\ ToSet(Exchange(s, i, j)) = ToSet(s)
<1> DEFINE r == Exchange(s, i, j)
<1>1. /\ r \in [1..n -> E]
      /\ \A k \in 1..n : r[k] = IF k = j THEN s[i] ELSE IF k = i THEN s[j] ELSE s[k]
  BY DEF Exchange
<1>2. ToSet(r) = {r[k] : k \in 1..n} /\ ToSet(s) = {s[k] : k \in 1..n}
  BY <1>1 DEF ToSet
<1> HIDE DEF r
<1>3. ToSet(r) \subseteq ToSet(s)
  <2>1. \A k \in 1..n : \E l \in 1..n : r[k] = s[l]
    BY <1>1
  <2>2. QED
    BY <1>2, <2>1
<1>4. ToSet(s) \subseteq ToSet(r)
  <2>1. \A k \in 1..n : \E l \in 1..n : s[k] = r[l]
    <3>1. ASSUME NEW k \in 1..n
          PROVE  \E l \in 1..n : s[k] = r[l]
      <4>1. CASE k = i
        BY <1>1, <4>1
      <4>2. CASE k = j
        BY <1>1, <4>2
      <4>3. CASE k # i /\ k # j
        BY <1>1, <4>3
      <4>4. QED
        BY <4>1, <4>2, <4>3
    <3>2. QED
      BY <3>1
  <2>2. QED
    BY <1>2, <2>1
<1>5. QED
  BY <1>1, <1>3, <1>4 DEF r

(* shuffleOrder permutes: as long as the draws are in range, nobody is     *)
(* lost, and nobody is there twice who was not before.                     *)
LEMMA ShuffleKeeps ==
    ASSUME NEW ts, NEW order \in Seq(Employee),
           \A k \in 1..Len(order) : Intn(ts, order, k) \in 1..k
    PROVE  /\ ShuffleOrder(ts, order) \in [1..Len(order) -> Employee]
           /\ ToSet(ShuffleOrder(ts, order)) = ToSet(order)
           /\ IsInjective(order) => IsInjective(ShuffleOrder(ts, order))
<1> DEFINE n == Len(order)
           Y == {s \in [1..n -> Employee] : ToSet(s) = ToSet(order)}
           Swap(k, s) == Exchange(s, k, Intn(ts, order, k))
           G == [p \in (1..n) \X Y |-> Swap(p[1], p[2])]
           places == [i \in DOMAIN order |-> i]
           Obeys(f) == f = [s \in SUBSET (DOMAIN places) |->
                               IF s = {} THEN order
                               ELSE Swap(places[Min(s)], f[s \ {Min(s)}])]
           iter == CHOOSE f : Obeys(f)
<1>1. /\ n \in Nat /\ DOMAIN order = 1..n /\ DOMAIN places = 1..n
      /\ order \in [1..n -> Employee] /\ \A i \in 1..n : places[i] = i
  BY LenProperties
<1>2. order \in Y
  BY <1>1
<1>3. ASSUME NEW k \in 1..n, NEW s \in Y
      PROVE  Swap(k, s) \in Y
  <2>1. Intn(ts, order, k) \in 1..n
    <3>1. Intn(ts, order, k) \in 1..k
      BY <1>3
    <3> HIDE DEF n
    <3>2. QED
      BY <1>1, <3>1
  <2>2. s \in [1..n -> Employee] /\ ToSet(s) = ToSet(order)
    BY <1>3
  <2> HIDE DEF n
  <2>3. /\ Swap(k, s) \in [1..n -> Employee]
        /\ ToSet(Swap(k, s)) = ToSet(s)
    <3> DEFINE j == Intn(ts, order, k)
    <3>1. n \in Nat /\ j \in 1..n
      BY <1>1, <2>1
    <3> HIDE DEF j
    <3>2. /\ Exchange(s, k, j) \in [1..n -> Employee]
          /\ ToSet(Exchange(s, k, j)) = ToSet(s)
      BY <2>2, <3>1, ExchangeKeeps
    <3>3. QED
      BY <3>2 DEF Swap, j
  <2>4. QED
    BY <2>2, <2>3
<1> HIDE DEF Swap, Y
<1>4. G \in [(1..n) \X Y -> Y]
  BY <1>3
<1>5. PICK h \in [SUBSET (1..n) -> Y] : \A s \in SUBSET (1..n) :
          h[s] = IF s = {} THEN order ELSE G[<<Min(s), h[s \ {Min(s)}]>>]
  <2> HIDE DEF G, n
  <2>1. FoldValues(1..n, Y, order, G, [s \in SUBSET (1..n) |-> Min(s)]) # {}
    BY <1>1, <1>2, <1>4, FoldRightExists
  <2>2. QED
    BY <2>1 DEF FoldValues
<1>6. ASSUME NEW s \in SUBSET (1..n), s # {}
      PROVE  /\ Min(s) \in 1..n /\ s \ {Min(s)} \in SUBSET (1..n)
             /\ h[s] = Swap(places[Min(s)], h[s \ {Min(s)}])
  <2>1. Min(s) \in s
    <3>1. s \subseteq Nat
      BY <1>1
    <3>2. QED
      BY <1>6, <3>1, MinProperties
  <2>2. h[s \ {Min(s)}] \in Y
    BY <1>5
  <2>3. places[Min(s)] = Min(s)
    BY <1>1, <2>1
  <2> HIDE DEF n, places
  <2>4. QED
    BY <1>5, <1>6, <2>1, <2>2, <2>3
<1>7. Obeys(h)
  <2> HIDE DEF n, places
  <2>1. QED
    BY ZenonT(30), <1>1, <1>5, <1>6
<1>8. Obeys(iter)
  <2> HIDE DEF Obeys
  <2>1. QED
    BY <1>7
<1>9. ShuffleOrder(ts, order) = iter[DOMAIN places]
  BY DEF ShuffleOrder, FoldRightDomain, FoldRight, MapThenFoldSet, Swap
<1> HIDE DEF iter
<1>10. iter[{}] = order
  BY <1>8
<1>11. ASSUME NEW k \in 1..n
       PROVE  iter[k..n] = Swap(k, iter[(k + 1)..n])
  <2>1. /\ k..n \in SUBSET (1..n) /\ k..n # {}
        /\ Min(k..n) = k /\ (k..n) \ {k} = (k + 1)..n
    BY <1>1, MinOfSuffix
  <2>2. \A s \in SUBSET (1..n) :
            s # {} => iter[s] = Swap(places[Min(s)], iter[s \ {Min(s)}])
    <3> HIDE DEF n, places
    <3>1. QED
      BY <1>1, <1>8
  <2>3. places[k] = k
    BY <1>1
  <2> HIDE DEF n, places
  <2>4. QED
    BY <2>1, <2>2, <2>3
<1> HIDE DEF n, places
<1> DEFINE Bad == {j \in 0..n : iter[(n - j + 1)..n] \notin Y}
<1>12. Bad = {}
  <2> SUFFICES ASSUME Bad # {}
               PROVE  FALSE
    OBVIOUS
  <2>1. PICK j \in Bad : \A i \in Bad : j <= i
    <3>1. Bad \subseteq Nat
      BY <1>1
    <3> HIDE DEF Bad
    <3>2. QED
      BY <3>1, LeastNatural
  <2>2. j \in 0..n /\ iter[(n - j + 1)..n] \notin Y
    BY <2>1
  <2>3. j # 0
    <3>1. SUFFICES ASSUME j = 0
                   PROVE  FALSE
      OBVIOUS
    <3>2. (n - j + 1)..n = {}
      BY <1>1, <3>1
    <3>3. QED
      BY <1>2, <1>10, <2>2, <3>2
  <2> DEFINE k == n - j + 1
  <2>4. k \in 1..n /\ j - 1 \in 0..n /\ n - (j - 1) + 1 = k + 1
    BY <1>1, <2>2, <2>3
  <2>5. j - 1 \notin Bad
    <3>1. ~(j <= j - 1)
      BY <1>1, <2>2
    <3> HIDE DEF Bad
    <3>2. QED
      BY <2>1, <3>1
  <2>6. iter[(k + 1)..n] \in Y
    BY <2>4, <2>5
  <2> HIDE DEF k
  <2>7. iter[k..n] \in Y
    BY <1>3, <1>11, <2>4, <2>6
  <2>8. QED
    BY <2>2, <2>7 DEF k
<1>13. iter[1..n] \in Y
  <2>1. n \in 0..n /\ n - n + 1 = 1
    BY <1>1
  <2>2. QED
    BY <1>12, <2>1
<1>14. /\ ShuffleOrder(ts, order) \in [1..n -> Employee]
       /\ ToSet(ShuffleOrder(ts, order)) = ToSet(order)
  BY <1>1, <1>9, <1>13 DEF Y
<1>15. QED
  BY <1>1, <1>14, RearrangedOnce DEF n

(* The slots of the roster but those of the poster, and the first of them  *)
(* up to a limit.                                                          *)
Others(author) ==
    {i \in 1..Len(Order) : author \in Squad => Order[i] # KeyOf[author]}

Reached(author, limit) ==
    {i \in Others(author) : Cardinality({j \in Others(author) : j <= i}) <= limit}

(* orderExcludingBroadcastPoster, and limitParticipants on its result.     *)
LEMMA LimitedOrder ==
    ASSUME NEW author, NEW limit \in Int
    PROVE  LET list == LimitParticipants(OrderExcludingPoster(author), limit)
           IN /\ list \in Seq(Employee) /\ Len(list) \in 0..Len(Order)
              /\ Len(list) = Cardinality(Reached(author, limit))
              /\ ToSet(list) = {Order[i] : i \in Reached(author, limit)}
              /\ IsInjective(Order) => IsInjective(list)
<1> DEFINE others == Others(author)
           kept == InOrder(others)
           c == Cardinality(others)
           full == OrderExcludingPoster(author)
           list == LimitParticipants(full, limit)
           q == IF limit <= 0 THEN 0 ELSE IF limit <= c THEN limit ELSE c
           rank(i) == Cardinality({j \in others : j <= i})
<1>1. /\ Len(Order) \in Nat /\ others \subseteq 1..Len(Order)
      /\ \A i \in 1..Len(Order) : Order[i] \in Employee
  BY RosterAssumption, LenProperties, ElementOfSeq DEF Others
<1>2. /\ IsFiniteSet(others) /\ others \subseteq Int
      /\ c \in Nat /\ c <= Len(Order)
  <2>1. IsFiniteSet(1..Len(Order)) /\ Cardinality(1..Len(Order)) = Len(Order)
    <3> DEFINE n == Len(Order)
    <3>1. n \in Nat
      BY <1>1
    <3> HIDE DEF n
    <3>2. IsFiniteSet(1..n) /\ Cardinality(1..n) = n
      BY <3>1, FS_Interval
    <3>3. QED
      BY <3>2 DEF n
  <2> HIDE DEF others
  <2>2. IsFiniteSet(others) /\ Cardinality(others) <= Len(Order)
    BY <1>1, <2>1, FS_Subset
  <2>3. QED
    BY <1>1, <2>2, FS_CardinalityType
<1>3. /\ kept \in Seq(others) /\ Len(kept) = c
      /\ \A i, j \in 1..c : i < j => kept[i] < kept[j]
      /\ \A x \in others : rank(x) \in 1..c /\ kept[rank(x)] = x
  <2> HIDE DEF others
  <2>1. QED
    BY <1>2, InOrderProperties DEF UpTo
<1>4. full = [k \in 1..Len(kept) |-> Order[kept[k]]]
  BY <1>3 DEF OrderExcludingPoster, Selected, Others
<1> HIDE DEF others, kept, full, c
<1>5. \A k \in 1..c : kept[k] \in others /\ kept[k] \in Int /\ Order[kept[k]] \in Employee
  BY <1>1, <1>2, <1>3, ElementOfSeq
<1>6. /\ full \in [1..c -> Employee] /\ full \in Seq(Employee) /\ Len(full) = c
      /\ \A k \in 1..c : full[k] = Order[kept[k]]
  <2>1. full = [k \in 1..c |-> Order[kept[k]]]
    BY <1>3, <1>4
  <2>2. full \in [1..c -> Employee]
    BY <1>5, <2>1
  <2>3. QED
    BY <1>2, <2>1, <2>2
<1>7. q \in 0..c
  BY <1>2
<1>8. /\ list \in Seq(Employee) /\ Len(list) = q
      /\ \A k \in 1..q : list[k] = Order[kept[k]]
  <2>1. CASE limit <= 0
    <3>1. list = <<>> /\ q = 0
      BY <2>1 DEF LimitParticipants
    <3>2. QED
      BY <3>1
  <2>2. CASE ~(limit <= 0)
    <3>1. Min({limit, c}) = q
      <4>1. {limit, c} \subseteq Nat
        BY <1>2, <2>2
      <4>2. Min({limit, c}) \in {limit, c} /\ \A y \in {limit, c} : Min({limit, c}) <= y
        BY <4>1, MinProperties
      <4>3. QED
        BY <1>2, <2>2, <4>2
    <3>2. list = SubSeq(full, 1, q)
      BY <1>6, <2>2, <3>1 DEF LimitParticipants
    <3> HIDE DEF q, list
    <3>3. SubSeq(full, 1, q) = [k \in 1..q |-> full[k]]
      BY <1>6, <1>7, <1>2
    <3>4. \A k \in 1..q : full[k] = Order[kept[k]] /\ full[k] \in Employee
      BY <1>2, <1>5, <1>6, <1>7
    <3>5. q \in Nat
      BY <1>2, <1>7
    <3>6. QED
      BY <3>2, <3>3, <3>4, <3>5
  <2>3. QED
    BY <2>1, <2>2
<1>9. \A x \in others : rank(x) <= limit <=> rank(x) \in 1..q
  BY <1>2, <1>3
<1>10. \A k \in 1..c : rank(kept[k]) = k
  <2>1. ASSUME NEW k \in 1..c
        PROVE  rank(kept[k]) = k
    <3>1. PICK r \in 1..c : r = rank(kept[k]) /\ kept[r] = kept[k]
      BY <1>3, <1>5
    <3>2. kept[k] \in Int /\ (r < k => kept[r] < kept[k]) /\ (k < r => kept[k] < kept[r])
      BY <1>3, <1>5
    <3>3. r = k
      BY <1>2, <3>1, <3>2
    <3>4. QED
      BY <3>1, <3>3
  <2>2. QED
    BY <2>1
<1> HIDE DEF q, list, rank
<1> DEFINE reached == Reached(author, limit)
<1>11. \A x \in others : x \in reached <=> rank(x) \in 1..q
  BY <1>9 DEF Reached, rank, others
<1>12. reached \subseteq others
  BY DEF Reached, others
<1> HIDE DEF reached
<1>13. reached = {kept[k] : k \in 1..q}
  <2>1. 1..q \subseteq 1..c
    BY <1>2, <1>7
  <2>2. \A k \in 1..q : kept[k] \in reached
    BY <1>5, <1>10, <1>11, <2>1
  <2>3. \A x \in reached : \E k \in 1..q : x = kept[k]
    BY <1>3, <1>11, <1>12 DEF rank
  <2>4. QED
    BY <2>2, <2>3
<1>14. Cardinality(reached) = q
  <2> DEFINE f == [k \in 1..q |-> kept[k]]
  <2>1. 1..q \subseteq 1..c /\ q \in Nat
    BY <1>2, <1>7
  <2>2. \A i, j \in 1..q : kept[i] = kept[j] => i = j
    BY <1>10, <2>1
  <2>3. f \in Bijection(1..q, reached)
    BY <1>13, <2>2 DEF Bijection, Injection, Surjection, IsInjective
  <2>4. IsFiniteSet(1..q) /\ Cardinality(1..q) = q
    BY <2>1, FS_Interval
  <2> HIDE DEF f
  <2>5. ExistsBijection(1..q, reached)
    BY <2>3 DEF ExistsBijection
  <2>6. QED
    BY <2>4, <2>5, FS_Bijection
<1>15. ToSet(list) = {Order[i] : i \in reached}
  <2>1. DOMAIN list = 1..q
    BY <1>8, LenProperties
  <2>2. ToSet(list) = {list[k] : k \in 1..q}
    BY <2>1 DEF ToSet
  <2>3. QED
    BY <1>8, <1>13, <2>2
<1>16. IsInjective(Order) => IsInjective(list)
  <2>1. DOMAIN Order = 1..Len(Order) /\ DOMAIN list = 1..q /\ 1..q \subseteq 1..c
    BY <1>2, <1>7, <1>8, RosterAssumption, LenProperties
  <2>2. SUFFICES ASSUME IsInjective(Order), NEW i \in 1..q, NEW j \in 1..q,
                        list[i] = list[j]
                 PROVE  i = j
    BY <2>1 DEF IsInjective
  <2>3. /\ kept[i] \in 1..Len(Order) /\ kept[j] \in 1..Len(Order)
        /\ Order[kept[i]] = Order[kept[j]]
    BY <1>1, <1>5, <1>8, <2>1, <2>2
  <2>4. kept[i] = kept[j]
    BY <2>1, <2>2, <2>3 DEF IsInjective
  <2>5. rank(kept[i]) = i /\ rank(kept[j]) = j
    BY <1>10, <2>1
  <2>6. QED
    BY <2>4, <2>5
<1>17. QED
  BY <1>1, <1>2, <1>7, <1>8, <1>14, <1>15, <1>16 DEF list, full, reached

(* The draws of a broadcast are in range. *)
LEMMA DrawsInRange ==
    ASSUME NEW m \in Messages, NEW order \in Seq(Employee), Len(order) \in 0..Len(Order)
    PROVE  \A k \in 1..Len(order) : Intn(m.ts, order, k) \in 1..k
<1>1. Len(Order) \in Nat
  BY RosterAssumption, LenProperties
<1>2. order \in [1..Len(order) -> Employee]
  BY LenProperties, ElementOfSeq
<1>3. order \in BoundedSeq(Employee, Len(Order))
  BY <1>2 DEF BoundedSeq, SeqOf
<1>4. m.ts \in {i.ts : i \in Messages}
  OBVIOUS
<1>5. 1..Len(order) \subseteq 1..Len(Order)
  BY <1>1
<1>6. QED
  BY <1>3, <1>4, <1>5, DrawAssumption

(* BroadcastReachesRoster: a broadcast goes to the first members of the    *)
(* roster but its poster, whatever the shuffle draws; each of them once,   *)
(* if the order has nobody twice.                                          *)
THEOREM BroadcastsReachTheRoster == Spec => []BroadcastReachesRoster
<1>1. ASSUME CheckInv
      PROVE  BroadcastReachesRoster
  <2> DEFINE limit == IF in.text.broadcast = "everyone" THEN EveryoneLimit
                      ELSE ChannelLimit
             list == LimitParticipants(OrderExcludingPoster(in.author), limit)
             reached == Reached(in.author, limit)
  <2>1. SUFFICES ASSUME Evaluated("message"), ~in.bypass, in.text.broadcast # "none"
                 PROVE  /\ ToSet(decision.employees) = {Order[i] : i \in reached}
                        /\ Len(decision.employees) = Cardinality(reached)
                        /\ IsInjective(Order) => IsInjective(decision.employees)
    BY DEF BroadcastReachesRoster, Reached, Others
  <2>2. in \in Messages /\ decision = Decide(in)
    BY <1>1, <2>1, MessageEvaluated
  <2>3. limit \in Int
    BY RosterAssumption
  <2>4. decision.employees = ShuffleOrder(in.ts, list)
    BY <2>1, <2>2 DEF Decide, Broadcasts
  <2> HIDE DEF limit
  <2>5. /\ list \in Seq(Employee) /\ Len(list) \in 0..Len(Order)
        /\ Len(list) = Cardinality(reached)
        /\ ToSet(list) = {Order[i] : i \in reached}
        /\ IsInjective(Order) => IsInjective(list)
    BY <2>3, LimitedOrder
  <2> HIDE DEF list, reached
  <2>6. \A k \in 1..Len(list) : Intn(in.ts, list, k) \in 1..k
    BY <2>2, <2>5, DrawsInRange
  <2>7. /\ decision.employees \in [1..Len(list) -> Employee]
        /\ ToSet(decision.employees) = ToSet(list)
        /\ IsInjective(list) => IsInjective(decision.employees)
    BY <2>4, <2>5, <2>6, ShuffleKeeps
  <2>8. Len(list) \in Nat
    BY <2>5, LenProperties
  <2>9. Len(decision.employees) = Len(list)
    BY <2>7, <2>8
  <2>10. QED
    BY <2>5, <2>7, <2>9
<1>2. QED
  BY <1>1, CheckAlways, PTL
------------------------------------------------------------------------------
(* What a start makes of the environment. *)

(* The greater, and the smaller, of two numbers. *)
LEMMA OfTwo ==
    ASSUME NEW a \in Int, NEW b \in Int
    PROVE  /\ Max({a, b}) = IF a >= b THEN a ELSE b
           /\ Min({a, b}) = IF a <= b THEN a ELSE b
<1>1. Max({a, b}) \in {a, b} /\ \A y \in {a, b} : Max({a, b}) >= y
  <2>1. \E x \in {a, b} : \A y \in {a, b} : x >= y
    OBVIOUS
  <2>2. QED
    BY <2>1 DEF Max
<1>2. Min({a, b}) \in {a, b} /\ \A y \in {a, b} : Min({a, b}) <= y
  <2>1. \E x \in {a, b} : \A y \in {a, b} : x <= y
    OBVIOUS
  <2>2. QED
    BY <2>1 DEF Min
<1>3. QED
  BY <1>1, <1>2

(* The operators Settings brings along are those used here. *)
LEMMA SettingsOperators ==
    /\ \A s : S!Max(s) = Max(s) /\ S!Min(s) = Min(s) /\ S!ToSet(s) = ToSet(s)
    /\ \A s, r : S!Selected(s, r) = Selected(s, r) /\ S!SortedBy(s, r) = SortedBy(s, r)
    /\ \A s : S!SetToSeqs(s) = SetToSeqs(s)
<1>1. \A s : S!Max(s) = Max(s)
  BY DEF S!Max, Max
<1>2. \A s : S!Min(s) = Min(s)
  BY DEF S!Min, Min
<1>3. \A s : S!ToSet(s) = ToSet(s)
  BY DEF S!ToSet, ToSet
<1>4. \A s : S!Cardinality(s) = Cardinality(s)
  BY DEF S!Cardinality, Cardinality
<1>5. \A s, r : S!Selected(s, r) = Selected(s, r)
  <2>1. \A s, x : S!UpTo(s, x) = UpTo(s, x)
    BY DEF S!UpTo, UpTo
  <2>2. \A s : S!InOrder(s) = InOrder(s)
    BY <1>4, <2>1 DEF S!InOrder, InOrder
  <2>3. QED
    BY <1>4, <2>2 DEF S!Selected, Selected
<1>6. \A s, r : S!SortedBy(s, r) = SortedBy(s, r)
  <2>1. \A s, r, x : S!Before(s, r, x) = Before(s, r, x)
    BY DEF S!Before, Before
  <2>2. QED
    BY <1>4, <2>1 DEF S!SortedBy, SortedBy
<1>7. \A s : S!SetToSeqs(s) = SetToSeqs(s)
  BY <1>4 DEF S!SetToSeqs, SetToSeqs
<1>8. QED
  BY <1>1, <1>2, <1>3, <1>5, <1>6, <1>7

(* Assignments leave finitely many user ids, each with a key it was given. *)
LEMMA AssignedKeys ==
    ASSUME NEW K, NEW U, NEW pairs \in Seq([key : K, uid : U])
    PROVE  /\ IsFiniteSet(DOMAIN S!Assigned(pairs))
           /\ \A u \in DOMAIN S!Assigned(pairs) : S!Assigned(pairs)[u] \in K
<1> DEFINE n == Len(pairs)
           D == {pairs[i].uid : i \in 1..n}
<1>1. /\ n \in Nat /\ DOMAIN pairs = 1..n
      /\ \A i \in 1..n : pairs[i] \in [key : K, uid : U]
  BY LenProperties, ElementOfSeq
<1>2. S!Assigned(pairs) = [u \in D |-> pairs[Max({i \in 1..n : pairs[i].uid = u})].key]
  BY <1>1, SettingsOperators DEF S!Assigned
<1>3. IsFiniteSet(D)
  <2> DEFINE f == [i \in 1..n |-> pairs[i].uid]
  <2>1. f \in Surjection(1..n, D)
    BY DEF Surjection
  <2>2. IsFiniteSet(1..n)
    <3> HIDE DEF n
    <3>1. QED
      BY <1>1, FS_Interval
  <2> HIDE DEF f, D, n
  <2>3. QED
    BY <2>1, <2>2, FS_Surjection
<1>4. ASSUME NEW u \in D
      PROVE  pairs[Max({i \in 1..n : pairs[i].uid = u})].key \in K
  <2> DEFINE given == {i \in 1..n : pairs[i].uid = u}
  <2>1. given \subseteq 1..n /\ given # {}
    BY <1>4
  <2>2. Max(given) \in 1..n
    <3> HIDE DEF n, given
    <3>1. QED
      BY <1>1, <2>1, MaxProperties
  <2> HIDE DEF given
  <2>3. pairs[Max(given)].key \in K
    BY <1>1, <2>2
  <2>4. QED
    BY <2>3 DEF given
<1>5. QED
  BY <1>2, <1>3, <1>4

(* parseBotUserMap: a roster has finitely many bots, each with a key. *)
LEMMA RosterOfBots ==
    ASSUME NEW e \in Environments
    PROVE  /\ IsFiniteSet(DOMAIN S!BotUserMap(e.env))
           /\ \A u \in DOMAIN S!BotUserMap(e.env) : S!BotUserMap(e.env)[u] \in Employee
<1> DEFINE bots == e.env.bots
<1>1. CASE e.env.keyed
  <2> DEFINE Pair == [key : Employee \cup {Blank}, uid : User \cup {Blank}]
             places == {i \in DOMAIN bots : Blank \notin {bots[i].key, bots[i].uid}}
             pairs == Selected(bots, places)
             c == Cardinality(places)
  <2>1. bots \in Seq(Pair) /\ DOMAIN bots = 1..Len(bots)
    BY <1>1, EnvironmentAssumption, LenProperties
  <2>2. \A i \in places : bots[i] \in [key : Employee, uid : User]
    <3>1. \A i \in DOMAIN bots : bots[i] \in Pair
      BY <2>1, ElementOfSeq
    <3>2. QED
      BY <3>1
  <2>3. /\ DOMAIN pairs = 1..c /\ Len(pairs) = c /\ c \in Nat /\ pairs \in Seq(Pair)
        /\ \A k \in 1..c : InOrder(places)[k] \in places
                             /\ pairs[k] = bots[InOrder(places)[k]]
    <3>1. places \subseteq 1..Len(bots)
      BY <2>1
    <3> HIDE DEF places, Pair, bots
    <3>2. /\ Selected(bots, places) \in Seq(Pair) /\ c \in Nat
          /\ Len(Selected(bots, places)) = c /\ DOMAIN Selected(bots, places) = 1..c
      <4>1. bots \in Seq(Pair)
        BY <2>1
      <4> HIDE DEF c
      <4>2. /\ Selected(bots, places) \in Seq(Pair) /\ Cardinality(places) \in Nat
            /\ DOMAIN Selected(bots, places) = 1..Cardinality(places)
            /\ Len(Selected(bots, places)) = Cardinality(places)
        BY <3>1, <4>1, SelectedProperties
      <4>3. QED
        BY <4>2 DEF c
    <3>3. \A k \in 1..c : /\ InOrder(places)[k] \in places
                          /\ Selected(bots, places)[k] = bots[InOrder(places)[k]]
      <4>1. bots \in Seq(Pair)
        BY <2>1
      <4> HIDE DEF c
      <4>2. \A k \in 1..Cardinality(places) : InOrder(places)[k] \in places
        BY <3>1, <4>1, SelectedProperties
      <4>3. \A k \in 1..Cardinality(places) :
               Selected(bots, places)[k] = bots[InOrder(places)[k]]
        BY DEF Selected
      <4>4. QED
        BY <4>2, <4>3 DEF c
    <3>4. QED
      BY <3>2, <3>3
  <2> HIDE DEF pairs, places, c
  <2>4. \A k \in 1..c : pairs[k] \in [key : Employee, uid : User]
    BY <2>2, <2>3
  <2>5. pairs \in Seq([key : Employee, uid : User])
    <3> DEFINE Given == [key : Employee, uid : User]
    <3> HIDE DEF Given
    <3>1. pairs = [k \in 1..c |-> pairs[k]]
      BY <2>3, LenProperties
    <3>2. \A k \in 1..c : pairs[k] \in Given
      BY <2>4 DEF Given
    <3>3. pairs \in [1..c -> Given]
      BY <3>1, <3>2
    <3>4. pairs \in Seq(Given)
      BY <2>3, <3>3
    <3>5. QED
      BY <3>4 DEF Given
  <2>6. S!BotUserMap(e.env) = S!Assigned(pairs)
    BY <1>1, SettingsOperators DEF S!BotUserMap, S!KeyedMap, pairs, places
  <2>7. QED
    BY <2>5, <2>6, AssignedKeys
<1>2. CASE ~e.env.keyed
  <2> DEFINE ids == S!NonBlank(bots)
             n == Min({Len(ids), Len(DefaultSquadOrder)})
             pairs == [i \in 1..n |-> [uid |-> ids[i], key |-> DefaultSquadOrder[i]]]
  <2>1. bots \in Seq(User \cup {Blank}) /\ DOMAIN bots = 1..Len(bots)
    BY <1>2, EnvironmentAssumption, LenProperties
  <2>2. ids \in Seq(User \cup {Blank})
    <3> DEFINE places == {i \in DOMAIN bots : bots[i] # Blank}
    <3>1. places \subseteq 1..Len(bots)
      BY <2>1
    <3> HIDE DEF places
    <3>2. Selected(bots, places) \in Seq(User \cup {Blank})
      BY <2>1, <3>1, SelectedProperties
    <3>3. QED
      BY <3>2, SettingsOperators DEF places, S!NonBlank
  <2> HIDE DEF ids
  <2>3. DefaultSquadOrder \in Seq(Employee)
    BY EnvironmentAssumption
  <2>4. n \in Nat /\ n <= Len(ids) /\ n <= Len(DefaultSquadOrder)
    <3>1. Len(ids) \in Nat /\ Len(DefaultSquadOrder) \in Nat
      BY <2>2, <2>3, LenProperties
    <3> DEFINE a == Len(ids)
               b == Len(DefaultSquadOrder)
    <3> HIDE DEF a, b
    <3>2. a \in Nat /\ b \in Nat /\ n = Min({a, b})
      BY <3>1 DEF a, b
    <3> HIDE DEF n
    <3>3. n = IF a <= b THEN a ELSE b
      BY <3>2, OfTwo
    <3>4. n \in Nat /\ n <= a /\ n <= b
      BY <3>2, <3>3
    <3>5. QED
      BY <3>4 DEF a, b
  <2>5. \A i \in 1..n : ids[i] \in User \cup {Blank} /\ DefaultSquadOrder[i] \in Employee
    <3>1. /\ \A i \in 1..n : i \in 1..Len(ids) /\ i \in 1..Len(DefaultSquadOrder)
      <4>1. Len(ids) \in Nat /\ Len(DefaultSquadOrder) \in Nat
        BY <2>2, <2>3, LenProperties
      <4> HIDE DEF n
      <4>2. QED
        BY <2>4, <4>1
    <3>2. QED
      BY <2>2, <2>3, <3>1, ElementOfSeq
  <2>6. pairs \in Seq([key : Employee, uid : User \cup {Blank}])
    <3> HIDE DEF n
    <3>1. \A i \in 1..n : pairs[i] \in [key : Employee, uid : User \cup {Blank}]
      BY <2>5
    <3>2. QED
      BY <2>4, <3>1
  <2>7. S!BotUserMap(e.env) = S!Assigned(pairs)
    BY <1>2, SettingsOperators DEF S!BotUserMap, S!PositionalMap, ids
  <2> HIDE DEF pairs
  <2>8. QED
    BY <2>6, <2>7, AssignedKeys
<1>3. QED
  BY <1>1, <1>2

(* Whatever order Go walks the roster in, it comes by every bot.           *)
LEMMA WalksSeeAll ==
    ASSUME NEW e \in Environments, NEW walk \in S!Walks(e.env)
    PROVE  /\ DOMAIN walk = 1..Len(walk)
           /\ ToSet(walk) = DOMAIN S!BotUserMap(e.env)
           /\ {walk[i] : i \in 1..Len(walk)} = DOMAIN S!BotUserMap(e.env)
<1> DEFINE D == DOMAIN S!BotUserMap(e.env)
           c == Cardinality(D)
<1>1. IsFiniteSet(D) /\ c \in Nat
  BY RosterOfBots, FS_CardinalityType
<1>2. walk \in [1..c -> D] /\ \A i, j \in 1..c : i # j => walk[i] # walk[j]
  BY SettingsOperators DEF S!Walks, SetToSeqs
<1> HIDE DEF D, c
<1>3. Len(walk) = c /\ DOMAIN walk = 1..c
  BY <1>1, <1>2
<1>4. walk \in Surjection(1..c, D)
  <2>1. walk \in Injection(1..c, D)
    BY <1>2 DEF Injection, IsInjective
  <2>2. IsFiniteSet(1..c) /\ Cardinality(1..c) = Cardinality(D)
    BY <1>1, FS_Interval DEF c
  <2>3. QED
    BY <1>1, <2>1, <2>2, FS_Injection
<1>5. ToSet(walk) = {walk[i] : i \in 1..c}
  BY <1>3 DEF ToSet
<1>6. {walk[i] : i \in 1..c} = D
  BY <1>2, <1>4 DEF Surjection
<1>7. QED
  BY <1>3, <1>5, <1>6 DEF D

(* The keys of a roster. *)
Keys(map) == {map[u] : u \in DOMAIN map}

(* So a start depends on the environment only.                             *)
LEMMA StartsAgree ==
    ASSUME NEW e \in Environments, NEW walk \in S!Walks(e.env), NEW again \in S!Walks(e.env)
    PROVE  S!FromEnv(e.env, walk) = S!FromEnv(e.env, again)
<1> DEFINE map == S!BotUserMap(e.env)
<1>1. ASSUME NEW w \in S!Walks(e.env)
      PROVE  /\ {map[w[i]] : i \in 1..Len(w)} = Keys(map)
             /\ ToSet(w) = DOMAIN map
  <2> HIDE DEF map
  <2>1. {w[i] : i \in 1..Len(w)} = DOMAIN map /\ ToSet(w) = DOMAIN map
    BY WalksSeeAll DEF map
  <2>2. QED
    BY <2>1 DEF Keys
<1> HIDE DEF map
<1>2. S!RosterKeys(map, walk) = S!RosterKeys(map, again)
  BY <1>1 DEF S!RosterKeys
<1>3. S!DerivedShuffleSeed(map, walk) = S!DerivedShuffleSeed(map, again)
  BY <1>1, SettingsOperators DEF S!DerivedShuffleSeed
<1>4. \A explicit, secret :
          S!ResolveMultiagentOrder(explicit, map, secret, walk) =
              S!ResolveMultiagentOrder(explicit, map, secret, again)
  BY <1>2 DEF S!ResolveMultiagentOrder
<1>5. QED
  BY <1>3, <1>4 DEF S!FromEnv, map

(* RestartsAgree: whatever order the roster is walked in, a restart in the *)
(* same environment gives the same configuration.                          *)
THEOREM RestartsGiveTheSame == Spec => RestartsAgree
<1>1. CheckInv /\ [Next]_vars => [Evaluated("environment") => decision' = decision]_vars
  <2> SUFFICES ASSUME CheckInv, Next, Evaluated("environment")
               PROVE  decision' = decision
    OBVIOUS
  <2>1. in.kind = "environment" /\ decided
    BY DEF Evaluated
  <2>2. in \in Environments
    BY <2>1, CheckAssumption DEF CheckInv
  <2>3. Restarts
    BY <2>1 DEF Next, Decides, Classifies, Extracts, Starts, Evaluates
  <2>4. PICK walk \in S!Walks(in.env) : decision = S!FromEnv(in.env, walk)
    BY DEF CheckInv
  <2>5. PICK again \in S!Walks(in.env) : decision' = S!FromEnv(in.env, again)
    BY <2>3 DEF Restarts
  <2>6. QED
    BY <2>2, <2>4, <2>5, StartsAgree
<1>2. QED
  BY <1>1, CheckAlways, PTL DEF Spec, RestartsAgree
(* A sorted list of keys has each of them once. *)
LEMMA SortedKeys ==
    ASSUME NEW set, set \subseteq Employee, IsFiniteSet(set)
    PROVE  /\ S!SortStrings(set) \in Seq(Employee) /\ ToSet(S!SortStrings(set)) = set
           /\ Len(S!SortStrings(set)) = Cardinality(set)
<1> DEFINE R == {pair \in set \X set : Precedes(pair[1], pair[2])}
           r == SortedBy(set, R)
<1>1. S!SortStrings(set) = r
  BY SettingsOperators DEF S!SortStrings
<1>2. IsStrictOrder(set, R)
  <2>1. \A x, y \in set : <<x, y>> \in R <=> Precedes(x, y)
    OBVIOUS
  <2> HIDE DEF R
  <2>2. \A x \in set : <<x, x>> \notin R
    BY <2>1, StringAssumption
  <2>3. \A x, y \in set : x = y \/ <<x, y>> \in R \/ <<y, x>> \in R
    BY <2>1, StringAssumption
  <2>4. \A x, y, z \in set : <<x, y>> \in R /\ <<y, z>> \in R => <<x, z>> \in R
    <3>1. ASSUME NEW x \in set, NEW y \in set, NEW z \in set, Precedes(x, y), Precedes(y, z)
          PROVE  Precedes(x, z)
      BY <3>1, StringAssumption
    <3>2. QED
      BY <2>1, <3>1
  <2>5. QED
    BY <2>2, <2>3, <2>4 DEF IsStrictOrder
<1> HIDE DEF R
<1>3. r \in Seq(set) /\ ToSet(r) = set /\ Len(r) = Cardinality(set)
  BY <1>2, SortedByProperties
<1> HIDE DEF r
<1>4. r \in Seq(Employee)
  <2>1. Len(r) \in Nat /\ \A k \in 1..Len(r) : r[k] \in Employee
    BY <1>3, LenProperties, ElementOfSeq
  <2>2. r = [k \in 1..Len(r) |-> r[k]]
    BY <1>3, LenProperties
  <2>3. r \in [1..Len(r) -> Employee]
    BY <2>1, <2>2
  <2>4. QED
    BY <2>1, <2>3
<1>5. QED
  BY <1>1, <1>3, <1>4

(* The order that is made of a roster has each of its keys once.           *)
LEMMA RosterIsShuffled ==
    ASSUME NEW e \in Environments, NEW walk \in S!Walks(e.env),
           S!NonBlank(e.env.order) = <<>>
    PROVE  /\ ToSet(S!FromEnv(e.env, walk).multiagentOrder) =
                  Keys(S!FromEnv(e.env, walk).botUserToKey)
           /\ IsInjective(S!FromEnv(e.env, walk).multiagentOrder)
<1> DEFINE start == S!FromEnv(e.env, walk)
           map == start.botUserToKey
           secret == start.shuffleSecret
           keys == S!RosterKeys(map, walk)
           n == Len(keys)
           order == ShuffleOrder(secret, keys)
<1>1. map = S!BotUserMap(e.env)
  BY DEF S!FromEnv
<1>2. start.multiagentOrder = order
  BY <1>1 DEF S!FromEnv, S!ResolveMultiagentOrder
<1>3. IsFiniteSet(DOMAIN map) /\ \A u \in DOMAIN map : map[u] \in Employee
  BY <1>1, RosterOfBots
<1>4. keys = S!SortStrings(Keys(map))
  <2>1. {walk[i] : i \in 1..Len(walk)} = DOMAIN map
    BY <1>1, WalksSeeAll
  <2> HIDE DEF map
  <2>2. {map[walk[i]] : i \in 1..Len(walk)} = Keys(map)
    BY <2>1 DEF Keys
  <2>3. QED
    BY <2>2 DEF S!RosterKeys
<1>5. \A k \in DOMAIN keys : Intn(secret, keys, k) \in 1..k
  BY DrawAssumption
<1> HIDE DEF start, map, secret, keys
<1>6. Keys(map) \subseteq Employee /\ IsFiniteSet(Keys(map))
  <2> DEFINE f == [u \in DOMAIN map |-> map[u]]
  <2>1. f \in Surjection(DOMAIN map, Keys(map))
    BY DEF Surjection, Keys
  <2> HIDE DEF f
  <2>2. IsFiniteSet(Keys(map))
    BY <1>3, <2>1, FS_Surjection
  <2>3. QED
    BY <1>3, <2>2 DEF Keys
<1>7. /\ keys \in Seq(Employee) /\ ToSet(keys) = Keys(map)
      /\ n = Cardinality(Keys(map)) /\ n \in Nat /\ DOMAIN keys = 1..n
  BY <1>4, <1>6, SortedKeys, LenProperties
<1>8. order \in [1..n -> Employee] /\ ToSet(order) = Keys(map)
  BY <1>5, <1>7, ShuffleKeeps
<1> HIDE DEF order, n
<1>9. IsInjective(order)
  <2>1. Keys(map) = {order[k] : k \in 1..n}
    BY <1>8 DEF ToSet
  <2>2. order \in Surjection(1..n, Keys(map))
    BY <1>8, <2>1 DEF Surjection
  <2>3. IsFiniteSet(1..n) /\ Cardinality(1..n) = Cardinality(Keys(map))
    BY <1>7, FS_Interval, SMTT(30)
  <2>4. order \in Injection(1..n, Keys(map))
    BY <2>2, <2>3, FS_SurjSameCardinalityImpliesInj
  <2>5. QED
    BY <2>4 DEF Injection
<1>10. QED
  BY <1>2, <1>8, <1>9 DEF start, map

(* max and min keep a number in its range. *)
LEMMA ClampedInRange ==
    /\ \A low, n \in Int : S!AtLeast(low, n) \in Int /\ S!AtLeast(low, n) >= low
    /\ \A low, high, n \in Int : low <= high => S!Clamp(low, high, n) \in low..high
<1>1. ASSUME NEW low \in Int, NEW n \in Int
      PROVE  S!AtLeast(low, n) \in Int /\ S!AtLeast(low, n) >= low
  <2>1. S!AtLeast(low, n) = IF low >= n THEN low ELSE n
    BY OfTwo, SettingsOperators DEF S!AtLeast
  <2>2. QED
    BY <2>1
<1>2. ASSUME NEW low \in Int, NEW high \in Int, NEW n \in Int, low <= high
      PROVE  S!Clamp(low, high, n) \in low..high
  <2> DEFINE a == S!AtLeast(low, n)
  <2>1. a \in Int /\ a >= low
    BY <1>1
  <2>2. S!Clamp(low, high, n) = Min({high, a})
    BY SettingsOperators DEF S!Clamp
  <2> HIDE DEF a
  <2>3. Min({high, a}) = IF high <= a THEN high ELSE a
    BY <2>1, OfTwo
  <2>4. QED
    BY <1>2, <2>1, <2>2, <2>3
<1>3. QED
  BY <1>1, <1>2

(* The numbers of a configuration are within the bounds FromEnv gives them. *)
SizesInRange(start) ==
    /\ start.eventsAPIWorkers > 0 /\ start.eventsAPIQueueSize > 0
    /\ start.publishMaxAttempts \in 1..10
    /\ start.publishRetryBaseMS \in 0..5000

(* FromEnv clamps the numbers, whatever the environment holds. *)
LEMMA NumbersAreClamped ==
    ASSUME NEW e \in Environments, NEW walk \in S!Walks(e.env),
           NEW start, start = S!FromEnv(e.env, walk)
    PROVE  SizesInRange(start)
<1>1. /\ start.eventsAPIWorkers = S!AtLeast(1, S!IntOr(e.env.workers, 8))
      /\ start.eventsAPIQueueSize = S!AtLeast(1, S!IntOr(e.env.queueSize, 256))
      /\ start.publishMaxAttempts = S!Clamp(1, 10, S!IntOr(e.env.attempts, 3))
      /\ start.publishRetryBaseMS = S!Clamp(0, 5000, S!IntOr(e.env.retryBase, 50))
  BY DEF S!FromEnv
<1>2. /\ S!IntOr(e.env.workers, 8) \in Int /\ S!IntOr(e.env.queueSize, 256) \in Int
      /\ S!IntOr(e.env.attempts, 3) \in Int /\ S!IntOr(e.env.retryBase, 50) \in Int
  BY EnvironmentAssumption DEF S!IntOr
<1>3. start.eventsAPIWorkers > 0
  <2> DEFINE low == 1
             v == S!IntOr(e.env.workers, 8)
  <2>1. low \in Int /\ v \in Int
    BY <1>2
  <2> HIDE DEF low, v
  <2>2. S!AtLeast(low, v) \in Int /\ S!AtLeast(low, v) >= low
    BY <2>1, ClampedInRange
  <2>3. QED
    BY <1>1, <2>2 DEF low, v
<1>4. start.eventsAPIQueueSize > 0
  <2> DEFINE low == 1
             v == S!IntOr(e.env.queueSize, 256)
  <2>1. low \in Int /\ v \in Int
    BY <1>2
  <2> HIDE DEF low, v
  <2>2. S!AtLeast(low, v) \in Int /\ S!AtLeast(low, v) >= low
    BY <2>1, ClampedInRange
  <2>3. QED
    BY <1>1, <2>2 DEF low, v
<1>5. start.publishMaxAttempts \in 1..10
  <2> DEFINE low == 1
             high == 10
             v == S!IntOr(e.env.attempts, 3)
  <2>1. low \in Int /\ high \in Int /\ low <= high /\ v \in Int
    BY <1>2
  <2> HIDE DEF low, high, v
  <2>2. S!Clamp(low, high, v) \in low..high
    BY <2>1, ClampedInRange
  <2>3. start.publishMaxAttempts = S!Clamp(low, high, v)
    BY <1>1 DEF low, high, v
  <2>4. start.publishMaxAttempts \in low..high
    BY <2>2, <2>3
  <2>5. QED
    BY <2>4 DEF low, high
<1>6. start.publishRetryBaseMS \in 0..5000
  <2> DEFINE low == 0
             high == 5000
             v == S!IntOr(e.env.retryBase, 50)
  <2>1. low \in Int /\ high \in Int /\ low <= high /\ v \in Int
    BY <1>2
  <2> HIDE DEF low, high, v
  <2>2. S!Clamp(low, high, v) \in low..high
    BY <2>1, ClampedInRange
  <2>3. start.publishRetryBaseMS = S!Clamp(low, high, v)
    BY <1>1 DEF low, high, v
  <2>4. start.publishRetryBaseMS \in low..high
    BY <2>2, <2>3
  <2>5. QED
    BY <2>4, ZenonT(120) DEF low, high
<1>7. QED
  BY <1>3, <1>4, <1>5, <1>6, ZenonT(120) DEF SizesInRange

(* OrderIsTheRoster: however Go walks the roster, and whatever the shuffle *)
(* draws, an order that is not given has each key once, and the sizes are  *)
(* in range.                                                               *)
THEOREM RosterMakesTheOrder == Spec => []OrderIsTheRoster
<1>1. ASSUME CheckInv
      PROVE  OrderIsTheRoster
  <2> SUFFICES ASSUME Evaluated("environment")
               PROVE  /\ S!NonBlank(in.env.order) = <<>> =>
                            /\ ToSet(decision.multiagentOrder) = Keys(decision.botUserToKey)
                            /\ IsInjective(decision.multiagentOrder)
                      /\ SizesInRange(decision)
    BY ZenonT(120) DEF OrderIsTheRoster, Keys, SizesInRange
  <2>1. in \in Environments
    BY <1>1, CheckAssumption DEF CheckInv, Evaluated
  <2>2. PICK walk \in S!Walks(in.env) : decision = S!FromEnv(in.env, walk)
    BY <1>1 DEF CheckInv
  <2>3. /\ S!NonBlank(in.env.order) = <<>> =>
               /\ ToSet(decision.multiagentOrder) = Keys(decision.botUserToKey)
               /\ IsInjective(decision.multiagentOrder)
    BY <2>1, <2>2, RosterIsShuffled
  <2>4. SizesInRange(decision)
    BY <2>1, <2>2, NumbersAreClamped
  <2>5. QED
    BY <2>3, <2>4
<1>2. QED
  BY <1>1, CheckAlways, PTL
------------------------------------------------------------------------------
(* What the guards see of a message. *)

(* A finite set as a sequence has each of its members. *)
LEMMA SequenceOfSet ==
    ASSUME NEW set, IsFiniteSet(set)
    PROVE  /\ DOMAIN SetToSeq(set) = 1..Len(SetToSeq(set))
           /\ ToSet(SetToSeq(set)) = set
<1> DEFINE c == Cardinality(set)
           s == SetToSeq(set)
<1>1. c \in Nat /\ ExistsBijection(1..c, set)
  BY FS_CardinalityType
<1>2. PICK f \in Bijection(1..c, set) : TRUE
  BY <1>1 DEF ExistsBijection
<1>3. f \in [1..c -> set] /\ IsInjective(f)
  BY <1>2 DEF Bijection, Injection
<1>4. s \in [1..c -> set] /\ IsInjective(s)
  BY <1>3 DEF SetToSeq
<1> HIDE DEF s, c
<1>5. DOMAIN s = 1..c /\ Len(s) = c
  BY <1>1, <1>4
<1>6. s \in Surjection(1..c, set)
  <2>1. s \in Injection(1..c, set)
    BY <1>4 DEF Injection
  <2>2. IsFiniteSet(1..c) /\ Cardinality(1..c) = Cardinality(set)
    BY <1>1, FS_Interval DEF c
  <2>3. QED
    BY <2>1, <2>2, FS_Injection
<1>7. ToSet(s) = {s[k] : k \in 1..c}
  BY <1>5 DEF ToSet
<1>8. {s[k] : k \in 1..c} = set
  BY <1>4, <1>6 DEF Surjection
<1>9. QED
  BY <1>5, <1>7, <1>8 DEF s

(* The joined text mentions whom any of the surfaces mentions. *)
LEMMA JoinedMentions ==
    ASSUME NEW surfaces, surfaces \subseteq Text, IsFiniteSet(surfaces)
    PROVE  Mentions(Joined(surfaces)) = UNION {Mentions(text) : text \in surfaces}
<1> DEFINE sets == {ToSet(text.words) : text \in surfaces}
           all == UNION sets
<1>1. ASSUME NEW text \in surfaces
      PROVE  IsFiniteSet(ToSet(text.words))
  <2> DEFINE n == Len(text.words)
             f == [i \in 1..n |-> text.words[i]]
  <2>1. n \in Nat /\ DOMAIN text.words = 1..n
    BY TextWords
  <2>2. f \in Surjection(1..n, ToSet(text.words))
    BY <2>1 DEF Surjection, ToSet
  <2> HIDE DEF f, n
  <2>3. IsFiniteSet(1..n)
    BY <2>1, FS_Interval
  <2>4. QED
    BY <2>2, <2>3, FS_Surjection
<1>2. IsFiniteSet(all)
  <2> DEFINE f == [text \in surfaces |-> ToSet(text.words)]
  <2>1. f \in Surjection(surfaces, sets)
    BY DEF Surjection
  <2> HIDE DEF f
  <2>2. IsFiniteSet(sets)
    BY <2>1, FS_Surjection
  <2>3. \A set \in sets : IsFiniteSet(set)
    BY <1>1
  <2> HIDE DEF sets
  <2>4. QED
    BY <2>2, <2>3, FS_UNION
<1>3. Joined(surfaces).words = SetToSeq(all)
  BY DEF Joined
<1>4. Mentions(Joined(surfaces)) = all \cap User
  <2> HIDE DEF all
  <2>1. ToSet(SetToSeq(all)) = all
    BY <1>2, SequenceOfSet
  <2>2. QED
    BY <1>3, <2>1 DEF Mentions
<1>5. QED
  BY <1>4 DEF Mentions

(* GuardsSeeEverySurface: whatever the parts of an event say, no mention   *)
(* of the squad and no word of it escapes the guards.                      *)
THEOREM GuardsReadEverything == Spec => []GuardsSeeEverySurface
<1>1. ASSUME CheckInv
      PROVE  GuardsSeeEverySurface
  <2> DEFINE event == in.event
             said == {event.top.text} \cup
                         (IF event.hasMessage THEN {event.message.text} ELSE {})
             squad(t) == t # Blank /\ Mentioned(t) # {}
             guard == Joined(decision.surfaces)
  <2> SUFFICES ASSUME Evaluated("payload")
               PROVE  /\ HasOnlyNonSquadMentions(guard) => ~\E t \in said : squad(t)
                      /\ Mentioned(guard) = {} => ~squad(decision.text)
                      /\ decision.text = Blank <=> said \subseteq {Blank} /\ decision.images = <<>>
    BY DEF GuardsSeeEverySurface
  <2>1. in \in Events /\ decision = P!Extract(event)
    BY <1>1, CheckAssumption DEF CheckInv, Evaluated
  <2>2. /\ said \subseteq Text \cup {Blank}
        /\ ImageText \in Text /\ ImageText # Blank
    BY <2>1, EventAssumption
  <2>3. /\ decision.text = P!RoutingText(event)
        /\ decision.images = P!MessageImages(event)
        /\ decision.surfaces = ({decision.text} \cup said) \ {Blank}
    BY <2>1 DEF P!Extract, P!MentionSurfaces
  <2>4. /\ decision.text \in said \cup {ImageText, Blank}
        /\ decision.text = Blank <=> said \subseteq {Blank} /\ decision.images = <<>>
    BY <2>2, <2>3 DEF P!RoutingText, P!Effective
  <2>5. decision.surfaces \subseteq Text /\ IsFiniteSet(decision.surfaces)
    <3>1. decision.surfaces \subseteq Text
      BY <2>2, <2>3, <2>4
    <3>2. decision.surfaces \subseteq
              ({decision.text} \cup {event.top.text}) \cup {event.message.text}
      BY <2>3
    <3>3. IsFiniteSet(({decision.text} \cup {event.top.text}) \cup {event.message.text})
      BY FS_Singleton, FS_Union
    <3>4. QED
      BY <3>1, <3>2, <3>3, FS_Subset
  <2>6. \A t \in decision.surfaces : Mentions(t) \subseteq Mentions(guard)
    BY <2>5, JoinedMentions
  <2>7. \A t : Mentioned(t) # {} <=> Mentions(t) \cap Squad # {}
    BY DEF Mentioned
  <2>8. \A t \in decision.surfaces : squad(t) => Mentions(guard) \cap Squad # {}
    BY <2>6, <2>7
  <2>9. ASSUME NEW t \in said \cup {decision.text}, squad(t)
        PROVE  t \in decision.surfaces
    BY <2>3, <2>9
  <2> HIDE DEF guard, said, squad
  <2>10. HasOnlyNonSquadMentions(guard) => ~\E t \in said : squad(t)
    BY <2>8, <2>9 DEF HasOnlyNonSquadMentions
  <2>11. Mentioned(guard) = {} => ~squad(decision.text)
    BY <2>7, <2>8, <2>9
  <2>12. QED
    BY <2>4, <2>10, <2>11 DEF said
<1>2. QED
  BY <1>1, CheckAlways, PTL
------------------------------------------------------------------------------
(* The names in a text. *)

(* The operators Tier1 brings along are those used here. *)
LEMMA TierOperators ==
    /\ \A s : T!Max(s) = Max(s) /\ T!Min(s) = Min(s) /\ T!ToSet(s) = ToSet(s)
    /\ \A s, r : T!Selected(s, r) = Selected(s, r) /\ T!SortedBy(s, r) = SortedBy(s, r)
    /\ \A s : T!Last(s) = Last(s)
<1>1. \A s : T!Max(s) = Max(s)
  BY DEF T!Max, Max
<1>2. \A s : T!Min(s) = Min(s)
  BY DEF T!Min, Min
<1>3. \A s : T!ToSet(s) = ToSet(s)
  BY DEF T!ToSet, ToSet
<1>4. \A s : T!Cardinality(s) = Cardinality(s)
  BY DEF T!Cardinality, Cardinality
<1>5. \A s, r : T!Selected(s, r) = Selected(s, r)
  <2>1. \A s, x : T!UpTo(s, x) = UpTo(s, x)
    BY DEF T!UpTo, UpTo
  <2>2. \A s : T!InOrder(s) = InOrder(s)
    BY <1>4, <2>1 DEF T!InOrder, InOrder
  <2>3. QED
    BY <1>4, <2>2 DEF T!Selected, Selected
<1>6. \A s, r : T!SortedBy(s, r) = SortedBy(s, r)
  <2>1. \A s, r, x : T!Before(s, r, x) = Before(s, r, x)
    BY DEF T!Before, Before
  <2>2. QED
    BY <1>4, <2>1 DEF T!SortedBy, SortedBy
<1>7. \A s : T!Last(s) = Last(s)
  BY DEF T!Last, Last
<1>8. QED
  BY <1>1, <1>2, <1>3, <1>5, <1>6, <1>7

(* The occurrences of the patterns in a text. *)
Spans(text) ==
    UNION {{T!Span(p, i) : i \in T!Places(p, text)} : p \in PatternEntries}

(* Where a pattern occurs. *)
LEMMA PlacesOfPattern ==
    ASSUME NEW text \in Seq(User \cup STRING), NEW p \in PatternEntries
    PROVE  /\ T!Places(p, text) \subseteq 1..Len(text)
           /\ T!Places(p, text) \subseteq Nat
           /\ Len(text) \in Nat /\ Len(p.words) \in Nat \ {0}
           /\ \A i \in T!Places(p, text) :
                 /\ T!Span(p, i).canonical = p.canonical /\ T!Span(p, i).start = i
                 /\ T!Span(p, i).end = i + Len(p.words) - 1
                 /\ T!Span(p, i).end \in i..Len(text)
<1>1. Len(text) \in Nat /\ Len(p.words) \in Nat \ {0}
  <2>1. p.words \in Seq(User \cup STRING) /\ p.words # <<>>
    BY PatternAssumption
  <2>2. QED
    BY <2>1, LenProperties, EmptySeq
<1>2. T!Places(p, text) \subseteq 1..Len(text)
  BY DEF T!Places
<1>3. ASSUME NEW i \in T!Places(p, text)
      PROVE  /\ T!Span(p, i).canonical = p.canonical /\ T!Span(p, i).start = i
             /\ T!Span(p, i).end = i + Len(p.words) - 1
             /\ T!Span(p, i).end \in i..Len(text)
  <2>1. i \in 1..Len(text) /\ i + Len(p.words) - 1 <= Len(text)
    BY DEF T!Places, T!OccursAt
  <2>2. /\ T!Span(p, i).canonical = p.canonical /\ T!Span(p, i).start = i
        /\ T!Span(p, i).end = i + Len(p.words) - 1
    BY DEF T!Span
  <2>3. i + Len(p.words) - 1 \in i..Len(text)
    BY <1>1, <2>1
  <2>4. QED
    BY <2>2, <2>3
<1>4. T!Places(p, text) \subseteq Nat
  BY <1>1, <1>2
<1>5. QED
  BY <1>1, <1>2, <1>3, <1>4

(* An occurrence within another is the same one, or its pattern is part of *)
(* the other's, which has more letters.                                    *)
LEMMA WithinIsPart ==
    ASSUME NEW text \in Seq(User \cup STRING), NEW p \in PatternEntries, NEW q \in PatternEntries,
           NEW i \in T!Places(p, text), NEW j \in T!Places(q, text),
           T!IsWithin(T!Span(p, i), T!Span(q, j))
    PROVE  \/ p = q /\ i = j
           \/ p # q /\ q.letters > p.letters
<1> DEFINE lp == Len(p.words)
           lq == Len(q.words)
           n == Len(text)
           at == i - j + 1
<1>1. /\ n \in Nat /\ lp \in Nat \ {0} /\ lq \in Nat \ {0}
      /\ i \in 1..n /\ j \in 1..n
  BY PlacesOfPattern
<1>2. i >= j /\ i + lp - 1 <= j + lq - 1
  <2>1. /\ T!Span(p, i).start = i /\ T!Span(p, i).end = i + lp - 1
        /\ T!Span(q, j).start = j /\ T!Span(q, j).end = j + lq - 1
    BY DEF T!Span
  <2>2. QED
    BY <2>1 DEF T!IsWithin
<1>3. CASE p = q
  BY <1>1, <1>2, <1>3
<1>4. CASE p # q
  <2>1. /\ \A k \in 1..lp : text[i + k - 1] = p.words[k]
        /\ \A k \in 1..lq : text[j + k - 1] = q.words[k]
    BY DEF T!Places, T!OccursAt
  <2>2. at \in 1..lq /\ at + lp - 1 <= lq
    <3> HIDE DEF lp, lq, n
    <3>1. QED
      BY <1>1, <1>2
  <2>3. ASSUME NEW k \in 1..lp
        PROVE  q.words[at + k - 1] = p.words[k]
    <3> DEFINE h == at + k - 1
    <3> HIDE DEF lp, lq, n
    <3>1. h \in 1..lq /\ j + h - 1 = i + k - 1
      BY <1>1, <2>2
    <3> HIDE DEF h
    <3>2. text[j + h - 1] = q.words[h]
      BY <2>1, <3>1
    <3>3. text[i + k - 1] = p.words[k]
      BY <2>1
    <3>4. q.words[h] = p.words[k]
      BY <3>1, <3>2, <3>3
    <3>5. QED
      BY <3>4 DEF h
  <2>4. T!OccursAt(p.words, q.words, at)
    BY <2>2, <2>3 DEF T!OccursAt
  <2>5. at \in T!Places(p, q.words)
    BY <2>2, <2>4 DEF T!Places
  <2>6. QED
    BY <1>4, <2>5, PatternAssumption
<1>5. QED
  BY <1>3, <1>4

(* Every occurrence lies within a name. *)
LEMMA OccurrencesAreInNames ==
    ASSUME NEW text \in Seq(User \cup STRING), NEW s \in Spans(text)
    PROVE  \E m \in NamesIn(text) : T!IsWithin(s, m)
<1> DEFINE n == Len(text)
           C == {m \in Spans(text) : T!IsWithin(s, m)}
           Size(m) == m.end - m.start + 1
           L == {Size(m) : m \in C}
<1>1. n \in Nat
  BY LenProperties
<1>2. \A m \in Spans(text) : /\ m.start \in 1..n /\ m.end \in m.start..n
                             /\ \E p \in PatternEntries : \E i \in T!Places(p, text) :
                                   m = T!Span(p, i)
  <2>1. ASSUME NEW m \in Spans(text)
        PROVE  /\ m.start \in 1..n /\ m.end \in m.start..n
               /\ \E p \in PatternEntries : \E i \in T!Places(p, text) :
                     m = T!Span(p, i)
    <3>1. PICK p \in PatternEntries : \E i \in T!Places(p, text) : m = T!Span(p, i)
      BY DEF Spans
    <3>2. PICK i \in T!Places(p, text) : m = T!Span(p, i)
      BY <3>1
    <3>3. i \in 1..n /\ T!Span(p, i).start = i /\ T!Span(p, i).end \in i..n
      BY PlacesOfPattern
    <3>4. QED
      BY <3>2, <3>3
  <2>2. QED
    BY <2>1
<1> HIDE DEF n
<1>3. s \in C
  <2>1. s.start \in Int /\ s.end \in Int
    BY <1>1, <1>2
  <2>2. QED
    BY <2>1 DEF T!IsWithin
<1>4. PICK m \in C : \A o \in C : Size(m) >= Size(o)
  <2>1. L \subseteq 1..n /\ L # {}
    <3>1. \A o \in C : Size(o) \in 1..n
      BY <1>1, <1>2
    <3>2. QED
      BY <1>3, <3>1
  <2>2. Max(L) \in L /\ \A y \in L : Max(L) >= y
    <3> HIDE DEF L
    <3>1. QED
      BY <1>1, <2>1, MaxProperties
  <2>3. PICK m \in C : Max(L) = Size(m)
    BY <2>2
  <2>4. \A o \in C : Size(m) >= Size(o)
    BY <2>2, <2>3
  <2>5. QED
    BY <2>4
<1>5. ASSUME NEW o \in Spans(text), T!IsWithin(m, o)
      PROVE  o = m
  <2>1. /\ s.start \in Int /\ s.end \in Int /\ m.start \in Int /\ m.end \in Int
        /\ o.start \in Int /\ o.end \in Int
    BY <1>1, <1>2
  <2>2. o \in C
    BY <1>5, <2>1 DEF T!IsWithin
  <2>3. Size(m) >= Size(o)
    BY <1>4, <2>2
  <2>4. T!IsWithin(o, m)
    BY <1>5, <2>1, <2>3 DEF T!IsWithin
  <2>5. PICK p \in PatternEntries : \E i \in T!Places(p, text) : m = T!Span(p, i)
    BY <1>2
  <2>6. PICK i \in T!Places(p, text) : m = T!Span(p, i)
    BY <2>5
  <2>7. PICK q \in PatternEntries : \E j \in T!Places(q, text) : o = T!Span(q, j)
    BY <1>2
  <2>8. PICK j \in T!Places(q, text) : o = T!Span(q, j)
    BY <2>7
  <2>9. (p = q /\ i = j) \/ (p # q /\ q.letters > p.letters)
    <3>1. T!IsWithin(T!Span(p, i), T!Span(q, j))
      BY <1>5, <2>6, <2>8
    <3>2. QED
      BY <3>1, WithinIsPart
  <2>10. (q = p /\ j = i) \/ (q # p /\ p.letters > q.letters)
    <3>1. T!IsWithin(T!Span(q, j), T!Span(p, i))
      BY <2>4, <2>6, <2>8
    <3>2. QED
      BY <3>1, WithinIsPart
  <2>11. p.letters \in Int /\ q.letters \in Int
    BY PatternAssumption
  <2>12. p = q /\ i = j
    BY <2>9, <2>10, <2>11
  <2>13. QED
    BY <2>6, <2>8, <2>12
<1>6. m \in NamesIn(text) /\ T!IsWithin(s, m)
  BY <1>4, <1>5 DEF NamesIn, Spans
<1>7. QED
  BY <1>6

(* The patterns are looked for from the longest to the shortest, each of   *)
(* them once.                                                              *)
LEMMA PatternsInOrder ==
    /\ T!ToolPatterns \in Seq(PatternEntries)
    /\ DOMAIN T!ToolPatterns = 1..Len(T!ToolPatterns)
    /\ \A p \in PatternEntries : \E k \in 1..Len(T!ToolPatterns) : T!ToolPatterns[k] = p
    /\ \A j, k \in 1..Len(T!ToolPatterns) :
          T!ToolPatterns[j].letters > T!ToolPatterns[k].letters => j < k
<1> DEFINE R == {pair \in PatternEntries \X PatternEntries :
                    \/ pair[1].letters > pair[2].letters
                    \/ /\ pair[1].letters = pair[2].letters
                       /\ pair[1].place < pair[2].place}
           r == SortedBy(PatternEntries, R)
<1>1. T!ToolPatterns = r
  BY TierOperators DEF T!ToolPatterns
<1>2. \A p, q \in PatternEntries :
         <<p, q>> \in R <=> \/ p.letters > q.letters
                            \/ p.letters = q.letters /\ p.place < q.place
  OBVIOUS
<1>3. \A p \in PatternEntries : p.letters \in Int /\ p.place \in Int
  BY PatternAssumption
<1> HIDE DEF R
<1>4. IsStrictOrder(PatternEntries, R)
  <2>1. ASSUME NEW p \in PatternEntries
        PROVE  <<p, p>> \notin R
    BY <1>2, <1>3
  <2>2. ASSUME NEW p \in PatternEntries, NEW q \in PatternEntries, p # q
        PROVE  <<p, q>> \in R \/ <<q, p>> \in R
    <3>1. p.letters # q.letters \/ p.place # q.place
      BY <2>2, PatternAssumption
    <3>2. QED
      BY <1>2, <1>3, <3>1
  <2>3. ASSUME NEW p \in PatternEntries, NEW q \in PatternEntries,
               NEW o \in PatternEntries, <<p, q>> \in R, <<q, o>> \in R
        PROVE  <<p, o>> \in R
    <3>1. /\ \/ p.letters > q.letters
             \/ p.letters = q.letters /\ p.place < q.place
          /\ \/ q.letters > o.letters
             \/ q.letters = o.letters /\ q.place < o.place
      BY <1>2, <2>3
    <3>2. \/ p.letters > o.letters
          \/ p.letters = o.letters /\ p.place < o.place
      BY <1>3, <3>1
    <3>3. QED
      BY <1>2, <3>2
  <2>4. QED
    BY <2>1, <2>2, <2>3 DEF IsStrictOrder
<1>5. IsFiniteSet(PatternEntries)
  BY PatternAssumption
<1>6. /\ r \in Seq(PatternEntries) /\ Len(r) = Cardinality(PatternEntries)
      /\ DOMAIN r = 1..Cardinality(PatternEntries)
  BY <1>4, <1>5, SortedByProperties
<1>7. \A p \in PatternEntries : \E k \in 1..Cardinality(PatternEntries) : r[k] = p
  BY <1>4, <1>5, SortedByProperties
<1>8. \A j, k \in 1..Cardinality(PatternEntries) : <<r[j], r[k]>> \in R => j < k
  BY <1>4, <1>5, SortedByProperties
<1> HIDE DEF r
<1>9. ASSUME NEW j \in 1..Len(r), NEW k \in 1..Len(r), r[j].letters > r[k].letters
      PROVE  j < k
  <2>1. r[j] \in PatternEntries /\ r[k] \in PatternEntries
    BY <1>6, ElementOfSeq
  <2>2. <<r[j], r[k]>> \in R
    BY <1>2, <1>9, <2>1
  <2>3. QED
    BY <1>6, <1>8, <2>2
<1>10. QED
  BY <1>1, <1>6, <1>7, <1>9

MatchSpan == [canonical : {p.canonical : p \in PatternEntries}, start : Nat, end : Nat]

(* matchedTier1 goes through the patterns, and each adds a match or none.  *)
LEMMA MatchesStepByStep ==
    ASSUME NEW text \in Seq(User \cup STRING)
    PROVE  \E v \in [0..Len(T!ToolPatterns) -> Seq(MatchSpan)] :
              /\ v[0] = <<>>
              /\ v[Len(T!ToolPatterns)] = T!MatchedTier1(text)
              /\ \A k \in 1..Len(T!ToolPatterns) :
                     v[k] = T!WithMatch(text, v[k - 1], T!ToolPatterns[k])
<1> DEFINE ps == T!ToolPatterns
           n == Len(ps)
           Y == Seq(MatchSpan)
           G == [p \in (1..n) \X Y |-> T!WithMatch(text, p[2], ps[p[1]])]
           Obeys(f) == f = [s \in SUBSET (DOMAIN ps) |->
                               IF s = {} THEN <<>>
                               ELSE T!WithMatch(text, f[s \ {Max(s)}], ps[Max(s)])]
           iter == CHOOSE f : Obeys(f)
<1>1. /\ n \in Nat /\ DOMAIN ps = 1..n
      /\ \A k \in 1..n : ps[k] \in PatternEntries
  BY PatternsInOrder, LenProperties, ElementOfSeq
<1>2. \A k \in 1..n, matches \in Y : T!WithMatch(text, matches, ps[k]) \in Y
  <2> SUFFICES ASSUME NEW p \in PatternEntries, NEW matches \in Y
               PROVE  T!WithMatch(text, matches, p) \in Y
    BY <1>1
  <2> DEFINE found == T!Span(p, T!Min(T!Places(p, text)))
  <2>1. \/ T!WithMatch(text, matches, p) = matches
        \/ /\ T!WithMatch(text, matches, p) = Append(matches, found)
           /\ T!Places(p, text) # {}
    BY DEF T!WithMatch
  <2>2. T!Places(p, text) # {} => found \in MatchSpan
    <3> SUFFICES ASSUME T!Places(p, text) # {}
                 PROVE  found \in MatchSpan
      OBVIOUS
    <3>1. Min(T!Places(p, text)) \in T!Places(p, text)
      BY PlacesOfPattern, MinProperties
    <3>2. /\ found.canonical = p.canonical /\ found.start \in Nat /\ found.end \in Nat
      BY <3>1, PlacesOfPattern, TierOperators
    <3>3. found = [canonical |-> found.canonical, start |-> found.start, end |-> found.end]
      BY DEF T!Span
    <3>4. QED
      BY <3>2, <3>3 DEF MatchSpan
  <2>3. QED
    BY <2>1, <2>2, AppendProperties
<1>3. G \in [(1..n) \X Y -> Y] /\ <<>> \in Y
  BY <1>2
<1>4. PICK h \in [SUBSET (1..n) -> Y] : \A s \in SUBSET (1..n) :
          h[s] = IF s = {} THEN <<>> ELSE G[<<Max(s), h[s \ {Max(s)}]>>]
  <2> HIDE DEF G, n, Y
  <2>1. FoldValues(1..n, Y, <<>>, G, [s \in SUBSET (1..n) |-> Max(s)]) # {}
    BY <1>1, <1>3, FoldLeftExists
  <2>2. QED
    BY <2>1 DEF FoldValues
<1>5. ASSUME NEW s \in SUBSET (1..n), s # {}
      PROVE  /\ Max(s) \in 1..n /\ s \ {Max(s)} \in SUBSET (1..n)
             /\ h[s] = T!WithMatch(text, h[s \ {Max(s)}], ps[Max(s)])
  <2>1. Max(s) \in s
    BY <1>1, <1>5, MaxProperties
  <2>2. h[s \ {Max(s)}] \in Y
    BY <1>4
  <2> HIDE DEF n, Y
  <2>3. QED
    BY <1>4, <1>5, <2>1, <2>2
<1>6. Obeys(h)
  <2> HIDE DEF n, Y
  <2>1. QED
    BY <1>1, <1>4, <1>5
<1>7. Obeys(iter)
  <2> HIDE DEF Obeys
  <2>1. QED
    BY <1>6
<1>8. T!MatchedTier1(text) = iter[DOMAIN ps]
  BY TierOperators DEF T!MatchedTier1, T!FoldLeft, T!MapThenFoldSet
<1> HIDE DEF iter
<1>9. iter[{}] = <<>>
  BY <1>7
<1>10. ASSUME NEW k \in 1..n
       PROVE  iter[1..k] = T!WithMatch(text, iter[1..(k - 1)], ps[k])
  <2>1. /\ 1..k \in SUBSET (1..n) /\ 1..k # {}
        /\ Max(1..k) = k /\ (1..k) \ {k} = 1..(k - 1)
    BY <1>1, MaxOfPrefix
  <2> HIDE DEF n
  <2>2. QED
    BY <1>1, <1>7, <2>1
<1> DEFINE v == [k \in 0..n |-> iter[1..k]]
<1>11. v[0] = <<>> /\ v[n] = T!MatchedTier1(text)
  BY <1>1, <1>8, <1>9
<1>12. \A k \in 1..n : v[k] = T!WithMatch(text, v[k - 1], ps[k])
  BY <1>1, <1>10
<1> HIDE DEF v
<1>13. \A k \in 0..n : v[k] \in Y
  <2> DEFINE E == {k \in 0..n : v[k] \notin Y}
  <2> SUFFICES ASSUME E # {}
               PROVE  FALSE
    OBVIOUS
  <2>1. PICK k \in E : \A j \in E : k <= j
    <3>1. E \subseteq Nat
      BY <1>1
    <3> HIDE DEF E
    <3>2. QED
      BY <3>1, LeastNatural
  <2>2. k \in 1..n /\ k - 1 \in 0..n /\ k - 1 \notin E
    <3> HIDE DEF n, Y
    <3>1. k \in 0..n /\ k # 0
      BY <1>3, <1>11, <2>1
    <3>2. k \in 1..n /\ k - 1 \in 0..n /\ ~(k <= k - 1)
      BY <1>1, <3>1
    <3>3. QED
      BY <2>1, <3>2
  <2>3. v[k - 1] \in Y
    BY <2>2
  <2>4. v[k] \in Y
    BY <1>2, <1>12, <2>2, <2>3
  <2>5. QED
    BY <2>1, <2>4
<1>14. QED
  BY <1>11, <1>12, <1>13 DEF v

(* What matchedTier1 finds: nothing where no pattern occurs; and otherwise *)
(* a name first, and only that if the text has no other.                   *)
LEMMA MatchesAreNames ==
    ASSUME NEW text \in Seq(User \cup STRING)
    PROVE  \/ NamesIn(text) = {} /\ T!MatchedTier1(text) = <<>>
           \/ \E m \in NamesIn(text) :
                 /\ Len(T!MatchedTier1(text)) \in Nat \ {0}
                 /\ T!MatchedTier1(text)[1] = m
                 /\ NamesIn(text) = {m} => T!MatchedTier1(text) = <<m>>
<1> DEFINE ps == T!ToolPatterns
           n == Len(ps)
           Found(p) == T!Span(p, T!Min(T!Places(p, text)))
           F == {k \in 1..n : T!Places(ps[k], text) # {}}
<1>1. /\ n \in Nat /\ DOMAIN ps = 1..n
      /\ \A k \in 1..n : ps[k] \in PatternEntries
      /\ \A p \in PatternEntries : \E k \in 1..n : ps[k] = p
      /\ \A j, k \in 1..n : ps[j].letters > ps[k].letters => j < k
  BY PatternsInOrder, LenProperties, ElementOfSeq
<1>2. PICK v \in [0..n -> Seq(MatchSpan)] :
         /\ v[0] = <<>> /\ v[n] = T!MatchedTier1(text)
         /\ \A k \in 1..n : v[k] = T!WithMatch(text, v[k - 1], ps[k])
  BY MatchesStepByStep
<1>3. ASSUME NEW p \in PatternEntries, T!Places(p, text) # {}
      PROVE  /\ T!Min(T!Places(p, text)) \in T!Places(p, text)
             /\ Found(p) \in Spans(text)
  <2>1. Min(T!Places(p, text)) \in T!Places(p, text)
    BY <1>3, PlacesOfPattern, MinProperties
  <2>2. QED
    BY <2>1, TierOperators DEF Spans
<1>4. \A matches, p : /\ T!Places(p, text) = {} => T!WithMatch(text, matches, p) = matches
                      /\ \/ T!WithMatch(text, matches, p) = matches
                         \/ T!WithMatch(text, matches, p) = Append(matches, Found(p))
                      /\ matches = <<>> /\ T!Places(p, text) # {} =>
                            T!WithMatch(text, matches, p) = <<Found(p)>>
                      /\ \A m \in ToSet(matches) : T!IsWithin(Found(p), m) =>
                            T!WithMatch(text, matches, p) = matches
  <2> SUFFICES ASSUME NEW matches, NEW p
               PROVE  /\ T!Places(p, text) = {} => T!WithMatch(text, matches, p) = matches
                      /\ \/ T!WithMatch(text, matches, p) = matches
                         \/ T!WithMatch(text, matches, p) = Append(matches, Found(p))
                      /\ matches = <<>> /\ T!Places(p, text) # {} =>
                            T!WithMatch(text, matches, p) = <<Found(p)>>
                      /\ \A m \in ToSet(matches) : T!IsWithin(Found(p), m) =>
                            T!WithMatch(text, matches, p) = matches
    OBVIOUS
  <2>1. T!WithMatch(text, matches, p) =
           IF \/ T!Places(p, text) = {}
              \/ \E m \in ToSet(matches) :
                    m.canonical = p.canonical \/ T!IsWithin(Found(p), m)
           THEN matches ELSE Append(matches, Found(p))
    BY TierOperators DEF T!WithMatch
  <2> HIDE DEF Found
  <2>2. ToSet(<<>>) = {}
    BY DEF ToSet
  <2>3. Append(<<>>, Found(p)) = <<Found(p)>>
    OBVIOUS
  <2>4. QED
    BY <2>1, <2>2, <2>3
<1>5. CASE F = {}
  <2>1. Spans(text) = {}
    <3>1. \A p \in PatternEntries : T!Places(p, text) = {}
      BY <1>1, <1>5
    <3>2. QED
      BY <3>1 DEF Spans
  <2>2. NamesIn(text) = {}
    BY <2>1 DEF NamesIn, Spans
  <2>3. v[n] = <<>>
    <3> DEFINE E == {k \in 0..n : v[k] # <<>>}
    <3> HIDE DEF n, ps, Found
    <3> SUFFICES ASSUME E # {}
                 PROVE  FALSE
      <4>1. n \in 0..n
        BY <1>1
      <4>2. QED
        BY <4>1
    <3>1. PICK k \in E : \A j \in E : k <= j
      <4>1. E \subseteq Nat
        BY <1>1
      <4> HIDE DEF E
      <4>2. QED
        BY <4>1, LeastNatural
    <3>2. k \in 1..n /\ k - 1 \in 0..n /\ ~(k <= k - 1)
      BY <1>1, <1>2, <3>1
    <3>3. v[k - 1] = <<>> /\ T!Places(ps[k], text) = {}
      BY <1>5, <3>1, <3>2
    <3>4. v[k] = <<>>
      BY <1>2, <1>4, <3>2, <3>3
    <3>5. QED
      BY <3>1, <3>4
  <2>4. QED
    BY <1>2, <2>2, <2>3
<1>6. CASE F # {}
  <2>1. PICK f \in F : \A j \in F : f <= j
    <3>1. F \subseteq Nat
      BY <1>1
    <3> HIDE DEF F
    <3>2. QED
      BY <1>6, <3>1, LeastNatural
  <2> DEFINE m == Found(ps[f])
  <2>2. /\ f \in 1..n /\ ps[f] \in PatternEntries /\ T!Places(ps[f], text) # {}
        /\ m \in Spans(text)
    BY <1>1, <1>3, <2>1
  <2>3. m \in NamesIn(text)
    <3> SUFFICES ASSUME NEW o \in Spans(text), T!IsWithin(m, o)
                 PROVE  o = m
      BY <2>2 DEF NamesIn, Spans
    <3>1. PICK q \in PatternEntries : \E j \in T!Places(q, text) : o = T!Span(q, j)
      BY DEF Spans
    <3>2. PICK j \in T!Places(q, text) : o = T!Span(q, j)
      BY <3>1
    <3> DEFINE p == ps[f]
               i == T!Min(T!Places(p, text))
    <3>3. /\ p \in PatternEntries /\ i \in T!Places(p, text) /\ m = T!Span(p, i)
          /\ T!IsWithin(T!Span(p, i), T!Span(q, j))
      BY <1>3, <2>2, <3>2
    <3> HIDE DEF p, i, m
    <3>4. (p = q /\ i = j) \/ q.letters > p.letters
      BY <3>3, WithinIsPart
    <3>5. ~(q.letters > p.letters)
      <4> SUFFICES ASSUME q.letters > p.letters
                   PROVE  FALSE
        OBVIOUS
      <4>1. PICK g \in 1..n : ps[g] = q
        BY <1>1
      <4>2. g \in F
        BY <4>1
      <4>3. g < f
        BY <1>1, <2>2, <4>1 DEF p
      <4> HIDE DEF F, n, ps
      <4>4. f <= g
        BY <2>1, <4>2
      <4>5. QED
        BY <1>1, <2>2, <4>3, <4>4
    <3>6. QED
      BY <3>2, <3>3, <3>4, <3>5
  <2> HIDE DEF m
  <2>4. v[f] = <<m>>
    <3>1. v[f - 1] = <<>>
      <4> DEFINE E == {k \in 0..(f - 1) : v[k] # <<>>}
      <4> HIDE DEF n, ps, Found
      <4> SUFFICES ASSUME E # {}
                   PROVE  FALSE
        <5>1. f - 1 \in 0..(f - 1)
          BY <1>1, <2>2
        <5>2. QED
          BY <5>1
      <4>1. PICK k \in E : \A j \in E : k <= j
        <5>1. E \subseteq Nat
          BY <1>1, <2>2
        <5> HIDE DEF E
        <5>2. QED
          BY <5>1, LeastNatural
      <4>2. k \in 1..n /\ k - 1 \in 0..(f - 1) /\ ~(k <= k - 1) /\ ~(f <= k)
        <5>1. k \in 0..(f - 1) /\ k # 0 /\ f \in 1..n /\ n \in Nat
          BY <1>1, <1>2, <2>2, <4>1
        <5>2. QED
          BY <5>1
      <4>3. v[k - 1] = <<>> /\ T!Places(ps[k], text) = {}
        BY <2>1, <4>1, <4>2
      <4>4. v[k] = <<>>
        BY <1>2, <1>4, <4>2, <4>3
      <4>5. QED
        BY <4>1, <4>4
    <3>2. QED
      BY <1>2, <1>4, <2>2, <3>1 DEF m
  <2>5. v[n] # <<>> /\ v[n][1] = m
    <3> DEFINE E == {k \in f..n : v[k] = <<>> \/ v[k][1] # m}
    <3> HIDE DEF n, ps, Found
    <3> SUFFICES ASSUME E # {}
                 PROVE  FALSE
      <4>1. n \in f..n
        BY <1>1, <2>2
      <4>2. QED
        BY <4>1
    <3>1. PICK k \in E : \A j \in E : k <= j
      <4>1. E \subseteq Nat
        BY <1>1, <2>2
      <4> HIDE DEF E
      <4>2. QED
        BY <4>1, LeastNatural
    <3>2. <<m>> # <<>> /\ <<m>>[1] = m
      OBVIOUS
    <3>3. k # f
      BY <2>4, <3>1, <3>2
    <3>4. k \in 1..n /\ k - 1 \in f..n /\ ~(k <= k - 1) /\ k - 1 \in 0..n
      BY <1>1, <2>2, <3>1, <3>3
    <3>5. v[k - 1] # <<>> /\ v[k - 1][1] = m /\ v[k - 1] \in Seq(MatchSpan)
      BY <1>2, <3>1, <3>4
    <3>6. v[k] = v[k - 1] \/ v[k] = Append(v[k - 1], Found(ps[k]))
      BY <1>2, <1>4, <3>4
    <3>7. Len(v[k - 1]) \in Nat \ {0}
      BY <3>5, LenProperties, EmptySeq
    <3>8. v[k] # <<>> /\ v[k][1] = m
      <4>1. CASE v[k] = v[k - 1]
        BY <3>5, <4>1
      <4>2. CASE v[k] = Append(v[k - 1], Found(ps[k]))
        <5> DEFINE a == v[k - 1]
                   b == Found(ps[k])
        <5>1. a \in Seq(MatchSpan) /\ Len(a) \in Nat \ {0} /\ a[1] = m
          BY <3>5, <3>7
        <5> HIDE DEF a, b
        <5>2. Append(a, b) # <<>> /\ Append(a, b)[1] = m
          BY <5>1
        <5>3. QED
          BY <4>2, <5>2 DEF a, b
      <4>3. QED
        BY <3>6, <4>1, <4>2
    <3>9. QED
      BY <3>1, <3>8
  <2>6. ASSUME NamesIn(text) = {m}
        PROVE  v[n] = <<m>>
    <3> DEFINE E == {k \in f..n : v[k] # <<m>>}
    <3> HIDE DEF n, ps, Found
    <3> SUFFICES ASSUME E # {}
                 PROVE  FALSE
      <4>1. n \in f..n
        BY <1>1, <2>2
      <4>2. QED
        BY <4>1
    <3>1. PICK k \in E : \A j \in E : k <= j
      <4>1. E \subseteq Nat
        BY <1>1, <2>2
      <4> HIDE DEF E
      <4>2. QED
        BY <4>1, LeastNatural
    <3>2. k \in 1..n /\ k - 1 \in f..n /\ ~(k <= k - 1)
      <4>1. k \in f..n /\ k # f /\ f \in 1..n /\ n \in Nat
        BY <1>1, <2>2, <2>4, <3>1
      <4>2. QED
        BY <4>1
    <3>3. v[k - 1] = <<m>>
      BY <3>1, <3>2
    <3>4. v[k] = <<m>>
      <4>1. CASE T!Places(ps[k], text) = {}
        BY <1>2, <1>4, <3>2, <3>3, <4>1
      <4>2. CASE T!Places(ps[k], text) # {}
        <5>1. ps[k] \in PatternEntries
          BY <1>1, <3>2
        <5>2. Found(ps[k]) \in Spans(text)
          BY <1>3, <4>2, <5>1
        <5>3. T!IsWithin(Found(ps[k]), m)
          BY <2>6, <5>2, OccurrencesAreInNames
        <5>4. m \in ToSet(<<m>>)
          BY DEF ToSet
        <5>5. QED
          BY <1>2, <1>4, <3>2, <3>3, <5>3, <5>4
      <4>3. QED
        BY <4>1, <4>2
    <3>5. QED
      BY <3>1, <3>4
  <2>7. Len(v[n]) \in Nat \ {0}
    <3>1. v[n] \in Seq(MatchSpan)
      BY <1>1, <1>2
    <3>2. QED
      BY <2>5, <3>1, LenProperties, EmptySeq
  <2>8. QED
    BY <1>2, <2>3, <2>5, <2>6, <2>7
<1>7. QED
  BY <1>5, <1>6

(* Where a text has words, and not marks, between two places. *)
WordPlaces(text, i, j) == {k \in i..j : text[k] \notin Marks}

(* Where a text has words after a place, and what WordsOf reads there. *)
PlacesPast(text, i) == WordPlaces(text, i + 1, Len(text))

WordsPast(text, i) == T!WordsOf(SubSeq(text, i + 1, Len(text)))

(* lastWord finds the word before a name. *)
LEMMA WordsBeforeName ==
    ASSUME NEW text \in Seq(User \cup STRING), NEW i \in 1..Len(text)
    PROVE  /\ WordPlaces(text, 1, i - 1) = {} => T!WordsOf(SubSeq(text, 1, i - 1)) = <<>>
           /\ WordPlaces(text, 1, i - 1) # {} =>
                 /\ T!WordsOf(SubSeq(text, 1, i - 1)) # <<>>
                 /\ Last(T!WordsOf(SubSeq(text, 1, i - 1))) =
                       text[Max(WordPlaces(text, 1, i - 1))]
<1> DEFINE s == SubSeq(text, 1, i - 1)
           n == Len(s)
           D == {k \in 1..n : s[k] \notin Marks}
           c == Cardinality(D)
           words == Selected(s, D)
<1>1. Len(text) \in Nat /\ \A k \in 1..Len(text) : text[k] \in User \cup STRING
  BY LenProperties, ElementOfSeq
<1>2. s \in Seq(User \cup STRING) /\ n = i - 1 /\ n \in Nat /\ \A k \in 1..n : s[k] = text[k]
  <2>1. s \in Seq(User \cup STRING)
    BY <1>1
  <2>2. n = i - 1
    BY <1>1
  <2>3. \A k \in 1..(i - 1) : s[k] = text[k]
    BY <1>1
  <2>4. QED
    BY <1>1, <2>1, <2>2, <2>3
<1>3. T!WordsOf(s) = words
  BY TierOperators DEF T!WordsOf
<1> HIDE DEF s, n
<1>4. D = WordPlaces(text, 1, i - 1)
  BY <1>2 DEF WordPlaces
<1>5. D \subseteq 1..n
  OBVIOUS
<1> HIDE DEF D
<1>6. /\ words \in Seq(User \cup STRING) /\ Len(words) = Cardinality(D)
      /\ Cardinality(D) \in Nat
  BY <1>2, <1>5, SelectedProperties DEF n
<1>7. \A k \in 1..c : words[k] = s[InOrder(D)[k]]
  BY DEF Selected
<1>8. CASE D = {}
  <2>1. Cardinality(D) = 0
    BY <1>8, FS_EmptySet
  <2>2. words = <<>>
    BY <1>6, <2>1, EmptySeq
  <2>3. QED
    BY <1>3, <1>4, <1>8, <2>2 DEF s
<1>9. CASE D # {}
  <2>1. c \in Nat \ {0} /\ InOrder(D)[c] = Max(D)
    BY <1>2, <1>5, <1>9, InOrderEnds
  <2>2. Max(D) \in 1..n
    BY <1>2, <1>5, <1>9, MaxProperties
  <2> HIDE DEF words
  <2>3. words # <<>> /\ Last(words) = words[c]
    BY <1>6, <2>1, EmptySeq DEF Last
  <2>4. Last(words) = text[Max(D)]
    BY <1>2, <1>7, <2>1, <2>2, <2>3
  <2>5. QED
    BY <1>3, <1>4, <1>9, <2>3, <2>4 DEF s
<1>10. QED
  BY <1>8, <1>9

(* firstWord and secondWord find the words after a name. *)
LEMMA WordsAfterName ==
    ASSUME NEW text \in Seq(User \cup STRING), NEW i \in 1..Len(text)
    PROVE  LET B     == PlacesPast(text, i)
               C     == B \ {Min(B)}
               after == WordsPast(text, i)
           IN /\ B = {} => after = <<>>
              /\ B # {} => after # <<>> /\ after[1] = text[Min(B)]
              /\ B # {} => (Len(after) >= 2 <=> C # {})
              /\ B # {} /\ C # {} => after[2] = text[Min(C)]
<1> DEFINE B == PlacesPast(text, i)
           after == WordsPast(text, i)
           N == Len(text)
           s == SubSeq(text, i + 1, N)
           n == Len(s)
           D == {k \in 1..n : s[k] \notin Marks}
           c == Cardinality(D)
           words == Selected(s, D)
<1>1. N \in Nat /\ i \in 1..N /\ \A k \in 1..N : text[k] \in User \cup STRING
  BY LenProperties, ElementOfSeq
<1>2. s \in Seq(User \cup STRING) /\ n = N - i /\ n \in Nat /\ \A k \in 1..n : s[k] = text[i + k]
  <2>1. s \in Seq(User \cup STRING)
    BY <1>1
  <2>2. n = N - i
    BY <1>1
  <2>3. \A k \in 1..(N - i) : s[k] = text[i + k]
    BY <1>1
  <2>4. QED
    BY <1>1, <2>1, <2>2, <2>3
<1>3. after = words
  BY TierOperators DEF T!WordsOf, WordsPast
<1> HIDE DEF s, n, N
<1>4. B = {i + k : k \in D}
  <2>1. B = {k \in (i + 1)..N : text[k] \notin Marks}
    BY DEF PlacesPast, WordPlaces, N
  <2>2. ASSUME NEW k \in B
        PROVE  \E d \in D : k = i + d
    <3>1. k - i \in 1..n /\ k = i + (k - i)
      BY <1>1, <1>2, <2>1
    <3>2. s[k - i] = text[k]
      BY <1>2, <3>1
    <3>3. QED
      BY <2>1, <3>1, <3>2
  <2>3. ASSUME NEW d \in D
        PROVE  i + d \in B
    <3>1. i + d \in (i + 1)..N /\ s[d] = text[i + d]
      BY <1>1, <1>2
    <3>2. QED
      BY <2>1, <3>1
  <2>4. QED
    BY <2>2, <2>3
<1>5. D \subseteq 1..n /\ D \subseteq Nat
  BY <1>2
<1> HIDE DEF D
<1>6. /\ words \in Seq(User \cup STRING) /\ Len(words) = Cardinality(D)
      /\ Cardinality(D) \in Nat
  BY <1>2, <1>5, SelectedProperties DEF n
<1>7. \A k \in 1..c : words[k] = s[InOrder(D)[k]]
  BY DEF Selected
<1>8. CASE D = {}
  <2>1. Cardinality(D) = 0
    BY <1>8, FS_EmptySet
  <2>2. words = <<>>
    BY <1>6, <2>1, EmptySeq
  <2>3. QED
    BY <1>3, <1>4, <1>8, <2>2
<1>9. CASE D # {}
  <2> DEFINE d == Min(D)
             rest == D \ {d}
  <2>1. /\ c \in Nat \ {0} /\ InOrder(D)[1] = d
        /\ c >= 2 <=> rest # {}
        /\ rest # {} => InOrder(D)[2] = Min(rest)
    BY <1>2, <1>5, <1>9, InOrderEnds
  <2>2. d \in D
    BY <1>5, <1>9, MinProperties
  <2>3. B # {} /\ Min(B) = i + d
    <3>1. i \in Nat
      BY <1>1
    <3>2. Min({i + k : k \in D}) = i + Min(D)
      BY <1>5, <1>9, <3>1, MinShifted
    <3>3. QED
      BY <1>4, <2>2, <3>2
  <2>4. B \ {Min(B)} = {i + k : k \in rest}
    <3>1. \A k \in D : i + k = i + d => k = d
      <4> HIDE DEF d
      <4>1. i \in Int /\ d \in Int /\ \A k \in D : k \in Int
        <5>1. i \in Int
          BY <1>1
        <5>2. \A k \in D : k \in Int
          BY <1>5
        <5>3. QED
          BY <2>2, <5>1, <5>2
      <4>2. QED
        BY <4>1
    <3> HIDE DEF d
    <3>2. QED
      BY <1>4, <2>3, <3>1
  <2>5. rest # {} => Min(rest) \in rest /\ Min(B \ {Min(B)}) = i + Min(rest)
    <3> SUFFICES ASSUME rest # {}
                 PROVE  Min(rest) \in rest /\ Min(B \ {Min(B)}) = i + Min(rest)
      OBVIOUS
    <3>1. i \in Nat /\ rest \subseteq Nat
      <4>1. i \in Nat
        BY <1>1
      <4>2. rest \subseteq Nat
        BY <1>5
      <4>3. QED
        BY <4>1, <4>2
    <3> HIDE DEF rest
    <3>2. Min({i + k : k \in rest}) = i + Min(rest)
      BY <3>1, MinShifted
    <3>3. QED
      BY <2>4, <3>1, <3>2, MinProperties
  <2> HIDE DEF words, c
  <2>6. after # <<>> /\ Len(after) = c
    <3>1. c # 0
      BY <2>1
    <3>2. Len(words) = c
      BY <1>6 DEF c
    <3>3. QED
      BY <1>3, <1>6, <3>1, <3>2, EmptySeq
  <2>7. after[1] = text[Min(B)]
    <3>1. words[1] = s[d]
      BY <1>7, <2>1
    <3>2. s[d] = text[i + d]
      BY <1>2, <1>5, <2>2
    <3>3. QED
      BY <1>3, <2>3, <3>1, <3>2
  <2>8. rest # {} => after[2] = text[Min(B \ {Min(B)})]
    <3> SUFFICES ASSUME rest # {}
                 PROVE  after[2] = text[Min(B \ {Min(B)})]
      OBVIOUS
    <3>1. 2 \in 1..c
      BY <2>1
    <3>2. words[2] = s[Min(rest)]
      BY <1>7, <2>1, <3>1
    <3>3. Min(rest) \in 1..n
      BY <1>5, <2>5
    <3>4. s[Min(rest)] = text[i + Min(rest)]
      BY <1>2, <3>3
    <3>5. QED
      BY <1>3, <2>5, <3>2, <3>4
  <2>9. rest # {} <=> B \ {Min(B)} # {}
    BY <2>4
  <2> HIDE DEF rest
  <2>10. Len(after) >= 2 <=> B \ {Min(B)} # {}
    BY <2>1, <2>6, <2>9
  <2>11. QED
    BY <2>3, <2>6, <2>7, <2>8, <2>9, <2>10
<1>10. QED
  BY <1>8, <1>9

(* The next word after a place. *)
LEMMA NextWord ==
    ASSUME NEW text \in Seq(User \cup STRING), NEW i \in 1..Len(text)
    PROVE  LET B == PlacesPast(text, i)
               b == Min(B)
           IN /\ B = {} => WordAfter(text, i) = ""
              /\ B # {} => /\ PlaceAfter(text, i) = b /\ b \in B
                           /\ WordAfter(text, i) = text[b]
                           /\ PlacesPast(text, b) = B \ {b}
<1> DEFINE B == PlacesPast(text, i)
           n == Len(text)
           b == Min(B)
           end == B \cup {n + 1}
<1>1. n \in Nat /\ i \in Nat
  BY LenProperties
<1> HIDE DEF n
<1>2. B \subseteq (i + 1)..n /\ B = {k \in (i + 1)..n : text[k] \notin Marks}
  BY DEF PlacesPast, WordPlaces, n
<1>3. PlaceAfter(text, i) = Min(end)
  BY <1>2 DEF PlaceAfter, n
<1>4. B \subseteq Nat /\ end \subseteq Nat
  BY <1>1, <1>2
<1>5. CASE B = {}
  <2>1. n + 1 \in end /\ \A y \in end : n + 1 <= y
    BY <1>1, <1>5
  <2> HIDE DEF end
  <2>2. Min(end) = n + 1
    BY <1>4, <2>1, MinIs
  <2>3. n + 1 > n
    BY <1>1
  <2>4. WordAfter(text, i) = ""
    BY <1>3, <2>2, <2>3 DEF WordAfter, n
  <2>5. QED
    BY <1>5, <2>4
<1>6. CASE B # {}
  <2>1. b \in B /\ \A y \in B : b <= y
    BY <1>4, <1>6, MinProperties
  <2>2. b \in (i + 1)..n
    BY <1>2, <2>1
  <2> HIDE DEF b
  <2>3. b \in end /\ \A y \in end : b <= y
    BY <1>1, <2>1, <2>2
  <2> HIDE DEF end
  <2>4. Min(end) = b
    BY <1>4, <2>3, MinIs
  <2>5. ~(b > n)
    BY <1>1, <2>2
  <2>6. WordAfter(text, i) = text[b]
    BY <1>3, <2>4, <2>5 DEF WordAfter, n
  <2>7. PlacesPast(text, b) = B \ {b}
    <3>1. PlacesPast(text, b) = {k \in (b + 1)..n : text[k] \notin Marks}
      BY DEF PlacesPast, WordPlaces, n
    <3>2. \A k \in (b + 1)..n : k \in (i + 1)..n /\ k # b
      BY <1>1, <2>2
    <3>3. \A k \in B : k # b => k \in (b + 1)..n
      BY <1>1, <1>2, <2>1, <2>2
    <3>4. QED
      BY <1>2, <3>1, <3>2, <3>3
  <2>8. QED
    BY <1>3, <1>6, <2>1, <2>4, <2>6, <2>7 DEF n, b
<1>7. QED
  BY <1>5, <1>6

(* IsDescriptiveReference reads the words around a name. *)
LEMMA DescriptiveIsTalkedAbout ==
    ASSUME NEW text \in Seq(User \cup STRING), NEW m \in Spans(text)
    PROVE  T!IsDescriptiveReference(text, m) <=> IsTalkedAbout(text, m)
<1> DEFINE n == Len(text)
           A == WordPlaces(text, 1, m.start - 1)
           B == PlacesPast(text, m.end)
           before == T!WordsOf(SubSeq(text, 1, m.start - 1))
           after == WordsPast(text, m.end)
           next == WordAfter(text, m.end)
<1>1. m.start \in 1..n /\ m.end \in 1..n
  <2>1. PICK p \in PatternEntries : \E i \in T!Places(p, text) : m = T!Span(p, i)
    BY DEF Spans
  <2>2. PICK i \in T!Places(p, text) : m = T!Span(p, i)
    BY <2>1
  <2>3. i \in 1..n /\ T!Span(p, i).start = i /\ T!Span(p, i).end \in i..n
    BY PlacesOfPattern
  <2> HIDE DEF n
  <2>4. QED
    BY <2>2, <2>3
<1>2. T!IsDescriptiveReference(text, m) <=>
         \/ before # <<>> /\ Last(before) \in T!Introducing
         \/ after # <<>> /\ after[1] \in T!Naming
         \/ Len(after) >= 2 /\ after[1] = "is" /\ after[2] \in T!States
  BY TierOperators DEF T!IsDescriptiveReference, WordsPast
<1>3. IsTalkedAbout(text, m) <=>
         \/ WordBefore(text, m.start) \in T!Introducing
         \/ next \in T!Naming
         \/ next = "is" /\ WordAfter(text, PlaceAfter(text, m.end)) \in T!States
  BY DEF IsTalkedAbout
<1>4. /\ "" \notin T!Introducing /\ "" \notin T!Naming /\ "" \notin T!States
      /\ "" # "is"
  BY DEF T!Introducing, T!Naming, T!States
<1>5. (before # <<>> /\ Last(before) \in T!Introducing) <=>
         WordBefore(text, m.start) \in T!Introducing
  <2>1. WordBefore(text, m.start) = IF A = {} THEN "" ELSE text[Max(A)]
    BY DEF WordBefore, WordPlaces
  <2>2. /\ A = {} => before = <<>>
        /\ A # {} => before # <<>> /\ Last(before) = text[Max(A)]
    BY <1>1, WordsBeforeName
  <2> HIDE DEF A, before
  <2>3. QED
    BY <1>4, <2>1, <2>2
<1> DEFINE C == B \ {Min(B)}
<1>6. /\ B = {} => after = <<>>
      /\ B # {} => after # <<>> /\ after[1] = text[Min(B)]
      /\ B # {} => (Len(after) >= 2 <=> C # {})
      /\ B # {} /\ C # {} => after[2] = text[Min(C)]
  BY <1>1, WordsAfterName
<1>7. /\ B = {} => next = ""
      /\ B # {} => /\ PlaceAfter(text, m.end) = Min(B) /\ Min(B) \in B
                   /\ next = text[Min(B)]
                   /\ PlacesPast(text, Min(B)) = C
  BY <1>1, NextWord
<1>8. (after # <<>> /\ after[1] \in T!Naming) <=> next \in T!Naming
  <2> HIDE DEF B, C, after, next
  <2>1. QED
    BY <1>4, <1>6, <1>7
<1>9. (Len(after) >= 2 /\ after[1] = "is" /\ after[2] \in T!States) <=>
         (next = "is" /\ WordAfter(text, PlaceAfter(text, m.end)) \in T!States)
  <2>1. CASE B = {}
    <3>1. after = <<>> /\ next = ""
      BY <1>6, <1>7, <2>1
    <3>2. ~(Len(<<>>) >= 2)
      OBVIOUS
    <3> HIDE DEF after, next
    <3>3. QED
      BY <1>4, <3>1, <3>2
  <2>2. CASE B # {}
    <3> DEFINE b == Min(B)
               second == WordAfter(text, b)
    <3>1. b \in B /\ PlacesPast(text, b) = C /\ PlaceAfter(text, m.end) = b
      BY <1>7, <2>2
    <3>2. b \in 1..n
      <4>1. B \subseteq (m.end + 1)..n
        BY DEF PlacesPast, WordPlaces
      <4>2. n \in Nat /\ m.end \in 1..n
        BY <1>1, LenProperties
      <4> HIDE DEF B, n, b
      <4>3. QED
        BY <3>1, <4>1, <4>2
    <3> HIDE DEF b
    <3>3. /\ C = {} => second = ""
          /\ C # {} => second = text[Min(C)]
      BY <3>1, <3>2, NextWord
    <3> HIDE DEF B, C, after, next, second
    <3>4. (Len(after) >= 2 <=> C # {}) /\ after[1] = next
      BY <1>6, <1>7, <2>2
    <3>5. C # {} => after[2] = second
      BY <1>6, <2>2, <3>3
    <3>6. (Len(after) >= 2 /\ after[1] = "is" /\ after[2] \in T!States) <=>
             (next = "is" /\ second \in T!States)
      <4>1. CASE C = {}
        BY <1>4, <3>3, <3>4, <4>1
      <4>2. CASE C # {}
        BY <3>4, <3>5, <4>2
      <4>3. QED
        BY <4>1, <4>2
    <3>7. QED
      BY <3>1, <3>6 DEF second
  <2>3. QED
    BY <2>1, <2>2
<1>10. QED
  <2> HIDE DEF before, after, next
  <2>1. QED
    BY <1>2, <1>3, <1>5, <1>8, <1>9

(* NamesDecideTheTool: one name in a text is the tool, unless the words    *)
(* around it talk about it; without a name there is none.                  *)
THEOREM NamesMakeTheTool == Spec => []NamesDecideTheTool
<1>1. ASSUME CheckInv
      PROVE  NamesDecideTheTool
  <2> DEFINE text == T!NormalizeMessage(in.text)
             names == NamesIn(text)
             matches == T!MatchedTier1(text)
             talked(m) == T!IsDescriptiveReference(text, m)
  <2> SUFFICES ASSUME Evaluated("words")
               PROVE  /\ decision.tool # NoTool => decision.tool \in ToolsNamedIn(text)
                      /\ decision.reason = "no_match" <=> names = {}
                      /\ \A m \in names : names = {m} =>
                            IF IsTalkedAbout(text, m)
                            THEN decision = [tool |-> NoTool, reason |-> "descriptive_reference"]
                            ELSE decision = [tool |-> m.canonical, reason |-> "single_match"]
    BY DEF NamesDecideTheTool
  <2>1. in \in Texts /\ in.text \in Seq(User \cup STRING)
    BY <1>1, CheckAssumption DEF CheckInv, Evaluated
  <2>2. text \in Seq(User \cup STRING)
    <3> DEFINE places == {i \in 1..Len(in.text) : in.text[i] \notin User}
    <3>1. text = Selected(in.text, places)
      BY TierOperators DEF T!NormalizeMessage
    <3>2. places \subseteq 1..Len(in.text)
      OBVIOUS
    <3> HIDE DEF places
    <3>3. Selected(in.text, places) \in Seq(User \cup STRING)
      BY <2>1, <3>2, SelectedProperties
    <3>4. QED
      BY <3>1, <3>3
  <2>3. decision = IF matches = <<>> THEN [tool |-> NoTool, reason |-> "no_match"]
                   ELSE IF Len(matches) > 1 THEN [tool |-> NoTool, reason |-> "multi_match"]
                   ELSE IF talked(matches[1])
                   THEN [tool |-> NoTool, reason |-> "descriptive_reference"]
                   ELSE [tool |-> matches[1].canonical, reason |-> "single_match"]
    BY <1>1 DEF CheckInv, T!ClassifyWithReason
  <2> HIDE DEF text
  <2>4. \A m \in names : talked(m) <=> IsTalkedAbout(text, m)
    <3>1. names \subseteq Spans(text)
      BY DEF NamesIn, Spans
    <3>2. QED
      BY <2>2, <3>1, DescriptiveIsTalkedAbout
  <2>5. \/ names = {} /\ matches = <<>>
        \/ \E m \in names : /\ Len(matches) \in Nat \ {0} /\ matches[1] = m
                            /\ names = {m} => matches = <<m>>
    BY <2>2, MatchesAreNames
  <2>6. CASE names = {} /\ matches = <<>>
    <3>1. decision = [tool |-> NoTool, reason |-> "no_match"]
      BY <2>3, <2>6
    <3>2. QED
      BY <2>6, <3>1
  <2>7. CASE names # {}
    <3>1. PICK m \in names : /\ Len(matches) \in Nat \ {0} /\ matches[1] = m
                             /\ names = {m} => matches = <<m>>
      BY <2>5, <2>7
    <3>2. matches # <<>>
      <4>1. Len(<<>>) = 0
        OBVIOUS
      <4> HIDE DEF matches
      <4>2. QED
        BY <3>1, <4>1
    <3> HIDE DEF matches
    <3>3. decision.tool \in {NoTool, m.canonical} /\ decision.reason # "no_match"
      <4>1. \/ decision = [tool |-> NoTool, reason |-> "multi_match"]
            \/ decision = [tool |-> NoTool, reason |-> "descriptive_reference"]
            \/ decision = [tool |-> m.canonical, reason |-> "single_match"]
        BY <2>3, <3>1, <3>2
      <4>2. QED
        BY <4>1
    <3>4. m.canonical \in ToolsNamedIn(text)
      BY DEF ToolsNamedIn
    <3>5. ASSUME NEW o \in names, names = {o}
          PROVE  IF IsTalkedAbout(text, o)
                 THEN decision = [tool |-> NoTool, reason |-> "descriptive_reference"]
                 ELSE decision = [tool |-> o.canonical, reason |-> "single_match"]
      <4>1. o = m /\ matches = <<m>>
        BY <3>1, <3>5
      <4>2. Len(matches) = 1 /\ matches[1] = m
        BY <4>1
      <4>3. decision = IF talked(m) THEN [tool |-> NoTool, reason |-> "descriptive_reference"]
                       ELSE [tool |-> m.canonical, reason |-> "single_match"]
        <5>1. ~(Len(matches) > 1)
          BY <4>2
        <5>2. QED
          BY <2>3, <3>1, <3>2, <5>1
      <4>4. talked(m) <=> IsTalkedAbout(text, m)
        BY <2>4
      <4>5. QED
        BY <4>1, <4>3, <4>4
    <3>6. QED
      BY <2>7, <3>3, <3>4, <3>5
  <2>8. QED
    BY <2>5, <2>6, <2>7
<1>2. QED
  BY <1>1, CheckAlways, PTL
==============================================================================
