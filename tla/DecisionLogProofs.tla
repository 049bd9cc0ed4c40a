-------------------------- MODULE DecisionLogProofs --------------------------
(***************************************************************************)
(* Theorems about DecisionLog, for every value of its constants.           *)
(***************************************************************************)
EXTENDS DecisionLog, SequenceFacts

USE LogAssumption

------------------------------------------------------------------------------
(* The operators the log is built from. *)

(* Min returns the least of three numbers. *)
LEMMA MinOfThree ==
    ASSUME NEW a \in Int, NEW b \in Int, NEW c \in Int
    PROVE  /\ Min({a, b, c}) \in {a, b, c}
           /\ Min({a, b, c}) <= a /\ Min({a, b, c}) <= b /\ Min({a, b, c}) <= c
<1> DEFINE P(x) == x \in {a, b, c} /\ \A y \in {a, b, c} : x <= y
<1>1. \E x : P(x)
  <2>1. CASE a <= b /\ a <= c
    BY <2>1
  <2>2. CASE b <= a /\ b <= c
    BY <2>2
  <2>3. CASE c <= a /\ c <= b
    BY <2>3
  <2>4. QED
    BY <2>1, <2>2, <2>3
<1>2. Min({a, b, c}) = CHOOSE x : P(x)
  BY DEF Min
<1>3. P(CHOOSE x : P(x))
  BY <1>1
<1>4. QED
  BY <1>2, <1>3

(* And of two. *)
LEMMA MinOfTwo ==
    ASSUME NEW a \in Int, NEW b \in Int
    PROVE  Min({a, b}) = IF a <= b THEN a ELSE b
<1>1. {a, b} = {a, b, b}
  OBVIOUS
<1>2. Min({a, b}) \in {a, b} /\ Min({a, b}) <= a /\ Min({a, b}) <= b
  BY <1>1, MinOfThree
<1>3. QED
  BY <1>2

(* The newest n of a sequence are its last n, in their order. *)
LEMMA NewestProperties ==
    ASSUME NEW S, NEW s \in Seq(S), NEW n \in 0..Len(s)
    PROVE  /\ Newest(s, n) \in Seq(S) /\ Len(Newest(s, n)) = n
           /\ \A i \in 1..n : Newest(s, n)[i] = s[Len(s) - n + i]
<1> DEFINE m == Len(s) - n + 1
<1>1. Len(s) \in Nat /\ m \in 1..(Len(s) + 1) /\ Len(s) - m + 1 = n
  OBVIOUS
<1>2. \A i \in m..Len(s) : s[i] \in S
  <2>1. \A i \in m..Len(s) : i \in 1..Len(s)
    BY <1>1
  <2>2. QED
    BY <2>1, ElementOfSeq
<1> HIDE DEF m
<1>3. /\ SubSeq(s, m, Len(s)) \in Seq(S)
      /\ Len(SubSeq(s, m, Len(s))) = IF m <= Len(s) THEN Len(s) - m + 1 ELSE 0
      /\ \A i \in 1..(Len(s) - m + 1) : SubSeq(s, m, Len(s))[i] = s[m + i - 1]
  BY <1>1, <1>2, SubSeqProperties
<1>4. Newest(s, n) = SubSeq(s, m, Len(s))
  BY DEF Newest, m
<1>5. Len(SubSeq(s, m, Len(s))) = n
  BY <1>1, <1>3
<1>6. \A i \in 1..n : m + i - 1 = Len(s) - n + i
  BY <1>1 DEF m
<1>7. QED
  BY <1>1, <1>3, <1>4, <1>5, <1>6

(* The bound of the log lies between the smallest and the largest. *)
LEMMA ClampedMaxType ==
    ASSUME NEW n \in Int
    PROVE  ClampedMax(n) \in SmallestMax..LargestMax
<1>1. /\ SmallestMax \in Int /\ DefaultMax \in Int /\ LargestMax \in Int
      /\ SmallestMax <= DefaultMax /\ DefaultMax <= LargestMax
  OBVIOUS
<1>2. CASE n < SmallestMax
  <2>1. ClampedMax(n) = DefaultMax
    BY <1>1, <1>2 DEF ClampedMax
  <2>2. QED
    BY <1>1, <2>1
<1>3. CASE n > LargestMax
  <2>1. ~(n < SmallestMax)
    BY <1>1, <1>3
  <2>2. ClampedMax(n) = LargestMax
    BY <1>3, <2>1 DEF ClampedMax
  <2>3. QED
    BY <1>1, <2>2
<1>4. CASE ~(n < SmallestMax) /\ ~(n > LargestMax)
  <2>1. ClampedMax(n) = n
    BY <1>4 DEF ClampedMax
  <2>2. QED
    BY <1>1, <1>4, <2>1
<1>5. QED
  BY <1>2, <1>3, <1>4

(* A limit asked for, or the default, is positive. *)
LEMMA LimitType ==
    ASSUME NEW query
    PROVE  LimitOf(query) \in 1..LargestLimit
BY DEF LimitOf

------------------------------------------------------------------------------
(* The promise of publishing. *)

Result == [employee : Employee, ok : BOOLEAN]

(* What Delivery does, call by call: OK is said only of what was sent; an  *)
(* answered call has answered for each of its employees; nothing is sent   *)
(* but to employees a call names, and nothing by a call that is silent,    *)
(* skipped or failed, nor does such a call have answers.                   *)
Promised(c) ==
    /\ outcome[c] \in D!Outcomes
    /\ results[c] \in Seq(Result)
    /\ \A i \in 1..Len(results[c]) :
          results[c][i].ok => <<c, results[c][i].employee>> \in sent
    /\ outcome[c] = "answered" => D!Answered(c) = D!Targets(c)
    /\ \A e : <<c, e>> \in sent =>
          e \in D!Targets(c) /\ ~D!Silent(c) /\ outcome[c] \in {"open", "answered"}
    /\ D!Silent(c) \/ outcome[c] \in {"skipped", "failed"} => results[c] = <<>>
    /\ D!Answered(c) \subseteq D!Targets(c)

PromiseInv ==
    /\ mode \in Modes
    /\ outcome = [c \in Calls |-> outcome[c]] /\ results = [c \in Calls |-> results[c]]
    /\ sent \subseteq Calls \X Employee
    /\ \A c \in Calls : Promised(c)

(* Nothing is promised at the start. *)
LEMMA PromiseInit == D!Init => PromiseInv
<1> SUFFICES ASSUME D!Init, NEW c \in Calls
             PROVE  Promised(c)
  BY DEF PromiseInv, D!Init
<1>1. outcome[c] = "open" /\ results[c] = <<>> /\ sent = {}
  BY DEF D!Init
<1>2. results[c] \in Seq(Result) /\ D!Answered(c) = {}
  BY <1>1 DEF D!Answered
<1>3. QED
  BY <1>1, <1>2 DEF Promised, D!Outcomes

(* The employees of one answer more. *)
LEMMA AnswersGrow ==
    ASSUME NEW s \in Seq(Result), NEW r \in Result
    PROVE  {Append(s, r)[i].employee : i \in 1..Len(Append(s, r))}
               = {s[i].employee : i \in 1..Len(s)} \cup {r.employee}
<1>1. /\ Len(s) \in Nat /\ Len(Append(s, r)) = Len(s) + 1
      /\ \A i \in 1..Len(s) : Append(s, r)[i] = s[i]
      /\ Append(s, r)[Len(s) + 1] = r
  BY AppendProperties
<1>2. 1..Len(Append(s, r)) = 1..Len(s) \cup {Len(s) + 1}
  BY <1>1
<1>3. QED
  BY <1>1, <1>2

(* What is promised of a call depends on that call alone. *)
LEMMA PromisedFrame ==
    ASSUME NEW c \in Calls, Promised(c),
           UNCHANGED <<mode, outcome[c], results[c]>>,
           \A e : <<c, e>> \in sent' <=> <<c, e>> \in sent
    PROVE  Promised(c)'
BY DEF Promised, D!Silent, D!Answered, D!Targets

(* Every step of publishing keeps the promise, and changes nothing of a    *)
(* call that has ended but what is in the stream.                          *)
LEMMA PromiseStep ==
    ASSUME PromiseInv, D!Next
    PROVE  /\ PromiseInv'
           /\ \A c \in Calls : outcome[c] # "open" =>
                 outcome'[c] = outcome[c] /\ results'[c] = results[c]
           /\ mode' = mode
<1> DEFINE Kept(c) == /\ Promised(c)'
                      /\ outcome[c] # "open" =>
                            outcome'[c] = outcome[c] /\ results'[c] = results[c]
           Functions1 == /\ outcome' = [c \in Calls |-> outcome'[c]]
                         /\ results' = [c \in Calls |-> results'[c]]
                         /\ mode' = mode /\ sent' \subseteq Calls \X Employee
<1>1. ASSUME NEW d \in Calls, NEW e \in Employee, D!IsSent(d, e)
      PROVE  Functions1 /\ \A c \in Calls : Kept(c)
  <2>1. UNCHANGED <<mode, outcome, results>> /\ sent' = sent \cup {<<d, e>>}
    BY <1>1 DEF D!IsSent
  <2>2. ASSUME NEW c \in Calls, c # d
        PROVE  Promised(c)'
    BY <2>1, <2>2, PromisedFrame DEF PromiseInv
  <2>3. Promised(d)'
    <3>1. e \in D!Targets(d) /\ ~D!Silent(d) /\ outcome[d] \in {"open", "answered"}
      BY <1>1 DEF D!IsSent, D!IsNext, PromiseInv, Promised
    <3>2. /\ D!Answered(d)' = D!Answered(d) /\ D!Silent(d)' = D!Silent(d)
      BY <2>1 DEF D!Answered, D!Silent
    <3>3. QED
      BY <2>1, <3>1, <3>2 DEF PromiseInv, Promised, D!Targets
  <2>4. QED
    BY <2>1, <2>2, <2>3 DEF PromiseInv
<1>2. ASSUME NEW d \in Calls, NEW e \in Employee, NEW ok \in BOOLEAN,
             D!Answers(d, e, ok)
      PROVE  Functions1 /\ \A c \in Calls : Kept(c)
  <2> DEFINE r == [employee |-> e, ok |-> ok]
  <2>1. /\ outcome[d] = "open" /\ ~D!Silent(d) /\ e \in D!Targets(d)
        /\ UNCHANGED <<mode, outcome>>
        /\ sent' = IF ok THEN sent \cup {<<d, e>>} ELSE sent
        /\ r \in Result
    BY <1>2 DEF D!Answers, D!IsNext, Result
  <2>2. results' = [results EXCEPT ![d] = Append(@, r)]
    BY <1>2 DEF D!Answers
  <2>3. /\ results' = [c \in Calls |-> results'[c]] /\ results'[d] = Append(results[d], r)
        /\ \A c \in Calls : c # d => results'[c] = results[c]
    BY <2>2 DEF PromiseInv
  <2>4. ASSUME NEW c \in Calls, c # d
        PROVE  Promised(c)'
    <3>1. \A x : <<c, x>> \in sent' <=> <<c, x>> \in sent
      BY <2>1, <2>4
    <3>2. QED
      BY <2>1, <2>3, <2>4, <3>1, PromisedFrame DEF PromiseInv
  <2>5. Promised(d)'
    <3>1. Promised(d) /\ results[d] \in Seq(Result)
      BY DEF PromiseInv, Promised
    <3>2. /\ Append(results[d], r) \in Seq(Result)
          /\ Len(Append(results[d], r)) = Len(results[d]) + 1 /\ Len(results[d]) \in Nat
          /\ \A i \in 1..Len(results[d]) : Append(results[d], r)[i] = results[d][i]
          /\ Append(results[d], r)[Len(results[d]) + 1] = r
      BY <2>1, <3>1, AppendProperties
    <3>3. D!Answered(d)' = D!Answered(d) \cup {e}
      <4>1. D!Answered(d)' = {Append(results[d], r)[i].employee :
                                 i \in 1..Len(Append(results[d], r))}
        BY <2>3 DEF D!Answered
      <4>2. {Append(results[d], r)[i].employee : i \in 1..Len(Append(results[d], r))}
                = D!Answered(d) \cup {r.employee}
        BY <2>1, <3>1, AnswersGrow DEF D!Answered
      <4>3. QED
        BY <4>1, <4>2
    <3>4. ASSUME NEW i \in 1..Len(results'[d]), results'[d][i].ok
          PROVE  <<d, results'[d][i].employee>> \in sent'
      <4>1. CASE i \in 1..Len(results[d])
        BY <2>1, <2>3, <3>1, <3>2, <3>4, <4>1 DEF Promised
      <4>2. CASE i = Len(results[d]) + 1
        BY <2>1, <2>3, <3>2, <3>4, <4>2
      <4>3. QED
        <5>1. i \in 1..(Len(results[d]) + 1)
          BY <2>3, <3>2, <3>4
        <5>2. QED
          BY <3>2, <4>1, <4>2, <5>1
    <3>5. D!Silent(d)' = D!Silent(d) /\ outcome'[d] = "open"
      BY <2>1 DEF D!Silent
    <3>6. \A x : <<d, x>> \in sent' => x \in D!Targets(d)
      BY <2>1, <3>1 DEF Promised
    <3>7. QED
      BY <2>1, <2>3, <3>1, <3>2, <3>3, <3>4, <3>5, <3>6
         DEF Promised, D!Targets, D!Outcomes
  <2>6. QED
    BY <2>1, <2>3, <2>4, <2>5 DEF PromiseInv
<1>3. ASSUME NEW d \in Calls, NEW how \in D!Outcomes \ {"open"}, D!Returns(d, how)
      PROVE  Functions1 /\ \A c \in Calls : Kept(c)
  <2>1. /\ outcome[d] = "open" /\ UNCHANGED <<mode, results, sent>>
        /\ outcome' = [outcome EXCEPT ![d] = how]
        /\ how = "skipped" => D!Silent(d)
        /\ how = "failed" => /\ results[d] = <<>>
                             /\ \A e \in D!Targets(d) : <<d, e>> \notin sent
        /\ how = "answered" => D!Answered(d) = D!Targets(d)
    BY <1>3 DEF D!Returns, D!Outcomes
  <2>2. /\ outcome' = [c \in Calls |-> outcome'[c]] /\ outcome'[d] = how
        /\ \A c \in Calls : c # d => outcome'[c] = outcome[c]
    BY <2>1 DEF PromiseInv
  <2>3. ASSUME NEW c \in Calls, c # d
        PROVE  Promised(c)'
    BY <2>1, <2>2, <2>3, PromisedFrame DEF PromiseInv
  <2>4. Promised(d)'
    <3>1. Promised(d)
      BY DEF PromiseInv
    <3>2. D!Silent(d)' = D!Silent(d) /\ D!Answered(d)' = D!Answered(d)
      BY <2>1 DEF D!Silent, D!Answered
    <3>3. how \in {"skipped", "failed"} => \A e : <<d, e>> \notin sent
      BY <2>1, <3>1 DEF Promised
    <3>4. how \in {"skipped", "failed", "answered"}
      BY DEF D!Outcomes
    <3>5. QED
      BY <2>1, <2>2, <3>1, <3>2, <3>3, <3>4 DEF Promised, D!Targets
  <2>5. QED
    BY <2>1, <2>2, <2>3, <2>4 DEF PromiseInv
<1>4. QED
  BY <1>1, <1>2, <1>3 DEF D!Next, D!Arrives, D!Call, PromiseInv

------------------------------------------------------------------------------
(* The log. *)

(* The log is the newest part of all that was ever appended, as long as    *)
(* its bound allows, and each entry is that of its call, which has ended.  *)
LogInv ==
    /\ max \in SmallestMax..LargestMax
    /\ history \in Seq(Calls) /\ entries \in Seq(Entries)
    /\ Len(entries) = Min({Len(history), max})
    /\ \A i \in 1..Len(entries) :
          /\ entries[i].call = history[Len(history) - Len(entries) + i]
          /\ outcome[entries[i].call] # "open"
          /\ entries[i] = EntryOf(entries[i].call)

(* The entry made for a call is one of that call. *)
LEMMA EntryType ==
    ASSUME NEW c \in Calls, Promised(c)
    PROVE  EntryOf(c) \in Entries /\ EntryOf(c).call = c
<1>1. DispatchNote(c) \in {"dispatch_disabled", "no_nats_url", "no_employees", ""}
  BY DEF DispatchNote
<1>2. results[c] \in Seq(Result)
  BY DEF Promised
<1>3. QED
  BY <1>1, <1>2 DEF EntryOf, Entries, Results, Result

(* At the start the log is empty. *)
LEMMA LogInit == Init => PromiseInv /\ LogInv
<1> SUFFICES ASSUME Init
             PROVE  LogInv
  BY PromiseInit DEF Init
<1>1. max \in SmallestMax..LargestMax
  BY ClampedMaxType DEF Init
<1>2. entries = <<>> /\ history = <<>>
  BY DEF Init
<1>3. Min({0, max}) = 0
  BY <1>1, MinOfTwo
<1>4. QED
  BY <1>1, <1>2, <1>3 DEF LogInv

(* An append takes the entry of an ended call to the newer end, and drops  *)
(* the oldest when the log is full.                                        *)
LEMMA LogAppends ==
    ASSUME PromiseInv, LogInv, NEW c \in Calls, Appends(c)
    PROVE  LogInv'
<1> DEFINE s == Append(entries, EntryOf(c))
           L == Len(entries)
           H == Len(history)
           n == Min({Len(s), max})
<1>1. /\ entries \in Seq(Entries) /\ history \in Seq(Calls)
      /\ L \in Nat /\ H \in Nat /\ max \in Nat \ {0}
      /\ max \in SmallestMax..LargestMax
      /\ EntryOf(c) \in Entries /\ EntryOf(c).call = c
  BY EntryType DEF LogInv, PromiseInv
<1>2. /\ s \in Seq(Entries) /\ Len(s) = L + 1
      /\ \A i \in 1..L : s[i] = entries[i]
      /\ s[L + 1] = EntryOf(c)
  BY <1>1, AppendProperties
<1>3. /\ history' \in Seq(Calls) /\ Len(history') = H + 1
      /\ \A i \in 1..H : history'[i] = history[i]
      /\ history'[H + 1] = c
  BY <1>1, AppendProperties DEF Appends
<1>4. /\ L = IF H <= max THEN H ELSE max
      /\ n = IF L + 1 <= max THEN L + 1 ELSE max
  <2>1. L = Min({H, max}) /\ n = Min({L + 1, max})
    BY <1>2 DEF LogInv
  <2> HIDE DEF L, H, n
  <2>2. Min({H, max}) = IF H <= max THEN H ELSE max
    BY <1>1, MinOfTwo
  <2>3. Min({L + 1, max}) = IF L + 1 <= max THEN L + 1 ELSE max
    BY <1>1, MinOfTwo
  <2>4. QED
    BY <2>1, <2>2, <2>3
<1>5. /\ entries' = Newest(s, n) /\ UNCHANGED <<mode, outcome, results, max>>
      /\ outcome[c] # "open"
  BY DEF Appends
<1> HIDE DEF s, n
<1>6. n \in 0..Len(s) /\ L <= H
  BY <1>1, <1>2, <1>4
<1>7. /\ entries' \in Seq(Entries) /\ Len(entries') = n
      /\ \A i \in 1..n : entries'[i] = s[L + 1 - n + i]
  <2>1. /\ Newest(s, n) \in Seq(Entries) /\ Len(Newest(s, n)) = n
        /\ \A i \in 1..n : Newest(s, n)[i] = s[Len(s) - n + i]
    BY <1>2, <1>6, NewestProperties
  <2>2. QED
    BY SMTT(30), <1>2, <1>5, <2>1
<1>8. Len(entries') = Min({Len(history'), max'})
  <2>1. n = IF H + 1 <= max THEN H + 1 ELSE max
    BY <1>1, <1>4
  <2>2. QED
    BY <1>1, <1>3, <1>5, <1>7, <2>1, MinOfTwo
<1>9. ASSUME NEW j \in 1..(L + 1)
      PROVE  /\ s[j].call = history'[H - L + j]
             /\ outcome[s[j].call] # "open"
             /\ s[j] = EntryOf(s[j].call)
  <2>1. CASE j \in 1..L
    <3>1. H - L + j \in 1..H
      BY <1>1, <1>6, <2>1
    <3>2. QED
      BY <1>2, <1>3, <2>1, <3>1 DEF LogInv
  <2>2. CASE j = L + 1
    <3>1. H - L + j = H + 1
      BY <1>1, <2>2
    <3>2. QED
      BY <1>1, <1>2, <1>3, <1>5, <2>2, <3>1
  <2>3. QED
    BY <1>1, <2>1, <2>2
<1>10. ASSUME NEW i \in 1..n
       PROVE  /\ entries'[i].call = history'[Len(history') - n + i]
              /\ outcome'[entries'[i].call] # "open"
              /\ entries'[i] = EntryOf(entries[i].call)'
  <2>1. /\ L + 1 - n + i \in 1..(L + 1)
        /\ H - L + (L + 1 - n + i) = Len(history') - n + i
    BY <1>1, <1>2, <1>3, <1>6
  <2>2. entries'[i] = s[L + 1 - n + i]
    BY <1>7
  <2>3. /\ entries'[i].call = history'[Len(history') - n + i]
        /\ outcome[entries'[i].call] # "open"
        /\ entries'[i] = EntryOf(entries'[i].call)
    BY <1>9, <2>1, <2>2
  <2>4. EntryOf(entries[i].call)' = EntryOf(entries'[i].call)
    BY <1>5 DEF EntryOf, DispatchNote
  <2>5. QED
    BY <1>5, <2>3, <2>4
<1>11. \A i \in 1..Len(entries') :
          /\ entries'[i].call = history'[Len(history') - Len(entries') + i]
          /\ outcome'[entries'[i].call] # "open"
          /\ entries'[i] = EntryOf(entries[i].call)'
  BY <1>7, <1>10
<1>12. max' \in SmallestMax..LargestMax
  BY <1>1, <1>5
<1>13. QED
  BY <1>3, <1>7, <1>8, <1>11, <1>12 DEF LogInv

(* Publishing, and a look at the log, leave what the log tells as it was. *)
LEMMA LogKept ==
    ASSUME LogInv, UNCHANGED logVars, mode' = mode,
           \A c \in Calls : outcome[c] # "open" =>
               outcome'[c] = outcome[c] /\ results'[c] = results[c]
    PROVE  LogInv'
<1>1. UNCHANGED <<max, entries, history>>
  BY DEF logVars
<1>2. ASSUME NEW i \in 1..Len(entries)
      PROVE  /\ outcome'[entries[i].call] # "open"
             /\ entries[i] = EntryOf(entries[i].call)'
  <2>1. entries[i].call \in Calls
    <3>1. entries[i] \in Entries
      BY ElementOfSeq DEF LogInv
    <3>2. QED
      BY <3>1 DEF Entries
  <2>2. outcome[entries[i].call] # "open" /\ entries[i] = EntryOf(entries[i].call)
    BY DEF LogInv
  <2>3. EntryOf(entries[i].call)' = EntryOf(entries'[i].call)
    <3>1. results'[entries[i].call] = results[entries[i].call] /\ entries' = entries
      BY <1>1, <2>1, <2>2
    <3>2. DispatchNote(entries[i].call)' = DispatchNote(entries[i].call)
      BY <3>1 DEF DispatchNote
    <3>3. QED
      BY <3>1, <3>2 DEF EntryOf
  <2>4. QED
    BY <1>1, <2>1, <2>2, <2>3
<1>3. QED
  BY <1>1, <1>2 DEF LogInv

(* Every step keeps the promise and the log. *)
LEMMA LogStep == PromiseInv /\ LogInv /\ [Next]_vars => PromiseInv' /\ LogInv'
<1> SUFFICES ASSUME PromiseInv, LogInv, [Next]_vars
             PROVE  PromiseInv' /\ LogInv'
  OBVIOUS
<1>1. CASE Publishes
  <2>1. D!Next /\ UNCHANGED logVars
    BY <1>1 DEF Publishes
  <2>2. QED
    BY <2>1, PromiseStep, LogKept
<1>2. ASSUME UNCHANGED <<mode, outcome, results, sent>>
      PROVE  PromiseInv'
  <2>1. \A c \in Calls : Promised(c)'
    BY <1>2, PromisedFrame DEF PromiseInv
  <2>2. QED
    BY <1>2, <2>1 DEF PromiseInv
<1>3. ASSUME NEW c \in Calls, Appends(c)
      PROVE  PromiseInv' /\ LogInv'
  BY <1>2, <1>3, LogAppends DEF Appends
<1>4. CASE Reader
  <2>1. UNCHANGED <<mode, outcome, results, sent, logVars>>
    BY <1>4 DEF Reader, Refuses, Shows
  <2>2. QED
    BY <1>2, <2>1, LogKept
<1>5. CASE UNCHANGED vars
  BY <1>2, <1>5, LogKept DEF vars
<1>6. QED
  BY <1>1, <1>3, <1>4, <1>5 DEF Next

(* The promise and the log hold in every state. *)
LEMMA LogCorrect == Spec => [](PromiseInv /\ LogInv)
BY LogInit, LogStep, PTL DEF Spec

(* The employees of a sequence of answers, and of those that say OK. *)
LEMMA EmployeesAnswered ==
    ASSUME NEW s \in Seq(Result)
    PROVE  /\ {r.employee : r \in ToSet(s)} = {s[i].employee : i \in 1..Len(s)}
           /\ \A r \in ToSet(s) : \E i \in 1..Len(s) : r = s[i]
<1>1. ToSet(s) = {s[i] : i \in 1..Len(s)}
  BY LenProperties DEF ToSet
<1>2. QED
  BY <1>1

(* A call that ended without answers has sent nothing, or its employees    *)
(* all trim to "".                                                         *)
LEMMA NothingIsSent ==
    ASSUME NEW c \in Calls, Promised(c), outcome[c] # "open", results[c] = <<>>
    PROVE  \A e : <<c, e>> \notin sent
<1> SUFFICES ASSUME NEW e, <<c, e>> \in sent
             PROVE  FALSE
  OBVIOUS
<1>1. outcome[c] = "answered" /\ e \in D!Targets(c)
  BY DEF Promised
<1>2. D!Answered(c) = {}
  BY DEF D!Answered
<1>3. QED
  BY <1>1, <1>2 DEF Promised

(* EntriesAreTrue always holds: what an entry tells of its decision stays  *)
(* true, although late messages may still be stored for the call.          *)
THEOREM EntriesStayTrue == Spec => []EntriesAreTrue
<1>1. PromiseInv /\ LogInv => EntriesAreTrue
  <2> SUFFICES ASSUME PromiseInv, LogInv, NEW i \in 1..Len(entries)
               PROVE  LET e == entries[i]
                          reached == {p[2] : p \in {q \in sent : q[1] = e.call}}
                      IN /\ {r.employee : r \in {x \in ToSet(e.results) : x.ok}}
                               \subseteq reached
                         /\ e.results = <<>> /\ e.note = "" => reached = {}
                         /\ e.results # <<>> => {r.employee : r \in ToSet(e.results)}
                                                     = D!Targets(e.call)
    BY DEF EntriesAreTrue
  <2> DEFINE e == entries[i]
             c == entries[i].call
             reached == {p[2] : p \in {q \in sent : q[1] = e.call}}
  <2>1. /\ c \in Calls /\ outcome[c] # "open" /\ e.results = results[c]
    <3>1. e \in Entries
      BY ElementOfSeq DEF LogInv
    <3>2. c \in Calls
      BY <3>1 DEF Entries
    <3>3. outcome[c] # "open" /\ e = EntryOf(c)
      BY DEF LogInv
    <3>4. EntryOf(c).results = results[c]
      BY DEF EntryOf
    <3>5. QED
      BY <3>2, <3>3, <3>4
  <2>2. Promised(c) /\ results[c] \in Seq(Result)
    BY <2>1 DEF PromiseInv, Promised
  <2>3. ASSUME NEW r \in ToSet(e.results), r.ok
        PROVE  r.employee \in reached
    <3>1. PICK j \in 1..Len(results[c]) : r = results[c][j]
      BY <2>1, <2>2, <2>3, EmployeesAnswered
    <3>2. <<c, r.employee>> \in sent
      BY <2>2, <2>3, <3>1 DEF Promised
    <3>3. QED
      BY <3>2
  <2>4. e.results = <<>> => reached = {}
    <3>1. \A q \in sent : q = <<q[1], q[2]>>
      BY DEF PromiseInv
    <3>2. e.results = <<>> => \A x : <<c, x>> \notin sent
      BY <2>1, <2>2, NothingIsSent
    <3>3. QED
      BY <3>1, <3>2
  <2>5. e.results # <<>> => {r.employee : r \in ToSet(e.results)} = D!Targets(c)
    <3>1. e.results # <<>> => outcome[c] = "answered"
      BY <2>1, <2>2 DEF Promised, D!Outcomes
    <3>2. {r.employee : r \in ToSet(e.results)} = D!Answered(c)
      BY <2>1, <2>2, EmployeesAnswered DEF D!Answered
    <3>3. QED
      BY <2>2, <3>1, <3>2 DEF Promised
  <2>6. {r.employee : r \in {x \in ToSet(e.results) : x.ok}} \subseteq reached
    BY <2>3
  <2>7. QED
    BY <2>4, <2>5, <2>6
<1>2. QED
  BY LogCorrect, <1>1, PTL

------------------------------------------------------------------------------
(* What the reader sees. *)

(* A response shows, of the calls that had appended by then, the newest    *)
(* ones in their order.                                                    *)
ResponseInv ==
    response.status = 200 =>
        /\ response.limit \in 1..LargestLimit
        /\ response.seen \in 0..Len(history)
        /\ ShowsTheNewest

(* No response has been given at the start. *)
LEMMA ResponseInit == Init => ResponseInv
<1> SUFFICES ASSUME Init
             PROVE  ResponseInv
  OBVIOUS
<1>1. response.status = 0
  BY DEF Init, Refusal
<1>2. QED
  BY <1>1 DEF ResponseInv

(* A response stays right when nothing but more history is added. *)
LEMMA ResponseKept ==
    ASSUME LogInv, ResponseInv, UNCHANGED <<max, response>>,
           history' = history \/ \E c \in Calls : history' = Append(history, c)
    PROVE  ResponseInv'
<1> SUFFICES ASSUME response'.status = 200
             PROVE  /\ response'.limit \in 1..LargestLimit
                    /\ response'.seen \in 0..Len(history')
                    /\ ShowsTheNewest'
  BY DEF ResponseInv
<1> DEFINE n == Min({response.limit, response.seen, max})
<1>1. /\ response.status = 200
      /\ response.limit \in 1..LargestLimit /\ response.seen \in 0..Len(history)
      /\ Len(response.shown) = n
      /\ \A i \in 1..n : response.shown[i].call = history[response.seen - n + i]
  BY DEF ResponseInv, ShowsTheNewest
<1>2. /\ Len(history) \in Nat /\ Len(history') \in Nat /\ Len(history) <= Len(history')
      /\ \A i \in 1..Len(history) : history'[i] = history[i]
  <2>1. history \in Seq(Calls) /\ Len(history) \in Nat
    BY DEF LogInv
  <2>2. ASSUME NEW c \in Calls, history' = Append(history, c)
        PROVE  /\ Len(history') = Len(history) + 1
               /\ \A i \in 1..Len(history) : history'[i] = history[i]
    BY <2>1, <2>2, AppendProperties
  <2>3. QED
    BY <2>1, <2>2
<1>3. n \in Int /\ n <= response.seen /\ (n >= 1 \/ n <= 0)
  <2>1. response.limit \in Int /\ response.seen \in Int /\ max \in Int
    BY <1>1, <1>2 DEF LogInv
  <2>2. \A a, b, d \in Int : Min({a, b, d}) \in {a, b, d} /\ Min({a, b, d}) <= b
    BY MinOfThree
  <2>3. n \in {response.limit, response.seen, max} /\ n <= response.seen
    BY SMTT(30), <2>1, <2>2
  <2> HIDE DEF n
  <2>4. QED
    BY <2>1, <2>3
<1> HIDE DEF n
<1>4. ASSUME NEW i \in 1..n
      PROVE  response.shown[i].call = history'[response.seen - n + i]
  <2>1. response.seen - n + i \in 1..Len(history)
    BY <1>1, <1>2, <1>3
  <2>2. QED
    BY SMTT(30), <1>1, <1>2, <2>1
<1>5. ShowsTheNewest'
  BY <1>1, <1>4 DEF ShowsTheNewest, n
<1>6. QED
  BY <1>1, <1>2, <1>5

(* What is shown are the newest of all that were appended: the log holds   *)
(* them, because it keeps max of them and never drops but the oldest.      *)
LEMMA ShownIsNewest ==
    ASSUME LogInv, NEW method, NEW bearer, NEW query, Shows(method, bearer, query)
    PROVE  ResponseInv'
<1> DEFINE limit == LimitOf(query)
           H == Len(history)
           L == Len(entries)
           k == Min({limit, L, max})
           n == Min({limit, H, max})
<1>1. /\ limit \in 1..LargestLimit /\ limit \in Int /\ limit > 0
      /\ history \in Seq(Calls) /\ entries \in Seq(Entries)
      /\ H \in Nat /\ L \in Nat /\ max \in Nat \ {0}
  BY LimitType DEF LogInv
<1>2. /\ response' = Response(limit) /\ UNCHANGED <<max, entries, history>>
  BY DEF Shows, logVars
<1>3. L = IF H <= max THEN H ELSE max
  BY <1>1, MinOfTwo DEF LogInv
<1>4. /\ k \in {limit, L, max} /\ k <= limit /\ k <= L /\ k <= max
      /\ n \in {limit, H, max} /\ n <= limit /\ n <= H /\ n <= max
  <2>1. limit \in Int /\ L \in Int /\ H \in Int /\ max \in Int
    BY <1>1
  <2> HIDE DEF limit, L, H
  <2>2. k \in {limit, L, max} /\ k <= limit /\ k <= L /\ k <= max
    BY <2>1, MinOfThree
  <2>3. n \in {limit, H, max} /\ n <= limit /\ n <= H /\ n <= max
    BY <2>1, MinOfThree
  <2>4. QED
    BY <2>2, <2>3
<1> HIDE DEF k, n, limit, H, L
<1>5. k = n /\ k \in 0..L /\ L <= H
  BY <1>1, <1>3, <1>4
<1>6. Snapshot(limit) = Newest(entries, k)
  BY <1>1 DEF Snapshot, k, L
<1>7. /\ Len(Newest(entries, k)) = k
      /\ \A i \in 1..k : Newest(entries, k)[i] = entries[L - k + i]
  BY <1>1, <1>5, NewestProperties DEF L
<1>8. ASSUME NEW i \in 1..n
      PROVE  Snapshot(limit)[i].call = history[H - n + i]
  <2>1. L - k + i \in 1..L /\ H - L + (L - k + i) = H - n + i
    BY <1>1, <1>5
  <2>2. entries[L - k + i].call = history[H - L + (L - k + i)]
    BY <2>1 DEF LogInv, L, H
  <2>3. QED
    BY <1>5, <1>6, <1>7, <2>1, <2>2
<1>9. /\ response'.status = 200 /\ response'.limit = limit /\ response'.seen = H
      /\ response'.shown = Snapshot(limit)
  BY <1>2 DEF Response, H
<1>10. ShowsTheNewest'
  <2>1. Min({response'.limit, response'.seen, max'}) = n
    BY <1>2, <1>9 DEF n
  <2>2. Len(response'.shown) = n
    BY <1>5, <1>6, <1>7, <1>9
  <2>3. \A i \in 1..n : response'.shown[i].call = history'[response'.seen - n + i]
    BY <1>2, <1>8, <1>9
  <2>4. QED
    BY <2>1, <2>2, <2>3 DEF ShowsTheNewest
<1>11. response'.seen \in 0..Len(history')
  BY <1>1, <1>2, <1>9 DEF H
<1>12. QED
  BY <1>1, <1>9, <1>10, <1>11 DEF ResponseInv

(* Every step keeps the last response right. *)
LEMMA ResponseStep == PromiseInv /\ LogInv /\ ResponseInv /\ [Next]_vars => ResponseInv'
<1> SUFFICES ASSUME LogInv, ResponseInv, [Next]_vars
             PROVE  ResponseInv'
  OBVIOUS
<1>1. CASE Publishes
  BY <1>1, ResponseKept DEF Publishes, logVars
<1>2. ASSUME NEW c \in Calls, Appends(c)
      PROVE  ResponseInv'
  BY <1>2, ResponseKept DEF Appends
<1>3. ASSUME NEW method, NEW bearer, Refuses(method, bearer)
      PROVE  ResponseInv'
  <2>1. response'.status = Status(method, bearer) /\ Status(method, bearer) # 200
    BY <1>3 DEF Refuses, Refusal
  <2>2. QED
    BY <2>1 DEF ResponseInv
<1>4. ASSUME NEW method, NEW bearer, NEW query, Shows(method, bearer, query)
      PROVE  ResponseInv'
  BY <1>4, ShownIsNewest
<1>5. CASE UNCHANGED vars
  BY <1>5, ResponseKept DEF vars, logVars
<1>6. QED
  BY <1>1, <1>2, <1>3, <1>4, <1>5 DEF Next, Reader

(* ShowsTheNewest always holds: a reader that comes between any two        *)
(* appends sees the newest entries, in their order and without a gap.      *)
THEOREM ReaderSeesTheNewest == Spec => []ShowsTheNewest
<1>1. ResponseInv => ShowsTheNewest
  BY DEF ResponseInv, ShowsTheNewest
<1>2. QED
  BY LogInit, LogStep, ResponseInit, ResponseStep, <1>1, PTL DEF Spec

------------------------------------------------------------------------------
(* The values. *)

(* A response is a refusal, or has a limit and shows entries. *)
ResponseType ==
    response \in [status : {0, 200, 401, 405, 503}, limit : 0..LargestLimit,
                  seen : Nat, shown : Seq(Entries)]

(* What a snapshot holds are entries of the log. *)
LEMMA SnapshotType ==
    ASSUME LogInv, NEW limit \in Nat \ {0}
    PROVE  Snapshot(limit) \in Seq(Entries)
<1> DEFINE k == Min({limit, Len(entries), max})
<1>1. /\ entries \in Seq(Entries) /\ Len(entries) \in Nat /\ max \in Nat \ {0}
  BY DEF LogInv
<1>2. k \in {limit, Len(entries), max} /\ k <= Len(entries)
  <2>1. limit \in Int /\ Len(entries) \in Int /\ max \in Int
    BY <1>1
  <2>2. QED
    BY <2>1, MinOfThree
<1>3. Snapshot(limit) = Newest(entries, k)
  BY DEF Snapshot
<1> HIDE DEF k
<1>4. k \in 0..Len(entries)
  BY <1>1, <1>2
<1>5. QED
  BY <1>1, <1>3, <1>4, NewestProperties

(* Every step keeps the last response one of these. *)
LEMMA ResponseTypeStep ==
    ASSUME LogInv, ResponseType, [Next]_vars
    PROVE  ResponseType'
<1>1. ASSUME NEW method, NEW bearer, Refuses(method, bearer)
      PROVE  ResponseType'
  <2>1. response' = Refusal(Status(method, bearer))
    BY <1>1 DEF Refuses
  <2>2. Status(method, bearer) \in {200, 401, 405, 503}
    BY DEF Status
  <2>3. 0 \in 0..LargestLimit /\ <<>> \in Seq(Entries)
    OBVIOUS
  <2>4. QED
    BY <2>1, <2>2, <2>3 DEF ResponseType, Refusal
<1>2. ASSUME NEW method, NEW bearer, NEW query, Shows(method, bearer, query)
      PROVE  ResponseType'
  <2>1. response' = Response(LimitOf(query))
    BY <1>2 DEF Shows
  <2>2. LimitOf(query) \in 1..LargestLimit
    BY LimitType
  <2>3. LimitOf(query) \in 0..LargestLimit /\ LimitOf(query) \in Nat \ {0}
    BY <2>2
  <2>4. Snapshot(LimitOf(query)) \in Seq(Entries)
    BY <2>3, SnapshotType
  <2>5. Len(history) \in Nat
    BY DEF LogInv
  <2>6. QED
    BY <2>1, <2>3, <2>4, <2>5 DEF ResponseType, Response
<1>3. CASE UNCHANGED response
  BY <1>3 DEF ResponseType
<1>4. QED
  BY <1>1, <1>2, <1>3 DEF Next, Reader, Publishes, Appends, vars

(* TypeOK always holds: whatever bound was configured the log keeps to it, *)
(* and its entries, the answers of the calls it follows and what its       *)
(* readers are shown have the form they should.                            *)
THEOREM TypeCorrect == Spec => []TypeOK
<1>1. Init => ResponseType
  <2> SUFFICES ASSUME Init
               PROVE  ResponseType
    OBVIOUS
  <2>1. 0 \in 0..LargestLimit /\ <<>> \in Seq(Entries)
    OBVIOUS
  <2>2. QED
    BY <2>1 DEF Init, Refusal, ResponseType
<1>2. LogInv /\ ResponseType /\ [Next]_vars => ResponseType'
  BY ResponseTypeStep
<1>3. PromiseInv /\ LogInv /\ ResponseType => TypeOK
  <2> SUFFICES ASSUME PromiseInv, LogInv, ResponseType
               PROVE  TypeOK
    OBVIOUS
  <2>1. outcome \in [Calls -> D!Outcomes]
    BY DEF PromiseInv, Promised
  <2>2. results \in [Calls -> Results]
    BY DEF PromiseInv, Promised, Results, Result
  <2>3. mode \in Modes /\ sent \subseteq Calls \X Employee
    BY DEF PromiseInv
  <2>4. max \in SmallestMax..LargestMax /\ Len(entries) <= max
    BY MinOfTwo DEF LogInv
  <2>5. history \in Seq(Calls) /\ entries \in Seq(Entries)
    BY DEF LogInv
  <2>6. QED
    BY <2>1, <2>2, <2>3, <2>4, <2>5 DEF TypeOK, ResponseType
<1>4. QED
  BY LogCorrect, <1>1, <1>2, <1>3, PTL DEF Spec
==============================================================================
