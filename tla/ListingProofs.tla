---------------------------- MODULE ListingProofs ----------------------------
(***************************************************************************)
(* The theorems about Listing: what a response says of the pages Slack     *)
(* showed, for every size of page and cap and every number of pages.       *)
(***************************************************************************)
EXTENDS Listing, SequenceFacts

(* A cap is a positive number. *)
LEMMA CapIsPositive == Cap \in Nat \ {0}
BY ListingAssumption DEF Cap

(* A page is a sequence of ids and blanks. *)
LEMMA PageIsSequence ==
    ASSUME NEW page \in Pages
    PROVE  /\ page \in Seq(Ids \cup {Blank}) /\ Len(page) \in Nat
           /\ DOMAIN page = 1..Len(page)
<1>1. PICK m \in 0..PageSize : page \in [1..m -> Ids \cup {Blank}]
  BY DEF Pages, BoundedSeq, SeqOf
<1>2. m \in Nat
  BY ListingAssumption
<1>3. page \in Seq(Ids \cup {Blank})
  BY <1>1, <1>2, SeqDef
<1>4. QED
  BY <1>3, LenProperties

------------------------------------------------------------------------------
(* The ids collected from a page. *)

(* What the loop over a page does with one id. *)
Collected(ids, id) ==
    IF id = Blank \/ Len(ids) >= Cap \/ (Channels /\ id \in ToSet(ids))
    THEN ids ELSE Append(ids, id)

(* It leaves a sequence of ids.                                            *)
LEMMA CollectedIsSequence ==
    ASSUME NEW ids \in Seq(Ids), NEW id \in Ids \cup {Blank}
    PROVE  Collected(ids, id) \in Seq(Ids)
<1>1. CASE id = Blank
  BY <1>1 DEF Collected
<1>2. CASE id # Blank
  <2>1. Append(ids, id) \in Seq(Ids)
    BY <1>2, AppendProperties
  <2>2. QED
    BY <2>1 DEF Collected
<1>3. QED
  BY <1>1, <1>2

(* The loop's values, from the ids collected before to the ones after it. *)
LEMMA CollectStepByStep ==
    ASSUME NEW page \in Pages, all \in Seq(Ids)
    PROVE  \E v \in [0..Len(page) -> Seq(Ids)] :
               /\ v[0] = all /\ v[Len(page)] = Collect(page)
               /\ \A k \in 1..Len(page) : v[k] = Collected(v[k - 1], page[k])
<1> DEFINE n == Len(page)
           Y == Seq(Ids)
           G == [x \in (1..n) \X Y |-> Collected(x[2], page[x[1]])]
           Obeys(f) == f = [s \in SUBSET (DOMAIN page) |->
                               IF s = {} THEN all
                               ELSE Collected(f[s \ {Max(s)}], page[Max(s)])]
           iter == CHOOSE f : Obeys(f)
<1>1. /\ n \in Nat /\ DOMAIN page = 1..n
      /\ \A k \in 1..n : page[k] \in Ids \cup {Blank}
  BY PageIsSequence, ElementOfSeq
<1>2. \A k \in 1..n, ids \in Y : Collected(ids, page[k]) \in Y
  BY <1>1, CollectedIsSequence
<1>3. G \in [(1..n) \X Y -> Y] /\ all \in Y
  BY <1>2
<1>4. PICK h \in [SUBSET (1..n) -> Y] : \A s \in SUBSET (1..n) :
          h[s] = IF s = {} THEN all ELSE G[<<Max(s), h[s \ {Max(s)}]>>]
  <2> HIDE DEF G, n, Y
  <2>1. FoldValues(1..n, Y, all, G, [s \in SUBSET (1..n) |-> Max(s)]) # {}
    BY <1>1, <1>3, FoldLeftExists
  <2>2. QED
    BY <2>1 DEF FoldValues
<1>5. ASSUME NEW s \in SUBSET (1..n), s # {}
      PROVE  /\ Max(s) \in 1..n /\ s \ {Max(s)} \in SUBSET (1..n)
             /\ h[s] = Collected(h[s \ {Max(s)}], page[Max(s)])
  <2>1. Max(s) \in s
    BY <1>1, <1>5, MaxProperties
  <2>2. h[s \ {Max(s)}] \in Y
    BY <1>4
  <2> HIDE DEF n, Y
  <2>3. QED
    BY <1>4, <1>5, <2>1, <2>2
<1>6. Obeys(h)
  <2> HIDE DEF n, Y
  <2>1. QED
    BY <1>1, <1>4, <1>5
<1>7. Obeys(iter)
  <2> HIDE DEF Obeys
  <2>1. QED
    BY <1>6
<1>8. Collect(page) = iter[DOMAIN page]
  BY DEF Collect, FoldLeft, MapThenFoldSet, Collected
<1> HIDE DEF iter
<1>9. iter[{}] = all
  BY <1>7
<1>10. ASSUME NEW k \in 1..n
       PROVE  iter[1..k] = Collected(iter[1..(k - 1)], page[k])
  <2>1. /\ 1..k \in SUBSET (1..n) /\ 1..k # {}
        /\ Max(1..k) = k /\ (1..k) \ {k} = 1..(k - 1)
    BY <1>1, MaxOfPrefix
  <2> HIDE DEF n
  <2>2. QED
    BY <1>1, <1>7, <2>1
<1> DEFINE v == [k \in 0..n |-> iter[1..k]]
<1>11. v[0] = all /\ v[n] = Collect(page)
  BY <1>1, <1>8, <1>9
<1>12. \A k \in 1..n : v[k] = Collected(v[k - 1], page[k])
  BY <1>1, <1>10
<1> HIDE DEF v
<1>13. \A k \in 0..n : v[k] \in Y
  <2> DEFINE T == {k \in 0..n : v[k] \notin Y}
  <2> SUFFICES ASSUME T # {}
               PROVE  FALSE
    OBVIOUS
  <2>1. PICK k \in T : \A j \in T : k <= j
    <3>1. T \subseteq Nat
      BY <1>1
    <3> HIDE DEF T
    <3>2. QED
      BY <3>1, LeastNatural
  <2>2. k \in 1..n /\ k - 1 \in 0..n /\ k - 1 \notin T
    BY <1>1, <1>3, <1>11, <2>1
  <2>3. v[k - 1] \in Y
    BY <2>2
  <2>4. v[k] \in Y
    BY <1>2, <1>12, <2>2, <2>3
  <2>5. QED
    BY <2>1, <2>4
<1>14. QED
  BY <1>11, <1>12, <1>13 DEF v

(* The ids of a part of a page. *)
IdsUpTo(page, k) == {page[j] : j \in 1..k} \ {Blank}

(* What is true of the ids while the loop is at place k of a page: they    *)
(* grow up to the cap, and below it nothing is left out.                   *)
CollectedSoFar(ids, page, k) ==
    /\ ids \in Seq(Ids) /\ Len(ids) <= Cap
    /\ Channels => IsInjective(ids)
    /\ ToSet(ids) \subseteq ToSet(all) \cup IdsUpTo(page, k)
    /\ Len(ids) < Cap => ToSet(ids) = ToSet(all) \cup IdsUpTo(page, k)

(* Appending to a sequence adds to its members. *)
LEMMA MembersAppend ==
    ASSUME NEW S, NEW s \in Seq(S), NEW x \in S
    PROVE  /\ Append(s, x) \in Seq(S) /\ Len(Append(s, x)) = Len(s) + 1
           /\ Len(s) \in Nat
           /\ ToSet(Append(s, x)) = ToSet(s) \cup {x}
           /\ IsInjective(s) /\ x \notin ToSet(s) => IsInjective(Append(s, x))
<1>1. /\ Append(s, x) \in Seq(S) /\ Len(Append(s, x)) = Len(s) + 1
      /\ Len(s) \in Nat
      /\ \A i \in 1..Len(s) : Append(s, x)[i] = s[i]
      /\ Append(s, x)[Len(s) + 1] = x
  BY AppendProperties, LenProperties
<1>2. /\ DOMAIN Append(s, x) = 1..(Len(s) + 1)
      /\ DOMAIN s = 1..Len(s)
  BY <1>1, LenProperties
<1>3. ToSet(Append(s, x)) = ToSet(s) \cup {x}
  BY RangeAppend DEF ToSet, Range
<1>4. ASSUME IsInjective(s), x \notin ToSet(s)
      PROVE  IsInjective(Append(s, x))
  <2> DEFINE t == Append(s, x)
  <2> SUFFICES ASSUME NEW i \in DOMAIN t, NEW j \in DOMAIN t, t[i] = t[j]
               PROVE  i = j
    BY DEF IsInjective
  <2>1. \A k \in 1..Len(s) : t[k] # x
    BY <1>1, <1>2, <1>4 DEF ToSet
  <2> HIDE DEF t
  <2>2. i \in 1..(Len(s) + 1) /\ j \in 1..(Len(s) + 1)
    BY <1>2 DEF t
  <2>3. CASE i = Len(s) + 1 \/ j = Len(s) + 1
    BY <1>1, <2>1, <2>2, <2>3 DEF t
  <2>4. CASE i \in 1..Len(s) /\ j \in 1..Len(s)
    <3>1. s[i] = s[j]
      BY <1>1, <2>4 DEF t
    <3>2. QED
      BY <1>2, <1>4, <2>4, <3>1 DEF IsInjective
  <2>5. QED
    BY <1>1, <2>2, <2>3, <2>4
<1>5. QED
  BY <1>1, <1>3, <1>4

(* One place of the page. *)
LEMMA CollectsOne ==
    ASSUME NEW page \in Pages, all \in Seq(Ids), NEW k \in 1..Len(page),
           NEW ids, CollectedSoFar(ids, page, k - 1)
    PROVE  CollectedSoFar(Collected(ids, page[k]), page, k)
<1> DEFINE id == page[k]
           before == IdsUpTo(page, k - 1)
           after == IdsUpTo(page, k)
<1>1. /\ id \in Ids \cup {Blank} /\ Len(page) \in Nat
      /\ ids \in Seq(Ids) /\ Len(ids) \in Nat /\ Len(ids) <= Cap /\ Cap \in Nat
      /\ Channels => IsInjective(ids)
      /\ ToSet(ids) \subseteq ToSet(all) \cup before
      /\ Len(ids) < Cap => ToSet(ids) = ToSet(all) \cup before
  BY PageIsSequence, ElementOfSeq, LenProperties, CapIsPositive DEF CollectedSoFar
<1>2. 1..k = (1..(k - 1)) \cup {k}
  BY <1>1
<1>3. after = before \cup ({id} \ {Blank})
  BY <1>2 DEF IdsUpTo
<1> HIDE DEF id, before, after
<1>4. CASE id = Blank
  <2>1. Collected(ids, id) = ids /\ after = before
    BY <1>3, <1>4 DEF Collected
  <2>2. QED
    BY <1>1, <2>1 DEF CollectedSoFar, id, before, after
<1>5. CASE id # Blank /\ Len(ids) >= Cap
  <2>1. Collected(ids, id) = ids /\ ~(Len(ids) < Cap)
    BY <1>1, <1>5 DEF Collected
  <2>2. before \subseteq after
    BY <1>3
  <2>3. QED
    BY <1>1, <2>1, <2>2 DEF CollectedSoFar, id, before, after
<1>6. CASE id # Blank /\ ~(Len(ids) >= Cap) /\ Channels /\ id \in ToSet(ids)
  <2>1. Collected(ids, id) = ids
    BY <1>6 DEF Collected
  <2>2. after = before \cup {id} /\ Len(ids) < Cap
    BY <1>1, <1>3, <1>6
  <2>3. ToSet(ids) = ToSet(all) \cup before
    BY <1>1, <2>2
  <2>4. ToSet(ids) = ToSet(all) \cup after
    BY <1>6, <2>2, <2>3
  <2>5. QED
    BY <1>1, <2>1, <2>4 DEF CollectedSoFar, id, after
<1>7. CASE id # Blank /\ ~(Len(ids) >= Cap) /\ ~(Channels /\ id \in ToSet(ids))
  <2>1. Collected(ids, id) = Append(ids, id) /\ id \in Ids
    BY <1>1, <1>7 DEF Collected
  <2>2. /\ Append(ids, id) \in Seq(Ids) /\ Len(Append(ids, id)) = Len(ids) + 1
        /\ ToSet(Append(ids, id)) = ToSet(ids) \cup {id}
        /\ IsInjective(ids) /\ id \notin ToSet(ids) => IsInjective(Append(ids, id))
    BY <1>1, <2>1, MembersAppend
  <2>3. after = before \cup {id} /\ Len(ids) < Cap /\ Len(ids) + 1 <= Cap
    BY <1>1, <1>3, <1>7
  <2>4. ToSet(Append(ids, id)) = ToSet(all) \cup after
    BY <1>1, <2>2, <2>3
  <2>5. Channels => IsInjective(Append(ids, id))
    BY <1>1, <1>7, <2>2
  <2>6. QED
    BY <2>1, <2>2, <2>3, <2>4, <2>5 DEF CollectedSoFar, id, after
<1>8. QED
  BY <1>4, <1>5, <1>6, <1>7 DEF id

(* A whole page.                                                           *)
LEMMA CollectProperties ==
    ASSUME NEW page \in Pages, all \in Seq(Ids), Len(all) <= Cap,
           Channels => IsInjective(all)
    PROVE  /\ Collect(page) \in Seq(Ids) /\ Len(Collect(page)) \in Nat
           /\ Len(Collect(page)) <= Cap
           /\ Channels => IsInjective(Collect(page))
           /\ ToSet(Collect(page)) \subseteq ToSet(all) \cup (ToSet(page) \ {Blank})
           /\ Len(Collect(page)) < Cap =>
                  ToSet(Collect(page)) = ToSet(all) \cup (ToSet(page) \ {Blank})
<1> DEFINE n == Len(page)
<1>1. n \in Nat /\ DOMAIN page = 1..n
  BY PageIsSequence
<1>2. PICK v \in [0..n -> Seq(Ids)] :
          /\ v[0] = all /\ v[n] = Collect(page)
          /\ \A k \in 1..n : v[k] = Collected(v[k - 1], page[k])
  BY CollectStepByStep
<1>3. CollectedSoFar(v[0], page, 0)
  <2>1. IdsUpTo(page, 0) = {}
    BY DEF IdsUpTo
  <2>2. QED
    BY <1>2, <2>1 DEF CollectedSoFar
<1>4. CollectedSoFar(v[n], page, n)
  <2> DEFINE T == {k \in 0..n : ~CollectedSoFar(v[k], page, k)}
  <2> SUFFICES ASSUME T # {}
               PROVE  FALSE
    BY <1>1
  <2>1. PICK k \in T : \A j \in T : k <= j
    <3>1. T \subseteq Nat
      BY <1>1
    <3> HIDE DEF T
    <3>2. QED
      BY <3>1, LeastNatural
  <2>2. k \in 1..n /\ k - 1 \in 0..n /\ k - 1 \notin T
    BY <1>1, <1>3, <2>1
  <2>3. CollectedSoFar(v[k - 1], page, k - 1)
    BY <2>2
  <2>4. CollectedSoFar(v[k], page, k)
    BY <1>2, <2>2, <2>3, CollectsOne
  <2>5. QED
    BY <2>1, <2>4
<1>5. IdsUpTo(page, n) = ToSet(page) \ {Blank}
  BY <1>1 DEF IdsUpTo, ToSet
<1> HIDE DEF n
<1>6. QED
  BY <1>2, <1>4, <1>5, LenProperties DEF CollectedSoFar
------------------------------------------------------------------------------
(* The humans kept. *)

(* The members of a sequence of ids are a finite set of numbers, no more   *)
(* than its places.                                                        *)
LEMMA MembersAreFinite ==
    ASSUME NEW ids \in Seq(Ids)
    PROVE  /\ ToSet(ids) \subseteq Ids /\ ToSet(ids) \subseteq Int
           /\ IsFiniteSet(ToSet(ids)) /\ Cardinality(ToSet(ids)) \in Nat
           /\ Len(ids) \in Nat /\ Cardinality(ToSet(ids)) <= Len(ids)
<1> DEFINE n == Len(ids)
           S == ToSet(ids)
<1>1. /\ n \in Nat /\ DOMAIN ids = 1..n
      /\ \A i \in 1..n : ids[i] \in Ids
  BY LenProperties, ElementOfSeq
<1>2. S \subseteq Ids /\ S \subseteq Int
  <2>1. S \subseteq Ids
    BY <1>1 DEF ToSet
  <2>2. \A x \in Ids : x \in Int
    BY ListingAssumption
  <2> HIDE DEF S
  <2>3. QED
    BY <2>1, <2>2
<1>3. ids \in Surjection(1..n, S)
  <2>1. S = {ids[i] : i \in 1..n}
    BY <1>1 DEF ToSet
  <2>2. ids \in [1..n -> S]
    BY <1>1, <2>1, SeqDef
  <2> HIDE DEF S, n
  <2>3. QED
    BY <2>1, <2>2 DEF Surjection
<1>4. IsFiniteSet(1..n) /\ Cardinality(1..n) = n
  <2> HIDE DEF n
  <2>1. QED
    BY <1>1, FS_Interval
<1> HIDE DEF S, n
<1>5. IsFiniteSet(S) /\ Cardinality(S) <= n
  BY <1>3, <1>4, FS_Surjection
<1>6. QED
  BY <1>1, <1>2, <1>5, FS_CardinalityType DEF S, n

(* The humans in order, cut to the cap: a member that is not kept is       *)
(* greater than all that are, and then the cap is reached.                 *)
LEMMA KeptProperties ==
    ASSUME NEW ids \in Seq(Ids)
    PROVE  /\ Kept(ids) \in Seq(Ids)
           /\ IsInjective(Kept(ids)) /\ ToSet(Kept(ids)) \subseteq ToSet(ids)
           /\ \A id \in ToSet(ids) \ ToSet(Kept(ids)) :
                  /\ Len(Kept(ids)) = MaxHumanUserIDs
                  /\ Len(ids) > MaxHumanUserIDs
                  /\ \A kept \in ToSet(Kept(ids)) : kept < id
<1> DEFINE S == ToSet(ids)
           c == Cardinality(S)
           s == InOrder(S)
           m == Min({Len(s), MaxHumanUserIDs})
<1>1. /\ S \subseteq Ids /\ S \subseteq Int /\ IsFiniteSet(S) /\ c \in Nat
      /\ Len(ids) \in Nat /\ c <= Len(ids)
  BY MembersAreFinite
<1>2. /\ s \in Seq(S) /\ Len(s) = c
      /\ \A i, j \in 1..c : i < j => s[i] < s[j]
      /\ \A x \in S : /\ Cardinality(UpTo(S, x)) \in 1..c
                      /\ s[Cardinality(UpTo(S, x))] = x
  <2> HIDE DEF S
  <2>1. QED
    BY <1>1, InOrderProperties
<1>3. /\ m \in Nat /\ m <= c /\ m <= MaxHumanUserIDs
      /\ m = c \/ m = MaxHumanUserIDs
  <2>1. {c, MaxHumanUserIDs} \subseteq Nat /\ {c, MaxHumanUserIDs} # {}
    BY <1>1, ListingAssumption
  <2>2. m = Min({c, MaxHumanUserIDs})
    BY <1>2
  <2> HIDE DEF c, m
  <2>3. m \in {c, MaxHumanUserIDs} /\ \A y \in {c, MaxHumanUserIDs} : m <= y
    BY <2>1, <2>2, MinProperties
  <2>4. QED
    BY <2>1, <2>3
<1>4. Kept(ids) = SubSeq(s, 1, m)
  BY DEF Kept, FirstHumans, Sorted
<1> DEFINE k == Kept(ids)
<1> HIDE DEF S, c, s, m
<1>5. /\ Len(k) = m /\ DOMAIN k = 1..m
      /\ \A i \in 1..m : i \in 1..c /\ k[i] = s[i]
  <2>1. 1..m \subseteq 1..c
    BY <1>1, <1>3
  <2>2. /\ Len(SubSeq(s, 1, m)) = m /\ SubSeq(s, 1, m) \in Seq(S)
        /\ \A i \in 1..m : SubSeq(s, 1, m)[i] = s[i]
    BY <1>1, <1>2, <1>3, <2>1, SubSeqProperties
  <2>3. QED
    BY <1>4, <2>1, <2>2, LenProperties
<1> HIDE DEF k
<1>6. \A i \in 1..c : s[i] \in S /\ s[i] \in Int
  BY <1>1, <1>2, ElementOfSeq
<1>7. IsInjective(k)
  <2> SUFFICES ASSUME NEW i \in 1..m, NEW j \in 1..m, k[i] = k[j]
               PROVE  i = j
    BY <1>5 DEF IsInjective
  <2>1. s[i] = s[j] /\ i \in 1..c /\ j \in 1..c
    BY <1>5
  <2>2. ~(i < j) /\ ~(j < i)
    BY <1>2, <1>6, <2>1
  <2>3. QED
    BY <2>1, <2>2
<1>8. ToSet(k) = {s[i] : i \in 1..m}
  BY <1>5 DEF ToSet
<1>9. ToSet(k) \subseteq S
  BY <1>5, <1>6, <1>8
<1>10. ASSUME NEW id \in S \ ToSet(k)
       PROVE  /\ Len(k) = MaxHumanUserIDs
              /\ Len(ids) > MaxHumanUserIDs
              /\ \A kept \in ToSet(k) : kept < id
  <2> DEFINE r == Cardinality(UpTo(S, id))
  <2>1. r \in 1..c /\ s[r] = id
    BY <1>2
  <2> HIDE DEF r
  <2>2. r \notin 1..m
    BY <1>8, <2>1
  <2>3. r \in Nat /\ r > m /\ r <= c
    BY <1>1, <1>3, <2>1, <2>2
  <2>4. m = MaxHumanUserIDs /\ c > m
    BY <1>1, <1>3, <2>3
  <2>5. \A i \in 1..m : s[i] < id
    BY <1>1, <1>2, <1>5, <2>1, <2>3
  <2>6. QED
    BY <1>1, <1>5, <1>8, <2>4, <2>5
<1>11. k \in Seq(Ids)
  <2>1. \A i \in 1..m : s[i] \in Ids
    BY <1>1, <1>5, <1>6
  <2>2. k \in [1..m -> Ids]
    <3>1. k = [i \in 1..m |-> s[i]]
      BY <1>1, <1>2, <1>3, <1>4, <1>5 DEF k
    <3>2. QED
      BY <2>1, <3>1
  <2>3. QED
    BY <1>3, <2>2, SeqDef
<1>12. QED
  BY <1>7, <1>9, <1>10, <1>11 DEF k, S
------------------------------------------------------------------------------
(* The inductive invariant. *)

(* The ids that were looked up. *)
Looked == {all[i] : i \in 1..(next - 1)}

(* What was collected: everything Slack showed, below the cap. *)
CollectedInv ==
    /\ request \in Requests
    /\ pc \in {"start", "page", "lookup", "answered"}
    /\ late \in BOOLEAN
    /\ all \in Seq(Ids) /\ Len(all) <= Cap
    /\ Channels => IsInjective(all)
    /\ ToSet(all) \subseteq shown
    /\ Len(all) < Cap => ToSet(all) = shown
    /\ pc \in {"start", "page"} => Len(all) < Cap /\ next = 1 /\ human = <<>>

(* What was looked up: each human once, but for the lookups that failed. *)
HumansInv ==
    /\ next \in 1..(Len(all) + 1)
    /\ human \in Seq(Ids) /\ IsInjective(human)
    /\ ToSet(human) \subseteq Humans \cap Looked
    /\ (Humans \cap Looked) \ unknown \subseteq ToSet(human)

(* An answer is about all that was collected. *)
AnswerInv ==
    /\ answer.status \in {0, 200, 400, 405, 502, 503}
    /\ pc = "lookup" => ~Channels
    /\ pc # "answered" => answer.status = 0
    /\ answer.status = 200 /\ Channels =>
           answer.ids = all /\ answer.cut = (Len(all) >= Cap)
    /\ answer.status = 200 /\ ~Channels =>
           /\ next = Len(all) + 1
           /\ answer.ids = Kept(human) /\ answer.cut = (Len(all) >= Cap)
           /\ answer.cutHumans = (Len(human) > MaxHumanUserIDs)

(* What was shown and what failed are ids, and so is what is answered. *)
ValuesInv ==
    /\ shown \subseteq Ids /\ unknown \subseteq Ids
    /\ answer \in [status : {0, 200, 400, 405, 502, 503}, ids : Seq(Ids),
                   cut : BOOLEAN, cutHumans : BOOLEAN]

ListingInv == CollectedInv /\ HumansInv /\ AnswerInv /\ ValuesInv
(* A request starts with nothing collected and nothing answered.           *)
LEMMA ListingStart == Init => ListingInv
<1> SUFFICES ASSUME Init
             PROVE  ListingInv
  OBVIOUS
<1>1. /\ all = <<>> /\ human = <<>> /\ next = 1 /\ pc = "start" /\ late = FALSE
      /\ request \in Requests /\ answer = Answer(0, <<>>, FALSE, FALSE)
      /\ shown = {} /\ unknown = {}
  BY DEF Init
<1>2. /\ all \in Seq(Ids) /\ human \in Seq(Ids) /\ Len(all) = 0
      /\ ToSet(all) = {} /\ IsInjective(all) /\ ToSet(human) = {}
      /\ IsInjective(human) /\ Looked = {}
  BY <1>1, EmptySeq DEF ToSet, IsInjective, Looked
<1>3. Cap \in Nat \ {0}
  BY CapIsPositive
<1>4. CollectedInv
  <2>1. Len(all) <= Cap /\ Len(all) < Cap /\ ToSet(all) = shown
    BY <1>1, <1>2, <1>3
  <2>2. QED
    BY <1>1, <1>2, <2>1 DEF CollectedInv
<1>5. HumansInv
  BY <1>1, <1>2 DEF HumansInv
<1>6. AnswerInv
  BY <1>1 DEF AnswerInv, Answer
<1>7. ValuesInv
  BY <1>1, <1>2 DEF ValuesInv, Answer
<1>8. QED
  BY <1>4, <1>5, <1>6, <1>7 DEF ListingInv

(* The request does not change, and with it neither its kind nor its cap.  *)
LEMMA RequestStays ==
    ASSUME [Next]_vars
    PROVE  request' = request /\ Channels' = Channels /\ Cap' = Cap
<1>1. request' = request
  BY DEF Next, Handler, Starts, PageFails, AnswersMembers, PageArrives, LooksUp,
         DeadlinePasses, vars
<1>2. QED
  BY <1>1 DEF Channels, Cap

(* The steps that change what was collected are the pages.                 *)
LEMMA OnlyPagesCollect ==
    ASSUME [Next]_vars, \A page \in Pages, more \in BOOLEAN : ~PageArrives(page, more)
    PROVE  /\ all' = all /\ shown' = shown
           /\ pc' \in {"start", "page"} => /\ pc \in {"start", "page"}
                                          /\ next' = next /\ human' = human
           /\ late' \in {late, TRUE}
           /\ pc' \in {pc, "page", "lookup", "answered"}
BY DEF Next, Handler, Starts, PageFails, AnswersMembers, LooksUp, DeadlinePasses,
       Sends, vars

(* Only a page adds ids, and CollectProperties says which.                 *)
LEMMA CollectedStep ==
    ASSUME CollectedInv, [Next]_vars
    PROVE  CollectedInv'
<1>1. request' = request /\ Channels' = Channels /\ Cap' = Cap
  BY RequestStays
<1>2. CASE \A page \in Pages, more \in BOOLEAN : ~PageArrives(page, more)
  <2>1. /\ all' = all /\ shown' = shown
        /\ pc' \in {"start", "page"} => /\ pc \in {"start", "page"}
                                       /\ next' = next /\ human' = human
        /\ late' \in {late, TRUE}
        /\ pc' \in {pc, "page", "lookup", "answered"}
    BY <1>2, OnlyPagesCollect
  <2>2. QED
    BY <1>1, <2>1 DEF CollectedInv
<1>3. ASSUME NEW page \in Pages, NEW more \in BOOLEAN, PageArrives(page, more)
      PROVE  CollectedInv'
  <2>1. /\ pc = "page" /\ late' = late /\ next' = next /\ human' = human
        /\ all' = Collect(page) /\ shown' = shown \cup (ToSet(page) \ {Blank})
        /\ pc' \in {"page", "lookup", "answered"}
        /\ pc' = "page" => ~IsCut(page, more)
    BY <1>3 DEF PageArrives, Sends
  <2>2. /\ all \in Seq(Ids) /\ Len(all) <= Cap /\ Len(all) < Cap
        /\ Channels => IsInjective(all)
        /\ ToSet(all) = shown /\ next = 1 /\ human = <<>>
        /\ request \in Requests /\ late \in BOOLEAN
    BY <2>1 DEF CollectedInv
  <2>3. /\ all' \in Seq(Ids) /\ Len(all') \in Nat /\ Len(all') <= Cap
        /\ Channels => IsInjective(all')
        /\ ToSet(all') \subseteq shown'
        /\ Len(all') < Cap => ToSet(all') = shown'
    BY <2>1, <2>2, CollectProperties
  <2>4. pc' = "page" => Len(all') < Cap
    BY <2>1, <2>3, CapIsPositive DEF IsCut
  <2>5. pc' \in {"start", "page"} => Len(all') < Cap /\ next' = 1 /\ human' = <<>>
    BY <2>1, <2>2, <2>4
  <2>6. QED
    BY <1>1, <2>1, <2>2, <2>3, <2>5 DEF CollectedInv
<1>4. QED
  BY <1>2, <1>3

(* A lookup adds one id to those looked up, and at most that one to the    *)
(* humans.                                                                 *)
LEMMA LookupStep ==
    ASSUME CollectedInv, HumansInv, NEW ok \in BOOLEAN, LooksUp(ok)
    PROVE  HumansInv'
<1> DEFINE id == all[next]
<1>1. /\ next' = next + 1 /\ all' = all /\ next <= Len(all)
      /\ human' = IF ok /\ ~SeenBefore(next) /\ id \in Humans
                  THEN Append(human, id) ELSE human
      /\ unknown' = IF ok \/ SeenBefore(next) THEN unknown ELSE unknown \cup {id}
  BY DEF LooksUp
<1>2. /\ all \in Seq(Ids) /\ Len(all) \in Nat /\ next \in 1..Len(all)
      /\ human \in Seq(Ids) /\ IsInjective(human)
      /\ ToSet(human) \subseteq Humans \cap Looked
      /\ (Humans \cap Looked) \ unknown \subseteq ToSet(human)
  BY <1>1, LenProperties DEF CollectedInv, HumansInv
<1>3. id \in Ids
  BY <1>2, ElementOfSeq
<1>4. next' \in 1..(Len(all') + 1)
  BY <1>1, <1>2
<1>5. Looked' = Looked \cup {id}
  <2>1. 1..(next' - 1) = (1..(next - 1)) \cup {next}
    BY <1>1, <1>2
  <2>2. QED
    BY <1>1, <2>1 DEF Looked
<1>6. SeenBefore(next) <=> id \in Looked
  BY DEF SeenBefore, Looked
<1> HIDE DEF id
<1>7. CASE ok /\ id \notin Looked /\ id \in Humans
  <2>1. human' = Append(human, id) /\ unknown' = unknown
    BY <1>1, <1>6, <1>7
  <2>2. id \notin ToSet(human)
    BY <1>2, <1>7
  <2>3. /\ human' \in Seq(Ids) /\ ToSet(human') = ToSet(human) \cup {id}
        /\ IsInjective(human')
    BY <1>2, <1>3, <2>1, <2>2, MembersAppend
  <2>4. /\ ToSet(human') \subseteq Humans \cap Looked'
        /\ (Humans \cap Looked') \ unknown' \subseteq ToSet(human')
    BY <1>2, <1>5, <1>7, <2>1, <2>3
  <2>5. QED
    BY <1>4, <2>3, <2>4 DEF HumansInv
<1>8. CASE ~(ok /\ id \notin Looked /\ id \in Humans)
  <2>1. human' = human
    BY <1>1, <1>6, <1>8
  <2>2. unknown \subseteq unknown'
    BY <1>1
  <2>3. id \in Humans => id \in Looked \/ id \in unknown'
    BY <1>1, <1>6, <1>8
  <2>4. /\ ToSet(human') \subseteq Humans \cap Looked'
        /\ (Humans \cap Looked') \ unknown' \subseteq ToSet(human')
    BY <1>2, <1>5, <2>1, <2>2, <2>3
  <2>5. QED
    BY <1>2, <1>4, <2>1, <2>4 DEF HumansInv
<1>9. QED
  BY <1>7, <1>8

(* Only the lookups change what was looked up and found human.             *)
LEMMA HumansStep ==
    ASSUME CollectedInv, CollectedInv', HumansInv, [Next]_vars
    PROVE  HumansInv'
<1>1. CASE \E ok \in BOOLEAN : LooksUp(ok)
  BY <1>1, LookupStep
<1>2. ASSUME NEW page \in Pages, NEW more \in BOOLEAN, PageArrives(page, more)
      PROVE  HumansInv'
  <2>1. pc = "page" /\ next' = next /\ human' = human /\ unknown' = unknown
    BY <1>2 DEF PageArrives
  <2>2. next' = 1 /\ human' = <<>> /\ all' \in Seq(Ids) /\ Len(all') \in Nat
    BY <2>1, LenProperties DEF CollectedInv
  <2>3. Looked' = {}
    BY <2>2 DEF Looked
  <2>4. human' \in Seq(Ids) /\ IsInjective(human') /\ ToSet(human') = {}
    BY <2>2, EmptySeq DEF IsInjective, ToSet
  <2>5. QED
    BY <2>2, <2>3, <2>4 DEF HumansInv
<1>3. CASE Starts \/ PageFails \/ AnswersMembers \/ DeadlinePasses \/ UNCHANGED vars
  <2>1. next' = next /\ human' = human /\ unknown' = unknown /\ all' = all
    BY <1>3 DEF Starts, PageFails, AnswersMembers, DeadlinePasses, vars
  <2>2. Looked' = Looked
    BY <2>1 DEF Looked
  <2>3. QED
    BY <2>1, <2>2 DEF HumansInv
<1>4. QED
  BY <1>1, <1>2, <1>3 DEF Next, Handler

(* The answer is set once, from what was collected and found so far.       *)
LEMMA AnswerStep ==
    ASSUME CollectedInv, HumansInv, AnswerInv, [Next]_vars
    PROVE  AnswerInv'
<1>1. request' = request /\ Channels' = Channels /\ Cap' = Cap
  BY RequestStays
<1>2. /\ answer.status \in {0, 200, 400, 405, 502, 503}
      /\ pc = "lookup" => ~Channels
      /\ pc # "answered" => answer.status = 0
  BY DEF AnswerInv
<1>3. CASE Starts
  <2>1. CASE Refusal = 200
    <3>1. pc' = "page" /\ answer' = answer /\ answer.status = 0
      BY <1>2, <1>3, <2>1 DEF Starts
    <3>2. QED
      BY <3>1 DEF AnswerInv
  <2>2. CASE Refusal # 200
    <3>1. pc' = "answered" /\ answer'.status = Refusal
      BY <1>3, <2>2 DEF Starts, Sends, Answer
    <3>2. Refusal \in {400, 405, 503}
      BY <2>2 DEF Refusal
    <3>3. QED
      BY <3>1, <3>2 DEF AnswerInv
  <2>3. QED
    BY <2>1, <2>2
<1>4. ASSUME NEW page \in Pages, NEW more \in BOOLEAN, PageArrives(page, more)
      PROVE  AnswerInv'
  <2>1. pc = "page" /\ answer.status = 0 /\ all' = Collect(page)
    BY <1>2, <1>4 DEF PageArrives
  <2>2. CASE more /\ ~IsCut(page, more)
    <3>1. pc' = "page" /\ answer' = answer
      BY <1>4, <2>1, <2>2 DEF PageArrives
    <3>2. QED
      BY <2>1, <3>1 DEF AnswerInv
  <2>3. CASE ~(more /\ ~IsCut(page, more)) /\ Channels
    <3>1. pc' = "answered" /\ answer' = Answer(200, all', IsCut(page, more), FALSE)
      BY <1>4, <2>3 DEF PageArrives, Sends
    <3>2. IsCut(page, more) = (Len(all') >= Cap')
      BY <1>1, <2>1 DEF IsCut
    <3>3. QED
      BY <1>1, <2>3, <3>1, <3>2 DEF AnswerInv, Answer
  <2>4. CASE ~(more /\ ~IsCut(page, more)) /\ ~Channels
    <3>1. pc' = "lookup" /\ answer' = answer
      BY <1>4, <2>4 DEF PageArrives
    <3>2. QED
      BY <1>1, <2>1, <2>4, <3>1 DEF AnswerInv
  <2>5. QED
    BY <2>2, <2>3, <2>4
<1>5. CASE PageFails
  <2>1. pc' = "answered" /\ answer'.status = 502
    BY <1>5 DEF PageFails, Sends, Answer
  <2>2. QED
    BY <2>1 DEF AnswerInv
<1>6. ASSUME NEW ok \in BOOLEAN, LooksUp(ok)
      PROVE  AnswerInv'
  <2>1. pc = "lookup" /\ pc' = pc /\ answer' = answer
    BY <1>6 DEF LooksUp
  <2>2. QED
    BY <1>1, <1>2, <2>1 DEF AnswerInv
<1>7. CASE AnswersMembers
  <2>1. /\ pc = "lookup" /\ next > Len(all) /\ pc' = "answered"
        /\ answer' = Answer(200, Kept(human), Len(all) >= MaxMemberIDs,
                            Len(human) > MaxHumanUserIDs)
        /\ all' = all /\ next' = next /\ human' = human
    BY <1>7 DEF AnswersMembers, Sends
  <2>2. Len(all) \in Nat /\ next \in 1..(Len(all) + 1)
    BY LenProperties DEF CollectedInv, HumansInv
  <2>3. next' = Len(all') + 1
    BY <2>1, <2>2
  <2>4. ~Channels /\ Cap = MaxMemberIDs
    BY <1>2, <2>1 DEF Cap
  <2>5. Kept(human)' = Kept(human)
    BY <2>1 DEF Kept, FirstHumans, Sorted
  <2>6. QED
    BY <1>1, <2>1, <2>3, <2>4, <2>5 DEF AnswerInv, Answer
<1>8. CASE DeadlinePasses \/ UNCHANGED vars
  <2>1. /\ pc' = pc /\ answer' = answer /\ all' = all /\ next' = next
        /\ human' = human
    BY <1>8 DEF DeadlinePasses, vars
  <2>2. Kept(human)' = Kept(human)
    BY <2>1 DEF Kept, FirstHumans, Sorted
  <2>3. QED
    BY <1>1, <2>1, <2>2 DEF AnswerInv
<1>9. QED
  BY <1>3, <1>4, <1>5, <1>6, <1>7, <1>8 DEF Next, Handler

(* A page shows ids and blanks, a lookup is of an id that was collected,   *)
(* and an answer is empty, what was collected, or the humans kept.         *)
LEMMA ValuesStep ==
    ASSUME CollectedInv, CollectedInv', HumansInv, ValuesInv, [Next]_vars
    PROVE  ValuesInv'
<1>1. /\ all \in Seq(Ids) /\ all' \in Seq(Ids) /\ human \in Seq(Ids)
      /\ <<>> \in Seq(Ids) /\ next \in 1..(Len(all) + 1) /\ Len(all) \in Nat
  BY LenProperties, EmptySeq DEF CollectedInv, HumansInv
<1>2. CASE UNCHANGED <<answer, shown, unknown>>
  BY <1>2 DEF ValuesInv
<1>3. CASE Starts
  <2>1. CASE Refusal = 200
    BY <1>2, <1>3, <2>1 DEF Starts
  <2>2. CASE Refusal # 200
    <3>1. Refusal \in {400, 405, 503}
      BY <2>2 DEF Refusal
    <3>2. /\ answer' = Answer(Refusal, <<>>, FALSE, FALSE)
          /\ shown' \subseteq Ids /\ unknown' \subseteq Ids
      BY <1>3, <2>2 DEF Starts, Sends, ValuesInv
    <3>3. QED
      BY <1>1, <3>1, <3>2 DEF ValuesInv, Answer
  <2>3. QED
    BY <2>1, <2>2
<1>4. ASSUME NEW page \in Pages, NEW more \in BOOLEAN, PageArrives(page, more)
      PROVE  ValuesInv'
  <2>1. shown' \subseteq Ids /\ unknown' \subseteq Ids
    <3>1. \A i \in DOMAIN page : page[i] \in Ids \cup {Blank}
      BY PageIsSequence, ElementOfSeq
    <3>2. ToSet(page) \ {Blank} \subseteq Ids
      BY <3>1 DEF ToSet
    <3>3. QED
      BY <1>4, <3>2 DEF PageArrives, ValuesInv
  <2>2. IsCut(page, more) \in BOOLEAN
    BY DEF IsCut
  <2>3. answer' = answer \/ answer' = Answer(200, all', IsCut(page, more), FALSE)
    BY <1>4 DEF PageArrives, Sends
  <2>4. CASE answer' = answer
    BY <2>1, <2>4 DEF ValuesInv
  <2>5. CASE answer' = Answer(200, all', IsCut(page, more), FALSE)
    BY <1>1, <2>1, <2>2, <2>5 DEF ValuesInv, Answer
  <2>6. QED
    BY <2>3, <2>4, <2>5
<1>5. CASE PageFails
  <2>1. /\ answer' = Answer(502, <<>>, FALSE, FALSE)
        /\ shown' \subseteq Ids /\ unknown' \subseteq Ids
    BY <1>5 DEF PageFails, Sends, ValuesInv
  <2>2. QED
    BY <1>1, <2>1 DEF ValuesInv, Answer
<1>6. ASSUME NEW ok \in BOOLEAN, LooksUp(ok)
      PROVE  ValuesInv'
  <2>1. next \in 1..Len(all)
    BY <1>1, <1>6 DEF LooksUp
  <2>2. all[next] \in Ids
    BY <1>1, <2>1, ElementOfSeq
  <2>3. QED
    BY <1>6, <2>2 DEF LooksUp, ValuesInv
<1>7. CASE AnswersMembers
  <2>1. Kept(human) \in Seq(Ids)
    BY <1>1, KeptProperties
  <2>2. /\ answer' = Answer(200, Kept(human), Len(all) >= MaxMemberIDs,
                            Len(human) > MaxHumanUserIDs)
        /\ shown' \subseteq Ids /\ unknown' \subseteq Ids
    BY <1>7 DEF AnswersMembers, Sends, ValuesInv
  <2>3. QED
    BY <2>1, <2>2 DEF ValuesInv, Answer
<1>8. CASE DeadlinePasses \/ UNCHANGED vars
  BY <1>2, <1>8 DEF DeadlinePasses, vars
<1>9. QED
  BY <1>3, <1>4, <1>5, <1>6, <1>7, <1>8 DEF Next, Handler

(* So the invariant holds throughout.                                     *)
LEMMA ListingAlways == Spec => []ListingInv
<1>1. ASSUME ListingInv, [Next]_vars
      PROVE  ListingInv'
  BY <1>1, CollectedStep, HumansStep, AnswerStep, ValuesStep DEF ListingInv
<1>2. QED
  BY ListingStart, <1>1, PTL DEF Spec
------------------------------------------------------------------------------
(* The theorems. *)

(* Every variable has the values the program can give it: the collected    *)
(* ids never exceed their cap, whatever the pages hold.                    *)
THEOREM TypeCorrect == Spec => []TypeOK
<1>1. ASSUME ListingInv
      PROVE  TypeOK
  <2>1. /\ request \in Requests /\ late \in BOOLEAN
        /\ pc \in {"start", "page", "lookup", "answered"}
        /\ next \in 1..(Len(all) + 1) /\ human \in Seq(Ids)
    BY <1>1 DEF ListingInv, CollectedInv, HumansInv
  <2>2. all \in BoundedSeq(Ids, Cap)
    <3>1. all \in Seq(Ids) /\ Len(all) <= Cap
      BY <1>1 DEF ListingInv, CollectedInv
    <3>2. all \in [1..Len(all) -> Ids] /\ Len(all) \in 0..Cap
      BY <3>1, LenProperties, CapIsPositive
    <3>3. QED
      BY <3>2 DEF BoundedSeq, SeqOf
  <2>3. ValuesInv
    BY <1>1 DEF ListingInv
  <2>4. QED
    BY <2>1, <2>2, <2>3 DEF TypeOK, ValuesInv
<1>2. QED
  BY <1>1, ListingAlways, PTL

(* Whatever the pages repeat or leave blank, a listing of channels has     *)
(* each channel Slack showed, once, or is marked as cut; it is marked only *)
(* when it is full.                                                        *)
THEOREM ChannelsAreNotMissed == Spec => []ChannelsAreCompleteOrCut
<1>1. ASSUME ListingInv
      PROVE  ChannelsAreCompleteOrCut
  <2> SUFFICES ASSUME Listed, Channels
               PROVE  /\ IsInjective(answer.ids)
                      /\ ToSet(answer.ids) \subseteq shown
                      /\ ~answer.cut => ToSet(answer.ids) = shown
                      /\ answer.cut => Len(answer.ids) = MaxChannels
    BY DEF ChannelsAreCompleteOrCut
  <2>1. answer.ids = all /\ answer.cut = (Len(all) >= Cap)
    BY <1>1 DEF ListingInv, AnswerInv, Listed
  <2>2. /\ all \in Seq(Ids) /\ Len(all) <= Cap /\ IsInjective(all)
        /\ ToSet(all) \subseteq shown /\ (Len(all) < Cap => ToSet(all) = shown)
    BY <1>1 DEF ListingInv, CollectedInv
  <2>3. Len(all) \in Nat /\ Cap \in Nat /\ Cap = MaxChannels
    BY <2>2, LenProperties, CapIsPositive DEF Cap
  <2>4. CASE Len(all) >= Cap
    <3>1. Len(all) = MaxChannels
      BY <2>2, <2>3, <2>4
    <3>2. answer.cut
      BY <2>1, <2>4
    <3>3. QED
      BY <2>1, <2>2, <3>1, <3>2
  <2>5. CASE ~(Len(all) >= Cap)
    <3>1. ToSet(all) = shown
      BY <2>2, <2>3, <2>5
    <3>2. ~answer.cut
      BY <2>1, <2>5
    <3>3. QED
      BY <2>1, <2>2, <3>1, <3>2
  <2>6. QED
    BY <2>4, <2>5
<1>2. QED
  BY <1>1, ListingAlways, PTL

(* What a listing of people was made from.                                 *)
LEMMA AllWereLookedUp ==
    ASSUME ListingInv, Listed, ~Channels
    PROVE  /\ answer.ids = Kept(human) /\ human \in Seq(Ids)
           /\ answer.cutHumans = (Len(human) > MaxHumanUserIDs)
           /\ ToSet(human) \subseteq Humans \cap shown
           /\ (ToSet(all) \cap Humans) \ unknown \subseteq ToSet(human)
           /\ ~answer.cut => ToSet(all) = shown
<1>1. /\ next = Len(all) + 1
      /\ answer.ids = Kept(human) /\ answer.cut = (Len(all) >= Cap)
      /\ answer.cutHumans = (Len(human) > MaxHumanUserIDs)
  BY DEF ListingInv, AnswerInv, Listed
<1>2. /\ all \in Seq(Ids) /\ Len(all) <= Cap
      /\ ToSet(all) \subseteq shown /\ (Len(all) < Cap => ToSet(all) = shown)
      /\ human \in Seq(Ids) /\ ToSet(human) \subseteq Humans \cap Looked
      /\ (Humans \cap Looked) \ unknown \subseteq ToSet(human)
  BY DEF ListingInv, CollectedInv, HumansInv
<1>3. Len(all) \in Nat /\ DOMAIN all = 1..Len(all) /\ Cap \in Nat
  BY <1>2, LenProperties, CapIsPositive
<1>4. Looked = ToSet(all)
  <2>1. 1..(next - 1) = DOMAIN all
    BY <1>1, <1>3
  <2>2. QED
    BY <2>1 DEF Looked, ToSet
<1>5. ~answer.cut => ToSet(all) = shown
  <2>1. CASE Len(all) >= Cap
    BY <1>1, <2>1
  <2>2. CASE ~(Len(all) >= Cap)
    BY <1>2, <1>3, <2>2
  <2>3. QED
    BY <2>1, <2>2
<1>6. QED
  BY <1>1, <1>2, <1>4, <1>5

(* A listing of people has no bot and nobody twice; one that is not marked *)
(* has every human Slack showed but for those whose lookup failed.         *)
THEOREM HumansAreNotMissed == Spec => []HumansAreCompleteOrCut
<1>1. ASSUME ListingInv
      PROVE  HumansAreCompleteOrCut
  <2> SUFFICES ASSUME Listed, ~Channels
               PROVE  /\ IsInjective(answer.ids)
                      /\ ToSet(answer.ids) \subseteq Humans \cap shown
                      /\ ~answer.cut /\ ~answer.cutHumans =>
                             (shown \cap Humans) \ unknown \subseteq ToSet(answer.ids)
    BY DEF HumansAreCompleteOrCut
  <2>1. /\ answer.ids = Kept(human) /\ human \in Seq(Ids)
        /\ answer.cutHumans = (Len(human) > MaxHumanUserIDs)
        /\ ToSet(human) \subseteq Humans \cap shown
        /\ (ToSet(all) \cap Humans) \ unknown \subseteq ToSet(human)
        /\ ~answer.cut => ToSet(all) = shown
    BY <1>1, AllWereLookedUp
  <2>2. /\ IsInjective(answer.ids) /\ ToSet(answer.ids) \subseteq ToSet(human)
        /\ \A id \in ToSet(human) \ ToSet(answer.ids) : Len(human) > MaxHumanUserIDs
    BY <2>1, KeptProperties
  <2>3. ~answer.cutHumans => ToSet(human) = ToSet(answer.ids)
    BY <2>1, <2>2
  <2>4. QED
    BY <2>1, <2>2, <2>3
<1>2. QED
  BY <1>1, ListingAlways, PTL

(* The first cut, of the ids collected, is always marked; the second, of   *)
(* the humans among them, leaves out the last of the alphabet, in whatever *)
(* order the pages showed those that were collected.                       *)
THEOREM FirstHumansAreKept == Spec => []CutKeepsTheFirst
<1>1. ASSUME ListingInv
      PROVE  CutKeepsTheFirst
  <2> SUFFICES ASSUME Listed, ~Channels
               PROVE  /\ answer.cut \/ ToSet(all) = shown
                      /\ \A id \in (ToSet(all) \cap Humans)
                                    \ (unknown \cup ToSet(answer.ids)) :
                             /\ Len(answer.ids) = MaxHumanUserIDs
                             /\ \A kept \in ToSet(answer.ids) : kept < id
    BY DEF CutKeepsTheFirst
  <2>1. /\ answer.ids = Kept(human) /\ human \in Seq(Ids)
        /\ (ToSet(all) \cap Humans) \ unknown \subseteq ToSet(human)
        /\ ~answer.cut => ToSet(all) = shown
    BY <1>1, AllWereLookedUp
  <2>2. ASSUME NEW id \in (ToSet(all) \cap Humans) \ (unknown \cup ToSet(answer.ids))
        PROVE  /\ Len(answer.ids) = MaxHumanUserIDs
               /\ \A kept \in ToSet(answer.ids) : kept < id
    <3>1. id \in ToSet(human) \ ToSet(Kept(human))
      BY <2>1, <2>2
    <3>2. QED
      BY <2>1, <3>1, KeptProperties
  <2>3. QED
    BY <2>1, <2>2
<1>2. QED
  BY <1>1, ListingAlways, PTL
==============================================================================
