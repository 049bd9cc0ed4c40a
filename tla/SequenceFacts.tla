---------------------------- MODULE SequenceFacts ----------------------------
(***************************************************************************)
(* Facts about sequences used as queues, about the size of a union, about  *)
(* the members of a set in order, and about folds, which the library does  *)
(* not state.                                                              *)
(***************************************************************************)
EXTENDS SequenceTheorems, FiniteSetTheorems, FunctionTheorems,
        WellFoundedInduction, SequencesExt, Ordered, TLAPS

(* The range of the empty sequence is empty. *)
LEMMA RangeEmpty == Range(<<>>) = {}
BY DEF Range

(* Appending adds one element to the range. *)
LEMMA RangeAppend ==
    ASSUME NEW S, NEW s \in Seq(S), NEW x \in S
    PROVE  Range(Append(s, x)) = Range(s) \cup {x}
<1>1. /\ Append(s, x) \in Seq(S)
      /\ Len(Append(s, x)) = Len(s) + 1
      /\ Len(s) \in Nat
      /\ \A i \in 1..Len(s) : Append(s, x)[i] = s[i]
      /\ Append(s, x)[Len(s) + 1] = x
  BY AppendProperties
<1>2. /\ DOMAIN Append(s, x) = 1..Len(s) + 1
      /\ DOMAIN s = 1..Len(s)
  BY <1>1
<1>3. QED
  BY <1>1, <1>2 DEF Range

(* A nonempty sequence ranges over its head and its tail. *)
LEMMA RangeHeadTail ==
    ASSUME NEW S, NEW s \in Seq(S), s # <<>>
    PROVE  Range(s) = {Head(s)} \cup Range(Tail(s))
<1>1. /\ Tail(s) \in Seq(S)
      /\ Len(Tail(s)) = Len(s) - 1
      /\ Len(s) \in Nat \ {0}
      /\ Head(s) = s[1]
      /\ \A i \in 1..Len(s) - 1 : Tail(s)[i] = s[i + 1]
  BY HeadTailProperties
<1>2. /\ DOMAIN Tail(s) = 1..Len(s) - 1
      /\ DOMAIN s = 1..Len(s)
  BY <1>1
<1>3. \A i \in 2..Len(s) : s[i] = Tail(s)[i - 1]
  BY <1>1
<1>4. ASSUME NEW x
      PROVE  x \in Range(s) <=> x = Head(s) \/ x \in Range(Tail(s))
  <2>1. ASSUME x \in Range(s), x # Head(s)
        PROVE  x \in Range(Tail(s))
    <3>1. PICK i \in 1..Len(s) : x = s[i]
      BY <1>2, <2>1 DEF Range
    <3>2. i - 1 \in 1..Len(s) - 1 /\ x = Tail(s)[i - 1]
      BY <1>1, <1>3, <2>1, <3>1
    <3>3. QED
      BY <1>2, <3>2 DEF Range
  <2>2. ASSUME x \in Range(Tail(s))
        PROVE  x \in Range(s)
    <3>1. PICK i \in 1..Len(s) - 1 : x = Tail(s)[i]
      BY <1>2, <2>2 DEF Range
    <3>2. i + 1 \in 1..Len(s) /\ x = s[i + 1]
      BY <1>1, <3>1
    <3>3. QED
      BY <1>2, <3>2 DEF Range
  <2>3. Head(s) \in Range(s)
    BY <1>1, <1>2 DEF Range
  <2>4. QED
    BY <2>1, <2>2, <2>3
<1>5. QED
  BY <1>4

(* What is taken from the head of a queue and put at the end of a log      *)
(* leaves their concatenation as it was.                                   *)
LEMMA MoveHead ==
    ASSUME NEW S, NEW log \in Seq(S), NEW q \in Seq(S), q # <<>>
    PROVE  Append(log, Head(q)) \o Tail(q) = log \o q
<1> DEFINE L == Append(log, Head(q))
<1>1. /\ Tail(q) \in Seq(S) /\ Head(q) \in S /\ Head(q) = q[1]
      /\ Len(q) \in Nat \ {0} /\ Len(Tail(q)) = Len(q) - 1
      /\ \A i \in 1..Len(q) - 1 : Tail(q)[i] = q[i + 1]
  BY HeadTailProperties
<1>2. /\ L \in Seq(S)
      /\ Len(log) \in Nat /\ Len(L) = Len(log) + 1
      /\ \A i \in 1..Len(log) : L[i] = log[i]
      /\ L[Len(log) + 1] = Head(q)
  BY <1>1, AppendProperties
<1> HIDE DEF L
<1>3. /\ L \o Tail(q) \in Seq(S)
      /\ Len(L \o Tail(q)) = Len(L) + Len(Tail(q))
      /\ \A i \in 1..Len(L) + Len(Tail(q)) :
            (L \o Tail(q))[i] = IF i <= Len(L) THEN L[i]
                                ELSE Tail(q)[i - Len(L)]
  BY <1>1, <1>2, ConcatProperties
<1>4. /\ log \o q \in Seq(S)
      /\ Len(log \o q) = Len(log) + Len(q)
      /\ \A i \in 1..Len(log) + Len(q) :
            (log \o q)[i] = IF i <= Len(log) THEN log[i] ELSE q[i - Len(log)]
  BY <1>1, <1>2, ConcatProperties
<1>5. \A i \in 1..Len(log) + Len(q) : (L \o Tail(q))[i] = (log \o q)[i]
  BY <1>1, <1>2, <1>3, <1>4
<1>6. Len(L \o Tail(q)) = Len(log \o q)
  BY <1>1, <1>2, <1>3, <1>4
<1>7. QED
  BY <1>3, <1>4, <1>5, <1>6, SeqEqual DEF L

(* Appending to a queue appends to the concatenation. *)
LEMMA ConcatAppend ==
    ASSUME NEW S, NEW log \in Seq(S), NEW q \in Seq(S), NEW x \in S
    PROVE  log \o Append(q, x) = Append(log \o q, x)
<1>1. Append(q, x) = q \o <<x>> /\ <<x>> \in Seq(S) /\ log \o q \in Seq(S)
  BY AppendIsConcat
<1>2. QED
  BY <1>1, ConcatAssociative, AppendIsConcat

(* A union is no larger than its parts together. *)
LEMMA UnionBound ==
    ASSUME NEW S, NEW T, IsFiniteSet(S), IsFiniteSet(T)
    PROVE  /\ IsFiniteSet(S \cup T)
           /\ Cardinality(S \cup T) \in Nat
           /\ Cardinality(S \cup T) <= Cardinality(S) + Cardinality(T)
<1>1. /\ IsFiniteSet(S \cup T)
      /\ Cardinality(S \cup T) =
             Cardinality(S) + Cardinality(T) - Cardinality(S \cap T)
  BY FS_Union
<1>2. IsFiniteSet(S \cap T)
  BY FS_Subset
<1>3. /\ Cardinality(S) \in Nat /\ Cardinality(T) \in Nat
      /\ Cardinality(S \cap T) \in Nat /\ Cardinality(S \cup T) \in Nat
  BY <1>1, <1>2, FS_CardinalityType
<1>4. QED
  BY <1>1, <1>3

------------------------------------------------------------------------------
(* Sets in order. *)

(* The members up to a greater one are more. *)
LEMMA UpToGrows ==
    ASSUME NEW S, S \subseteq Int, IsFiniteSet(S)
    PROVE  /\ \A x \in S : Cardinality(UpTo(S, x)) \in 1..Cardinality(S)
           /\ \A x, y \in S : x < y => Cardinality(UpTo(S, x)) < Cardinality(UpTo(S, y))
<1>1. Cardinality(S) \in Nat
  BY FS_CardinalityType
<1>2. ASSUME NEW x \in S
      PROVE  /\ IsFiniteSet(UpTo(S, x)) /\ UpTo(S, x) \subseteq S /\ x \in UpTo(S, x)
             /\ Cardinality(UpTo(S, x)) \in 1..Cardinality(S)
  <2>1. UpTo(S, x) \subseteq S /\ x \in UpTo(S, x)
    BY DEF UpTo
  <2>2. IsFiniteSet(UpTo(S, x)) /\ Cardinality(UpTo(S, x)) <= Cardinality(S)
    BY <2>1, FS_Subset
  <2>3. Cardinality(UpTo(S, x)) \in Nat /\ Cardinality(UpTo(S, x)) # 0
    BY <2>1, <2>2, FS_CardinalityType, FS_EmptySet
  <2>4. QED
    BY <1>1, <2>1, <2>2, <2>3
<1>3. ASSUME NEW x \in S, NEW y \in S, x < y
      PROVE  Cardinality(UpTo(S, x)) < Cardinality(UpTo(S, y))
  <2>1. UpTo(S, x) \subseteq UpTo(S, y) /\ y \notin UpTo(S, x) /\ y \in UpTo(S, y)
    <3>1. x \in Int /\ y \in Int /\ ~(y <= x) /\ \A z \in S : z <= x => z <= y
      BY <1>3
    <3>2. UpTo(S, x) \subseteq UpTo(S, y)
      BY <3>1 DEF UpTo
    <3>3. y \notin UpTo(S, x)
      BY <3>1 DEF UpTo
    <3>4. QED
      BY <1>2, <3>2, <3>3
  <2>2. /\ Cardinality(UpTo(S, x)) <= Cardinality(UpTo(S, y))
        /\ Cardinality(UpTo(S, x)) = Cardinality(UpTo(S, y))
               => UpTo(S, x) = UpTo(S, y)
    BY <1>2, <2>1, FS_Subset
  <2>3. Cardinality(UpTo(S, x)) \in Int /\ Cardinality(UpTo(S, y)) \in Int
    BY <1>2
  <2>4. QED
    BY <2>1, <2>2, <2>3
<1>4. QED
  BY <1>2, <1>3

(* InOrder lists each member of the set, the least first. *)
LEMMA InOrderProperties ==
    ASSUME NEW S, S \subseteq Int, IsFiniteSet(S)
    PROVE  /\ InOrder(S) \in Seq(S) /\ Len(InOrder(S)) = Cardinality(S)
           /\ Cardinality(S) \in Nat
           /\ \A i, j \in 1..Cardinality(S) : i < j => InOrder(S)[i] < InOrder(S)[j]
           /\ \A x \in S : /\ Cardinality(UpTo(S, x)) \in 1..Cardinality(S)
                           /\ InOrder(S)[Cardinality(UpTo(S, x))] = x
<1> DEFINE n == Cardinality(S)
           rank == [x \in S |-> Cardinality(UpTo(S, x))]
<1>1. n \in Nat
  BY FS_CardinalityType
<1>2. /\ \A x \in S : rank[x] \in 1..n
      /\ \A x, y \in S : x < y => rank[x] < rank[y]
  BY UpToGrows
<1>3. \A x, y \in S : rank[x] = rank[y] => x = y
  <2>1. \A x, y \in S : x < y \/ y < x \/ x = y
    OBVIOUS
  <2> HIDE DEF rank
  <2>2. QED
    BY <1>2, <2>1
<1>4. \A k \in 1..n : \E x \in S : rank[x] = k
  <2>1. rank \in Injection(S, 1..n)
    <3>1. rank \in [S -> 1..n]
      BY <1>2
    <3>2. QED
      BY <1>3, <3>1 DEF Injection, IsInjective
  <2>2. IsFiniteSet(1..n) /\ Cardinality(1..n) = n
    BY <1>1, FS_Interval
  <2>3. rank \in Surjection(S, 1..n)
    BY <2>1, <2>2, FS_Injection
  <2>4. QED
    BY <2>3 DEF Surjection
<1>5. ASSUME NEW k \in 1..n
      PROVE  InOrder(S)[k] \in S /\ rank[InOrder(S)[k]] = k
  <2>1. InOrder(S)[k] = CHOOSE x \in S : Cardinality(UpTo(S, x)) = k
    BY DEF InOrder
  <2>2. \E x \in S : Cardinality(UpTo(S, x)) = k
    BY <1>4
  <2>3. QED
    BY <2>1, <2>2
<1>6. InOrder(S) \in [1..n -> S]
  BY <1>5 DEF InOrder
<1>7. InOrder(S) \in Seq(S) /\ Len(InOrder(S)) = n
  BY <1>1, <1>6
<1>8. ASSUME NEW i \in 1..n, NEW j \in 1..n, i < j
      PROVE  InOrder(S)[i] < InOrder(S)[j]
  <2>1. \A x, y \in S : rank[x] < rank[y] => x < y
    <3>1. \A x, y \in S : x < y \/ y < x \/ x = y
      OBVIOUS
    <3> HIDE DEF rank
    <3>2. \A x \in S : rank[x] \in Int
      BY <1>2
    <3>3. QED
      BY <1>2, <3>1, <3>2
  <2> HIDE DEF rank
  <2>2. QED
    BY <1>5, <1>8, <2>1
<1>9. ASSUME NEW x \in S
      PROVE  rank[x] \in 1..n /\ InOrder(S)[rank[x]] = x
  <2> HIDE DEF rank
  <2>1. QED
    BY <1>2, <1>3, <1>5
<1>10. QED
  BY <1>1, <1>7, <1>8, <1>9

(* What is selected from a sequence: what it has at the places, and only   *)
(* that.                                                                   *)
LEMMA SelectedProperties ==
    ASSUME NEW S, NEW s \in Seq(S), NEW places, places \subseteq 1..Len(s)
    PROVE  /\ IsFiniteSet(places) /\ places \subseteq Int
           /\ Cardinality(places) \in Nat /\ Cardinality(places) <= Len(s)
           /\ Selected(s, places) \in Seq(S)
           /\ Len(Selected(s, places)) = Cardinality(places)
           /\ DOMAIN Selected(s, places) = 1..Cardinality(places)
           /\ \A k \in 1..Cardinality(places) :
                  /\ InOrder(places)[k] \in places
                  /\ Selected(s, places)[k] = s[InOrder(places)[k]]
           /\ ToSet(Selected(s, places)) = {s[i] : i \in places}
<1> DEFINE n == Len(s)
           c == Cardinality(places)
           at == InOrder(places)
           r == Selected(s, places)
<1>1. n \in Nat /\ \A i \in 1..n : s[i] \in S
  BY LenProperties, ElementOfSeq
<1>2. IsFiniteSet(1..n) /\ Cardinality(1..n) = n
  <2> HIDE DEF n
  <2>1. QED
    BY <1>1, FS_Interval
<1>3. IsFiniteSet(places) /\ places \subseteq Int /\ c \in Nat /\ c <= n
  <2>1. IsFiniteSet(places) /\ c <= n
    BY <1>2, FS_Subset
  <2>2. places \subseteq Int
    BY <1>1
  <2>3. QED
    BY <2>1, <2>2, FS_CardinalityType
<1>4. /\ at \in Seq(places) /\ Len(at) = c
      /\ \A x \in places : \E k \in 1..c : at[k] = x
  BY <1>3, InOrderProperties
<1>5. \A k \in 1..c : at[k] \in places /\ r[k] = s[at[k]]
  BY <1>4, ElementOfSeq DEF Selected
<1>6. r \in [1..c -> S]
  BY <1>1, <1>5 DEF Selected
<1> HIDE DEF r, at, c
<1>7. r \in Seq(S) /\ Len(r) = c /\ DOMAIN r = 1..c
  BY <1>3, <1>6
<1>8. ToSet(r) = {s[i] : i \in places}
  <2>1. ToSet(r) = {r[k] : k \in 1..c}
    BY <1>7 DEF ToSet
  <2>2. \A k \in 1..c : \E i \in places : r[k] = s[i]
    BY <1>5
  <2>3. \A i \in places : \E k \in 1..c : r[k] = s[i]
    BY <1>4, <1>5
  <2>4. ToSet(r) \subseteq {s[i] : i \in places}
    BY <2>1, <2>2
  <2>5. {s[i] : i \in places} \subseteq ToSet(r)
    BY <2>1, <2>3
  <2>6. QED
    BY <2>4, <2>5
<1>9. QED
  BY <1>3, <1>5, <1>7, <1>8 DEF r, at, c, n

(* Irreflexive, total and transitive. *)
IsStrictOrder(S, R) ==
    /\ \A x \in S : <<x, x>> \notin R
    /\ \A x, y \in S : x = y \/ <<x, y>> \in R \/ <<y, x>> \in R
    /\ \A x, y, z \in S : <<x, y>> \in R /\ <<y, z>> \in R => <<x, z>> \in R

(* Nothing is selected exactly from no places. *)
LEMMA SelectedNothing ==
    ASSUME NEW S, NEW s \in Seq(S), NEW places, places \subseteq 1..Len(s)
    PROVE  Selected(s, places) = <<>> <=> places = {}
<1>1. /\ Selected(s, places) \in Seq(S) /\ IsFiniteSet(places)
      /\ Len(Selected(s, places)) = Cardinality(places)
  BY SelectedProperties
<1>2. Selected(s, places) = <<>> <=> Cardinality(places) = 0
  BY <1>1, EmptySeq
<1>3. QED
  BY <1>1, <1>2, FS_EmptySet

(* SortedBy lists each member of the set once, in the order of the         *)
(* relation.                                                               *)
LEMMA SortedByProperties ==
    ASSUME NEW S, IsFiniteSet(S), NEW R, IsStrictOrder(S, R)
    PROVE  /\ SortedBy(S, R) \in Seq(S) /\ Len(SortedBy(S, R)) = Cardinality(S)
           /\ Cardinality(S) \in Nat /\ DOMAIN SortedBy(S, R) = 1..Cardinality(S)
           /\ IsInjective(SortedBy(S, R)) /\ ToSet(SortedBy(S, R)) = S
           /\ \A x \in S : \E k \in 1..Cardinality(S) : SortedBy(S, R)[k] = x
           /\ \A i, j \in 1..Cardinality(S) :
                  <<SortedBy(S, R)[i], SortedBy(S, R)[j]>> \in R => i < j
<1> DEFINE n == Cardinality(S)
           rank == [x \in S |-> Cardinality(Before(S, R, x)) + 1]
           r == SortedBy(S, R)
<1>1. n \in Nat
  BY FS_CardinalityType
<1>2. ASSUME NEW x \in S
      PROVE  /\ IsFiniteSet(Before(S, R, x)) /\ Cardinality(Before(S, R, x)) \in Nat
             /\ rank[x] \in 1..n
  <2>1. Before(S, R, x) \subseteq S /\ x \notin Before(S, R, x)
    BY DEF Before, IsStrictOrder
  <2>2. /\ IsFiniteSet(Before(S, R, x))
        /\ Cardinality(Before(S, R, x)) <= n /\ Cardinality(Before(S, R, x)) # n
    BY <2>1, FS_Subset
  <2>3. Cardinality(Before(S, R, x)) \in Nat
    BY <2>2, FS_CardinalityType
  <2>4. QED
    BY <1>1, <2>2, <2>3
<1>3. ASSUME NEW x \in S, NEW y \in S, <<x, y>> \in R
      PROVE  rank[x] < rank[y]
  <2> DEFINE b(z) == Before(S, R, z)
  <2>1. b(x) \subseteq b(y) /\ x \in b(y) /\ x \notin b(x)
    BY <1>3 DEF Before, IsStrictOrder
  <2>2. Cardinality(b(x)) <= Cardinality(b(y)) /\ Cardinality(b(x)) # Cardinality(b(y))
    BY <1>2, <2>1, FS_Subset
  <2>3. Cardinality(b(x)) \in Nat /\ Cardinality(b(y)) \in Nat
    BY <1>2
  <2>4. QED
    BY <2>2, <2>3
<1> HIDE DEF rank
<1>4. \A x, y \in S : rank[x] = rank[y] => x = y
  <2> SUFFICES ASSUME NEW x \in S, NEW y \in S, rank[x] = rank[y]
               PROVE  x = y
    OBVIOUS
  <2>1. x = y \/ <<x, y>> \in R \/ <<y, x>> \in R
    BY DEF IsStrictOrder
  <2>2. ~(rank[x] < rank[y]) /\ ~(rank[y] < rank[x])
    BY <1>2
  <2>3. QED
    BY <1>3, <2>1, <2>2
<1>5. \A k \in 1..n : \E x \in S : rank[x] = k
  <2>1. rank \in Injection(S, 1..n)
    <3>1. rank \in [S -> 1..n]
      BY <1>2 DEF rank
    <3>2. QED
      BY <1>4, <3>1 DEF Injection, IsInjective
  <2>2. IsFiniteSet(1..n) /\ Cardinality(1..n) = n
    BY <1>1, FS_Interval
  <2>3. rank \in Surjection(S, 1..n)
    BY <2>1, <2>2, FS_Injection
  <2>4. QED
    BY <2>3 DEF Surjection
<1>6. ASSUME NEW k \in 1..n
      PROVE  r[k] \in S /\ rank[r[k]] = k
  <2>1. r[k] = CHOOSE x \in S : Cardinality(Before(S, R, x)) = k - 1
    BY DEF SortedBy
  <2>2. \E x \in S : Cardinality(Before(S, R, x)) = k - 1
    <3>1. PICK x \in S : rank[x] = k
      BY <1>5
    <3>2. Cardinality(Before(S, R, x)) = k - 1
      BY <1>2, <3>1 DEF rank
    <3>3. QED
      BY <3>2
  <2>3. r[k] \in S /\ Cardinality(Before(S, R, r[k])) = k - 1
    BY <2>1, <2>2
  <2>4. QED
    BY <1>6, <2>3 DEF rank
<1>7. r \in [1..n -> S]
  BY <1>6 DEF SortedBy
<1> HIDE DEF r, n
<1>8. r \in Seq(S) /\ Len(r) = n /\ DOMAIN r = 1..n
  BY <1>1, <1>7
<1>9. IsInjective(r)
  BY <1>6, <1>8 DEF IsInjective
<1>10. \A x \in S : rank[x] \in 1..n /\ r[rank[x]] = x
  BY <1>2, <1>4, <1>6
<1>11. ToSet(r) = S
  <2>1. ToSet(r) = {r[k] : k \in 1..n}
    BY <1>8 DEF ToSet
  <2>2. QED
    BY <1>6, <1>10, <2>1
<1>12. \A i, j \in 1..n : <<r[i], r[j]>> \in R => i < j
  BY <1>3, <1>6
<1>13. QED
  BY <1>1, <1>8, <1>9, <1>10, <1>11, <1>12 DEF r, n

(* A list rearranged has nothing twice if the list had not. *)
LEMMA RearrangedOnce ==
    ASSUME NEW n \in Nat, NEW E, NEW s \in [1..n -> E], NEW r \in [1..n -> E],
           ToSet(r) = ToSet(s), IsInjective(s)
    PROVE  IsInjective(r)
<1>1. IsFiniteSet(1..n)
  BY FS_Interval
<1>2. ToSet(s) = {s[k] : k \in 1..n} /\ ToSet(r) = {r[k] : k \in 1..n}
  BY DEF ToSet
<1>3. s \in Surjection(1..n, ToSet(s)) /\ s \in Injection(1..n, ToSet(s))
  BY <1>2 DEF Surjection, Injection
<1>4. r \in Surjection(1..n, ToSet(s))
  <2>1. ToSet(s) = {r[k] : k \in 1..n}
    BY <1>2
  <2>2. QED
    BY <2>1 DEF Surjection
<1>5. Cardinality(ToSet(s)) = Cardinality(1..n)
  BY <1>1, <1>3, FS_Surjection
<1>6. r \in Injection(1..n, ToSet(s))
  BY <1>1, <1>4, <1>5, FS_Surjection
<1>7. QED
  BY <1>6 DEF Injection
------------------------------------------------------------------------------
(* Folds. *)

(* A set of naturals has a least member: what the library states with an   *)
(* operator, from its facts about strict inclusion.  A property that fails *)
(* somewhere fails first somewhere, so this serves for induction.          *)
LEMMA LeastNatural ==
    ASSUME NEW T, T \subseteq Nat, T # {}
    PROVE  \E n \in T : \A m \in T : n <= m
<1>1. PICK x \in T : TRUE
  OBVIOUS
<1> DEFINE S == 0..x
           F == {0..t : t \in {u \in T : u <= x}}
<1>2. IsFiniteSet(S)
  BY <1>1, FS_Interval
<1>3. F \subseteq SUBSET S /\ F # {}
  BY <1>1
<1>4. PICK X \in F : \A Y \in F : ~(<<Y, X>> \in StrictSubsetOrdering(S))
  <2> HIDE DEF F, S
  <2>1. IsWellFoundedOn(StrictSubsetOrdering(S), FiniteSubsetsOf(S))
    BY <1>2, FS_StrictSubsetOrderingWellFounded
  <2>2. F \subseteq FiniteSubsetsOf(S)
    BY <1>2, <1>3, FS_Subset DEF FiniteSubsetsOf
  <2>3. QED
    BY <1>3, <2>1, <2>2, WFMin
<1>5. PICK t \in T : t <= x /\ X = 0..t
  BY <1>4
<1>6. ASSUME NEW m \in T, m < t
      PROVE  FALSE
  <2>1. 0..m \in F
    BY <1>5, <1>6, <1>1
  <2>2. <<0..m, X>> \in StrictSubsetOrdering(S)
    <3>1. 0..m \subseteq X /\ X \subseteq S /\ t \in X /\ t \notin 0..m
      BY <1>1, <1>5, <1>6
    <3>2. QED
      BY <3>1 DEF StrictSubsetOrdering
  <2>3. QED
    BY <1>4, <2>1, <2>2
<1>7. QED
  BY <1>5, <1>6

(* The functions that obey the recursion of a fold over S, in which c       *)
(* picks the member to fold in last.                                       *)
FoldValues(S, Y, base, G, c) ==
    {h \in [SUBSET S -> Y] : \A s \in SUBSET S :
         h[s] = IF s = {} THEN base ELSE G[<<c[s], h[s \ {c[s]}]>>]}

(* A fold over a finite set has a value, whatever the order in which c     *)
(* picks the members: there is a function that obeys the recursion.        *)
LEMMA FoldExists ==
    ASSUME NEW S, IsFiniteSet(S), NEW Y, NEW base \in Y, NEW G \in [S \X Y -> Y],
           NEW C, NEW c \in [SUBSET S -> C], \A s \in SUBSET S : s # {} => c[s] \in s
    PROVE  FoldValues(S, Y, base, G, c) # {}
<1> DEFINE Follows(h, s) == h[s] = IF s = {} THEN base ELSE G[<<c[s], h[s \ {c[s]}]>>]
           Upto(k) == \E h \in [SUBSET S -> Y] : \A s \in SUBSET S :
                          Cardinality(s) <= k => Follows(h, s)
           T == {k \in Nat : ~Upto(k)}
<1>1. \A s \in SUBSET S : IsFiniteSet(s) /\ Cardinality(s) \in Nat
  BY FS_Subset, FS_CardinalityType
<1>2. Upto(0)
  <2>1. [s \in SUBSET S |-> base] \in [SUBSET S -> Y]
    OBVIOUS
  <2>2. \A s \in SUBSET S : Cardinality(s) <= 0 => s = {}
    BY <1>1, FS_EmptySet
  <2>3. QED
    BY <2>1, <2>2
<1>3. ASSUME NEW k \in Nat, Upto(k)
      PROVE  Upto(k + 1)
  <2>1. PICK h \in [SUBSET S -> Y] : \A s \in SUBSET S :
                 Cardinality(s) <= k => Follows(h, s)
    BY <1>3
  <2> DEFINE g == [s \in SUBSET S |->
                       IF s = {} THEN base ELSE G[<<c[s], h[s \ {c[s]}]>>]]
  <2>2. g \in [SUBSET S -> Y]
    <3>1. ASSUME NEW s \in SUBSET S, s # {}
          PROVE  G[<<c[s], h[s \ {c[s]}]>>] \in Y
      <4>1. c[s] \in S /\ h[s \ {c[s]}] \in Y
        BY <2>1, <3>1
      <4>2. QED
        BY <4>1
    <3>2. QED
      BY <3>1
  <2>3. ASSUME NEW s \in SUBSET S, Cardinality(s) <= k + 1
        PROVE  Follows(g, s)
    <3>1. CASE s = {}
      BY <3>1
    <3>2. CASE s # {}
      <4> DEFINE r == s \ {c[s]}
      <4>1. r \in SUBSET S /\ c[s] \in s /\ Cardinality(r) <= k
        <5>1. c[s] \in s /\ r \in SUBSET S
          BY <3>2
        <5>2. Cardinality(r) = Cardinality(s) - 1
          BY <1>1, <5>1, FS_RemoveElement
        <5>3. QED
          BY <1>1, <2>3, <5>1, <5>2
      <4>2. Follows(h, r)
        BY <2>1, <4>1
      <4>3. g[r] = h[r]
        BY <4>1, <4>2
      <4>4. g[s] = G[<<c[s], h[r]>>]
        BY <3>2
      <4>5. QED
        BY <3>2, <4>3, <4>4
    <3>3. QED
      BY <3>1, <3>2
  <2>4. QED
    BY <2>2, <2>3
<1>4. T = {}
  <2> SUFFICES ASSUME T # {}
               PROVE  FALSE
    OBVIOUS
  <2> HIDE DEF Upto
  <2>1. PICK n \in T : \A m \in T : n <= m
    BY LeastNatural
  <2>2. n \in Nat /\ n # 0 /\ n - 1 \in Nat /\ n - 1 \notin T
    BY <1>2, <2>1
  <2>3. Upto(n - 1) /\ (n - 1) + 1 = n
    BY <2>2
  <2>4. QED
    BY <1>3, <2>1, <2>2, <2>3
<1>5. Cardinality(S) \in Nat /\ \A s \in SUBSET S : Cardinality(s) <= Cardinality(S)
  BY FS_Subset, FS_CardinalityType
<1>6. Upto(Cardinality(S))
  <2> HIDE DEF Upto
  <2>1. QED
    BY <1>4, <1>5
<1>7. QED
  BY <1>5, <1>6 DEF FoldValues

(* A nonempty set of numbers up to n has a greatest member. *)
LEMMA MaxProperties ==
    ASSUME NEW n \in Nat, NEW s, s \subseteq 1..n, s # {}
    PROVE  Max(s) \in s /\ \A y \in s : Max(s) >= y
<1>1. PICK d \in {n - x : x \in s} : \A e \in {n - x : x \in s} : d <= e
  <2> DEFINE D == {n - x : x \in s}
  <2>1. \A x \in s : n - x \in Nat
    OBVIOUS
  <2>2. D \subseteq Nat /\ D # {}
    BY <2>1
  <2> HIDE DEF D
  <2>3. \E d \in D : \A e \in D : d <= e
    BY <2>2, LeastNatural
  <2>4. QED
    BY <2>3 DEF D
<1>2. \E x \in s : \A y \in s : x >= y
  <2>1. PICK x \in s : d = n - x
    BY <1>1
  <2>2. ASSUME NEW y \in s
        PROVE  x >= y
    <3>1. d <= n - y
      BY <1>1
    <3>2. QED
      BY <2>1, <3>1
  <2>3. QED
    BY <2>2
<1>3. QED
  BY <1>2 DEF Max

(* A nonempty set of naturals has a least member, and Min is it. *)
LEMMA MinProperties ==
    ASSUME NEW s, s \subseteq Nat, s # {}
    PROVE  Min(s) \in s /\ \A y \in s : Min(s) <= y
<1>1. \E x \in s : \A y \in s : x <= y
  BY LeastNatural
<1>2. QED
  BY <1>1 DEF Min

(* The least and the greatest of some numbers are the ones that bound the  *)
(* others.                                                                 *)
LEMMA MinIs ==
    ASSUME NEW S, S \subseteq Nat, NEW x \in S, \A y \in S : x <= y
    PROVE  Min(S) = x
<1>1. Min(S) \in S /\ \A y \in S : Min(S) <= y
  BY MinProperties
<1>2. Min(S) <= x /\ x <= Min(S) /\ Min(S) \in Nat /\ x \in Nat
  BY <1>1
<1>3. QED
  BY <1>2

LEMMA MaxIs ==
    ASSUME NEW n \in Nat, NEW S, S \subseteq 1..n, NEW x \in S, \A y \in S : x >= y
    PROVE  Max(S) = x
<1>1. Max(S) \in S /\ \A y \in S : Max(S) >= y
  <2>1. S # {}
    OBVIOUS
  <2>2. QED
    BY <2>1, MaxProperties
<1>2. Max(S) >= x /\ x >= Max(S)
  BY <1>1
<1>3. Max(S) \in Nat /\ x \in Nat
  <2>1. S \subseteq Nat
    OBVIOUS
  <2>2. QED
    BY <1>1, <2>1
<1>4. QED
  BY <1>2, <1>3

(* The first two and the last of some numbers in their order. *)
LEMMA InOrderEnds ==
    ASSUME NEW n \in Nat, NEW S, S \subseteq 1..n, S # {}
    PROVE  /\ Cardinality(S) \in Nat \ {0}
           /\ InOrder(S)[1] = Min(S) /\ InOrder(S)[Cardinality(S)] = Max(S)
           /\ Cardinality(S) >= 2 <=> S \ {Min(S)} # {}
           /\ S \ {Min(S)} # {} => InOrder(S)[2] = Min(S \ {Min(S)})
<1> DEFINE c == Cardinality(S)
           at == InOrder(S)
<1>1. IsFiniteSet(S) /\ S \subseteq Int /\ S \subseteq Nat
  <2>1. IsFiniteSet(1..n)
    BY FS_Interval
  <2>2. IsFiniteSet(S)
    BY <2>1, FS_Subset
  <2>3. QED
    BY <2>2
<1>2. /\ c \in Nat /\ at \in Seq(S) /\ Len(at) = c
      /\ \A i, j \in 1..c : i < j => at[i] < at[j]
  BY <1>1, InOrderProperties
<1>3. \A x \in S : \E k \in 1..c : at[k] = x
  BY <1>1, InOrderProperties
<1>4. \A k \in 1..c : at[k] \in S
  BY <1>2, ElementOfSeq
<1> HIDE DEF at, c
<1>5. c \in Nat \ {0} /\ 1 \in 1..c /\ c \in 1..c
  <2>1. PICK y \in S : TRUE
    OBVIOUS
  <2>2. PICK k \in 1..c : at[k] = y
    BY <1>3
  <2>3. c \in Nat /\ k \in 1..c
    BY <1>2
  <2>4. QED
    BY <2>3
<1>6. Min(S) = at[1]
  <2>1. ASSUME NEW y \in S
        PROVE  at[1] <= y
    <3>1. PICK k \in 1..c : at[k] = y
      BY <1>3
    <3>2. k = 1 \/ 1 < k
      BY <1>2
    <3>3. at[1] = y \/ at[1] < y
      BY <1>2, <1>5, <3>1, <3>2
    <3>4. at[1] \in Int /\ y \in Int
      BY <1>1, <1>4, <1>5
    <3>5. QED
      BY <3>3, <3>4
  <2>2. QED
    BY <1>1, <1>4, <1>5, <2>1, MinIs
<1>7. Max(S) = at[c]
  <2>1. ASSUME NEW y \in S
        PROVE  at[c] >= y
    <3>1. PICK k \in 1..c : at[k] = y
      BY <1>3
    <3>2. k = c \/ k < c
      BY <1>2
    <3>3. at[c] = y \/ y < at[c]
      BY <1>2, <1>5, <3>1, <3>2
    <3>4. at[c] \in Int /\ y \in Int
      BY <1>1, <1>4, <1>5
    <3>5. QED
      BY <3>3, <3>4
  <2>2. QED
    BY <1>4, <1>5, <2>1, MaxIs
<1> DEFINE rest == S \ {Min(S)}
<1>8. c >= 2 <=> rest # {}
  <2>1. CASE c >= 2
    <3>1. 2 \in 1..c /\ 1 < 2
      BY <1>5, <2>1
    <3>2. at[1] < at[2] /\ at[2] \in S /\ at[1] \in Int /\ at[2] \in Int
      BY <1>1, <1>2, <1>4, <1>5, <3>1
    <3>3. at[2] \in rest
      BY <1>6, <3>2
    <3>4. QED
      BY <2>1, <3>3
  <2>2. CASE ~(c >= 2)
    <3>1. \A k \in 1..c : k = 1
      BY <1>5, <2>2
    <3>2. \A y \in S : y = at[1]
      BY <1>3, <3>1
    <3>3. QED
      BY <1>6, <2>2, <3>2
  <2>3. QED
    BY <2>1, <2>2
<1>9. ASSUME rest # {}
      PROVE  at[2] = Min(rest)
  <2>1. 2 \in 1..c /\ 1 < 2
    BY <1>5, <1>8, <1>9
  <2>2. at[1] < at[2] /\ at[2] \in S /\ at[1] \in Int /\ at[2] \in Int
    BY <1>1, <1>2, <1>4, <1>5, <2>1
  <2>3. at[2] \in rest
    BY <1>6, <2>2
  <2>4. ASSUME NEW y \in rest
        PROVE  at[2] <= y
    <3>1. PICK k \in 1..c : at[k] = y
      BY <1>3
    <3>2. k # 1
      BY <1>6, <3>1
    <3>3. k = 2 \/ 2 < k
      BY <1>2, <3>2
    <3>4. at[2] = y \/ at[2] < y
      BY <1>2, <2>1, <3>1, <3>3
    <3>5. y \in Int
      BY <1>1
    <3>6. QED
      BY <2>2, <3>4, <3>5
  <2>5. rest \subseteq Nat
    BY <1>1
  <2> HIDE DEF rest
  <2>6. QED
    BY <2>3, <2>4, <2>5, MinIs
<1>10. QED
  BY <1>5, <1>6, <1>7, <1>8, <1>9 DEF at, c

(* Adding a number to each of some numbers. *)
LEMMA MinShifted ==
    ASSUME NEW S, S \subseteq Nat, S # {}, NEW i \in Nat
    PROVE  Min({i + k : k \in S}) = i + Min(S)
<1>1. Min(S) \in S /\ \A y \in S : Min(S) <= y
  BY MinProperties
<1>2. {i + k : k \in S} \subseteq Nat
  OBVIOUS
<1>3. i + Min(S) \in {i + k : k \in S}
  BY <1>1
<1>4. ASSUME NEW y \in {i + k : k \in S}
      PROVE  i + Min(S) <= y
  <2>1. PICK k \in S : y = i + k
    OBVIOUS
  <2>2. Min(S) <= k /\ Min(S) \in Nat /\ k \in Nat
    BY <1>1
  <2>3. QED
    BY <2>1, <2>2
<1> DEFINE R == {i + k : k \in S}
           x == i + Min(S)
<1>5. R \subseteq Nat /\ x \in R /\ \A y \in R : x <= y
  BY <1>2, <1>3, <1>4
<1> HIDE DEF R, x
<1>6. Min(R) = x
  BY <1>5, MinIs
<1>7. QED
  BY <1>6 DEF R, x

(* A fold from the right takes the places from the last one down.          *)
LEMMA MinOfSuffix ==
    ASSUME NEW n \in Nat, NEW k \in 1..n
    PROVE  /\ k..n \in SUBSET (1..n) /\ k..n # {}
           /\ Min(k..n) = k /\ (k..n) \ {k} = (k + 1)..n
<1>1. k..n \subseteq 1..n /\ k \in k..n /\ k \in Nat /\ k..n \subseteq Nat
  OBVIOUS
<1>2. Min(k..n) \in k..n /\ Min(k..n) <= k
  BY <1>1, MinProperties
<1>3. QED
  BY <1>1, <1>2

(* It has a value. *)
LEMMA FoldRightExists ==
    ASSUME NEW n \in Nat, NEW Y, NEW base \in Y, NEW G \in [(1..n) \X Y -> Y]
    PROVE  FoldValues(1..n, Y, base, G, [s \in SUBSET (1..n) |-> Min(s)]) # {}
<1> DEFINE c == [s \in SUBSET (1..n) |-> Min(s)]
           C == {Min(s) : s \in SUBSET (1..n)}
<1>1. IsFiniteSet(1..n)
  BY FS_Interval
<1>2. c \in [SUBSET (1..n) -> C] /\ \A s \in SUBSET (1..n) : c[s] = Min(s)
  OBVIOUS
<1>3. \A s \in SUBSET (1..n) : s # {} => c[s] \in s
  BY <1>2, MinProperties
<1> HIDE DEF c, C
<1>4. FoldValues(1..n, Y, base, G, c) # {}
  BY <1>1, <1>2, <1>3, FoldExists
<1>5. QED
  BY <1>4 DEF c

(* A fold from the left takes the places of a sequence one after the other. *)
LEMMA MaxOfPrefix ==
    ASSUME NEW n \in Nat, NEW k \in 1..n
    PROVE  /\ 1..k \in SUBSET (1..n) /\ 1..k # {}
           /\ Max(1..k) = k /\ (1..k) \ {k} = 1..(k - 1)
<1>1. 1..k \subseteq 1..n /\ k \in 1..k /\ k \in Nat
  OBVIOUS
<1>2. Max(1..k) \in 1..k /\ Max(1..k) >= k
  BY <1>1, MaxProperties
<1>3. QED
  BY <1>1, <1>2

(* It has a value, too. *)
LEMMA FoldLeftExists ==
    ASSUME NEW n \in Nat, NEW Y, NEW base \in Y, NEW G \in [(1..n) \X Y -> Y]
    PROVE  FoldValues(1..n, Y, base, G, [s \in SUBSET (1..n) |-> Max(s)]) # {}
<1> DEFINE c == [s \in SUBSET (1..n) |-> Max(s)]
           C == {Max(s) : s \in SUBSET (1..n)}
<1>1. IsFiniteSet(1..n)
  BY FS_Interval
<1>2. c \in [SUBSET (1..n) -> C] /\ \A s \in SUBSET (1..n) : c[s] = Max(s)
  OBVIOUS
<1>3. \A s \in SUBSET (1..n) : s # {} => c[s] \in s
  BY <1>2, MaxProperties
<1> HIDE DEF c, C
<1>4. FoldValues(1..n, Y, base, G, c) # {}
  BY <1>1, <1>2, <1>3, FoldExists
<1>5. QED
  BY <1>4 DEF c
==============================================================================
