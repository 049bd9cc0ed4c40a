------------------------------- MODULE Ordered -------------------------------
(***************************************************************************)
(* Sorted sequences, each member at the place that counts the ones before  *)
(* it.  They are said without SetToSortSeq and SelectSeq, of which the     *)
(* prover has no definition.                                               *)
(***************************************************************************)
EXTENDS Integers, FiniteSets

(* A finite set of numbers, the least first. *)

UpTo(S, x) == {y \in S : y <= x}

InOrder(S) ==
    [k \in 1..Cardinality(S) |-> CHOOSE x \in S : Cardinality(UpTo(S, x)) = k]

(* What a sequence has at some of its places, in its order. *)
Selected(s, places) ==
    [k \in 1..Cardinality(places) |-> s[InOrder(places)[k]]]

(* A finite set in the order of a relation, which is a set of pairs. *)
Before(S, relation, x) == {y \in S : <<y, x>> \in relation}

SortedBy(S, relation) ==
    [k \in 1..Cardinality(S) |->
        CHOOSE x \in S : Cardinality(Before(S, relation, x)) = k - 1]
==============================================================================
