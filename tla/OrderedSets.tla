---------------------------- MODULE OrderedSets ----------------------------
(***************************************************************************)
(* A JavaScript Set, or the keys of a Map, is a sequence without           *)
(* repetitions: iteration follows the order of insertion.                  *)
(***************************************************************************)
EXTENDS FiniteSets, Integers, SequencesExt

(* What s has at the positions P, in their order.                          *)
Picked(s, P) ==
  LET Place(i) == Cardinality({j \in P : j <= i})
  IN  [n \in 1 .. Cardinality(P) |-> s[CHOOSE i \in P : Place(i) = n]]

(* The elements of s that are in S, in their order: what filter() keeps,   *)
(* and what delete() of the others leaves.                                 *)
Filter(s, S) == Picked(s, {i \in DOMAIN s : s[i] \in S})

(* add() *)
SetAdd(s, e) == IF Contains(s, e) THEN s ELSE Append(s, e)
=============================================================================
