------------------------------- MODULE Lists -------------------------------
(***************************************************************************)
(* Lists as the standard library makes them of others: sorted, ascending,  *)
(* and one after the other.                                                *)
(***************************************************************************)
EXTENDS Integers, Sequences, FiniteSets

(* A stable sort, as slice::sort_by_key: every element goes to the place   *)
(* behind those that come before it.  What comes before what is a relation *)
(* on the positions of the list, so that a tie is decided by them.         *)
Place(n, before, i) == Cardinality({j \in 1..n : <<j, i>> \in before}) + 1

Arranged(os, before) ==
  [k \in 1..Len(os) |-> os[CHOOSE i \in 1..Len(os) : Place(Len(os), before, i) = k]]

(* The members of a finite set of numbers in ascending order.              *)
Ascending(S) ==
  [k \in 1..Cardinality(S) |-> CHOOSE x \in S : Cardinality({y \in S : y < x}) = k - 1]

(* Several lists one after the other: entry k is the first k of them.      *)
Joined(parts) ==
  LET upTo[k \in 0..Len(parts)] == IF k = 0 THEN <<>> ELSE upTo[k - 1] \o parts[k]
  IN  upTo
=============================================================================
