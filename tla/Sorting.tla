------------------------------- MODULE Sorting -------------------------------
(***************************************************************************)
(* What Python's sort and filtering loops compute, defined by their result *)
(* so that it can be reasoned about: an order is a set of pairs, and what  *)
(* a loop keeps of a list is given by the places that pass its condition.  *)
(***************************************************************************)
EXTENDS Naturals, Sequences, FiniteSets

(* A list, whatever is in it. *)
IsSeq(s) == s \in Seq({s[k] : k \in DOMAIN s})

(* The elements of S, each once, in the strict total order R. *)
Sorted(S, R) ==
  CHOOSE s \in [1..Cardinality(S) -> S] :
    \A i, j \in 1..Cardinality(S) : i < j => <<s[i], s[j]>> \in R

Increasing(I) == {p \in I \X I : p[1] < p[2]}

(* Numbers, the least first. *)
Listed(I) == Sorted(I, Increasing(I))

(* Those of a list that are at the places I, in the order of the list. *)
AtPlaces(list, I) == [k \in 1..Cardinality(I) |-> list[Listed(I)[k]]]
=============================================================================
