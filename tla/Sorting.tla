------------------------------- MODULE Sorting -------------------------------
(***************************************************************************)
(* Lists made of sets: Python's sorted and its list comprehensions, said   *)
(* by what the result is.  SetToSortSeq and SelectSeq give the same lists; *)
(* these are first-order, so that theorems can be proved about them.       *)
(***************************************************************************)
EXTENDS Integers, Sequences, FiniteSets

(***************************************************************************)
(* The elements of S as a list, by a strict total order R: the one with    *)
(* r - 1 before it is at place r.                                          *)
(***************************************************************************)
OrderedBy(S, R) ==
    [r \in 1..Cardinality(S) |->
        CHOOSE x \in S : Cardinality({y \in S : <<y, x>> \in R}) = r - 1]

InOrder(S) == OrderedBy(S, {p \in S \X S : p[1] < p[2]})

(***************************************************************************)
(* The items of a list at the given places.                                *)
(***************************************************************************)
Sublist(list, places) ==
    LET order == InOrder(places) IN [k \in 1..Cardinality(places) |-> list[order[k]]]

(***************************************************************************)
(* Python's sum of a list of numbers.                                      *)
(***************************************************************************)
Total(numbers) ==
    LET sum[k \in 0..Len(numbers)] == IF k = 0 THEN 0 ELSE sum[k - 1] + numbers[k]
    IN  sum[Len(numbers)]
=============================================================================
