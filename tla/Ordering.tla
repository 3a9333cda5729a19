------------------------------ MODULE Ordering ------------------------------
(***************************************************************************)
(* Sorting and filtering without recursion, for the modules that order     *)
(* documents and pick events: what Python's sorted() and a comprehension   *)
(* with an `if` return, said by the place that an element gets.            *)
(***************************************************************************)
EXTENDS Naturals, Sequences, FiniteSets

(* The finite set S as a sequence in the strict total order R on it: at place
   i stands the element that i - 1 others are before. *)
Ordered(S, R) ==
  [i \in 1..Cardinality(S) |->
     CHOOSE x \in S : Cardinality({y \in S : <<y, x>> \in R}) = i - 1]

(* The elements of s at the positions in I, in the order of s. *)
SelectAt(s, I) ==
  LET at == Ordered(I, {pair \in I \X I : pair[1] < pair[2]}) IN
  [k \in 1..Cardinality(I) |-> s[at[k]]]
=============================================================================
