----------------------------- MODULE Sequencing ------------------------------
(***************************************************************************)
(* What the code does to its vectors: one put after the other (Vec::extend,*)
(* flat_map), filtered (Iterator::filter, Vec::retain) and sorted          *)
(* (slice::sort_by, which is stable).                                      *)
(*                                                                         *)
(* A condition is the set of those that meet it and an order a set of      *)
(* pairs, so that there is no operator among the arguments as in SelectSeq *)
(* and SortSeq: what is said here of every condition and order is then     *)
(* said of every set, and SequencingProofs can prove it.  SortSeq moreover *)
(* is defined for orders without ties only.                                *)
(***************************************************************************)
EXTENDS Naturals, Sequences, FiniteSets, Functions

(* The sequences one after the other.                                      *)
Concat(seqs) ==
    LET N == Len(seqs)
        Upto[n \in 0..N] == IF n = 0 THEN << >> ELSE Upto[n - 1] \o seqs[n]
    IN Upto[N]

(* What of s is in T, in its order.                                        *)
Sift(s, T) == Concat([n \in 1..Len(s) |-> IF s[n] \in T THEN <<s[n]>> ELSE << >>])

(* How many of s come before x by the order R.                             *)
Preceding(s, R, x) == Cardinality({y \in Range(s) : <<y, x>> \in R})

(* s sorted by the strict order R: those that nothing comes before, then   *)
(* those that only these do, and so on; of equals, the first in s first.   *)
Ranked(s, R) ==
    Concat([k \in 1..Len(s) |-> Sift(s, {x \in Range(s) : Preceding(s, R, x) = k - 1})])
=============================================================================
