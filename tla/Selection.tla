------------------------------ MODULE Selection -------------------------------
(***************************************************************************)
(* The filters of the code (Iterator::filter, Vec::retain): SelectSeq with *)
(* a set in place of a test, and as a recursive function, which the        *)
(* provers can expand.                                                     *)
(***************************************************************************)
EXTENDS Integers, Sequences

(* The elements of a sequence that are in a set, in their order.           *)
Only(seq, S) ==
  LET upTo[j \in 0 .. Len(seq)] ==
        IF j = 0 THEN <<>> ELSE upTo[j - 1] \o (IF seq[j] \in S THEN <<seq[j]>> ELSE <<>>)
  IN upTo[Len(seq)]
=============================================================================
