------------------------------- MODULE Filtering -------------------------------
(***************************************************************************)
(* The filters of the collectors over vectors and queues: the members that *)
(* are in a set, in the order they had.  A recursive function, where       *)
(* SelectSeq would do for model checking, so that it can be proved about.  *)
(***************************************************************************)
EXTENDS Naturals, Sequences

Kept(seq, set) ==
    LET kept[i \in 0..Len(seq)] ==
          IF i = 0 THEN <<>>
          ELSE IF seq[i] \in set THEN Append(kept[i - 1], seq[i]) ELSE kept[i - 1]
    IN  kept[Len(seq)]
=============================================================================
