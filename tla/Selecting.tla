------------------------------ MODULE Selecting ------------------------------
(***************************************************************************)
(* Filtering a sequence by a set: SelectSeq, as a recursive function that   *)
(* can be reasoned about.                                                   *)
(***************************************************************************)
EXTENDS Integers, Sequences

\* The elements of s that are in T, in order.
Those(s, T) ==
    LET upTo[i \in 0..Len(s)] ==
          IF i = 0 THEN <<>> ELSE IF s[i] \in T THEN Append(upTo[i - 1], s[i]) ELSE upTo[i - 1]
    IN upTo[Len(s)]
=============================================================================
