---------------------------- MODULE Subsequences -----------------------------
(***************************************************************************)
(* A list comprehension of the code: the elements at some positions of a   *)
(* list, in the order of the list.                                         *)
(***************************************************************************)
EXTENDS Integers, Sequences

\* What is picked of the first n elements
Picked(s, keep) ==
    LET taken[n \in 0..Len(s)] ==
            IF n = 0 THEN <<>>
            ELSE IF n \in keep THEN Append(taken[n - 1], s[n])
            ELSE taken[n - 1]
    IN  taken[Len(s)]
=============================================================================
