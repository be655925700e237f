----------------------------- MODULE Selection ------------------------------
(****************************************************************************)
(* Taking some elements out of a list, in their order: what the loops over  *)
(* std::list in the code do that move or drop what meets a condition.  The  *)
(* recursive function below is SelectSeq in a form one can prove about: the *)
(* condition is a set, and the recursion is over the length of the list.    *)
(****************************************************************************)
EXTENDS Integers, Sequences

(* The elements of S among the first k of s, for every k.                   *)
OnlyUpTo(s, S) ==
    LET only[k \in 0..Len(s)] ==
            IF k = 0 THEN <<>>
            ELSE IF s[k] \in S THEN Append(only[k - 1], s[k]) ELSE only[k - 1]
    IN only

(* The elements of s that are in S.                                         *)
Only(s, S) == OnlyUpTo(s, S)[Len(s)]

=============================================================================
