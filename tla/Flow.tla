--------------------------------- MODULE Flow ---------------------------------
(****************************************************************************)
(* Messages on their way.  A queue holds messages of several pairs of a     *)
(* sender and a receiver, and the messages of a pair are numbered in the    *)
(* order they were sent; these operators look at one pair in a queue.       *)
(****************************************************************************)
EXTENDS Integers, Sequences

(* The places of the messages from s to d.                                  *)
From(q, s, d) == { i \in 1..Len(q) : q[i].src = s /\ q[i].dst = d }

Numbers(q, s, d) == { q[i].n : i \in From(q, s, d) }

(* The messages from s to d are in the order they were sent, none twice.    *)
Rising(q, s, d) == \A i, j \in From(q, s, d) : i < j => q[i].n < q[j].n

(* All messages from s to d in p were sent before those in q.               *)
Below(p, q, s, d) == \A x \in Numbers(p, s, d), y \in Numbers(q, s, d) : x < y

(* A message passes three queues: r, then q, then p.                        *)
OnTheWay(p, q, r, s, d) ==
    Numbers(p, s, d) \cup Numbers(q, s, d) \cup Numbers(r, s, d)

(* Along them the numbers of a pair rise, above lo (the last one that       *)
(* arrived) and up to hi (the last one that was sent).                      *)
Flows(p, q, r, s, d, lo, hi) ==
    /\ lo <= hi
    /\ Rising(p, s, d) /\ Rising(q, s, d) /\ Rising(r, s, d)
    /\ Below(p, q, s, d) /\ Below(p, r, s, d) /\ Below(q, r, s, d)
    /\ OnTheWay(p, q, r, s, d) \subseteq lo + 1 .. hi

(* None of them is missing.                                                 *)
Full(p, q, r, s, d, lo, hi) == lo + 1 .. hi \subseteq OnTheWay(p, q, r, s, d)

=============================================================================
