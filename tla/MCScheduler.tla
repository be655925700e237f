----------------------------- MODULE MCScheduler -----------------------------
(****************************************************************************)
(* Instances of Scheduler for TLC.  Actors and workers are model values;    *)
(* limits and links are functions and relations over them.                  *)
(****************************************************************************)
EXTENDS Scheduler, TLC

CONSTANTS a1, a2    \* two of the actors

Unlimited == [a \in Actors |-> -1]
OneEach   == [a \in Actors |-> 1]

\* a1: no pending limit, one message a batch.  a2: at most two messages wait,
\* a batch takes them all.
MixedPending == [a \in Actors |-> IF a = a1 THEN -1 ELSE 2]
MixedRunSize == [a \in Actors |-> IF a = a1 THEN 1 ELSE -1]

\* Who writes to whom: everybody to everybody, only other sources, or other
\* sources to everybody and two actors to each other, or a chain.
AllLinks  == Senders \X Actors
FromOther == {ext} \X Actors
Dialogue  == FromOther \cup {<<a1, a2>>, <<a2, a1>>}
Relay     == {<<ext, a1>>, <<a1, a2>>}

Symm == Permutations(Workers)

=============================================================================
