---------------------------- MODULE MCUserWorker -----------------------------
(****************************************************************************)
(* Instances of UserWorker for TLC.                                         *)
(****************************************************************************)
EXTENDS UserWorker

CONSTANTS u1, u2    \* the two user workers

Unlimited == [w \in Users |-> -1]

\* u1 takes everything that waits (the default), u2 one message at a time.
MixedRunSize == [w \in Users |-> IF w = u1 THEN -1 ELSE 1]

\* An actor writes a times to u2, u2 writes b times to u1.
Chain(a, b) ==
    [s \in Senders |-> [w \in Users |->
        CASE s = ext /\ w = u2 -> a
          [] s = u2 /\ w = u1 -> b
          [] OTHER -> 0]]

\* Two messages of one pair at most, and none of the other.
Few == {Chain(0, 0), Chain(1, 0), Chain(2, 0), Chain(0, 1), Chain(0, 2)}

=============================================================================
