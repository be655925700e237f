------------------------------- MODULE Command -------------------------------
(****************************************************************************)
(* What the command channel of a worker can hold on its way to the worker:  *)
(* the answer of the main thread to the worker's last command, and a kQuit  *)
(* from each thread whose App::Quit has come to this worker.                *)
(****************************************************************************)
EXTENDS Integers, Sequences

In(q, a) == \E i \in 1..Len(q) : q[i] = a

Answered(q, A) == \E a \in A : In(q, a)

(* At most one of the answers A and at most n times kQuit, in any order.    *)
ToOwnerStates(A, n) ==
    { q \in Seq(A \cup {"kQuit"}) :
        /\ \A i, j \in 1..Len(q) : q[i] \in A /\ q[j] \in A => i = j
        /\ Len(q) <= n + (IF Answered(q, A) THEN 1 ELSE 0) }

=============================================================================
