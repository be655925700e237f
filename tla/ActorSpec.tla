------------------------------ MODULE ActorSpec ------------------------------
(****************************************************************************)
(* What myframe promises to an application, without threads, channels or    *)
(* scheduling queues: actors run in parallel, each one serially, on batches *)
(* of the messages accepted for it; what an actor sends during a batch      *)
(* leaves, in order, after the batch ended and before its next one begins.  *)
(****************************************************************************)
EXTENDS Mailbox, FiniteSets

CONSTANTS
    Actors,     \* the actors
    Msg,        \* messages: records with fields src and dst
    Parallel,   \* how many actors may run at the same time
    Pending,    \* bound on accepted messages per actor, if positive
    RunSize     \* bound on a batch per actor, if positive

VARIABLES
    accepted,   \* accepted[a]: messages waiting for actor a
    batch,      \* batch[a]: messages of the current execution, unprocessed
    out,        \* out[a]: messages actor a sent, not yet accepted
    busy        \* actors being executed

avars == <<accepted, batch, out, busy>>

Init ==
    /\ accepted = [a \in Actors |-> <<>>]
    /\ batch = [a \in Actors |-> <<>>]
    /\ out = [a \in Actors |-> <<>>]
    /\ busy = {}

Accept(m) ==
    accepted' = [accepted EXCEPT ![m.dst] = Recv(@, m, Pending[m.dst])]

(* A message from outside the actors is accepted.                           *)
Arrive ==
    /\ \E m \in Msg : m.src \notin Actors /\ Accept(m)
    /\ UNCHANGED <<batch, out, busy>>

Begin(a) ==
    /\ a \notin busy
    /\ Cardinality(busy) < Parallel
    /\ accepted[a] # <<>>
    /\ batch[a] = <<>>
    /\ out[a] = <<>>
    /\ busy' = busy \cup {a}
    /\ batch' = [batch EXCEPT ![a] =
                    SubSeq(accepted[a], 1, BatchLen(accepted[a], RunSize[a]))]
    /\ accepted' = [accepted EXCEPT ![a] = RecvAfterMove(@, RunSize[a])]
    /\ UNCHANGED out

(* The actor processes a message; it may send one.                          *)
Handle(a) ==
    /\ a \in busy
    /\ batch[a] # <<>>
    /\ batch' = [batch EXCEPT ![a] = Tail(@)]
    /\ \/ UNCHANGED out
       \/ \E m \in Msg : m.src = a /\ out' = [out EXCEPT ![a] = Append(@, m)]
    /\ UNCHANGED <<accepted, busy>>

End(a) ==
    /\ a \in busy
    /\ batch[a] = <<>>
    /\ busy' = busy \ {a}
    /\ UNCHANGED <<accepted, batch, out>>

Route(a) ==
    /\ a \notin busy
    /\ out[a] # <<>>
    /\ Accept(Head(out[a]))
    /\ out' = [out EXCEPT ![a] = Tail(@)]
    /\ UNCHANGED <<batch, busy>>

Next ==
    \/ Arrive
    \/ \E a \in Actors : Begin(a) \/ Handle(a) \/ End(a) \/ Route(a)

(* Begin may be disabled again and again while others occupy the workers:   *)
(* the promise that no actor starves is strong fairness.                    *)
Fairness ==
    \A a \in Actors : /\ SF_avars(Begin(a))
                      /\ WF_avars(Handle(a))
                      /\ WF_avars(End(a))
                      /\ WF_avars(Route(a))

Safe == Init /\ [][Next]_avars
Spec == Safe /\ Fairness

=============================================================================
