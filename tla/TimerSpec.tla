------------------------------ MODULE TimerSpec ------------------------------
(****************************************************************************)
(* What the timer worker promises: a timer armed for n ticks is fired by    *)
(* the n-th tick, neither earlier nor later, timers of the same tick in the *)
(* order they were armed, and every fired timer reaches its actor.          *)
(****************************************************************************)
EXTENDS Integers, Sequences, SequencesExt, Selection

CONSTANTS
    Timers,     \* names of timers
    MaxTime     \* the longest interval, in ticks

VARIABLES
    pending,    \* armed timers, oldest first: [id, left], left in ticks
    fired,      \* ids of timers that fired and wait for delivery
    halted      \* the worker was told to stop: nothing is promised any more

tvars == <<pending, fired, halted>>

Armed == [id : Timers, left : 1..MaxTime]
Ids == { pending[i].id : i \in 1..Len(pending) }

Init == pending = <<>> /\ fired = <<>> /\ halted = FALSE

Arm(id, n) ==
    /\ id \notin Ids \cup ToSet(fired)
    /\ pending' = Append(pending, [id |-> id, left |-> n])
    /\ UNCHANGED <<fired, halted>>

Tick ==
    LET due   == Only(pending, { p \in Armed : p.left = 1 })
        later == Only(pending, { p \in Armed : p.left > 1 })
    IN
    /\ fired' = fired \o [i \in 1..Len(due) |-> due[i].id]
    /\ pending' = [i \in 1..Len(later) |->
                      [later[i] EXCEPT !.left = @ - 1]]
    /\ UNCHANGED halted

(* All that fired so far, or a first part of it, is delivered in order.     *)
Deliver ==
    /\ \E k \in 1..Len(fired) : fired' = SubSeq(fired, k + 1, Len(fired))
    /\ UNCHANGED <<pending, halted>>

Halt == ~halted /\ halted' = TRUE /\ UNCHANGED <<pending, fired>>

Next == (\E id \in Timers, n \in 1..MaxTime : Arm(id, n)) \/ Tick \/ Deliver
        \/ Halt

Safe == Init /\ [][Next]_tvars
Spec == /\ Safe
        /\ WF_tvars(~halted /\ pending # <<>> /\ Tick)
        /\ WF_tvars(~halted /\ Deliver)

=============================================================================
