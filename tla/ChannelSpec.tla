----------------------------- MODULE ChannelSpec -----------------------------
(* What the other modules take a command channel to be: two queues, and a   *)
(* number of events for the main thread.  An event is there for a command,  *)
(* and the main thread reads a command only for an event.                   *)
EXTENDS Naturals, Sequences

CONSTANTS Chans, Cmds

VARIABLES toOwner, toMain, events

vars == <<toOwner, toMain, events>>

Init ==
    /\ toOwner = [c \in Chans |-> <<>>]
    /\ toMain = [c \in Chans |-> <<>>]
    /\ events = [c \in Chans |-> 0]

SendToMain(c, cmd) ==
    /\ toMain' = [toMain EXCEPT ![c] = Append(@, cmd)]
    /\ events' = [events EXCEPT ![c] = @ + 1]
    /\ UNCHANGED toOwner

RecvFromOwner(c) ==
    /\ events[c] > 0 /\ toMain[c] # <<>>
    /\ toMain' = [toMain EXCEPT ![c] = Tail(@)]
    /\ events' = [events EXCEPT ![c] = @ - 1]
    /\ UNCHANGED toOwner

SendToOwner(c, cmd) ==
    /\ toOwner' = [toOwner EXCEPT ![c] = Append(@, cmd)]
    /\ UNCHANGED <<toMain, events>>

RecvFromMain(c) ==
    /\ toOwner[c] # <<>>
    /\ toOwner' = [toOwner EXCEPT ![c] = Tail(@)]
    /\ UNCHANGED <<toMain, events>>

Next ==
    \E c \in Chans :
        \/ RecvFromOwner(c) \/ RecvFromMain(c)
        \/ \E cmd \in Cmds : SendToMain(c, cmd) \/ SendToOwner(c, cmd)

Spec == Init /\ [][Next]_vars
=============================================================================
