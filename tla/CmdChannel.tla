----------------------------- MODULE CmdChannel ------------------------------
(****************************************************************************)
(* CmdChannelGeneric and PollerGeneric: command channels made of lists,     *)
(* mutexes and condition variables, one for each worker or connection, and  *)
(* the poller they share.  A step is what happens under one mutex, or one   *)
(* notify_one: between pushing a command and telling anybody about it       *)
(* everything else may happen.                                              *)
(*                                                                          *)
(* A channel has one owner; commands to the owner come from several threads *)
(* (the main thread and whoever calls Quit).  An owner is registered as     *)
(* long as it sends commands.  The main thread waits for 100 ms at most, so *)
(* that its own condition variable decides nothing.                         *)
(****************************************************************************)
EXTENDS Naturals, Sequences

CONSTANTS
    Chans,      \* the channels
    Cmds,       \* the commands
    Senders     \* threads that send commands to owners

VARIABLES
    toOwner,    \* to_owner_cmd_
    toMain,     \* to_main_cmd_
    owner,      \* each owner: "free", "posting" (in SendToMain, before
                \* poller_->Notify), "recv" (in RecvFromMain) or "asleep"
    notifying,  \* the channel a sender has pushed to, before notify_one
    evs,        \* PollerGeneric::evs_: how often it holds a channel
    taken       \* the events of the main loop's round, unprocessed

vars == <<toOwner, toMain, owner, notifying, evs, taken>>

None == [c \in Chans |-> 0]

Init ==
    /\ toOwner = [c \in Chans |-> <<>>]
    /\ toMain = [c \in Chans |-> <<>>]
    /\ owner = [c \in Chans |-> "free"]
    /\ notifying = [s \in Senders |-> {}]
    /\ evs = None /\ taken = None

-----------------------------------------------------------------------------
(* The owner of a channel.                                                  *)
OwnerStep(c, from, to) ==
    /\ owner[c] = from
    /\ owner' = [owner EXCEPT ![c] = to]

PushToMain(c, cmd) ==
    /\ OwnerStep(c, "free", "posting")
    /\ toMain' = [toMain EXCEPT ![c] = Append(@, cmd)]
    /\ UNCHANGED <<toOwner, notifying, evs, taken>>

Notify(c) ==
    /\ OwnerStep(c, "posting", "free")
    /\ evs' = [evs EXCEPT ![c] = @ + 1]
    /\ UNCHANGED <<toOwner, toMain, notifying, taken>>

BeginRecv(c) ==
    /\ OwnerStep(c, "free", "recv")
    /\ UNCHANGED <<toOwner, toMain, notifying, evs, taken>>

(* The predicate of cv_.wait is tested under the mutex: if there is no      *)
(* command the mutex is given up and the owner sleeps, in one step.         *)
Sleep(c) ==
    /\ toOwner[c] = <<>>
    /\ OwnerStep(c, "recv", "asleep")
    /\ UNCHANGED <<toOwner, toMain, notifying, evs, taken>>

RecvFromMain(c) ==
    /\ toOwner[c] # <<>>
    /\ OwnerStep(c, "recv", "free")
    /\ toOwner' = [toOwner EXCEPT ![c] = Tail(@)]
    /\ UNCHANGED <<toMain, notifying, evs, taken>>

(* Condition variables may wake a thread for nothing.                       *)
WakeUp(c) ==
    /\ OwnerStep(c, "asleep", "recv")
    /\ UNCHANGED <<toOwner, toMain, notifying, evs, taken>>

Owner(c) == Notify(c) \/ BeginRecv(c) \/ Sleep(c) \/ RecvFromMain(c)
            \/ WakeUp(c)

-----------------------------------------------------------------------------
(* Who sends to owners.                                                     *)
PushToOwner(s, c, cmd) ==
    /\ notifying[s] = {}
    /\ notifying' = [notifying EXCEPT ![s] = {c}]
    /\ toOwner' = [toOwner EXCEPT ![c] = Append(@, cmd)]
    /\ UNCHANGED <<toMain, owner, evs, taken>>

NotifyOwner(s) ==
    /\ notifying[s] # {}
    /\ notifying' = [notifying EXCEPT ![s] = {}]
    /\ owner' = [c \in Chans |-> IF c \in notifying[s] /\ owner[c] = "asleep"
                                 THEN "recv" ELSE owner[c]]
    /\ UNCHANGED <<toOwner, toMain, evs, taken>>

-----------------------------------------------------------------------------
(* The main thread: it takes all events, and reads a command for each.      *)
Wait ==
    /\ taken = None
    /\ taken' = evs
    /\ evs' = None
    /\ UNCHANGED <<toOwner, toMain, owner, notifying>>

RecvFromOwner(c) ==
    /\ taken[c] > 0
    /\ taken' = [taken EXCEPT ![c] = @ - 1]
    /\ toMain' = [toMain EXCEPT ![c] = Tail(@)]
    /\ UNCHANGED <<toOwner, owner, notifying, evs>>

Next ==
    \/ Wait
    \/ \E s \in Senders : NotifyOwner(s)
    \/ \E c \in Chans :
          \/ Owner(c) \/ RecvFromOwner(c)
          \/ \E cmd \in Cmds :
                PushToMain(c, cmd) \/ \E s \in Senders : PushToOwner(s, c, cmd)

Spec == Init /\ [][Next]_vars

-----------------------------------------------------------------------------
(* Properties.                                                              *)
TypeOK ==
    /\ toOwner \in [Chans -> Seq(Cmds)] /\ toMain \in [Chans -> Seq(Cmds)]
    /\ owner \in [Chans -> {"free", "posting", "recv", "asleep"}]
    /\ notifying \in [Senders -> SUBSET Chans]
    /\ evs \in [Chans -> Nat] /\ taken \in [Chans -> Nat]

Posting(c) == IF owner[c] = "posting" THEN 1 ELSE 0

(* Every command to the main thread has exactly one event, except the one   *)
(* whose event is about to be posted: RecvFromOwner never takes the front   *)
(* of an empty list, and no command is forgotten.                           *)
EventPerCommand ==
    \A c \in Chans : Len(toMain[c]) = evs[c] + taken[c] + Posting(c)

(* An owner sleeps beside a command only while somebody is about to wake it.*)
NoLostWakeup ==
    \A c \in Chans :
        owner[c] = "asleep" /\ toOwner[c] # <<>> =>
            \E s \in Senders : c \in notifying[s]

(* The channel the other modules use: the event is posted with the command. *)
Atomic == INSTANCE ChannelSpec WITH
              events <- [c \in Chans |-> evs[c] + taken[c] + Posting(c)]
=============================================================================
