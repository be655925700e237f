--------------------------- MODULE CmdChannelProof ---------------------------
(****************************************************************************)
(* Theorems about CmdChannel: for any number of channels, of commands and   *)
(* of threads that send them, the channel made of lists and condition       *)
(* variables loses neither an event nor a wakeup, and implements the        *)
(* channel whose events come with the commands.                             *)
(****************************************************************************)
EXTENDS CmdChannel, SequenceTheorems, TLAPS

IInv == TypeOK /\ EventPerCommand /\ NoLostWakeup

LEMMA InitInv == Init => IInv
  BY DEF Init, IInv, TypeOK, EventPerCommand, NoLostWakeup, None, Posting

(* The front of the list is there when the main thread reads it.            *)
LEMMA FrontIsThere ==
  ASSUME IInv, NEW c \in Chans, taken[c] > 0
  PROVE  toMain[c] # <<>>
<1>1. evs[c] \in Nat /\ taken[c] \in Nat /\ Posting(c) \in {0, 1}
  BY DEF IInv, TypeOK, Posting
<1>2. Len(toMain[c]) = evs[c] + taken[c] + Posting(c)
  BY DEF IInv, EventPerCommand
<1>3. Len(toMain[c]) # 0
  BY <1>1, <1>2
<1>4. Len(<<>>) = 0
  BY EmptySeq
<1> QED BY <1>3, <1>4

LEMMA PushToMainInv ==
  ASSUME IInv, NEW c \in Chans, NEW cmd \in Cmds, PushToMain(c, cmd)
  PROVE  IInv'
  BY AppendProperties DEF IInv, TypeOK, EventPerCommand, NoLostWakeup,
                          Posting, PushToMain, OwnerStep

LEMMA OwnerInv ==
  ASSUME IInv, NEW c \in Chans, Owner(c)
  PROVE  IInv'
<1>1. CASE Notify(c)
  BY <1>1 DEF IInv, TypeOK, EventPerCommand, NoLostWakeup, Posting, Notify,
              OwnerStep
<1>2. CASE BeginRecv(c)
  BY <1>2 DEF IInv, TypeOK, EventPerCommand, NoLostWakeup, Posting, BeginRecv,
              OwnerStep
<1>3. CASE Sleep(c)
  BY <1>3 DEF IInv, TypeOK, EventPerCommand, NoLostWakeup, Posting, Sleep,
              OwnerStep
<1>4. CASE RecvFromMain(c)
  BY <1>4, HeadTailProperties DEF IInv, TypeOK, EventPerCommand,
                     NoLostWakeup, Posting, RecvFromMain, OwnerStep
<1>5. CASE WakeUp(c)
  BY <1>5 DEF IInv, TypeOK, EventPerCommand, NoLostWakeup, Posting, WakeUp,
              OwnerStep
<1> QED BY <1>1, <1>2, <1>3, <1>4, <1>5 DEF Owner

(* Whoever pushed a command to a sleeping owner is the one to wake it.      *)
LEMMA PushToOwnerInv ==
  ASSUME IInv, NEW s \in Senders, NEW c \in Chans, NEW cmd \in Cmds,
         PushToOwner(s, c, cmd)
  PROVE  IInv'
<1>1. TypeOK'
  BY AppendProperties DEF IInv, TypeOK, PushToOwner
<1>2. EventPerCommand'
  BY DEF IInv, EventPerCommand, Posting, PushToOwner
<1>3. NoLostWakeup'
  <2> SUFFICES ASSUME NEW d \in Chans, owner[d] = "asleep", toOwner'[d] # <<>>
               PROVE  \E t \in Senders : d \in notifying'[t]
    BY DEF NoLostWakeup, PushToOwner
  <2>1. CASE d = c
    BY <2>1 DEF IInv, TypeOK, PushToOwner
  <2>2. CASE d # c
    <3>1. PICK t \in Senders : d \in notifying[t]
      BY <2>2 DEF IInv, TypeOK, NoLostWakeup, PushToOwner
    <3>2. t # s
      BY <3>1 DEF PushToOwner
    <3> QED BY <3>1, <3>2 DEF IInv, TypeOK, PushToOwner
  <2> QED BY <2>1, <2>2
<1> QED BY <1>1, <1>2, <1>3 DEF IInv

LEMMA NotifyOwnerInv ==
  ASSUME IInv, NEW s \in Senders, NotifyOwner(s)
  PROVE  IInv'
<1>1. TypeOK'
  BY DEF IInv, TypeOK, NotifyOwner
<1>2. EventPerCommand'
  BY DEF IInv, TypeOK, EventPerCommand, Posting, NotifyOwner
<1>3. NoLostWakeup'
  <2> SUFFICES ASSUME NEW d \in Chans, owner'[d] = "asleep", toOwner[d] # <<>>
               PROVE  \E t \in Senders : d \in notifying'[t]
    BY DEF NoLostWakeup, NotifyOwner
  <2>1. owner[d] = "asleep" /\ d \notin notifying[s]
    BY DEF NotifyOwner
  <2>2. PICK t \in Senders : d \in notifying[t]
    BY <2>1 DEF IInv, NoLostWakeup
  <2> QED BY <2>1, <2>2 DEF IInv, TypeOK, NotifyOwner
<1> QED BY <1>1, <1>2, <1>3 DEF IInv

LEMMA WaitInv ==
  ASSUME IInv, Wait
  PROVE  IInv'
  BY DEF IInv, TypeOK, EventPerCommand, NoLostWakeup, Posting, Wait, None

LEMMA RecvFromOwnerInv ==
  ASSUME IInv, NEW c \in Chans, RecvFromOwner(c)
  PROVE  IInv'
<1>1. toMain[c] # <<>>
  BY FrontIsThere DEF RecvFromOwner
<1>2. Tail(toMain[c]) \in Seq(Cmds) /\ Len(Tail(toMain[c])) = Len(toMain[c]) - 1
  BY <1>1, HeadTailProperties DEF IInv, TypeOK
<1>3. TypeOK'
  BY <1>2 DEF IInv, TypeOK, RecvFromOwner
<1>4. ASSUME NEW d \in Chans
      PROVE  Len(toMain'[d]) = evs'[d] + taken'[d] + Posting(d)'
  <2>1. /\ Len(toMain[d]) = evs[d] + taken[d] + Posting(d)
        /\ Posting(d)' = Posting(d) /\ evs'[d] = evs[d]
        /\ Posting(d) \in {0, 1} /\ evs[d] \in Nat /\ taken[d] \in Nat
    BY DEF IInv, TypeOK, EventPerCommand, Posting, RecvFromOwner
  <2>2. CASE d = c
    <3>1. taken'[d] = taken[d] - 1 /\ toMain'[d] = Tail(toMain[c])
      BY <2>2 DEF IInv, TypeOK, RecvFromOwner
    <3>2. Len(toMain'[d]) = Len(toMain[d]) - 1
      BY <1>2, <2>2, <3>1
    <3>3. Len(toMain[d]) \in Nat
      BY <2>1
    <3> QED BY <2>1, <3>1, <3>2, <3>3
  <2>3. CASE d # c
    <3>1. taken'[d] = taken[d] /\ toMain'[d] = toMain[d]
      BY <2>3 DEF IInv, TypeOK, RecvFromOwner
    <3> QED BY <2>1, <3>1
  <2> QED BY <2>2, <2>3
<1>5. EventPerCommand'
  BY <1>4 DEF EventPerCommand
<1>6. NoLostWakeup'
  BY DEF IInv, NoLostWakeup, RecvFromOwner
<1> QED BY <1>3, <1>5, <1>6 DEF IInv

LEMMA NextInv == IInv /\ [Next]_vars => IInv'
<1> SUFFICES ASSUME IInv, [Next]_vars PROVE IInv'
  OBVIOUS
<1>1. CASE UNCHANGED vars
  BY <1>1 DEF vars, IInv, TypeOK, EventPerCommand, NoLostWakeup, Posting
<1>2. CASE Next
  BY <1>2, PushToMainInv, OwnerInv, PushToOwnerInv, NotifyOwnerInv, WaitInv,
     RecvFromOwnerInv DEF Next
<1> QED BY <1>1, <1>2

THEOREM Invariant == Spec => []IInv
  BY InitInv, NextInv, PTL DEF Spec

(* Every command to the main thread has exactly one event: the main thread  *)
(* never reads from an empty list, and leaves no command behind.            *)
THEOREM EveryCommandHasItsEvent == Spec => []EventPerCommand
<1>1. IInv => EventPerCommand
  BY DEF IInv
<1> QED BY <1>1, Invariant, PTL

(* No owner sleeps for good beside a command that was sent to it.           *)
THEOREM NoWakeupIsLost == Spec => []NoLostWakeup
<1>1. IInv => NoLostWakeup
  BY DEF IInv
<1> QED BY <1>1, Invariant, PTL

-----------------------------------------------------------------------------
(* The refinement: an event counts from the moment its command is pushed.   *)
Events == [c \in Chans |-> evs[c] + taken[c] + Posting(c)]

LEMMA InitRefines == Init => Atomic!Init
  BY DEF Init, Atomic!Init, None, Posting

LEMMA OwnerRefines ==
  ASSUME IInv, NEW c \in Chans, Owner(c)
  PROVE  Atomic!Next \/ UNCHANGED Atomic!vars
<1>1. CASE RecvFromMain(c)
  <2>1. Events' = Events
    BY <1>1 DEF Events, IInv, TypeOK, Posting, RecvFromMain, OwnerStep
  <2>2. Atomic!RecvFromMain(c)
    BY <1>1, <2>1 DEF Atomic!RecvFromMain, Events, RecvFromMain
  <2> QED BY <2>2 DEF Atomic!Next
<1>2. CASE Notify(c)
  BY <1>2 DEF Atomic!vars, IInv, TypeOK, Posting, Notify, OwnerStep
<1>3. CASE BeginRecv(c) \/ Sleep(c) \/ WakeUp(c)
  BY <1>3 DEF Atomic!vars, IInv, TypeOK, Posting, BeginRecv, Sleep, WakeUp,
              OwnerStep
<1> QED BY <1>1, <1>2, <1>3 DEF Owner

LEMMA PushToMainRefines ==
  ASSUME IInv, NEW c \in Chans, NEW cmd \in Cmds, PushToMain(c, cmd)
  PROVE  Atomic!Next
<1>1. Events' = [Events EXCEPT ![c] = @ + 1]
  <2>2. \A d \in Chans : Posting(d)' = IF d = c THEN 1 ELSE Posting(d)
    BY DEF IInv, TypeOK, Posting, PushToMain, OwnerStep
  <2>3. Posting(c) = 0
    BY DEF Posting, PushToMain, OwnerStep
  <2>4. \A d \in Chans : evs[d] \in Nat /\ taken[d] \in Nat
    BY DEF IInv, TypeOK
  <2>5. \A d \in Chans : Events'[d] = IF d = c THEN Events[d] + 1 ELSE Events[d]
    BY <2>2, <2>3, <2>4 DEF Events, PushToMain
  <2> QED BY <2>5 DEF Events
<1>2. Atomic!SendToMain(c, cmd)
  BY <1>1 DEF Atomic!SendToMain, Events, PushToMain
<1> QED BY <1>2 DEF Atomic!Next

LEMMA PushToOwnerRefines ==
  ASSUME IInv, NEW s \in Senders, NEW c \in Chans, NEW cmd \in Cmds,
         PushToOwner(s, c, cmd)
  PROVE  Atomic!Next
<1>1. Atomic!SendToOwner(c, cmd)
  BY DEF Atomic!SendToOwner, Posting, PushToOwner
<1> QED BY <1>1 DEF Atomic!Next

LEMMA NotifyOwnerRefines ==
  ASSUME IInv, NEW s \in Senders, NotifyOwner(s)
  PROVE  UNCHANGED Atomic!vars
  BY DEF Atomic!vars, IInv, TypeOK, Posting, NotifyOwner

LEMMA WaitRefines ==
  ASSUME IInv, Wait
  PROVE  UNCHANGED Atomic!vars
  BY DEF Atomic!vars, IInv, TypeOK, Posting, Wait, None

LEMMA RecvFromOwnerRefines ==
  ASSUME IInv, NEW c \in Chans, RecvFromOwner(c)
  PROVE  Atomic!Next
<1>1. toMain[c] # <<>>
  BY FrontIsThere DEF RecvFromOwner
<1>2. Events' = [Events EXCEPT ![c] = @ - 1] /\ Events[c] > 0
  <2>1. \A d \in Chans : /\ evs[d] \in Nat /\ taken[d] \in Nat
                          /\ Posting(d) \in {0, 1} /\ Posting(d)' = Posting(d)
    BY DEF IInv, TypeOK, Posting, RecvFromOwner
  <2>2. \A d \in Chans :
            taken'[d] = IF d = c THEN taken[d] - 1 ELSE taken[d]
    BY DEF IInv, TypeOK, RecvFromOwner
  <2>3. \A d \in Chans : Events'[d] = IF d = c THEN Events[d] - 1 ELSE Events[d]
    BY <2>1, <2>2 DEF Events, RecvFromOwner
  <2>4. Events[c] > 0
    BY <2>1 DEF Events, RecvFromOwner
  <2> QED BY <2>3, <2>4 DEF Events
<1>3. Atomic!RecvFromOwner(c)
  BY <1>1, <1>2 DEF Atomic!RecvFromOwner, Events, RecvFromOwner
<1> QED BY <1>3 DEF Atomic!Next

LEMMA NextRefines ==
  IInv /\ [Next]_vars => [Atomic!Next]_Atomic!vars
<1> SUFFICES ASSUME IInv, [Next]_vars PROVE [Atomic!Next]_Atomic!vars
  OBVIOUS
<1>1. CASE UNCHANGED vars
  BY <1>1 DEF vars, Atomic!vars, Posting
<1>2. CASE Next
  BY <1>2, OwnerRefines, PushToMainRefines, PushToOwnerRefines,
     NotifyOwnerRefines, WaitRefines, RecvFromOwnerRefines DEF Next
<1> QED BY <1>1, <1>2

(* CmdChannelGeneric with PollerGeneric implements the channel the other    *)
(* modules take for granted, where a command and its event are one step and *)
(* the main thread reads only what is there.                                *)
THEOREM ImplementsChannel == Spec => Atomic!Spec
  BY InitRefines, NextRefines, Invariant, PTL DEF Spec, Atomic!Spec
=============================================================================
