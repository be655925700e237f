--------------------------- MODULE SchedulerProof ---------------------------
(****************************************************************************)
(* Proofs about Scheduler for every number of actors and workers, every     *)
(* queue limit, both pollers and any traffic: first the protocol between    *)
(* the threads, then the wait queue and the batches, then, while nobody     *)
(* calls Quit, that no message is lost or reordered and that the scheduler  *)
(* does what ActorSpec promises, step by step.                              *)
(****************************************************************************)
EXTENDS Scheduler, MailboxProof, FiniteSetTheorems

(* What the callers of Quit and the main thread write for a worker.         *)

(* The callers past a worker are some of finitely many.                     *)
LEMMA ToldType ==
    ASSUME NEW w
    PROVE  /\ Cardinality(Told(w)) \in Nat /\ Cardinality(Told(w)') \in Nat
           /\ IsFiniteSet(Told(w)) /\ IsFiniteSet(Told(w)')
<1>1. Told(w) \subseteq Quitters /\ Told(w)' \subseteq Quitters
  BY DEF Told
<1> QED
  BY <1>1, ThreadsAssumption, FS_Subset, FS_CardinalityType

(* A channel stays within its bound when callers pass its worker.           *)
LEMMA FromMainMore ==
    ASSUME NEW w \in Workers, FromMain(w), toOwner'[w] = toOwner[w],
           Told(w) \subseteq Told(w)'
    PROVE  FromMain(w)'
<1>1. Cardinality(Told(w)) <= Cardinality(Told(w)')
  BY ToldType, FS_Subset
<1>2. ToOwnerStates({"kRun"}, Cardinality(Told(w)))
        \subseteq ToOwnerStates({"kRun"}, Cardinality(Told(w)'))
  BY <1>1, ToldType, ToOwnerMore
<1> QED
  BY <1>2 DEF FromMain

LEMMA FromMainKept ==
    ASSUME NEW w \in Workers, FromMain(w), toOwner'[w] = toOwner[w],
           UNCHANGED <<qpc, toStop>>
    PROVE  FromMain(w)'
<1>1. Told(w)' = Told(w)
  BY DEF Told
<1> QED
  BY <1>1 DEF FromMain

LEMMA HasRunAnswered ==
    ASSUME NEW q
    PROVE  Answered(q, {"kRun"}) <=> In(q, "kRun")
  BY DEF Answered

(* A worker reads its command: a kRun is read once, a kQuit leaves the kRun.*)
LEMMA FromMainRead ==
    ASSUME TypeOK, NEW w \in Workers, toOwner[w] # <<>>,
           RecvFromMain(w), UNCHANGED <<qpc, toStop>>
    PROVE  /\ toOwner' \in [Workers -> Seq(Cmd)]
           /\ \A v \in Workers : FromMain(v)'
           /\ \A v \in Workers : v # w => toOwner'[v] = toOwner[v]
           /\ Head(toOwner[w]) = "kQuit" =>
                HasQuit(w) /\ (HasRun(w)' <=> HasRun(w))
           /\ Head(toOwner[w]) # "kQuit" => HasRun(w) /\ ~HasRun(w)'
           /\ \A v \in Workers : HasQuit(v)' => HasQuit(v)
<1> DEFINE q == toOwner[w]
           n == Cardinality(Told(w))
<1>1. toOwner \in [Workers -> Seq(Cmd)] /\ q \in Seq(Cmd) /\ q # <<>>
  BY DEF TypeOK
<1>2. n \in Nat /\ q \in ToOwnerStates({"kRun"}, n) /\ "kQuit" \notin {"kRun"}
  BY ToldType DEF TypeOK, FromMain
<1>3. /\ Tail(q) \in ToOwnerStates({"kRun"}, n)
      /\ Head(q) \in {"kRun"} \cup {"kQuit"}
      /\ Head(q) \in {"kRun"} => ~Answered(Tail(q), {"kRun"})
      /\ \A b : In(q, b) <=> b = Head(q) \/ In(Tail(q), b)
  BY <1>1, <1>2, ToOwnerTail
<1>4. Tail(q) \in Seq(Cmd)
  BY <1>1, HeadTailProperties
<1>5. toOwner' = [toOwner EXCEPT ![w] = Tail(q)]
  BY DEF RecvFromMain
<1>6. /\ toOwner' \in [Workers -> Seq(Cmd)] /\ toOwner'[w] = Tail(q)
      /\ \A v \in Workers : v # w => toOwner'[v] = toOwner[v]
  BY <1>1, <1>4, <1>5
<1>7. FromMain(w)'
  <2>1. Told(w)' = Told(w)
    BY DEF Told
  <2> QED
    BY <1>3, <1>6, <2>1 DEF FromMain
<1>8. \A v \in Workers : FromMain(v)'
  BY <1>6, <1>7, FromMainKept DEF TypeOK
<1>9. /\ HasRun(w) <=> "kRun" = Head(q) \/ HasRun(w)'
      /\ HasQuit(w) <=> "kQuit" = Head(q) \/ HasQuit(w)'
  BY <1>3, <1>6 DEF HasRun, HasQuit
<1>10. Head(q) = "kRun" => ~HasRun(w)'
  BY <1>3, <1>6, HasRunAnswered DEF HasRun
<1>11. \A v \in Workers : v # w => (HasQuit(v)' <=> HasQuit(v))
  BY <1>6 DEF HasQuit
<1> QED
  BY <1>3, <1>6, <1>8, <1>9, <1>10, <1>11

(* The main thread answers a worker that has no kRun yet.                   *)
LEMMA FromMainRun ==
    ASSUME TypeOK, NEW w \in Workers, ~HasRun(w),
           toOwner' = [toOwner EXCEPT ![w] = Append(@, "kRun")],
           UNCHANGED <<qpc, toStop>>
    PROVE  /\ toOwner' \in [Workers -> Seq(Cmd)]
           /\ \A v \in Workers : FromMain(v)'
           /\ \A v \in Workers : v # w => toOwner'[v] = toOwner[v]
           /\ HasRun(w)'
           /\ \A v \in Workers : v # w => (HasRun(v)' <=> HasRun(v))
           /\ \A v \in Workers : HasQuit(v)' <=> HasQuit(v)
<1> DEFINE q == toOwner[w]
           n == Cardinality(Told(w))
<1>1. toOwner \in [Workers -> Seq(Cmd)] /\ q \in Seq(Cmd)
  BY DEF TypeOK
<1>2. n \in Nat /\ q \in ToOwnerStates({"kRun"}, n) /\ "kQuit" \notin {"kRun"}
      /\ "kRun" \in {"kRun"} /\ ~Answered(q, {"kRun"})
  BY ToldType, HasRunAnswered DEF TypeOK, FromMain, HasRun
<1>3. /\ Append(q, "kRun") \in ToOwnerStates({"kRun"}, n)
      /\ \A b : In(Append(q, "kRun"), b) <=> In(q, b) \/ b = "kRun"
  BY <1>2, ToOwnerAnswer
<1>4. Append(q, "kRun") \in Seq(Cmd)
  BY <1>1, AppendProperties DEF Cmd
<1>5. /\ toOwner' \in [Workers -> Seq(Cmd)] /\ toOwner'[w] = Append(q, "kRun")
      /\ \A v \in Workers : v # w => toOwner'[v] = toOwner[v]
  BY <1>1, <1>4
<1>6. FromMain(w)'
  <2>1. Told(w)' = Told(w)
    BY DEF Told
  <2> QED
    BY <1>3, <1>5, <2>1 DEF FromMain
<1>7. \A v \in Workers : FromMain(v)'
  BY <1>5, <1>6, FromMainKept DEF TypeOK
<1>8. HasRun(w)' /\ (HasQuit(w)' <=> HasQuit(w))
  BY <1>3, <1>5 DEF HasRun, HasQuit
<1>9. \A v \in Workers : v # w => /\ HasRun(v)' <=> HasRun(v)
                                  /\ HasQuit(v)' <=> HasQuit(v)
  BY <1>5 DEF HasRun, HasQuit
<1>10. ASSUME NEW v \in Workers
       PROVE  /\ HasQuit(v)' <=> HasQuit(v)
              /\ v # w => (HasRun(v)' <=> HasRun(v))
  <2>1. CASE v = w
    BY <1>8, <2>1 DEF HasRun, HasQuit
  <2>2. CASE v # w
    BY <1>9, <2>2 DEF HasRun, HasQuit
  <2> QED
    BY <2>1, <2>2
<1>11. HasRun(w)'
  BY <1>8
<1> HIDE DEF q, n
<1> QED
  BY <1>5, <1>7, <1>10, <1>11

(* A caller of Quit passes a worker and tells it.                           *)
LEMMA FromMainQuit ==
    ASSUME TypeOK, StoredFirst, NEW c \in Quitters, NEW w \in Workers,
           SendQuit(c, w)
    PROVE  /\ toOwner' \in [Workers -> Seq(Cmd)]
           /\ \A v \in Workers : FromMain(v)'
           /\ \A v \in Workers : HasRun(v)' <=> HasRun(v)
           /\ \A v \in Workers : v # w => (HasQuit(v)' <=> HasQuit(v))
<1> DEFINE q == toOwner[w]
           n == Cardinality(Told(w))
<1>1. toOwner \in [Workers -> Seq(Cmd)] /\ q \in Seq(Cmd)
  BY DEF TypeOK
<1>2. n \in Nat /\ q \in ToOwnerStates({"kRun"}, n) /\ "kQuit" \notin {"kRun"}
  BY ToldType DEF TypeOK, FromMain
<1>3. /\ Append(q, "kQuit") \in ToOwnerStates({"kRun"}, n + 1)
      /\ \A b : In(Append(q, "kQuit"), b) <=> In(q, b) \/ b = "kQuit"
  BY <1>2, ToOwnerQuit
<1>4. Append(q, "kQuit") \in Seq(Cmd)
  BY <1>1, AppendProperties DEF Cmd
<1>5. /\ toOwner' \in [Workers -> Seq(Cmd)] /\ toOwner'[w] = Append(q, "kQuit")
      /\ \A v \in Workers : v # w => toOwner'[v] = toOwner[v]
  BY <1>1, <1>4 DEF SendQuit, SendToOwner
<1>6. /\ w \in toStop[c] /\ qpc[c] = "stop" /\ qpc' = qpc
      /\ toStop' = [toStop EXCEPT ![c] = toStop[c] \ {w}]
      /\ qpc \in [Quitters -> {"idle", "store", "list", "stop", "back"}]
      /\ toStop \in [Quitters -> SUBSET Workers]
  BY DEF SendQuit, StoredFirst, TypeOK
<1>7. Told(w)' = Told(w) \cup {c} /\ c \notin Told(w)
  BY <1>6 DEF Told
<1>8. \A v \in Workers : v # w => Told(v) \subseteq Told(v)'
  BY <1>6 DEF Told
<1>9. FromMain(w)'
  <2>1. Cardinality(Told(w)') = n + 1
    BY <1>7, ToldType, FS_AddElement
  <2> QED
    BY <1>3, <1>5, <2>1 DEF FromMain
<1>10. \A v \in Workers : FromMain(v)'
  BY <1>5, <1>8, <1>9, FromMainMore DEF TypeOK
<1>11. HasRun(w)' <=> HasRun(w)
  BY <1>3, <1>5 DEF HasRun
<1>12. \A v \in Workers : v # w => /\ HasRun(v)' <=> HasRun(v)
                                   /\ HasQuit(v)' <=> HasQuit(v)
  BY <1>5 DEF HasRun, HasQuit
<1>13. ASSUME NEW v \in Workers
       PROVE  /\ HasRun(v)' <=> HasRun(v)
              /\ v # w => (HasQuit(v)' <=> HasQuit(v))
  <2>1. CASE v = w
    BY <1>11, <2>1 DEF HasRun, HasQuit
  <2>2. CASE v # w
    BY <1>12, <2>2 DEF HasRun, HasQuit
  <2> QED
    BY <2>1, <2>2
<1> HIDE DEF q, n
<1> QED
  BY <1>5, <1>10, <1>13

-----------------------------------------------------------------------------
LEMMA InitInv == Init => CoreInv
<1> SUFFICES ASSUME Init PROVE CoreInv
  OBVIOUS
<1> USE DEF Init
<1>1. /\ {recv, run, send} \subseteq [Actors -> Seq(Msg)]
      /\ waitQ \in Seq(Actors) /\ idleQ \in Seq(Workers)
      /\ toOwner \in [Workers -> Seq(Cmd)]
  BY EmptySeq
<1>2. {seq, done} \subseteq [Senders -> [Actors -> 0..MaxSeq]]
  BY LimitsAssumption
<1>8. \A n \in Nat : <<>> \in ToOwnerStates({"kRun"}, n) /\ \A b : ~In(<<>>, b)
  BY ToOwnerEmpty
<1>9. \A w \in Workers : FromMain(w)
  BY <1>8, ToldType DEF FromMain
<1>3. TypeOK
  BY <1>1, <1>2, <1>9 DEF TypeOK, ToMainStates
<1>4. \A w \in Workers : ~InIdleQ(w) /\ ~HasIdle(w) /\ ~HasGoodbye(w)
                          /\ ~HasRun(w) /\ ~HasQuit(w)
  BY <1>8, ToMainOps DEF HasIdle, HasGoodbye, HasRun, HasQuit, InIdleQ
<1>5. \A w \in Workers : Baton(w) /\ Farewell(w) /\ Holds(w)
  BY <1>4 DEF Baton, Farewell, Holds
<1>6. UniqueHolder /\ IdleOnce /\ StoredFirst
  BY ToMainOps DEF UniqueHolder, IdleOnce, StoredFirst
<1>7. EveryEventHasCommand
  BY ToMainOps, NamesAssumption DEF EveryEventHasCommand
<1> QED
  BY <1>3, <1>5, <1>6, <1>7 DEF CoreInv, WorkerInv

-----------------------------------------------------------------------------
(* The worker threads.                                                      *)

LEMMA SendIdleInv ==
    ASSUME CoreInv, NEW w \in Workers, SendIdle(w)
    PROVE  CoreInv'
<1> USE DEF CoreInv, SendToMain, RecvFromOwner, SendToOwner, RecvFromMain,
            Idle, PushBackIdleWorker, Del, SendIdle, mailboxVars, queueVars, mainVars, evVars, quitVars,
            histVars, chanVars
<1>0. toMain[w] = <<>>
  BY DEF TypeOK, WorkerInv, Baton, Farewell, HasIdle, HasGoodbye, ToMainStates
<1>1. TypeOK'
  BY <1>0, ToMainOps, FromMainKept DEF TypeOK, ToMainStates
<1>2. \A v \in Workers : Baton(v)'
  BY <1>0, ToMainOps DEF TypeOK, WorkerInv, Baton, HasIdle, HasRun, InIdleQ
<1>3. \A v \in Workers : Farewell(v)'
  BY <1>0, ToMainOps
  DEF TypeOK, WorkerInv, Farewell, HasGoodbye, HasQuit
<1>4. \A v \in Workers : Holds(v)'
  BY DEF TypeOK, WorkerInv, Holds, HasRun, InIdleQ
<1>5. (UniqueHolder /\ IdleOnce /\ StoredFirst)' /\ (mpc \in {"join", "done"} => registered = {})'
  BY DEF WorkerInv, UniqueHolder, IdleOnce, StoredFirst
<1>6. EveryEventHasCommand'
  BY <1>0, ToMainOps DEF TypeOK, WorkerInv, EveryEventHasCommand
<1> QED
  BY <1>1, <1>2, <1>3, <1>4, <1>5, <1>6 DEF WorkerInv

LEMMA RecvCmdInv ==
    ASSUME CoreInv, NEW w \in Workers, RecvCmd(w)
    PROVE  CoreInv'
<1> USE DEF CoreInv, SendToMain, RecvFromOwner, SendToOwner, RecvFromMain,
            Idle, PushBackIdleWorker, Del, RecvCmd, mailboxVars, queueVars, mainVars, evVars, quitVars,
            histVars, chanVars
<1>0. /\ toOwner' \in [Workers -> Seq(Cmd)]
      /\ \A v \in Workers : FromMain(v)'
      /\ \A v \in Workers : v # w => toOwner'[v] = toOwner[v]
      /\ Head(toOwner[w]) = "kQuit" =>
           HasQuit(w) /\ (HasRun(w)' <=> HasRun(w))
      /\ Head(toOwner[w]) # "kQuit" => HasRun(w) /\ ~HasRun(w)'
      /\ \A v \in Workers : HasQuit(v)' => HasQuit(v)
  BY FromMainRead
<1>1. TypeOK'
  BY <1>0 DEF TypeOK
<1>2. \A v \in Workers : Baton(v)'
  <2>1. /\ UNCHANGED <<toMain, idleQ>>
        /\ \A v \in Workers : v # w => toOwner'[v] = toOwner[v] /\ wpc'[v] = wpc[v]
    BY <1>0 DEF TypeOK
  <2>2. HasRun(w)' => HasRun(w)
    BY <1>0
  <2>3. wpc'[w] \in {"loop", "work"} => HasRun(w) /\ ~HasRun(w)'
    BY <1>0 DEF TypeOK
  <2>4. ASSUME NEW v \in Workers, v # w PROVE Baton(v)'
    BY <2>1, <2>4 DEF WorkerInv, Baton, HasIdle, HasRun, InIdleQ
  <2>5. Baton(w)'
    BY <2>1, <2>2, <2>3 DEF WorkerInv, Baton, HasIdle, InIdleQ
  <2> QED
    BY <2>4, <2>5
<1>3. \A v \in Workers : Farewell(v)'
  <2>2. CASE Head(toOwner[w]) = "kQuit"
    <3>1. HasQuit(w) /\ wpc' = [wpc EXCEPT ![w] = "exit"]
      BY <1>0, <2>2
    <3>2. appState # "running" /\ w \in registered
      BY <3>1 DEF WorkerInv, Farewell
    <3> QED
      BY <1>0, <3>1, <3>2 DEF TypeOK, WorkerInv, Farewell, HasGoodbye
  <2>3. CASE Head(toOwner[w]) # "kQuit"
    <3>1. wpc' = [wpc EXCEPT ![w] = "work"]
      BY <2>3
    <3> QED
      BY <1>0, <3>1 DEF TypeOK, WorkerInv, Farewell, HasGoodbye
  <2> QED
    BY <2>2, <2>3
<1>4. \A v \in Workers : Holds(v)'
  <2>1. /\ wpc'[w] = "work" \/ HasRun(w)' => HasRun(w)
        /\ \A v \in Workers : v # w => /\ wpc'[v] = wpc[v]
                                      /\ HasRun(v)' <=> HasRun(v)
    BY <1>0 DEF TypeOK, HasRun
  <2> QED
    BY <2>1 DEF WorkerInv, Holds, InIdleQ
<1>5. (UniqueHolder /\ IdleOnce /\ StoredFirst)' /\ (mpc \in {"join", "done"} => registered = {})'
  BY DEF WorkerInv, UniqueHolder, IdleOnce, StoredFirst
<1>6. EveryEventHasCommand'
  BY DEF TypeOK, WorkerInv, EveryEventHasCommand
<1> QED
  BY <1>1, <1>2, <1>3, <1>4, <1>5, <1>6 DEF WorkerInv

LEMMA ProcMsgInv ==
    ASSUME CoreInv, NEW w \in Workers, ProcMsg(w)
    PROVE  CoreInv'
<1> USE DEF CoreInv, SendToMain, RecvFromOwner, SendToOwner, RecvFromMain,
            Idle, PushBackIdleWorker, Del, mailboxVars, queueVars, mainVars, evVars, quitVars,
            histVars, chanVars
<1> DEFINE a == ctx[w]
           m == Head(run[a])
<1>1. UNCHANGED <<recv, queueVars, ctx, chanVars, wpc, mainVars, evVars,
                  quitVars>>
  BY DEF ProcMsg
<1>2. a \in Actors /\ run[a] \in Seq(Msg) /\ run[a] # <<>>
  BY DEF ProcMsg, TypeOK
<1>3. m \in Msg /\ Tail(run[a]) \in Seq(Msg)
  BY <1>2, HeadTailProperties
<1>4. run' \in [Actors -> Seq(Msg)]
  BY <1>2, <1>3 DEF ProcMsg, TypeOK
<1>5. done' \in [Senders -> [Actors -> 0..MaxSeq]]
  <2>1. NoteDone(m)
    BY DEF ProcMsg
  <2>2. m.src \in Senders /\ m.dst \in Actors /\ m.n \in 0..MaxSeq
    <3>1. m.src \in Senders /\ m.dst \in Actors /\ m.n \in 1..MaxSeq
      BY ONLY <1>3 DEF Msg
    <3> QED
      BY ONLY <3>1, LimitsAssumption
  <2> QED
    BY <2>1, <2>2 DEF NoteDone, TypeOK
<1>6. /\ send' \in [Actors -> Seq(Msg)]
      /\ seq' \in [Senders -> [Actors -> 0..MaxSeq]]
  <2>1. CASE UNCHANGED <<send, seq>>
    BY <2>1 DEF TypeOK
  <2>2. ASSUME NEW d \in Actors, MaySend(a, d), NoteSent(a, d),
               send' = [send EXCEPT ![a] =
                 Append(@, [src |-> a, dst |-> d, n |-> NextNo(a, d)])]
        PROVE  <1>6!1 /\ <1>6!2
    <3>0. a \in Senders /\ seq[a][d] \in 0..MaxSeq
      BY <1>2, <2>2 DEF TypeOK, Senders
    <3>1. NextNo(a, d) \in 1..MaxSeq
      BY <2>2, <3>0, LimitsAssumption DEF MaySend, NextNo
    <3>2. [src |-> a, dst |-> d, n |-> NextNo(a, d)] \in Msg
      BY <1>2, <3>0, <3>1, <2>2 DEF Msg
    <3>3. send[a] \in Seq(Msg)
      BY <1>2 DEF TypeOK
    <3>4. send' \in [Actors -> Seq(Msg)]
      BY <2>2, <3>2, <3>3, AppendProperties DEF TypeOK
    <3>5. seq' \in {seq, [seq EXCEPT ![a][d] = NextNo(a, d)]}
      BY <2>2 DEF NoteSent
    <3>6. NextNo(a, d) \in 0..MaxSeq
      BY <3>1
    <3>7. seq' \in [Senders -> [Actors -> 0..MaxSeq]]
      <4>1. seq \in [Senders -> [Actors -> 0..MaxSeq]]
        BY DEF TypeOK
      <4>2. [seq[a] EXCEPT ![d] = NextNo(a, d)] \in [Actors -> 0..MaxSeq]
        BY ONLY <3>0, <3>6, <4>1
      <4>3. [seq EXCEPT ![a][d] = NextNo(a, d)] \in [Senders -> [Actors -> 0..MaxSeq]]
        BY ONLY <3>0, <4>1, <4>2
      <4> QED
        BY ONLY <3>5, <4>1, <4>3
    <3> QED
      BY <3>4, <3>7
  <2>3. \/ UNCHANGED <<send, seq>>
        \/ \E d \in Actors :
             /\ MaySend(a, d) /\ NoteSent(a, d)
             /\ send' = [send EXCEPT ![a] =
                   Append(@, [src |-> a, dst |-> d, n |-> NextNo(a, d)])]
    BY Zenon DEF ProcMsg
  <2> QED
    BY <2>1, <2>2, <2>3, Zenon
<1>9. \A v \in Workers : FromMain(v)'
  BY <1>1, FromMainKept DEF TypeOK
<1>10. /\ recv \in [Actors -> Seq(Msg)] /\ run' \in [Actors -> Seq(Msg)]
       /\ send' \in [Actors -> Seq(Msg)]
       /\ seq' \in [Senders -> [Actors -> 0..MaxSeq]]
       /\ done' \in [Senders -> [Actors -> 0..MaxSeq]]
  BY <1>4, <1>5, <1>6 DEF TypeOK
<1> HIDE DEF a, m
<1>7. TypeOK'
  BY <1>1, <1>9, <1>10 DEF TypeOK
<1>8. WorkerInv'
  BY <1>1 DEF WorkerInv, Baton, Farewell, Holds, StoredFirst, UniqueHolder,
              IdleOnce, EveryEventHasCommand, HasIdle, HasGoodbye, HasRun, HasQuit,
              InIdleQ
<1> QED
  BY <1>7, <1>8

LEMMA WorkDoneInv ==
    ASSUME CoreInv, NEW w \in Workers, WorkDone(w)
    PROVE  CoreInv'
<1> USE DEF CoreInv, SendToMain, RecvFromOwner, SendToOwner, RecvFromMain,
            Idle, PushBackIdleWorker, Del, WorkDone, mailboxVars, queueVars, mainVars, evVars,
            quitVars, histVars, chanVars
<1>1. TypeOK'
  BY FromMainKept DEF TypeOK
<1>2. \A v \in Workers : Baton(v)' /\ Farewell(v)' /\ Holds(v)'
  BY DEF TypeOK, WorkerInv, Baton, Farewell, Holds, HasIdle, HasGoodbye,
         HasRun, HasQuit, InIdleQ
<1>3. (UniqueHolder /\ IdleOnce /\ StoredFirst /\ EveryEventHasCommand)'
  BY DEF WorkerInv, UniqueHolder, IdleOnce, StoredFirst, EveryEventHasCommand
<1> QED
  BY <1>1, <1>2, <1>3 DEF WorkerInv

LEMMA ExitInv ==
    ASSUME CoreInv, NEW w \in Workers, Exit(w)
    PROVE  CoreInv'
<1> USE DEF CoreInv, SendToMain, RecvFromOwner, SendToOwner, RecvFromMain,
            Idle, PushBackIdleWorker, Del, Exit, mailboxVars, queueVars, mainVars, evVars, quitVars,
            histVars, chanVars
<1>0. toMain[w] \in {<<>>, <<"kIdle">>} /\ w \in registered
      /\ appState # "running"
  BY DEF TypeOK, WorkerInv, Farewell, HasGoodbye, ToMainStates
<1>1. TypeOK'
  BY <1>0, ToMainOps, FromMainKept DEF TypeOK, ToMainStates
<1>2. \A v \in Workers : Baton(v)'
  <2>1. \A v \in Workers : HasIdle(v)' <=> HasIdle(v)
    BY <1>0, ToMainOps DEF TypeOK, HasIdle
  <2>2. \A v \in Workers : wpc'[v] \in {"loop", "work"} => wpc'[v] = wpc[v]
    BY DEF TypeOK
  <2>3. UNCHANGED <<toOwner, idleQ>>
    OBVIOUS
  <2> QED
    BY <2>1, <2>2, <2>3 DEF WorkerInv, Baton, HasRun, InIdleQ
<1>3. \A v \in Workers : Farewell(v)'
  BY <1>0, ToMainOps DEF TypeOK, WorkerInv, Farewell, HasGoodbye, HasQuit
<1>4. \A v \in Workers : Holds(v)'
  BY DEF TypeOK, WorkerInv, Holds, HasRun, InIdleQ
<1>5. (UniqueHolder /\ IdleOnce /\ StoredFirst)'
  BY DEF WorkerInv, UniqueHolder, IdleOnce, StoredFirst
<1>6. EveryEventHasCommand'
  BY <1>0, ToMainOps DEF TypeOK, WorkerInv, EveryEventHasCommand
<1> QED
  BY <1>1, <1>2, <1>3, <1>4, <1>5, <1>6 DEF WorkerInv

-----------------------------------------------------------------------------
(* The main thread.                                                         *)

(* The rotation of the wait queue keeps it a queue of actors.               *)
LEMMA WaitQAfterType ==
    ASSUME waitQ \in Seq(Actors), NEW k \in 1..Len(waitQ)
    PROVE  WaitQAfter(k) \in Seq(Actors)
<1>1. Len(waitQ) \in Nat
  BY LenProperties
<1>2. /\ \A i \in k + 1 .. Len(waitQ) : waitQ[i] \in Actors
      /\ \A i \in 1 .. k - 1 : waitQ[i] \in Actors
  BY <1>1, ElementOfSeq
<1>3. /\ SubSeq(waitQ, k + 1, Len(waitQ)) \in Seq(Actors)
      /\ SubSeq(waitQ, 1, k - 1) \in Seq(Actors)
  BY <1>1, <1>2, SubSeqProperties
<1> QED
  BY <1>3, ConcatProperties DEF WaitQAfter

LEMMA AssignInv ==
    ASSUME CoreInv, NEW k \in 1..Len(waitQ), Assign(k)
    PROVE  CoreInv'
<1> USE DEF CoreInv, SendToMain, RecvFromOwner, SendToOwner, RecvFromMain,
            Idle, PushBackIdleWorker, Del, mailboxVars, queueVars, mainVars, evVars, quitVars,
            histVars, chanVars
<1> DEFINE a == waitQ[k]
           w == Head(idleQ)
<1>1. /\ mpc = "check" /\ cur = None
      /\ inWorker' = [inWorker EXCEPT ![a] = TRUE]
      /\ UNCHANGED <<send, toMain, wpc, mainVars, evVars, quitVars, histVars>>
  BY DEF Assign, TypeOK
<1>2. a \in Actors /\ w \in Workers /\ ~inWorker[a]
  <2>1. a \in Actors
    BY ElementOfSeq DEF TypeOK
  <2>2. w \in Workers
    BY HeadTailProperties DEF Assign, TypeOK
  <2> QED
    BY <2>1, <2>2 DEF Assign, Chosen, CanRun
<1>3. InIdleQ(w)
  <2>1. idleQ \in Seq(Workers) /\ idleQ # <<>>
    BY DEF Assign, TypeOK
  <2>2. 1 \in 1..Len(idleQ) /\ idleQ[1] = w
    BY <2>1, LenProperties, EmptySeq, HeadTailProperties
  <2> QED
    BY <2>2 DEF InIdleQ, In
<1>4. /\ ctx[w] = None /\ ~HasRun(w) /\ ~HasIdle(w)
      /\ wpc[w] \notin {"loop", "work"}
  BY <1>2, <1>3 DEF WorkerInv, Baton, Holds
<1>5. /\ recv' \in [Actors -> Seq(Msg)]
      /\ run' \in [Actors -> Seq(Msg)]
  <2>1. recv[a] \in Seq(Msg) /\ run[a] \in Seq(Msg) /\ RunSize[a] \in Int
    BY <1>2, LimitsAssumption DEF TypeOK
  <2>2. /\ RecvAfterMove(recv[a], RunSize[a]) \in Seq(Msg)
        /\ RunAfterMove(recv[a], run[a], RunSize[a]) \in Seq(Msg)
    BY <2>1, MoveType
  <2> QED
    BY <1>2, <2>2 DEF Assign, TypeOK
<1>6. waitQ' \in Seq(Actors) /\ inWait' \in [Actors -> BOOLEAN]
  <2>1. WaitQAfter(k) \in Seq(Actors)
    BY WaitQAfterType DEF TypeOK
  <2>2. Append(WaitQAfter(k), a) \in Seq(Actors)
    BY <1>2, <2>1, AppendProperties
  <2> QED
    BY <1>2, <2>1, <2>2 DEF Assign, Requeue, TypeOK
<1>7. CASE recv[a] # <<>>
  <2>1. /\ idleQ' = Tail(idleQ)
        /\ ctx' = [ctx EXCEPT ![w] = a]
        /\ toOwner' = [toOwner EXCEPT ![w] = Append(@, "kRun")]
    BY <1>7 DEF Assign
  <2>2. /\ idleQ' \in Seq(Workers)
        /\ Len(idleQ') = Len(idleQ) - 1
        /\ \A i \in 1..Len(idleQ') : idleQ'[i] = idleQ[i + 1]
        /\ Len(idleQ) \in Nat \ {0} /\ idleQ[1] = w
    <3>1. idleQ \in Seq(Workers) /\ idleQ # <<>>
      BY DEF Assign, TypeOK
    <3> QED
      BY <2>1, <3>1, HeadTailProperties, LenProperties, EmptySeq
  <2>3. \A v \in Workers : InIdleQ(v)' => InIdleQ(v) /\ v # w
    BY <2>2 DEF WorkerInv, IdleOnce, InIdleQ, In
  <2>5. /\ toOwner' \in [Workers -> Seq(Cmd)]
        /\ \A v \in Workers : FromMain(v)'
        /\ \A v \in Workers : v # w => toOwner'[v] = toOwner[v]
        /\ \A v \in Workers : v # w => (HasRun(v)' <=> HasRun(v))
        /\ \A v \in Workers : HasQuit(v)' <=> HasQuit(v)
    BY <1>1, <1>2, <1>4, <2>1, FromMainRun
  <2>6. TypeOK'
    BY <1>1, <1>2, <1>5, <1>6, <2>1, <2>2, <2>5 DEF TypeOK
  <2>7. \A v \in Workers : Baton(v)'
    BY <1>1, <1>4, <2>3, <2>5 DEF WorkerInv, Baton, HasIdle
  <2>8. \A v \in Workers : HasQuit(v)' => HasQuit(v)
    BY <2>5
  <2>9. \A v \in Workers : Farewell(v)'
    BY <1>1, <2>8 DEF WorkerInv, Farewell, HasGoodbye
  <2>10. ASSUME NEW v \in Workers PROVE Holds(v)'
    <3>1. inWorker'[a] /\ \A b \in Actors : inWorker[b] => inWorker'[b]
      BY <1>1, <1>2 DEF TypeOK
    <3>2. CASE v = w
      <4>1. ctx'[v] = a /\ a # None /\ ~InIdleQ(v)'
        BY <1>2, <2>1, <2>3, <3>2, NamesAssumption DEF TypeOK
      <4> QED
        BY <3>1, <4>1 DEF Holds
    <3>3. CASE v # w
      <4>1. ctx'[v] = ctx[v] /\ ctx[v] \in Actors \cup {None}
            /\ (InIdleQ(v)' => InIdleQ(v)) /\ (HasRun(v)' <=> HasRun(v))
        BY <2>1, <2>3, <2>5, <3>3 DEF TypeOK
      <4> QED
        BY <1>1, <3>1, <4>1 DEF WorkerInv, Holds
    <3> QED
      BY <3>2, <3>3
  <2>11. \A v \in registered : ctx[v] # a
    BY <1>1, <1>2, NamesAssumption DEF TypeOK, WorkerInv, Holds
  <2>12. UniqueHolder'
    BY <1>1, <1>2, <2>1, <2>11 DEF TypeOK, WorkerInv, UniqueHolder
  <2>13. IdleOnce'
    <3>1. ASSUME NEW i \in 1..Len(idleQ'), NEW j \in 1..Len(idleQ'),
                 idleQ'[i] = idleQ'[j]
          PROVE  i = j
      <4>1. i + 1 \in 1..Len(idleQ) /\ j + 1 \in 1..Len(idleQ)
        BY <2>2
      <4>2. idleQ[i + 1] = idleQ[j + 1]
        BY <2>2, <3>1
      <4>3. i + 1 = j + 1
        BY <4>1, <4>2 DEF WorkerInv, IdleOnce
      <4> QED
        BY <4>3
    <3> QED
      BY <3>1 DEF IdleOnce
  <2>14. EveryEventHasCommand'
    BY <1>1 DEF WorkerInv, EveryEventHasCommand
  <2>15. StoredFirst'
    BY <1>1 DEF WorkerInv, StoredFirst
  <2> QED
    BY <2>15, <1>1, <2>6, <2>7, <2>9, <2>10, <2>12, <2>13, <2>14 DEF WorkerInv
<1>8. CASE recv[a] = <<>>
  <2>1. UNCHANGED <<idleQ, ctx, toOwner>>
    BY <1>8 DEF Assign
  <2>2. TypeOK'
    BY <1>1, <1>2, <1>5, <1>6, <2>1, FromMainKept DEF TypeOK
  <2>3. ASSUME NEW v \in Workers PROVE Baton(v)' /\ Farewell(v)' /\ Holds(v)'
    <3>1. Baton(v) /\ Farewell(v) /\ Holds(v)
      BY DEF WorkerInv
    <3>2. Baton(v)'
      BY <1>1, <2>1, <3>1 DEF Baton, HasIdle, HasRun, InIdleQ
    <3>3. Farewell(v)'
      BY <1>1, <2>1, <3>1 DEF Farewell, HasGoodbye, HasQuit
    <3>4. \A b \in Actors : inWorker[b] => inWorker'[b]
      BY <1>1, <1>2 DEF TypeOK
    <3>5. ctx[v] \in Actors \cup {None}
      BY DEF TypeOK
    <3> QED
      BY <1>1, <2>1, <3>1, <3>2, <3>3, <3>4, <3>5 DEF Holds, HasRun, InIdleQ
  <2>4. (UniqueHolder /\ IdleOnce /\ StoredFirst /\ EveryEventHasCommand)'
    BY <1>1, <2>1 DEF WorkerInv, UniqueHolder, IdleOnce, StoredFirst, EveryEventHasCommand
  <2> QED
    BY <1>1, <2>2, <2>3, <2>4 DEF WorkerInv
<1> QED
  BY <1>7, <1>8

(* Actions that leave the workers, their channels and the actors' flags     *)
(* alone keep everything but the types for free.                            *)
LEMMA QuietInv ==
    ASSUME WorkerInv, TypeOK',
           UNCHANGED <<inWorker, idleQ, ctx, chanVars, wpc, batch, cur,
                       evVars, quitVars>>,
           mpc' \in {"join", "done"} => registered = {}
    PROVE  WorkerInv'
<1> USE DEF chanVars, evVars, quitVars
<1>1. \A v \in Workers : Baton(v)' /\ Farewell(v)' /\ Holds(v)'
  BY DEF WorkerInv, Baton, Farewell, Holds, HasIdle, HasGoodbye, HasRun,
         HasQuit, InIdleQ
<1>2. (UniqueHolder /\ IdleOnce /\ StoredFirst /\ EveryEventHasCommand)'
  BY DEF WorkerInv, UniqueHolder, IdleOnce, StoredFirst, EveryEventHasCommand
<1> QED
  BY <1>1, <1>2 DEF WorkerInv

LEMMA CheckDoneInv ==
    ASSUME CoreInv, CheckDone
    PROVE  CoreInv'
<1> USE DEF CoreInv, SendToMain, RecvFromOwner, SendToOwner, RecvFromMain,
            Idle, PushBackIdleWorker, Del, CheckDone, mailboxVars, queueVars, mainVars, evVars,
            quitVars, histVars, chanVars
<1>1. TypeOK'
  BY FromMainKept DEF TypeOK
<1> QED
  BY <1>1, QuietInv

LEMMA ProcessDoneInv ==
    ASSUME CoreInv, ProcessDone
    PROVE  CoreInv'
<1> USE DEF CoreInv, SendToMain, RecvFromOwner, SendToOwner, RecvFromMain,
            Idle, PushBackIdleWorker, Del, ProcessDone, mailboxVars, queueVars, mainVars, evVars,
            quitVars, histVars, chanVars
<1>1. TypeOK'
  BY FromMainKept DEF TypeOK
<1> QED
  BY <1>1, QuietInv

LEMMA WaitInv ==
    ASSUME CoreInv, Wait
    PROVE  CoreInv'
<1> USE DEF CoreInv, SendToMain, RecvFromOwner, SendToOwner, RecvFromMain,
            Idle, PushBackIdleWorker, Del, Wait, mailboxVars, queueVars, mainVars, evVars, quitVars,
            histVars, chanVars
<1>1. \A w \in Workers : EventsOf(w) \in Nat /\ EventsOf(w) <= Len(toMain[w])
  BY ToMainOps DEF TypeOK, ToMainStates, EventsOf, Min2
<1>2. TypeOK'
  BY <1>1, FromMainKept DEF TypeOK
<1>3. EveryEventHasCommand'
  <2>1. cur' = None /\ \A w \in Workers : batch'[w] = EventsOf(w)
    BY DEF TypeOK
  <2>2. \A w \in Workers : cur' # w /\ Len(toMain[w]) \in Nat
    BY <2>1, NamesAssumption, ToMainOps DEF TypeOK, ToMainStates
  <2> QED
    BY <1>1, <2>1, <2>2 DEF EveryEventHasCommand
<1>4. \A v \in Workers : Baton(v)' /\ Farewell(v)' /\ Holds(v)'
  BY DEF WorkerInv, Baton, Farewell, Holds, HasIdle, HasGoodbye, HasRun,
         HasQuit, InIdleQ
<1>5. (UniqueHolder /\ IdleOnce /\ StoredFirst)'
  BY DEF WorkerInv, UniqueHolder, IdleOnce, StoredFirst
<1> QED
  BY <1>2, <1>3, <1>4, <1>5 DEF WorkerInv

LEMMA DeliverType ==
    ASSUME TypeOK, NEW m \in Msg, Deliver(m)
    PROVE  /\ recv' \in [Actors -> Seq(Msg)]
           /\ waitQ' \in Seq(Actors)
           /\ inWait' \in [Actors -> BOOLEAN]
<1> DEFINE a == m.dst
<1>1. a \in Actors
  BY DEF Msg
<1>2. recv[a] \in Seq(Msg) /\ Pending[a] \in Int
  BY <1>1, LimitsAssumption DEF TypeOK
<1>3. Recv(recv[a], m, Pending[a]) \in Seq(Msg)
  BY <1>2, RecvType
<1>4. Append(waitQ, a) \in Seq(Actors)
  BY <1>1, AppendProperties DEF TypeOK
<1> QED
  BY <1>1, <1>3, <1>4 DEF Deliver, TypeOK

LEMMA ProcessOtherInv ==
    ASSUME CoreInv, ProcessOther
    PROVE  CoreInv'
<1> USE DEF CoreInv, SendToMain, RecvFromOwner, SendToOwner, RecvFromMain,
            Idle, PushBackIdleWorker, Del, mailboxVars, queueVars, mainVars, evVars, quitVars,
            histVars, chanVars
<1>1. UNCHANGED <<run, send, inWorker, idleQ, ctx, chanVars, wpc, mpc, batch,
                  cur, evVars, quitVars, done>> /\ extReady' = FALSE
      /\ mpc = "process"
  BY DEF ProcessOther
<1>2. /\ recv' \in [Actors -> Seq(Msg)]
      /\ waitQ' \in Seq(Actors)
      /\ inWait' \in [Actors -> BOOLEAN]
      /\ seq' \in [Senders -> [Actors -> 0..MaxSeq]]
  <2>1. CASE UNCHANGED <<recv, inWait, waitQ, seq>>
    BY <2>1 DEF TypeOK
  <2>2. ASSUME NEW d \in Actors, MaySend(ext, d), NoteSent(ext, d),
               Deliver([src |-> ext, dst |-> d, n |-> NextNo(ext, d)])
        PROVE  <1>2
    <3>1. ext \in Senders /\ seq[ext][d] \in 0..MaxSeq
      BY DEF TypeOK, Senders
    <3>2. NextNo(ext, d) \in 1..MaxSeq
      BY <2>2, <3>1, LimitsAssumption DEF MaySend, NextNo
    <3>3. [src |-> ext, dst |-> d, n |-> NextNo(ext, d)] \in Msg
      BY <3>1, <3>2 DEF Msg
    <3>4. seq' \in [Senders -> [Actors -> 0..MaxSeq]]
      BY <2>2, <3>1, <3>2 DEF NoteSent, TypeOK
    <3> QED
      BY <2>2, <3>3, <3>4, DeliverType
  <2> QED
    BY <2>1, <2>2 DEF ProcessOther
<1>3. TypeOK'
  BY <1>1, <1>2, FromMainKept DEF TypeOK
<1> QED
  BY <1>1, <1>3, QuietInv

LEMMA DispatchOneInv ==
    ASSUME CoreInv, DispatchOne
    PROVE  CoreInv'
<1> USE DEF CoreInv, SendToMain, RecvFromOwner, SendToOwner, RecvFromMain,
            Idle, PushBackIdleWorker, Del, mailboxVars, queueVars, mainVars, evVars, quitVars,
            histVars, chanVars
<1> DEFINE a == ctx[cur]
<1>1. /\ UNCHANGED <<run, inWorker, idleQ, ctx, chanVars, wpc, mainVars,
                     evVars, quitVars, histVars>>
      /\ mpc = "dispatch" /\ cur # None
  BY DEF DispatchOne, TypeOK
<1>2. a \in Actors /\ send[a] \in Seq(Msg) /\ send[a] # <<>>
  BY <1>1 DEF DispatchOne, TypeOK
<1>3. Head(send[a]) \in Msg /\ Tail(send[a]) \in Seq(Msg)
  BY <1>2, HeadTailProperties
<1>4. send' \in [Actors -> Seq(Msg)]
  BY <1>2, <1>3 DEF DispatchOne, TypeOK
<1>5. /\ recv' \in [Actors -> Seq(Msg)]
      /\ waitQ' \in Seq(Actors)
      /\ inWait' \in [Actors -> BOOLEAN]
  BY <1>3, DeliverType DEF DispatchOne
<1>6. TypeOK'
  BY <1>1, <1>4, <1>5, FromMainKept DEF TypeOK
<1> QED
  BY <1>1, <1>6, QuietInv

LEMMA BeginEventInv ==
    ASSUME CoreInv, NEW w \in Workers, BeginEvent(w)
    PROVE  CoreInv'
<1> USE DEF CoreInv, SendToMain, RecvFromOwner, SendToOwner, RecvFromMain,
            Idle, PushBackIdleWorker, Del, mailboxVars, queueVars, mainVars, evVars, quitVars,
            histVars, chanVars
<1>1. /\ UNCHANGED <<mailboxVars, inWait, waitQ, idleQ, ctx, chanVars, wpc,
                     extReady, evVars, quitVars, histVars>>
      /\ mpc = "process" /\ cur = None /\ mpc' = "dispatch" /\ cur' = w
      /\ batch' = [batch EXCEPT ![w] = @ - 1] /\ batch[w] > 0
  BY DEF BeginEvent, TypeOK
<1>2. inWorker' = IF ctx[w] = None THEN inWorker
                  ELSE [inWorker EXCEPT ![ctx[w]] = FALSE]
  BY DEF BeginEvent
<1>0. \A v \in Workers : Len(toMain[v]) \in Nat /\ batch[v] \in Nat
                        /\ batch[v] <= Len(toMain[v])
  <2>1. \A v \in Workers : Len(toMain[v]) \in Nat
    BY ToMainOps DEF TypeOK, ToMainStates
  <2>2. \A v \in Workers : cur # v /\ batch[v] \in Nat
    BY <1>1, NamesAssumption DEF TypeOK
  <2>3. \A v \in Workers : batch[v] + 0 <= Len(toMain[v])
    BY <2>2 DEF WorkerInv, EveryEventHasCommand
  <2> QED
    BY <2>1, <2>2, <2>3
<1>3. TypeOK'
  BY <1>1, <1>2, NamesAssumption, FromMainKept DEF TypeOK
<1>4. w \in registered
  <2>1. Len(toMain[w]) > 0
    BY <1>0, <1>1
  <2> QED
    BY <2>1, ToMainOps DEF WorkerInv, Farewell
<1>5. \A v \in Workers : Baton(v)' /\ Farewell(v)'
  BY <1>1 DEF WorkerInv, Baton, Farewell, HasIdle, HasGoodbye, HasRun, HasQuit,
              InIdleQ
<1>6. \A v \in registered : v # w /\ ctx[v] # None => ctx[v] # ctx[w]
  BY <1>4 DEF WorkerInv, UniqueHolder
<1>7. \A v \in Workers : Holds(v)'
  BY <1>1, <1>2, <1>6, NamesAssumption
  DEF TypeOK, WorkerInv, Holds, HasRun, InIdleQ
<1>8. (UniqueHolder /\ IdleOnce /\ StoredFirst)'
  BY <1>1 DEF WorkerInv, UniqueHolder, IdleOnce, StoredFirst
<1>9. EveryEventHasCommand'
  BY <1>0, <1>1 DEF TypeOK, EveryEventHasCommand
<1> QED
  BY <1>1, <1>3, <1>5, <1>7, <1>8, <1>9 DEF WorkerInv

LEMMA FinishEventInv ==
    ASSUME CoreInv, FinishEvent
    PROVE  CoreInv'
<1> USE DEF CoreInv, SendToMain, RecvFromOwner, SendToOwner, RecvFromMain,
            Idle, PushBackIdleWorker, Del, mailboxVars, queueVars, mainVars, evVars, quitVars,
            histVars, chanVars
<1>1. /\ UNCHANGED <<mailboxVars, inWorker, inWait, waitQ, toOwner, wpc,
                     batch, extReady, quitVars, histVars>>
      /\ mpc = "dispatch" /\ cur' = None /\ mpc' = "process"
      /\ toMain' = [toMain EXCEPT ![cur] = Tail(@)]
  BY DEF FinishEvent
<1>2. cur \in Workers /\ cur # None
  BY <1>1 DEF TypeOK
<1>3. toMain[cur] \in {<<"kIdle">>, <<"kQuit">>, <<"kIdle", "kQuit">>}
  BY <1>2 DEF FinishEvent, TypeOK, ToMainStates
<1>4. cur \in registered
  BY <1>2, <1>3, ToMainOps DEF WorkerInv, Farewell
<1>5. /\ toMain'[cur] \in {<<>>, <<"kQuit">>}
      /\ toMain'[cur] = <<"kQuit">> => HasGoodbye(cur)
      /\ Len(toMain'[cur]) = Len(toMain[cur]) - 1
      /\ \A v \in Workers : v # cur => toMain'[v] = toMain[v]
      /\ toMain' \in [Workers -> ToMainStates]
  <2>1. toMain'[cur] = Tail(toMain[cur])
    BY <1>1, <1>2 DEF TypeOK
  <2>2. \/ toMain[cur] \in {<<"kIdle">>, <<"kQuit">>} /\ toMain'[cur] = <<>>
        \/ toMain[cur] = <<"kIdle", "kQuit">> /\ toMain'[cur] = <<"kQuit">>
    BY <1>3, <2>1, ToMainOps
  <2>3. toMain' \in [Workers -> ToMainStates]
    <3>1. Tail(toMain[cur]) \in ToMainStates
      BY <2>1, <2>2 DEF ToMainStates
    <3> QED
      BY <1>1, <1>2, <3>1 DEF TypeOK
  <2>4. Len(toMain'[cur]) = Len(toMain[cur]) - 1
    <3>1. CASE toMain[cur] = <<"kIdle">> /\ toMain'[cur] = <<>>
      BY <3>1, ToMainOps
    <3>2. CASE toMain[cur] = <<"kQuit">> /\ toMain'[cur] = <<>>
      BY <3>2, ToMainOps
    <3>3. CASE toMain[cur] = <<"kIdle", "kQuit">> /\ toMain'[cur] = <<"kQuit">>
      BY <3>3, ToMainOps
    <3> QED
      BY <2>2, <3>1, <3>2, <3>3
  <2> QED
    BY <1>1, <1>2, <2>2, <2>3, <2>4, ToMainOps DEF TypeOK, HasGoodbye
<1>6. EveryEventHasCommand'
  <2>1. \A v \in Workers : cur' # v
    BY <1>1, NamesAssumption
  <2>2. \A v \in Workers : Len(toMain[v]) \in Nat
    BY ToMainOps DEF TypeOK, ToMainStates
  <2>3. batch[cur] + 1 <= Len(toMain[cur])
    BY <1>2 DEF WorkerInv, EveryEventHasCommand
  <2>4. \A v \in Workers : v # cur => batch[v] <= Len(toMain[v])
    BY <2>2 DEF TypeOK, WorkerInv, EveryEventHasCommand
  <2> QED
    BY <1>1, <1>2, <1>5, <2>1, <2>2, <2>3, <2>4
    DEF TypeOK, EveryEventHasCommand
<1>7. \A v \in Workers : /\ HasIdle(v)' => HasIdle(v) /\ v # cur
                         /\ HasGoodbye(v)' => HasGoodbye(v)
  BY <1>2, <1>5, ToMainOps DEF HasIdle, HasGoodbye
<1>8. CASE Head(toMain[cur]) = "kIdle"
  <2>1. /\ ctx' = [ctx EXCEPT ![cur] = None]
        /\ idleQ' = Append(idleQ, cur)
        /\ UNCHANGED evVars
    BY <1>8 DEF FinishEvent
  <2>2. HasIdle(cur)
    BY <1>3, <1>8, ToMainOps DEF HasIdle
  <2>3. ~InIdleQ(cur) /\ ~HasRun(cur) /\ wpc[cur] \notin {"loop", "work"}
    BY <1>2, <2>2 DEF WorkerInv, Baton
  <2>4. /\ idleQ' \in Seq(Workers)
        /\ Len(idleQ) \in Nat /\ Len(idleQ') = Len(idleQ) + 1
        /\ idleQ'[Len(idleQ) + 1] = cur
        /\ \A i \in 1..Len(idleQ) : idleQ'[i] = idleQ[i]
    BY <1>2, <2>1, AppendProperties, LenProperties DEF TypeOK
  <2>5. \A v \in Workers : InIdleQ(v)' => InIdleQ(v) \/ v = cur
    BY <2>4 DEF InIdleQ, In
  <2>6. IdleOnce'
    BY <2>3, <2>4 DEF WorkerInv, IdleOnce, InIdleQ, In
  <2>7. TypeOK'
    BY <1>1, <1>2, <1>5, <2>1, <2>4, FromMainKept DEF TypeOK
  <2>8. \A v \in Workers : Baton(v)'
    BY <1>1, <1>7, <2>3, <2>5 DEF WorkerInv, Baton, HasRun
  <2>9. \A v \in Workers : Farewell(v)'
    BY <1>1, <1>4, <1>5, <1>7, <2>1 DEF TypeOK, WorkerInv, Farewell, HasQuit
  <2>10. \A v \in Workers : Holds(v)'
    BY <1>1, <1>2, <2>1, <2>3, <2>5 DEF TypeOK, WorkerInv, Holds, HasRun
  <2>11. UniqueHolder'
    BY <1>2, <2>1 DEF TypeOK, WorkerInv, UniqueHolder
  <2>12. StoredFirst'
    BY <1>1 DEF WorkerInv, StoredFirst
  <2> QED
    BY <1>1, <1>6, <2>6, <2>7, <2>8, <2>9, <2>10, <2>11, <2>12 DEF WorkerInv
<1>9. CASE Head(toMain[cur]) = "kQuit"
  <2>1. /\ registered' = registered \ {cur}
        /\ stopped' = stopped \cup {cur}
        /\ UNCHANGED <<ctx, idleQ>>
    BY <1>9 DEF FinishEvent
  <2>2. toMain[cur] = <<"kQuit">> /\ toMain'[cur] = <<>>
    BY <1>1, <1>2, <1>3, <1>9, ToMainOps DEF TypeOK
  <2>3. wpc[cur] = "ended"
    BY <1>2, <2>2 DEF WorkerInv, Farewell, HasGoodbye
  <2>4. TypeOK'
    BY <1>1, <1>2, <1>5, <2>1, FromMainKept DEF TypeOK
  <2>5. \A v \in Workers : Baton(v)'
    BY <1>1, <1>7, <2>1 DEF WorkerInv, Baton, HasRun, InIdleQ
  <2>6. \A v \in Workers : Farewell(v)'
    BY <1>1, <1>5, <1>7, <2>1, <2>2, <2>3
    DEF TypeOK, WorkerInv, Farewell, HasQuit
  <2>7. \A v \in Workers : Holds(v)'
    BY <1>1, <1>2, <2>1, NamesAssumption
    DEF TypeOK, WorkerInv, Holds, HasRun, InIdleQ
  <2>8. (UniqueHolder /\ IdleOnce /\ StoredFirst)'
    BY <1>1, <2>1 DEF WorkerInv, UniqueHolder, IdleOnce, StoredFirst
  <2> QED
    BY <1>1, <1>6, <2>4, <2>5, <2>6, <2>7, <2>8 DEF WorkerInv
<1> QED
  BY <1>8, <1>9 DEF FinishEvent

LEMMA JoinAllInv ==
    ASSUME CoreInv, JoinAll
    PROVE  CoreInv'
<1> USE DEF CoreInv, SendToMain, RecvFromOwner, SendToOwner, RecvFromMain,
            Idle, PushBackIdleWorker, Del, chanVars, histVars
<1>1. /\ UNCHANGED <<idleQ, ctx, chanVars, wpc, batch, extReady, cur,
                     registered, qpc, toStop, histVars>>
      /\ registered = {} /\ mpc' = "done" /\ appState' = "quit"
      /\ mpc = "join" /\ stopped' = {}
      /\ inWorker' = [a \in Actors |-> FALSE]
      /\ inWait' = [a \in Actors |-> FALSE]
  BY DEF JoinAll, WorkerInv
<1>2. /\ {recv', run', send'} \subseteq [Actors -> Seq(Msg)]
      /\ waitQ' \in Seq(Actors)
  BY EmptySeq DEF JoinAll
<1>3. TypeOK'
  BY <1>1, <1>2, FromMainKept DEF TypeOK
<1>4. \A v \in Workers : Baton(v)' /\ Farewell(v)' /\ Holds(v)'
  BY <1>1 DEF WorkerInv, Baton, Farewell, Holds, HasIdle, HasGoodbye, HasRun,
              HasQuit, InIdleQ
<1>5. (UniqueHolder /\ IdleOnce /\ StoredFirst /\ EveryEventHasCommand)'
  BY <1>1 DEF WorkerInv, UniqueHolder, IdleOnce, StoredFirst, EveryEventHasCommand
<1> QED
  BY <1>1, <1>3, <1>4, <1>5 DEF WorkerInv

-----------------------------------------------------------------------------
(* Quit.                                                                    *)

(* What a caller of Quit does before it writes to a channel.                *)
LEMMA QuitBeginsInv ==
    ASSUME CoreInv, NEW c \in Quitters,
           QuitCheck(c) \/ QuitStore(c) \/ StopAllWorker(c)
    PROVE  CoreInv'
<1> USE DEF CoreInv
<1>1. UNCHANGED <<mailboxVars, queueVars, ctx, chanVars, wpc, mainVars, evVars,
                  histVars>>
  BY DEF QuitCheck, QuitStore, StopAllWorker
<1>2. /\ qpc \in [Quitters -> {"idle", "store", "list", "stop", "back"}]
      /\ toStop \in [Quitters -> SUBSET Workers]
      /\ registered \subseteq Workers /\ appState \in {"running", "quitting", "quit"}
  BY DEF TypeOK
<1>3. /\ qpc' \in [Quitters -> {"idle", "store", "list", "stop", "back"}]
      /\ toStop' \in [Quitters -> SUBSET Workers]
      /\ appState' \in {appState, "quitting"}
      /\ \A w \in Workers : Told(w) \subseteq Told(w)'
      /\ StoredFirst'
  <2>1. CASE QuitCheck(c)
    <3>1. /\ qpc[c] = "idle" /\ UNCHANGED <<appState, toStop>>
          /\ \E x \in {"store", "back"} : qpc' = [qpc EXCEPT ![c] = x]
      BY <2>1 DEF QuitCheck
    <3> QED
      BY <1>2, <3>1 DEF Told, WorkerInv, StoredFirst
  <2>2. CASE QuitStore(c)
    <3>1. /\ qpc[c] = "store" /\ UNCHANGED toStop /\ appState' = "quitting"
          /\ qpc' = [qpc EXCEPT ![c] = "list"]
      BY <2>2 DEF QuitStore
    <3> QED
      BY <1>2, <3>1 DEF Told, WorkerInv, StoredFirst
  <2>3. CASE StopAllWorker(c)
    <3>1. /\ qpc[c] = "list" /\ UNCHANGED appState
          /\ qpc' = [qpc EXCEPT ![c] = "stop"]
          /\ toStop' = [toStop EXCEPT ![c] = registered]
      BY <2>3 DEF StopAllWorker
    <3> QED
      BY <1>2, <3>1 DEF Told, WorkerInv, StoredFirst
  <2> QED
    BY <2>1, <2>2, <2>3
<1>4. \A w \in Workers : FromMain(w)'
  BY <1>1, <1>3, FromMainMore DEF TypeOK, chanVars
<1>5. TypeOK'
  BY <1>1, <1>3, <1>4 DEF TypeOK, mailboxVars, queueVars, chanVars, mainVars,
                          evVars, histVars
<1>6. \A v \in Workers : Baton(v)' /\ Farewell(v)' /\ Holds(v)'
  BY <1>1, <1>3 DEF WorkerInv, Baton, Farewell, Holds, HasIdle, HasGoodbye,
                    HasRun, HasQuit, InIdleQ, queueVars, chanVars, mainVars,
                    evVars
<1>7. (UniqueHolder /\ IdleOnce /\ EveryEventHasCommand)'
  BY <1>1 DEF WorkerInv, UniqueHolder, IdleOnce, EveryEventHasCommand,
              queueVars, chanVars, mainVars, evVars
<1> QED
  BY <1>1, <1>3, <1>5, <1>6, <1>7 DEF WorkerInv, mainVars, evVars

LEMMA SendQuitInv ==
    ASSUME CoreInv, NEW c \in Quitters, NEW w \in Workers, SendQuit(c, w)
    PROVE  CoreInv'
<1> USE DEF CoreInv, mailboxVars, queueVars, mainVars, evVars, histVars
<1>1. /\ UNCHANGED <<mailboxVars, queueVars, ctx, toMain, wpc, mainVars,
                     evVars, appState, qpc, histVars>>
      /\ toStop' = [toStop EXCEPT ![c] = toStop[c] \ {w}] /\ w \in toStop[c]
  BY DEF SendQuit
<1>2. /\ toOwner' \in [Workers -> Seq(Cmd)]
      /\ \A v \in Workers : FromMain(v)'
      /\ \A v \in Workers : HasRun(v)' <=> HasRun(v)
      /\ \A v \in Workers : v # w => (HasQuit(v)' <=> HasQuit(v))
  BY FromMainQuit DEF WorkerInv
<1>3. toStop' \in [Quitters -> SUBSET Workers]
  BY <1>1 DEF TypeOK
<1>4. TypeOK'
  BY <1>1, <1>2, <1>3 DEF TypeOK
<1>5. \A v \in Workers : Baton(v)' /\ Holds(v)'
  BY <1>1, <1>2 DEF WorkerInv, Baton, Holds, HasIdle, InIdleQ
<1>6. appState # "running"
  BY <1>1 DEF WorkerInv, StoredFirst
<1>7. \A v \in Workers : Farewell(v)'
  BY <1>1, <1>2, <1>6 DEF WorkerInv, Farewell, HasGoodbye
<1>8. (UniqueHolder /\ IdleOnce /\ EveryEventHasCommand)'
  BY <1>1 DEF WorkerInv, UniqueHolder, IdleOnce, EveryEventHasCommand
<1>9. StoredFirst'
  BY <1>1 DEF TypeOK, WorkerInv, StoredFirst
<1> QED
  BY <1>1, <1>4, <1>5, <1>7, <1>8, <1>9 DEF WorkerInv

-----------------------------------------------------------------------------
LEMMA NextInv == CoreInv /\ [Next]_vars => CoreInv'
<1> SUFFICES ASSUME CoreInv, [Next]_vars PROVE CoreInv'
  OBVIOUS
<1>1. CASE SteadyNext
  <2>1. CASE Main
    BY <2>1, AssignInv, CheckDoneInv, WaitInv, ProcessOtherInv, BeginEventInv,
       DispatchOneInv, FinishEventInv, ProcessDoneInv, JoinAllInv
    DEF Main, AssignActor
  <2>2. ASSUME NEW w \in Workers, Worker(w) PROVE CoreInv'
    BY <2>2, SendIdleInv, RecvCmdInv, ProcMsgInv, WorkDoneInv, ExitInv
    DEF Worker
  <2> QED
    BY <1>1, <2>1, <2>2 DEF SteadyNext
<1>2. CASE Quit
  BY <1>2, QuitBeginsInv, SendQuitInv DEF Quit, QuitGoesOn
<1>3. CASE UNCHANGED vars
  <2> USE <1>3 DEF vars
  <2>1. \A v \in Workers : FromMain(v)'
    BY FromMainKept DEF CoreInv, TypeOK
  <2>2. TypeOK'
    BY <2>1 DEF CoreInv, TypeOK
  <2> QED
    BY <2>2, QuietInv DEF CoreInv, WorkerInv, chanVars, evVars, quitVars
<1> QED
  BY <1>1, <1>2, <1>3 DEF Next, Terminated

(* The inductive invariant holds: the right to run is in one place, and a   *)
(* worker keeps its actor until the main thread has read its command.       *)
THEOREM CoreInvHolds == Spec => []CoreInv
  BY InitInv, NextInv, PTL DEF Spec

(* Every variable stays in its type, for any number of actors, workers and  *)
(* callers of Quit: on its way to a worker there is at most one kRun and    *)
(* one kQuit from each caller that is past it, back at most a kIdle and the *)
(* farewell.                                                                *)
THEOREM TypeCorrect == Spec => []TypeOK
<1>1. CoreInv => TypeOK
  BY DEF CoreInv
<1> QED
  BY <1>1, CoreInvHolds, PTL

(* A worker that executes an actor is registered and is not the one whose   *)
(* event the main thread is processing.                                     *)
LEMMA ExecutingWorker ==
    ASSUME CoreInv, NEW w \in Workers, wpc[w] = "work"
    PROVE  w \in registered /\ cur # w /\ ctx[w] \in Actors
<1>1. w \in registered /\ ctx[w] # None /\ ~HasIdle(w) /\ ~HasGoodbye(w)
  BY DEF CoreInv, WorkerInv, Baton, Farewell, Holds
<1>2. toMain[w] = <<>>
  BY <1>1 DEF CoreInv, TypeOK, ToMainStates, HasIdle, HasGoodbye
<1>3. batch[w] \in Nat /\ batch[w] + (IF cur = w THEN 1 ELSE 0) <= 0
  BY <1>2, ToMainOps DEF CoreInv, TypeOK, WorkerInv, EveryEventHasCommand
<1>4. cur # w
  BY <1>3
<1> QED
  BY <1>1, <1>4 DEF CoreInv, TypeOK

(* The concurrency contract of the framework: an actor is executed by at    *)
(* most one worker at a time, also while the application quits.             *)
THEOREM ActorsAreSerial == Spec => []SerialActor
<1>1. CoreInv => SerialActor
  <2> SUFFICES ASSUME CoreInv, NEW a \in Actors, NEW v \in Workers,
                      NEW w \in Workers, Executing(v, a), Executing(w, a)
               PROVE  v = w
    BY DEF SerialActor
  <2>1. v \in registered /\ w \in registered /\ a # None
    BY ExecutingWorker, NamesAssumption DEF Executing
  <2> QED
    BY <2>1 DEF CoreInv, WorkerInv, UniqueHolder, Executing
<1> QED
  BY <1>1, CoreInvHolds, PTL

(* The main thread never touches the mailbox of an actor that a worker      *)
(* executes, which is why mailboxes need no lock.                           *)
THEOREM MailboxesAreExclusive == Spec => []MailboxExclusive
<1>1. CoreInv => MailboxExclusive
  <2> SUFFICES ASSUME CoreInv, NEW a \in Actors, NEW w \in Workers,
                      Executing(w, a)
               PROVE  inWorker[a] /\ (cur # None => ctx[cur] # a)
    BY DEF MailboxExclusive
  <2>1. w \in registered /\ cur # w /\ a # None /\ ctx[w] = a
    BY ExecutingWorker, NamesAssumption DEF Executing
  <2>2. inWorker[a]
    BY <2>1 DEF CoreInv, WorkerInv, Holds
  <2>3. ASSUME cur # None PROVE ctx[cur] # a
    <3>1. cur \in Workers /\ Len(toMain[cur]) > 0
      BY <2>3, ToMainOps
      DEF CoreInv, TypeOK, WorkerInv, EveryEventHasCommand, ToMainStates
    <3>2. cur \in registered
      BY <3>1, ToMainOps DEF CoreInv, WorkerInv, Farewell
    <3> QED
      BY <2>1, <3>2 DEF CoreInv, WorkerInv, UniqueHolder
  <2> QED
    BY <2>2, <2>3
<1> QED
  BY <1>1, CoreInvHolds, PTL

(* The main thread never reads a command from an empty channel, which would *)
(* be undefined behaviour with PollerGeneric and a hang with epoll.         *)
THEOREM NoReadFromEmptyChannel == Spec => []EveryEventHasCommand
<1>1. CoreInv => EveryEventHasCommand
  BY DEF CoreInv, WorkerInv
<1> QED
  BY <1>1, CoreInvHolds, PTL

-----------------------------------------------------------------------------
(* The wait queue is exact, and a batch stays within its limit.             *)

(* r is f with the k-th element taken out and those before it at the back.  *)
Rotated(f, r, k) ==
    /\ Len(f) \in Nat /\ k \in 1..Len(f) /\ Len(r) = Len(f) - 1
    /\ \A i \in 1 .. Len(f) - 1 :
         r[i] = IF i <= Len(f) - k THEN f[k + i] ELSE f[i - (Len(f) - k)]

LEMMA Rotation ==
    ASSUME NEW f, NEW r, NEW k, Rotated(f, r, k), Once(f)
    PROVE  /\ Once(r)
           /\ \A b : In(r, b) <=> In(f, b) /\ b # f[k]
<1> DEFINE n == Len(f)
           l == Len(r)
<1>1. /\ n \in Nat /\ k \in 1..n /\ l = n - 1
      /\ \A i \in 1 .. n - 1 :
           r[i] = IF i <= n - k THEN f[k + i] ELSE f[i - (n - k)]
      /\ \A i, j \in 1..n : f[i] = f[j] => i = j
  BY DEF Rotated, Once
<1>2. /\ Once(r) <=> \A i, j \in 1..l : r[i] = r[j] => i = j
      /\ \A b : In(r, b) <=> \E i \in 1..l : r[i] = b
      /\ \A b : In(f, b) <=> \E i \in 1..n : f[i] = b
  BY DEF Once, In
<1> HIDE DEF n, l
<1>3. \A i, j \in 1..l : r[i] = r[j] => i = j
  BY ONLY <1>1
<1>4. ASSUME NEW i \in 1..l
      PROVE  (\E x \in 1..n : f[x] = r[i]) /\ r[i] # f[k]
  BY ONLY <1>1, <1>4
<1>5. ASSUME NEW i \in 1..n, f[i] # f[k]
      PROVE  \E x \in 1..l : r[x] = f[i]
  <2>1. CASE i < k
    <3>1. i + (n - k) \in 1..l /\ r[i + (n - k)] = f[i]
      BY ONLY <1>1, <1>5, <2>1
    <3> QED
      BY <3>1
  <2>2. CASE i > k
    <3>1. i - k \in 1..l /\ r[i - k] = f[i]
      BY ONLY <1>1, <1>5, <2>2
    <3> QED
      BY <3>1
  <2>3. i # k /\ i \in Int /\ k \in Int
    BY ONLY <1>1, <1>5
  <2> QED
    BY <2>1, <2>2, <2>3
<1> QED
  BY <1>2, <1>3, <1>4, <1>5

(* Taking the k-th actor out of the wait queue leaves the others in it,     *)
(* each once.                                                               *)
LEMMA WaitQAfterOnce ==
    ASSUME waitQ \in Seq(Actors), NEW k \in 1..Len(waitQ), Once(waitQ)
    PROVE  /\ Once(WaitQAfter(k))
           /\ \A b : In(WaitQAfter(k), b) <=> In(waitQ, b) /\ b # waitQ[k]
<1> DEFINE n == Len(waitQ)
           r == WaitQAfter(k)
           u == SubSeq(waitQ, k + 1, n)
           v == SubSeq(waitQ, 1, k - 1)
<1>1. n \in Nat /\ k \in 1..n /\ k + 1 \in Int /\ k - 1 \in Int
  BY LenProperties
<1>2. /\ \A i \in k + 1 .. n : waitQ[i] \in Actors
      /\ \A i \in 1 .. k - 1 : waitQ[i] \in Actors
  BY <1>1, ElementOfSeq
<1>3. /\ u \in Seq(Actors) /\ Len(u) = n - k
      /\ \A i \in 1 .. n - k : u[i] = waitQ[k + i]
  BY <1>1, <1>2, SubSeqProperties
<1>4. /\ v \in Seq(Actors) /\ Len(v) = k - 1
      /\ \A i \in 1 .. k - 1 : v[i] = waitQ[i]
  BY <1>1, <1>2, SubSeqProperties
<1>5. r = u \o v
  BY DEF WaitQAfter
<1> HIDE DEF n, r, u, v
<1>6. /\ Len(r) = Len(u) + Len(v)
      /\ \A i \in 1 .. Len(u) + Len(v) :
           r[i] = IF i <= Len(u) THEN u[i] ELSE v[i - Len(u)]
  BY <1>3, <1>4, <1>5, ConcatProperties
<1>7. Len(r) = n - 1
  BY <1>1, <1>3, <1>4, <1>6
<1>8. \A i \in 1 .. n - 1 :
           r[i] = IF i <= n - k THEN waitQ[k + i] ELSE waitQ[i - (n - k)]
  <2> SUFFICES ASSUME NEW i \in 1 .. n - 1
               PROVE  r[i] = IF i <= n - k THEN waitQ[k + i]
                             ELSE waitQ[i - (n - k)]
    OBVIOUS
  <2>1. r[i] = IF i <= n - k THEN u[i] ELSE v[i - (n - k)]
    BY <1>1, <1>3, <1>4, <1>6
  <2>2. CASE i <= n - k
    BY <1>1, <1>3, <2>1, <2>2
  <2>3. CASE i > n - k
    <3>1. i - (n - k) \in 1 .. k - 1
      BY <1>1, <2>3
    <3> QED
      BY <1>1, <1>4, <2>1, <2>3, <3>1
  <2> QED
    BY <1>1, <2>2, <2>3
<1>9. Rotated(waitQ, r, k)
  BY <1>1, <1>7, <1>8 DEF n, Rotated
<1> QED
  BY <1>9, Rotation DEF r

-----------------------------------------------------------------------------
(* The wait queue.                                                          *)

Flagged(a) == /\ inWait[a] <=> recv[a] # <<>>
              /\ inWait[a] <=> In(waitQ, a)

LEMMA WaitQueueParts ==
    ASSUME WaitQueueExact
    PROVE  /\ Once(waitQ)
           /\ \A a \in Actors : Flagged(a)
  BY DEF WaitQueueExact, Once, In, Flagged

LEMMA WaitQueueFromParts ==
    ASSUME inWait' \in [Actors -> BOOLEAN], Once(waitQ'),
           \A a \in Actors : Flagged(a)'
    PROVE  WaitQueueExact'
<1>1. \A i, j \in 1..Len(waitQ') : waitQ'[i] = waitQ'[j] => i = j
  BY DEF Once
<1>2. ASSUME NEW a \in Actors
      PROVE  /\ inWait'[a] = (recv'[a] # <<>>)
             /\ inWait'[a] = (\E i \in 1..Len(waitQ') : waitQ'[i] = a)
  <2>1. inWait'[a] \in BOOLEAN
    OBVIOUS
  <2>2. In(waitQ', a) <=> \E i \in 1..Len(waitQ') : waitQ'[i] = a
    BY DEF In
  <2> QED
    BY <2>1, <2>2 DEF Flagged
<1> QED
  BY <1>1, <1>2 DEF WaitQueueExact

(* DispatchMsg: an actor enters the queue with its first message.           *)
LEMMA DeliverQueue ==
    ASSUME TypeOK, WaitQueueExact, NEW m \in Msg, Deliver(m)
    PROVE  WaitQueueExact'
<1> DEFINE a == m.dst
<1>1. a \in Actors /\ recv[a] \in Seq(Msg) /\ Pending[a] \in Int
  BY LimitsAssumption DEF Msg, TypeOK
<1>2. Recv(recv[a], m, Pending[a]) # <<>>
  BY <1>1, RecvType
<1>3. \A b \in Actors : recv'[b] = IF b = a THEN Recv(recv[a], m, Pending[a])
                                   ELSE recv[b]
  BY <1>1 DEF Deliver, TypeOK
<1>4. \A b \in Actors : inWait'[b] = IF b = a THEN TRUE ELSE inWait[b]
  BY <1>1 DEF Deliver, TypeOK
<1>5. /\ Once(waitQ')
      /\ \A b \in Actors : In(waitQ', b) <=> In(waitQ, b) \/ b = a
  <2>1. CASE inWait[a]
    <3>1. waitQ' = waitQ /\ In(waitQ, a) /\ Once(waitQ)
      BY <1>1, <2>1, WaitQueueParts DEF Deliver, Flagged
    <3> QED
      BY <3>1
  <2>2. CASE ~inWait[a]
    <3>1. waitQ' = Append(waitQ, a) /\ ~In(waitQ, a) /\ Once(waitQ)
      BY <1>1, <2>2, WaitQueueParts DEF Deliver, Flagged
    <3>2. waitQ \in Seq(Actors)
      BY DEF TypeOK
    <3> QED
      BY <1>1, <3>1, <3>2, AppendOnce
  <2> QED
    BY <2>1, <2>2
<1>6. \A b \in Actors : Flagged(b)'
  BY <1>2, <1>3, <1>4, <1>5, WaitQueueParts DEF Flagged
<1>7. inWait' \in [Actors -> BOOLEAN]
  BY DeliverType
<1> QED
  BY <1>5, <1>6, <1>7, WaitQueueFromParts

(* A round of CheckStopWorkers: the actor leaves the queue, or goes to its  *)
(* back if the batch left messages behind.                                  *)
LEMMA AssignQueue ==
    ASSUME CoreInv, WaitQueueExact, NEW k \in 1..Len(waitQ), Assign(k)
    PROVE  WaitQueueExact'
<1> DEFINE a == waitQ[k]
           rest == RecvAfterMove(recv[a], RunSize[a])
           q == WaitQAfter(k)
<1>1. TypeOK /\ waitQ \in Seq(Actors) /\ a \in Actors
  BY ElementOfSeq DEF CoreInv, TypeOK
<1>2. \A b \in Actors : recv'[b] = IF b = a THEN rest ELSE recv[b]
  BY <1>1 DEF Assign, TypeOK
<1>3. \A b \in Actors : inWait'[b] = IF b = a THEN rest # <<>> ELSE inWait[b]
  BY <1>1, <1>2 DEF Assign, TypeOK
<1>4. Once(q) /\ \A b : In(q, b) <=> In(waitQ, b) /\ b # a
  <2>1. Once(waitQ)
    BY WaitQueueParts
  <2> QED
    BY <1>1, <2>1, WaitQAfterOnce
<1>5. /\ Once(waitQ')
      /\ \A b \in Actors : In(waitQ', b) <=> IF b = a THEN rest # <<>>
                                              ELSE In(waitQ, b)
  <2>1. waitQ' = IF rest # <<>> THEN Append(q, a) ELSE q
    BY <1>1, <1>2 DEF Assign, Requeue
  <2>2. q \in Seq(Actors)
    BY <1>1, WaitQAfterType
  <2> HIDE DEF q, rest
  <2>3. /\ \A b : In(Append(q, a), b) <=> In(q, b) \/ b = a
        /\ Once(Append(q, a))
    BY <1>1, <1>4, <2>2, AppendOnce
  <2>4. CASE rest # <<>>
    BY <1>4, <2>1, <2>3, <2>4
  <2>5. CASE rest = <<>>
    BY <1>4, <2>1, <2>5
  <2> QED
    BY <2>4, <2>5
<1> HIDE DEF rest
<1>6. \A b \in Actors : Flagged(b)'
  BY <1>2, <1>3, <1>5, WaitQueueParts DEF Flagged
<1>7. inWait' \in [Actors -> BOOLEAN]
  BY AssignInv DEF CoreInv, TypeOK
<1> QED
  BY <1>5, <1>6, <1>7, WaitQueueFromParts

LEMMA QuietQueue ==
    ASSUME WaitQueueExact, UNCHANGED <<recv, inWait, waitQ>>
    PROVE  WaitQueueExact'
  BY DEF WaitQueueExact

LEMMA WaitQueueNext == CoreInv /\ WaitQueueExact /\ [Next]_vars => WaitQueueExact'
<1> SUFFICES ASSUME CoreInv, WaitQueueExact, [Next]_vars PROVE WaitQueueExact'
  OBVIOUS
<1> USE DEF mailboxVars, queueVars
<1>1. CASE AssignActor
  BY <1>1, AssignQueue DEF AssignActor
<1>2. CASE ProcessOther
  <2>1. CASE UNCHANGED <<recv, inWait, waitQ, seq>>
    BY <2>1, QuietQueue
  <2>2. ASSUME NEW d \in Actors, MaySend(ext, d),
               Deliver([src |-> ext, dst |-> d, n |-> NextNo(ext, d)])
        PROVE  WaitQueueExact'
    <3>1. ext \in Senders /\ TypeOK
      BY DEF CoreInv, Senders
    <3>2. seq[ext][d] \in 0..MaxSeq
      BY <3>1 DEF TypeOK
    <3>3. [src |-> ext, dst |-> d, n |-> NextNo(ext, d)] \in Msg
      BY <2>2, <3>1, <3>2, LimitsAssumption DEF MaySend, NextNo, Msg
    <3> QED
      BY <2>2, <3>1, <3>3, DeliverQueue
  <2> QED
    BY <1>2, <2>1, <2>2 DEF ProcessOther
<1>3. CASE DispatchOne
  <2>1. ctx[cur] \in Actors /\ TypeOK
    BY <1>3 DEF DispatchOne, CoreInv, TypeOK
  <2>2. Head(send[ctx[cur]]) \in Msg
    BY <1>3, <2>1, HeadTailProperties DEF DispatchOne, TypeOK
  <2> QED
    BY <1>3, <2>1, <2>2, DeliverQueue DEF DispatchOne
<1>4. CASE JoinAll
  <2>1. /\ recv' = [a \in Actors |-> <<>>] /\ waitQ' = <<>>
        /\ inWait' = [a \in Actors |-> FALSE]
    BY <1>4 DEF JoinAll
  <2>2. inWait' \in [Actors -> BOOLEAN] /\ Once(waitQ')
        /\ \A a \in Actors : ~In(waitQ', a)
    BY <2>1, ToMainOps DEF Once, In
  <2> QED
    BY <2>1, <2>2, WaitQueueFromParts DEF Flagged
<1>5. CASE CheckDone \/ Wait \/ (\E w \in Workers : BeginEvent(w))
           \/ FinishEvent \/ ProcessDone
  BY <1>5, QuietQueue DEF CheckDone, Wait, BeginEvent, FinishEvent, ProcessDone
<1>6. CASE \E w \in Workers : Worker(w)
  BY <1>6, QuietQueue DEF Worker, SendIdle, RecvCmd, ProcMsg, WorkDone, Exit
<1>7. CASE Quit \/ UNCHANGED vars
  BY <1>7, QuietQueue
  DEF Quit, QuitCheck, QuitGoesOn, QuitStore, StopAllWorker, SendQuit, vars
<1> QED
  BY <1>1, <1>2, <1>3, <1>4, <1>5, <1>6, <1>7
  DEF Next, SteadyNext, Main, Terminated

-----------------------------------------------------------------------------
(* The batches.                                                             *)

LEMMA MoreBatches ==
    ASSUME NEW x \in Nat, NEW c \in Nat, NEW d \in Nat, c <= d
    PROVE  /\ x * c <= x * d
           /\ x * (c + 1) = x * c + x
           /\ x * c \in Nat
<1>1. /\ x * c \in Nat
      /\ x * d = x * c + x * (d - c) /\ x * (d - c) \in Nat
  OBVIOUS
<1>2. x * (c + 1) = x * c + x
  OBVIOUS
<1> QED
  BY <1>1, <1>2

LEMMA HoldersFinite ==
    ASSUME NEW a
    PROVE  /\ IsFiniteSet(RunHolders(a)) /\ Cardinality(RunHolders(a)) \in Nat
           /\ IsFiniteSet(RunHolders(a)')
           /\ Cardinality(RunHolders(a)') \in Nat
<1>1. RunHolders(a) \in SUBSET Workers /\ RunHolders(a)' \in SUBSET Workers
  BY DEF RunHolders
<1> QED
  BY <1>1, ThreadsAssumption, FS_Subset, FS_CardinalityType

(* A step that adds nothing to a run queue that is not empty afterwards, and*)
(* takes no holder from it, keeps the bound of all run queues.              *)
LEMMA QuietBatches ==
    ASSUME CoreInv, CoreInv', BatchesHeld,
           \A a \in Actors :
               \/ run'[a] = <<>>
               \/ /\ Len(run'[a]) <= Len(run[a])
                  /\ RunHolders(a) \subseteq RunHolders(a)'
    PROVE  BatchesHeld'
<1> SUFFICES ASSUME NEW a \in Actors, RunSize[a] > 0
             PROVE  Len(run'[a]) <= RunSize[a] * Cardinality(RunHolders(a)')
  BY DEF BatchesHeld, RunHolders, HasRun
<1> DEFINE c == Cardinality(RunHolders(a))
           d == Cardinality(RunHolders(a)')
           x == RunSize[a]
           l == Len(run[a])
           m == Len(run'[a])
<1>1. x \in Nat /\ c \in Nat /\ d \in Nat
  BY LimitsAssumption, HoldersFinite
<1>2. l \in Nat /\ m \in Nat /\ l <= x * c
  BY LenProperties DEF CoreInv, TypeOK, BatchesHeld
<1>3. CASE run'[a] = <<>>
  <2>1. m = 0
    BY <1>3, ToMainOps
  <2>2. x * d \in Nat
    BY <1>1, MoreBatches
  <2> QED
    BY <2>1, <2>2
<1>4. CASE m <= l /\ RunHolders(a) \subseteq RunHolders(a)'
  <2>1. c <= d
    BY <1>4, HoldersFinite, FS_Subset
  <2> HIDE DEF c, d, x, l, m
  <2>2. x * c <= x * d /\ x * c \in Nat /\ x * d \in Nat
    BY <1>1, <2>1, MoreBatches
  <2>3. m <= x * d
    BY <1>1, <1>2, <1>4, <2>2
  <2> QED
    BY <2>3 DEF c, d, x, l, m
<1> QED
  BY <1>3, <1>4

(* A new batch comes with a new holder.                                     *)
LEMMA AssignBatches ==
    ASSUME CoreInv, CoreInv', BatchesHeld, NEW k \in 1..Len(waitQ), Assign(k)
    PROVE  BatchesHeld'
<1>0. PICK a \in Actors : a = waitQ[k]
  BY ElementOfSeq DEF CoreInv, TypeOK
<1>1. PICK w \in Workers : w = Head(idleQ) /\ InIdleQ(w)
  <2>1. Head(idleQ) \in Workers
    BY HeadTailProperties DEF Assign, CoreInv, TypeOK
  <2>2. InIdleQ(Head(idleQ))
    <3>1. idleQ \in Seq(Workers) /\ idleQ # <<>>
      BY DEF Assign, CoreInv, TypeOK
    <3>2. Len(idleQ) \in Nat \ {0} /\ Head(idleQ) = idleQ[1]
      BY <3>1, EmptySeq
    <3> QED
      BY <3>2 DEF InIdleQ, In
  <2> QED
    BY <2>1, <2>2
<1> DEFINE n == BatchLen(recv[a], RunSize[a])
<1>2. /\ recv[a] \in Seq(Msg) /\ run[a] \in Seq(Msg) /\ RunSize[a] \in Int
      /\ Len(run[a]) \in Nat
  BY LimitsAssumption, LenProperties DEF CoreInv, TypeOK
<1>3. /\ Len(run'[a]) = n + Len(run[a]) /\ n \in Nat
      /\ recv[a] = <<>> => n = 0
      /\ RunSize[a] > 0 => n <= RunSize[a]
  <2>1. run'[a] = RunAfterMove(recv[a], run[a], RunSize[a])
    BY <1>0 DEF Assign, CoreInv, TypeOK
  <2>2. Len(RunAfterMove(recv[a], run[a], RunSize[a])) = n + Len(run[a])
    BY <1>2, MoveLen
  <2>3. n \in 0..Len(recv[a]) /\ Len(recv[a]) \in Nat
        /\ (RunSize[a] > 0 => n <= RunSize[a])
    BY <1>2, BatchLenBound, LenProperties
  <2> HIDE DEF n
  <2> QED
    BY <2>1, <2>2, <2>3, ToMainOps
<1>4. \A b \in Actors : b # a => run'[b] = run[b] /\ Len(run[b]) \in Nat
  BY <1>0, LenProperties DEF Assign, CoreInv, TypeOK
<1>5. CASE recv[a] = <<>>
  <2>1. UNCHANGED <<ctx, wpc, toOwner>>
    BY <1>0, <1>5 DEF Assign
  <2>2. \A b : RunHolders(b)' = RunHolders(b)
    BY <2>1 DEF RunHolders, HasRun
  <2>3. \A b \in Actors : Len(run'[b]) <= Len(run[b])
    BY <1>2, <1>3, <1>4, <1>5
  <2> QED
    BY <2>2, <2>3, QuietBatches
<1>6. CASE recv[a] # <<>>
  <2>1. /\ wpc' = wpc /\ ctx' = [ctx EXCEPT ![w] = a]
        /\ toOwner' = [toOwner EXCEPT ![w] = Append(@, "kRun")]
    BY <1>0, <1>1, <1>6 DEF Assign
  <2>2. /\ ctx[w] = None /\ ~HasRun(w)
    BY <1>1 DEF CoreInv, WorkerInv, Baton, Holds
  <2>3. HasRun(w)' /\ \A v \in Workers : v # w => (HasRun(v)' <=> HasRun(v))
    BY <1>1, <2>1, <2>2, FromMainRun DEF Assign, quitVars, CoreInv
  <2>5. \A v \in Workers : ctx'[v] = IF v = w THEN a ELSE ctx[v]
    BY <2>1 DEF CoreInv, TypeOK
  <2>6. \A b \in Actors, v \in Workers :
            v \in RunHolders(b)' <=> v \in RunHolders(b) \/ (v = w /\ b = a)
    <3> SUFFICES ASSUME NEW b \in Actors, NEW v \in Workers
                 PROVE  <2>6!(b, v)
      OBVIOUS
    <3>1. /\ v \in RunHolders(b)' <=> ctx'[v] = b /\ (wpc[v] = "work" \/ HasRun(v)')
          /\ v \in RunHolders(b) <=> ctx[v] = b /\ (wpc[v] = "work" \/ HasRun(v))
      BY <2>1 DEF RunHolders
    <3>2. b # None
      BY NamesAssumption
    <3> QED
      BY <2>2, <2>3, <2>5, <3>1, <3>2
  <2>7. /\ \A b \in Actors : RunHolders(b) \subseteq RunHolders(b)'
        /\ RunHolders(a)' = RunHolders(a) \cup {w} /\ w \notin RunHolders(a)
    <3>1. \A b : RunHolders(b) \subseteq Workers /\ RunHolders(b)' \subseteq Workers
      BY DEF RunHolders
    <3>2. w \notin RunHolders(a)
      BY <2>2, NamesAssumption DEF RunHolders
    <3> QED
      BY <2>6, <3>1, <3>2
  <2> SUFFICES ASSUME NEW b \in Actors, RunSize[b] > 0
               PROVE  Len(run'[b]) <= RunSize[b] * Cardinality(RunHolders(b)')
    BY DEF BatchesHeld, RunHolders, HasRun
  <2> DEFINE c == Cardinality(RunHolders(b))
             d == Cardinality(RunHolders(b)')
             x == RunSize[b]
             l == Len(run[b])
             m == Len(run'[b])
  <2>10. x \in Nat /\ c \in Nat /\ d \in Nat
    BY LimitsAssumption, HoldersFinite
  <2>11. l \in Nat /\ l <= x * c
    BY LenProperties DEF BatchesHeld, CoreInv, TypeOK
  <2>8. CASE b = a
    <3>1. d = c + 1
      BY <2>7, <2>8, HoldersFinite, FS_AddElement
    <3>2. m = n + l /\ n <= x /\ n \in Nat
      BY <1>3, <2>8
    <3> HIDE DEF c, d, x, l, m, n
    <3>3. x * d = x * c + x /\ x * c \in Nat
      BY <2>10, <3>1, MoreBatches
    <3>4. m <= x * d
      BY <2>10, <2>11, <3>2, <3>3
    <3> QED
      BY <3>4 DEF m, x, d
  <2>9. CASE b # a
    <3>1. c <= d
      BY <2>7, HoldersFinite, FS_Subset
    <3>2. m = l
      BY <1>4, <2>9
    <3> HIDE DEF c, d, x, l, m
    <3>3. x * c <= x * d /\ x * c \in Nat /\ x * d \in Nat
      BY <2>10, <3>1, MoreBatches
    <3>4. m <= x * d
      BY <2>10, <2>11, <3>2, <3>3
    <3> QED
      BY <3>4 DEF m, x, d
  <2> QED
    BY <2>8, <2>9
<1> QED
  BY <1>5, <1>6

LEMMA BatchesNext ==
    CoreInv /\ BatchesHeld /\ [Next]_vars => BatchesHeld'
<1> SUFFICES ASSUME CoreInv, BatchesHeld, [Next]_vars PROVE BatchesHeld'
  OBVIOUS
<1> USE DEF mailboxVars, queueVars, chanVars, mainVars, evVars, quitVars
<1>1. CoreInv'
  BY NextInv
<1>2. \A a \in Actors : run[a] \in Seq(Msg) /\ Len(run[a]) \in Nat
  BY LenProperties DEF CoreInv, TypeOK
<1>3. ASSUME run' = run,
             \A v \in Workers : wpc[v] = "work" \/ HasRun(v) =>
                 (wpc'[v] = "work" \/ HasRun(v)') /\ ctx'[v] = ctx[v]
      PROVE  BatchesHeld'
  <2>1. \A a : RunHolders(a) \subseteq RunHolders(a)'
    BY <1>3 DEF RunHolders
  <2> QED
    BY <1>1, <1>2, <1>3, <2>1, QuietBatches
<1>4. CASE AssignActor
  BY <1>1, <1>4, AssignBatches DEF AssignActor
<1>5. CASE FinishEvent
  <2>1. cur \in Workers /\ run' = run /\ wpc' = wpc /\ toOwner' = toOwner
    BY <1>5 DEF FinishEvent, CoreInv, TypeOK
  <2>2. CASE Head(toMain[cur]) = "kIdle"
    <3>1. ctx' = [ctx EXCEPT ![cur] = None]
      BY <1>5, <2>2 DEF FinishEvent, Idle
    <3>2. toMain[cur] \in {<<"kIdle">>, <<"kQuit">>, <<"kIdle", "kQuit">>}
      BY <1>5, <2>1 DEF FinishEvent, CoreInv, TypeOK, ToMainStates
    <3>3. HasIdle(cur)
      BY <2>2, <3>2, ToMainOps DEF HasIdle
    <3>4. ~HasRun(cur) /\ wpc[cur] # "work"
      BY <2>1, <3>3 DEF CoreInv, WorkerInv, Baton
    <3>5. \A v \in Workers : v # cur => ctx'[v] = ctx[v]
      BY <2>1, <3>1 DEF CoreInv, TypeOK
    <3> QED
      BY <1>3, <2>1, <3>4, <3>5 DEF HasRun
  <2>3. CASE Head(toMain[cur]) # "kIdle"
    <3>1. ctx' = ctx
      BY <1>5, <2>3 DEF FinishEvent
    <3> QED
      BY <1>3, <2>1, <3>1 DEF HasRun
  <2> QED
    BY <2>2, <2>3
<1>6. CASE JoinAll
  BY <1>1, <1>6, QuietBatches DEF JoinAll
<1>7. CASE \/ CheckDone \/ Wait \/ ProcessOther \/ ProcessDone
           \/ DispatchOne \/ (\E w \in Workers : BeginEvent(w))
  <2>1. UNCHANGED <<run, ctx, wpc, toOwner>>
    BY <1>7 DEF CheckDone, Wait, ProcessOther, ProcessDone, DispatchOne, BeginEvent
  <2> QED
    BY <1>3, <2>1 DEF HasRun
<1>8. ASSUME NEW w \in Workers, Worker(w) PROVE BatchesHeld'
  <2>1. CASE SendIdle(w)
    <3>1. run' = run /\ UNCHANGED <<ctx, toOwner>>
          /\ wpc' = [wpc EXCEPT ![w] = "recv"] /\ wpc[w] = "loop"
      BY <2>1 DEF SendIdle
    <3> QED
      BY <1>3, <3>1 DEF HasRun, CoreInv, TypeOK
  <2>2. CASE RecvCmd(w)
    <3>1. /\ UNCHANGED <<run, ctx>> /\ wpc[w] = "recv" /\ toOwner[w] # <<>>
          /\ toOwner' = [toOwner EXCEPT ![w] = Tail(@)]
          /\ wpc' = [wpc EXCEPT ![w] =
                        IF Head(toOwner[w]) = "kQuit" THEN "exit" ELSE "work"]
      BY <2>2 DEF RecvCmd, RecvFromMain
    <3>2. HasRun(w) => wpc'[w] = "work" \/ HasRun(w)'
      <4>1. Head(toOwner[w]) = "kQuit" => (HasRun(w)' <=> HasRun(w))
        BY <2>2, <3>1, FromMainRead DEF CoreInv, RecvCmd
      <4>2. Head(toOwner[w]) # "kQuit" => wpc'[w] = "work"
        BY <3>1 DEF CoreInv, TypeOK
      <4> QED
        BY <4>1, <4>2
    <3>3. \A v \in Workers : v # w => toOwner'[v] = toOwner[v] /\ wpc'[v] = wpc[v]
      BY <3>1 DEF CoreInv, TypeOK
    <3> QED
      BY <1>3, <3>1, <3>2, <3>3 DEF HasRun
  <2>3. CASE ProcMsg(w)
    <3>1. /\ UNCHANGED <<ctx, wpc, toOwner>> /\ ctx[w] \in Actors
          /\ run[ctx[w]] # <<>>
          /\ run' = [run EXCEPT ![ctx[w]] = Tail(@)]
      BY <2>3 DEF ProcMsg, CoreInv, TypeOK
    <3>2. \A a : RunHolders(a) = RunHolders(a)'
      BY <3>1 DEF RunHolders, HasRun
    <3>3. Len(Tail(run[ctx[w]])) = Len(run[ctx[w]]) - 1
      BY <1>2, <3>1, HeadTailProperties
    <3>4. \A a \in Actors : Len(run'[a]) <= Len(run[a])
      BY <1>2, <3>1, <3>3 DEF CoreInv, TypeOK
    <3> QED
      BY <1>1, <3>2, <3>4, QuietBatches
  <2>4. CASE WorkDone(w)
    <3>1. /\ UNCHANGED <<run, ctx, toOwner>> /\ ctx[w] \in Actors
          /\ run[ctx[w]] = <<>> /\ wpc' = [wpc EXCEPT ![w] = "loop"]
      BY <2>4 DEF WorkDone, CoreInv, TypeOK, WorkerInv, Holds
    <3>2. \A v \in Workers : v # w => wpc'[v] = wpc[v]
      BY <3>1 DEF CoreInv, TypeOK
    <3>3. \A a \in Actors : a # ctx[w] => RunHolders(a) \subseteq RunHolders(a)'
      BY <3>1, <3>2 DEF RunHolders, HasRun
    <3> QED
      BY <1>1, <1>2, <3>1, <3>3, QuietBatches
  <2>5. CASE Exit(w)
    <3>1. run' = run /\ UNCHANGED <<ctx, toOwner>>
          /\ wpc' = [wpc EXCEPT ![w] = "ended"] /\ wpc[w] = "exit"
      BY <2>5 DEF Exit
    <3> QED
      BY <1>3, <3>1 DEF HasRun, CoreInv, TypeOK
  <2> QED
    BY <1>8, <2>1, <2>2, <2>3, <2>4, <2>5 DEF Worker
<1>9. CASE UNCHANGED vars \/ \E c \in Quitters :
               QuitCheck(c) \/ QuitStore(c) \/ StopAllWorker(c)
  <2>1. UNCHANGED <<run, ctx, wpc, toOwner>>
    BY <1>9 DEF QuitCheck, QuitStore, StopAllWorker, vars
  <2> QED
    BY <1>3, <2>1 DEF HasRun
<1>10. ASSUME NEW c \in Quitters, NEW w \in Workers, SendQuit(c, w)
       PROVE  BatchesHeld'
  <2>1. UNCHANGED <<run, ctx, wpc>>
    BY <1>10 DEF SendQuit
  <2>2. \A v \in Workers : HasRun(v)' <=> HasRun(v)
    BY <1>10, FromMainQuit DEF CoreInv, WorkerInv
  <2> QED
    BY <1>3, <2>1, <2>2
<1> QED
  BY <1>4, <1>5, <1>6, <1>7, <1>8, <1>9, <1>10
  DEF Next, SteadyNext, Main, Quit, QuitGoesOn, Terminated

-----------------------------------------------------------------------------
LEMMA InitQueues == Init => WaitQueueExact /\ BatchesHeld
<1> SUFFICES ASSUME Init PROVE WaitQueueExact /\ BatchesHeld
  OBVIOUS
<1>1. WaitQueueExact
  <2>1. waitQ = <<>> /\ Len(waitQ) = 0
    BY ToMainOps DEF Init
  <2>2. \A i \in 1..Len(waitQ) : FALSE
    BY <2>1
  <2>3. ASSUME NEW a \in Actors PROVE inWait[a] = FALSE /\ recv[a] = <<>>
    BY DEF Init
  <2> QED
    BY <2>2, <2>3 DEF WaitQueueExact
<1>2. ASSUME NEW a \in Actors, RunSize[a] > 0
      PROVE  Len(run[a]) <= RunSize[a] * Cardinality(RunHolders(a))
  <2>1. Len(run[a]) = 0
    BY ToMainOps DEF Init
  <2>2. RunSize[a] \in Nat /\ Cardinality(RunHolders(a)) \in Nat
    BY <1>2, LimitsAssumption, HoldersFinite
  <2>3. RunSize[a] * Cardinality(RunHolders(a)) \in Nat
    BY <2>2, MoreBatches
  <2> QED
    BY <2>1, <2>3
<1> QED
  BY <1>1, <1>2 DEF BatchesHeld

(* No actor with a message is forgotten by the main thread, and none is     *)
(* queued twice or without a message: PushContext, GetContextWithMsg and    *)
(* MoveToRun keep in_wait_que_, wait_queue_ and the mailboxes consistent.   *)
THEOREM WaitQueueIsExact == Spec => []WaitQueueExact
<1>1. Init => CoreInv /\ WaitQueueExact
  BY InitInv, InitQueues
<1>2. CoreInv /\ WaitQueueExact /\ [Next]_vars => (CoreInv /\ WaitQueueExact)'
  BY NextInv, WaitQueueNext
<1> QED
  BY <1>1, <1>2, PTL DEF Spec

(* An execution gets at most run_queue_size messages, and as many again for *)
(* every worker that ended without having run the batch it was sent.        *)
THEOREM BatchesAreBounded == Spec => []RunBatchBound
<1>1. Init => CoreInv /\ BatchesHeld
  BY InitInv, InitQueues
<1>2. CoreInv /\ BatchesHeld /\ [Next]_vars => (CoreInv /\ BatchesHeld)'
  BY NextInv, BatchesNext
<1>3. CoreInv /\ BatchesHeld => RunBatchBound
  <2> SUFFICES ASSUME CoreInv, BatchesHeld, NEW a \in Actors, RunSize[a] > 0
               PROVE  Len(run[a]) <= RunSize[a]
                        * (1 + Cardinality({ w \in Workers :
                                              wpc[w] \in {"exit", "ended"} }))
    BY DEF RunBatchBound
  <2> DEFINE left == { w \in Workers : wpc[w] \in {"exit", "ended"} }
             c == Cardinality(RunHolders(a))
             d == Cardinality(left)
             x == RunSize[a]
  <2>1. \A v, w \in RunHolders(a) \ left : v = w
    <3> SUFFICES ASSUME NEW v \in RunHolders(a) \ left,
                        NEW w \in RunHolders(a) \ left
                 PROVE  v = w
      OBVIOUS
    <3>1. v \in registered /\ w \in registered
      BY DEF RunHolders, CoreInv, WorkerInv, Farewell
    <3>2. ctx[v] = a /\ ctx[w] = a /\ a # None
      BY NamesAssumption DEF RunHolders
    <3> QED
      BY <3>1, <3>2 DEF CoreInv, WorkerInv, UniqueHolder
  <2>2. IsFiniteSet(left) /\ d \in Nat
    <3>1. left \in SUBSET Workers
      OBVIOUS
    <3> QED
      BY <3>1, ThreadsAssumption, FS_Subset, FS_CardinalityType
  <2>3. c <= 1 + d
    <3>1. CASE RunHolders(a) \subseteq left
      <4>1. c <= d
        BY <2>2, <3>1, FS_Subset
      <4> QED
        BY <2>2, <4>1, HoldersFinite
    <3>2. CASE ~(RunHolders(a) \subseteq left)
      <4>1. PICK w : w \in RunHolders(a) \ left
        BY <3>2
      <4>2. RunHolders(a) \subseteq left \cup {w}
        BY <2>1, <4>1
      <4>3. IsFiniteSet(left \cup {w}) /\ Cardinality(left \cup {w}) = d + 1
        BY <2>2, <4>1, FS_AddElement
      <4>4. c <= Cardinality(left \cup {w})
        BY <4>2, <4>3, FS_Subset
      <4> QED
        BY <2>2, <4>3, <4>4
    <3> QED
      BY <3>1, <3>2
  <2>4. x \in Nat /\ c \in Nat
    BY LimitsAssumption, HoldersFinite
  <2>5. Len(run[a]) \in Nat /\ Len(run[a]) <= x * c
    BY LenProperties DEF BatchesHeld, CoreInv, TypeOK
  <2> DEFINE l == Len(run[a])
             e == 1 + d
  <2> HIDE DEF left, c, d, x, l
  <2>6. e \in Nat /\ c <= e
    BY <2>2, <2>3
  <2> HIDE DEF e
  <2>7. x * c <= x * e /\ x * c \in Nat /\ x * e \in Nat
    BY <2>4, <2>6, MoreBatches
  <2>8. l <= x * e
    BY <2>5, <2>7 DEF l
  <2> QED
    BY <2>8 DEF l, e, x, d, left
<1> QED
  BY <1>1, <1>2, <1>3, PTL DEF Spec


-----------------------------------------------------------------------------
(* Actors and their workers.                                                *)

(* Before Quit every worker is registered, and says nothing but kIdle.      *)
LEMMA Running ==
    ASSUME CoreInv, appState = "running"
    PROVE  /\ registered = Workers /\ \A c \in Quitters : toStop[c] = {}
           /\ \A w \in Workers :
                /\ wpc[w] \in {"loop", "recv", "work"}
                /\ toMain[w] \in {<<>>, <<"kIdle">>}
                /\ HasIdle(w) <=> toMain[w] = <<"kIdle">>
                /\ toOwner[w] # <<>> => Head(toOwner[w]) # "kQuit"
<1>1. ASSUME NEW w \in Workers
      PROVE  /\ wpc[w] \in {"loop", "recv", "work"}
             /\ ~HasQuit(w) /\ ~HasGoodbye(w) /\ w \in registered
  BY DEF CoreInv, TypeOK, WorkerInv, Farewell
<1>2. ASSUME NEW w \in Workers
      PROVE  /\ toMain[w] \in {<<>>, <<"kIdle">>}
             /\ HasIdle(w) <=> toMain[w] = <<"kIdle">>
  BY <1>1, ToMainOps
  DEF CoreInv, TypeOK, ToMainStates, HasGoodbye, HasIdle
<1>3. ASSUME NEW w \in Workers, toOwner[w] # <<>>
      PROVE  Head(toOwner[w]) # "kQuit"
  <2>1. toOwner[w] \in Seq(Cmd)
    BY DEF CoreInv, TypeOK
  <2>2. 1 \in 1..Len(toOwner[w]) /\ Head(toOwner[w]) = toOwner[w][1]
    BY <1>3, <2>1, EmptySeq
  <2> QED
    BY <1>1, <2>2 DEF HasQuit, In
<1>4. registered \subseteq Workers /\ \A c \in Quitters : toStop[c] = {}
  BY DEF CoreInv, TypeOK, WorkerInv, StoredFirst
<1> QED
  BY <1>1, <1>2, <1>3, <1>4

(* The worker whose event is processed has said so.                         *)
LEMMA Speaking ==
    ASSUME CoreInv, appState = "running", NEW w \in Workers,
           batch[w] > 0 \/ cur = w
    PROVE  toMain[w] = <<"kIdle">> /\ HasIdle(w) /\ wpc[w] = "recv"
<1>1. toMain[w] # <<>>
  <2>1. batch[w] \in Nat /\ batch[w] + (IF cur = w THEN 1 ELSE 0) <= Len(toMain[w])
    BY DEF CoreInv, TypeOK, WorkerInv, EveryEventHasCommand
  <2> QED
    BY <2>1, ToMainOps
<1>2. toMain[w] = <<"kIdle">> /\ HasIdle(w) /\ wpc[w] \in {"loop", "recv", "work"}
  BY <1>1, Running
<1> QED
  BY <1>2 DEF CoreInv, WorkerInv, Baton

(* What the main thread finds when it assigns an actor.                     *)
LEMMA Assigned ==
    ASSUME CoreInv, WaitQueueExact, NEW k \in 1..Len(waitQ), Assign(k)
    PROVE  \E a \in Actors, w \in Workers :
             /\ a = waitQ[k] /\ w = Head(idleQ)
             /\ ~inWorker[a] /\ recv[a] # <<>> /\ cur = None
             /\ ctx[w] = None /\ InIdleQ(w)
             /\ inWorker' = [inWorker EXCEPT ![a] = TRUE]
             /\ run' = [run EXCEPT ![a] = RunAfterMove(recv[a], run[a], RunSize[a])]
             /\ recv' = [recv EXCEPT ![a] = RecvAfterMove(recv[a], RunSize[a])]
             /\ ctx' = [ctx EXCEPT ![w] = a]
             /\ toOwner' = [toOwner EXCEPT ![w] = Append(@, "kRun")]
             /\ UNCHANGED <<send, toMain, wpc, cur, appState, histVars>>
<1>0. PICK a \in Actors : a = waitQ[k]
  BY ElementOfSeq DEF CoreInv, TypeOK
<1>1. PICK w \in Workers : w = Head(idleQ) /\ InIdleQ(w)
  <2>1. idleQ \in Seq(Workers) /\ idleQ # <<>>
    BY DEF Assign, CoreInv, TypeOK
  <2>2. Head(idleQ) \in Workers
    BY <2>1, HeadTailProperties
  <2>3. Len(idleQ) \in Nat \ {0} /\ Head(idleQ) = idleQ[1]
    BY <2>1, EmptySeq
  <2> QED
    BY <2>2, <2>3 DEF InIdleQ, In
<1>2. ~inWorker[a]
  BY <1>0 DEF Assign, Chosen, CanRun
<1>3. recv[a] # <<>>
  <2>1. In(waitQ, a)
    BY <1>0 DEF In
  <2> QED
    BY <2>1, WaitQueueParts DEF Flagged
<1>4. ctx[w] = None
  BY <1>1 DEF CoreInv, WorkerInv, Holds
<1>5. cur = None
  BY DEF Assign, CoreInv, TypeOK
<1>6. /\ inWorker' = [inWorker EXCEPT ![a] = TRUE]
      /\ run' = [run EXCEPT ![a] = RunAfterMove(recv[a], run[a], RunSize[a])]
      /\ recv' = [recv EXCEPT ![a] = RecvAfterMove(recv[a], RunSize[a])]
      /\ ctx' = [ctx EXCEPT ![w] = a]
      /\ toOwner' = [toOwner EXCEPT ![w] = Append(@, "kRun")]
      /\ UNCHANGED <<send, toMain, wpc, cur, appState, histVars>>
  BY <1>0, <1>1, <1>3 DEF Assign, mainVars, quitVars
<1> QED
  BY <1>0, <1>1, <1>2, <1>3, <1>4, <1>5, <1>6

(* A step that leaves the actors, their workers and the commands alone, or  *)
(* only moves a worker on that has something to run.                        *)
LEMMA QuietActors ==
    ASSUME ActorInv, UNCHANGED <<run, send, inWorker, ctx, cur>>,
           \A w \in Workers :
               wpc'[w] = "loop" \/ HasIdle(w)' =>
                   \/ wpc[w] = "loop" \/ HasIdle(w)
                   \/ ctx[w] # None => run[ctx[w]] = <<>>
    PROVE  ActorInv'
  BY DEF ActorInv

LEMMA AssignActors ==
    ASSUME CoreInv, WaitQueueExact, ActorInv, appState = "running",
           NEW k \in 1..Len(waitQ), Assign(k)
    PROVE  ActorInv'
<1>1. PICK a \in Actors, w \in Workers :
        /\ ~inWorker[a] /\ cur = None /\ ctx[w] = None /\ InIdleQ(w)
        /\ inWorker' = [inWorker EXCEPT ![a] = TRUE]
        /\ run' = [run EXCEPT ![a] = RunAfterMove(recv[a], run[a], RunSize[a])]
        /\ ctx' = [ctx EXCEPT ![w] = a]
        /\ UNCHANGED <<send, toMain, wpc, cur>>
  BY Assigned
<1>2. /\ \A b \in Actors : b # a => inWorker'[b] = inWorker[b] /\ run'[b] = run[b]
      /\ inWorker'[a] = TRUE
      /\ \A v \in Workers : ctx'[v] = IF v = w THEN a ELSE ctx[v]
  BY <1>1 DEF CoreInv, TypeOK
<1>3. ASSUME NEW b \in Actors
      PROVE  /\ ~inWorker'[b] => run'[b] = <<>>
             /\ ~inWorker'[b] => send'[b] = <<>>
             /\ inWorker'[b] => \E v \in Workers : ctx'[v] = b /\ v # cur'
  <2>1. CASE b = a
    BY <1>1, <1>2, <2>1, NamesAssumption
  <2>2. CASE b # a
    <3>1. ~inWorker[b] => run[b] = <<>> /\ send[b] = <<>>
      BY <1>1 DEF ActorInv
    <3>2. inWorker[b] => \E v \in Workers : ctx[v] = b /\ v # cur /\ v # w
      BY <1>1, NamesAssumption DEF ActorInv
    <3> QED
      BY <1>1, <1>2, <2>2, <3>1, <3>2
  <2> QED
    BY <2>1, <2>2
<1>4. ASSUME NEW v \in Workers, ctx'[v] # None, wpc'[v] = "loop" \/ HasIdle(v)'
      PROVE  run'[ctx'[v]] = <<>>
  <2>1. wpc[v] = "loop" \/ HasIdle(v)
    BY <1>1, <1>4 DEF HasIdle
  <2>2. v # w
    BY <1>1, <2>1 DEF CoreInv, WorkerInv, Baton
  <2>3. ctx'[v] = ctx[v] /\ ctx[v] \in Actors /\ run[ctx[v]] = <<>>
    <3>1. ctx'[v] = ctx[v]
      BY <1>2, <2>2
    <3> QED
      BY <1>4, <2>1, <3>1 DEF ActorInv, CoreInv, TypeOK
  <2>4. inWorker[ctx[v]]
    BY <1>1, <2>3, NamesAssumption, Running DEF CoreInv, WorkerInv, Holds
  <2> QED
    BY <1>1, <1>2, <2>3, <2>4
<1> QED
  BY <1>3, <1>4 DEF ActorInv

LEMMA BeginEventActors ==
    ASSUME CoreInv, ActorInv, appState = "running",
           NEW w \in Workers, BeginEvent(w)
    PROVE  ActorInv'
<1>1. /\ UNCHANGED <<run, send, ctx, wpc, toMain>> /\ cur = None /\ cur' = w
      /\ inWorker' = IF ctx[w] = None THEN inWorker
                     ELSE [inWorker EXCEPT ![ctx[w]] = FALSE]
      /\ batch[w] > 0
  BY DEF BeginEvent, mailboxVars, chanVars, CoreInv, TypeOK
<1>2. HasIdle(w)
  BY <1>1, Speaking
<1>3. \A b \in Actors :
        inWorker'[b] = IF b = ctx[w] THEN FALSE ELSE inWorker[b]
  BY <1>1, NamesAssumption DEF CoreInv, TypeOK
<1>4. ASSUME NEW b \in Actors
      PROVE  /\ ~inWorker'[b] => run'[b] = <<>>
             /\ ~inWorker'[b] /\ send'[b] # <<>> => cur' # None /\ ctx'[cur'] = b
             /\ inWorker'[b] => \E v \in Workers : ctx'[v] = b /\ v # cur'
  <2>0. w # None
    BY NamesAssumption
  <2>1. CASE b = ctx[w]
    <3>1. ~inWorker'[b] /\ run[b] = <<>>
      BY <1>2, <1>3, <2>1, NamesAssumption DEF ActorInv
    <3> QED
      BY <1>1, <2>0, <2>1, <3>1
  <2>2. CASE b # ctx[w]
    <3>1. inWorker'[b] = inWorker[b]
      BY <1>3, <2>2
    <3>2. /\ ~inWorker[b] => run[b] = <<>> /\ send[b] = <<>>
          /\ inWorker[b] => \E v \in Workers : ctx[v] = b /\ v # cur
      BY <1>1, NamesAssumption DEF ActorInv
    <3> QED
      BY <1>1, <2>2, <3>1, <3>2
  <2> QED
    BY <2>1, <2>2
<1>5. ASSUME NEW v \in Workers, ctx'[v] # None, wpc'[v] = "loop" \/ HasIdle(v)'
      PROVE  run'[ctx'[v]] = <<>>
  BY <1>1, <1>5 DEF ActorInv, HasIdle
<1> QED
  BY <1>4, <1>5 DEF ActorInv

LEMMA FinishEventActors ==
    ASSUME CoreInv, ActorInv, appState = "running", FinishEvent
    PROVE  ActorInv'
<1>1. cur \in Workers /\ toMain[cur] = <<"kIdle">>
  BY Speaking DEF FinishEvent, CoreInv, TypeOK
<1>2. /\ UNCHANGED <<run, send, inWorker, wpc>> /\ cur' = None
      /\ ctx' = [ctx EXCEPT ![cur] = None]
      /\ toMain' = [toMain EXCEPT ![cur] = Tail(@)]
      /\ ctx[cur] # None => send[ctx[cur]] = <<>>
  BY <1>1, ToMainOps DEF FinishEvent, Idle, RecvFromOwner, mailboxVars
<1>3. \A v \in Workers : v # cur => ctx'[v] = ctx[v] /\ toMain'[v] = toMain[v]
  BY <1>1, <1>2 DEF CoreInv, TypeOK
<1>4. ctx'[cur] = None
  BY <1>1, <1>2 DEF CoreInv, TypeOK
<1>5. ASSUME NEW b \in Actors
      PROVE  /\ ~inWorker'[b] => run'[b] = <<>> /\ send'[b] = <<>>
             /\ inWorker'[b] => \E v \in Workers : ctx'[v] = b /\ v # cur'
  BY <1>1, <1>2, <1>3, NamesAssumption DEF ActorInv
<1>6. ASSUME NEW v \in Workers, ctx'[v] # None, wpc'[v] = "loop" \/ HasIdle(v)'
      PROVE  run'[ctx'[v]] = <<>>
  BY <1>2, <1>3, <1>4, <1>6 DEF ActorInv, HasIdle
<1> QED
  BY <1>5, <1>6 DEF ActorInv

LEMMA ProcMsgActors ==
    ASSUME CoreInv, ActorInv, appState = "running",
           NEW w \in Workers, ProcMsg(w)
    PROVE  ActorInv'
<1>1. wpc[w] = "work"
  BY DEF ProcMsg
<1>2. PICK a \in Actors : a = ctx[w] /\ w \in registered /\ cur # w
  BY <1>1, ExecutingWorker
<1>3. /\ UNCHANGED <<inWorker, ctx, wpc, toMain, cur>>
      /\ run' = [run EXCEPT ![a] = Tail(@)]
      /\ send' = send \/ \E m : send' = [send EXCEPT ![a] = Append(@, m)]
  BY <1>2 DEF ProcMsg, queueVars, chanVars, mainVars
<1>4. inWorker[a] /\ ~HasIdle(w)
  BY <1>1, <1>2, NamesAssumption DEF CoreInv, WorkerInv, Holds, Baton
<1>5. \A b \in Actors : b # a => run'[b] = run[b] /\ send'[b] = send[b]
  BY <1>3 DEF CoreInv, TypeOK
<1>6. ASSUME NEW v \in Workers, ctx'[v] # None, wpc'[v] = "loop" \/ HasIdle(v)'
      PROVE  run'[ctx'[v]] = <<>>
  <2>1. wpc[v] = "loop" \/ HasIdle(v)
    BY <1>3, <1>6 DEF HasIdle
  <2>2. v # w /\ v \in registered
    BY <1>1, <1>4, <2>1, Running
  <2>3. ctx[v] \in Actors /\ ctx[v] # a /\ run[ctx[v]] = <<>>
    BY <1>2, <1>3, <1>6, <2>1, <2>2
    DEF ActorInv, CoreInv, TypeOK, WorkerInv, UniqueHolder
  <2> QED
    BY <1>3, <1>5, <2>3
<1> QED
  BY <1>3, <1>4, <1>5, <1>6 DEF ActorInv

LEMMA ActorNext ==
    ASSUME CoreInv, WaitQueueExact, ActorInv, appState = "running",
           [Next]_vars, appState' = "running"
    PROVE  ActorInv'
<1> USE DEF mailboxVars, queueVars, chanVars, mainVars, quitVars, evVars
<1>1. CASE AssignActor
  BY <1>1, AssignActors DEF AssignActor
<1>2. CASE CheckDone \/ Wait \/ ProcessOther \/ ProcessDone \/ UNCHANGED vars
  <2>1. UNCHANGED <<run, send, inWorker, ctx, cur, wpc, toMain>>
    BY <1>2 DEF CheckDone, Wait, ProcessOther, ProcessDone, vars
  <2> QED
    BY <2>1, QuietActors DEF HasIdle
<1>3. CASE \E w \in Workers : BeginEvent(w)
  BY <1>3, BeginEventActors
<1>4. CASE DispatchOne
  <2>1. /\ UNCHANGED <<run, inWorker, ctx, cur, wpc, toMain>>
        /\ send' = [send EXCEPT ![ctx[cur]] = Tail(@)] /\ cur # None
    BY <1>4 DEF DispatchOne, CoreInv, TypeOK
  <2>2. \A b \in Actors : b # ctx[cur] => send'[b] = send[b]
    BY <2>1 DEF CoreInv, TypeOK
  <2> QED
    BY <2>1, <2>2 DEF ActorInv, HasIdle
<1>5. CASE FinishEvent
  BY <1>5, FinishEventActors
<1>6. CASE JoinAll
  BY <1>6 DEF JoinAll
<1>7. ASSUME NEW w \in Workers, Worker(w) PROVE ActorInv'
  <2>1. CASE SendIdle(w)
    <3>1. /\ UNCHANGED <<run, send, inWorker, ctx, cur>> /\ wpc[w] = "loop"
          /\ toMain' = [toMain EXCEPT ![w] = Append(@, "kIdle")]
          /\ wpc' = [wpc EXCEPT ![w] = "recv"]
      BY <2>1 DEF SendIdle, SendToMain
    <3>2. \A v \in Workers : v # w => wpc'[v] = wpc[v] /\ toMain'[v] = toMain[v]
      BY <3>1 DEF CoreInv, TypeOK
    <3> QED
      BY <3>1, <3>2, QuietActors DEF HasIdle
  <2>2. CASE RecvCmd(w)
    <3>1. /\ UNCHANGED <<run, send, inWorker, ctx, cur, toMain>>
          /\ wpc' = [wpc EXCEPT ![w] =
                        IF Head(toOwner[w]) = "kQuit" THEN "exit" ELSE "work"]
      BY <2>2 DEF RecvCmd
    <3>2. \A v \in Workers : wpc'[v] = "loop" => wpc[v] = "loop"
      BY <3>1 DEF CoreInv, TypeOK
    <3> QED
      BY <3>1, <3>2, QuietActors DEF HasIdle
  <2>3. CASE ProcMsg(w)
    BY <2>3, ProcMsgActors
  <2>4. CASE WorkDone(w)
    <3>1. /\ UNCHANGED <<run, send, inWorker, ctx, cur, toMain>>
          /\ wpc' = [wpc EXCEPT ![w] = "loop"]
          /\ ctx[w] # None => run[ctx[w]] = <<>>
      BY <2>4 DEF WorkDone
    <3>2. \A v \in Workers : v # w => wpc'[v] = wpc[v]
      BY <3>1 DEF CoreInv, TypeOK
    <3> QED
      BY <3>1, <3>2, QuietActors DEF HasIdle
  <2>5. CASE Exit(w)
    BY <2>5, Running DEF Exit
  <2> QED
    BY <1>7, <2>1, <2>2, <2>3, <2>4, <2>5 DEF Worker
<1>8. CASE Quit
  <2>1. UNCHANGED <<run, send, inWorker, ctx, cur, wpc, toMain>>
    BY <1>8, Running DEF Quit, QuitCheck, QuitGoesOn, QuitStore, StopAllWorker,
                         SendQuit
  <2> QED
    BY <2>1, QuietActors DEF HasIdle
<1> QED
  BY <1>1, <1>2, <1>3, <1>4, <1>5, <1>6, <1>7, <1>8
  DEF Next, SteadyNext, Main, Terminated

-----------------------------------------------------------------------------
(* Messages.                                                                *)

LEMMA SentIsQueue ==
    ASSUME TypeOK, NEW s \in Senders
    PROVE  /\ Sent(s) \in Seq(Msg)
           /\ s \in Actors => Sent(s) = send[s] /\ Sent(s)' = send'[s]
           /\ s = ext => Sent(s) = <<>> /\ Sent(s)' = <<>>
<1>1. <<>> \in Seq(Msg)
  BY EmptySeq
<1> QED
  BY <1>1, NamesAssumption DEF Sent, TypeOK, Senders

(* The flow of one pair, before and after a step.                           *)
PairFlow(s, d) ==
    /\ Flows(run[d], recv[d], Sent(s), s, d, done[s][d], seq[s][d])
    /\ Pending[d] <= 0 =>
         Full(run[d], recv[d], Sent(s), s, d, done[s][d], seq[s][d])

LEMMA FlowParts ==
    /\ FlowInv <=> /\ Addressed
                   /\ \A s \in Senders, d \in Actors : PairFlow(s, d)
    /\ FlowInv' <=> /\ Addressed'
                    /\ \A s \in Senders, d \in Actors : PairFlow(s, d)'
  BY DEF FlowInv, PairFlow

LEMMA QuietFlow ==
    ASSUME FlowInv, UNCHANGED <<run, recv, send, done, seq>>
    PROVE  FlowInv'
  BY DEF FlowInv, Addressed, Sent

(* The type of a message is part of where it may be.                        *)
LEMMA QueueTypes ==
    ASSUME CoreInv, Addressed, NEW a \in Actors
    PROVE  /\ run[a] \in Seq(To(a)) /\ recv[a] \in Seq(To(a)) /\ send[a] \in Seq(By(a))
           /\ Pending[a] \in Int /\ RunSize[a] \in Int
           /\ \A s \in Senders : seq[s][a] \in 0..MaxSeq /\ done[s][a] \in 0..MaxSeq
  BY LimitsAssumption DEF CoreInv, TypeOK, Addressed

LEMMA AssignFlow ==
    ASSUME CoreInv, WaitQueueExact, ActorInv, FlowInv,
           NEW k \in 1..Len(waitQ), Assign(k)
    PROVE  FlowInv'
<1>1. PICK a \in Actors :
        /\ ~inWorker[a]
        /\ run' = [run EXCEPT ![a] = RunAfterMove(recv[a], run[a], RunSize[a])]
        /\ recv' = [recv EXCEPT ![a] = RecvAfterMove(recv[a], RunSize[a])]
        /\ UNCHANGED <<send, seq, done>>
  BY Assigned DEF histVars
<1>2. /\ run[a] = <<>> /\ run'[a] = RunAfterMove(recv[a], <<>>, RunSize[a])
      /\ recv'[a] = RecvAfterMove(recv[a], RunSize[a])
      /\ \A b \in Actors : b # a => run'[b] = run[b] /\ recv'[b] = recv[b]
  BY <1>1 DEF ActorInv, CoreInv, TypeOK
<1>3. Addressed
  BY FlowParts
<1>4. Addressed'
  <2>1. run'[a] \in Seq(To(a)) /\ recv'[a] \in Seq(To(a))
    BY <1>2, <1>3, QueueTypes, MoveType, EmptySeq
  <2> QED
    BY <1>1, <1>2, <1>3, <2>1 DEF Addressed
<1>5. ASSUME NEW s \in Senders, NEW d \in Actors PROVE PairFlow(s, d)'
  <2>1. PairFlow(s, d)
    BY FlowParts
  <2>2. Sent(s)' = Sent(s)
    BY <1>1 DEF Sent
  <2>3. CASE d = a
    <3>1. recv[a] \in Seq(To(a)) /\ RunSize[a] \in Int
      BY <1>3, QueueTypes
    <3> QED
      BY <1>1, <1>2, <2>1, <2>2, <2>3, <3>1, MoveFlows DEF PairFlow
  <2>4. CASE d # a
    BY <1>1, <1>2, <2>1, <2>2, <2>4 DEF PairFlow
  <2> QED
    BY <2>3, <2>4
<1> QED
  BY <1>4, <1>5, FlowParts

LEMMA ProcMsgFlow ==
    ASSUME CoreInv, FlowInv, Counted, NEW w \in Workers, ProcMsg(w)
    PROVE  FlowInv'
<1>1. PICK a \in Actors : a = ctx[w] /\ run[a] # <<>>
  BY DEF ProcMsg, CoreInv, TypeOK
<1> DEFINE m == Head(run[a])
<1>2. /\ run' = [run EXCEPT ![a] = Tail(@)] /\ recv' = recv
      /\ done' = [done EXCEPT ![m.src][a] = m.n]
      /\ m \in To(a) /\ Addressed
  <2>1. Addressed
    BY FlowParts
  <2>2. m \in To(a)
    BY <1>1, <2>1, QueueTypes, HeadTailProperties
  <2> QED
    BY <1>1, <2>1, <2>2 DEF ProcMsg, NoteDone, To
<1>3. /\ m.src \in Senders /\ m.dst = a /\ m.n \in Int
      /\ run'[a] = Tail(run[a])
      /\ \A d \in Actors : d # a => run'[d] = run[d]
      /\ \A s \in Senders, d \in Actors :
           done'[s][d] = IF m.src = s /\ m.dst = d THEN m.n ELSE done[s][d]
  <2>1. m.src \in Senders /\ m.dst = a /\ m.n \in Int
    BY <1>2, LimitsAssumption DEF To, Msg
  <2>2. /\ run'[a] = Tail(run[a])
        /\ \A d \in Actors : d # a => run'[d] = run[d]
    BY <1>2 DEF CoreInv, TypeOK
  <2> HIDE DEF m
  <2>3. done \in [Senders -> [Actors -> 0..MaxSeq]]
    BY DEF CoreInv, TypeOK
  <2>4. ASSUME NEW s \in Senders, NEW d \in Actors
        PROVE  done'[s][d] = IF m.src = s /\ m.dst = d THEN m.n ELSE done[s][d]
    BY <1>2, <2>1, <2>3
  <2> QED
    BY <2>1, <2>2, <2>4
<1> HIDE DEF m
<1>4. ASSUME NEW s \in Senders, NEW d \in Actors
      PROVE  /\ Flows(run'[d], recv[d], Sent(s), s, d, done'[s][d], seq[s][d])
             /\ Pending[d] <= 0 =>
                  Full(run'[d], recv[d], Sent(s), s, d, done'[s][d], seq[s][d])
  <2>1. PairFlow(s, d)
    BY FlowParts
  <2>2. CASE d = a
    <3>1. run[a] \in Seq(To(a)) /\ done[s][a] \in Int /\ seq[s][a] \in Int
      BY <1>2, QueueTypes, LimitsAssumption
    <3>2. Flows(run[a], recv[a], Sent(s), s, a, done[s][a], seq[s][a])
      BY <2>1, <2>2 DEF PairFlow
    <3>3. /\ Flows(Tail(run[a]), recv[a], Sent(s), s, a, done'[s][a], seq[s][a])
          /\ Full(run[a], recv[a], Sent(s), s, a, done[s][a], seq[s][a]) =>
               Full(Tail(run[a]), recv[a], Sent(s), s, a, done'[s][a], seq[s][a])
      BY <1>1, <1>3, <3>1, <3>2, ArriveFlow DEF m
    <3> QED
      BY <1>3, <2>1, <2>2, <3>3 DEF PairFlow
  <2>3. CASE d # a
    BY <1>3, <2>1, <2>3 DEF PairFlow
  <2> QED
    BY <2>2, <2>3
<1>5. CASE UNCHANGED <<send, seq>>
  <2>1. Addressed'
    <3>1. Tail(run[a]) \in Seq(To(a))
      BY <1>1, <1>2, QueueTypes, HeadTailProperties
    <3> QED
      BY <1>2, <1>3, <1>5, <3>1 DEF Addressed
  <2>2. \A s \in Senders, d \in Actors : PairFlow(s, d)'
    BY <1>2, <1>4, <1>5 DEF PairFlow, Sent
  <2> QED
    BY <2>1, <2>2, FlowParts
<1>6. ASSUME NEW x \in Actors, MaySend(a, x), NoteSent(a, x),
             send' = [send EXCEPT ![a] =
                 Append(@, [src |-> a, dst |-> x, n |-> NextNo(a, x)])]
      PROVE  FlowInv'
  <2> DEFINE y == [src |-> a, dst |-> x, n |-> NextNo(a, x)]
  <2>1. /\ y \in By(a) /\ y.src = a /\ y.dst = x /\ y.n = seq[a][x] + 1
        /\ seq' = [seq EXCEPT ![a][x] = seq[a][x] + 1]
    <3>1. a \in Senders /\ seq[a][x] \in 0..MaxSeq /\ seq[a][x] < MaxSeq
      BY <1>2, <1>6, QueueTypes DEF MaySend, Senders
    <3>2. seq[a][x] + 1 \in 1..MaxSeq /\ NextNo(a, x) = seq[a][x] + 1
      BY <3>1, LimitsAssumption DEF NextNo
    <3> QED
      BY <1>6, <3>1, <3>2 DEF NoteSent, By, Msg
  <2>2. /\ send'[a] = Append(send[a], y)
        /\ \A b \in Actors : b # a => send'[b] = send[b]
        /\ \A s \in Senders, d \in Actors :
             seq'[s][d] = IF s = a /\ d = x THEN seq[a][x] + 1 ELSE seq[s][d]
    BY <1>6, <2>1 DEF CoreInv, TypeOK, Senders
  <2> HIDE DEF y
  <2>3. Addressed'
    <3>1. Tail(run[a]) \in Seq(To(a)) /\ send[a] \in Seq(By(a))
      BY <1>1, <1>2, QueueTypes, HeadTailProperties
    <3>2. send'[a] \in Seq(By(a))
      BY <2>1, <2>2, <3>1, AppendProperties
    <3> QED
      BY <1>2, <1>3, <2>2, <3>1, <3>2 DEF Addressed
  <2>4. ASSUME NEW s \in Senders, NEW d \in Actors PROVE PairFlow(s, d)'
    <3>1. /\ Flows(run'[d], recv[d], Sent(s), s, d, done'[s][d], seq[s][d])
          /\ Pending[d] <= 0 =>
               Full(run'[d], recv[d], Sent(s), s, d, done'[s][d], seq[s][d])
      BY <1>4
    <3>2. CASE s # a
      <4>1. Sent(s)' = Sent(s) /\ seq'[s][d] = seq[s][d]
        BY <2>2, <3>2, SentIsQueue DEF CoreInv, Senders
      <4> QED
        BY <1>2, <3>1, <4>1 DEF PairFlow
    <3>3. CASE s = a
      <4>1. /\ Sent(s) = send[a] /\ Sent(s)' = Append(send[a], y)
            /\ send[a] \in Seq(By(a))
            /\ done'[s][d] \in Int /\ seq[s][d] \in Int
        <5>1. /\ Sent(s) = send[a] /\ Sent(s)' = send'[a]
              /\ send[a] \in Seq(By(a))
          BY <1>2, <3>3, SentIsQueue, QueueTypes DEF CoreInv
        <5>2. done[s][d] \in Int /\ seq[s][d] \in Int
          BY <1>2, QueueTypes, LimitsAssumption
        <5>3. done'[s][d] \in Int
          BY <1>3, <5>2
        <5> QED
          BY <2>2, <5>1, <5>2, <5>3
      <4>2. CASE d = x
        <5>1. seq'[s][d] = seq[s][d] + 1 /\ y.src = s /\ y.dst = d
              /\ y.n = seq[s][d] + 1
          BY <2>1, <2>2, <3>3, <4>2
        <5>2. /\ Flows(run'[d], recv[d], Append(send[a], y), s, d,
                       done'[s][d], seq[s][d] + 1)
              /\ Pending[d] <= 0 =>
                   Full(run'[d], recv[d], Append(send[a], y), s, d,
                       done'[s][d], seq[s][d] + 1)
          BY <2>1, <3>1, <4>1, <5>1, SendFlow
        <5> QED
          BY <1>2, <4>1, <5>1, <5>2 DEF PairFlow
      <4>3. CASE d # x
        <5>1. seq'[s][d] = seq[s][d] /\ ~(y.src = s /\ y.dst = d)
          BY <2>1, <2>2, <3>3, <4>3
        <5>2. /\ Flows(run'[d], recv[d], Append(send[a], y), s, d,
                       done'[s][d], seq[s][d])
              /\ Pending[d] <= 0 =>
                   Full(run'[d], recv[d], Append(send[a], y), s, d,
                       done'[s][d], seq[s][d])
          BY <2>1, <3>1, <4>1, <5>1, OtherAppendFlow
        <5> QED
          BY <1>2, <4>1, <5>1, <5>2 DEF PairFlow
      <4> QED
        BY <4>2, <4>3
    <3> QED
      BY <3>2, <3>3
  <2> QED
    BY <2>3, <2>4, FlowParts
<1> QED
  BY <1>1, <1>5, <1>6 DEF ProcMsg

(* What Deliver does to the queues of the receiver.                         *)
LEMMA Delivered ==
    ASSUME CoreInv, Addressed, NEW m \in Msg, Deliver(m)
    PROVE  /\ m.dst \in Actors
           /\ recv'[m.dst] = Recv(recv[m.dst], m, Pending[m.dst])
           /\ recv'[m.dst] \in Seq(To(m.dst))
           /\ \A d \in Actors : d # m.dst => recv'[d] = recv[d]
<1> DEFINE x == m.dst
<1>1. x \in Actors /\ m \in To(x)
  BY DEF Msg, To
<1>2. /\ recv'[x] = Recv(recv[x], m, Pending[x])
      /\ \A d \in Actors : d # x => recv'[d] = recv[d]
  BY <1>1 DEF Deliver, CoreInv, TypeOK
<1>3. recv[x] \in Seq(To(x)) /\ Pending[x] \in Int
  BY <1>1, QueueTypes
<1> HIDE DEF x
<1>4. Recv(recv[x], m, Pending[x]) \in Seq(To(x))
  BY <1>1, <1>3, RecvType
<1> QED
  BY <1>1, <1>2, <1>4 DEF x

(* A message of another pair is delivered.                                  *)
LEMMA OtherDelivered ==
    ASSUME CoreInv, Addressed, NEW m \in Msg, Deliver(m),
           NEW s \in Senders, NEW d \in Actors, PairFlow(s, d), m.src # s,
           UNCHANGED <<run, done>>, Sent(s)' = Sent(s), seq'[s][d] = seq[s][d]
    PROVE  PairFlow(s, d)'
<1>1. CASE d = m.dst
  <2>1. /\ recv[d] \in Seq(To(d)) /\ Pending[d] \in Int /\ m \in To(d)
        /\ recv'[d] = Recv(recv[d], m, Pending[d])
    BY <1>1, QueueTypes, Delivered DEF To
  <2>2. /\ Flows(run[d], Recv(recv[d], m, Pending[d]), Sent(s), s, d,
                 done[s][d], seq[s][d])
        /\ Pending[d] <= 0 =>
             Full(run[d], Recv(recv[d], m, Pending[d]), Sent(s), s, d,
                 done[s][d], seq[s][d])
    BY <2>1, OtherRecvFlow DEF PairFlow
  <2> QED
    BY <2>1, <2>2 DEF PairFlow
<1>2. CASE d # m.dst
  BY <1>2, Delivered DEF PairFlow
<1> QED
  BY <1>1, <1>2

LEMMA DispatchOneFlow ==
    ASSUME CoreInv, FlowInv, DispatchOne
    PROVE  FlowInv'
<1>1. PICK a \in Actors : a = ctx[cur] /\ send[a] # <<>>
  BY DEF DispatchOne, CoreInv, TypeOK
<1>2. PICK m \in Msg : m = Head(send[a])
  BY <1>1, HeadTailProperties DEF CoreInv, TypeOK
<1>3. /\ Deliver(m) /\ UNCHANGED <<run, seq, done>>
      /\ send' = [send EXCEPT ![a] = Tail(@)]
  BY <1>1, <1>2 DEF DispatchOne, histVars
<1>4. Addressed
  BY FlowParts
<1>5. /\ send[a] \in Seq(By(a)) /\ m \in By(a) /\ m.src = a
      /\ Tail(send[a]) \in Seq(By(a)) /\ send'[a] = Tail(send[a])
      /\ \A b \in Actors : b # a => send'[b] = send[b]
  <2>1. send[a] \in Seq(By(a)) /\ m \in By(a) /\ Tail(send[a]) \in Seq(By(a))
    BY <1>1, <1>2, <1>4, QueueTypes, HeadTailProperties
  <2> QED
    BY <1>3, <2>1 DEF By, CoreInv, TypeOK
<1>6. Addressed'
  BY <1>3, <1>4, <1>5, Delivered DEF Addressed
<1>7. ASSUME NEW s \in Senders, NEW d \in Actors PROVE PairFlow(s, d)'
  <2>1. PairFlow(s, d)
    BY FlowParts
  <2>2. CASE s # a
    <3>1. Sent(s)' = Sent(s)
      BY <1>5, <2>2, SentIsQueue DEF CoreInv, Senders
    <3> QED
      BY <1>3, <1>4, <1>5, <2>1, <2>2, <3>1, OtherDelivered
  <2>3. CASE s = a
    <3>1. /\ Sent(s) = send[a] /\ Sent(s)' = Tail(send[a])
          /\ recv[d] \in Seq(To(d)) /\ Pending[d] \in Int
      BY <1>4, <1>5, <2>3, SentIsQueue, QueueTypes DEF CoreInv
    <3>2. CASE d = m.dst
      <4>1. recv'[d] = Recv(recv[d], Head(send[a]), Pending[d])
        BY <1>2, <1>3, <1>4, <3>2, Delivered
      <4>2. recv[d] \in Seq(Msg) /\ send[a] \in Seq(Msg)
        BY DEF CoreInv, TypeOK
      <4>3. /\ Flows(run[d], Recv(recv[d], Head(send[a]), Pending[d]),
                     Tail(send[a]), s, d, done[s][d], seq[s][d])
            /\ Pending[d] <= 0 =>
                 Full(run[d], Recv(recv[d], Head(send[a]), Pending[d]),
                     Tail(send[a]), s, d, done[s][d], seq[s][d])
        BY <1>1, <2>1, <3>1, <4>2, DispatchFlow DEF PairFlow
      <4> QED
        BY <1>3, <3>1, <4>1, <4>3 DEF PairFlow
    <3>3. CASE d # m.dst
      <4>1. recv'[d] = recv[d]
        BY <1>3, <1>4, <3>3, Delivered
      <4>2. ~(Head(send[a]).src = s /\ Head(send[a]).dst = d)
        BY <1>2, <3>3
      <4>3. /\ Flows(run[d], recv[d], Tail(send[a]), s, d, done[s][d], seq[s][d])
            /\ Pending[d] <= 0 =>
                 Full(run[d], recv[d], Tail(send[a]), s, d, done[s][d], seq[s][d])
        BY <1>1, <1>5, <2>1, <3>1, <4>2, OtherTailFlow DEF PairFlow
      <4> QED
        BY <1>3, <3>1, <4>1, <4>3 DEF PairFlow
    <3> QED
      BY <3>2, <3>3
  <2> QED
    BY <2>2, <2>3
<1> QED
  BY <1>6, <1>7, FlowParts

LEMMA ProcessOtherFlow ==
    ASSUME CoreInv, FlowInv, Counted, ProcessOther
    PROVE  FlowInv'
<1>1. UNCHANGED <<run, send, done>>
  BY DEF ProcessOther
<1>2. CASE UNCHANGED <<recv, inWait, waitQ, seq>>
  BY <1>1, <1>2, QuietFlow
<1>3. ASSUME NEW x \in Actors, MaySend(ext, x), NoteSent(ext, x),
             Deliver([src |-> ext, dst |-> x, n |-> NextNo(ext, x)])
      PROVE  FlowInv'
  <2>1. Addressed /\ ext \in Senders
    BY FlowParts DEF Senders
  <2>2. /\ NextNo(ext, x) = seq[ext][x] + 1 /\ NextNo(ext, x) \in 1..MaxSeq
        /\ seq' = [seq EXCEPT ![ext][x] = seq[ext][x] + 1]
    <3>1. seq[ext][x] \in 0..MaxSeq /\ seq[ext][x] < MaxSeq
      BY <1>3, <2>1, QueueTypes DEF MaySend
    <3> QED
      BY <1>3, <3>1, LimitsAssumption DEF NextNo, NoteSent
  <2>3. PICK m \in Msg : m = [src |-> ext, dst |-> x, n |-> NextNo(ext, x)]
    BY <2>1, <2>2 DEF Msg
  <2>4. /\ Deliver(m) /\ m.src = ext /\ m.dst = x /\ m.n = seq[ext][x] + 1
        /\ \A s \in Senders, d \in Actors :
             seq'[s][d] = IF s = ext /\ d = x THEN seq[ext][x] + 1 ELSE seq[s][d]
    <3>1. seq \in [Senders -> [Actors -> 0..MaxSeq]]
      BY DEF CoreInv, TypeOK
    <3>2. ASSUME NEW s \in Senders, NEW d \in Actors
          PROVE  seq'[s][d] = IF s = ext /\ d = x THEN seq[ext][x] + 1
                              ELSE seq[s][d]
      BY <2>1, <2>2, <3>1
    <3> QED
      BY <1>3, <2>2, <2>3, <3>2
  <2>5. Addressed'
    BY <1>1, <2>1, <2>4, Delivered DEF Addressed
  <2>6. ASSUME NEW s \in Senders, NEW d \in Actors PROVE PairFlow(s, d)'
    <3>1. PairFlow(s, d) /\ Sent(s)' = Sent(s)
      BY <1>1, FlowParts DEF Sent
    <3>2. CASE s # ext
      BY <1>1, <2>1, <2>4, <3>1, <3>2, OtherDelivered
    <3>3. CASE s = ext /\ d # x
      BY <1>1, <2>1, <2>4, <3>1, <3>3, Delivered DEF PairFlow
    <3>4. CASE s = ext /\ d = x
      <4>1. Sent(s) = <<>> /\ recv[d] \in Seq(To(d)) /\ m \in To(d)
        BY <2>1, <2>4, <3>4, SentIsQueue, QueueTypes DEF CoreInv, To
      <4>2. Pending[d] \in Int /\ done[s][d] \in Int /\ seq[s][d] \in Int
        BY <2>1, QueueTypes, LimitsAssumption
      <4>3. seq'[s][d] = seq[s][d] + 1 /\ m.src = s /\ m.dst = d
            /\ m.n = seq[s][d] + 1
        BY <2>4, <3>4
      <4>4. /\ Flows(run[d], Recv(recv[d], m, Pending[d]), <<>>, s, d,
                     done[s][d], seq[s][d] + 1)
            /\ Pending[d] <= 0 =>
                 Full(run[d], Recv(recv[d], m, Pending[d]), <<>>, s, d,
                     done[s][d], seq[s][d] + 1)
        <5>1. /\ Flows(run[d], recv[d], <<>>, s, d, done[s][d], seq[s][d])
              /\ Pending[d] <= 0 =>
                   Full(run[d], recv[d], <<>>, s, d, done[s][d], seq[s][d])
          BY <3>1, <4>1, Zenon DEF PairFlow
        <5>2. /\ Flows(run[d], Recv(recv[d], m, Pending[d]), <<>>, s, d,
                       done[s][d], seq[s][d] + 1)
              /\ Pending[d] <= 0
                 /\ Full(run[d], recv[d], <<>>, s, d, done[s][d], seq[s][d])
                 => Full(run[d], Recv(recv[d], m, Pending[d]), <<>>, s, d,
                         done[s][d], seq[s][d] + 1)
          BY ONLY <4>1, <4>2, <4>3, <5>1, OutsideFlow
        <5> QED
          BY <5>1, <5>2, Zenon
      <4>5. recv'[d] = Recv(recv[d], m, Pending[d])
        BY <2>1, <2>4, <3>4, Delivered
      <4> QED
        BY <1>1, <3>1, <4>1, <4>3, <4>4, <4>5 DEF PairFlow
    <3> QED
      BY <3>2, <3>3, <3>4
  <2> QED
    BY <2>5, <2>6, FlowParts
<1> QED
  BY <1>2, <1>3 DEF ProcessOther

LEMMA FlowNext ==
    ASSUME CoreInv, WaitQueueExact, ActorInv, FlowInv, Counted,
           appState = "running", [Next]_vars, appState' = "running"
    PROVE  FlowInv'
<1> USE DEF mailboxVars, histVars
<1>1. CASE AssignActor
  BY <1>1, AssignFlow DEF AssignActor
<1>2. CASE \/ CheckDone \/ Wait \/ (\E w \in Workers : BeginEvent(w))
           \/ FinishEvent \/ ProcessDone \/ Quit \/ UNCHANGED vars
  <2>1. UNCHANGED <<run, recv, send, done, seq>>
    BY <1>2 DEF CheckDone, Wait, BeginEvent, FinishEvent, ProcessDone, Quit,
                QuitCheck, QuitGoesOn, QuitStore, StopAllWorker, SendQuit, vars
  <2> QED
    BY <2>1, QuietFlow
<1>3. CASE ProcessOther
  BY <1>3, ProcessOtherFlow
<1>4. CASE DispatchOne
  BY <1>4, DispatchOneFlow
<1>5. CASE JoinAll
  BY <1>5 DEF JoinAll
<1>6. ASSUME NEW w \in Workers, Worker(w) PROVE FlowInv'
  <2>1. CASE ProcMsg(w)
    BY <2>1, ProcMsgFlow
  <2>2. CASE SendIdle(w) \/ RecvCmd(w) \/ WorkDone(w) \/ Exit(w)
    <3>1. UNCHANGED <<run, recv, send, done, seq>>
      BY <2>2 DEF SendIdle, RecvCmd, WorkDone, Exit
    <3> QED
      BY <3>1, QuietFlow
  <2> QED
    BY <1>6, <2>1, <2>2 DEF Worker
<1> QED
  BY <1>1, <1>2, <1>3, <1>4, <1>5, <1>6
  DEF Next, SteadyNext, Main, Terminated

-----------------------------------------------------------------------------
(* The invariant, and what follows from it.                                 *)

LEMMA InitActors == Init => ActorInv /\ FlowInv
<1> SUFFICES ASSUME Init PROVE ActorInv /\ FlowInv
  OBVIOUS
<1> USE DEF Init
<1>1. CoreInv
  BY InitInv
<1>2. /\ \A a \in Actors : run[a] = <<>> /\ recv[a] = <<>> /\ send[a] = <<>>
                            /\ inWorker[a] = FALSE
      /\ \A w \in Workers : ctx[w] = None
      /\ \A s \in Senders, d \in Actors : done[s][d] = 0 /\ seq[s][d] = 0
  OBVIOUS
<1>3. ActorInv
  BY <1>2 DEF ActorInv
<1>4. Addressed
  BY <1>2, EmptySeq DEF Addressed
<1>5. \A s, d : Numbers(<<>>, s, d) = {} /\ Rising(<<>>, s, d)
  BY ToMainOps DEF Numbers, Rising, From
<1>6. ASSUME NEW s \in Senders, NEW d \in Actors PROVE PairFlow(s, d)
  <2>1. Sent(s) = <<>>
    BY <1>2 DEF Sent
  <2> QED
    BY <1>2, <1>5, <2>1 DEF PairFlow, Flows, Full, Below, OnTheWay
<1> QED
  BY <1>3, <1>4, <1>6, FlowParts

LEMMA StillRunning == [Next]_vars /\ appState' = "running" => appState = "running"
<1> SUFFICES ASSUME [Next]_vars, appState' = "running" PROVE appState = "running"
  OBVIOUS
<1> USE DEF quitVars, mainVars
<1>1. CASE Main
  BY <1>1 DEF Main, AssignActor, Assign, CheckDone, Wait, ProcessOther,
              BeginEvent, DispatchOne, FinishEvent, ProcessDone, JoinAll
<1>2. CASE \E w \in Workers : Worker(w)
  BY <1>2 DEF Worker, SendIdle, RecvCmd, ProcMsg, WorkDone, Exit
<1>3. CASE Quit \/ UNCHANGED vars
  BY <1>3 DEF Quit, QuitCheck, QuitGoesOn, QuitStore, StopAllWorker, SendQuit,
              vars
<1> QED
  BY <1>1, <1>2, <1>3 DEF Next, SteadyNext, Terminated

LEMMA IInvInit == Init => IInv
  BY InitInv, InitQueues, InitActors DEF IInv

LEMMA IInvNext == IInv /\ [Next]_vars => IInv'
<1> SUFFICES ASSUME IInv, [Next]_vars PROVE IInv'
  OBVIOUS
<1>1. CoreInv /\ WaitQueueExact /\ BatchesHeld
  BY DEF IInv
<1>2. CoreInv' /\ WaitQueueExact' /\ BatchesHeld'
  BY <1>1, NextInv, WaitQueueNext, BatchesNext
<1>3. ASSUME appState' = "running" PROVE ActorInv' /\ (Counted => FlowInv')
  <2>1. appState = "running" /\ ActorInv /\ (Counted => FlowInv)
    BY <1>3, StillRunning DEF IInv
  <2> QED
    BY <1>1, <1>3, <2>1, ActorNext, FlowNext
<1> QED
  BY <1>2, <1>3 DEF IInv

(* The inductive invariant of all safety properties holds, with or without  *)
(* Quit, whatever the limits and the traffic.                               *)
THEOREM IInvHolds == Spec => []IInv
  BY IInvInit, IInvNext, PTL DEF Spec

LEMMA OrderFromFlow ==
    ASSUME CoreInv, FlowInv
    PROVE  OrderKept /\ NothingLost
<1> SUFFICES ASSUME NEW s \in Senders, NEW d \in Actors
             PROVE  /\ Rising(InFlight(s, d), s, d)
                    /\ \A n \in Numbers(InFlight(s, d), s, d) : done[s][d] < n
                    /\ Pending[d] <= 0 =>
                         Numbers(InFlight(s, d), s, d) = done[s][d] + 1 .. seq[s][d]
  BY DEF OrderKept, NothingLost
<1> DEFINE p == run[d]
           q == recv[d]
           r == Sent(s)
           pq == p \o q
           lo == done[s][d]
           hi == seq[s][d]
<1>1. /\ p \in Seq(Msg) /\ q \in Seq(Msg) /\ r \in Seq(Msg)
      /\ lo \in Int /\ hi \in Int
  <2>1. r \in Seq(Msg)
    BY SentIsQueue DEF CoreInv
  <2> QED
    BY <2>1, LimitsAssumption DEF CoreInv, TypeOK
<1>2. /\ Flows(p, q, r, s, d, lo, hi)
      /\ Pending[d] <= 0 => Full(p, q, r, s, d, lo, hi)
  BY DEF FlowInv
<1>3. InFlight(s, d) = pq \o r /\ pq \in Seq(Msg)
  BY <1>1, ConcatProperties DEF InFlight
<1>4. /\ Numbers(pq, s, d) = Numbers(p, s, d) \cup Numbers(q, s, d)
      /\ Rising(pq, s, d)
  BY <1>1, <1>2, ConcatFlow DEF Flows
<1> HIDE DEF p, q, r, pq, lo, hi
<1>5. /\ Numbers(pq \o r, s, d) = OnTheWay(p, q, r, s, d)
      /\ Rising(pq \o r, s, d)
  <2>1. Below(pq, r, s, d) /\ Rising(r, s, d)
    BY <1>2, <1>4 DEF Flows, Below
  <2>2. /\ Numbers(pq \o r, s, d) = Numbers(pq, s, d) \cup Numbers(r, s, d)
        /\ Rising(pq \o r, s, d) <=>
             Rising(pq, s, d) /\ Rising(r, s, d) /\ Below(pq, r, s, d)
    BY <1>1, <1>3, ConcatFlow
  <2> QED
    BY <1>4, <2>1, <2>2 DEF OnTheWay
<1>6. OnTheWay(p, q, r, s, d) \subseteq lo + 1 .. hi
  BY <1>2 DEF Flows
<1>7. Pending[d] <= 0 => OnTheWay(p, q, r, s, d) = lo + 1 .. hi
  BY <1>2, <1>6 DEF Full
<1>8. \A n \in OnTheWay(p, q, r, s, d) : lo < n
  BY <1>1, <1>6
<1> QED
  BY <1>3, <1>5, <1>7, <1>8 DEF lo, hi

(* While nobody has called Quit, the messages of a sender to a receiver are *)
(* processed in the order they were sent, none twice; without a pending     *)
(* limit none is lost on its way through send, recv and run.                *)
THEOREM OrderUntilQuit ==
    ASSUME Counted
    PROVE  Spec => [](appState = "running" => OrderKept /\ NothingLost)
<1>1. IInv => (appState = "running" => OrderKept /\ NothingLost)
  BY OrderFromFlow DEF IInv
<1> QED
  BY <1>1, IInvHolds, PTL

-----------------------------------------------------------------------------
(* Without Quit.                                                            *)

LEMMA SteadyStep ==
    ASSUME Workers # {}, IInv, appState = "running", [SteadyNext]_vars
    PROVE  IInv' /\ appState' = "running" /\ ~JoinAll
<1>1. registered = Workers
  BY Running DEF IInv
<1>2. ~JoinAll
  BY <1>1 DEF JoinAll, IInv, CoreInv, WorkerInv
<1>3. appState' = appState
  BY <1>2 DEF SteadyNext, Main, AssignActor, Assign, CheckDone, Wait,
     ProcessOther, BeginEvent, DispatchOne, FinishEvent, ProcessDone, Worker,
     SendIdle, RecvCmd, ProcMsg, WorkDone, Exit, quitVars, vars
<1> QED
  BY <1>2, <1>3, IInvNext DEF Next

LEMMA SteadyInv ==
    ASSUME Workers # {}
    PROVE  SteadySpec => [](IInv /\ appState = "running")
<1>1. Init => IInv /\ appState = "running"
  BY IInvInit DEF Init
<1>2. IInv /\ appState = "running" /\ [SteadyNext]_vars
        => (IInv /\ appState = "running")'
  BY SteadyStep
<1> QED
  BY <1>1, <1>2, PTL DEF SteadySpec

(* With a pending limit messages may be dropped, but those that survive     *)
(* keep the order of their sender and none is processed twice.              *)
THEOREM OrderIsKept ==
    ASSUME Counted, Workers # {}
    PROVE  SteadySpec => []OrderKept
<1>1. IInv /\ appState = "running" => OrderKept
  BY OrderFromFlow DEF IInv
<1> QED
  BY <1>1, SteadyInv, PTL

(* Without a pending limit, whatever was sent and is not yet processed is   *)
(* on its way, complete and in order.                                       *)
THEOREM NoMessageIsLost ==
    ASSUME Counted, Workers # {}
    PROVE  SteadySpec => []NothingLost
<1>1. IInv /\ appState = "running" => NothingLost
  BY OrderFromFlow DEF IInv
<1> QED
  BY <1>1, SteadyInv, PTL

-----------------------------------------------------------------------------
(* The scheduler implements ActorSpec: every step is one of the actors, or  *)
(* none that they can see.                                                  *)

Busy == { a \in Actors : inWorker[a] }

LEMMA Hidden ==
    ASSUME UNCHANGED <<recv, run, send, inWorker>>
    PROVE  [Promise!Next]_(Promise!avars)
  BY DEF Promise!avars

LEMMA BusyAfter ==
    ASSUME TypeOK, NEW a \in Actors
    PROVE  /\ inWorker' = [inWorker EXCEPT ![a] = TRUE] => Busy' = Busy \cup {a}
           /\ inWorker' = [inWorker EXCEPT ![a] = FALSE] => Busy' = Busy \ {a}
  BY DEF TypeOK, Busy

(* ActorSpec has the same mailboxes.                                        *)
LEMMA SameMailbox ==
    /\ \A q, m, k : Promise!Recv(q, m, k) = Recv(q, m, k)
    /\ \A q, k : /\ Promise!BatchLen(q, k) = BatchLen(q, k)
                 /\ Promise!RecvAfterMove(q, k) = RecvAfterMove(q, k)
  BY DEF Promise!Recv, Recv, Promise!BatchLen, BatchLen, Promise!Min2, Min2,
         Promise!RecvAfterMove, RecvAfterMove

LEMMA SameCardinality == \A S : Promise!Cardinality(S) = Cardinality(S)
  BY DEF Promise!Cardinality, Cardinality

(* Busy actors have workers, and an idle worker has none.                   *)
LEMMA FewBusy ==
    ASSUME CoreInv, ActorInv, NEW w \in Workers, ctx[w] = None
    PROVE  Cardinality(Busy) < Cardinality(Workers)
<1> DEFINE T == Workers \ {w}
           holder == [a \in Busy |-> CHOOSE v \in Workers : ctx[v] = a]
<1>1. \A a \in Busy : holder[a] \in Workers /\ ctx[holder[a]] = a
  BY DEF Busy, ActorInv
<1>2. holder \in [Busy -> T]
  <2>1. \A a \in Busy : a # None
    BY NamesAssumption DEF Busy
  <2>2. \A a \in Busy : (CHOOSE v \in Workers : ctx[v] = a) \in T
    BY <1>1, <2>1
  <2> QED
    BY <2>2
<1> HIDE DEF holder
<1>3. holder \in Injection(Busy, T)
  BY <1>1, <1>2 DEF Injection, IsInjective
<1>4. /\ IsFiniteSet(T) /\ Cardinality(T) = Cardinality(Workers) - 1
      /\ Cardinality(Workers) \in Nat
  BY ThreadsAssumption, FS_RemoveElement, FS_CardinalityType
<1>5. IsFiniteSet(Busy) /\ Cardinality(Busy) <= Cardinality(T)
  BY <1>3, <1>4, FS_Injection
<1>6. Cardinality(Busy) \in Nat
  BY <1>5, FS_CardinalityType
<1> HIDE DEF T
<1> QED
  BY <1>4, <1>5, <1>6

LEMMA AssignIsBegin ==
    ASSUME IInv, appState = "running", NEW k \in 1..Len(waitQ), Assign(k)
    PROVE  \E a \in Actors : Promise!Begin(a)
<1>1. CoreInv /\ WaitQueueExact /\ ActorInv
  BY DEF IInv
<1>2. PICK a \in Actors, w \in Workers :
        /\ ~inWorker[a] /\ recv[a] # <<>> /\ cur = None /\ ctx[w] = None
        /\ inWorker' = [inWorker EXCEPT ![a] = TRUE]
        /\ run' = [run EXCEPT ![a] = RunAfterMove(recv[a], run[a], RunSize[a])]
        /\ recv' = [recv EXCEPT ![a] = RecvAfterMove(recv[a], RunSize[a])]
        /\ send' = send
  BY <1>1, Assigned
<1>3. run[a] = <<>> /\ send[a] = <<>>
  BY <1>1, <1>2 DEF ActorInv
<1>4. Cardinality(Busy) < Cardinality(Workers)
  BY <1>1, <1>2, FewBusy
<1>5. RunAfterMove(recv[a], <<>>, RunSize[a])
        = SubSeq(recv[a], 1, BatchLen(recv[a], RunSize[a]))
  <2> DEFINE b == SubSeq(recv[a], 1, BatchLen(recv[a], RunSize[a]))
  <2>1. recv[a] \in Seq(Msg) /\ RunSize[a] \in Int
    BY <1>1, LimitsAssumption DEF CoreInv, TypeOK
  <2>2. BatchLen(recv[a], RunSize[a]) \in 0..Len(recv[a]) /\ Len(recv[a]) \in Nat
    BY <2>1, BatchLenBound, LenProperties
  <2>3. \A i \in 1..BatchLen(recv[a], RunSize[a]) : recv[a][i] \in Msg
    BY <2>1, <2>2, ElementOfSeq
  <2>4. b \in Seq(Msg)
    BY <2>2, <2>3, SubSeqProperties
  <2> QED
    BY <2>4, ConcatEmptySeq DEF RunAfterMove
<1>6. a \notin Busy /\ Busy' = Busy \cup {a}
  BY <1>1, <1>2, BusyAfter DEF CoreInv, Busy
<1>7. /\ run' = [run EXCEPT ![a] =
                    SubSeq(recv[a], 1, BatchLen(recv[a], RunSize[a]))]
      /\ recv' = [recv EXCEPT ![a] = RecvAfterMove(@, RunSize[a])]
  BY <1>2, <1>3, <1>5
<1>8. Promise!Begin(a)
  BY <1>2, <1>3, <1>4, <1>6, <1>7, SameMailbox, SameCardinality
  DEF Promise!Begin, Busy
<1> QED
  BY <1>8

LEMMA ProcMsgIsHandle ==
    ASSUME CoreInv, NEW w \in Workers, ProcMsg(w)
    PROVE  \E a \in Actors : Promise!Handle(a)
<1>1. PICK a \in Actors : a = ctx[w] /\ run[a] # <<>> /\ w \in registered /\ cur # w
  BY ExecutingWorker DEF ProcMsg
<1>2. inWorker[a]
  BY <1>1, NamesAssumption DEF CoreInv, WorkerInv, Holds
<1>3. UNCHANGED <<recv, inWorker>> /\ run' = [run EXCEPT ![a] = Tail(@)]
  BY <1>1 DEF ProcMsg, queueVars
<1>4. \/ UNCHANGED send
      \/ \E m \in Msg : m.src = a /\ send' = [send EXCEPT ![a] = Append(@, m)]
  <2>1. CASE UNCHANGED <<send, seq>>
    BY <2>1
  <2>2. ASSUME NEW d \in Actors, MaySend(a, d),
               send' = [send EXCEPT ![a] =
                   Append(@, [src |-> a, dst |-> d, n |-> NextNo(a, d)])]
        PROVE  <1>4
    <3>1. seq[a][d] \in 0..MaxSeq
      BY DEF CoreInv, TypeOK, Senders
    <3>2. [src |-> a, dst |-> d, n |-> NextNo(a, d)] \in Msg
      BY <2>2, <3>1, LimitsAssumption DEF MaySend, NextNo, Msg, Senders
    <3> QED
      BY <2>2, <3>2
  <2> QED
    BY <1>1, <2>1, <2>2 DEF ProcMsg
<1>5. Promise!Handle(a)
  BY <1>1, <1>2, <1>3, <1>4 DEF Promise!Handle
<1> QED
  BY <1>5

LEMMA BeginEventIsEnd ==
    ASSUME CoreInv, ActorInv, appState = "running",
           NEW w \in Workers, BeginEvent(w)
    PROVE  [Promise!Next]_(Promise!avars)
<1>1. /\ UNCHANGED <<recv, run, send>> /\ cur = None /\ batch[w] > 0
      /\ inWorker' = IF ctx[w] = None THEN inWorker
                     ELSE [inWorker EXCEPT ![ctx[w]] = FALSE]
  BY DEF BeginEvent, mailboxVars, CoreInv, TypeOK
<1>2. CASE ctx[w] = None
  BY <1>1, <1>2, Hidden
<1>3. CASE ctx[w] # None
  <2>1. PICK a \in Actors : a = ctx[w]
    BY <1>3 DEF CoreInv, TypeOK
  <2>2. HasIdle(w) /\ w \in registered
    BY <1>1, Speaking, Running
  <2>3. run[a] = <<>> /\ inWorker[a]
    BY <1>1, <1>3, <2>1, <2>2, NamesAssumption
    DEF ActorInv, CoreInv, WorkerInv, Holds
  <2>4. a \in Busy /\ Busy' = Busy \ {a}
    BY <1>1, <1>3, <2>1, <2>3, BusyAfter DEF CoreInv, Busy
  <2>5. Promise!End(a)
    BY <1>1, <2>3, <2>4 DEF Promise!End, Busy
  <2> QED
    BY <2>5 DEF Promise!Next
<1> QED
  BY <1>2, <1>3

LEMMA DispatchIsRoute ==
    ASSUME CoreInv, ActorInv, appState = "running", DispatchOne
    PROVE  \E a \in Actors : Promise!Route(a)
<1>1. PICK a \in Actors : a = ctx[cur] /\ send[a] # <<>> /\ cur \in Workers
  BY DEF DispatchOne, CoreInv, TypeOK
<1>2. ~inWorker[a]
  <2> SUFFICES ASSUME NEW v \in Workers, ctx[v] = a, v # cur PROVE FALSE
    BY DEF ActorInv
  <2>1. v \in registered /\ cur \in registered
    BY <1>1, Running
  <2> QED
    BY <1>1, <2>1, NamesAssumption DEF CoreInv, WorkerInv, UniqueHolder
<1>3. /\ UNCHANGED <<run, inWorker>> /\ send' = [send EXCEPT ![a] = Tail(@)]
      /\ Promise!Accept(Head(send[a]))
  BY <1>1, SameMailbox DEF DispatchOne, Deliver, Promise!Accept
<1>4. Promise!Route(a)
  BY <1>1, <1>2, <1>3 DEF Promise!Route
<1> QED
  BY <1>4

LEMMA OtherIsArrive ==
    ASSUME CoreInv, ProcessOther
    PROVE  [Promise!Next]_(Promise!avars)
<1>1. UNCHANGED <<run, send, inWorker>>
  BY DEF ProcessOther
<1>2. CASE UNCHANGED <<recv, inWait, waitQ, seq>>
  BY <1>1, <1>2, Hidden
<1>3. ASSUME NEW d \in Actors, MaySend(ext, d),
             Deliver([src |-> ext, dst |-> d, n |-> NextNo(ext, d)])
      PROVE  Promise!Arrive
  <2>1. seq[ext][d] \in 0..MaxSeq /\ ext \in Senders
    BY DEF CoreInv, TypeOK, Senders
  <2>2. PICK m \in Msg : m = [src |-> ext, dst |-> d, n |-> NextNo(ext, d)]
    BY <1>3, <2>1, LimitsAssumption DEF MaySend, NextNo, Msg
  <2>3. m.src \notin Actors /\ Promise!Accept(m)
    BY <1>3, <2>2, NamesAssumption, SameMailbox DEF Deliver, Promise!Accept
  <2> QED
    BY <1>1, <2>3 DEF Promise!Arrive
<1> QED
  BY <1>2, <1>3 DEF ProcessOther, Promise!Next

LEMMA SteadyIsPromised ==
    ASSUME Workers # {}, IInv, appState = "running", [SteadyNext]_vars
    PROVE  [Promise!Next]_(Promise!avars)
<1> USE DEF mailboxVars, queueVars
<1>1. CoreInv /\ ActorInv
  BY DEF IInv
<1>2. CASE AssignActor
  BY <1>2, AssignIsBegin DEF AssignActor, Promise!Next
<1>3. CASE \/ CheckDone \/ Wait \/ FinishEvent \/ ProcessDone \/ UNCHANGED vars
           \/ \E w \in Workers : SendIdle(w) \/ RecvCmd(w) \/ WorkDone(w) \/ Exit(w)
  <2>1. UNCHANGED <<recv, run, send, inWorker>>
    BY <1>3 DEF CheckDone, Wait, FinishEvent, ProcessDone, SendIdle, RecvCmd,
                WorkDone, Exit, vars
  <2> QED
    BY <2>1, Hidden
<1>4. CASE ProcessOther
  BY <1>1, <1>4, OtherIsArrive
<1>5. CASE \E w \in Workers : BeginEvent(w)
  BY <1>1, <1>5, BeginEventIsEnd
<1>6. CASE DispatchOne
  BY <1>1, <1>6, DispatchIsRoute DEF Promise!Next
<1>7. CASE \E w \in Workers : ProcMsg(w)
  BY <1>1, <1>7, ProcMsgIsHandle DEF Promise!Next
<1>8. ~JoinAll
  BY SteadyStep
<1> QED
  BY <1>2, <1>3, <1>4, <1>5, <1>6, <1>7, <1>8 DEF SteadyNext, Main, Worker

(* The scheduler implements the actor system it promises: actors are        *)
(* executed serially and no more of them than there are workers, batch by   *)
(* batch, and what an actor sent leaves after its batch ended.              *)
THEOREM ImplementsActors ==
    ASSUME Workers # {}
    PROVE  SteadySpec => Promise!Safe
<1>1. Init => Promise!Init
  BY DEF Init, Promise!Init
<1>2. IInv /\ appState = "running" /\ [SteadyNext]_vars
        => [Promise!Next]_(Promise!avars)
  BY SteadyIsPromised
<1> QED
  BY <1>1, <1>2, SteadyInv, PTL DEF SteadySpec, Promise!Safe

=============================================================================
