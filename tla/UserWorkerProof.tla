--------------------------- MODULE UserWorkerProof ---------------------------
(****************************************************************************)
(* Proofs about UserWorker for any number of user workers, any mailbox      *)
(* limits and any traffic, Quit included.                                   *)
(****************************************************************************)
EXTENDS UserWorker, MailboxProof, FiniteSetTheorems

-----------------------------------------------------------------------------
(* The channels.                                                            *)

(* Queues of one and of two commands.                                       *)
LEMMA ShortQueues ==
    /\ Len(<<>>) = 0 /\ \A b : ~In(<<>>, b)
    /\ \A c : /\ Append(<<>>, c) = <<c>> /\ Tail(<<c>>) = <<>>
              /\ Head(<<c>>) = c /\ Len(<<c>>) = 1 /\ <<c>> # <<>>
              /\ \A b : In(<<c>>, b) <=> b = c
    /\ \A c, d : /\ Append(<<c>>, d) = <<c, d>> /\ Tail(<<c, d>>) = <<d>>
                 /\ Head(<<c, d>>) = c /\ Len(<<c, d>>) = 2 /\ <<c, d>> # <<>>
                 /\ \A b : In(<<c, d>>, b) <=> b = c \/ b = d
<1>1. Len(<<>>) = 0 /\ \A b : ~In(<<>>, b)
  <2>1. Len(<<>>) = 0
    BY EmptySeq
  <2> QED
    BY <2>1 DEF In
<1>2. ASSUME NEW c
      PROVE  /\ Append(<<>>, c) = <<c>> /\ Tail(<<c>>) = <<>>
             /\ Head(<<c>>) = c /\ Len(<<c>>) = 1 /\ <<c>> # <<>>
             /\ \A b : In(<<c>>, b) <=> b = c
  <2>1. /\ Append(<<>>, c) = <<c>> /\ Tail(<<c>>) = <<>>
        /\ Head(<<c>>) = c /\ Len(<<c>>) = 1 /\ <<c>> # <<>> /\ <<c>>[1] = c
    OBVIOUS
  <2>2. \A b : In(<<c>>, b) <=> b = c
    BY <2>1 DEF In
  <2> QED
    BY <2>1, <2>2
<1>3. ASSUME NEW c, NEW d
      PROVE  /\ Append(<<c>>, d) = <<c, d>> /\ Tail(<<c, d>>) = <<d>>
             /\ Head(<<c, d>>) = c /\ Len(<<c, d>>) = 2 /\ <<c, d>> # <<>>
             /\ \A b : In(<<c, d>>, b) <=> b = c \/ b = d
  <2>1. Append(<<c>>, d) = <<c, d>>
    BY AppendPair
  <2>2. /\ Tail(<<c, d>>) = <<d>> /\ Head(<<c, d>>) = c /\ Len(<<c, d>>) = 2
        /\ <<c, d>> # <<>> /\ <<c, d>>[1] = c /\ <<c, d>>[2] = d
    OBVIOUS
  <2>3. \A b : In(<<c, d>>, b) <=> b = c \/ b = d
    BY <2>2 DEF In
  <2> QED
    BY <2>1, <2>2, <2>3
<1> QED
  BY <1>1, <1>2, <1>3

Commands == {"kIdle", "kWaitForMsg", "kQuit"} \cup Answers

(* What is in a queue of commands, whatever it holds.                       *)
LEMMA QueueOps ==
    ASSUME NEW q \in Seq(Commands)
    PROVE  /\ Len(q) \in Nat /\ (q # <<>> <=> Len(q) > 0)
           /\ q # <<>> => /\ Len(Tail(q)) = Len(q) - 1
                          /\ \A b : In(q, b) <=> b = Head(q) \/ In(Tail(q), b)
           /\ \A c \in Commands :
                /\ Len(Append(q, c)) = Len(q) + 1
                /\ \A b : In(Append(q, c), b) <=> In(q, b) \/ b = c
<1>1. Len(q) \in Nat /\ (q # <<>> <=> Len(q) > 0)
  BY LenProperties, EmptySeq
<1>2. q # <<>> => Len(Tail(q)) = Len(q) - 1
  BY HeadTailProperties
<1>3. q # <<>> => \A b : In(q, b) <=> b = Head(q) \/ In(Tail(q), b)
  BY TailIn
<1>4. \A c \in Commands :
        /\ Len(Append(q, c)) = Len(q) + 1
        /\ \A b : In(Append(q, c), b) <=> In(q, b) \/ b = c
  BY AppendProperties, AppendOnce
<1> QED
  BY <1>1, <1>2, <1>3, <1>4

(* What a worker's end does to its channel.                                 *)
LEMMA ToMainEnds ==
    ASSUME NEW q \in ToMainStates
    PROVE  /\ q \in Seq(Commands)
           /\ q # <<>> =>
                /\ Tail(q) \in {<<>>, <<"kQuit">>}
                /\ Head(q) \in {"kIdle", "kWaitForMsg", "kQuit"}
                /\ Head(q) = "kQuit" => Tail(q) = <<>>
           /\ ~In(q, "kQuit") => Append(q, "kQuit") \in ToMainStates
           /\ ~In(q, "kQuit") /\ ~In(q, "kIdle") /\ ~In(q, "kWaitForMsg")
                => q = <<>>
<1>1. CASE q = <<>>
  <2>1. Append(q, "kQuit") = <<"kQuit">>
    BY <1>1, ShortQueues
  <2> QED
    BY <1>1, <2>1 DEF ToMainStates
<1>2. ASSUME NEW c \in {"kIdle", "kWaitForMsg", "kQuit"}, q = <<c>>
      PROVE  /\ q \in Seq(Commands) /\ Tail(q) = <<>> /\ Head(q) = c
             /\ In(q, c) /\ Append(q, "kQuit") = <<c, "kQuit">>
  <2>1. q \in Seq(Commands)
    BY <1>2 DEF Commands
  <2> QED
    BY <1>2, <2>1, ShortQueues
<1>3. ASSUME NEW c \in {"kIdle", "kWaitForMsg"}, q = <<c, "kQuit">>
      PROVE  /\ q \in Seq(Commands) /\ Tail(q) = <<"kQuit">> /\ Head(q) = c
             /\ In(q, "kQuit")
  <2>1. q \in Seq(Commands)
    BY <1>3 DEF Commands
  <2> QED
    BY <1>3, <2>1, ShortQueues
<1>4. CASE \E c \in {"kIdle", "kWaitForMsg"} : q = <<c>>
  BY <1>2, <1>4 DEF ToMainStates
<1>5. CASE q = <<"kQuit">>
  BY <1>2, <1>5
<1>6. CASE \E c \in {"kIdle", "kWaitForMsg"} : q = <<c, "kQuit">>
  BY <1>3, <1>6
<1> QED
  BY <1>1, <1>4, <1>5, <1>6 DEF ToMainStates

(* What the main thread and the callers of Quit write for a worker.         *)

ToWorker == Answers \cup {"kQuit"}

(* The callers past a worker are some of finitely many.                     *)
LEMMA ToldType ==
    ASSUME NEW w
    PROVE  /\ Cardinality(Told(w)) \in Nat /\ Cardinality(Told(w)') \in Nat
           /\ IsFiniteSet(Told(w)) /\ IsFiniteSet(Told(w)')
<1>1. Told(w) \subseteq Quitters /\ Told(w)' \subseteq Quitters
  BY DEF Told
<1> QED
  BY <1>1, UserWorkerAssumption, FS_Subset, FS_CardinalityType

(* A channel stays within its bound when callers pass its worker.           *)
LEMMA FromMainMore ==
    ASSUME NEW w, FromMain(w), toOwner'[w] = toOwner[w], Told(w) \subseteq Told(w)'
    PROVE  FromMain(w)'
<1>1. Cardinality(Told(w)) <= Cardinality(Told(w)')
  BY ToldType, FS_Subset
<1>2. ToOwnerStates(Answers, Cardinality(Told(w)))
        \subseteq ToOwnerStates(Answers, Cardinality(Told(w)'))
  BY <1>1, ToldType, ToOwnerMore
<1> QED
  BY <1>2 DEF FromMain

LEMMA FromMainKept ==
    ASSUME NEW w, FromMain(w), toOwner'[w] = toOwner[w], UNCHANGED quitVars
    PROVE  FromMain(w)'
<1>1. Told(w)' = Told(w)
  BY DEF Told, quitVars
<1> QED
  BY <1>1 DEF FromMain

LEMMA NoAnswerIsQuit == "kQuit" \notin Answers
  BY DEF Answers

-----------------------------------------------------------------------------
(* The protocol of the threads: what is said, told and owned.               *)

DataOK ==
    /\ recv \in [Users -> Seq(Msg)]
    /\ run  \in [Users -> Seq(Msg)]
    /\ send \in [Users -> Seq(Msg)]
    /\ flagged \in [Users -> BOOLEAN]
    /\ weakup \in Seq(Users)
    /\ seq  \in [Senders -> [Users -> 0..MaxSeq]]
    /\ done \in [Senders -> [Users -> 0..MaxSeq]]

ChannelsOK ==
    /\ toOwner \in [Users -> Seq(ToWorker)]
    /\ \A w \in Users : FromMain(w)

RoundOK ==
    /\ owner \in [Users -> {"kMain", "kWorker"}]
    /\ toMain \in [Users -> ToMainStates]
    /\ wpc \in [Users -> {"run", "idle", "wait", "told", "ended"}]
    /\ runing \in [Users -> BOOLEAN]
    /\ mpc \in {"check", "process", "dispatch", "done"}
    /\ ready \in [Users -> Nat]
    /\ cur \in Users \cup {None}
    /\ mpc = "dispatch" <=> cur # None
    /\ \A w \in Users :
         ready[w] + (IF cur = w THEN 1 ELSE 0) <= Len(toMain[w])
    /\ registered \subseteq Users
    /\ called \subseteq Quitters
    /\ toStop \in [Quitters -> SUBSET Users]

ControlOK == RoundOK /\ ChannelsOK

LEMMA TypeParts == /\ TypeOK <=> DataOK /\ ControlOK
                   /\ TypeOK' <=> DataOK' /\ ControlOK'
  BY DEF TypeOK, DataOK, ControlOK, RoundOK, ChannelsOK, ToWorker

ControlInv == ControlOK /\ ListedFirst /\ \A w \in Users : Baton(w) /\ Farewell(w)

controlVars == <<owner, chanVars, threadVars, mainVars, quitVars>>

(* The share of one worker in the protocol, and its channels.               *)
Worker(w) ==
    /\ wpc[w] = "run" => ~In(toMain[w], "kIdle") /\ ~In(toMain[w], "kWaitForMsg")
                          /\ owner[w] = "kWorker" /\ ~Answered(toOwner[w], Answers)
    /\ In(toMain[w], "kIdle") \/ In(toMain[w], "kWaitForMsg")
         => owner[w] = "kWorker" /\ ~Answered(toOwner[w], Answers)
    /\ owner[w] = "kMain" => ~Answered(toOwner[w], Answers)
    /\ In(toMain[w], "kQuit") => wpc[w] = "ended"
    /\ wpc[w] \in {"told", "ended"} => ~runing[w]
    /\ w \notin registered => wpc[w] = "ended" /\ toMain[w] = <<>>
    /\ In(toOwner[w], "kQuit") => called # {}

LEMMA WorkerParts ==
    ASSUME NEW w
    PROVE  /\ Baton(w) /\ Farewell(w) <=> Worker(w)
           /\ Baton(w)' /\ Farewell(w)' <=> Worker(w)'
  BY DEF Baton, Farewell, Worker, Says, IsAnswered

LEMMA ControlParts ==
    /\ ControlInv <=> ControlOK /\ ListedFirst /\ \A w \in Users : Worker(w)
    /\ ControlInv' <=> ControlOK' /\ ListedFirst' /\ \A w \in Users : Worker(w)'
  BY WorkerParts DEF ControlInv

(* A worker that a step does not concern.                                   *)
LEMMA OtherWorker ==
    ASSUME NEW w, Worker(w), wpc'[w] = wpc[w], runing'[w] = runing[w],
           toMain'[w] = toMain[w], toOwner'[w] = toOwner[w], owner'[w] = owner[w],
           w \in registered => w \in registered', called \subseteq called'
    PROVE  Worker(w)'
  BY DEF Worker

(* Only a caller of Quit changes what it has listed.                        *)
LEMMA QuietCallers ==
    ASSUME ControlInv, UNCHANGED quitVars
    PROVE  ListedFirst'
  BY DEF ControlInv, ListedFirst, quitVars

(* A step that writes nothing to the workers.                               *)
LEMMA QuietChannels ==
    ASSUME ControlInv, UNCHANGED <<toOwner, quitVars>>
    PROVE  ChannelsOK'
<1>1. ChannelsOK
  BY DEF ControlInv, ControlOK
<1> QED
  BY <1>1, FromMainKept DEF ChannelsOK

LEMMA QuietControl ==
    ASSUME ControlInv, UNCHANGED controlVars
    PROVE  ControlInv'
<1>1. /\ UNCHANGED <<owner, toOwner, toMain, wpc, runing, mpc, ready, cur,
                     registered, called, toStop>>
      /\ UNCHANGED quitVars
  BY DEF controlVars, chanVars, threadVars, mainVars, quitVars
<1>2. RoundOK'
  BY <1>1 DEF ControlInv, ControlOK, RoundOK
<1>3. \A w \in Users : Worker(w)'
  BY <1>1, ControlParts DEF Worker
<1> QED
  BY <1>1, <1>2, <1>3, QuietChannels, QuietCallers, ControlParts DEF ControlOK

(* A worker reads its command: an answer is read once, a kQuit leaves it.   *)
LEMMA Reads ==
    ASSUME ChannelsOK, NEW w \in Users, toOwner[w] # <<>>,
           toOwner' = [toOwner EXCEPT ![w] = Tail(@)], UNCHANGED quitVars
    PROVE  /\ ChannelsOK'
           /\ \A v \in Users : v # w => toOwner'[v] = toOwner[v]
           /\ In(toOwner'[w], "kQuit") => In(toOwner[w], "kQuit")
           /\ In(toOwner'[w], "kRunWithMsg") => In(toOwner[w], "kRunWithMsg")
           /\ Answered(toOwner'[w], Answers) => Answered(toOwner[w], Answers)
           /\ Head(toOwner[w]) = "kQuit" => In(toOwner[w], "kQuit")
           /\ Head(toOwner[w]) # "kQuit" => /\ Answered(toOwner[w], Answers)
                                            /\ ~Answered(toOwner'[w], Answers)
<1> DEFINE q == toOwner[w]
           n == Cardinality(Told(w))
<1>1. toOwner \in [Users -> Seq(ToWorker)] /\ q \in Seq(ToWorker) /\ q # <<>>
  BY DEF ChannelsOK
<1>2. n \in Nat /\ q \in ToOwnerStates(Answers, n)
  BY ToldType DEF ChannelsOK, FromMain
<1>3. /\ Tail(q) \in ToOwnerStates(Answers, n)
      /\ Head(q) \in Answers \cup {"kQuit"}
      /\ Head(q) \in Answers => ~Answered(Tail(q), Answers)
      /\ \A b : In(q, b) <=> b = Head(q) \/ In(Tail(q), b)
  BY <1>1, <1>2, NoAnswerIsQuit, ToOwnerTail
<1>4. Tail(q) \in Seq(ToWorker)
  BY <1>1, HeadTailProperties
<1>5. /\ toOwner' \in [Users -> Seq(ToWorker)] /\ toOwner'[w] = Tail(q)
      /\ \A v \in Users : v # w => toOwner'[v] = toOwner[v]
  BY <1>1, <1>4
<1>6. FromMain(w)'
  <2>1. Told(w)' = Told(w)
    BY DEF Told, quitVars
  <2> QED
    BY <1>3, <1>5, <2>1 DEF FromMain
<1>7. \A v \in Users : FromMain(v)'
  BY <1>5, <1>6, FromMainKept DEF ChannelsOK
<1>8. Answered(Tail(q), Answers) => Answered(q, Answers)
  BY <1>3 DEF Answered
<1>9. Head(q) # "kQuit" => Answered(q, Answers)
  BY <1>3 DEF Answered
<1>10. ChannelsOK'
  BY <1>5, <1>7 DEF ChannelsOK
<1> QED
  BY <1>3, <1>5, <1>8, <1>9, <1>10

(* The main thread answers a worker that has no answer yet.                 *)
LEMMA Answering ==
    ASSUME ChannelsOK, NEW w \in Users, NEW a \in Answers,
           ~Answered(toOwner[w], Answers),
           toOwner' = [toOwner EXCEPT ![w] = Append(@, a)], UNCHANGED quitVars
    PROVE  /\ ChannelsOK'
           /\ \A v \in Users : v # w => toOwner'[v] = toOwner[v]
           /\ \A b : In(toOwner'[w], b) <=> In(toOwner[w], b) \/ b = a
<1> DEFINE q == toOwner[w]
           n == Cardinality(Told(w))
<1>1. toOwner \in [Users -> Seq(ToWorker)] /\ q \in Seq(ToWorker)
  BY DEF ChannelsOK
<1>2. n \in Nat /\ q \in ToOwnerStates(Answers, n)
  BY ToldType DEF ChannelsOK, FromMain
<1>3. /\ Append(q, a) \in ToOwnerStates(Answers, n)
      /\ \A b : In(Append(q, a), b) <=> In(q, b) \/ b = a
  BY <1>2, NoAnswerIsQuit, ToOwnerAnswer
<1>4. Append(q, a) \in Seq(ToWorker)
  BY <1>1, AppendProperties DEF ToWorker
<1>5. /\ toOwner' \in [Users -> Seq(ToWorker)] /\ toOwner'[w] = Append(q, a)
      /\ \A v \in Users : v # w => toOwner'[v] = toOwner[v]
  BY <1>1, <1>4
<1>6. FromMain(w)'
  <2>1. Told(w)' = Told(w)
    BY DEF Told, quitVars
  <2> QED
    BY <1>3, <1>5, <2>1 DEF FromMain
<1>7. \A v \in Users : FromMain(v)'
  BY <1>5, <1>6, FromMainKept DEF ChannelsOK
<1>8. ChannelsOK'
  BY <1>5, <1>7 DEF ChannelsOK
<1> QED
  BY <1>3, <1>5, <1>8

(* A caller of Quit tells a worker, which is then behind it.                *)
LEMMA Telling ==
    ASSUME ControlOK, ListedFirst, NEW c \in Quitters, NEW w \in Users,
           SendQuit(c, w)
    PROVE  /\ ChannelsOK'
           /\ \A v \in Users : v # w => toOwner'[v] = toOwner[v]
           /\ \A b : In(toOwner'[w], b) <=> In(toOwner[w], b) \/ b = "kQuit"
           /\ c \in called /\ called' = called
           /\ toStop' \in [Quitters -> SUBSET Users]
           /\ ListedFirst'
<1> DEFINE q == toOwner[w]
           n == Cardinality(Told(w))
<1>1. toOwner \in [Users -> Seq(ToWorker)] /\ q \in Seq(ToWorker)
  BY DEF ControlOK, ChannelsOK
<1>2. n \in Nat /\ q \in ToOwnerStates(Answers, n)
  BY ToldType DEF ControlOK, ChannelsOK, FromMain
<1>3. /\ Append(q, "kQuit") \in ToOwnerStates(Answers, n + 1)
      /\ \A b : In(Append(q, "kQuit"), b) <=> In(q, b) \/ b = "kQuit"
  BY <1>2, NoAnswerIsQuit, ToOwnerQuit
<1>4. Append(q, "kQuit") \in Seq(ToWorker)
  BY <1>1, AppendProperties DEF ToWorker
<1>5. /\ toOwner' \in [Users -> Seq(ToWorker)] /\ toOwner'[w] = Append(q, "kQuit")
      /\ \A v \in Users : v # w => toOwner'[v] = toOwner[v]
  BY <1>1, <1>4 DEF SendQuit
<1>6. /\ w \in toStop[c] /\ called' = called
      /\ toStop' = [toStop EXCEPT ![c] = toStop[c] \ {w}]
      /\ toStop \in [Quitters -> SUBSET Users]
  BY DEF SendQuit, ControlOK, RoundOK
<1>7. c \in called
  BY <1>6 DEF ListedFirst
<1>8. Told(w)' = Told(w) \cup {c} /\ c \notin Told(w)
  BY <1>6, <1>7 DEF Told
<1>9. \A v \in Users : v # w => Told(v) \subseteq Told(v)'
  BY <1>6 DEF Told
<1>10. FromMain(w)'
  <2>1. Cardinality(Told(w)') = n + 1
    BY <1>8, ToldType, FS_AddElement
  <2> QED
    BY <1>3, <1>5, <2>1 DEF FromMain
<1>11. \A v \in Users : FromMain(v)'
  BY <1>5, <1>9, <1>10, FromMainMore DEF ControlOK, ChannelsOK
<1>12. ChannelsOK'
  BY <1>5, <1>11 DEF ChannelsOK
<1>13. toStop' \in [Quitters -> SUBSET Users] /\ ListedFirst'
  BY <1>6 DEF ListedFirst
<1> QED
  BY <1>3, <1>5, <1>6, <1>7, <1>12, <1>13

LEMMA DispatchControl ==
    ASSUME ControlInv, NEW w \in Users, Dispatch(w)
    PROVE  ControlInv'
<1>1. RoundOK /\ \A v \in Users : Worker(v)
  BY ControlParts DEF ControlOK
<1>2. PICK call \in {[cmd |-> "kIdle", pc |-> "idle"],
                     [cmd |-> "kWaitForMsg", pc |-> "wait"]} :
        /\ toMain' = [toMain EXCEPT ![w] = Append(@, call.cmd)]
        /\ wpc' = [wpc EXCEPT ![w] = call.pc]
  BY DEF Dispatch
<1>3. /\ wpc[w] = "run"
      /\ UNCHANGED <<owner, toOwner, runing, mpc, ready, cur, registered, called,
                     toStop, quitVars>>
  BY DEF Dispatch, ownerVars, mainVars, quitVars
<1>4. toMain[w] = <<>> /\ w \in registered
  BY <1>1, <1>3, ToMainEnds DEF Worker, RoundOK
<1>5. /\ toMain'[w] = <<call.cmd>> /\ wpc'[w] = call.pc
      /\ \A v \in Users : v # w => toMain'[v] = toMain[v] /\ wpc'[v] = wpc[v]
  BY <1>1, <1>2, <1>4, ShortQueues DEF RoundOK
<1>6. /\ \A b : In(toMain'[w], b) <=> b = call.cmd
      /\ Len(toMain[w]) = 0 /\ Len(toMain'[w]) = 1
  BY <1>4, <1>5, ShortQueues
<1>7. RoundOK'
  <2>1. toMain' \in [Users -> ToMainStates]
    BY <1>1, <1>2, <1>5 DEF RoundOK, ToMainStates
  <2>2. wpc' \in [Users -> {"run", "idle", "wait", "told", "ended"}]
    BY <1>1, <1>2 DEF RoundOK
  <2>3. ASSUME NEW v \in Users
        PROVE  ready[v] + (IF cur = v THEN 1 ELSE 0) <= Len(toMain'[v])
    <3>1. ready[v] \in Nat /\ ready[v] + (IF cur = v THEN 1 ELSE 0) <= Len(toMain[v])
      BY <1>1 DEF RoundOK
    <3> QED
      BY <1>5, <1>6, <3>1
  <2> QED
    BY <1>1, <1>3, <2>1, <2>2, <2>3 DEF RoundOK
<1>8. Worker(w)'
  BY <1>1, <1>3, <1>4, <1>5, <1>6 DEF Worker
<1>9. \A v \in Users : v # w => Worker(v)'
  BY <1>1, <1>3, <1>5, OtherWorker
<1> QED
  BY <1>3, <1>7, <1>8, <1>9, QuietChannels, QuietCallers, ControlParts DEF ControlOK

LEMMA StopControl ==
    ASSUME ControlInv, NEW w \in Users, Stop(w)
    PROVE  ControlInv'
<1>1. RoundOK /\ \A v \in Users : Worker(v)
  BY ControlParts DEF ControlOK
<1>2. /\ wpc[w] = "run" /\ runing' = [runing EXCEPT ![w] = FALSE]
      /\ UNCHANGED <<owner, toOwner, toMain, wpc, mpc, ready, cur, registered,
                     called, toStop, quitVars>>
  BY DEF Stop, ownerVars, chanVars, mainVars, quitVars
<1>3. /\ runing' \in [Users -> BOOLEAN]
      /\ \A v \in Users : v # w => runing'[v] = runing[v]
  BY <1>1, <1>2 DEF RoundOK
<1>4. RoundOK'
  BY <1>1, <1>2, <1>3 DEF RoundOK
<1>5. Worker(w)'
  BY <1>1, <1>2 DEF Worker
<1>6. \A v \in Users : v # w => Worker(v)'
  BY <1>1, <1>2, <1>3, OtherWorker
<1> QED
  BY <1>2, <1>4, <1>5, <1>6, QuietChannels, QuietCallers, ControlParts DEF ControlOK

LEMMA RecvCmdControl ==
    ASSUME ControlInv, NEW w \in Users, RecvCmd(w)
    PROVE  ControlInv'
<1> DEFINE told == Head(toOwner[w]) = "kQuit"
<1>1. RoundOK /\ ChannelsOK /\ \A v \in Users : Worker(v)
  BY ControlParts DEF ControlOK
<1>2. /\ wpc[w] \in {"idle", "wait"} /\ toOwner[w] # <<>>
      /\ toOwner' = [toOwner EXCEPT ![w] = Tail(@)]
      /\ wpc' = [wpc EXCEPT ![w] = IF told THEN "told" ELSE "run"]
      /\ runing' = [runing EXCEPT ![w] = @ /\ ~told]
      /\ UNCHANGED <<owner, toMain, mpc, ready, cur, registered, called, toStop,
                     quitVars>>
  BY DEF RecvCmd, ownerVars, mainVars, quitVars
<1>3. /\ told => wpc'[w] = "told"
      /\ ~told => wpc'[w] = "run"
      /\ wpc' \in [Users -> {"run", "idle", "wait", "told", "ended"}]
      /\ \A v \in Users : v # w => wpc'[v] = wpc[v]
  BY <1>1, <1>2 DEF RoundOK
<1>4. /\ runing' \in [Users -> BOOLEAN]
      /\ told => ~runing'[w]
      /\ \A v \in Users : v # w => runing'[v] = runing[v]
  BY <1>1, <1>2 DEF RoundOK
<1>5. /\ ChannelsOK'
      /\ \A v \in Users : v # w => toOwner'[v] = toOwner[v]
      /\ In(toOwner'[w], "kQuit") => In(toOwner[w], "kQuit")
      /\ Answered(toOwner'[w], Answers) => Answered(toOwner[w], Answers)
      /\ told => In(toOwner[w], "kQuit")
      /\ ~told => /\ Answered(toOwner[w], Answers)
                  /\ ~Answered(toOwner'[w], Answers)
  BY <1>1, <1>2, Reads
<1>6. RoundOK'
  BY <1>1, <1>2, <1>3, <1>4 DEF RoundOK
<1>7. Worker(w)'
  <2>1. /\ w \in registered /\ ~In(toMain[w], "kQuit")
        /\ In(toOwner'[w], "kQuit") => called' # {}
    BY <1>1, <1>2, <1>5 DEF Worker
  <2>2. CASE told
    <3>1. wpc'[w] = "told" /\ ~runing'[w]
      BY <1>3, <1>4, <2>2
    <3>2. /\ toMain' = toMain /\ owner' = owner /\ registered' = registered
          /\ Answered(toOwner'[w], Answers) => Answered(toOwner[w], Answers)
      BY <1>2, <1>5
    <3> QED
      BY <1>1, <2>1, <3>1, <3>2 DEF Worker
  <2>3. CASE ~told
    <3>1. /\ ~In(toMain[w], "kIdle") /\ ~In(toMain[w], "kWaitForMsg")
          /\ owner[w] = "kWorker"
      BY <1>1, <1>5, <2>3 DEF Worker, RoundOK
    <3> QED
      BY <1>1, <1>2, <1>3, <1>5, <2>1, <2>3, <3>1 DEF Worker
  <2> QED
    BY <2>2, <2>3
<1>8. \A v \in Users : v # w => Worker(v)'
  BY <1>1, <1>2, <1>3, <1>4, <1>5, OtherWorker
<1> QED
  BY <1>2, <1>5, <1>6, <1>7, <1>8, QuietCallers, ControlParts DEF ControlOK

LEMMA ReturnControl ==
    ASSUME ControlInv, NEW w \in Users, Return(w)
    PROVE  ControlInv'
<1>1. RoundOK /\ \A v \in Users : Worker(v)
  BY ControlParts DEF ControlOK
<1>2. /\ wpc[w] \in {"run", "told"} /\ ~runing[w] /\ ~In(toMain[w], "kQuit")
      /\ w \in registered
      /\ toMain' = [toMain EXCEPT ![w] = Append(@, "kQuit")]
      /\ wpc' = [wpc EXCEPT ![w] = "ended"]
      /\ UNCHANGED <<owner, toOwner, runing, mpc, ready, cur, registered, called,
                     toStop, quitVars>>
  BY <1>1 DEF Return, ownerVars, mainVars, quitVars, Worker
<1>3. /\ toMain'[w] = Append(toMain[w], "kQuit") /\ wpc'[w] = "ended"
      /\ \A v \in Users : v # w => toMain'[v] = toMain[v] /\ wpc'[v] = wpc[v]
  BY <1>1, <1>2 DEF RoundOK
<1>4. /\ Append(toMain[w], "kQuit") \in ToMainStates
      /\ Len(toMain'[w]) = Len(toMain[w]) + 1 /\ Len(toMain[w]) \in Nat
      /\ \A b : In(toMain'[w], b) <=> In(toMain[w], b) \/ b = "kQuit"
  <2>1. "kQuit" \in Commands
    BY DEF Commands
  <2> QED
    BY <1>1, <1>2, <1>3, <2>1, ToMainEnds, QueueOps DEF RoundOK
<1>5. RoundOK'
  <2>1. ASSUME NEW v \in Users
        PROVE  ready[v] + (IF cur = v THEN 1 ELSE 0) <= Len(toMain'[v])
    <3>1. ready[v] \in Nat /\ ready[v] + (IF cur = v THEN 1 ELSE 0) <= Len(toMain[v])
      BY <1>1 DEF RoundOK
    <3> QED
      BY <1>3, <1>4, <3>1
  <2> QED
    BY <1>1, <1>2, <1>4, <2>1 DEF RoundOK
<1>6. Worker(w)'
  BY <1>1, <1>2, <1>3, <1>4 DEF Worker
<1>7. \A v \in Users : v # w => Worker(v)'
  BY <1>1, <1>2, <1>3, OtherWorker
<1> QED
  BY <1>2, <1>5, <1>6, <1>7, QuietChannels, QuietCallers, ControlParts DEF ControlOK

LEMMA WakeControl ==
    ASSUME ControlInv, weakup \in Seq(Users), NEW i \in 1..Len(weakup), Wake(i)
    PROVE  ControlInv'
<1>1. RoundOK /\ ChannelsOK /\ \A v \in Users : Worker(v)
  BY ControlParts DEF ControlOK
<1>2. PICK w \in Users : w = weakup[i]
  BY ElementOfSeq
<1>3. /\ owner[w] = "kMain"
      /\ owner' = [owner EXCEPT ![w] = "kWorker"]
      /\ toOwner' = [toOwner EXCEPT ![w] = Append(@, "kRunWithMsg")]
      /\ UNCHANGED <<toMain, wpc, runing, mpc, ready, cur, registered, called,
                     toStop, quitVars>>
  BY <1>2 DEF Wake, MayWake, mainVars, threadVars, quitVars
<1>4. /\ owner'[w] = "kWorker" /\ owner' \in [Users -> {"kMain", "kWorker"}]
      /\ \A v \in Users : v # w => owner'[v] = owner[v]
  BY <1>1, <1>3 DEF RoundOK
<1>5. /\ ChannelsOK'
      /\ \A v \in Users : v # w => toOwner'[v] = toOwner[v]
      /\ \A b : In(toOwner'[w], b) <=> In(toOwner[w], b) \/ b = "kRunWithMsg"
  <2>1. "kRunWithMsg" \in Answers
    BY DEF Answers
  <2>2. ~Answered(toOwner[w], Answers)
    BY <1>1, <1>3 DEF Worker
  <2> QED
    BY <1>1, <1>3, <2>1, <2>2, Answering
<1>6. RoundOK'
  BY <1>1, <1>3, <1>4 DEF RoundOK
<1>7. Worker(w)'
  <2>1. ~In(toMain[w], "kIdle") /\ ~In(toMain[w], "kWaitForMsg") /\ wpc[w] # "run"
    BY <1>1, <1>3 DEF Worker
  <2> QED
    BY <1>1, <1>3, <1>4, <1>5, <2>1 DEF Worker
<1>8. \A v \in Users : v # w => Worker(v)'
  BY <1>1, <1>3, <1>4, <1>5, OtherWorker
<1> QED
  BY <1>3, <1>5, <1>6, <1>7, <1>8, QuietCallers, ControlParts DEF ControlOK

(* The main thread goes on in its round and says nothing.                   *)
LEMMA RoundControl ==
    ASSUME ControlInv, UNCHANGED <<owner, toOwner, toMain, threadVars, registered, quitVars>>,
           mpc' \in {"check", "process", "dispatch", "done"},
           ready' \in [Users -> Nat], cur' \in Users \cup {None},
           mpc' = "dispatch" <=> cur' # None,
           \A w \in Users :
               ready'[w] + (IF cur' = w THEN 1 ELSE 0) <= Len(toMain[w])
    PROVE  ControlInv'
<1>1. RoundOK'
  BY DEF ControlInv, ControlOK, RoundOK, threadVars, quitVars
<1>2. \A w \in Users : Worker(w)'
  BY ControlParts, OtherWorker DEF threadVars, quitVars
<1> QED
  BY <1>1, <1>2, QuietChannels, QuietCallers, ControlParts DEF ControlOK

LEMMA WaitControl ==
    ASSUME ControlInv, Wait
    PROVE  ControlInv'
<1>1. RoundOK
  BY ControlParts DEF ControlOK
<1>2. PICK most \in {1, 2} :
        ready' = [w \in Users |-> IF w \in registered
                                   THEN Min2(Len(toMain[w]), most) ELSE 0]
  BY DEF Wait
<1>3. /\ mpc = "check" /\ mpc' = "process" /\ cur' = cur /\ cur = None
      /\ UNCHANGED <<owner, toOwner, toMain, threadVars, registered, quitVars>>
  BY <1>1 DEF Wait, ownerVars, chanVars, RoundOK
<1>4. ASSUME NEW w \in Users
      PROVE  ready'[w] \in Nat /\ ready'[w] <= Len(toMain[w])
  <2>1. Len(toMain[w]) \in Nat
    BY <1>1, ToMainEnds, QueueOps DEF RoundOK
  <2> QED
    BY <1>2, <2>1 DEF Min2
<1>5. ready' \in [Users -> Nat]
  BY <1>2, <1>4
<1>6. \A w \in Users : ready'[w] + (IF cur' = w THEN 1 ELSE 0) <= Len(toMain[w])
  BY <1>3, <1>4, UserWorkerAssumption
<1> QED
  BY <1>3, <1>5, <1>6, RoundControl

LEMMA BeginEventControl ==
    ASSUME ControlInv, NEW w \in Users, BeginEvent(w)
    PROVE  ControlInv'
<1>1. RoundOK
  BY ControlParts DEF ControlOK
<1>2. /\ ready[w] > 0 /\ ready' = [ready EXCEPT ![w] = @ - 1]
      /\ cur = None /\ cur' = w /\ mpc' = "dispatch" /\ w # None
      /\ UNCHANGED <<owner, toOwner, toMain, threadVars, registered, quitVars>>
  BY <1>1, UserWorkerAssumption DEF BeginEvent, ownerVars, chanVars, RoundOK
<1>3. /\ ready' \in [Users -> Nat] /\ ready'[w] = ready[w] - 1 /\ ready[w] \in Nat
      /\ \A v \in Users : v # w => ready'[v] = ready[v]
  BY <1>1, <1>2 DEF RoundOK
<1>4. ASSUME NEW v \in Users
      PROVE  ready'[v] + (IF cur' = v THEN 1 ELSE 0) <= Len(toMain[v])
  <2>1. ready[v] \in Nat /\ ready[v] <= Len(toMain[v])
    <3>1. /\ ready[v] \in Nat /\ cur # v
          /\ ready[v] + (IF cur = v THEN 1 ELSE 0) <= Len(toMain[v])
      BY <1>1, <1>2, UserWorkerAssumption DEF RoundOK
    <3> QED
      BY <3>1
  <2> QED
    BY <1>2, <1>3, <2>1
<1> QED
  BY <1>2, <1>3, <1>4, RoundControl

LEMMA ProcessDoneControl ==
    ASSUME ControlInv, ProcessDone
    PROVE  ControlInv'
<1>1. RoundOK
  BY ControlParts DEF ControlOK
<1>2. /\ mpc = "process" /\ mpc' \in {"check", "done"}
      /\ UNCHANGED <<owner, toOwner, toMain, threadVars, ready, cur, registered,
                     quitVars>>
  BY DEF ProcessDone, ownerVars, chanVars
<1> QED
  BY <1>1, <1>2, RoundControl DEF RoundOK

(* The command of a worker is read and answered.                            *)
LEMMA FinishEventControl ==
    ASSUME ControlInv, FinishEvent
    PROVE  ControlInv'
<1>1. RoundOK /\ ChannelsOK /\ \A v \in Users : Worker(v)
  BY ControlParts DEF ControlOK
<1>2. PICK w \in Users : w = cur
  BY <1>1 DEF FinishEvent, RoundOK
<1>3. /\ toMain[w] # <<>> /\ toMain' = [toMain EXCEPT ![w] = Tail(@)]
      /\ cur' = None /\ mpc' = "process"
      /\ UNCHANGED <<wpc, runing, ready, called, toStop, quitVars>>
  BY <1>2 DEF FinishEvent, threadVars, quitVars
<1>4. /\ toMain'[w] = Tail(toMain[w])
      /\ \A v \in Users : v # w => toMain'[v] = toMain[v]
  BY <1>1, <1>3 DEF RoundOK
<1>5. /\ toMain[w] \in Seq(Commands)
      /\ Tail(toMain[w]) \in {<<>>, <<"kQuit">>}
      /\ Head(toMain[w]) = "kQuit" => Tail(toMain[w]) = <<>>
      /\ Len(Tail(toMain[w])) = Len(toMain[w]) - 1 /\ Len(toMain[w]) \in Nat
      /\ \A b : In(toMain[w], b) <=> b = Head(toMain[w]) \/ In(Tail(toMain[w]), b)
  BY <1>1, <1>3, ToMainEnds, QueueOps DEF RoundOK
<1>6. ~In(toMain'[w], "kIdle") /\ ~In(toMain'[w], "kWaitForMsg")
  <2>1. /\ \A b : ~In(<<>>, b)
        /\ \A b : In(<<"kQuit">>, b) <=> b = "kQuit"
    BY ShortQueues
  <2>2. toMain'[w] = <<>> \/ toMain'[w] = <<"kQuit">>
    BY <1>4, <1>5
  <2> QED
    BY <2>1, <2>2
<1>7. ASSUME owner' \in [Users -> {"kMain", "kWorker"}], registered' \subseteq Users
      PROVE  RoundOK'
  <2>1. toMain' \in [Users -> ToMainStates]
    BY <1>1, <1>3, <1>5 DEF RoundOK, ToMainStates
  <2>2. ASSUME NEW v \in Users
        PROVE  ready'[v] + (IF cur' = v THEN 1 ELSE 0) <= Len(toMain'[v])
    <3>1. ready[v] \in Nat /\ ready[v] + (IF cur = v THEN 1 ELSE 0) <= Len(toMain[v])
      BY <1>1 DEF RoundOK
    <3>2. cur' # v
      BY <1>3, UserWorkerAssumption
    <3> QED
      BY <1>2, <1>3, <1>4, <1>5, <3>1, <3>2
  <2> QED
    BY <1>1, <1>3, <1>7, <2>1, <2>2 DEF RoundOK
<1>8. /\ w \in registered
      /\ In(toMain'[w], "kQuit") => wpc[w] = "ended"
      /\ wpc[w] \in {"told", "ended"} => ~runing[w]
      /\ In(toOwner[w], "kQuit") => called # {}
  BY <1>1, <1>3, <1>4, <1>5 DEF Worker
<1>9. CASE Head(toMain[w]) = "kIdle"
  <2>1. /\ toOwner' = [toOwner EXCEPT ![w] = @ \o <<"kRun">>]
        /\ UNCHANGED <<owner, registered>>
    BY <1>2, <1>9 DEF FinishEvent, Reply
  <2>2. /\ owner[w] = "kWorker" /\ ~Answered(toOwner[w], Answers)
        /\ wpc[w] # "run"
    BY <1>1, <1>5, <1>9 DEF Worker
  <2>3. toOwner[w] \in Seq(ToWorker) /\ "kRun" \in ToWorker /\ "kRun" \in Answers
    BY <1>1 DEF ChannelsOK, ToWorker, Answers
  <2>4. toOwner' = [toOwner EXCEPT ![w] = Append(@, "kRun")]
    BY <2>1, <2>3, AppendIsConcat
  <2>5. /\ ChannelsOK'
        /\ \A b : In(toOwner'[w], b) <=> In(toOwner[w], b) \/ b = "kRun"
        /\ \A v \in Users : v # w => toOwner'[v] = toOwner[v]
    BY <1>1, <1>3, <2>2, <2>3, <2>4, Answering
  <2>6. RoundOK'
    BY <1>1, <1>7, <2>1 DEF RoundOK
  <2>7. Worker(w)'
    BY <1>3, <1>6, <1>8, <2>1, <2>2, <2>5 DEF Worker
  <2>8. \A v \in Users : v # w => Worker(v)'
    BY <1>1, <1>3, <1>4, <2>1, <2>5, OtherWorker
  <2> QED
    BY <1>3, <2>5, <2>6, <2>7, <2>8, QuietCallers, ControlParts DEF ControlOK
<1>10. CASE Head(toMain[w]) = "kWaitForMsg"
  <2>1. /\ toOwner' = [toOwner EXCEPT ![w] = @ \o <<>>]
        /\ owner' = [owner EXCEPT ![w] = "kMain"] /\ UNCHANGED registered
    BY <1>2, <1>10 DEF FinishEvent, Reply
  <2>2. ~Answered(toOwner[w], Answers) /\ wpc[w] # "run"
    BY <1>1, <1>5, <1>10 DEF Worker
  <2>3. toOwner' = toOwner
    <3>1. toOwner[w] \o <<>> = toOwner[w]
      BY <1>1, ConcatEmptySeq DEF ChannelsOK
    <3> QED
      BY <1>1, <2>1, <3>1 DEF ChannelsOK
  <2>4. /\ owner'[w] = "kMain" /\ \A v \in Users : v # w => owner'[v] = owner[v]
        /\ owner' \in [Users -> {"kMain", "kWorker"}]
    BY <1>1, <2>1 DEF RoundOK
  <2>5. RoundOK'
    BY <1>1, <1>7, <2>1, <2>4 DEF RoundOK
  <2>6. Worker(w)'
    BY <1>3, <1>6, <1>8, <2>1, <2>2, <2>3, <2>4 DEF Worker
  <2>7. \A v \in Users : v # w => Worker(v)'
    BY <1>1, <1>3, <1>4, <2>1, <2>3, <2>4, OtherWorker
  <2> QED
    BY <1>3, <2>3, <2>5, <2>6, <2>7, QuietChannels, QuietCallers, ControlParts
    DEF ControlOK
<1>11. CASE Head(toMain[w]) = "kQuit"
  <2>1. UNCHANGED <<toOwner, owner>> /\ registered' = registered \ {w}
    BY <1>2, <1>11 DEF FinishEvent
  <2>2. RoundOK'
    BY <1>1, <1>7, <2>1 DEF RoundOK
  <2>3. /\ wpc'[w] = "ended" /\ toMain'[w] = <<>>
        /\ owner[w] = "kMain" => ~Answered(toOwner[w], Answers)
    BY <1>1, <1>3, <1>4, <1>5, <1>11 DEF Worker
  <2>4. Worker(w)'
    BY <1>3, <1>6, <1>8, <2>1, <2>3 DEF Worker
  <2>5. \A v \in Users : v # w => Worker(v)'
    BY <1>1, <1>3, <1>4, <2>1, OtherWorker
  <2> QED
    BY <1>3, <2>1, <2>2, <2>4, <2>5, QuietChannels, QuietCallers, ControlParts
    DEF ControlOK
<1> QED
  BY <1>2, <1>9, <1>10, <1>11 DEF FinishEvent

LEMMA ListControl ==
    ASSUME ControlInv, NEW c \in Quitters, StopAllWorker(c)
    PROVE  ControlInv'
<1>1. RoundOK /\ ChannelsOK /\ ListedFirst /\ \A v \in Users : Worker(v)
  BY ControlParts DEF ControlOK
<1>2. /\ c \notin called /\ called' = called \cup {c}
      /\ toStop' = [toStop EXCEPT ![c] = registered]
      /\ UNCHANGED <<owner, toOwner, toMain, wpc, runing, mpc, ready, cur,
                     registered>>
  BY DEF StopAllWorker, ownerVars, chanVars, threadVars, mainVars
<1>3. toStop' \in [Quitters -> SUBSET Users]
  BY <1>1, <1>2 DEF RoundOK
<1>4. RoundOK'
  BY <1>1, <1>2, <1>3 DEF RoundOK
<1>5. ListedFirst'
  BY <1>1, <1>2 DEF RoundOK, ListedFirst
<1>6. ASSUME NEW w \in Users PROVE FromMain(w)'
  <2>1. Told(w) \subseteq Told(w)'
    BY <1>1, <1>2 DEF Told, RoundOK
  <2> QED
    BY <1>1, <1>2, <2>1, FromMainMore DEF ChannelsOK
<1>7. ChannelsOK'
  BY <1>1, <1>2, <1>6 DEF ChannelsOK
<1>8. \A w \in Users : Worker(w)'
  BY <1>1, <1>2, OtherWorker
<1> QED
  BY <1>4, <1>5, <1>7, <1>8, ControlParts DEF ControlOK

LEMMA TellControl ==
    ASSUME ControlInv, NEW c \in Quitters, NEW w \in Users, SendQuit(c, w)
    PROVE  ControlInv'
<1>1. ControlOK /\ RoundOK /\ ListedFirst /\ \A v \in Users : Worker(v)
  BY ControlParts DEF ControlOK
<1>2. /\ UNCHANGED <<owner, toMain, wpc, runing, mpc, ready, cur, registered>>
  BY DEF SendQuit, ownerVars, threadVars, mainVars
<1>3. /\ ChannelsOK'
      /\ \A v \in Users : v # w => toOwner'[v] = toOwner[v]
      /\ \A b : In(toOwner'[w], b) <=> In(toOwner[w], b) \/ b = "kQuit"
      /\ c \in called /\ called' = called
      /\ toStop' \in [Quitters -> SUBSET Users]
      /\ ListedFirst'
  BY <1>1, Telling
<1>4. RoundOK'
  BY <1>1, <1>2, <1>3 DEF RoundOK
<1>5. Answered(toOwner'[w], Answers) <=> Answered(toOwner[w], Answers)
  BY <1>3, NoAnswerIsQuit DEF Answered
<1>6. Worker(w)'
  BY <1>1, <1>2, <1>3, <1>5 DEF Worker
<1>7. \A v \in Users : v # w => Worker(v)'
  BY <1>1, <1>2, <1>3, OtherWorker
<1> QED
  BY <1>3, <1>4, <1>6, <1>7, ControlParts DEF ControlOK

LEMMA ControlNext == ControlInv /\ DataOK /\ [Next]_vars => ControlInv'
<1> SUFFICES ASSUME ControlInv, DataOK, [Next]_vars PROVE ControlInv'
  OBVIOUS
<1>1. ASSUME NEW w \in Users, Thread(w) PROVE ControlInv'
  <2>1. CASE Consume(w) \/ Produce(w)
    BY <2>1, QuietControl DEF Consume, Produce, controlVars, ownerVars
  <2> QED
    BY <1>1, <2>1, DispatchControl, StopControl, RecvCmdControl, ReturnControl
    DEF Thread
<1>2. CASE WeakupWorker
  BY <1>2, WakeControl DEF WeakupWorker, DataOK
<1>3. CASE Wait \/ FinishEvent \/ ProcessDone \/ \E w \in Users : BeginEvent(w)
  BY <1>3, WaitControl, FinishEventControl, ProcessDoneControl, BeginEventControl
<1>4. CASE DispatchOne \/ ProcessOther
  BY <1>4, QuietControl DEF DispatchOne, ProcessOther, controlVars
<1>5. CASE UNCHANGED vars
  BY <1>5, QuietControl
  DEF controlVars, chanVars, threadVars, mainVars, quitVars, vars
<1>6. CASE \E c \in Quitters : StopAllWorker(c) \/ Caller(c)
  BY <1>6, ListControl, TellControl DEF Caller
<1> QED
  BY <1>1, <1>2, <1>3, <1>4, <1>5, <1>6 DEF Next, Main, Terminated

-----------------------------------------------------------------------------
(* The mailboxes: what each step does to them.                              *)

LEMMA Limits ==
    ASSUME DataOK, Addressed, NEW w \in Users
    PROVE  /\ run[w] \in Seq(To(w)) /\ recv[w] \in Seq(To(w)) /\ send[w] \in Seq(By(w))
           /\ run[w] \in Seq(Msg) /\ recv[w] \in Seq(Msg) /\ send[w] \in Seq(Msg)
           /\ Pending[w] \in Int /\ RunSize[w] \in Int
           /\ w \in Senders /\ ext \in Senders /\ ext # w
           /\ \A s \in Senders : seq[s][w] \in 0..MaxSeq /\ done[s][w] \in 0..MaxSeq
  BY UserWorkerAssumption DEF DataOK, Addressed, Senders

LEMMA Consumed ==
    ASSUME DataOK, Addressed, NEW w \in Users, Consume(w)
    PROVE  LET m == Head(run[w]) IN
           /\ run[w] # <<>> /\ wpc[w] = "run"
           /\ m.src \in Senders /\ m.dst = w /\ m.n \in 0..MaxSeq
           /\ run'[w] = Tail(run[w]) /\ run'[w] \in Seq(To(w))
           /\ \A d \in Users : d # w => run'[d] = run[d]
           /\ \A s \in Senders, d \in Users :
                done'[s][d] = IF m.src = s /\ m.dst = d THEN m.n ELSE done[s][d]
           /\ UNCHANGED <<recv, send, flagged, weakup, seq>>
           /\ DataOK' /\ Addressed'
<1> DEFINE m == Head(run[w])
<1>1. /\ run[w] # <<>> /\ run' = [run EXCEPT ![w] = Tail(@)] /\ wpc[w] = "run"
      /\ done' = [done EXCEPT ![m.src][w] = m.n]
      /\ UNCHANGED <<recv, send, flagged, weakup, seq>>
  BY DEF Consume, ownerVars
<1>2. m \in To(w) /\ Tail(run[w]) \in Seq(To(w)) /\ Tail(run[w]) \in Seq(Msg)
  BY <1>1, Limits, HeadTailProperties
<1>3. m.src \in Senders /\ m.dst = w /\ m.n \in 0..MaxSeq
  BY <1>2, UserWorkerAssumption DEF To, Msg
<1> HIDE DEF m
<1>4. /\ run' \in [Users -> Seq(Msg)] /\ run'[w] = Tail(run[w])
      /\ \A d \in Users : d # w => run'[d] = run[d]
  BY <1>1, <1>2 DEF DataOK
<1>5. done \in [Senders -> [Users -> 0..MaxSeq]]
  BY DEF DataOK
<1>6. done' \in [Senders -> [Users -> 0..MaxSeq]]
  BY <1>1, <1>3, <1>5
<1>7. ASSUME NEW s \in Senders, NEW d \in Users
      PROVE  done'[s][d] = IF m.src = s /\ m.dst = d THEN m.n ELSE done[s][d]
  BY <1>1, <1>3, <1>5
<1>8. DataOK'
  BY <1>1, <1>4, <1>6 DEF DataOK
<1>9. Addressed'
  BY <1>1, <1>2, <1>4 DEF Addressed
<1> QED
  BY <1>1, <1>2, <1>3, <1>4, <1>7, <1>8, <1>9 DEF m

LEMMA Produced ==
    ASSUME DataOK, Addressed, NEW w \in Users, Produce(w)
    PROVE  \E d \in Users, m \in By(w) :
             /\ m.src = w /\ m.dst = d /\ m.n = seq[w][d] + 1
             /\ send'[w] = Append(send[w], m)
             /\ \A v \in Users : v # w => send'[v] = send[v]
             /\ \A s \in Senders, v \in Users :
                  seq'[s][v] = IF s = w /\ v = d THEN seq[w][d] + 1 ELSE seq[s][v]
             /\ UNCHANGED <<recv, run, flagged, weakup, done>>
             /\ DataOK' /\ Addressed'
<1>1. PICK d \in Users :
        /\ seq' \in [Senders -> [Users -> 0..MaxSeq]]
        /\ send' = [send EXCEPT ![w] = Append(@, Numbered(w, d))]
        /\ seq' = [seq EXCEPT ![w][d] = @ + 1]
        /\ UNCHANGED <<recv, run, flagged, weakup, done>>
  BY UserWorkerAssumption DEF Produce, ownerVars, MaySend, Senders
<1>2. seq[w][d] \in 0..MaxSeq /\ w \in Senders
  BY Limits
<1>6. seq \in [Senders -> [Users -> 0..MaxSeq]]
  BY DEF DataOK
<1>7. seq[w][d] + 1 <= MaxSeq
  BY <1>1, <1>2, <1>6
<1>3. PICK m \in By(w) :
        /\ m = Numbered(w, d) /\ m.src = w /\ m.dst = d /\ m.n = seq[w][d] + 1
        /\ m \in Msg
  <2>1. seq[w][d] + 1 \in 1..MaxSeq
    BY <1>2, <1>7, UserWorkerAssumption
  <2>2. /\ Numbered(w, d).src = w /\ Numbered(w, d).dst = d
        /\ Numbered(w, d).n = seq[w][d] + 1 /\ Numbered(w, d) \in Msg
    BY <1>2, <2>1 DEF Numbered, Msg
  <2>3. Numbered(w, d) \in By(w)
    BY <2>2 DEF By
  <2> QED
    BY <2>2, <2>3
<1>4. Append(send[w], m) \in Seq(By(w)) /\ Append(send[w], m) \in Seq(Msg)
  BY <1>3, Limits, AppendProperties
<1>5. /\ send' \in [Users -> Seq(Msg)] /\ send'[w] = Append(send[w], m)
      /\ \A v \in Users : v # w => send'[v] = send[v]
  BY <1>1, <1>3, <1>4 DEF DataOK
<1>8. ASSUME NEW s \in Senders, NEW v \in Users
      PROVE  seq'[s][v] = IF s = w /\ v = d THEN seq[w][d] + 1 ELSE seq[s][v]
  BY <1>1, <1>2, <1>6
<1>9. DataOK'
  BY <1>1, <1>5 DEF DataOK
<1>10. Addressed'
  BY <1>1, <1>4, <1>5 DEF Addressed
<1> QED
  BY <1>1, <1>3, <1>5, <1>8, <1>9, <1>10

(* The queue without the worker that is woken.                              *)
LEMMA WeakupAfterOps ==
    ASSUME weakup \in Seq(Users), NEW k \in 1..Len(weakup)
    PROVE  /\ WeakupAfter(k) \in Seq(Users)
           /\ Once(weakup) =>
                /\ Once(WeakupAfter(k))
                /\ \A b : In(WeakupAfter(k), b) <=> In(weakup, b) /\ b # weakup[k]
<1> DEFINE n == Len(weakup)
           r == WeakupAfter(k)
           u == SubSeq(weakup, 1, k - 1)
           v == SubSeq(weakup, k + 1, n)
<1>1. n \in Nat /\ k \in 1..n /\ k + 1 \in Int /\ k - 1 \in Int
  BY LenProperties
<1>2. /\ \A i \in k + 1 .. n : weakup[i] \in Users
      /\ \A i \in 1 .. k - 1 : weakup[i] \in Users
  BY <1>1, ElementOfSeq
<1>3. /\ u \in Seq(Users) /\ Len(u) = k - 1
      /\ \A i \in 1 .. k - 1 : u[i] = weakup[i]
  BY <1>1, <1>2, SubSeqProperties
<1>4. /\ v \in Seq(Users) /\ Len(v) = n - k
      /\ \A i \in 1 .. n - k : v[i] = weakup[k + i]
  BY <1>1, <1>2, SubSeqProperties
<1>5. r = u \o v
  BY DEF WeakupAfter
<1> HIDE DEF n, r, u, v
<1>6. /\ r \in Seq(Users) /\ Len(r) = Len(u) + Len(v)
      /\ \A i \in 1 .. Len(u) + Len(v) :
           r[i] = IF i <= Len(u) THEN u[i] ELSE v[i - Len(u)]
  BY <1>3, <1>4, <1>5, ConcatProperties
<1>7. Len(r) = n - 1
  BY <1>1, <1>3, <1>4, <1>6
<1>8. ASSUME NEW i \in 1 .. n - 1
      PROVE  r[i] = IF i < k THEN weakup[i] ELSE weakup[i + 1]
  <2>1. r[i] = IF i <= k - 1 THEN u[i] ELSE v[i - (k - 1)]
    BY <1>1, <1>3, <1>4, <1>6
  <2>2. CASE i < k
    BY <1>1, <1>3, <2>1, <2>2
  <2>3. CASE i >= k
    <3>1. i - (k - 1) \in 1 .. n - k /\ k + (i - (k - 1)) = i + 1
      BY <1>1, <2>3
    <3> QED
      BY <1>1, <1>4, <2>1, <2>3, <3>1
  <2> QED
    BY <1>1, <2>2, <2>3
<1>9. Without(weakup, r, k)
  BY <1>1, <1>7, <1>8 DEF n, Without
<1> QED
  BY <1>6, <1>9, Removal DEF r

LEMMA Moved ==
    ASSUME DataOK, Addressed, NEW i \in 1..Len(weakup), Wake(i)
    PROVE  \E w \in Users :
             /\ w = weakup[i] /\ owner[w] = "kMain"
             /\ run'[w] = RunAfterMove(recv[w], run[w], RunSize[w])
             /\ recv'[w] = RecvAfterMove(recv[w], RunSize[w])
             /\ \A d \in Users : d # w => run'[d] = run[d] /\ recv'[d] = recv[d]
             /\ weakup' = WeakupAfter(i) /\ flagged' = [flagged EXCEPT ![w] = FALSE]
             /\ toOwner' = [toOwner EXCEPT ![w] = Append(@, "kRunWithMsg")]
             /\ UNCHANGED <<send, seq, done, registered>>
             /\ DataOK' /\ Addressed'
<1>1. PICK w \in Users : w = weakup[i]
  BY ElementOfSeq DEF DataOK
<1>2. /\ owner[w] = "kMain"
      /\ run' = [run EXCEPT ![w] = RunAfterMove(recv[w], run[w], RunSize[w])]
      /\ recv' = [recv EXCEPT ![w] = RecvAfterMove(recv[w], RunSize[w])]
      /\ weakup' = WeakupAfter(i) /\ flagged' = [flagged EXCEPT ![w] = FALSE]
      /\ toOwner' = [toOwner EXCEPT ![w] = Append(@, "kRunWithMsg")]
      /\ UNCHANGED <<send, seq, done, registered>>
  BY <1>1 DEF Wake, MayWake, FlagAfterWake, mainVars, histVars
<1>3. /\ RunAfterMove(recv[w], run[w], RunSize[w]) \in Seq(To(w))
      /\ RecvAfterMove(recv[w], RunSize[w]) \in Seq(To(w))
  BY Limits, MoveType
<1>4. /\ RunAfterMove(recv[w], run[w], RunSize[w]) \in Seq(Msg)
      /\ RecvAfterMove(recv[w], RunSize[w]) \in Seq(Msg)
  BY Limits, MoveType
<1>5. /\ run' \in [Users -> Seq(Msg)] /\ recv' \in [Users -> Seq(Msg)]
      /\ run'[w] = RunAfterMove(recv[w], run[w], RunSize[w])
      /\ recv'[w] = RecvAfterMove(recv[w], RunSize[w])
      /\ \A d \in Users : d # w => run'[d] = run[d] /\ recv'[d] = recv[d]
  BY <1>2, <1>4 DEF DataOK
<1>6. weakup' \in Seq(Users)
  BY <1>2, WeakupAfterOps DEF DataOK
<1>7. DataOK'
  BY <1>2, <1>5, <1>6 DEF DataOK
<1>8. Addressed'
  BY <1>2, <1>3, <1>5 DEF Addressed
<1> QED
  BY <1>1, <1>2, <1>5, <1>7, <1>8

LEMMA Delivered ==
    ASSUME DataOK, Addressed, NEW m \in Msg, DispatchWorkerMsg(m)
    PROVE  /\ m.dst \in registered =>
                /\ recv'[m.dst] = Recv(recv[m.dst], m, Pending[m.dst])
                /\ recv'[m.dst] # <<>>
           /\ \A d \in Users : d # m.dst \/ d \notin registered => recv'[d] = recv[d]
           /\ recv' \in [Users -> Seq(Msg)] /\ flagged' \in [Users -> BOOLEAN]
           /\ weakup' \in Seq(Users)
           /\ \A d \in Users : recv'[d] \in Seq(To(d))
<1> DEFINE x == m.dst
<1>1. x \in Users /\ m \in To(x)
  BY DEF Msg, To
<1>2. CASE x \notin registered
  BY <1>2, Limits DEF DispatchWorkerMsg, DataOK
<1>3. CASE x \in registered
  <2>1. /\ recv' = [recv EXCEPT ![x] = Recv(recv[x], m, Pending[x])]
        /\ flagged' = [flagged EXCEPT ![x] = TRUE]
        /\ weakup' = IF flagged[x] THEN weakup ELSE Append(weakup, x)
    BY <1>3 DEF DispatchWorkerMsg
  <2> HIDE DEF x
  <2>2. /\ Recv(recv[x], m, Pending[x]) \in Seq(To(x))
        /\ Recv(recv[x], m, Pending[x]) # <<>>
    BY <1>1, Limits, RecvType
  <2>3. Recv(recv[x], m, Pending[x]) \in Seq(Msg)
    BY <1>1, Limits, RecvType
  <2>4. /\ recv' \in [Users -> Seq(Msg)]
        /\ recv'[x] = Recv(recv[x], m, Pending[x])
        /\ \A d \in Users : d # x => recv'[d] = recv[d]
    BY <1>1, <2>1, <2>3 DEF DataOK
  <2>5. flagged' \in [Users -> BOOLEAN] /\ weakup' \in Seq(Users)
    BY <1>1, <2>1, AppendProperties DEF DataOK
  <2> QED
    BY <1>1, <1>3, <2>2, <2>4, <2>5, Limits DEF x
<1> QED
  BY <1>2, <1>3

LEMMA Dispatched ==
    ASSUME DataOK, Addressed, ControlOK, DispatchOne
    PROVE  \E w \in Users : \E m \in By(w) :
             /\ m = Head(send[w]) /\ send[w] # <<>> /\ m.src = w /\ m \in Msg
             /\ DispatchWorkerMsg(m)
             /\ send'[w] = Tail(send[w])
             /\ \A v \in Users : v # w => send'[v] = send[v]
             /\ UNCHANGED <<run, seq, done, registered, toOwner>>
             /\ DataOK' /\ Addressed'
<1>1. PICK w \in Users : w = cur
  BY DEF DispatchOne, ControlOK, RoundOK
<1>2. /\ send[w] # <<>> /\ DispatchWorkerMsg(Head(send[w]))
      /\ send' = [send EXCEPT ![w] = Tail(@)]
      /\ UNCHANGED <<run, seq, done, registered, toOwner>>
  BY <1>1, Limits
  DEF DispatchOne, SendAfter, histVars, mainVars, chanVars, DataOK
<1>3. PICK m \in By(w) : m = Head(send[w]) /\ m \in Msg /\ m.src = w
  <2>1. Head(send[w]) \in By(w)
    BY <1>2, Limits, HeadTailProperties
  <2> QED
    BY <2>1 DEF By
<1>4. Tail(send[w]) \in Seq(By(w)) /\ Tail(send[w]) \in Seq(Msg)
  BY <1>2, Limits, HeadTailProperties
<1>5. /\ send' \in [Users -> Seq(Msg)] /\ send'[w] = Tail(send[w])
      /\ \A v \in Users : v # w => send'[v] = send[v]
  BY <1>2, <1>4 DEF DataOK
<1>6. DispatchWorkerMsg(m)
  BY <1>2, <1>3
<1>7. /\ recv' \in [Users -> Seq(Msg)] /\ flagged' \in [Users -> BOOLEAN]
      /\ weakup' \in Seq(Users) /\ \A d \in Users : recv'[d] \in Seq(To(d))
  BY <1>3, <1>6, Delivered
<1>8. DataOK'
  BY <1>2, <1>5, <1>7 DEF DataOK
<1>9. Addressed'
  BY <1>2, <1>4, <1>5, <1>7 DEF Addressed
<1> QED
  BY <1>2, <1>3, <1>5, <1>6, <1>8, <1>9

LEMMA Arrived ==
    ASSUME DataOK, Addressed, ProcessOther
    PROVE  \E d \in Users, m \in Msg :
             /\ m.src = ext /\ m.dst = d /\ m.n = seq[ext][d] + 1
             /\ DispatchWorkerMsg(m)
             /\ \A s \in Senders, v \in Users :
                  seq'[s][v] = IF s = ext /\ v = d THEN seq[ext][d] + 1 ELSE seq[s][v]
             /\ UNCHANGED <<run, send, done, registered, toOwner>>
             /\ DataOK' /\ Addressed'
<1>1. PICK d \in Users :
        /\ seq' \in [Senders -> [Users -> 0..MaxSeq]]
        /\ DispatchWorkerMsg(Numbered(ext, d))
        /\ seq' = [seq EXCEPT ![ext][d] = @ + 1]
        /\ UNCHANGED <<run, send, done, registered, toOwner>>
  BY UserWorkerAssumption DEF ProcessOther, chanVars, mainVars, MaySend, Senders
<1>2. seq[ext][d] \in 0..MaxSeq /\ ext \in Senders
  BY Limits
<1>5. seq \in [Senders -> [Users -> 0..MaxSeq]]
  BY DEF DataOK
<1>6. seq[ext][d] + 1 <= MaxSeq
  BY <1>1, <1>2, <1>5
<1>3. PICK m \in Msg :
        m = Numbered(ext, d) /\ m.src = ext /\ m.dst = d /\ m.n = seq[ext][d] + 1
  <2>1. seq[ext][d] + 1 \in 1..MaxSeq
    BY <1>2, <1>6, UserWorkerAssumption
  <2>2. /\ Numbered(ext, d).src = ext /\ Numbered(ext, d).dst = d
        /\ Numbered(ext, d).n = seq[ext][d] + 1 /\ Numbered(ext, d) \in Msg
    BY <1>2, <2>1 DEF Numbered, Msg
  <2> QED
    BY <2>2
<1>4. DispatchWorkerMsg(m)
  BY <1>1, <1>3
<1>7. ASSUME NEW s \in Senders, NEW v \in Users
      PROVE  seq'[s][v] = IF s = ext /\ v = d THEN seq[ext][d] + 1 ELSE seq[s][v]
  BY <1>1, <1>2, <1>5
<1>8. /\ recv' \in [Users -> Seq(Msg)] /\ flagged' \in [Users -> BOOLEAN]
      /\ weakup' \in Seq(Users) /\ \A v \in Users : recv'[v] \in Seq(To(v))
  BY <1>3, <1>4, Delivered
<1>9. DataOK'
  BY <1>1, <1>8 DEF DataOK
<1>10. Addressed'
  BY <1>1, <1>8 DEF Addressed
<1> QED
  BY <1>1, <1>3, <1>4, <1>7, <1>9, <1>10

-----------------------------------------------------------------------------
(* The queue of workers to wake.                                            *)

Queued(w) ==
    /\ flagged[w] <=> In(weakup, w)
    /\ flagged[w] => recv[w] # <<>>
    /\ RunSize[w] <= 0 /\ recv[w] # <<>> => flagged[w]

LEMMA QueuedParts ==
    ASSUME DataOK
    PROVE  QueuedWithMessages <=> Once(weakup) /\ \A w \in Users : Queued(w)
<1>1. Once(weakup) <=> \A i, j \in 1..Len(weakup) : weakup[i] = weakup[j] => i = j
  BY DEF Once
<1>2. ASSUME NEW w \in Users
      PROVE  Queued(w)
             <=> /\ flagged[w] = (\E i \in 1..Len(weakup) : weakup[i] = w)
                 /\ flagged[w] => recv[w] # <<>>
                 /\ RunSize[w] <= 0 /\ recv[w] # <<>> => flagged[w]
  <2>1. flagged[w] \in BOOLEAN
    BY DEF DataOK
  <2>2. In(weakup, w) <=> \E i \in 1..Len(weakup) : weakup[i] = w
    BY DEF In
  <2> QED
    BY <2>1, <2>2 DEF Queued
<1> QED
  BY <1>1, <1>2, Zenon DEF QueuedWithMessages

LEMMA QueuedPartsAfter ==
    ASSUME DataOK', Once(weakup'), \A w \in Users : Queued(w)'
    PROVE  QueuedWithMessages'
<1>1. \A i, j \in 1..Len(weakup') : weakup'[i] = weakup'[j] => i = j
  BY DEF Once
<1>2. ASSUME NEW w \in Users
      PROVE  /\ flagged'[w] = (\E i \in 1..Len(weakup') : weakup'[i] = w)
             /\ flagged'[w] => recv'[w] # <<>>
             /\ RunSize[w] <= 0 /\ recv'[w] # <<>> => flagged'[w]
  <2>1. flagged'[w] \in BOOLEAN
    BY DEF DataOK
  <2>2. In(weakup', w) <=> \E i \in 1..Len(weakup') : weakup'[i] = w
    BY DEF In
  <2> QED
    BY <2>1, <2>2 DEF Queued
<1> QED
  BY <1>1, <1>2 DEF QueuedWithMessages

LEMMA QuietQueued ==
    ASSUME DataOK, DataOK', QueuedWithMessages, UNCHANGED <<recv, flagged, weakup>>
    PROVE  QueuedWithMessages'
<1>1. Once(weakup) /\ \A v \in Users : Queued(v)
  BY QueuedParts
<1>2. Once(weakup')
  BY <1>1
<1>3. \A v \in Users : Queued(v)'
  BY <1>1 DEF Queued
<1> QED
  BY <1>2, <1>3, QueuedPartsAfter

(* The worker that is woken leaves the queue, and no message behind if its  *)
(* batches have no limit.                                                   *)
LEMMA WakeQueued ==
    ASSUME DataOK, Addressed, QueuedWithMessages,
           NEW i \in 1..Len(weakup), Wake(i)
    PROVE  QueuedWithMessages'
<1>1. PICK w \in Users :
        /\ w = weakup[i]
        /\ recv'[w] = RecvAfterMove(recv[w], RunSize[w])
        /\ \A d \in Users : d # w => recv'[d] = recv[d]
        /\ weakup' = WeakupAfter(i) /\ flagged' = [flagged EXCEPT ![w] = FALSE]
        /\ DataOK'
  BY Moved
<1>2. Once(weakup) /\ \A v \in Users : Queued(v)
  BY QueuedParts
<1>3. /\ Once(weakup')
      /\ \A b : In(weakup', b) <=> In(weakup, b) /\ b # w
  BY <1>1, <1>2, WeakupAfterOps DEF DataOK
<1>4. RunSize[w] <= 0 => recv'[w] = <<>>
  <2>1. recv[w] \in Seq(Msg) /\ RunSize[w] \in Int /\ recv'[w] \in Seq(Msg)
    BY <1>1, Limits DEF DataOK
  <2>2. Len(recv'[w]) = Len(recv[w]) - BatchLen(recv[w], RunSize[w])
    BY <1>1, <2>1, MoveLen
  <2>3. RunSize[w] <= 0 => BatchLen(recv[w], RunSize[w]) = Len(recv[w])
    BY <2>1 DEF BatchLen
  <2> QED
    BY <2>1, <2>2, <2>3, LenProperties, EmptySeq
<1>5. \A v \in Users : flagged'[v] = IF v = w THEN FALSE ELSE flagged[v]
  BY <1>1 DEF DataOK
<1>6. \A v \in Users : Queued(v)'
  BY <1>1, <1>2, <1>3, <1>4, <1>5 DEF Queued
<1> QED
  BY <1>1, <1>3, <1>6, QueuedPartsAfter

LEMMA DeliverQueued ==
    ASSUME DataOK, Addressed, QueuedWithMessages, DataOK',
           NEW m \in Msg, DispatchWorkerMsg(m)
    PROVE  QueuedWithMessages'
<1> DEFINE x == m.dst
<1>1. Once(weakup) /\ \A v \in Users : Queued(v)
  BY QueuedParts
<1>2. x \in Users
  BY DEF Msg
<1>3. CASE x \notin registered
  <2>1. UNCHANGED <<recv, flagged, weakup>>
    BY <1>3 DEF DispatchWorkerMsg
  <2> QED
    BY <2>1, QuietQueued
<1>4. CASE x \in registered
  <2>1. /\ recv'[x] # <<>> /\ \A v \in Users : v # x => recv'[v] = recv[v]
    BY <1>4, Delivered
  <2>2. /\ flagged' = [flagged EXCEPT ![x] = TRUE]
        /\ weakup' = IF flagged[x] THEN weakup ELSE Append(weakup, x)
    BY <1>4 DEF DispatchWorkerMsg
  <2> HIDE DEF x
  <2>3. \A v \in Users : flagged'[v] = IF v = x THEN TRUE ELSE flagged[v]
    BY <1>2, <2>2 DEF DataOK
  <2>4. /\ Once(weakup')
        /\ \A v \in Users : In(weakup', v) <=> In(weakup, v) \/ v = x
    <3>1. CASE flagged[x]
      BY <1>1, <1>2, <2>2, <3>1 DEF Queued
    <3>2. CASE ~flagged[x]
      <4>1. weakup' = Append(weakup, x) /\ ~In(weakup, x) /\ weakup \in Seq(Users)
        BY <1>1, <1>2, <2>2, <3>2 DEF Queued, DataOK
      <4> QED
        BY <1>1, <1>2, <4>1, AppendOnce
    <3> QED
      BY <3>1, <3>2
  <2>5. \A v \in Users : Queued(v)'
    BY <1>1, <1>2, <2>1, <2>3, <2>4 DEF Queued
  <2> QED
    BY <2>4, <2>5, QueuedPartsAfter
<1> QED
  BY <1>3, <1>4

-----------------------------------------------------------------------------
(* Woken with a message.                                                    *)

Woken(w) == In(toOwner[w], "kRunWithMsg") => run[w] # <<>>

LEMMA WokenParts ==
    /\ WokenWithMessage <=> \A w \in Users : Woken(w)
    /\ WokenWithMessage' <=> \A w \in Users : Woken(w)'
  BY DEF WokenWithMessage, Woken

(* A step that tells no worker to run with messages, and takes none from one*)
(* that was told.                                                           *)
LEMMA QuietWoken ==
    ASSUME WokenWithMessage, run' = run,
           \A w \in Users :
               In(toOwner'[w], "kRunWithMsg") => In(toOwner[w], "kRunWithMsg")
    PROVE  WokenWithMessage'
  BY WokenParts DEF Woken

LEMMA WokenNext ==
    ASSUME ControlInv, DataOK, Addressed, QueuedWithMessages, WokenWithMessage,
           [Next]_vars
    PROVE  WokenWithMessage'
<1>0. /\ \A w \in Users : Woken(w) /\ Worker(w)
      /\ ControlOK /\ RoundOK /\ ChannelsOK /\ ListedFirst
      /\ toOwner \in [Users -> Seq(ToWorker)]
  BY WokenParts, ControlParts DEF ControlOK, ChannelsOK
<1>1. ASSUME NEW w \in Users, Consume(w) PROVE WokenWithMessage'
  <2>1. /\ wpc[w] = "run" /\ toOwner' = toOwner
        /\ \A d \in Users : d # w => run'[d] = run[d]
    BY <1>1, Consumed DEF Consume, chanVars
  <2>2. ~In(toOwner[w], "kRunWithMsg")
    BY <1>0, <2>1 DEF Worker, Answered, Answers
  <2> QED
    BY <1>0, <2>1, <2>2, WokenParts DEF Woken
<1>2. ASSUME NEW w \in Users, RecvCmd(w) PROVE WokenWithMessage'
  <2>1. /\ run' = run /\ toOwner[w] # <<>> /\ UNCHANGED quitVars
        /\ toOwner' = [toOwner EXCEPT ![w] = Tail(@)]
    BY <1>2 DEF RecvCmd, mailboxVars
  <2>2. /\ In(toOwner'[w], "kRunWithMsg") => In(toOwner[w], "kRunWithMsg")
        /\ \A v \in Users : v # w => toOwner'[v] = toOwner[v]
    BY <1>0, <2>1, Reads
  <2> QED
    BY <2>1, <2>2, QuietWoken
<1>3. ASSUME NEW i \in 1..Len(weakup), Wake(i) PROVE WokenWithMessage'
  <2>1. PICK w \in Users :
          /\ w = weakup[i]
          /\ run'[w] = RunAfterMove(recv[w], run[w], RunSize[w])
          /\ \A d \in Users : d # w => run'[d] = run[d]
          /\ toOwner' = [toOwner EXCEPT ![w] = Append(@, "kRunWithMsg")]
          /\ DataOK'
    BY <1>3, Moved
  <2>2. recv[w] # <<>>
    <3>1. In(weakup, w)
      BY <2>1 DEF In
    <3> QED
      BY <3>1, QueuedParts DEF Queued
  <2>3. run'[w] # <<>>
    <3>1. /\ recv[w] \in Seq(Msg) /\ run[w] \in Seq(Msg) /\ RunSize[w] \in Int
          /\ Len(run[w]) \in Nat
      BY Limits, LenProperties
    <3>2. BatchLen(recv[w], RunSize[w]) \in 0..Len(recv[w])
          /\ BatchLen(recv[w], RunSize[w]) > 0
      BY <2>2, <3>1, BatchLenBound
    <3>3. Len(RunAfterMove(recv[w], run[w], RunSize[w]))
            = BatchLen(recv[w], RunSize[w]) + Len(run[w])
      BY <3>1, MoveLen
    <3>4. Len(<<>>) = 0
      BY EmptySeq
    <3> QED
      BY <2>1, <3>1, <3>2, <3>3, <3>4
  <2>4. \A v \in Users : v # w => toOwner'[v] = toOwner[v]
    BY <1>0, <2>1
  <2> QED
    BY <1>0, <2>1, <2>3, <2>4, WokenParts DEF Woken
<1>4. CASE FinishEvent
  <2>1. PICK w \in Users : w = cur
    BY <1>0, <1>4 DEF FinishEvent, RoundOK
  <2>2. /\ run' = run
        /\ \/ toOwner' = toOwner
           \/ toOwner' = [toOwner EXCEPT ![w] = @ \o <<"kRun">>]
           \/ toOwner' = [toOwner EXCEPT ![w] = @ \o <<>>]
    BY <1>4, <2>1 DEF FinishEvent, Reply, mailboxVars
  <2>3. /\ toOwner[w] \o <<"kRun">> = Append(toOwner[w], "kRun")
        /\ toOwner[w] \o <<>> = toOwner[w]
        /\ \A b : In(Append(toOwner[w], "kRun"), b)
                    <=> In(toOwner[w], b) \/ b = "kRun"
    <3>1. "kRun" \in ToWorker /\ toOwner[w] \in Seq(ToWorker)
      BY <1>0 DEF ToWorker, Answers
    <3> QED
      BY <3>1, AppendIsConcat, ConcatEmptySeq, AppendOnce
  <2>4. ASSUME NEW v \in Users, In(toOwner'[v], "kRunWithMsg")
        PROVE  In(toOwner[v], "kRunWithMsg")
    <3>1. CASE v = w
      <4>1. toOwner'[w] = toOwner[w] \/ toOwner'[w] = Append(toOwner[w], "kRun")
        BY <1>0, <2>2, <2>3
      <4> QED
        BY <2>3, <2>4, <3>1, <4>1
    <3>2. CASE v # w
      <4>1. toOwner'[v] = toOwner[v]
        BY <1>0, <2>2, <3>2
      <4> QED
        BY <2>4, <4>1
    <3> QED
      BY <3>1, <3>2
  <2> QED
    BY <2>2, <2>4, QuietWoken
<1>5. ASSUME NEW c \in Quitters, NEW w \in Users, SendQuit(c, w)
      PROVE  WokenWithMessage'
  <2>1. /\ \A v \in Users : v # w => toOwner'[v] = toOwner[v]
        /\ In(toOwner'[w], "kRunWithMsg") => In(toOwner[w], "kRunWithMsg")
    BY <1>0, <1>5, Telling
  <2>2. run' = run
    BY <1>5 DEF SendQuit, mailboxVars
  <2> QED
    BY <2>1, <2>2, QuietWoken
<1>6. CASE \/ Wait \/ (\E w \in Users : BeginEvent(w)) \/ DispatchOne
           \/ ProcessDone \/ ProcessOther \/ UNCHANGED vars
           \/ \E w \in Users : Produce(w) \/ Stop(w) \/ Dispatch(w) \/ Return(w)
           \/ \E c \in Quitters : StopAllWorker(c)
  <2>1. run' = run /\ toOwner' = toOwner
    BY <1>6 DEF Wait, BeginEvent, DispatchOne, ProcessDone, ProcessOther, vars,
                Produce, Stop, Dispatch, Return, StopAllWorker, mailboxVars,
                chanVars
  <2> QED
    BY <2>1, QuietWoken
<1> QED
  BY <1>1, <1>2, <1>3, <1>4, <1>5, <1>6
  DEF Next, Main, Thread, WeakupWorker, Caller, Terminated

LEMMA QueuedNext ==
    ASSUME ControlInv, DataOK, Addressed, QueuedWithMessages, [Next]_vars
    PROVE  DataOK' /\ Addressed' /\ QueuedWithMessages'
<1>0. ControlOK
  BY ControlParts
<1>1. ASSUME NEW w \in Users, Consume(w) \/ Produce(w)
      PROVE  DataOK' /\ Addressed' /\ QueuedWithMessages'
  <2>1. UNCHANGED <<recv, flagged, weakup>> /\ DataOK' /\ Addressed'
    BY <1>1, Consumed, Produced
  <2> QED
    BY <2>1, QuietQueued
<1>2. ASSUME NEW i \in 1..Len(weakup), Wake(i)
      PROVE  DataOK' /\ Addressed' /\ QueuedWithMessages'
  BY <1>2, Moved, WakeQueued
<1>3. CASE DispatchOne
  BY <1>0, <1>3, Dispatched, DeliverQueued
<1>4. CASE ProcessOther
  BY <1>4, Arrived, DeliverQueued
<1>5. CASE \/ Wait \/ (\E w \in Users : BeginEvent(w)) \/ FinishEvent
           \/ ProcessDone \/ UNCHANGED vars
           \/ (\E w \in Users : Stop(w) \/ Dispatch(w) \/ RecvCmd(w) \/ Return(w))
           \/ \E c \in Quitters : StopAllWorker(c) \/ Caller(c)
  <2>1. UNCHANGED <<recv, run, send, flagged, weakup, seq, done>>
    BY <1>5 DEF Wait, BeginEvent, FinishEvent, ProcessDone, StopAllWorker, vars,
                Caller, SendQuit, Stop, Dispatch, RecvCmd, Return, mailboxVars,
                ownerVars, histVars
  <2> QED
    <3>1. DataOK' /\ Addressed'
      BY <2>1 DEF DataOK, Addressed
    <3> QED
      BY <2>1, <3>1, QuietQueued
<1> QED
  BY <1>1, <1>2, <1>3, <1>4, <1>5
  DEF Next, Main, Thread, WeakupWorker, Terminated

-----------------------------------------------------------------------------
(* The messages on their way to a worker that is there and takes all.       *)

PairFlow(s, d) ==
    RunSize[d] <= 0 =>
        /\ Flows(run[d], recv[d], Sent(s), s, d, done[s][d], seq[s][d])
        /\ Pending[d] <= 0 =>
             Full(run[d], recv[d], Sent(s), s, d, done[s][d], seq[s][d])

LEMMA FlowParts ==
    /\ FlowInv <=> \A s \in Senders, d \in registered : PairFlow(s, d)
    /\ FlowInv' <=> \A s \in Senders, d \in registered' : PairFlow(s, d)'
  BY DEF FlowInv, PairFlow

LEMMA SentIsQueue ==
    /\ \A w \in Users : Sent(w) = send[w] /\ Sent(w)' = send'[w]
    /\ Sent(ext) = <<>> /\ Sent(ext)' = <<>>
  BY UserWorkerAssumption DEF Sent

(* A step that moves no message; a worker may leave.                        *)
LEMMA QuietFlow ==
    ASSUME FlowInv, UNCHANGED <<run, recv, send, done, seq>>,
           registered' \subseteq registered
    PROVE  FlowInv'
<1>1. ASSUME NEW s \in Senders, NEW d \in registered' PROVE PairFlow(s, d)'
  <2>1. PairFlow(s, d)
    BY FlowParts
  <2>2. Sent(s)' = Sent(s)
    BY DEF Sent
  <2> QED
    BY <2>1, <2>2 DEF PairFlow
<1> QED
  BY <1>1, FlowParts

LEMMA ConsumeFlow ==
    ASSUME DataOK, Addressed, ControlOK, FlowInv, NEW w \in Users, Consume(w)
    PROVE  FlowInv'
<1> DEFINE m == Head(run[w])
<1>1. /\ run[w] # <<>> /\ m.dst = w /\ run'[w] = Tail(run[w])
      /\ \A d \in Users : d # w => run'[d] = run[d]
      /\ \A s \in Senders, d \in Users :
           done'[s][d] = IF m.src = s /\ m.dst = d THEN m.n ELSE done[s][d]
      /\ UNCHANGED <<recv, send, seq>>
  BY Consumed
<1>2. registered' = registered /\ registered \subseteq Users
  BY DEF Consume, mainVars, ControlOK, RoundOK
<1>3. ASSUME NEW s \in Senders, NEW d \in registered PROVE PairFlow(s, d)'
  <2>1. PairFlow(s, d) /\ Sent(s)' = Sent(s) /\ d \in Users
    BY <1>1, <1>2, FlowParts DEF Sent
  <2>2. CASE d # w
    <3>1. run'[d] = run[d] /\ done'[s][d] = done[s][d]
      BY <1>1, <2>1, <2>2
    <3> QED
      BY <1>1, <2>1, <3>1 DEF PairFlow
  <2>3. CASE d = w
    <3>1. SUFFICES ASSUME RunSize[w] <= 0
                   PROVE  /\ Flows(run'[w], recv[w], Sent(s), s, w,
                                   done'[s][w], seq[s][w])
                          /\ Pending[w] <= 0 =>
                               Full(run'[w], recv[w], Sent(s), s, w,
                                    done'[s][w], seq[s][w])
      BY <1>1, <2>1, <2>3 DEF PairFlow
    <3>2. /\ run[w] \in Seq(Msg) /\ done[s][w] \in Int /\ seq[s][w] \in Int
      <4>1. seq[s][w] \in 0..MaxSeq /\ done[s][w] \in 0..MaxSeq /\ MaxSeq \in Nat
        BY Limits, UserWorkerAssumption
      <4> QED
        BY <4>1, Limits
    <3>3. Flows(run[w], recv[w], Sent(s), s, w, done[s][w], seq[s][w])
      BY <2>1, <2>3, <3>1 DEF PairFlow
    <3>4. done'[s][w] = IF m.src = s /\ m.dst = w THEN m.n ELSE done[s][w]
      BY <1>1
    <3>5. /\ Flows(Tail(run[w]), recv[w], Sent(s), s, w, done'[s][w], seq[s][w])
          /\ Full(run[w], recv[w], Sent(s), s, w, done[s][w], seq[s][w])
               => Full(Tail(run[w]), recv[w], Sent(s), s, w, done'[s][w],
                       seq[s][w])
      BY <1>1, <3>2, <3>3, <3>4, ArriveFlow
    <3> QED
      BY <1>1, <2>1, <2>3, <3>1, <3>5 DEF PairFlow
  <2> QED
    BY <2>2, <2>3
<1> QED
  BY <1>2, <1>3, FlowParts

LEMMA ProduceFlow ==
    ASSUME DataOK, Addressed, ControlOK, FlowInv, NEW w \in Users, Produce(w)
    PROVE  FlowInv'
<1>1. PICK x \in Users, m \in By(w) :
        /\ m.src = w /\ m.dst = x /\ m.n = seq[w][x] + 1
        /\ send'[w] = Append(send[w], m)
        /\ \A v \in Users : v # w => send'[v] = send[v]
        /\ \A s \in Senders, v \in Users :
             seq'[s][v] = IF s = w /\ v = x THEN seq[w][x] + 1 ELSE seq[s][v]
        /\ UNCHANGED <<recv, run, done>>
  BY Produced
<1>2. registered' = registered /\ registered \subseteq Users
  BY DEF Produce, mainVars, ControlOK, RoundOK
<1>3. ASSUME NEW s \in Senders, NEW d \in registered PROVE PairFlow(s, d)'
  <2>1. PairFlow(s, d) /\ d \in Users
    BY <1>2, FlowParts
  <2>2. CASE s # w
    <3>1. seq'[s][d] = seq[s][d]
      BY <1>1, <2>1, <2>2
    <3>2. Sent(s)' = Sent(s)
      BY <1>1, <2>2, SentIsQueue DEF Senders
    <3> QED
      BY <1>1, <2>1, <3>1, <3>2 DEF PairFlow
  <2>3. CASE s = w
    <3>1. Sent(s) = send[w] /\ Sent(s)' = Append(send[w], m)
      BY <1>1, <2>3, SentIsQueue
    <3>2. SUFFICES ASSUME RunSize[d] <= 0
                   PROVE  /\ Flows(run[d], recv[d], Append(send[w], m), s, d,
                                   done[s][d], seq'[s][d])
                          /\ Pending[d] <= 0 =>
                               Full(run[d], recv[d], Append(send[w], m), s, d,
                                    done[s][d], seq'[s][d])
      BY <1>1, <2>1, <3>1 DEF PairFlow
    <3>3. /\ Flows(run[d], recv[d], send[w], s, d, done[s][d], seq[s][d])
          /\ Pending[d] <= 0 =>
               Full(run[d], recv[d], send[w], s, d, done[s][d], seq[s][d])
      BY <2>1, <3>1, <3>2 DEF PairFlow
    <3>4. /\ send[w] \in Seq(By(w)) /\ done[s][d] \in Int /\ seq[s][d] \in Int
      <4>1. seq[s][d] \in 0..MaxSeq /\ done[s][d] \in 0..MaxSeq /\ MaxSeq \in Nat
        BY <2>1, Limits, UserWorkerAssumption
      <4> QED
        BY <4>1, Limits
    <3>5. CASE d = x
      <4>1. seq'[s][d] = seq[s][d] + 1 /\ m.src = s /\ m.dst = d
            /\ m.n = seq[s][d] + 1
        BY <1>1, <2>1, <2>3, <3>5
      <4>2. /\ Flows(run[d], recv[d], Append(send[w], m), s, d, done[s][d],
                     seq[s][d] + 1)
            /\ Full(run[d], recv[d], send[w], s, d, done[s][d], seq[s][d])
                 => Full(run[d], recv[d], Append(send[w], m), s, d, done[s][d],
                         seq[s][d] + 1)
        BY <3>3, <3>4, <4>1, SendFlow
      <4> QED
        BY <3>3, <4>1, <4>2
    <3>6. CASE d # x
      <4>1. seq'[s][d] = seq[s][d] /\ ~(m.src = s /\ m.dst = d)
        BY <1>1, <2>1, <3>6
      <4>2. /\ Flows(run[d], recv[d], Append(send[w], m), s, d, done[s][d],
                     seq[s][d])
            /\ Full(run[d], recv[d], send[w], s, d, done[s][d], seq[s][d])
                 => Full(run[d], recv[d], Append(send[w], m), s, d, done[s][d],
                         seq[s][d])
        BY <3>3, <3>4, <4>1, OtherAppendFlow
      <4> QED
        BY <3>3, <4>1, <4>2
    <3> QED
      BY <3>5, <3>6
  <2> QED
    BY <2>2, <2>3
<1> QED
  BY <1>2, <1>3, FlowParts

LEMMA WakeFlow ==
    ASSUME DataOK, Addressed, ControlOK, FlowInv,
           NEW i \in 1..Len(weakup), Wake(i)
    PROVE  FlowInv'
<1>1. PICK w \in Users :
        /\ run'[w] = RunAfterMove(recv[w], run[w], RunSize[w])
        /\ recv'[w] = RecvAfterMove(recv[w], RunSize[w])
        /\ \A d \in Users : d # w => run'[d] = run[d] /\ recv'[d] = recv[d]
        /\ UNCHANGED <<send, seq, done, registered>>
  BY Moved
<1>2. registered \subseteq Users
  BY DEF ControlOK, RoundOK
<1>3. ASSUME NEW s \in Senders, NEW d \in registered PROVE PairFlow(s, d)'
  <2>1. PairFlow(s, d) /\ Sent(s)' = Sent(s) /\ d \in Users
    BY <1>1, <1>2, FlowParts DEF Sent
  <2>2. CASE d # w
    BY <1>1, <2>1, <2>2 DEF PairFlow
  <2>3. CASE d = w
    <3>1. SUFFICES ASSUME RunSize[w] <= 0
                   PROVE  /\ Flows(run'[w], recv'[w], Sent(s), s, w,
                                   done[s][w], seq[s][w])
                          /\ Pending[w] <= 0 =>
                               Full(run'[w], recv'[w], Sent(s), s, w,
                                    done[s][w], seq[s][w])
      BY <1>1, <2>1, <2>3 DEF PairFlow
    <3>2. /\ Flows(run[w], recv[w], Sent(s), s, w, done[s][w], seq[s][w])
          /\ Pending[w] <= 0 =>
               Full(run[w], recv[w], Sent(s), s, w, done[s][w], seq[s][w])
      BY <2>1, <2>3, <3>1 DEF PairFlow
    <3>3. run[w] \in Seq(Msg) /\ recv[w] \in Seq(Msg) /\ RunSize[w] \in Int
      BY Limits
    <3>4. LET b == RunAfterMove(recv[w], run[w], RunSize[w])
              o == RecvAfterMove(recv[w], RunSize[w])
          IN  /\ Flows(b, o, Sent(s), s, w, done[s][w], seq[s][w])
              /\ Full(run[w], recv[w], Sent(s), s, w, done[s][w], seq[s][w])
                   => Full(b, o, Sent(s), s, w, done[s][w], seq[s][w])
      BY <3>1, <3>2, <3>3, MoveAllFlows
    <3> QED
      BY <1>1, <3>2, <3>4
  <2> QED
    BY <2>2, <2>3
<1> QED
  BY <1>1, <1>3, FlowParts

(* A message of another pair is delivered.                                  *)
LEMMA OtherDelivered ==
    ASSUME DataOK, Addressed, NEW m \in Msg, DispatchWorkerMsg(m),
           NEW s \in Senders, NEW d \in registered, d \in Users, PairFlow(s, d),
           m.src # s,
           UNCHANGED <<run, done>>, Sent(s)' = Sent(s), seq'[s][d] = seq[s][d]
    PROVE  PairFlow(s, d)'
<1>1. CASE d = m.dst
  <2>1. /\ recv[d] \in Seq(To(d)) /\ Pending[d] \in Int /\ m \in To(d)
        /\ recv'[d] = Recv(recv[d], m, Pending[d])
    BY <1>1, Limits, Delivered DEF To
  <2>2. ASSUME RunSize[d] <= 0
        PROVE  /\ Flows(run[d], Recv(recv[d], m, Pending[d]), Sent(s), s, d,
                        done[s][d], seq[s][d])
               /\ Pending[d] <= 0 =>
                    Full(run[d], Recv(recv[d], m, Pending[d]), Sent(s), s, d,
                         done[s][d], seq[s][d])
    <3>1. /\ Flows(run[d], recv[d], Sent(s), s, d, done[s][d], seq[s][d])
          /\ Pending[d] <= 0 =>
               Full(run[d], recv[d], Sent(s), s, d, done[s][d], seq[s][d])
      BY <2>2 DEF PairFlow
    <3> QED
      BY <2>1, <3>1, OtherRecvFlow
  <2> QED
    BY <2>1, <2>2 DEF PairFlow
<1>2. CASE d # m.dst
  <2>1. recv'[d] = recv[d]
    BY <1>2, Delivered
  <2> QED
    BY <2>1 DEF PairFlow
<1> QED
  BY <1>1, <1>2

LEMMA DispatchOneFlow ==
    ASSUME DataOK, Addressed, ControlOK, FlowInv, DispatchOne
    PROVE  FlowInv'
<1>1. PICK w \in Users : \E m \in By(w) :
        /\ m = Head(send[w]) /\ send[w] # <<>> /\ m.src = w /\ m \in Msg
        /\ DispatchWorkerMsg(m)
        /\ send'[w] = Tail(send[w])
        /\ \A v \in Users : v # w => send'[v] = send[v]
        /\ UNCHANGED <<run, seq, done, registered>>
  BY Dispatched
<1>2. PICK m \in By(w) :
        /\ m = Head(send[w]) /\ send[w] # <<>> /\ m.src = w /\ m \in Msg
        /\ DispatchWorkerMsg(m)
        /\ send'[w] = Tail(send[w])
        /\ \A v \in Users : v # w => send'[v] = send[v]
        /\ UNCHANGED <<run, seq, done, registered>>
  BY <1>1
<1>3. registered \subseteq Users
  BY DEF ControlOK, RoundOK
<1>4. ASSUME NEW s \in Senders, NEW d \in registered PROVE PairFlow(s, d)'
  <2>1. PairFlow(s, d) /\ d \in Users
    BY <1>3, FlowParts
  <2>2. CASE s # w
    <3>1. Sent(s)' = Sent(s)
      BY <1>2, <2>2, SentIsQueue DEF Senders
    <3> QED
      BY <1>2, <2>1, <2>2, <3>1, OtherDelivered
  <2>3. CASE s = w
    <3>1. Sent(s) = send[w] /\ Sent(s)' = Tail(send[w])
      BY <1>2, <2>3, SentIsQueue
    <3>2. SUFFICES ASSUME RunSize[d] <= 0
                   PROVE  /\ Flows(run[d], recv'[d], Tail(send[w]), s, d,
                                   done[s][d], seq[s][d])
                          /\ Pending[d] <= 0 =>
                               Full(run[d], recv'[d], Tail(send[w]), s, d,
                                    done[s][d], seq[s][d])
      BY <1>2, <2>1, <3>1 DEF PairFlow
    <3>3. /\ Flows(run[d], recv[d], send[w], s, d, done[s][d], seq[s][d])
          /\ Pending[d] <= 0 =>
               Full(run[d], recv[d], send[w], s, d, done[s][d], seq[s][d])
      BY <2>1, <3>1, <3>2 DEF PairFlow
    <3>4. /\ send[w] \in Seq(Msg) /\ recv[d] \in Seq(Msg) /\ Pending[d] \in Int
      BY <2>1, Limits
    <3>5. CASE d = m.dst
      <4>1. recv'[d] = Recv(recv[d], Head(send[w]), Pending[d])
        BY <1>2, <3>5, Delivered
      <4>2. /\ Flows(run[d], Recv(recv[d], Head(send[w]), Pending[d]),
                     Tail(send[w]), s, d, done[s][d], seq[s][d])
            /\ Pending[d] <= 0
               /\ Full(run[d], recv[d], send[w], s, d, done[s][d], seq[s][d])
                 => Full(run[d], Recv(recv[d], Head(send[w]), Pending[d]),
                         Tail(send[w]), s, d, done[s][d], seq[s][d])
        BY <1>2, <3>3, <3>4, DispatchFlow
      <4> QED
        BY <3>3, <4>1, <4>2
    <3>6. CASE d # m.dst
      <4>1. recv'[d] = recv[d]
        BY <1>2, <2>1, <3>6, Delivered
      <4>2. ~(Head(send[w]).src = s /\ Head(send[w]).dst = d)
        BY <1>2, <3>6
      <4>3. /\ Flows(run[d], recv[d], Tail(send[w]), s, d, done[s][d], seq[s][d])
            /\ Full(run[d], recv[d], send[w], s, d, done[s][d], seq[s][d])
                 => Full(run[d], recv[d], Tail(send[w]), s, d, done[s][d],
                         seq[s][d])
        BY <1>2, <3>3, <3>4, <4>2, OtherTailFlow
      <4> QED
        BY <3>3, <4>1, <4>3
    <3> QED
      BY <3>5, <3>6
  <2> QED
    BY <2>2, <2>3
<1> QED
  BY <1>2, <1>4, FlowParts

LEMMA ProcessOtherFlow ==
    ASSUME DataOK, Addressed, ControlOK, FlowInv, ProcessOther
    PROVE  FlowInv'
<1>1. PICK x \in Users, m \in Msg :
        /\ m.src = ext /\ m.dst = x /\ m.n = seq[ext][x] + 1
        /\ DispatchWorkerMsg(m)
        /\ \A s \in Senders, v \in Users :
             seq'[s][v] = IF s = ext /\ v = x THEN seq[ext][x] + 1 ELSE seq[s][v]
        /\ UNCHANGED <<run, send, done, registered>>
  BY Arrived
<1>2. registered \subseteq Users
  BY DEF ControlOK, RoundOK
<1>3. ASSUME NEW s \in Senders, NEW d \in registered PROVE PairFlow(s, d)'
  <2>1. PairFlow(s, d) /\ Sent(s)' = Sent(s) /\ d \in Users
    BY <1>1, <1>2, FlowParts DEF Sent
  <2>2. CASE s # ext
    <3>1. seq'[s][d] = seq[s][d] /\ m.src # s
      BY <1>1, <2>1, <2>2
    <3> QED
      BY <1>1, <2>1, <3>1, OtherDelivered
  <2>3. CASE s = ext /\ d # x
    <3>1. seq'[s][d] = seq[s][d] /\ recv'[d] = recv[d]
      BY <1>1, <2>1, <2>3, Delivered
    <3> QED
      BY <1>1, <2>1, <3>1 DEF PairFlow
  <2>4. CASE s = ext /\ d = x
    <3>1. Sent(s) = <<>> /\ recv[d] \in Seq(Msg) /\ Pending[d] \in Int
      BY <2>1, <2>4, SentIsQueue, Limits
    <3>2. done[s][d] \in Int /\ seq[s][d] \in Int
      <4>1. seq[s][d] \in 0..MaxSeq /\ done[s][d] \in 0..MaxSeq /\ MaxSeq \in Nat
        BY <2>1, Limits, UserWorkerAssumption
      <4> QED
        BY <4>1
    <3>3. /\ seq'[s][d] = seq[s][d] + 1 /\ m.src = s /\ m.dst = d
          /\ m.n = seq[s][d] + 1
      BY <1>1, <2>1, <2>4
    <3>4. recv'[d] = Recv(recv[d], m, Pending[d])
      BY <1>1, <2>4, Delivered
    <3>5. SUFFICES ASSUME RunSize[d] <= 0
                   PROVE  /\ Flows(run[d], recv'[d], <<>>, s, d, done[s][d],
                                   seq'[s][d])
                          /\ Pending[d] <= 0 =>
                               Full(run[d], recv'[d], <<>>, s, d, done[s][d],
                                    seq'[s][d])
      BY <1>1, <2>1, <3>1 DEF PairFlow
    <3>6. /\ Flows(run[d], recv[d], <<>>, s, d, done[s][d], seq[s][d])
          /\ Pending[d] <= 0 =>
               Full(run[d], recv[d], <<>>, s, d, done[s][d], seq[s][d])
      BY <2>1, <3>1, <3>5 DEF PairFlow
    <3>7. /\ Flows(run[d], Recv(recv[d], m, Pending[d]), <<>>, s, d,
                   done[s][d], seq[s][d] + 1)
          /\ Pending[d] <= 0
             /\ Full(run[d], recv[d], <<>>, s, d, done[s][d], seq[s][d])
               => Full(run[d], Recv(recv[d], m, Pending[d]), <<>>, s, d,
                       done[s][d], seq[s][d] + 1)
      BY <3>1, <3>2, <3>3, <3>6, OutsideFlow
    <3> QED
      BY <3>3, <3>4, <3>6, <3>7
  <2> QED
    BY <2>2, <2>3, <2>4
<1> QED
  BY <1>1, <1>3, FlowParts

LEMMA FlowNext ==
    ASSUME ControlInv, DataOK, Addressed, FlowInv, [Next]_vars
    PROVE  FlowInv'
<1>0. ControlOK
  BY ControlParts
<1>1. ASSUME NEW w \in Users, Consume(w) \/ Produce(w) PROVE FlowInv'
  BY <1>0, <1>1, ConsumeFlow, ProduceFlow
<1>2. ASSUME NEW i \in 1..Len(weakup), Wake(i) PROVE FlowInv'
  BY <1>0, <1>2, WakeFlow
<1>3. CASE DispatchOne \/ ProcessOther
  BY <1>0, <1>3, DispatchOneFlow, ProcessOtherFlow
<1>4. CASE \/ Wait \/ (\E w \in Users : BeginEvent(w)) \/ FinishEvent
           \/ ProcessDone \/ UNCHANGED vars
           \/ (\E w \in Users : Stop(w) \/ Dispatch(w) \/ RecvCmd(w) \/ Return(w))
           \/ \E c \in Quitters : StopAllWorker(c) \/ Caller(c)
  <2>1. /\ UNCHANGED <<recv, run, send, seq, done>>
        /\ registered' \subseteq registered
    BY <1>4 DEF Wait, BeginEvent, FinishEvent, ProcessDone, StopAllWorker, vars,
                Caller, SendQuit, Stop, Dispatch, RecvCmd, Return, mailboxVars,
                histVars, mainVars
  <2> QED
    BY <2>1, QuietFlow
<1> QED
  BY <1>1, <1>2, <1>3, <1>4
  DEF Next, Main, Thread, WeakupWorker, Terminated

-----------------------------------------------------------------------------
(* The inductive invariant.                                                 *)

LEMMA IInvParts ==
    /\ IInv <=> /\ ControlInv /\ DataOK /\ QueuedWithMessages
                /\ WokenWithMessage /\ Addressed /\ FlowInv
    /\ IInv' <=> /\ ControlInv' /\ DataOK' /\ QueuedWithMessages'
                 /\ WokenWithMessage' /\ Addressed' /\ FlowInv'
  BY TypeParts DEF IInv, BatonInv, ControlInv

LEMMA IInvInit == Init => IInv
<1> SUFFICES ASSUME Init PROVE IInv
  OBVIOUS
<1> USE DEF Init
<1>1. DataOK
  BY EmptySeq, UserWorkerAssumption DEF DataOK
<1>2. ControlOK
  <2>1. /\ <<>> \in ToMainStates /\ Len(<<>>) = 0 /\ <<>> \in Seq(ToWorker)
        /\ \A n \in Nat : <<>> \in ToOwnerStates(Answers, n)
    BY EmptySeq, ToOwnerEmpty DEF ToMainStates
  <2>2. \A w \in Users :
          ready[w] + (IF cur = w THEN 1 ELSE 0) <= Len(toMain[w])
    BY <2>1, UserWorkerAssumption
  <2>3. /\ owner \in [Users -> {"kMain", "kWorker"}]
        /\ toMain \in [Users -> ToMainStates]
        /\ wpc \in [Users -> {"run", "idle", "wait", "told", "ended"}]
        /\ runing \in [Users -> BOOLEAN]
        /\ ready \in [Users -> Nat]
    BY <2>1
  <2>4. RoundOK
    BY <2>2, <2>3 DEF RoundOK
  <2>5. ChannelsOK
    BY <2>1, ToldType DEF ChannelsOK, FromMain
  <2> QED
    BY <2>4, <2>5 DEF ControlOK
<1>3. ListedFirst /\ \A w \in Users : Worker(w)
  <2>1. \A w \in Users : ~Answered(toOwner[w], Answers)
    BY ShortQueues DEF Answered
  <2> QED
    BY <2>1, ShortQueues DEF Worker, ListedFirst
<1>4. QueuedWithMessages
  <2>1. Len(weakup) = 0
    BY EmptySeq
  <2> QED
    BY <2>1 DEF QueuedWithMessages
<1>5. WokenWithMessage
  BY ShortQueues, WokenParts DEF Woken
<1>6. Addressed
  BY EmptySeq DEF Addressed
<1>7. FlowInv
  <2>1. ASSUME NEW s \in Senders, NEW d \in registered PROVE PairFlow(s, d)
    <3>1. /\ run[d] = <<>> /\ recv[d] = <<>> /\ Sent(s) = <<>>
          /\ done[s][d] = 0 /\ seq[s][d] = 0
      BY DEF Sent
    <3>2. From(<<>>, s, d) = {}
      <4>1. Len(<<>>) = 0
        BY EmptySeq
      <4> QED
        BY <4>1 DEF From
    <3>3. Numbers(<<>>, s, d) = {} /\ Rising(<<>>, s, d)
      BY <3>2 DEF Numbers, Rising
    <3> QED
      BY <3>1, <3>3 DEF PairFlow, Flows, Full, OnTheWay, Below
  <2> QED
    BY <2>1, FlowParts
<1> QED
  BY <1>1, <1>2, <1>3, <1>4, <1>5, <1>6, <1>7, ControlParts, IInvParts

LEMMA IInvNext == IInv /\ [Next]_vars => IInv'
<1> SUFFICES ASSUME IInv, [Next]_vars PROVE IInv'
  OBVIOUS
<1>1. /\ ControlInv /\ DataOK /\ QueuedWithMessages /\ WokenWithMessage
      /\ Addressed /\ FlowInv
  BY IInvParts
<1> QED
  BY <1>1, ControlNext, QueuedNext, WokenNext, FlowNext, IInvParts

LEMMA NothingLostFromFlow == IInv => NothingLost
<1> SUFFICES ASSUME IInv, NEW s \in Senders, NEW d \in registered,
                    Pending[d] <= 0, RunSize[d] <= 0
             PROVE  /\ Rising(InFlight(s, d), s, d)
                    /\ Numbers(InFlight(s, d), s, d)
                         = done[s][d] + 1 .. seq[s][d]
  BY DEF NothingLost
<1> DEFINE p == run[d]
           q == recv[d]
           r == Sent(s)
           pq == p \o q
           lo == done[s][d]
           hi == seq[s][d]
<1>1. p \in Seq(Msg) /\ q \in Seq(Msg) /\ r \in Seq(Msg)
  <2>1. DataOK /\ Addressed /\ d \in Users
    BY IInvParts DEF ControlInv, ControlOK, RoundOK
  <2>2. r \in Seq(Msg)
    BY <2>1, EmptySeq DEF Sent, DataOK
  <2> QED
    BY <2>1, <2>2, Limits
<1>2. Flows(p, q, r, s, d, lo, hi) /\ Full(p, q, r, s, d, lo, hi)
  BY IInvParts DEF FlowInv
<1>3. InFlight(s, d) = pq \o r /\ pq \in Seq(Msg)
  BY <1>1, ConcatProperties DEF InFlight
<1>4. /\ Numbers(pq, s, d) = Numbers(p, s, d) \cup Numbers(q, s, d)
      /\ Rising(pq, s, d)
  BY <1>1, <1>2, ConcatFlow DEF Flows
<1> HIDE DEF p, q, r, pq, lo, hi
<1>5. Numbers(pq \o r, s, d) = OnTheWay(p, q, r, s, d) /\ Rising(pq \o r, s, d)
  <2>1. Below(pq, r, s, d) /\ Rising(r, s, d)
    BY <1>2, <1>4 DEF Flows, Below
  <2>2. /\ Numbers(pq \o r, s, d) = Numbers(pq, s, d) \cup Numbers(r, s, d)
        /\ Rising(pq \o r, s, d) <=>
             Rising(pq, s, d) /\ Rising(r, s, d) /\ Below(pq, r, s, d)
    BY <1>1, <1>3, ConcatFlow
  <2> QED
    BY <1>4, <2>1, <2>2 DEF OnTheWay
<1>6. OnTheWay(p, q, r, s, d) = lo + 1 .. hi
  BY <1>2 DEF Flows, Full
<1> QED
  BY <1>3, <1>5, <1>6 DEF lo, hi

(* The worker that runs has said nothing that waits to be read, so no event *)
(* of it is pending, and ctrl_owner_ is its own.                            *)
LEMMA ExclusiveFromControl == IInv => MailboxExclusive
<1> SUFFICES ASSUME IInv, NEW w \in Users, wpc[w] = "run"
             PROVE  ~MayWake(w) /\ ready[w] = 0 /\ cur # w
  BY DEF MailboxExclusive
<1>1. RoundOK /\ Worker(w)
  BY IInvParts, ControlParts DEF ControlOK
<1>2. toMain[w] = <<>> /\ owner[w] = "kWorker"
  BY <1>1, ToMainEnds DEF Worker, RoundOK
<1>3. ready[w] \in Nat /\ ready[w] + (IF cur = w THEN 1 ELSE 0) <= 0
  <2>1. Len(<<>>) = 0
    BY EmptySeq
  <2> QED
    BY <1>1, <1>2, <2>1 DEF RoundOK
<1> QED
  BY <1>2, <1>3 DEF MayWake

-----------------------------------------------------------------------------
(* The theorems.                                                            *)

(* The invariant the other theorems follow from holds of the user workers,  *)
(* their mailboxes and the main thread, whatever they do.                   *)
THEOREM IInvHolds == Spec => []IInv
<1>1. Init => IInv
  BY IInvInit
<1>2. IInv /\ [Next]_vars => IInv'
  BY IInvNext
<1> QED
  BY <1>1, <1>2, PTL DEF Spec

(* Every variable stays in its type; a worker has at most one answer under  *)
(* way and no more kQuit than callers of Quit have told it, whatever kQuit  *)
(* overtakes, and every event Poller::Wait reported finds its command.      *)
THEOREM TypeCorrect == Spec => []TypeOK
<1>1. IInv => TypeOK
  BY DEF IInv, BatonInv
<1> QED
  BY <1>1, IInvHolds, PTL

(* While a user worker's Run executes, no step of the main thread touches   *)
(* its mailbox, although ctrl_owner_ and the commands are all that keeps    *)
(* them apart: WeakupWorker and ProcessUserEvent need no lock.              *)
THEOREM MailboxesAreExclusive == Spec => []MailboxExclusive
  BY ExclusiveFromControl, IInvHolds, PTL

(* The kRunWithMsg that ends DispatchAndWaitMsg never comes with an empty   *)
(* run queue.                                                               *)
THEOREM WokenWithAMessage == Spec => []WokenWithMessage
<1>1. IInv => WokenWithMessage
  BY DEF IInv
<1> QED
  BY <1>1, IInvHolds, PTL

(* weakup_workers_ctx_ holds a worker at most once, exactly while           *)
(* in_msg_wait_queue_ says so, and no message waits in the mailbox of an    *)
(* unlimited worker that is not queued.                                     *)
THEOREM WaitersAreQueued == Spec => []QueuedWithMessages
<1>1. IInv => QueuedWithMessages
  BY DEF IInv
<1> QED
  BY <1>1, IInvHolds, PTL

(* From the send list of its sender through the receiver's mailbox to the   *)
(* receiver, no message of an unlimited user worker is lost, doubled or     *)
(* overtaken by one of the same sender.                                     *)
THEOREM NoMessageIsLost == Spec => []NothingLost
  BY NothingLostFromFlow, IInvHolds, PTL

=============================================================================
