--------------------------- MODULE EventConnProof ----------------------------
(****************************************************************************)
(* Proofs about EventConn for any number of threads, calls and connections. *)
(* Those about a single connection assume that a thread that calls          *)
(* SendRequest is the only one to use event connections.                    *)
(****************************************************************************)
EXTENDS EventConn, TLAPS, SequenceTheorems, FiniteSetTheorems

-----------------------------------------------------------------------------
(* Queues.                                                                  *)

LEMMA SetOps ==
    ASSUME NEW S, NEW q \in Seq(S)
    PROVE  /\ ToSet(q) = { q[i] : i \in 1..Len(q) } /\ ToSet(q) \subseteq S
           /\ \A x \in S : ToSet(Append(q, x)) = ToSet(q) \cup {x}
           /\ q # <<>> => /\ Head(q) \in S /\ Tail(q) \in Seq(S)
                          /\ ToSet(q) = {Head(q)} \cup ToSet(Tail(q))
<1>1. /\ Len(q) \in Nat /\ DOMAIN q = 1..Len(q)
      /\ \A i \in 1..Len(q) : q[i] \in S
  BY LenProperties, ElementOfSeq
<1>2. ToSet(q) = { q[i] : i \in 1..Len(q) } /\ ToSet(q) \subseteq S
  BY <1>1 DEF ToSet
<1>3. ASSUME NEW x \in S PROVE ToSet(Append(q, x)) = ToSet(q) \cup {x}
  <2> DEFINE p == Append(q, x)
             n == Len(q)
  <2>1. /\ DOMAIN p = 1 .. n + 1 /\ p[n + 1] = x
        /\ \A i \in 1..n : p[i] = q[i]
    BY <1>1, AppendProperties, LenProperties
  <2> HIDE DEF p, n
  <2>2. 1 .. n + 1 = (1..n) \cup {n + 1}
    BY <1>1 DEF n
  <2>3. ToSet(p) = { p[i] : i \in 1 .. n + 1 }
    BY <2>1 DEF ToSet
  <2>4. ToSet(q) = { q[i] : i \in 1..n }
    BY <1>2 DEF n
  <2>5. ToSet(p) = ToSet(q) \cup {x}
    BY <2>1, <2>2, <2>3, <2>4
  <2> QED
    BY <2>5 DEF p
<1>4. ASSUME q # <<>>
      PROVE  /\ Head(q) \in S /\ Tail(q) \in Seq(S)
             /\ ToSet(q) = {Head(q)} \cup ToSet(Tail(q))
  <2> DEFINE t == Tail(q)
             n == Len(q)
  <2>1. /\ n \in Nat \ {0} /\ t \in Seq(S) /\ Len(t) = n - 1
        /\ Head(q) = q[1] /\ Head(q) \in S
        /\ \A i \in 1 .. n - 1 : t[i] = q[i + 1]
    BY <1>1, <1>4, HeadTailProperties, EmptySeq
  <2>2. DOMAIN t = 1 .. n - 1 /\ DOMAIN q = 1..n
    BY <1>1, <2>1, LenProperties
  <2> HIDE DEF t, n
  <2>3. \A i \in 1..n : i # 1 => q[i] \in ToSet(t)
    <3>1. ASSUME NEW i \in 1..n, i # 1 PROVE i - 1 \in 1 .. n - 1 /\ q[i] = t[i - 1]
      BY <2>1, <3>1
    <3> QED
      BY <2>2, <3>1 DEF ToSet
  <2>4. \A i \in 1 .. n - 1 : i + 1 \in 1..n
    BY <2>1
  <2>5. ToSet(t) = { t[i] : i \in 1 .. n - 1 } /\ ToSet(q) = { q[i] : i \in 1..n }
    BY <2>2 DEF ToSet
  <2>6. \A x \in ToSet(q) : x \in {Head(q)} \cup ToSet(t)
    BY <2>1, <2>3, <2>5
  <2>7. ToSet(t) \subseteq ToSet(q)
    BY <2>1, <2>4, <2>5
  <2>8. Head(q) \in ToSet(q)
    BY <2>1, <2>5
  <2>9. ToSet(q) = {Head(q)} \cup ToSet(t)
    BY <2>6, <2>7, <2>8
  <2> QED
    BY <2>1, <2>9 DEF t
<1> QED
  BY <1>2, <1>3, <1>4

LEMMA Nothing == ToSet(<<>>) = {} /\ IsInjective(<<>>)
<1>1. <<>> \in Seq({}) /\ Len(<<>>) = 0
  BY EmptySeq
<1>2. DOMAIN <<>> = {}
  BY <1>1, LenProperties
<1> QED
  BY <1>2 DEF ToSet, IsInjective

(* Queues without repetition.                                               *)
LEMMA Distinct ==
    ASSUME NEW S, NEW q \in Seq(S), IsInjective(q)
    PROVE  /\ \A x \in S : x \notin ToSet(q) => IsInjective(Append(q, x))
           /\ q # <<>> => /\ IsInjective(Tail(q))
                          /\ ToSet(Tail(q)) = ToSet(q) \ {Head(q)}
<1>1. /\ Len(q) \in Nat /\ DOMAIN q = 1..Len(q)
      /\ ToSet(q) = { q[i] : i \in 1..Len(q) }
  BY LenProperties, SetOps
<1>2. ASSUME NEW x \in S, x \notin ToSet(q) PROVE IsInjective(Append(q, x))
  <2> DEFINE p == Append(q, x)
             n == Len(q)
  <2>1. /\ DOMAIN p = 1 .. n + 1 /\ p[n + 1] = x
        /\ \A i \in 1..n : p[i] = q[i]
    BY <1>1, AppendProperties, LenProperties
  <2>2. /\ \A i \in 1..n : q[i] # x
        /\ \A i, j \in 1..n : q[i] = q[j] => i = j
    BY <1>1, <1>2 DEF IsInjective
  <2> HIDE DEF p, n
  <2>3. \A i \in 1 .. n + 1 : i \in 1..n \/ i = n + 1
    BY <1>1 DEF n
  <2>4. \A i, j \in 1 .. n + 1 : p[i] = p[j] => i = j
    BY <2>1, <2>2, <2>3
  <2> QED
    BY <2>1, <2>4 DEF IsInjective, p
<1>3. ASSUME q # <<>>
      PROVE  IsInjective(Tail(q)) /\ ToSet(Tail(q)) = ToSet(q) \ {Head(q)}
  <2> DEFINE t == Tail(q)
             n == Len(q)
  <2>1. /\ n \in Nat \ {0} /\ t \in Seq(S) /\ Len(t) = n - 1 /\ Head(q) = q[1]
        /\ \A i \in 1 .. n - 1 : t[i] = q[i + 1]
    BY <1>1, <1>3, HeadTailProperties, EmptySeq
  <2>2. /\ DOMAIN t = 1 .. n - 1 /\ ToSet(t) = { t[i] : i \in 1 .. n - 1 }
        /\ ToSet(q) = {Head(q)} \cup ToSet(t)
    <3>1. DOMAIN t = 1 .. n - 1
      BY <2>1, LenProperties
    <3>2. ToSet(q) = {Head(q)} \cup ToSet(t)
      BY <1>3, SetOps
    <3> QED
      BY <3>1, <3>2 DEF ToSet
  <2>3. \A i, j \in 1..n : q[i] = q[j] => i = j
    BY <1>1 DEF IsInjective
  <2> HIDE DEF t, n
  <2>4. \A i \in 1 .. n - 1 : i + 1 \in 1..n /\ i + 1 # 1 /\ 1 \in 1..n
    BY <2>1
  <2>5. \A i, j \in 1 .. n - 1 : t[i] = t[j] => i = j
    <3> SUFFICES ASSUME NEW i \in 1 .. n - 1, NEW j \in 1 .. n - 1, t[i] = t[j]
                 PROVE  i = j
      OBVIOUS
    <3>1. i + 1 = j + 1
      BY <2>1, <2>3, <2>4
    <3> QED
      BY <2>1, <3>1
  <2>6. \A i \in 1 .. n - 1 : t[i] # Head(q)
    BY <2>1, <2>3, <2>4
  <2> QED
    BY <2>2, <2>5, <2>6 DEF IsInjective, t
<1> QED
  BY <1>2, <1>3

-----------------------------------------------------------------------------
(* Types.                                                                   *)

AskedOK == asked \subseteq UNION {Answers(m) : m \in Msg}
DataOK ==
    /\ idle \in Seq(Conns) /\ made \in 0..MaxConns
    /\ evs \subseteq Conns /\ polled \subseteq Conns
    /\ connType \in [Conns -> {"send", "request"}]
    /\ send \in [Conns -> Seq(Msg)] /\ recv \in [Conns -> Seq(Msg)]
    /\ toMain \in [Conns -> Seq({"kRun", "kRunWithMsg"})]
    /\ toOwner \in [Conns -> Seq({"kIdle", "kQuit"})]
    /\ pc \in [Threads -> {"idle", "alloc", "poll", "put", "recv", "unpoll",
                           "release", "return"}]
    /\ conn \in [Threads -> Conns \cup {None}]
    /\ count \in [Threads -> 0..Calls]
    /\ answer \in [Threads -> Msg \cup {None}]
    /\ ready \subseteq Conns
    /\ mpc \in {"wait", "process", "return", "clear pool", "clear events", "done"}
    /\ notify \in Msg \cup {None}
    /\ AskedOK
    /\ appState \in {"running", "quitting", "quit"}
    /\ dispatched \in Seq(Msg)
    /\ kind \in Workloads

(* Until the shutdown a channel holds one command at most.                  *)
Short ==
    (Up /\ \A t \in Threads : kind[t] # "twice") =>
        \A c \in Conns : Len(toMain[c]) + Len(toOwner[c]) <= 1

LEMMA TypeParts == TypeOK <=> DataOK /\ Short
  BY DEF TypeOK, DataOK, AskedOK, Short

LEMMA Numbers ==
    /\ MaxConns \in Nat /\ PoolSize \in Nat /\ PoolSize <= MaxConns
    /\ Calls \in Nat \ {0}
    /\ \A c : c \in Conns <=> c \in Int /\ 0 <= c /\ c < MaxConns
    /\ None \notin Conns /\ None \notin Msg
  BY ConnAssumption DEF Conns

LEMMA MadeType == DataOK => made \in Nat /\ made <= MaxConns
<1> SUFFICES ASSUME DataOK PROVE made \in Nat /\ made <= MaxConns
  OBVIOUS
<1>1. made \in 0..MaxConns
  BY DEF DataOK
<1> QED
  BY <1>1, Numbers

LEMMA KindType ==
    ASSUME DataOK, NEW t \in Threads
    PROVE  kind[t] \in {"send", "request", "twice", "nowhere", "none"}
<1>1. kind \in [Threads -> {"send", "request", "twice", "nowhere", "none"}]
  <2>1. kind \in Workloads
    BY DEF DataOK
  <2> QED
    BY <2>1, ConnAssumption
<1> QED
  BY <1>1

HeldConns == \A t \in Threads : Holds(t) => conn[t] \in Conns

LEMMA TypeInit == Init => DataOK
<1> SUFFICES ASSUME Init PROVE DataOK
  OBVIOUS
<1>1. <<>> \in Seq(Msg) /\ <<>> \in Seq({"kRun", "kRunWithMsg"})
      /\ <<>> \in Seq({"kIdle", "kQuit"})
  BY EmptySeq
<1>2. idle \in Seq(Conns)
  <2>1. idle = [i \in 1..PoolSize |-> i - 1]
    BY DEF Init
  <2>2. \A i \in 1..PoolSize : i - 1 \in Conns
    BY Numbers
  <2> QED
    BY <2>1, <2>2, Numbers
<1>3. made \in 0..MaxConns /\ [t \in Threads |-> 0] \in [Threads -> 0..Calls]
  BY Numbers DEF Init
<1>4. AskedOK
  BY DEF Init, AskedOK
<1> QED
  BY <1>1, <1>2, <1>3, <1>4 DEF Init, DataOK

LEMMA AllocType ==
    ASSUME DataOK, PoolInv, NEW t \in Threads, Alloc(t)
    PROVE  \E c \in Conns :
             /\ c \notin evs /\ evs' = evs \cup {c}
             /\ conn' = [conn EXCEPT ![t] = c]
             /\ pc[t] = "alloc" /\ pc' = [pc EXCEPT ![t] = "poll"]
             /\ idle' \in Seq(Conns) /\ IsInjective(idle')
             /\ ToSet(idle') = ToSet(idle) \ {c} /\ c \in 0..made' - 1
             /\ \/ c \in ToSet(idle) /\ made' = made
                \/ /\ c = made /\ made' = made + 1 /\ made' \in 0..MaxConns
                   /\ idle = <<>> /\ idle' = <<>> /\ c \notin ToSet(idle)
<1> DEFINE c == IF idle = <<>> THEN made ELSE Head(idle)
<1>1. /\ c \in Conns /\ evs' = evs \cup {c} /\ conn' = [conn EXCEPT ![t] = c]
      /\ pc[t] = "alloc"
      /\ pc' = [pc EXCEPT ![t] = IF c \in evs THEN "idle" ELSE "poll"]
  BY DEF Alloc
<1>2. CASE idle = <<>>
  <2>1. /\ c = made /\ made' = made + 1 /\ idle' = <<>> /\ made \in Nat
        /\ ToSet(idle) = {} /\ IsInjective(<<>>)
    <3>1. ToSet(<<>>) = {} /\ IsInjective(<<>>)
      BY Nothing
    <3>2. made \in Nat
      BY MadeType
    <3> QED
      BY <1>2, <3>1, <3>2 DEF Alloc
  <2>2. c \notin evs /\ c \in 0..made' - 1 /\ made' \in 0..MaxConns
    BY <1>1, <2>1, Numbers DEF PoolInv
  <2>3. idle' \in Seq(Conns)
    BY <2>1, EmptySeq
  <2> HIDE DEF c
  <2> QED
    BY <1>1, <1>2, <2>1, <2>2, <2>3
<1>3. CASE idle # <<>>
  <2>1. /\ c = Head(idle) /\ made' = made /\ idle' = Tail(idle)
    BY <1>3 DEF Alloc
  <2>2. /\ IsInjective(Tail(idle)) /\ ToSet(Tail(idle)) = ToSet(idle) \ {Head(idle)}
        /\ Tail(idle) \in Seq(Conns) /\ Head(idle) \in ToSet(idle)
    <3>1. /\ Tail(idle) \in Seq(Conns)
          /\ ToSet(idle) = {Head(idle)} \cup ToSet(Tail(idle))
      BY <1>3, SetOps DEF DataOK
    <3>2. /\ IsInjective(Tail(idle))
          /\ ToSet(Tail(idle)) = ToSet(idle) \ {Head(idle)}
      BY <1>3, Distinct DEF DataOK, PoolInv
    <3> QED
      BY <3>1, <3>2
  <2>3. c \notin evs /\ c \in 0..made - 1
    BY <2>1, <2>2 DEF PoolInv
  <2> HIDE DEF c
  <2> QED
    BY <1>1, <2>1, <2>2, <2>3
<1> QED
  BY <1>2, <1>3

LEMMA BetweenDef ==
    ASSUME NEW c
    PROVE  c \in Between <=>
              \/ \E t \in Threads : pc[t] = "return" /\ conn[t] = c
              \/ mpc = "return" /\ notify.conn = c
<1> DEFINE A == { conn[t] : t \in { u \in Threads : pc[u] = "return" } }
           B == IF mpc = "return" THEN {notify.conn} ELSE {}
<1>1. c \in A <=> \E t \in Threads : pc[t] = "return" /\ conn[t] = c
  OBVIOUS
<1>2. c \in B <=> mpc = "return" /\ notify.conn = c
  OBVIOUS
<1>3. Between = A \cup B
  BY DEF Between
<1> HIDE DEF A, B
<1> QED
  BY <1>1, <1>2, <1>3

LEMMA InBetween ==
    /\ \A t \in Threads : pc[t] = "return" => conn[t] \in Between
    /\ mpc = "return" => notify.conn \in Between
<1>1. ASSUME NEW t \in Threads, pc[t] = "return" PROVE conn[t] \in Between
  BY <1>1, BetweenDef
<1>2. ASSUME mpc = "return" PROVE notify.conn \in Between
  BY <1>2, BetweenDef
<1> QED
  BY <1>1, <1>2

LEMMA GiveBackType ==
    ASSUME DataOK, PoolInv, NEW c \in Conns, c \in Between, GiveBack(c)
    PROVE  /\ idle' \in Seq(Conns) /\ IsInjective(idle')
           /\ ToSet(idle') = ToSet(idle) \cup {c}
<1>1. idle \in Seq(Conns) /\ IsInjective(idle) /\ c \notin ToSet(idle)
  BY DEF DataOK, PoolInv
<1>2. idle' = Append(idle, c)
  BY DEF GiveBack
<1>3. IsInjective(Append(idle, c))
  BY <1>1, Distinct
<1>4. ToSet(Append(idle, c)) = ToSet(idle) \cup {c}
  BY <1>1, SetOps
<1>5. Append(idle, c) \in Seq(Conns)
  BY <1>1, AppendProperties
<1> QED
  BY <1>2, <1>3, <1>4, <1>5

-----------------------------------------------------------------------------
(* The pool, for any workload.                                              *)

(* A call is of a thread that calls something, and has a connection from    *)
(* Alloc on.                                                                *)
Using == \A t \in Threads :
    /\ InCall(t) => kind[t] # "none" /\ count[t] > 0
    /\ Holds(t) => conn[t] \in 0..made - 1

LEMMA UsingHeld == DataOK /\ Using => HeldConns
<1> SUFFICES ASSUME DataOK, Using, NEW t \in Threads, Holds(t)
             PROVE  conn[t] \in Conns
  BY DEF HeldConns
<1>1. conn[t] \in 0..made - 1
  BY DEF Using
<1> QED
  BY <1>1, MadeType, Numbers

LEMMA MineType ==
    ASSUME DataOK, Using, NEW t \in Threads, Holds(t)
    PROVE  Mine(t) \in Msg
<1>1. count[t] \in 1..Calls /\ conn[t] \in Conns
  <2>1. count[t] > 0
    BY DEF Using, Holds, InCall
  <2>2. count[t] \in 0..Calls
    BY DEF DataOK
  <2>3. conn[t] \in Conns
    BY UsingHeld DEF HeldConns
  <2> QED
    BY <2>1, <2>2, <2>3, Numbers
<1> QED
  BY <1>1 DEF Mine, Msg

(* Answers are of messages, whoever asks.                                   *)
LEMMA AskedType ==
    ASSUME DataOK, NEW a \in asked
    PROVE  a.msg \in Msg
<1>1. PICK m \in Msg : a \in Answers(m)
  BY DEF DataOK, AskedOK
<1> QED
  BY <1>1 DEF Answers

LEMMA AskedStep ==
    ASSUME DataOK, kind' = kind,
           \A a \in asked' : a \in asked \/ \E m \in Msg : a \in Answers(m)
    PROVE  AskedOK'
<1>1. \A m : Answers(m)' = Answers(m)
  BY DEF Answers
<1>2. \A a \in asked' : \E m \in Msg : a \in Answers(m)
  <2>1. AskedOK
    BY DEF DataOK
  <2>2. \A a \in asked : \E m \in Msg : a \in Answers(m)
    BY <2>1 DEF AskedOK
  <2> QED
    BY <2>2
<1>3. \A a \in asked' : \E m \in Msg : a \in Answers(m)'
  BY <1>1, <1>2
<1> QED
  BY <1>3 DEF AskedOK

LEMMA DataStep ==
    ASSUME DataOK, PoolInv, Using, [Next]_vars
    PROVE  DataOK'
<1> USE DEF poolVars, connVars, threadVars, mainVars
<1>0. HeldConns
  BY UsingHeld
<1>a. kind' = kind
  BY DEF Next, Main, Reply, Thread, Terminated, Quit, vars, Call, Alloc, PollAdd, Put,
     PutNowhere, Receive, PollDel, SendRelease, SendReturn, Wait, ProcessEventConn, NotifyRelease, NotifyReturn,
     NotifyAnswer, ProcessDone, ClearPool, ClearEvents
<1>b. asked' \subseteq asked => AskedOK'
  BY <1>a, AskedStep
<1>1. ASSUME NEW t \in Threads, Call(t) PROVE DataOK'
  <2>1. count[t] \in 0..Calls /\ count[t] < Calls
    BY <1>1 DEF Call, DataOK
  <2>2. count[t] + 1 \in 0..Calls
    BY <2>1, Numbers
  <2> QED
    BY <1>1, <1>b, <2>2 DEF Call, DataOK
<1>2. ASSUME NEW t \in Threads, Alloc(t) PROVE DataOK'
  <2>1. PICK c \in Conns :
          /\ evs' = evs \cup {c} /\ conn' = [conn EXCEPT ![t] = c]
          /\ pc' = [pc EXCEPT ![t] = "poll"]
          /\ idle' \in Seq(Conns) /\ made' \in 0..MaxConns
    BY <1>2, AllocType DEF DataOK
  <2>2. /\ UNCHANGED <<polled, connType, send, recv, toMain, toOwner, count, answer>>
        /\ UNCHANGED <<ready, mpc, notify, asked, appState, dispatched, kind>>
    BY <1>2 DEF Alloc
  <2>3. conn' \in [Threads -> Conns \cup {None}] /\ evs' \subseteq Conns
    BY <2>1 DEF DataOK
  <2>4. pc' \in [Threads -> {"idle", "alloc", "poll", "put", "recv", "unpoll",
                            "release", "return"}]
    BY <2>1 DEF DataOK
  <2>5. AskedOK'
    BY <1>b, <2>2
  <2> QED
    BY <2>1, <2>2, <2>3, <2>4, <2>5 DEF DataOK
<1>3. ASSUME NEW t \in Threads, PollAdd(t) PROVE DataOK'
  <2>1. conn[t] \in Conns
    BY <1>0, <1>3 DEF PollAdd, HeldConns, Holds
  <2> QED
    BY <1>3, <1>b, <2>1 DEF PollAdd, DataOK
<1>4. ASSUME NEW t \in Threads, Put(t) PROVE DataOK'
  <2>1. conn[t] \in Conns /\ Mine(t) \in Msg
    BY <1>0, <1>4, MineType DEF Put, HeldConns, Holds
  <2>2. <<Mine(t)>> \in Seq(Msg)
    BY <2>1
  <2>3. send' = [send EXCEPT ![conn[t]] = <<Mine(t)>>]
    BY <1>4 DEF Put, Mine
  <2>4. toMain[conn[t]] \in Seq({"kRun", "kRunWithMsg"})
        /\ Command(kind[t]) \in {"kRun", "kRunWithMsg"}
    BY <2>1 DEF DataOK, Command
  <2>5. Append(toMain[conn[t]], Command(kind[t])) \in Seq({"kRun", "kRunWithMsg"})
    BY <2>4, AppendProperties
  <2>6. ConnType(kind[t]) \in {"send", "request"}
    BY DEF ConnType
  <2>7. send' \in [Conns -> Seq(Msg)]
    BY <2>2, <2>3 DEF DataOK
  <2>8. /\ toMain' = [toMain EXCEPT ![conn[t]] = Append(toMain[conn[t]], Command(kind[t]))]
        /\ connType' = [connType EXCEPT ![conn[t]] = ConnType(kind[t])]
    BY <1>4, <2>1 DEF Put, DataOK
  <2>9. toMain' \in [Conns -> Seq({"kRun", "kRunWithMsg"})]
        /\ connType' \in [Conns -> {"send", "request"}]
    BY <2>5, <2>6, <2>8 DEF DataOK
  <2>10. pc' \in [Threads -> {"idle", "alloc", "poll", "put", "recv", "unpoll",
                             "release", "return"}]
    BY <1>4 DEF Put, DataOK
  <2> QED
    BY <1>4, <1>b, <2>7, <2>9, <2>10 DEF Put, DataOK
<1>5. ASSUME NEW t \in Threads, PutNowhere(t) PROVE DataOK'
  <2>1. <<>> \in Seq(Msg)
    BY EmptySeq
  <2> QED
    BY <1>5, <1>b, <2>1 DEF PutNowhere, DataOK
<1>6. ASSUME NEW t \in Threads, Receive(t) PROVE DataOK'
  <2> DEFINE c == conn[t]
  <2>1. c \in Conns /\ toOwner[c] # <<>>
    BY <1>0, <1>6 DEF Receive, HeldConns, Holds
  <2>2. toOwner[c] \in Seq({"kIdle", "kQuit"}) /\ recv[c] \in Seq(Msg)
    BY <2>1 DEF DataOK
  <2>3. /\ Tail(toOwner[c]) \in Seq({"kIdle", "kQuit"}) /\ <<>> \in Seq(Msg)
        /\ recv[c] # <<>> => Head(recv[c]) \in Msg
    BY <2>1, <2>2, HeadTailProperties, EmptySeq
  <2>4. toOwner' = [toOwner EXCEPT ![c] = Tail(toOwner[c])]
        /\ recv' \in {recv, [recv EXCEPT ![c] = <<>>]}
    BY <1>6, <2>1 DEF Receive, DataOK
  <2>5. \E x \in Msg \cup {None} : answer' = [answer EXCEPT ![t] = x]
    BY <1>6, <2>3 DEF Receive
  <2>6. /\ toOwner' \in [Conns -> Seq({"kIdle", "kQuit"})]
        /\ recv' \in [Conns -> Seq(Msg)]
    BY <2>3, <2>4 DEF DataOK
  <2> HIDE DEF c
  <2>7. answer' \in [Threads -> Msg \cup {None}]
    BY <2>5 DEF DataOK
  <2>8. pc' \in [Threads -> {"idle", "alloc", "poll", "put", "recv", "unpoll",
                            "release", "return"}]
    BY <1>6 DEF Receive, DataOK
  <2>9. /\ UNCHANGED <<idle, made, evs, polled, connType, send, toMain, conn, count>>
        /\ UNCHANGED <<ready, mpc, notify, asked, appState, dispatched, kind>>
    BY <1>6 DEF Receive
  <2>10. AskedOK'
    BY <1>b, <2>9
  <2> QED
    BY <2>6, <2>7, <2>8, <2>9, <2>10 DEF DataOK
<1>7. ASSUME NEW t \in Threads, PollDel(t) PROVE DataOK'
  BY <1>7, <1>b DEF PollDel, DataOK
<1>8. ASSUME NEW t \in Threads, SendRelease(t) PROVE DataOK'
  <2>1. evs' \subseteq Conns
    BY <1>8 DEF SendRelease, Del, DataOK
  <2>2. pc' \in [Threads -> {"idle", "alloc", "poll", "put", "recv", "unpoll",
                            "release", "return"}]
    BY <1>8 DEF SendRelease, DataOK
  <2> QED
    BY <1>8, <1>b, <2>1, <2>2 DEF SendRelease, DataOK
<1>17. ASSUME NEW t \in Threads, SendReturn(t) PROVE DataOK'
  <2>1. conn[t] \in Conns /\ conn[t] \in Between /\ GiveBack(conn[t])
    BY <1>0, <1>17, InBetween DEF SendReturn, HeldConns, Holds
  <2>2. idle' \in Seq(Conns)
    BY <2>1, GiveBackType
  <2> QED
    BY <1>17, <1>b, <2>2 DEF SendReturn, DataOK
<1>9. ASSUME Wait PROVE DataOK'
  BY <1>9, <1>b DEF Wait, DataOK
<1>10. ASSUME NEW c \in Conns, ProcessEventConn(c) PROVE DataOK'
  <2>1. send[c] \in Seq(Msg) /\ toMain[c] \in Seq({"kRun", "kRunWithMsg"})
        /\ toOwner[c] \in Seq({"kIdle", "kQuit"}) /\ toMain[c] # <<>>
    BY <1>10 DEF ProcessEventConn, DataOK, PoolInv
  <2>2. /\ <<>> \in Seq(Msg) /\ Tail(toMain[c]) \in Seq({"kRun", "kRunWithMsg"})
        /\ Append(toOwner[c], "kIdle") \in Seq({"kIdle", "kQuit"})
    BY <2>1, HeadTailProperties, EmptySeq, AppendProperties
  <2>3. dispatched \o send[c] \in Seq(Msg)
    BY <2>1, ConcatProperties DEF DataOK
  <2>4. \A i \in 1..Len(send[c]) : send[c][i] \in Msg
    BY <2>1, ElementOfSeq
  <2>5. AskedOK'
    <3> DEFINE requests == { i \in 1..Len(send[c]) : Asks(kind[send[c][i].thread]) }
    <3>1. asked' \subseteq asked \cup UNION { Answers(send[c][i]) : i \in requests }
      BY <1>10 DEF ProcessEventConn
    <3>2. \A a \in asked' : a \in asked \/ \E m \in Msg : a \in Answers(m)
      BY <2>4, <3>1
    <3> HIDE DEF requests
    <3> QED
      BY <1>a, <3>2, AskedStep
  <2>6. /\ send' \in [Conns -> Seq(Msg)] /\ dispatched' \in Seq(Msg)
        /\ toMain' \in [Conns -> Seq({"kRun", "kRunWithMsg"})]
        /\ toOwner' \in [Conns -> Seq({"kIdle", "kQuit"})]
    <3>1. CASE c \notin evs
      BY <1>10, <3>1 DEF ProcessEventConn, DataOK
    <3>2. CASE c \in evs
      <4>1. /\ send' = [send EXCEPT ![c] = <<>>]
            /\ toMain' = [toMain EXCEPT ![c] = Tail(toMain[c])]
            /\ toOwner' \in {toOwner, [toOwner EXCEPT ![c] = Append(toOwner[c], "kIdle")]}
            /\ dispatched' = dispatched \o send[c]
        BY <1>10, <3>2 DEF ProcessEventConn, DataOK
      <4> QED
        BY <2>2, <2>3, <4>1 DEF DataOK
    <3> QED
      BY <3>1, <3>2
  <2> QED
    BY <1>10, <1>b, <2>5, <2>6 DEF ProcessEventConn, DataOK
<1>11. ASSUME NEW a \in asked, NotifyRelease(a) PROVE DataOK'
  <2>1. a.msg \in Msg
    BY AskedType
  <2>2. /\ evs' \subseteq Conns /\ notify' \in Msg \cup {None}
        /\ mpc' \in {"wait", "process", "return", "clear pool", "clear events", "done"}
    BY <1>11, <2>1 DEF NotifyRelease, Del, DataOK
  <2> QED
    BY <1>11, <1>b, <2>2 DEF NotifyRelease, DataOK
<1>18. ASSUME NotifyReturn PROVE DataOK'
  <2>1. notify \in Msg /\ notify.conn \in Between /\ GiveBack(notify.conn)
    BY <1>18, InBetween DEF NotifyReturn, DataOK, PoolInv
  <2>2. notify.conn \in Conns
    BY <2>1 DEF Msg
  <2>3. idle' \in Seq(Conns)
    BY <2>1, <2>2, GiveBackType
  <2> QED
    BY <1>18, <1>b, <2>3 DEF NotifyReturn, DataOK
<1>12. ASSUME NotifyAnswer PROVE DataOK'
  <2> DEFINE c == notify.conn
  <2>1. notify \in Msg /\ c \in Conns
    BY <1>12 DEF NotifyAnswer, DataOK, Msg
  <2>2. Append(recv[c], notify) \in Seq(Msg)
        /\ Append(toOwner[c], "kIdle") \in Seq({"kIdle", "kQuit"})
    BY <2>1, AppendProperties DEF DataOK
  <2>3. /\ recv' = [recv EXCEPT ![c] = Append(recv[c], notify)]
        /\ toOwner' = [toOwner EXCEPT ![c] = Append(toOwner[c], "kIdle")]
    BY <1>12, <2>1 DEF NotifyAnswer, DataOK
  <2>4. recv' \in [Conns -> Seq(Msg)] /\ toOwner' \in [Conns -> Seq({"kIdle", "kQuit"})]
    BY <2>2, <2>3 DEF DataOK
  <2> QED
    BY <1>12, <1>b, <2>4 DEF NotifyAnswer, DataOK
<1>13. ASSUME ProcessDone PROVE DataOK'
  BY <1>13, <1>b DEF ProcessDone, DataOK
<1>14. ASSUME ClearPool PROVE DataOK'
  <2>1. <<>> \in Seq(Conns)
    BY EmptySeq
  <2> QED
    BY <1>14, <1>b, <2>1 DEF ClearPool, DataOK
<1>15. ASSUME ClearEvents PROVE DataOK'
  <2>1. \A c \in Conns : Append(toOwner[c], "kQuit") \in Seq({"kIdle", "kQuit"})
    BY AppendProperties DEF DataOK
  <2>2. toOwner' \in [Conns -> Seq({"kIdle", "kQuit"})]
    BY <1>15, <2>1 DEF ClearEvents, DataOK
  <2> QED
    BY <1>15, <1>b, <2>2 DEF ClearEvents, DataOK
<1>16. ASSUME Quit \/ UNCHANGED vars PROVE DataOK'
  BY <1>16, <1>b DEF Quit, vars, DataOK
<1> QED
  BY <1>1, <1>2, <1>3, <1>4, <1>5, <1>6, <1>7, <1>8, <1>9, <1>10, <1>11, <1>12,
     <1>13, <1>14, <1>15, <1>16, <1>17, <1>18
     DEF Next, Main, Reply, Thread, Terminated

(* What a thread's step leaves alone.                                       *)
LEMMA Others ==
    ASSUME DataOK, NEW t \in Threads, Thread(t)
    PROVE  /\ UNCHANGED <<mpc, ready, notify, asked, appState, dispatched, kind>>
           /\ \A u \in Threads \ {t} :
                /\ pc'[u] = pc[u] /\ conn'[u] = conn[u] /\ count'[u] = count[u]
                /\ answer'[u] = answer[u]
                /\ InCall(u)' <=> InCall(u)
                /\ Holds(u)' <=> Holds(u)
<1> USE DEF Thread, Call, Alloc, PollAdd, Put, PutNowhere, Receive, PollDel, SendRelease, SendReturn,
            poolVars, connVars, threadVars, mainVars
<1>1. UNCHANGED <<mpc, ready, notify, asked, appState, dispatched, kind>>
  OBVIOUS
<1>2. \E p : pc' = [pc EXCEPT ![t] = p]
  OBVIOUS
<1>3. \E c : conn' = [conn EXCEPT ![t] = c]
  <2>1. conn = [conn EXCEPT ![t] = conn[t]]
    BY DEF DataOK
  <2>2. UNCHANGED conn \/ \E c : conn' = [conn EXCEPT ![t] = c]
    OBVIOUS
  <2> QED
    BY ONLY <2>1, <2>2
<1>4. \E n : count' = [count EXCEPT ![t] = n]
  <2>1. count = [count EXCEPT ![t] = count[t]]
    BY DEF DataOK
  <2>2. UNCHANGED count \/ \E n : count' = [count EXCEPT ![t] = n]
    OBVIOUS
  <2> QED
    BY ONLY <2>1, <2>2
<1>5. \E a : answer' = [answer EXCEPT ![t] = a]
  <2>1. answer = [answer EXCEPT ![t] = answer[t]]
    BY DEF DataOK
  <2>2. UNCHANGED answer \/ \E a : answer' = [answer EXCEPT ![t] = a]
    OBVIOUS
  <2> QED
    BY ONLY <2>1, <2>2
<1>6. ASSUME NEW u \in Threads \ {t}
      PROVE  /\ pc'[u] = pc[u] /\ conn'[u] = conn[u] /\ count'[u] = count[u]
             /\ answer'[u] = answer[u]
  <2>1. /\ pc \in [Threads -> {"idle", "alloc", "poll", "put", "recv", "unpoll",
                               "release", "return"}]
        /\ conn \in [Threads -> Conns \cup {None}]
        /\ count \in [Threads -> 0..Calls]
        /\ answer \in [Threads -> Msg \cup {None}]
    BY DEF DataOK
  <2> QED
    BY ONLY <1>2, <1>3, <1>4, <1>5, <2>1, u \in Threads \ {t}
<1>7. ASSUME NEW u \in Threads \ {t}
      PROVE  (InCall(u)' <=> InCall(u)) /\ (Holds(u)' <=> Holds(u))
  BY ONLY <1>6, u \in Threads \ {t} DEF InCall, Holds
<1> QED
  BY ONLY <1>1, <1>6, <1>7

(* What the main thread's step leaves alone.                                *)
LEMMA MainStep ==
    ASSUME Main \/ Quit \/ UNCHANGED vars
    PROVE  /\ UNCHANGED <<made, pc, conn, count, answer, connType, polled, kind>>
           /\ \A u : (InCall(u)' <=> InCall(u)) /\ (Holds(u)' <=> Holds(u))
<1>1. UNCHANGED <<made, pc, conn, count, answer, connType, polled, kind>>
  BY DEF Main, Reply, Wait, ProcessEventConn, NotifyRelease, NotifyReturn, NotifyAnswer, ProcessDone,
         ClearPool, ClearEvents, Quit, vars, poolVars, connVars, threadVars, mainVars
<1> QED
  BY <1>1 DEF InCall, Holds

LEMMA Steps == [Next]_vars <=> (\E t \in Threads : Thread(t)) \/ Main \/ Quit
                               \/ UNCHANGED vars
  BY DEF Next, Terminated

LEMMA UsingStep ==
    ASSUME DataOK, PoolInv, Using, [Next]_vars
    PROVE  Using'
<1> USE DEF poolVars, connVars, threadVars, mainVars
<1>1. CASE Main \/ Quit \/ UNCHANGED vars
  BY <1>1, MainStep DEF Using
<1>2. ASSUME NEW t \in Threads, Thread(t)
      PROVE  Using'
  <2>1. made \in Nat /\ kind' = kind
    BY <1>2, MadeType, Others
  <2>2. made' \in {made, made + 1}
    BY <1>2 DEF Thread, Call, Alloc, PollAdd, Put, PutNowhere, Receive, PollDel,
                SendRelease, SendReturn
  <2>3. \A x \in 0..made - 1 : x \in 0..made' - 1
    <3>1. made' \in Nat /\ made <= made'
      BY <2>1, <2>2
    <3>2. \A n, x : n \in Nat /\ made <= n /\ x \in 0..made - 1 => x \in 0..n - 1
      BY <2>1
    <3> QED
      BY ONLY <3>1, <3>2
  <2>4. ASSUME NEW u \in Threads \ {t}
        PROVE  /\ InCall(u)' => kind'[u] # "none" /\ count'[u] > 0
               /\ Holds(u)' => conn'[u] \in 0..made' - 1
    BY <1>2, <2>1, <2>3, <2>4, Others DEF Using
  <2>5. /\ InCall(t)' => kind'[t] # "none" /\ count'[t] > 0
        /\ Holds(t)' => conn'[t] \in 0..made' - 1
    <3>1. CASE Call(t)
      <4>1. /\ pc' = [pc EXCEPT ![t] = "alloc"] /\ kind[t] # "none"
            /\ count' = [count EXCEPT ![t] = count[t] + 1]
        BY <3>1 DEF Call, DataOK
      <4>2. count[t] \in Nat
        <5>1. count[t] \in 0..Calls
          BY DEF DataOK
        <5> QED
          BY <5>1, Numbers
      <4>3. pc'[t] = "alloc" /\ count'[t] = count[t] + 1
        BY <4>1 DEF DataOK
      <4> QED
        BY <2>1, <4>1, <4>2, <4>3 DEF Holds
    <3>2. CASE Alloc(t)
      <4>1. PICK c \in Conns : conn' = [conn EXCEPT ![t] = c] /\ c \in 0..made' - 1
        BY <3>2, AllocType
      <4>2. InCall(t) /\ count' = count
        BY <3>2 DEF Alloc, InCall
      <4>3. conn'[t] = c
        BY <4>1 DEF DataOK
      <4> QED
        BY <2>1, <4>1, <4>2, <4>3 DEF Using
    <3>3. CASE ~Call(t) /\ ~Alloc(t)
      <4>1. Holds(t) /\ InCall(t) /\ UNCHANGED <<conn, count, made>>
        BY <1>2, <3>3 DEF Thread, PollAdd, Put, PutNowhere, Receive, PollDel,
                          SendRelease, SendReturn, Holds, InCall
      <4> QED
        BY <2>1, <4>1 DEF Using
    <3> QED
      BY <3>1, <3>2, <3>3
  <2> QED
    BY <2>4, <2>5 DEF Using
<1> QED
  BY <1>1, <1>2, Steps

(* The parts of PoolInv.                                                    *)
Pooled ==
    /\ IsInjective(idle)
    /\ ToSet(idle) \cap evs = {}
    /\ Between \cap (ToSet(idle) \cup evs) = {}
    /\ ToSet(idle) \cup evs \cup Between \subseteq 0..made - 1
    /\ Serving => 0..made - 1 \subseteq ToSet(idle) \cup evs \cup Between
OneEach ==
    /\ \A t, u \in Threads :
          pc[t] = "return" /\ pc[u] = "return" /\ conn[t] = conn[u] => t = u
    /\ \A t \in Threads :
          pc[t] = "return" /\ mpc = "return" => conn[t] # notify.conn
Events ==
    /\ \A c \in ready : toMain[c] # <<>>
    /\ notify # None => mpc \in {"process", "return"}
    /\ mpc = "return" => notify # None
    /\ appState = "running" => mpc \in {"wait", "process", "return"}

LEMMA PoolParts == PoolInv <=> Pooled /\ OneEach /\ Events
  BY DEF PoolInv, Pooled, OneEach, Events

LEMMA PoolPartsNext == PoolInv' <=> Pooled' /\ OneEach' /\ Events'
  BY DEF PoolInv, Pooled, OneEach, Events

LEMMA BetweenNext ==
    ASSUME NEW c
    PROVE  c \in Between' <=>
              \/ \E t \in Threads : pc'[t] = "return" /\ conn'[t] = c
              \/ mpc' = "return" /\ notify'.conn = c
<1> DEFINE A == { conn'[t] : t \in { u \in Threads : pc'[u] = "return" } }
           B == IF mpc' = "return" THEN {notify'.conn} ELSE {}
<1>1. c \in A <=> \E t \in Threads : pc'[t] = "return" /\ conn'[t] = c
  OBVIOUS
<1>2. c \in B <=> mpc' = "return" /\ notify'.conn = c
  OBVIOUS
<1>3. Between' = A \cup B
  BY DEF Between
<1> HIDE DEF A, B
<1> QED
  BY <1>1, <1>2, <1>3

(* Nothing sets out or arrives.                                             *)
LEMMA NoneMoves ==
    ASSUME \A t \in Threads : pc'[t] = "return" <=> pc[t] = "return",
           \A t \in Threads : pc[t] = "return" => conn'[t] = conn[t],
           mpc' = "return" <=> mpc = "return", mpc = "return" => notify' = notify
    PROVE  Between' = Between /\ (OneEach => OneEach')
<1>1. ASSUME NEW c PROVE c \in Between' <=> c \in Between
  BY BetweenDef, BetweenNext
<1>2. OneEach => OneEach'
  BY DEF OneEach
<1> QED
  BY <1>1, <1>2

(* t sets out.                                                              *)
LEMMA ThreadLeaves ==
    ASSUME NEW t \in Threads, pc[t] # "return", pc'[t] = "return", conn'[t] = conn[t],
           \A u \in Threads \ {t} : pc'[u] = pc[u] /\ conn'[u] = conn[u],
           UNCHANGED <<mpc, notify>>
    PROVE  /\ Between' = Between \cup {conn[t]}
           /\ OneEach /\ conn[t] \notin Between => OneEach'
<1>1. ASSUME NEW c PROVE c \in Between' <=> c \in Between \cup {conn[t]}
  BY BetweenDef, BetweenNext
<1>2. ASSUME OneEach, conn[t] \notin Between PROVE OneEach'
  <2>1. /\ \A u \in Threads : pc[u] = "return" => conn[u] # conn[t]
        /\ mpc = "return" => notify.conn # conn[t]
    BY <1>2, InBetween
  <2> QED
    BY <1>2, <2>1 DEF OneEach
<1> QED
  BY <1>1, <1>2

(* t's connection arrives.                                                  *)
LEMMA ThreadReturns ==
    ASSUME OneEach, NEW t \in Threads, pc[t] = "return", pc'[t] # "return",
           \A u \in Threads \ {t} : pc'[u] = pc[u] /\ conn'[u] = conn[u],
           UNCHANGED <<mpc, notify>>
    PROVE  Between' = Between \ {conn[t]} /\ OneEach'
<1>1. ASSUME NEW c PROVE c \in Between' <=> c \in Between \ {conn[t]}
  <2>1. /\ \A u \in Threads \ {t} : pc[u] = "return" => conn[u] # conn[t]
        /\ mpc = "return" => notify.conn # conn[t]
    BY DEF OneEach
  <2> QED
    BY <2>1, BetweenDef, BetweenNext
<1>2. OneEach'
  BY DEF OneEach
<1> QED
  BY <1>1, <1>2

(* The main thread's sets out.                                              *)
LEMMA MainLeaves ==
    ASSUME UNCHANGED <<pc, conn>>, mpc # "return", mpc' = "return"
    PROVE  /\ Between' = Between \cup {notify'.conn}
           /\ OneEach /\ notify'.conn \notin Between => OneEach'
<1>1. ASSUME NEW c PROVE c \in Between' <=> c \in Between \cup {notify'.conn}
  BY BetweenDef, BetweenNext
<1>2. ASSUME OneEach, notify'.conn \notin Between PROVE OneEach'
  <2>1. \A u \in Threads : pc[u] = "return" => conn[u] # notify'.conn
    BY <1>2, InBetween
  <2> QED
    BY <1>2, <2>1 DEF OneEach
<1> QED
  BY <1>1, <1>2

(* ... and arrives.                                                         *)
LEMMA MainReturns ==
    ASSUME OneEach, UNCHANGED <<pc, conn>>, mpc = "return", mpc' # "return"
    PROVE  Between' = Between \ {notify.conn} /\ OneEach'
<1>1. ASSUME NEW c PROVE c \in Between' <=> c \in Between \ {notify.conn}
  <2>1. \A u \in Threads : pc[u] = "return" => conn[u] # notify.conn
    BY DEF OneEach
  <2> QED
    BY <2>1, BetweenDef, BetweenNext
<1>2. OneEach'
  BY DEF OneEach
<1> QED
  BY <1>1, <1>2

(* A registered connection sets out, and one arrives.                       *)
LEMMA PooledLeaves ==
    ASSUME Pooled, NEW c \in evs, evs' = evs \ {c}, Between' = Between \cup {c},
           UNCHANGED <<idle, made>>, Serving' => Serving
    PROVE  Pooled'
  BY DEF Pooled

LEMMA PooledReturns ==
    ASSUME Pooled, NEW c \in Between, Between' = Between \ {c},
           IsInjective(idle'), ToSet(idle') = ToSet(idle) \cup {c},
           UNCHANGED <<evs, made>>, Serving' => Serving
    PROVE  Pooled'
  BY DEF Pooled

LEMMA PoolStep ==
    ASSUME DataOK, PoolInv, Using, [Next]_vars
    PROVE  PoolInv'
<1> USE DEF poolVars, connVars, threadVars, mainVars
<1>0. HeldConns
  BY UsingHeld
<1>1. Pooled /\ OneEach /\ Events
  BY PoolParts
<1>a. ASSUME UNCHANGED <<idle, evs, made>>, Between' = Between, Serving' => Serving
      PROVE  Pooled'
  BY <1>1, <1>a DEF Pooled
<1>c. ASSUME UNCHANGED <<ready, toMain, notify, mpc>>,
             appState' = appState \/ appState' # "running"
      PROVE  Events'
  BY <1>1, <1>c DEF Events
<1>d. ASSUME NEW t \in Threads, Thread(t)
      PROVE  /\ UNCHANGED <<mpc, notify, ready, appState>> /\ (Serving' <=> Serving)
             /\ \A u \in Threads \ {t} : pc'[u] = pc[u] /\ conn'[u] = conn[u]
  BY <1>d, Others DEF Serving
<1>e. ASSUME NEW t \in Threads, Thread(t), pc[t] # "return", pc'[t] # "return"
      PROVE  Between' = Between /\ OneEach'
  <2>1. /\ \A u \in Threads : pc'[u] = "return" <=> pc[u] = "return"
        /\ \A u \in Threads : pc[u] = "return" => conn'[u] = conn[u]
    BY <1>d, <1>e
  <2> QED
    BY <1>1, <1>d, <1>e, <2>1, NoneMoves
<1>3. ASSUME NEW t \in Threads, Alloc(t) PROVE PoolInv'
  <2>1. PICK c \in Conns :
          /\ c \notin evs /\ evs' = evs \cup {c} /\ IsInjective(idle')
          /\ pc[t] = "alloc" /\ pc' = [pc EXCEPT ![t] = "poll"]
          /\ ToSet(idle') = ToSet(idle) \ {c} /\ c \in 0..made' - 1
          /\ \/ c \in ToSet(idle) /\ made' = made
             \/ c = made /\ made' = made + 1 /\ c \notin ToSet(idle)
    BY <1>3, AllocType
  <2>2. Events'
    BY <1>3, <1>c DEF Alloc
  <2>3. made \in Nat
    BY MadeType
  <2>4. pc'[t] = "poll"
    BY <2>1 DEF DataOK
  <2>5. Between' = Between /\ OneEach' /\ (Serving' <=> Serving)
    BY <1>3, <1>d, <1>e, <2>1, <2>4 DEF Thread
  <2>6. c \notin Between
    BY <1>1, <2>1, <2>3 DEF Pooled
  <2>7. /\ ToSet(idle') \cap evs' = {}
        /\ Between' \cap (ToSet(idle') \cup evs') = {}
        /\ ToSet(idle') \cup evs' \cup Between' = ToSet(idle) \cup evs \cup Between \cup {c}
    BY <1>1, <2>1, <2>5, <2>6 DEF Pooled
  <2>8. Pooled'
    <3>1. CASE c \in ToSet(idle) /\ made' = made
      BY <1>1, <2>1, <2>5, <2>7, <3>1 DEF Pooled
    <3>2. CASE c = made /\ made' = made + 1
      <4>1. 0..made' - 1 = (0..made - 1) \cup {c}
        BY <2>3, <3>2
      <4> QED
        BY <1>1, <2>1, <2>5, <2>7, <4>1 DEF Pooled
    <3> QED
      BY <2>1, <3>1, <3>2
  <2> QED
    BY <2>2, <2>5, <2>8, PoolPartsNext
<1>4. ASSUME NEW t \in Threads, SendRelease(t) PROVE PoolInv'
  <2>1. /\ pc[t] = "release" /\ evs' = evs \ {conn[t]}
        /\ pc' = [pc EXCEPT ![t] = IF conn[t] \in evs THEN "return" ELSE "idle"]
        /\ UNCHANGED <<idle, made, conn, ready, toMain, notify, mpc, appState>>
    BY <1>4 DEF SendRelease, Del
  <2>2. Events' /\ (Serving' <=> Serving)
    BY <1>c, <2>1 DEF Serving
  <2>3. CASE conn[t] \in evs
    <3>1. pc'[t] = "return" /\ \A u \in Threads \ {t} : pc'[u] = pc[u] /\ conn'[u] = conn[u]
      BY <2>1, <2>3 DEF DataOK
    <3>2. conn[t] \notin Between
      BY <1>1, <2>3 DEF Pooled
    <3>3. Between' = Between \cup {conn[t]} /\ OneEach'
      BY <1>1, <2>1, <3>1, <3>2, ThreadLeaves
    <3>4. Pooled'
      BY <1>1, <2>1, <2>2, <2>3, <3>3, PooledLeaves
    <3> QED
      BY <2>2, <3>3, <3>4, PoolPartsNext
  <2>4. CASE conn[t] \notin evs
    <3>1. pc'[t] = "idle" /\ evs' = evs
      BY <2>1, <2>4 DEF DataOK
    <3>2. Between' = Between /\ OneEach'
      BY <1>4, <1>e, <2>1, <3>1 DEF Thread
    <3> QED
      BY <1>a, <2>1, <2>2, <3>1, <3>2, PoolPartsNext
  <2> QED
    BY <2>3, <2>4
<1>16. ASSUME NEW t \in Threads, SendReturn(t) PROVE PoolInv'
  <2>1. /\ pc[t] = "return" /\ GiveBack(conn[t]) /\ pc' = [pc EXCEPT ![t] = "idle"]
        /\ UNCHANGED <<evs, made, conn, ready, toMain, notify, mpc, appState>>
    BY <1>16 DEF SendReturn
  <2>2. Events' /\ (Serving' <=> Serving)
    BY <1>c, <2>1 DEF Serving
  <2>3. conn[t] \in Between /\ conn[t] \in Conns
    BY <1>0, <2>1, InBetween DEF HeldConns, Holds
  <2>4. IsInjective(idle') /\ ToSet(idle') = ToSet(idle) \cup {conn[t]}
    BY <2>1, <2>3, GiveBackType
  <2>5. pc'[t] = "idle" /\ \A u \in Threads \ {t} : pc'[u] = pc[u] /\ conn'[u] = conn[u]
    BY <2>1 DEF DataOK
  <2>6. Between' = Between \ {conn[t]} /\ OneEach'
    BY <1>1, <2>1, <2>5, ThreadReturns
  <2>7. Pooled'
    BY <1>1, <2>1, <2>2, <2>3, <2>4, <2>6, PooledReturns
  <2> QED
    BY <2>2, <2>6, <2>7, PoolPartsNext
<1>5. ASSUME NEW t \in Threads, Put(t) PROVE PoolInv'
  <2>1. conn[t] \in Conns
    BY <1>0, <1>5 DEF Put, HeldConns, Holds
  <2>2. toMain' = [toMain EXCEPT ![conn[t]] = Append(toMain[conn[t]], Command(kind[t]))]
        /\ UNCHANGED <<idle, evs, made, ready, notify, mpc, appState>>
    BY <1>5, <2>1 DEF Put, DataOK
  <2>3. Append(toMain[conn[t]], Command(kind[t])) # <<>>
    <3>1. toMain[conn[t]] \in Seq({"kRun", "kRunWithMsg"})
          /\ Command(kind[t]) \in {"kRun", "kRunWithMsg"}
      BY <2>1 DEF DataOK, Command
    <3> QED
      BY <3>1, AppendProperties
  <2>4. Events'
    BY <1>1, <2>1, <2>2, <2>3 DEF DataOK, Events
  <2>5. pc[t] # "return" /\ pc'[t] # "return"
    BY <1>5 DEF Put, DataOK
  <2>6. Between' = Between /\ OneEach' /\ (Serving' <=> Serving)
    BY <1>5, <1>d, <1>e, <2>5 DEF Thread
  <2> QED
    BY <1>a, <2>2, <2>4, <2>6, PoolPartsNext
<1>6. ASSUME NEW t \in Threads,
             Call(t) \/ PollAdd(t) \/ PutNowhere(t) \/ Receive(t) \/ PollDel(t)
      PROVE  PoolInv'
  <2>1. UNCHANGED <<idle, evs, made, ready, toMain, notify, mpc, appState>>
    BY <1>6 DEF Call, PollAdd, PutNowhere, Receive, PollDel
  <2>2. pc[t] # "return" /\ pc'[t] # "return"
    BY <1>6 DEF Call, PollAdd, PutNowhere, Receive, PollDel, DataOK
  <2>3. Between' = Between /\ OneEach' /\ (Serving' <=> Serving)
    BY <1>6, <1>d, <1>e, <2>2 DEF Thread
  <2> QED
    BY <1>a, <1>c, <2>1, <2>3, PoolPartsNext
<1>f. ASSUME UNCHANGED <<pc, conn>>, mpc # "return", mpc' # "return"
      PROVE  Between' = Between /\ OneEach'
  BY <1>1, <1>f, NoneMoves
<1>g. ASSUME UNCHANGED <<pc, conn, idle, evs, made>>, Serving' => Serving,
             mpc # "return", mpc' # "return", Events'
      PROVE  PoolInv'
  BY <1>a, <1>f, <1>g, PoolPartsNext
<1>7. ASSUME Wait PROVE PoolInv'
  <2>1. Events'
    BY <1>1, <1>7 DEF Wait, Events
  <2> QED
    BY <1>7, <1>g, <2>1 DEF Wait, Serving
<1>8. ASSUME NEW c \in Conns, ProcessEventConn(c) PROVE PoolInv'
  <2>1. /\ UNCHANGED <<pc, conn, idle, evs, made, notify, mpc, appState>> /\ mpc = "process"
        /\ ready' = ready \ {c}
        /\ \A d \in Conns \ {c} : toMain'[d] = toMain[d]
    BY <1>8 DEF ProcessEventConn, DataOK
  <2>2. Events'
    BY <1>1, <2>1 DEF DataOK, Events
  <2> QED
    BY <1>g, <2>1, <2>2 DEF Serving
<1>9. ASSUME NEW a \in asked, NotifyRelease(a) PROVE PoolInv'
  <2> DEFINE c == a.msg.conn
  <2>1. /\ UNCHANGED <<pc, conn, idle, made, ready, toMain, appState>>
        /\ mpc = "process" /\ notify = None
    BY <1>9 DEF NotifyRelease
  <2>2. CASE UNCHANGED <<evs, notify, mpc>>
    <3>1. Events'
      BY <1>c, <2>1, <2>2
    <3> QED
      BY <1>g, <2>1, <2>2, <3>1 DEF Serving
  <2>3. CASE c \in evs /\ evs' = evs \ {c} /\ notify' = a.msg /\ mpc' = "return"
    <3>1. a.msg # None
      BY AskedType, Numbers
    <3>2. Events'
      BY <1>1, <2>1, <2>3, <3>1 DEF Events
    <3>3. c \notin Between
      BY <1>1, <2>3 DEF Pooled
    <3>4. Between' = Between \cup {c} /\ OneEach'
      BY <1>1, <2>1, <2>3, <3>3, MainLeaves
    <3>5. Serving' => Serving
      BY <2>1 DEF Serving
    <3>6. Pooled'
      BY <1>1, <2>1, <2>3, <3>4, <3>5, PooledLeaves
    <3> QED
      BY <3>2, <3>4, <3>6, PoolPartsNext
  <2> QED
    BY <1>9, <2>2, <2>3 DEF NotifyRelease, Del
<1>17. ASSUME NotifyReturn PROVE PoolInv'
  <2>1. /\ UNCHANGED <<pc, conn, evs, made, ready, toMain, notify, appState>>
        /\ mpc = "return" /\ mpc' = "process" /\ GiveBack(notify.conn)
    BY <1>17 DEF NotifyReturn
  <2>2. Events'
    BY <1>1, <2>1 DEF Events
  <2>3. notify.conn \in Between /\ notify.conn \in Conns
    <3>1. notify \in Msg
      BY <1>1, <2>1 DEF Events, DataOK
    <3> QED
      BY <2>1, <3>1, InBetween DEF Msg
  <2>4. IsInjective(idle') /\ ToSet(idle') = ToSet(idle) \cup {notify.conn}
    BY <2>1, <2>3, GiveBackType
  <2>5. Between' = Between \ {notify.conn} /\ OneEach'
    BY <1>1, <2>1, MainReturns
  <2>6. Serving' => Serving
    BY <2>1 DEF Serving
  <2>7. Pooled'
    BY <1>1, <2>1, <2>3, <2>4, <2>5, <2>6, PooledReturns
  <2> QED
    BY <2>2, <2>5, <2>7, PoolPartsNext
<1>10. ASSUME NotifyAnswer PROVE PoolInv'
  <2>1. Events'
    BY <1>1, <1>10 DEF NotifyAnswer, Events
  <2> QED
    BY <1>10, <1>g, <2>1 DEF NotifyAnswer, Serving
<1>11. ASSUME ProcessDone PROVE PoolInv'
  <2>1. Events'
    BY <1>1, <1>11 DEF ProcessDone, Events
  <2> QED
    BY <1>11, <1>g, <2>1 DEF ProcessDone, Serving
<1>12. ASSUME ClearPool PROVE PoolInv'
  <2>1. /\ idle' = <<>> /\ mpc' = "clear events" /\ mpc = "clear pool"
        /\ UNCHANGED <<evs, made, ready, toMain, notify, pc, conn, appState>>
    BY <1>12 DEF ClearPool
  <2>2. Events'
    BY <1>1, <2>1 DEF Events
  <2>3. Between' = Between /\ OneEach'
    BY <1>f, <2>1
  <2>4. Pooled'
    BY <1>1, <2>1, <2>3, Nothing DEF Pooled, Serving
  <2> QED
    BY <2>2, <2>3, <2>4, PoolPartsNext
<1>13. ASSUME ClearEvents PROVE PoolInv'
  <2>1. /\ evs' = {} /\ mpc' = "done" /\ mpc = "clear events" /\ appState' = "quit"
        /\ UNCHANGED <<idle, made, ready, toMain, notify, pc, conn>>
    BY <1>13 DEF ClearEvents
  <2>2. Events'
    BY <1>1, <2>1 DEF Events
  <2>3. Between' = Between /\ OneEach'
    BY <1>f, <2>1
  <2>4. Pooled'
    BY <1>1, <2>1, <2>3 DEF Pooled, Serving
  <2> QED
    BY <2>2, <2>3, <2>4, PoolPartsNext
<1>14. ASSUME Quit \/ UNCHANGED vars PROVE PoolInv'
  <2>1. /\ UNCHANGED <<idle, evs, made, ready, toMain, notify, mpc, pc, conn>>
        /\ appState' = appState \/ appState' # "running"
    BY <1>14 DEF Quit, vars
  <2>2. Between' = Between /\ OneEach'
    BY <1>1, <2>1, NoneMoves
  <2>3. Events' /\ (Serving' <=> Serving)
    BY <1>c, <2>1 DEF Serving
  <2> QED
    BY <1>a, <2>1, <2>2, <2>3, PoolPartsNext
<1> QED
  BY <1>3, <1>4, <1>5, <1>6, <1>7, <1>8, <1>9, <1>10, <1>11, <1>12, <1>13, <1>14,
     <1>16, <1>17, Steps DEF Main, Reply, Thread

LEMMA PoolInit == Init => PoolInv /\ Using
<1> SUFFICES ASSUME Init PROVE PoolInv /\ Using
  OBVIOUS
<1>1. IsInjective(idle) /\ ToSet(idle) = 0..made - 1
  <2>1. idle = [i \in 1..PoolSize |-> i - 1] /\ made = PoolSize /\ PoolSize \in Nat
    BY Numbers DEF Init
  <2>2. ToSet(idle) = { i - 1 : i \in 1..PoolSize }
    BY <2>1 DEF ToSet
  <2>3. \A i \in 1..PoolSize : i - 1 \in 0..made - 1
    BY <2>1
  <2>4. \A x \in 0..made - 1 : x + 1 \in 1..PoolSize /\ x = (x + 1) - 1
    BY <2>1
  <2>5. \A i, j \in 1..PoolSize : i - 1 = j - 1 => i = j
    BY <2>1
  <2>6. IsInjective(idle)
    BY <2>1, <2>5 DEF IsInjective
  <2>7. ToSet(idle) = 0..made - 1
    BY <2>1, <2>2, <2>3, <2>4
  <2> QED
    BY <2>6, <2>7
<1>2. /\ \A t \in Threads : pc[t] = "idle"
      /\ mpc = "wait" /\ notify = None /\ evs = {} /\ ready = {}
  BY DEF Init
<1>3. Between = {}
  BY <1>2 DEF Between
<1>4. Pooled /\ OneEach /\ Events
  BY <1>1, <1>2, <1>3 DEF Pooled, OneEach, Events, Init
<1>5. PoolInv
  BY <1>4, PoolParts
<1> QED
  BY <1>2, <1>5 DEF Using, InCall, Holds

(* Whatever the threads do, two of them sharing a connection included: a    *)
(* connection is in EventConnManager's idle list, or registered, or between *)
(* the two steps of Release in the hands of one thread; never in two of the *)
(* three, and never in the list twice; all that were made are in one of     *)
(* them until the shutdown clears them.  So Alloc never meets a connection  *)
(* that is already registered, and no connection is lost in the manager.    *)
THEOREM PoolIsSound == Spec => []PoolInv
<1>1. Init => DataOK /\ PoolInv /\ Using
  BY TypeInit, PoolInit
<1>2. DataOK /\ PoolInv /\ Using /\ [Next]_vars => (DataOK /\ PoolInv /\ Using)'
  BY DataStep, PoolStep, UsingStep
<1> QED
  BY <1>1, <1>2, PTL DEF Spec
-----------------------------------------------------------------------------
(* Who holds a connection, when a thread that asks is alone.                *)

Base == DataOK /\ PoolInv /\ Alone /\ HoldInv

LEMMA HoldUsing == HoldInv => Using
  BY DEF HoldInv, Using

LEMMA BaseUsing == Base => Using /\ HeldConns
  BY HoldUsing, UsingHeld DEF Base

(* Two threads that call: nobody asks.                                      *)
LEMMA Worlds ==
    ASSUME Alone, NEW t \in Threads, kind[t] # "none"
    PROVE  /\ \A u \in Threads \ {t} : kind[u] # "none" => NoAsker
           /\ ~Asks(kind[t]) => NoAsker
  BY DEF Alone, NoAsker

LEMMA HoldMain ==
    ASSUME Base, SendInv, Main \/ Quit \/ UNCHANGED vars
    PROVE  HoldInv'
<1>1. Using' /\ Using
  BY HoldUsing, UsingStep, Steps DEF Base
<1>2. /\ UNCHANGED <<made, pc, conn, count, kind>>
      /\ \A u : (InCall(u)' <=> InCall(u)) /\ (Holds(u)' <=> Holds(u))
  BY MainStep
<1>3. ConnExclusive'
  BY <1>2 DEF ConnExclusive, Base, HoldInv
<1>4. ASSUME NEW t \in Threads, Holds(t)', ~Asks(kind[t])
      PROVE  /\ conn[t] \notin ToSet(idle')
             /\ Up' /\ pc[t] # "return" => conn[t] \in evs'
  <2>1. Holds(t) /\ kind[t] # "none" /\ NoAsker
    <3>1. Holds(t)
      BY <1>2, <1>4
    <3>2. kind[t] # "none"
      BY <1>1, <3>1 DEF Using, Holds, InCall
    <3> QED
      BY <1>4, <3>1, <3>2, Worlds DEF Base
  <2>2. /\ conn[t] \notin ToSet(idle)
        /\ Up /\ pc[t] # "return" => conn[t] \in evs
    BY <1>4, <2>1 DEF Base, HoldInv
  <2>3. asked = {} /\ mpc # "return"
    BY <2>1 DEF SendInv, Sends, Base, PoolInv
  <2>4. \/ UNCHANGED <<idle, evs>> /\ (Up' => Up)
        \/ idle' = <<>> /\ UNCHANGED evs /\ Up
        \/ UNCHANGED idle /\ ~Up'
    BY <2>3 DEF Main, Reply, Wait, ProcessEventConn, NotifyReturn, NotifyAnswer, ProcessDone, ClearPool,
                ClearEvents, Quit, vars, poolVars, connVars, threadVars, mainVars, Up
  <2> QED
    BY <2>2, <2>4, Nothing DEF Up
<1>5. \A t \in Threads : Holds(t)' =>
        /\ pc'[t] \in {"release", "return"} => kind'[t] = "send"
        /\ pc'[t] = "recv" => kind'[t] # "nowhere"
  BY <1>2 DEF Base, HoldInv
<1> QED
  BY <1>1, <1>2, <1>3, <1>4, <1>5 DEF HoldInv, Using

LEMMA HoldThread ==
    ASSUME Base, NEW t \in Threads, Thread(t)
    PROVE  HoldInv'
<1> USE DEF poolVars, connVars, threadVars, mainVars
<1>1. Using' /\ Using /\ HeldConns
  BY HoldUsing, UsingHeld, UsingStep, Steps DEF Base
<1>2. UNCHANGED <<kind, appState>> /\ (Up' <=> Up)
  BY Others DEF Base, Up
<1>3. \A u \in Threads \ {t} :
        /\ pc'[u] = pc[u] /\ conn'[u] = conn[u]
        /\ Holds(u)' <=> Holds(u)
  BY Others DEF Base
<1>4. kind[t] # "none"
  <2>1. Call(t) \/ InCall(t)
    BY DEF Thread, Alloc, PollAdd, Put, PutNowhere, Receive, PollDel, SendRelease, SendReturn, InCall
  <2> QED
    BY <1>1, <2>1 DEF Call, Using
<1>5. ASSUME NEW u \in Threads \ {t}, Holds(u)
      PROVE  /\ kind[u] # "none" /\ ~Asks(kind[u]) /\ conn[u] \in 0..made - 1
             /\ conn[u] \notin ToSet(idle)
             /\ Up /\ pc[u] # "return" => conn[u] \in evs
             /\ Holds(t) => conn[u] # conn[t]
             /\ pc[u] \in {"release", "return"} => kind[u] = "send"
             /\ pc[u] = "recv" => kind[u] # "nowhere"
  <2>1. kind[u] # "none" /\ conn[u] \in 0..made - 1
    BY <1>1, <1>5 DEF Using, Holds, InCall
  <2>2. ~Asks(kind[u])
    BY <1>4, <2>1, Worlds DEF NoAsker, Base
  <2>3. Holds(t) => conn[u] # conn[t]
    BY <1>5 DEF Base, HoldInv, ConnExclusive
  <2> QED
    BY <1>5, <2>1, <2>2, <2>3 DEF Base, HoldInv
<1>6. CASE Alloc(t)
  <2>1. PICK c \in Conns :
          /\ c \notin evs /\ evs' = evs \cup {c} /\ conn' = [conn EXCEPT ![t] = c]
          /\ pc' = [pc EXCEPT ![t] = "poll"]
          /\ ToSet(idle') = ToSet(idle) \ {c}
          /\ c \in ToSet(idle) \/ c = made
    BY <1>6, AllocType DEF Base
  <2>2. conn'[t] = c /\ pc'[t] = "poll"
    BY <2>1 DEF Base, DataOK
  <2>3. made \in Nat
    BY MadeType DEF Base
  <2>4. \A u \in Threads \ {t} : Holds(u) => conn[u] # c
    <3> SUFFICES ASSUME NEW u \in Threads \ {t}, Holds(u) PROVE conn[u] # c
      OBVIOUS
    <3>1. conn[u] \in 0..made - 1 /\ conn[u] \notin ToSet(idle)
      BY <1>5
    <3>2. made \notin 0..made - 1
      BY <2>3
    <3> QED
      BY <2>1, <3>1, <3>2
  <2>5. ConnExclusive'
    <3>1. \A u, v \in Threads \ {t} :
             Holds(u) /\ Holds(v) /\ conn[u] = conn[v] => u = v
      BY DEF Base, HoldInv, ConnExclusive
    <3> QED
      BY <1>3, <2>2, <2>4, <3>1 DEF ConnExclusive
  <2>6. ASSUME NEW u \in Threads, Holds(u)'
        PROVE  /\ pc'[u] \in {"release", "return"} => kind[u] = "send"
               /\ pc'[u] = "recv" => kind[u] # "nowhere"
               /\ ~Asks(kind[u]) => /\ conn'[u] \notin ToSet(idle')
                                    /\ Up /\ pc'[u] # "return" => conn'[u] \in evs'
    <3>1. CASE u = t
      BY <2>1, <2>2, <3>1
    <3>2. CASE u # t
      BY <1>3, <1>5, <2>1, <2>6, <3>2
    <3> QED
      BY <3>1, <3>2
  <2> QED
    BY <1>1, <1>2, <2>5, <2>6 DEF HoldInv, Using
<1>7. CASE SendRelease(t) \/ SendReturn(t)
  <2>1. Holds(t) /\ conn[t] \in Conns /\ UNCHANGED conn /\ kind[t] = "send"
    BY <1>1, <1>7 DEF SendRelease, SendReturn, Holds, HeldConns, Base, HoldInv
  <2>2. pc'[t] \in {"idle", "return"}
    BY <1>7 DEF SendRelease, SendReturn, Base, DataOK
  <2>3. /\ \A c : c \in evs /\ c # conn[t] => c \in evs'
        /\ \A c : c \in ToSet(idle') => c \in ToSet(idle) \/ c = conn[t]
        /\ pc'[t] = "return" => idle' = idle
    <3>1. CASE SendRelease(t)
      BY <3>1 DEF SendRelease, Del
    <3>2. CASE SendReturn(t)
      <4>1. GiveBack(conn[t]) /\ evs' = evs /\ pc[t] = "return" /\ pc'[t] = "idle"
        BY <3>2 DEF SendReturn, Base, DataOK
      <4>2. conn[t] \in Between
        BY <4>1, InBetween
      <4>3. ToSet(idle') = ToSet(idle) \cup {conn[t]}
        BY <2>1, <4>1, <4>2, GiveBackType DEF Base
      <4> QED
        BY <4>1, <4>3
    <3> QED
      BY <1>7, <3>1, <3>2
  <2>4. ConnExclusive'
    <3>1. \A u \in Threads : Holds(u)' => Holds(u)
      BY <1>3, <2>1
    <3> QED
      BY <2>1, <3>1 DEF ConnExclusive, Base, HoldInv
  <2>5. ASSUME NEW u \in Threads, Holds(u)'
        PROVE  /\ pc'[u] \in {"release", "return"} => kind[u] = "send"
               /\ pc'[u] = "recv" => kind[u] # "nowhere"
               /\ ~Asks(kind[u]) => /\ conn'[u] \notin ToSet(idle')
                                    /\ Up /\ pc'[u] # "return" => conn'[u] \in evs'
    <3>1. CASE u # t
      BY <1>3, <1>5, <2>1, <2>3, <2>5, <3>1
    <3>2. CASE u = t
      <4>1. pc'[t] = "return"
        BY <2>2, <2>5, <3>2 DEF Holds
      <4>2. conn[t] \notin ToSet(idle)
        BY <2>1 DEF Base, HoldInv, Asks
      <4> QED
        BY <2>1, <2>3, <3>2, <4>1, <4>2
    <3> QED
      BY <3>1, <3>2
  <2> QED
    BY <1>1, <1>2, <2>4, <2>5 DEF HoldInv, Using
<1>8. CASE Call(t) \/ PollAdd(t) \/ Put(t) \/ PutNowhere(t) \/ Receive(t) \/ PollDel(t)
  <2>1. UNCHANGED <<idle, evs, conn>>
    BY <1>8 DEF Call, PollAdd, Put, PutNowhere, Receive, PollDel
  <2>2. /\ Holds(t)' => Holds(t)
        /\ pc'[t] \in {"release", "return"} => kind[t] = "send"
        /\ Holds(t)' => pc[t] # "return"
        /\ pc'[t] = "recv" => kind[t] # "nowhere"
    <3>1. CASE Call(t)
      BY <3>1 DEF Call, Holds, Base, DataOK
    <3>2. CASE PollAdd(t)
      BY <3>2 DEF PollAdd, Holds, Base, DataOK
    <3>3. CASE Put(t)
      BY <3>3 DEF Put, Holds, Base, DataOK
    <3>4. CASE PutNowhere(t)
      BY <3>4 DEF PutNowhere, Holds, Base, DataOK
    <3>5. CASE Receive(t)
      BY <3>5 DEF Receive, Holds, Base, DataOK
    <3>6. CASE PollDel(t)
      BY <3>6 DEF PollDel, Holds, Base, DataOK
    <3> QED
      BY <1>8, <3>1, <3>2, <3>3, <3>4, <3>5, <3>6
  <2>3. \A u \in Threads : Holds(u)' => Holds(u)
    BY <1>3, <2>2
  <2>4. ConnExclusive'
    BY <2>1, <2>3 DEF ConnExclusive, Base, HoldInv
  <2>5. \A u \in Threads : Holds(u) /\ ~Asks(kind[u]) =>
               /\ conn[u] \notin ToSet(idle)
               /\ Up /\ pc[u] # "return" => conn[u] \in evs
    BY DEF Base, HoldInv
  <2>6. ASSUME NEW u \in Threads, Holds(u)'
        PROVE  /\ pc'[u] \in {"release", "return"} => kind[u] = "send"
               /\ pc'[u] = "recv" => kind[u] # "nowhere"
               /\ ~Asks(kind[u]) => /\ conn'[u] \notin ToSet(idle')
                                    /\ Up /\ pc'[u] # "return" => conn'[u] \in evs'
    <3>1. CASE u = t
      BY <2>1, <2>2, <2>3, <2>5, <2>6, <3>1
    <3>2. CASE u # t
      BY <1>3, <1>5, <2>1, <2>6, <3>2
    <3> QED
      BY <3>1, <3>2
  <2> QED
    BY <1>1, <1>2, <2>4, <2>6 DEF HoldInv, Using
<1> QED
  BY <1>6, <1>7, <1>8 DEF Thread

LEMMA HoldStep ==
    ASSUME Base, SendInv, [Next]_vars
    PROVE  HoldInv'
  BY HoldMain, HoldThread, Steps
-----------------------------------------------------------------------------
(* What is under way, when nobody asks.                                     *)

SameConn(c) ==
    /\ send'[c] = send[c] /\ recv'[c] = recv[c]
    /\ toMain'[c] = toMain[c] /\ toOwner'[c] = toOwner[c]

LEMMA ConnLocal ==
    ASSUME DataOK, NEW t \in Threads, Thread(t), NEW d \in Conns,
           ~(Holds(t) /\ conn[t] = d)
    PROVE  SameConn(d)
<1> USE DEF poolVars, connVars, threadVars, mainVars, SameConn
<1>1. CASE Put(t)
  BY <1>1 DEF Put, Holds, DataOK
<1>2. CASE PutNowhere(t)
  BY <1>2 DEF PutNowhere, Holds, DataOK
<1>3. CASE Receive(t)
  BY <1>3 DEF Receive, Holds, DataOK
<1>4. CASE Call(t) \/ Alloc(t) \/ PollAdd(t) \/ PollDel(t) \/ SendRelease(t)
           \/ SendReturn(t)
  BY <1>4 DEF Call, Alloc, PollAdd, PollDel, SendRelease, SendReturn
<1> QED
  BY <1>1, <1>2, <1>3, <1>4 DEF Thread

LEMMA SilentKeeps == \A c : Silent(c) /\ SameConn(c) => Silent(c)'
  BY DEF Silent, SameConn


LEMMA HeldDef ==
    ASSUME NEW c
    PROVE  c \in Held <=> \E t \in Threads : Holds(t) /\ conn[t] = c
  BY DEF Held

LEMMA ServedKeeps ==
    ASSUME NEW u \in Threads, Served(u), SameConn(conn[u]),
           pc'[u] = pc[u], conn'[u] = conn[u], count'[u] = count[u]
    PROVE  Served(u)'
  BY DEF Served, SameConn, Silent, Undispatched, Dispatched, Mine

(* A command for the main thread is that of a thread in Send.               *)
LEMMA Ready ==
    ASSUME Sends, Up, NEW c \in Conns, toMain[c] # <<>>
    PROVE  \E t \in Threads : /\ Holds(t) /\ conn[t] = c /\ pc[t] = "recv"
                              /\ Undispatched(t) /\ recv[c] = <<>>
<1>1. ~Silent(c)
  BY DEF Silent
<1>2. PICK t \in Threads : Holds(t) /\ conn[t] = c
  BY <1>1, HeldDef DEF Sends
<1>3. Served(t)
  BY <1>2 DEF Sends
<1>4. pc[t] = "recv" /\ (Undispatched(t) \/ Dispatched(t)) /\ recv[c] = <<>>
  BY <1>1, <1>2, <1>3 DEF Served
<1>5. ~Dispatched(t)
  BY <1>2 DEF Dispatched
<1> QED
  BY <1>2, <1>4, <1>5

LEMMA SendMain ==
    ASSUME Base, NoAsker, Sends, Main \/ Quit \/ UNCHANGED vars
    PROVE  Sends'
<1> USE DEF poolVars, connVars, threadVars, mainVars
<1>1. /\ UNCHANGED <<made, pc, conn, count, kind>>
      /\ \A u : Holds(u)' <=> Holds(u)
  BY MainStep
<1>2. Held' = Held
  BY <1>1 DEF Held, Holds
<1>3. HeldConns
  BY BaseUsing
<1>4. ASSUME NEW c \in Conns, ProcessEventConn(c) PROVE Sends'
  <2>1. asked' = {} /\ notify' = None /\ toMain[c] # <<>> /\ (Up' <=> Up)
    <3>1. send[c] \in Seq(Msg)
      BY DEF Base, DataOK
    <3>2. \A i \in 1..Len(send[c]) : send[c][i].thread \in Threads
      <4>1. \A i \in 1..Len(send[c]) : send[c][i] \in Msg
        BY <3>1, ElementOfSeq
      <4> QED
        BY <4>1 DEF Msg
    <3>3. { i \in 1..Len(send[c]) : Asks(kind[send[c][i].thread]) } = {}
      BY <3>2 DEF NoAsker
    <3>4. asked' \subseteq asked \cup {}
      BY <1>4, <3>3 DEF ProcessEventConn
    <3> QED
      BY <1>4, <3>4 DEF ProcessEventConn, Sends, Base, PoolInv, Up
  <2>2. ASSUME Up
        PROVE  \E t \in Threads : /\ Holds(t) /\ conn[t] = c /\ pc[t] = "recv"
                                  /\ Undispatched(t) /\ recv[c] = <<>>
    BY <2>1, <2>2, Ready
  <2>3. ASSUME NEW d \in Conns \ {c} PROVE SameConn(d)
    BY <1>4 DEF ProcessEventConn, SameConn, Base, DataOK
  <2>4. ASSUME Up, NEW d \in Conns \ Held PROVE Silent(d)'
    <3>1. d # c
      BY <2>2, <2>4, HeldDef
    <3> QED
      BY <2>3, <2>4, <3>1, SilentKeeps DEF Sends
  <2>5. ASSUME Up, NEW u \in Threads, Holds(u) PROVE Served(u)'
    <3>1. CASE conn[u] # c
      <4>1. conn[u] \in Conns
        BY <1>3, <2>5 DEF HeldConns
      <4>2. SameConn(conn[u])
        BY <2>3, <3>1, <4>1
      <4> QED
        BY <1>1, <2>5, <4>2, ServedKeeps DEF Sends
    <3>2. CASE conn[u] = c
      <4>1. pc[u] = "recv" /\ Undispatched(u) /\ recv[c] = <<>>
        BY <2>2, <2>5, <3>2 DEF Base, HoldInv, ConnExclusive
      <4>2. toMain[c] = <<"kRun">> /\ toOwner[c] = <<>>
        BY <3>2, <4>1 DEF Undispatched
      <4>3. c \in evs
        BY <2>5, <3>2, <4>1 DEF Base, HoldInv, NoAsker
      <4>4. /\ send' = [send EXCEPT ![c] = <<>>] /\ recv' = recv
            /\ toMain' = [toMain EXCEPT ![c] = Tail(toMain[c])]
            /\ toOwner' = [toOwner EXCEPT ![c] = Append(toOwner[c], "kIdle")]
        BY <1>4, <4>2, <4>3 DEF ProcessEventConn
      <4>5. send'[c] = <<>> /\ toMain'[c] = <<>> /\ toOwner'[c] = <<"kIdle">>
        <5>1. Tail(toMain[c]) = <<>> /\ Append(toOwner[c], "kIdle") = <<"kIdle">>
          BY <4>2
        <5>2. /\ send'[c] = <<>> /\ toMain'[c] = Tail(toMain[c])
              /\ toOwner'[c] = Append(toOwner[c], "kIdle")
          BY <4>4 DEF Base, DataOK
        <5> QED
          BY <5>1, <5>2
      <4>6. Dispatched(u)'
        BY <1>1, <3>2, <4>5 DEF Dispatched
      <4> QED
        BY <1>1, <3>2, <4>1, <4>4, <4>6 DEF Served
    <3> QED
      BY <3>1, <3>2
  <2> QED
    BY <1>1, <1>2, <2>1, <2>4, <2>5 DEF Sends
<1>5. CASE ClearEvents
  BY <1>5 DEF ClearEvents, Sends, Up
<1>6. CASE Wait \/ ProcessDone \/ ClearPool \/ Quit \/ UNCHANGED vars
  <2>1. /\ UNCHANGED <<send, recv, toMain, toOwner, asked, notify>>
        /\ Up' <=> Up
    BY <1>6 DEF Wait, ProcessDone, ClearPool, Quit, vars, Up
  <2>2. \A c : SameConn(c)
    BY <2>1 DEF SameConn
  <2>3. \A u \in Threads : Served(u) => Served(u)'
    BY <1>1, <2>2, ServedKeeps
  <2> QED
    BY <1>1, <1>2, <2>1, <2>2, <2>3, SilentKeeps DEF Sends
<1>7. ~Reply /\ ~NotifyReturn /\ ~NotifyAnswer
  BY DEF Reply, NotifyReturn, NotifyAnswer, Sends, Base, PoolInv
<1> QED
  BY <1>4, <1>5, <1>6, <1>7 DEF Main

LEMMA SendThread ==
    ASSUME Base, NoAsker, Sends, NEW t \in Threads, Thread(t)
    PROVE  Sends'
<1> USE DEF poolVars, connVars, threadVars, mainVars
<1>1. Using /\ HeldConns
  BY BaseUsing
<1>2. UNCHANGED <<kind, appState, asked, notify>> /\ (Up' <=> Up)
  BY Others DEF Base, Up
<1>3. \A u \in Threads \ {t} :
        /\ pc'[u] = pc[u] /\ conn'[u] = conn[u] /\ count'[u] = count[u]
        /\ Holds(u)' <=> Holds(u)
  BY Others DEF Base
<1>4. ~Asks(kind[t])
  BY DEF NoAsker
<1>5. SUFFICES ASSUME Up
               PROVE  /\ \A c \in Conns \ Held' : Silent(c)'
                      /\ \A u \in Threads : Holds(u)' => Served(u)'
  BY <1>2 DEF Sends
<1>6. ASSUME NEW u \in Threads \ {t}, Holds(u) PROVE Served(u)'
  <2>1. conn[u] \in Conns /\ ~(Holds(t) /\ conn[t] = conn[u])
    BY <1>1, <1>6 DEF HeldConns, Base, HoldInv, ConnExclusive
  <2>2. SameConn(conn[u])
    BY <2>1, ConnLocal DEF Base
  <2>3. Served(u)
    BY <1>5, <1>6 DEF Sends
  <2> QED
    BY <1>3, <2>2, <2>3, ServedKeeps
<1>7. Holds(t) => conn[t] \in Conns /\ Served(t)
  BY <1>1, <1>5 DEF HeldConns, Sends
<1>8. /\ Holds(t)' => Served(t)'
      /\ \A c : Holds(t) /\ conn[t] = c => (Holds(t)' /\ conn'[t] = c) \/ Silent(c)'
  <2>1. CASE Call(t)
    <3>1. pc'[t] = "alloc" /\ ~Holds(t)
      BY <2>1 DEF Call, Holds, Base, DataOK
    <3> QED
      BY <3>1 DEF Holds
  <2>2. CASE Alloc(t)
    <3>1. PICK c \in Conns :
            /\ conn' = [conn EXCEPT ![t] = c]
            /\ pc' = [pc EXCEPT ![t] = "poll"] /\ pc[t] = "alloc"
            /\ c \in ToSet(idle) \/ c = made
      BY <2>2, AllocType DEF Base
    <3>2. conn'[t] = c /\ pc'[t] = "poll" /\ ~Holds(t)
      BY <3>1 DEF Base, DataOK, Holds
    <3>3. c \notin Held
      <4> SUFFICES ASSUME NEW u \in Threads, Holds(u), conn[u] = c PROVE FALSE
        BY HeldDef
      <4>1. conn[u] \in 0..made - 1 /\ conn[u] \notin ToSet(idle)
        BY DEF Base, HoldInv, NoAsker
      <4>2. made \in Nat
        BY MadeType DEF Base
      <4>3. made \notin 0..made - 1
        BY <4>2
      <4> QED
        BY <3>1, <4>1, <4>3
    <3>4. Silent(c)'
      <4>1. Silent(c)
        BY <1>5, <3>3 DEF Sends
      <4>2. SameConn(c)
        BY <3>2, ConnLocal DEF Base
      <4> QED
        BY <4>1, <4>2, SilentKeeps
    <3>5. Silent(conn[t])'
      BY <3>2, <3>4 DEF Silent
    <3> QED
      BY <3>2, <3>5 DEF Served
  <2>3. CASE Put(t)
    <3> DEFINE c == conn[t]
    <3>1. Holds(t) /\ pc[t] = "put" /\ kind[t] = "send"
      <4>1. Holds(t) /\ pc[t] = "put" /\ kind[t] # "nowhere" /\ InCall(t)
        BY <2>3 DEF Put, Holds, InCall
      <4>2. kind[t] # "none"
        BY <1>1, <4>1 DEF Using
      <4> QED
        BY <1>4, <4>1, <4>2, KindType DEF Asks, Base
    <3>2. Silent(c) /\ c \in Conns
      BY <1>7, <3>1 DEF Served
    <3>3. /\ send' = [send EXCEPT ![c] = <<Mine(t)>>]
          /\ toMain' = [toMain EXCEPT ![c] = Append(toMain[c], "kRun")]
          /\ UNCHANGED <<recv, toOwner, conn, count>>
          /\ pc' = [pc EXCEPT ![t] = "recv"]
      BY <2>3, <3>1 DEF Put, Mine, Command
    <3>4. toMain[c] = <<>> /\ Append(<<>>, "kRun") = <<"kRun">>
      BY <3>2 DEF Silent
    <3>5. send'[c] = <<Mine(t)>> /\ toMain'[c] = <<"kRun">> /\ pc'[t] = "recv"
      BY <3>2, <3>3, <3>4 DEF Base, DataOK
    <3>6. Undispatched(t)' /\ recv'[conn'[t]] = <<>>
      BY <3>2, <3>3, <3>5 DEF Undispatched, Silent, Mine
    <3> QED
      BY <3>3, <3>5, <3>6 DEF Served, Holds
  <2>4. CASE PutNowhere(t)
    <3> DEFINE c == conn[t]
    <3>1. Holds(t) /\ pc[t] = "put"
      BY <2>4 DEF PutNowhere, Holds
    <3>2. Silent(c) /\ c \in Conns
      BY <1>7, <3>1 DEF Served
    <3>3. /\ send' = [send EXCEPT ![c] = <<>>]
          /\ UNCHANGED <<toMain, recv, toOwner, conn, count>>
          /\ pc' = [pc EXCEPT ![t] = "unpoll"]
      BY <2>4 DEF PutNowhere
    <3>4. send'[c] = <<>> /\ pc'[t] = "unpoll" /\ conn'[t] = c
      BY <3>2, <3>3 DEF Base, DataOK
    <3>5. Silent(conn[t])'
      BY <3>2, <3>3, <3>4 DEF Silent
    <3> QED
      BY <3>4, <3>5 DEF Served, Holds
  <2>5. CASE Receive(t)
    <3> DEFINE c == conn[t]
    <3>1. Holds(t) /\ pc[t] = "recv" /\ toOwner[c] # <<>>
      BY <2>5 DEF Receive, Holds
    <3>2. /\ c \in Conns /\ toOwner[c] = <<"kIdle">> /\ send[c] = <<>>
          /\ toMain[c] = <<>> /\ recv[c] = <<>>
      BY <1>7, <3>1 DEF Served, Undispatched, Dispatched
    <3>3. /\ toOwner' = [toOwner EXCEPT ![c] = Tail(toOwner[c])]
          /\ UNCHANGED <<toMain, send, recv, conn, count>>
          /\ pc' = [pc EXCEPT ![t] = "unpoll"]
      BY <1>4, <2>5 DEF Receive
    <3>4. toOwner'[c] = <<>> /\ pc'[t] = "unpoll" /\ conn'[t] = c
      <4>1. Tail(toOwner[c]) = <<>>
        BY <3>2
      <4>2. toOwner'[c] = Tail(toOwner[c]) /\ pc'[t] = "unpoll"
        BY <3>2, <3>3 DEF Base, DataOK
      <4> QED
        BY <3>3, <4>1, <4>2
    <3>5. Silent(conn[t])'
      BY <3>2, <3>3, <3>4 DEF Silent
    <3> QED
      BY <3>4, <3>5 DEF Served, Holds
  <2>6. CASE PollAdd(t) \/ PollDel(t) \/ SendRelease(t) \/ SendReturn(t)
    <3>1. /\ UNCHANGED <<send, recv, toMain, toOwner, conn>>
          /\ Holds(t) /\ pc[t] # "recv" /\ pc'[t] # "recv"
      BY <2>6 DEF PollAdd, PollDel, SendRelease, SendReturn, Holds, Base, DataOK
    <3>2. Silent(conn[t])
      BY <1>7, <3>1 DEF Served
    <3>3. Silent(conn[t])'
      BY <3>1, <3>2 DEF Silent
    <3> QED
      BY <3>1, <3>3 DEF Served
  <2> QED
    BY <2>1, <2>2, <2>3, <2>4, <2>5, <2>6 DEF Thread
<1>9. ASSUME NEW c \in Conns, c \notin Held' PROVE Silent(c)'
  <2>1. \A u \in Threads : ~(Holds(u)' /\ conn'[u] = c)
    BY <1>9 DEF Held
  <2>2. CASE Holds(t) /\ conn[t] = c
    BY <1>8, <2>1, <2>2
  <2>3. CASE ~(Holds(t) /\ conn[t] = c)
    <3>1. c \notin Held
      BY <1>3, <2>1, <2>3, HeldDef
    <3>2. Silent(c)
      BY <1>5, <3>1 DEF Sends
    <3>3. SameConn(c)
      BY <2>3, ConnLocal DEF Base
    <3> QED
      BY <3>2, <3>3, SilentKeeps
  <2> QED
    BY <2>2, <2>3
<1> QED
  BY <1>3, <1>6, <1>8, <1>9

LEMMA SendStep ==
    ASSUME Base, SendInv, [Next]_vars
    PROVE  SendInv'
<1>1. kind' = kind
  BY Others, MainStep, Steps DEF Base
<1>2. NoAsker' <=> NoAsker
  BY <1>1 DEF NoAsker
<1> QED
  BY <1>2, SendMain, SendThread, Steps DEF SendInv
-----------------------------------------------------------------------------
(* What was dispatched.                                                     *)

Ordered ==
    \A i, j \in 1..Len(dispatched) :
        i < j /\ dispatched[i].thread = dispatched[j].thread
              /\ kind[dispatched[i].thread] = "send"
            => dispatched[i].n < dispatched[j].n
Kept(t) ==
    /\ \A m \in ToSet(dispatched) :
          m.thread = t => m.n <= count[t] /\ (m.n = count[t] => WasSent(t))
    /\ Up => \A n \in 1..count[t] :
                n < count[t] \/ WasSent(t) =>
                    \E m \in ToSet(dispatched) : m.thread = t /\ m.n = n

LEMMA DispatchDef ==
    DispatchInv <=> Ordered /\ \A t \in Threads : kind[t] = "send" => Kept(t)
  BY DEF DispatchInv, Ordered, Kept

LEMMA DispatchedData ==
    ASSUME DataOK
    PROVE  /\ \A i \in 1..Len(dispatched) :
                dispatched[i] \in ToSet(dispatched) /\ dispatched[i] \in Msg
           /\ \A m \in ToSet(dispatched) : m \in Msg /\ m.thread \in Threads /\ m.n \in Nat
<1>1. dispatched \in Seq(Msg)
  BY DEF DataOK
<1>2. ToSet(dispatched) = { dispatched[i] : i \in 1..Len(dispatched) }
      /\ ToSet(dispatched) \subseteq Msg
  BY <1>1, SetOps
<1>3. \A m \in Msg : m.thread \in Threads /\ m.n \in Nat
  BY Numbers DEF Msg
<1> QED
  BY <1>2, <1>3

(* Nobody sends: there is no order to keep.                                 *)
LEMMA NobodySends ==
    DataOK /\ (\A t \in Threads : kind[t] # "send") => DispatchInv
<1> SUFFICES ASSUME DataOK, \A t \in Threads : kind[t] # "send"
             PROVE  DispatchInv
  OBVIOUS
<1>1. \A i \in 1..Len(dispatched) : kind[dispatched[i].thread] # "send"
  BY DispatchedData
<1> QED
  BY <1>1, DispatchDef DEF Ordered

LEMMA NobodySendsNext ==
    DataOK' /\ (\A t \in Threads : kind[t] # "send")' => DispatchInv'
  BY NobodySends, PTL

(* A step that dispatches nothing.                                          *)
LEMMA KeptKeeps ==
    ASSUME DataOK, NEW t \in Threads, Kept(t), UNCHANGED dispatched, count'[t] = count[t],
           Up' => Up,
           WasSent(t) => WasSent(t)',
           Up' /\ WasSent(t)' => WasSent(t)
    PROVE  Kept(t)'
  BY DEF Kept

LEMMA DispatchThread ==
    ASSUME Base, NoAsker, Sends, DispatchInv, NEW t \in Threads, Thread(t)
    PROVE  DispatchInv'
<1> USE DEF poolVars, connVars, threadVars, mainVars
<1>1. Using /\ HeldConns
  BY BaseUsing
<1>2. UNCHANGED <<kind, appState, dispatched>> /\ (Up' <=> Up)
  BY Others DEF Base, Up
<1>3. \A u \in Threads \ {t} :
        /\ pc'[u] = pc[u] /\ conn'[u] = conn[u] /\ count'[u] = count[u]
        /\ Holds(u)' <=> Holds(u)
  BY Others DEF Base
<1>4. Ordered'
  BY <1>2, DispatchDef DEF Ordered
<1>5. ASSUME NEW u \in Threads \ {t}, Kept(u) PROVE Kept(u)'
  <2>1. WasSent(u)' <=> WasSent(u)
    <3>1. CASE pc[u] # "recv"
      BY <1>3, <3>1 DEF WasSent
    <3>2. CASE pc[u] = "recv"
      <4>1. Holds(u)
        BY <3>2 DEF Holds
      <4>2. conn[u] \in Conns /\ ~(Holds(t) /\ conn[t] = conn[u])
        BY <1>1, <4>1 DEF HeldConns, Base, HoldInv, ConnExclusive
      <4>3. send'[conn[u]] = send[conn[u]]
        BY <4>2, ConnLocal DEF Base, SameConn
      <4> QED
        BY <1>2, <1>3, <3>2, <4>3 DEF WasSent
    <3> QED
      BY <3>1, <3>2
  <2> QED
    BY <1>2, <1>3, <1>5, <2>1, KeptKeeps DEF Base
<1>6. ASSUME kind[t] = "send", Kept(t) PROVE Kept(t)'
  <2>1. CASE Call(t)
    <3>1. pc[t] = "idle" /\ pc'[t] = "alloc" /\ count'[t] = count[t] + 1
      BY <2>1 DEF Call, Base, DataOK
    <3>2. count[t] \in Nat
      <4>1. count[t] \in 0..Calls
        BY DEF Base, DataOK
      <4> QED
        BY <4>1, Numbers
    <3>3. WasSent(t) /\ ~WasSent(t)'
      BY <3>1 DEF WasSent
    <3>4. ASSUME NEW m \in ToSet(dispatched), m.thread = t
          PROVE  m.n <= count'[t] /\ m.n # count'[t]
      <4>1. m.n \in Nat /\ m.n <= count[t]
        BY <1>6, <3>4, DispatchedData DEF Kept, Base
      <4> QED
        BY <3>1, <3>2, <4>1
    <3>5. ASSUME Up, NEW n \in 1..count'[t], n < count'[t]
          PROVE  \E m \in ToSet(dispatched) : m.thread = t /\ m.n = n
      <4>1. n \in 1..count[t]
        BY <3>1, <3>2, <3>5
      <4> QED
        BY <1>6, <3>3, <3>5, <4>1 DEF Kept
    <3> QED
      BY <1>2, <3>3, <3>4, <3>5 DEF Kept
  <2>2. CASE ~Call(t)
    <3>1. count' = count
      BY <2>2 DEF Thread, Alloc, PollAdd, Put, PutNowhere, Receive, PollDel, SendRelease, SendReturn
    <3>2. (WasSent(t) => WasSent(t)') /\ (Up' /\ WasSent(t)' => WasSent(t))
      <4>1. CASE Alloc(t)
        <5>1. pc[t] = "alloc" /\ pc'[t] = "poll"
          BY <4>1, AllocType DEF Base, DataOK
        <5> QED
          BY <5>1 DEF WasSent
      <4>2. CASE PollAdd(t)
        <5>1. pc[t] = "poll" /\ pc'[t] = "put"
          BY <4>2 DEF PollAdd, Base, DataOK
        <5> QED
          BY <5>1 DEF WasSent
      <4>3. CASE Put(t)
        <5>1. /\ pc[t] = "put" /\ pc'[t] = "recv" /\ conn'[t] = conn[t]
              /\ conn[t] \in Conns
              /\ send' = [send EXCEPT ![conn[t]] = <<Mine(t)>>]
          BY <1>1, <4>3 DEF Put, Base, DataOK, Mine, HeldConns, Holds
        <5>2. send'[conn'[t]] # <<>>
          BY <5>1 DEF Base, DataOK
        <5> QED
          BY <5>1, <5>2 DEF WasSent
      <4>4. ~PutNowhere(t)
        BY <1>6 DEF PutNowhere
      <4>5. CASE Receive(t)
        <5>1. Holds(t) /\ pc[t] = "recv" /\ pc'[t] = "unpoll" /\ toOwner[conn[t]] # <<>>
          BY <4>5 DEF Receive, Base, DataOK, Holds
        <5>2. Up => send[conn[t]] = <<>>
          BY <5>1 DEF Sends, Served, Undispatched, Dispatched
        <5> QED
          BY <5>1, <5>2 DEF WasSent
      <4>6. CASE PollDel(t)
        <5>1. pc[t] = "unpoll" /\ pc'[t] = "release"
          BY <1>6, <4>6 DEF PollDel, Base, DataOK
        <5> QED
          BY <5>1 DEF WasSent
      <4>7. CASE SendRelease(t)
        <5>1. pc[t] = "release" /\ pc'[t] \in {"return", "idle"}
          BY <4>7 DEF SendRelease, Base, DataOK
        <5> QED
          BY <5>1 DEF WasSent
      <4>8. CASE SendReturn(t)
        <5>1. pc[t] = "return" /\ pc'[t] = "idle"
          BY <4>8 DEF SendReturn, Base, DataOK
        <5> QED
          BY <5>1 DEF WasSent
      <4> QED
        BY <2>2, <4>1, <4>2, <4>3, <4>4, <4>5, <4>6, <4>7, <4>8 DEF Thread
    <3> QED
      BY <1>2, <1>6, <3>1, <3>2, KeptKeeps DEF Base
  <2> QED
    BY <2>1, <2>2
<1>7. \A u \in Threads : kind'[u] = "send" => Kept(u)'
  BY <1>2, <1>5, <1>6, DispatchDef
<1>8. DispatchInv' <=> Ordered' /\ \A u \in Threads : kind'[u] = "send" => Kept(u)'
  BY DEF DispatchInv, Ordered, Kept
<1> QED
  BY <1>4, <1>7, <1>8

LEMMA DispatchMain ==
    ASSUME Base, NoAsker, Sends, DispatchInv, Main \/ Quit \/ UNCHANGED vars
    PROVE  DispatchInv'
<1> USE DEF poolVars, connVars, threadVars, mainVars
<1>1. UNCHANGED <<made, pc, conn, count, kind>>
  BY MainStep
<1>2. DispatchInv' <=> Ordered' /\ \A u \in Threads : kind'[u] = "send" => Kept(u)'
  BY DEF DispatchInv, Ordered, Kept
<1>3. CASE UNCHANGED <<dispatched, send>>
  <2>1. Up' => Up
    BY DEF Main, Reply, Wait, ProcessEventConn, NotifyRelease, NotifyReturn, NotifyAnswer, ProcessDone,
           ClearPool, ClearEvents, Quit, vars, Up
  <2>2. \A u \in Threads : (WasSent(u) => WasSent(u)') /\ (Up' /\ WasSent(u)' => WasSent(u))
    BY <1>1, <1>3, <2>1 DEF WasSent
  <2>3. \A u \in Threads : Kept(u) => Kept(u)'
    BY <1>1, <1>3, <2>1, <2>2, KeptKeeps DEF Base
  <2> QED
    BY <1>1, <1>2, <1>3, <2>3, DispatchDef DEF Ordered
<1>4. ASSUME NEW c \in Conns, ProcessEventConn(c), c \in evs
      PROVE  DispatchInv'
  <2>1. Up /\ Up' /\ toMain[c] # <<>>
    BY <1>4 DEF ProcessEventConn, Base, PoolInv, Up
  <2>2. PICK t \in Threads : /\ Holds(t) /\ conn[t] = c /\ pc[t] = "recv"
                             /\ Undispatched(t)
    BY <2>1, Ready
  <2> DEFINE m == Mine(t)
             D == dispatched
             L == Len(D)
  <2>3. send[c] = <<m>>
    BY <2>2 DEF Undispatched
  <2>4. /\ m \in Msg /\ m.thread = t /\ m.n = count[t] /\ count[t] \in Nat
        /\ count[t] > 0
    <3>1. Mine(t) \in Msg
      BY <2>2, BaseUsing, MineType DEF Base
    <3>2. m.thread = t /\ m.n = count[t]
      BY DEF Mine
    <3>3. count[t] \in 0..Calls /\ count[t] > 0
      BY <2>2, BaseUsing DEF Base, DataOK, Using, Holds, InCall
    <3> QED
      BY <3>1, <3>2, <3>3, Numbers
  <2>5. dispatched' = Append(dispatched, m)
    <3>1. dispatched' = dispatched \o <<m>>
      BY <1>4, <2>3 DEF ProcessEventConn
    <3>2. dispatched \in Seq(Msg)
      BY DEF Base, DataOK
    <3> QED
      BY <2>4, <3>1, <3>2, AppendIsConcat
  <2>6. ToSet(dispatched') = ToSet(dispatched) \cup {m}
    <3>1. dispatched \in Seq(Msg)
      BY DEF Base, DataOK
    <3>2. ToSet(Append(dispatched, m)) = ToSet(dispatched) \cup {m}
      BY <2>4, <3>1, SetOps
    <3> QED
      BY <2>5, <3>2
  <2>7. /\ L \in Nat /\ Len(dispatched') = L + 1 /\ dispatched'[L + 1] = m
        /\ \A i \in 1..L : dispatched'[i] = D[i]
    <3>1. dispatched \in Seq(Msg)
      BY DEF Base, DataOK
    <3>2. /\ Len(D) \in Nat /\ Len(Append(D, m)) = Len(D) + 1
          /\ Append(D, m)[Len(D) + 1] = m
          /\ \A i \in 1..Len(D) : Append(D, m)[i] = D[i]
      BY <2>4, <3>1, AppendProperties, LenProperties
    <3> QED
      BY <2>5, <3>2
  <2>8. send' = [send EXCEPT ![c] = <<>>] /\ send'[c] = <<>>
    BY <1>4 DEF ProcessEventConn, Base, DataOK
  <2>9. ~WasSent(t)
    BY <2>1, <2>2, <2>3 DEF WasSent
  <2>10. WasSent(t)'
    BY <1>1, <2>2, <2>8 DEF WasSent
  <2>11. ASSUME NEW u \in Threads \ {t} PROVE WasSent(u)' <=> WasSent(u)
    <3>1. CASE pc[u] # "recv"
      BY <1>1, <3>1 DEF WasSent
    <3>2. CASE pc[u] = "recv"
      <4>1. Holds(u)
        BY <3>2 DEF Holds
      <4>2. conn[u] \in Conns /\ conn[u] # c
        BY <2>2, <4>1, BaseUsing DEF HeldConns, Base, HoldInv, ConnExclusive
      <4>3. send'[conn[u]] = send[conn[u]]
        BY <2>8, <4>2 DEF Base, DataOK
      <4> QED
        BY <1>1, <2>1, <3>2, <4>3 DEF WasSent
    <3> QED
      BY <3>1, <3>2
  <2>12. kind[t] = "send"
    <3>1. kind[t] # "none" /\ kind[t] # "nowhere" /\ ~Asks(kind[t])
      BY <2>2, BaseUsing DEF Using, Holds, InCall, Base, HoldInv, NoAsker
    <3> QED
      BY <3>1, KindType DEF Base, Asks
  <2>13. Kept(t)
    BY <2>12, DispatchDef
  <2>14. Ordered'
    <3> SUFFICES ASSUME NEW i \in 1 .. L + 1, NEW j \in 1 .. L + 1, i < j,
                        dispatched'[i].thread = dispatched'[j].thread,
                        kind[dispatched'[i].thread] = "send"
                 PROVE  dispatched'[i].n < dispatched'[j].n
      BY <1>1, <2>7 DEF Ordered
    <3>1. i \in 1..L /\ (j \in 1..L \/ j = L + 1)
      BY <2>7
    <3>2. CASE j \in 1..L
      BY <2>7, <3>1, <3>2, DispatchDef DEF Ordered
    <3>3. CASE j = L + 1
      <4>1. D[i] \in ToSet(D) /\ D[i].thread = t /\ D[i].n \in Nat
        BY <2>4, <2>7, <3>1, <3>3, DispatchedData DEF Base
      <4>2. D[i].n <= count[t] /\ D[i].n # count[t]
        BY <2>9, <2>13, <4>1 DEF Kept
      <4>3. D[i].n < count[t]
        BY <2>4, <4>1, <4>2
      <4> QED
        BY <2>4, <2>7, <3>1, <3>3, <4>3
    <3> QED
      BY <3>1, <3>2, <3>3
  <2>15. ASSUME NEW u \in Threads, kind[u] = "send" PROVE Kept(u)'
    <3>1. Kept(u)
      BY <2>15, DispatchDef
    <3>2. CASE u # t
      <4>1. \A x \in ToSet(dispatched') : x.thread = u => x \in ToSet(dispatched)
        BY <2>4, <2>6, <3>2
      <4>2. WasSent(u)' <=> WasSent(u)
        BY <2>11, <3>2
      <4> QED
        BY <1>1, <2>1, <2>6, <3>1, <4>1, <4>2 DEF Kept
    <3>3. CASE u = t
      <4>1. \A x \in ToSet(dispatched') : x.thread = t => x.n <= count[t]
        BY <2>4, <2>6, <2>13 DEF Kept
      <4>2. ASSUME NEW n \in 1..count[t]
            PROVE  \E x \in ToSet(dispatched') : x.thread = t /\ x.n = n
        <5>1. CASE n < count[t]
          BY <2>1, <2>6, <2>13, <5>1 DEF Kept
        <5>2. CASE n = count[t]
          BY <2>4, <2>6, <5>2
        <5> QED
          BY <2>4, <5>1, <5>2
      <4> QED
        BY <1>1, <2>10, <3>3, <4>1, <4>2 DEF Kept
    <3> QED
      BY <3>2, <3>3
  <2> QED
    BY <1>1, <1>2, <2>14, <2>15
<1>5. ASSUME NEW c \in Conns, ProcessEventConn(c), c \notin evs
      PROVE  UNCHANGED <<dispatched, send>>
  BY <1>5 DEF ProcessEventConn
<1>6. \/ UNCHANGED <<dispatched, send>>
      \/ \E c \in Conns : ProcessEventConn(c)
  BY DEF Main, Reply, Wait, NotifyRelease, NotifyReturn, NotifyAnswer, ProcessDone,
         ClearPool, ClearEvents, Quit, vars
<1> QED
  BY <1>3, <1>4, <1>5, <1>6

LEMMA DispatchStep ==
    ASSUME Base, SendInv, DispatchInv, [Next]_vars
    PROVE  DispatchInv'
<1>1. kind' = kind
  BY Others, MainStep, Steps DEF Base
<1>2. CASE NoAsker
  BY <1>2, DispatchThread, DispatchMain, Steps DEF SendInv
<1>3. CASE ~NoAsker
  <2>1. DataOK'
    BY BaseUsing, DataStep DEF Base
  <2>2. \A t \in Threads : kind'[t] # "send"
    BY <1>1, <1>3, Worlds DEF Base, Asks
  <2> QED
    BY <2>1, <2>2, NobodySendsNext
<1> QED
  BY <1>2, <1>3
-----------------------------------------------------------------------------
(* A thread that asks, alone.                                               *)

(* Nobody else runs.                                                        *)
LEMMA OnlyAsker ==
    ASSUME Base, NEW t \in Threads, Asks(kind[t]), NEW u \in Threads, Thread(u)
    PROVE  u = t
<1>1. Call(u) \/ InCall(u)
  BY DEF Thread, Alloc, PollAdd, Put, PutNowhere, Receive, PollDel, SendRelease, SendReturn, InCall
<1>2. kind[u] # "none"
  BY <1>1, BaseUsing DEF Call, Using
<1> QED
  BY <1>2 DEF Base, Alone

(* The steps of an asking thread: none is of Send alone.                    *)
LEMMA AskerSteps ==
    ASSUME Base, NEW t \in Threads, Asks(kind[t]), Thread(t)
    PROVE  /\ Call(t) \/ Alloc(t) \/ PollAdd(t) \/ Put(t) \/ Receive(t) \/ PollDel(t)
           /\ kind[t] \in {"request", "twice"}
           /\ UNCHANGED <<kind, appState, asked, notify>>
           /\ Up' <=> Up
           /\ \A m : Answers(m)' = Answers(m)
<1>1. kind[t] \in {"request", "twice"}
  BY DEF Asks
<1>2. ~PutNowhere(t) /\ ~SendRelease(t) /\ ~SendReturn(t)
  BY <1>1 DEF PutNowhere, SendRelease, SendReturn, Base, HoldInv, Holds
<1>3. UNCHANGED <<mpc, kind, appState, asked, notify>>
  BY Others DEF Base
<1> QED
  BY <1>1, <1>2, <1>3 DEF Thread, Up, Answers

(* What IsOf says is not disturbed by another step than Call.               *)
LEMMA IsOfKeeps ==
    ASSUME NEW t, count'[t] = count[t], kind'[t] = kind[t]
    PROVE  \A m : IsOf(t, m)' <=> IsOf(t, m)
  BY DEF IsOf

LEMMA AskThread ==
    ASSUME Base, NEW t \in Threads, Asks(kind[t]), Thread(t),
           AskOK(t), kind[t] = "request" /\ Up => OnePlace(t)
    PROVE  AskOK(t)'
<1> USE DEF poolVars, connVars, threadVars, mainVars
<1>1. /\ Call(t) \/ Alloc(t) \/ PollAdd(t) \/ Put(t) \/ Receive(t) \/ PollDel(t)
      /\ kind[t] \in {"request", "twice"}
      /\ UNCHANGED <<kind, appState, asked, notify>>
      /\ Up' <=> Up
  BY AskerSteps
<1>2. Using /\ HeldConns
  BY BaseUsing
<1>3. Holds(t) => conn[t] \in Conns
  BY <1>2 DEF HeldConns
<1>4. /\ QueuesOf(t) /\ AnswersOf(t)
      /\ Up => Elsewhere(t) /\ Place(t) /\ Answered(t)
  BY DEF AskOK
<1>5. CASE Call(t)
  <2>1. /\ count'[t] = count[t] + 1 /\ pc[t] = "idle" /\ pc'[t] = "alloc" /\ Up
        /\ UNCHANGED <<evs, conn, connType, send, recv, toMain, toOwner>>
    BY <1>5 DEF Call, Base, DataOK, PoolInv, Up
  <2>2. count[t] \in Nat
    <3>1. count[t] \in 0..Calls
      BY DEF Base, DataOK
    <3> QED
      BY <3>1, Numbers
  <2>3. ~Holds(t) /\ ~Holds(t)' /\ ~Asking(t) /\ ~Asking(t)'
    BY <2>1 DEF Holds, Asking
  <2>4. QueuesOf(t)'
    <3> SUFFICES ASSUME NEW c \in Conns, NEW m \in ToSet(send[c]) PROVE IsOf(t, m)'
      BY <1>4, <2>1 DEF QueuesOf
    <3>1. IsOf(t, m) /\ m \in Msg
      <4>1. send[c] \in Seq(Msg)
        BY DEF Base, DataOK
      <4>2. ToSet(send[c]) \subseteq Msg
        BY <4>1, SetOps
      <4> QED
        BY <1>4, <4>2 DEF QueuesOf
    <3>2. CASE kind[t] = "request"
      <4>1. send[c] = <<>>
        BY <2>1, <3>2 DEF OnePlace
      <4> QED
        BY <4>1, Nothing
    <3>3. CASE kind[t] = "twice"
      <4>1. m.n \in Nat /\ m.thread = t /\ m.n <= count[t]
        BY <3>1, Numbers DEF Msg, IsOf
      <4> QED
        BY <1>1, <2>1, <2>2, <3>3, <4>1 DEF IsOf
    <3> QED
      BY <1>1, <3>2, <3>3
  <2>5. AnswersOf(t)'
    <3> SUFFICES ASSUME NEW a \in asked PROVE IsOf(t, a.msg)'
      BY <1>1 DEF AnswersOf
    <3>1. IsOf(t, a.msg) /\ a.msg \in Msg
      BY <1>4, AskedType DEF AnswersOf, Base
    <3>2. kind[t] = "twice"
      BY <1>1, <2>1 DEF OnePlace
    <3>3. a.msg.n \in Nat /\ a.msg.thread = t /\ a.msg.n <= count[t]
      BY <3>1, Numbers DEF Msg, IsOf
    <3> QED
      BY <1>1, <2>1, <2>2, <3>2, <3>3 DEF IsOf
  <2>6. Elsewhere(t)' /\ Place(t)' /\ Answered(t)'
    BY <1>1, <1>4, <2>1, <2>3 DEF Elsewhere, Place, Answered, Free
  <2> QED
    BY <2>4, <2>5, <2>6 DEF AskOK
<1>6. ASSUME ~Call(t)
      PROVE  /\ count'[t] = count[t]
             /\ \A m : IsOf(t, m)' <=> IsOf(t, m)
             /\ AnswersOf(t)'
  <2>1. count' = count
    BY <1>1, <1>6 DEF Alloc, PollAdd, Put, Receive, PollDel
  <2>2. \A m : IsOf(t, m)' <=> IsOf(t, m)
    BY <1>1, <2>1, IsOfKeeps
  <2> QED
    BY <1>1, <1>4, <2>1, <2>2 DEF AnswersOf
<1>7. ASSUME ~Call(t), UNCHANGED <<connType, toMain, send>>
      PROVE  QueuesOf(t)'
  BY <1>4, <1>6, <1>7 DEF QueuesOf
<1>8. CASE Alloc(t)
  <2>1. ~Call(t) /\ UNCHANGED <<connType, toMain, send, recv, toOwner>>
    BY <1>8 DEF Alloc, Call
  <2>2. PICK c \in Conns :
          /\ evs' = evs \cup {c} /\ conn' = [conn EXCEPT ![t] = c]
          /\ pc[t] = "alloc" /\ pc' = [pc EXCEPT ![t] = "poll"]
    BY <1>8, AllocType DEF Base
  <2>3. conn'[t] = c /\ pc'[t] = "poll"
    BY <2>2 DEF Base, DataOK
  <2>4. ~Holds(t) /\ ~Asking(t) /\ Asking(t)' /\ Holds(t)'
    BY <2>2, <2>3 DEF Holds, Asking
  <2>5. ASSUME Up PROVE Elsewhere(t)' /\ Place(t)' /\ Answered(t)'
    <3>1. \A d \in Conns : Free(d)
      BY <1>4, <2>4, <2>5 DEF Elsewhere
    <3>2. Elsewhere(t)'
      BY <2>1, <2>2, <2>3, <2>4, <3>1 DEF Elsewhere, Free
    <3>3. Awaited(t)'
      BY <1>1, <1>4, <2>1, <2>2, <2>3, <2>4, <2>5, <3>1 DEF Awaited, Place, Free
    <3> QED
      BY <2>3, <2>4, <3>2, <3>3 DEF Place, Answered
  <2> QED
    BY <1>1, <1>6, <1>7, <2>1, <2>5 DEF AskOK
<1>9. CASE PollAdd(t) \/ Put(t)
  <2>1. /\ ~Call(t) /\ UNCHANGED <<evs, recv, toOwner, conn, answer>>
        /\ Asking(t) /\ Asking(t)' /\ Holds(t) /\ Holds(t)' /\ pc'[t] # "unpoll"
    BY <1>9 DEF PollAdd, Put, Call, Holds, Asking, Base, DataOK
  <2>2. Up => Elsewhere(t)'
    BY <1>4, <2>1 DEF Elsewhere, Free
  <2>3. Up => Place(t)'
    BY <1>1, <1>4, <1>6, <2>1 DEF Place, Awaited, Arriving, Arrived
  <2>4. Answered(t)'
    BY <2>1 DEF Answered
  <2>5. QueuesOf(t)'
    <3>1. CASE PollAdd(t)
      BY <1>7, <2>1, <3>1 DEF PollAdd
    <3>2. CASE Put(t)
      <4> DEFINE c == conn[t]
      <4>1. /\ c \in Conns /\ kind[t] # "send"
            /\ send' = [send EXCEPT ![c] = <<Mine(t)>>]
            /\ toMain' = [toMain EXCEPT ![c] = Append(toMain[c], "kRunWithMsg")]
            /\ connType' = [connType EXCEPT ![c] = "request"]
        BY <1>1, <1>3, <2>1, <3>2 DEF Put, Mine, Command, ConnType
      <4>2. /\ send'[c] = <<Mine(t)>> /\ connType'[c] = "request"
            /\ toMain'[c] = Append(toMain[c], "kRunWithMsg")
            /\ \A d \in Conns \ {c} : /\ send'[d] = send[d] /\ toMain'[d] = toMain[d]
                                      /\ connType'[d] = connType[d]
        BY <4>1 DEF Base, DataOK
      <4>3. IsOf(t, Mine(t)) /\ Mine(t).conn = c
        <5>1. count[t] \in Int
          <6>1. count[t] \in 0..Calls
            BY DEF Base, DataOK
          <6> QED
            BY <6>1
        <5> QED
          BY <5>1 DEF IsOf, Mine
      <4>4. ToSet(<<Mine(t)>>) = {Mine(t)}
        BY DEF ToSet
      <4>5. ToSet(Append(toMain[c], "kRunWithMsg")) = ToSet(toMain[c]) \cup {"kRunWithMsg"}
        <5>1. toMain[c] \in Seq({"kRun", "kRunWithMsg"})
          BY <4>1 DEF Base, DataOK
        <5> QED
          BY <5>1, SetOps
      <4> HIDE DEF c
      <4>6. ASSUME NEW d \in Conns
            PROVE  /\ connType'[d] = "request"
                   /\ \A k \in ToSet(toMain'[d]) : k = "kRunWithMsg"
                   /\ \A m \in ToSet(send'[d]) : IsOf(t, m) /\ m.conn = d
        <5>1. CASE d = c
          <6>1. \A k \in ToSet(toMain[c]) : k = "kRunWithMsg"
            BY <1>4, <4>1 DEF QueuesOf
          <6>2. \A k \in ToSet(toMain'[c]) : k = "kRunWithMsg"
            BY <4>2, <4>5, <6>1
          <6>3. \A m \in ToSet(send'[c]) : m = Mine(t)
            BY <4>2, <4>4
          <6> QED
            BY <4>2, <4>3, <5>1, <6>2, <6>3
        <5>2. CASE d # c
          BY <1>4, <4>2, <5>2 DEF QueuesOf
        <5> QED
          BY <5>1, <5>2
      <4> QED
        BY <1>6, <2>1, <4>6 DEF QueuesOf
    <3> QED
      BY <1>9, <3>1, <3>2
  <2> QED
    BY <1>1, <1>6, <2>1, <2>2, <2>3, <2>4, <2>5 DEF AskOK
<1>10. CASE Receive(t)
  <2> DEFINE c == conn[t]
  <2>1. /\ ~Call(t) /\ UNCHANGED <<evs, connType, toMain, send, conn>>
        /\ pc[t] = "recv" /\ pc'[t] = "unpoll" /\ toOwner[c] # <<>>
        /\ Holds(t) /\ Holds(t)' /\ Asking(t) /\ ~Asking(t)' /\ c \in Conns
        /\ toOwner' = [toOwner EXCEPT ![c] = Tail(toOwner[c])]
        /\ recv' = [recv EXCEPT ![c] = <<>>]
        /\ answer' = [answer EXCEPT ![t] = IF recv[c] # <<>> THEN Head(recv[c]) ELSE None]
    BY <1>2, <1>10 DEF Receive, Call, Holds, Asking, Base, DataOK, HeldConns
  <2>2. ASSUME Up PROVE Elsewhere(t)' /\ Place(t)' /\ Answered(t)'
    <3>1. Arrived(t)
      BY <1>4, <2>1, <2>2 DEF Place, Awaited, Arriving
    <3>2. PICK m \in Msg : recv[c] = <<m>> /\ m.conn = c /\ IsOf(t, m)
      BY <3>1 DEF Arrived
    <3>3. c \notin evs /\ notify = None /\ toOwner[c] = <<"kIdle">>
      BY <3>1 DEF Arrived
    <3>4. Tail(toOwner[c]) = <<>> /\ recv[c] # <<>> /\ Head(recv[c]) = m
      BY <3>2, <3>3
    <3>5. toOwner'[c] = <<>> /\ recv'[c] = <<>> /\ answer'[t] = m
      <4>1. /\ toOwner'[c] = Tail(toOwner[c]) /\ recv'[c] = <<>>
            /\ answer'[t] = IF recv[c] # <<>> THEN Head(recv[c]) ELSE None
        BY <2>1 DEF Base, DataOK
      <4> QED
        BY <3>4, <4>1
    <3>6. \A d \in Conns \ {c} : toOwner'[d] = toOwner[d] /\ recv'[d] = recv[d]
      BY <2>1 DEF Base, DataOK
    <3>7. Elsewhere(t)'
      BY <1>4, <2>1, <2>2, <3>6 DEF Elsewhere, Free
    <3>8. Place(t)'
      BY <1>1, <2>1, <3>3, <3>5 DEF Place, Free
    <3>9. Answered(t)'
      BY <1>6, <2>1, <3>2, <3>5 DEF Answered
    <3> QED
      BY <3>7, <3>8, <3>9
  <2> QED
    BY <1>1, <1>6, <1>7, <2>1, <2>2 DEF AskOK
<1>11. CASE PollDel(t)
  <2>1. /\ ~Call(t) /\ UNCHANGED <<evs, connType, toMain, send, recv, toOwner, conn>>
        /\ pc[t] = "unpoll" /\ pc'[t] = "idle"
    BY <1>1, <1>11 DEF PollDel, Call, Base, DataOK
  <2>2. Holds(t) /\ ~Holds(t)' /\ ~Asking(t) /\ ~Asking(t)'
    BY <2>1 DEF Holds, Asking
  <2>3. Up => \A c \in Conns : Free(c)
    BY <1>3, <1>4, <2>2 DEF Elsewhere, Place
  <2>4. Up => Elsewhere(t)' /\ Place(t)' /\ Answered(t)'
    BY <1>1, <1>4, <2>1, <2>2, <2>3 DEF Elsewhere, Place, Answered, Free
  <2> QED
    BY <1>1, <1>6, <1>7, <2>1, <2>4 DEF AskOK
<1> QED
  BY <1>1, <1>5, <1>8, <1>9, <1>10, <1>11
LEMMA AskMain ==
    ASSUME Base, NEW t \in Threads, Asks(kind[t]), AskOK(t),
           Main \/ Quit \/ UNCHANGED vars
    PROVE  AskOK(t)'
<1> USE DEF poolVars, connVars, threadVars, mainVars
<1>1. /\ UNCHANGED <<made, pc, conn, count, answer, connType, kind>>
      /\ Holds(t)' <=> Holds(t)
      /\ Asking(t)' <=> Asking(t)
  BY MainStep DEF Asking
<1>2. \A m : IsOf(t, m)' <=> IsOf(t, m)
  BY <1>1, IsOfKeeps
<1>3. Holds(t) => conn[t] \in Conns
  BY BaseUsing DEF HeldConns
<1>4. /\ QueuesOf(t) /\ AnswersOf(t)
      /\ Up => Elsewhere(t) /\ Place(t) /\ Answered(t)
  BY DEF AskOK
<1>5. Asking(t) => Holds(t)
  BY DEF Asking, Holds
<1>6. ASSUME UNCHANGED <<toMain, send>> PROVE QueuesOf(t)'
  BY <1>1, <1>2, <1>4, <1>6 DEF QueuesOf
<1>7. ASSUME asked' \subseteq asked PROVE AnswersOf(t)'
  BY <1>2, <1>4, <1>7 DEF AnswersOf
<1>8. Answered(t) => Answered(t)'
  BY <1>1, <1>2 DEF Answered
<1>9. ASSUME UNCHANGED <<evs, recv, toOwner, notify>>
      PROVE  (Elsewhere(t) => Elsewhere(t)') /\ (Place(t) => Place(t)')
  <2>1. \A c : Free(c)' <=> Free(c)
    BY <1>9 DEF Free
  <2>2. Awaited(t) \/ Arriving(t) \/ Arrived(t) => (Awaited(t) \/ Arriving(t) \/ Arrived(t))'
    BY <1>1, <1>2, <1>9 DEF Awaited, Arriving, Arrived
  <2>3. Free(conn[t]) => Free(conn[t])'
    BY <1>1, <1>9 DEF Free
  <2> QED
    BY <1>1, <1>9, <2>1, <2>2, <2>3 DEF Elsewhere, Place
<1>10. ASSUME NEW c \in Conns, ProcessEventConn(c) PROVE AskOK(t)'
  <2>1. Up /\ Up' /\ UNCHANGED <<evs, recv, notify>> /\ toMain[c] # <<>>
    BY <1>10 DEF ProcessEventConn, Base, PoolInv, Up
  <2>2. CASE c \notin evs
    <3>1. UNCHANGED <<toMain, send, asked, toOwner>>
      BY <1>10, <2>2 DEF ProcessEventConn
    <3> QED
      BY <1>4, <1>6, <1>7, <1>8, <1>9, <2>1, <3>1 DEF AskOK
  <2>3. CASE c \in evs
    <3> DEFINE requests == { i \in 1..Len(send[c]) : Asks(kind[send[c][i].thread]) }
    <3>1. /\ send' = [send EXCEPT ![c] = <<>>]
          /\ toMain' = [toMain EXCEPT ![c] = Tail(toMain[c])]
          /\ asked' = asked \cup UNION { Answers(send[c][i]) : i \in requests }
          /\ Head(toMain[c]) # "kRun" => toOwner' = toOwner
      BY <1>10, <2>3 DEF ProcessEventConn
    <3>2. /\ send[c] \in Seq(Msg) /\ toMain[c] \in Seq({"kRun", "kRunWithMsg"})
      BY DEF Base, DataOK
    <3>3. /\ \A i \in 1..Len(send[c]) : send[c][i] \in ToSet(send[c])
          /\ ToSet(toMain[c]) = {Head(toMain[c])} \cup ToSet(Tail(toMain[c]))
      <4>1. ToSet(send[c]) = { send[c][i] : i \in 1..Len(send[c]) }
        BY <3>2, SetOps
      <4>2. ToSet(toMain[c]) = {Head(toMain[c])} \cup ToSet(Tail(toMain[c]))
        BY <2>1, <3>2, SetOps
      <4> QED
        BY <4>1, <4>2
    <3>4. Head(toMain[c]) = "kRunWithMsg" /\ toOwner' = toOwner
      BY <1>4, <3>1, <3>3 DEF QueuesOf
    <3>5. AnswersOf(t)'
      <4> SUFFICES ASSUME NEW a \in asked', a \notin asked PROVE IsOf(t, a.msg)
        BY <1>2, <1>4 DEF AnswersOf
      <4>1. PICK i \in requests : a \in Answers(send[c][i])
        BY <3>1
      <4>2. a.msg = send[c][i]
        BY <4>1 DEF Answers
      <4>3. send[c][i] \in ToSet(send[c])
        BY <3>3
      <4> QED
        BY <1>4, <4>2, <4>3 DEF QueuesOf
    <3>6. QueuesOf(t)'
      <4>1. /\ send'[c] = <<>> /\ toMain'[c] = Tail(toMain[c])
            /\ \A d \in Conns \ {c} : send'[d] = send[d] /\ toMain'[d] = toMain[d]
        BY <3>1 DEF Base, DataOK
      <4>2. ToSet(send'[c]) = {} /\ ToSet(toMain'[c]) \subseteq ToSet(toMain[c])
        BY <3>3, <4>1, Nothing
      <4>3. ASSUME NEW d \in Conns
            PROVE  /\ connType[d] = "request"
                   /\ \A k \in ToSet(toMain'[d]) : k = "kRunWithMsg"
                   /\ \A m \in ToSet(send'[d]) : IsOf(t, m) /\ m.conn = d
        <5>1. CASE d = c
          BY <1>4, <4>2, <5>1 DEF QueuesOf
        <5>2. CASE d # c
          BY <1>4, <4>1, <5>2 DEF QueuesOf
        <5> QED
          BY <5>1, <5>2
      <4> QED
        BY <1>1, <1>2, <4>3 DEF QueuesOf
    <3> QED
      BY <1>4, <1>8, <1>9, <2>1, <3>4, <3>5, <3>6 DEF AskOK
  <2> QED
    BY <2>2, <2>3
<1>11. ASSUME NEW a \in asked, NotifyRelease(a) PROVE AskOK(t)'
  <2> DEFINE c == a.msg.conn
  <2>1. c \in Conns /\ a.msg \in Msg /\ IsOf(t, a.msg) /\ a.msg # None
    <3>1. a.msg \in Msg
      BY AskedType DEF Base
    <3> QED
      BY <1>4, <3>1, Numbers DEF AnswersOf, Msg
  <2>2. Up /\ Up' /\ UNCHANGED <<recv, toOwner, send, toMain>> /\ asked' \subseteq asked
        /\ notify = None
    BY <1>11 DEF NotifyRelease, Up
  <2>3. CASE UNCHANGED <<evs, notify>>
    BY <1>4, <1>6, <1>7, <1>8, <1>9, <2>2, <2>3 DEF AskOK
  <2>4. CASE c \in evs /\ Del(c) /\ notify' = a.msg
    <3>1. evs' = evs \ {c}
      BY <2>4 DEF Del
    <3>2. Holds(t) /\ conn[t] = c
      BY <1>4, <2>1, <2>2, <2>4 DEF Elsewhere, Free
    <3>3. Asking(t) /\ Awaited(t)
      BY <1>4, <2>2, <2>4, <3>2 DEF Place, Free, Arriving, Arrived
    <3>4. Arriving(t)'
      BY <1>1, <1>2, <2>1, <2>2, <2>4, <3>1, <3>2, <3>3 DEF Awaited, Arriving
    <3>5. Elsewhere(t)'
      BY <1>1, <1>4, <2>2, <3>1 DEF Elsewhere, Free
    <3>6. Place(t)'
      BY <1>1, <3>3, <3>4 DEF Place
    <3> QED
      BY <1>4, <1>6, <1>7, <1>8, <2>2, <3>5, <3>6 DEF AskOK
  <2> QED
    BY <1>11, <2>3, <2>4 DEF NotifyRelease
<1>12. CASE NotifyAnswer
  <2> DEFINE c == notify.conn
  <2>1. /\ notify # None /\ notify \in Msg /\ notify' = None /\ Up /\ Up'
        /\ UNCHANGED <<evs, send, toMain, asked>>
        /\ recv' = [recv EXCEPT ![c] = Append(recv[c], notify)]
        /\ toOwner' = [toOwner EXCEPT ![c] = Append(toOwner[c], "kIdle")]
    BY <1>12 DEF NotifyAnswer, Base, DataOK, PoolInv, Up
  <2>2. Asking(t) /\ Arriving(t)
    BY <1>4, <2>1 DEF Place, Awaited, Arrived
  <2>3. /\ Holds(t) /\ conn[t] = c /\ c \in Conns /\ c \notin evs /\ IsOf(t, notify)
        /\ toOwner[c] = <<>> /\ recv[c] = <<>>
    BY <1>3, <1>5, <2>2 DEF Arriving
  <2>4. recv'[c] = <<notify>> /\ toOwner'[c] = <<"kIdle">>
    <3>1. Append(recv[c], notify) = <<notify>> /\ Append(toOwner[c], "kIdle") = <<"kIdle">>
      BY <2>3
    <3>2. recv'[c] = Append(recv[c], notify) /\ toOwner'[c] = Append(toOwner[c], "kIdle")
      BY <2>1, <2>3 DEF Base, DataOK
    <3> QED
      BY <3>1, <3>2
  <2>5. Arrived(t)'
    BY <1>1, <1>2, <2>1, <2>3, <2>4 DEF Arrived
  <2>6. \A d \in Conns \ {c} : recv'[d] = recv[d] /\ toOwner'[d] = toOwner[d]
    BY <2>1 DEF Base, DataOK
  <2>7. Elsewhere(t)'
    BY <1>1, <1>4, <2>1, <2>3, <2>6 DEF Elsewhere, Free
  <2>8. Place(t)'
    BY <1>1, <2>2, <2>5 DEF Place
  <2> QED
    BY <1>4, <1>6, <1>7, <1>8, <2>1, <2>7, <2>8 DEF AskOK
<1>13. CASE ClearEvents
  <2>1. ~Up' /\ UNCHANGED <<toMain, send, asked>>
    BY <1>13 DEF ClearEvents, Up
  <2> QED
    BY <1>6, <1>7, <2>1 DEF AskOK
<1>14. CASE Wait \/ NotifyReturn \/ ProcessDone \/ ClearPool \/ Quit \/ UNCHANGED vars
  <2>1. UNCHANGED <<toMain, send, asked, evs, recv, toOwner, notify>> /\ (Up' => Up)
    BY <1>14 DEF Wait, NotifyReturn, ProcessDone, ClearPool, Quit, vars, Up
  <2> QED
    BY <1>4, <1>6, <1>7, <1>8, <1>9, <2>1 DEF AskOK
<1> QED
  BY <1>10, <1>11, <1>12, <1>13, <1>14 DEF Main, Reply

LEMMA AskStep ==
    ASSUME Base, AskInv, RequestInv, [Next]_vars
    PROVE  AskInv'
<1>1. kind' = kind
  BY Others, MainStep, Steps DEF Base
<1>2. ASSUME NEW t \in Threads, Asks(kind[t]) PROVE AskOK(t)'
  <2>1. AskOK(t) /\ (kind[t] = "request" /\ Up => OnePlace(t))
    BY <1>2 DEF AskInv, RequestInv
  <2>2. CASE Main \/ Quit \/ UNCHANGED vars
    BY <1>2, <2>1, <2>2, AskMain
  <2>3. ASSUME NEW u \in Threads, Thread(u) PROVE AskOK(t)'
    <3>1. u = t
      BY <1>2, <2>3, OnlyAsker
    <3> QED
      BY <1>2, <2>1, <2>3, <3>1, AskThread
  <2> QED
    BY <2>2, <2>3, Steps
<1> QED
  BY <1>1, <1>2 DEF AskInv

-----------------------------------------------------------------------------
(* A request that is answered once.                                         *)

LEMMA RequestThread ==
    ASSUME Base, NEW t \in Threads, kind[t] = "request", Thread(t), Up,
           AskOK(t), OnePlace(t)
    PROVE  OnePlace(t)'
<1> USE DEF poolVars, connVars, threadVars, mainVars
<1>1. /\ Call(t) \/ Alloc(t) \/ PollAdd(t) \/ Put(t) \/ Receive(t) \/ PollDel(t)
      /\ UNCHANGED <<asked, notify>>
  BY AskerSteps DEF Asks
<1>2. Holds(t) => conn[t] \in Conns
  BY BaseUsing DEF HeldConns
<1>3. Elsewhere(t) /\ Place(t)
  BY DEF AskOK
<1>4. CASE Call(t) \/ PollDel(t)
  <2>1. /\ UNCHANGED <<send, toMain>>
        /\ pc[t] \in {"idle", "unpoll"} /\ pc'[t] \in {"alloc", "idle"}
    BY <1>4 DEF Call, PollDel, Base, DataOK
  <2> QED
    BY <1>1, <2>1 DEF OnePlace
<1>5. CASE Alloc(t)
  <2>1. UNCHANGED <<toMain, send, recv, toOwner>>
    BY <1>5 DEF Alloc
  <2>2. PICK c \in Conns :
          /\ evs' = evs \cup {c} /\ conn' = [conn EXCEPT ![t] = c]
          /\ pc[t] = "alloc" /\ pc' = [pc EXCEPT ![t] = "poll"]
    BY <1>5, AllocType DEF Base
  <2>3. conn'[t] = c /\ pc'[t] = "poll"
    BY <2>2 DEF Base, DataOK
  <2>4. ~Holds(t) /\ ~Asking(t)
    BY <2>2 DEF Holds, Asking
  <2>5. Awaited(t)'
    BY <1>1, <1>3, <2>1, <2>2, <2>3, <2>4 DEF Awaited, Elsewhere, Place, Free
  <2> QED
    BY <1>1, <2>1, <2>2, <2>3, <2>5 DEF OnePlace
<1>6. CASE PollAdd(t)
  <2>1. /\ UNCHANGED <<evs, send, toMain, toOwner, recv, conn>>
        /\ pc[t] = "poll" /\ pc'[t] = "put"
    BY <1>6 DEF PollAdd, Base, DataOK
  <2>2. Awaited(t)'
    BY <1>1, <2>1 DEF OnePlace, Awaited
  <2> QED
    BY <1>1, <2>1, <2>2 DEF OnePlace
<1>7. CASE Put(t)
  <2> DEFINE c == conn[t]
  <2>1. /\ UNCHANGED <<evs, toOwner, recv, conn, count>> /\ c \in Conns
        /\ pc[t] = "put" /\ pc'[t] = "recv"
        /\ send' = [send EXCEPT ![c] = <<Mine(t)>>]
        /\ toMain' = [toMain EXCEPT ![c] = Append(toMain[c], "kRunWithMsg")]
    BY <1>2, <1>7 DEF Put, Base, DataOK, Mine, Command, Holds
  <2>2. toMain[c] = <<>> /\ asked = {}
    BY <2>1 DEF OnePlace
  <2>3. Awaited(t)'
    BY <1>1, <2>1 DEF OnePlace, Awaited
  <2>4. Append(toMain[c], "kRunWithMsg") = <<"kRunWithMsg">> /\ Mine(t)' = Mine(t)
    BY <2>1, <2>2 DEF Mine
  <2>5. send'[c] = <<Mine(t)'>> /\ toMain'[c] = <<"kRunWithMsg">>
    BY <2>1, <2>4 DEF Base, DataOK
  <2>6. \A d \in Conns \ {c} : send'[d] = send[d] /\ toMain'[d] = toMain[d]
    BY <2>1 DEF Base, DataOK
  <2>7. \A d \in Conns \ {c} : send'[d] = <<>> /\ toMain'[d] = <<>>
    BY <2>1, <2>6 DEF OnePlace
  <2>8. send'[conn'[t]] = <<Mine(t)'>> /\ toMain'[conn'[t]] = <<"kRunWithMsg">>
    BY <2>1, <2>5
  <2> QED
    BY <1>1, <2>1, <2>2, <2>3, <2>7, <2>8 DEF OnePlace
<1>8. CASE Receive(t)
  <2>1. /\ UNCHANGED <<send, toMain, conn>>
        /\ pc[t] = "recv" /\ pc'[t] = "unpoll" /\ toOwner[conn[t]] # <<>>
    BY <1>8 DEF Receive, Base, DataOK
  <2>2. ~Awaited(t)
    BY <2>1 DEF Awaited
  <2>3. /\ send[conn[t]] = <<>> /\ toMain[conn[t]] = <<>> /\ asked = {}
        /\ \A c \in Conns : conn[t] # c => send[c] = <<>> /\ toMain[c] = <<>>
    BY <2>1, <2>2 DEF OnePlace
  <2> QED
    BY <1>1, <2>1, <2>3 DEF OnePlace
<1> QED
  BY <1>1, <1>4, <1>5, <1>6, <1>7, <1>8

LEMMA RequestMain ==
    ASSUME Base, NEW t \in Threads, kind[t] = "request", AskOK(t),
           Up => OnePlace(t), Up', Main \/ Quit \/ UNCHANGED vars
    PROVE  OnePlace(t)'
<1> USE DEF poolVars, connVars, threadVars, mainVars
<1>1. /\ UNCHANGED <<made, pc, conn, count, answer, connType, kind>>
      /\ Mine(t)' = Mine(t)
      /\ \A m : Answers(m)' = Answers(m)
  BY MainStep DEF Mine, Answers
<1>2. Up
  BY DEF Main, Reply, Wait, ProcessEventConn, NotifyRelease, NotifyReturn, NotifyAnswer, ProcessDone,
         ClearPool, ClearEvents, Quit, vars, Up
<1>3. OnePlace(t) /\ Elsewhere(t) /\ Place(t) /\ QueuesOf(t)
  BY <1>2 DEF AskOK
<1>4. ASSUME NEW c \in Conns, ProcessEventConn(c) PROVE OnePlace(t)'
  <2>1. UNCHANGED <<evs, recv, notify>> /\ toMain[c] # <<>>
    BY <1>4 DEF ProcessEventConn, Base, PoolInv
  <2>2. /\ pc[t] = "recv" /\ conn[t] = c /\ send[c] = <<Mine(t)>>
        /\ toMain[c] = <<"kRunWithMsg">> /\ asked = {} /\ Awaited(t) /\ c \in evs
    BY <1>3, <2>1 DEF OnePlace, Awaited
  <2> DEFINE requests == { i \in 1..Len(send[c]) : Asks(kind[send[c][i].thread]) }
  <2>3. /\ send' = [send EXCEPT ![c] = <<>>]
        /\ toMain' = [toMain EXCEPT ![c] = Tail(toMain[c])]
        /\ asked' = asked \cup UNION { Answers(send[c][i]) : i \in requests }
        /\ toOwner' = toOwner
    <3>1. Head(toMain[c]) # "kRun"
      BY <2>2
    <3> QED
      BY <1>4, <2>2, <3>1 DEF ProcessEventConn
  <2>4. asked' = Answers(Mine(t))
    <3>1. Len(send[c]) = 1 /\ send[c][1] = Mine(t)
      BY <2>2
    <3>2. requests = {1}
      BY <3>1 DEF Mine, Asks
    <3> HIDE DEF requests
    <3> QED
      BY <2>2, <2>3, <3>1, <3>2
  <2>5. Tail(toMain[c]) = <<>>
    BY <2>2
  <2>6. /\ send'[c] = <<>> /\ toMain'[c] = <<>>
        /\ \A d \in Conns \ {c} : send'[d] = send[d] /\ toMain'[d] = toMain[d]
    BY <2>3, <2>5 DEF Base, DataOK
  <2>7. \A d \in Conns : send'[d] = <<>> /\ toMain'[d] = <<>>
    BY <1>3, <2>2, <2>6 DEF OnePlace
  <2>8. Awaited(t)'
    BY <1>1, <2>1, <2>2, <2>3 DEF Awaited
  <2>9. asked' = Answers(Mine(t))'
    BY <1>1, <2>4 DEF Answers
  <2>10. pc'[t] = "recv" /\ conn'[t] = c
    BY <1>1, <2>2
  <2> QED
    BY <2>7, <2>8, <2>9, <2>10 DEF OnePlace
<1>5. ASSUME NEW a \in asked, NotifyRelease(a) PROVE OnePlace(t)'
  <2>1. /\ pc[t] = "recv" /\ send[conn[t]] = <<>> /\ toMain[conn[t]] = <<>>
        /\ asked = Answers(Mine(t)) /\ Awaited(t)
    BY <1>3 DEF OnePlace
  <2>2. asked = {a} /\ a.msg = Mine(t)
    BY <2>1 DEF Answers, Mine
  <2>3. a.msg.conn = conn[t] /\ conn[t] \in evs /\ conn[t] \in Conns
    <3>1. Holds(t)
      BY <2>1 DEF Holds
    <3> QED
      BY <2>1, <2>2, <3>1, BaseUsing DEF Mine, Awaited, HeldConns
  <2>4. connType[conn[t]] = "request"
    BY <1>3, <2>3 DEF QueuesOf
  <2>5. asked' = {} /\ evs' = evs \ {conn[t]} /\ UNCHANGED <<send, toMain>>
    BY <1>5, <2>2, <2>3, <2>4 DEF NotifyRelease, Del
  <2>6. ~Awaited(t)'
    BY <1>1, <2>5 DEF Awaited
  <2> QED
    BY <1>1, <1>3, <2>1, <2>5, <2>6 DEF OnePlace
<1>6. CASE NotifyAnswer
  <2>1. notify # None /\ UNCHANGED <<evs, send, toMain, asked>>
    BY <1>6 DEF NotifyAnswer
  <2>2. ~Awaited(t)
    BY <2>1 DEF Awaited
  <2>3. Asking(t) /\ Arriving(t)
    BY <1>3, <2>1, <2>2 DEF Place, Arrived
  <2>4. pc[t] = "recv"
    BY <1>3, <2>2, <2>3 DEF Asking, OnePlace
  <2>5. ~Awaited(t)'
    BY <1>1, <2>1, <2>3 DEF Arriving, Awaited
  <2> QED
    BY <1>1, <1>3, <2>1, <2>2, <2>4, <2>5 DEF OnePlace
<1>7. CASE Wait \/ NotifyReturn \/ ProcessDone \/ ClearPool \/ Quit \/ UNCHANGED vars
  <2>1. UNCHANGED <<toMain, send, asked, evs, recv, toOwner, notify>>
    BY <1>7 DEF Wait, NotifyReturn, ProcessDone, ClearPool, Quit, vars
  <2>2. Awaited(t)' <=> Awaited(t)
    BY <1>1, <2>1 DEF Awaited
  <2>3. Answers(Mine(t))' = Answers(Mine(t))
    BY <1>1 DEF Answers
  <2> QED
    BY <1>1, <1>3, <2>1, <2>2, <2>3 DEF OnePlace
<1>8. ~ClearEvents
  BY DEF ClearEvents, Up
<1> QED
  BY <1>4, <1>5, <1>6, <1>7, <1>8 DEF Main, Reply

LEMMA RequestStep ==
    ASSUME Base, AskInv, RequestInv, [Next]_vars
    PROVE  RequestInv'
<1>1. kind' = kind
  BY Others, MainStep, Steps DEF Base
<1>2. ASSUME NEW t \in Threads, kind[t] = "request", Up' PROVE OnePlace(t)'
  <2>1. AskOK(t) /\ (Up => OnePlace(t)) /\ Asks(kind[t])
    BY <1>2 DEF AskInv, RequestInv, Asks
  <2>2. CASE Main \/ Quit \/ UNCHANGED vars
    BY <1>2, <2>1, <2>2, RequestMain
  <2>3. ASSUME NEW u \in Threads, Thread(u) PROVE OnePlace(t)'
    <3>1. u = t
      BY <2>1, <2>3, OnlyAsker
    <3>2. Up
      BY <1>2, <2>3, Others DEF Base, Up
    <3> QED
      BY <1>2, <2>1, <2>3, <3>1, <3>2, RequestThread
  <2> QED
    BY <2>2, <2>3, Steps
<1> QED
  BY <1>1, <1>2 DEF RequestInv
-----------------------------------------------------------------------------
(* Commands.                                                                *)

LEMMA OneAtMost ==
    \A i, j : \/ i = 1 /\ j = 0
              \/ i = 0 /\ (j = 0 \/ j = 1)
            => i + j <= 1
  OBVIOUS

LEMMA ShortHolds == Base /\ SendInv /\ AskInv /\ RequestInv => Short
<1> SUFFICES ASSUME Base, SendInv, AskInv, RequestInv, Up,
                    \A t \in Threads : kind[t] # "twice", NEW c \in Conns
             PROVE  Len(toMain[c]) + Len(toOwner[c]) <= 1
  BY DEF Short, Up
<1>0. /\ Len(<<>>) = 0 /\ Len(<<"kRun">>) = 1 /\ Len(<<"kRunWithMsg">>) = 1
      /\ Len(<<"kIdle">>) = 1
  BY EmptySeq
<1>1. CASE NoAsker
  <2>1. Sends
    BY <1>1 DEF SendInv
  <2>2. CASE c \notin Held
    <3>1. toMain[c] = <<>> /\ toOwner[c] = <<>>
      BY <2>1, <2>2 DEF Sends, Silent
    <3> QED
      BY <1>0, <3>1
  <2>3. CASE c \in Held
    <3>1. PICK t \in Threads : Holds(t) /\ conn[t] = c
      BY <2>3, HeldDef
    <3>2. Served(t)
      BY <2>1, <3>1 DEF Sends
    <3>3. \/ toMain[c] = <<"kRun">> /\ toOwner[c] = <<>>
          \/ toMain[c] = <<>> /\ toOwner[c] = <<"kIdle">>
          \/ toMain[c] = <<>> /\ toOwner[c] = <<>>
      BY <3>1, <3>2 DEF Served, Undispatched, Dispatched, Silent
    <3>4. \/ Len(toMain[c]) = 1 /\ Len(toOwner[c]) = 0
          \/ Len(toMain[c]) = 0 /\ Len(toOwner[c]) = 1
          \/ Len(toMain[c]) = 0 /\ Len(toOwner[c]) = 0
      BY <1>0, <3>3, Zenon
    <3> QED
      BY <3>4, OneAtMost, Zenon
  <2> QED
    BY <2>2, <2>3
<1>2. CASE ~NoAsker
  <2>1. PICK t \in Threads : kind[t] = "request"
    BY <1>2 DEF NoAsker, Asks
  <2>2. OnePlace(t) /\ Elsewhere(t) /\ Place(t)
    BY <2>1 DEF RequestInv, AskInv, AskOK, Asks
  <2>3. CASE pc[t] = "recv" /\ conn[t] = c
    <3>1. \/ toMain[c] = <<"kRunWithMsg">> /\ toOwner[c] = <<>>
          \/ toMain[c] = <<>>
      BY <2>2, <2>3 DEF OnePlace, Awaited
    <3>2. toOwner[c] = <<>> \/ toOwner[c] = <<"kIdle">>
      BY <2>2, <2>3 DEF Place, Asking, Awaited, Arriving, Arrived
    <3>3. \/ Len(toMain[c]) = 1 /\ Len(toOwner[c]) = 0
          \/ Len(toMain[c]) = 0 /\ (Len(toOwner[c]) = 0 \/ Len(toOwner[c]) = 1)
      BY <1>0, <3>1, <3>2, Zenon
    <3> QED
      BY <3>3, OneAtMost, Zenon
  <2>4. CASE ~(pc[t] = "recv" /\ conn[t] = c)
    <3>1. toMain[c] = <<>>
      BY <2>2, <2>4 DEF OnePlace
    <3>2. toOwner[c] = <<>> \/ toOwner[c] = <<"kIdle">>
      <4>1. CASE Holds(t) /\ conn[t] = c
        BY <2>2, <4>1 DEF Place, Free, Awaited, Arriving, Arrived
      <4>2. CASE ~(Holds(t) /\ conn[t] = c)
        BY <2>2, <4>2 DEF Elsewhere, Free
      <4> QED
        BY <4>1, <4>2
    <3>3. \/ Len(toMain[c]) = 1 /\ Len(toOwner[c]) = 0
          \/ Len(toMain[c]) = 0 /\ (Len(toOwner[c]) = 0 \/ Len(toOwner[c]) = 1)
      BY <1>0, <3>1, <3>2, Zenon
    <3> QED
      BY <3>3, OneAtMost, Zenon
  <2> QED
    BY <2>3, <2>4
<1> QED
  BY <1>1, <1>2

-----------------------------------------------------------------------------
(* Connections that are lost.                                               *)

(* The calls of t that have lost their connection, if they lose it.         *)
Returned(t) == IF InCall(t) THEN count[t] - 1 ELSE count[t]

LEMMA LostDef ==
    /\ LostCalls \subseteq Threads \X (1..Calls)
    /\ \A t \in Threads, n \in 1..Calls :
         <<t, n>> \in LostCalls <=> kind[t] = "nowhere" /\ n <= Returned(t)
  BY DEF LostCalls, Returned

LEMMA LostDefNext ==
    /\ LostCalls' \subseteq Threads \X (1..Calls)
    /\ \A t \in Threads, n \in 1..Calls :
         <<t, n>> \in LostCalls' <=> kind'[t] = "nowhere" /\ n <= Returned(t)'
  BY DEF LostCalls, Returned

LEMMA LostSame ==
    ASSUME kind' = kind,
           \A t \in Threads : kind[t] = "nowhere" => Returned(t)' = Returned(t)
    PROVE  LostCalls' = LostCalls
<1>1. ASSUME NEW t \in Threads, NEW n \in 1..Calls
      PROVE  <<t, n>> \in LostCalls' <=> <<t, n>> \in LostCalls
  BY LostDef, LostDefNext
<1>2. \A x \in Threads \X (1..Calls) : x \in LostCalls' <=> x \in LostCalls
  BY <1>1
<1>3. LostCalls' \subseteq Threads \X (1..Calls) /\ LostCalls \subseteq Threads \X (1..Calls)
  BY LostDef, LostDefNext
<1> QED
  BY <1>2, <1>3

LEMMA Finite ==
    ASSUME DataOK
    PROVE  /\ IsFiniteSet(LostCalls) /\ Lost \in Nat
           /\ IsFiniteSet(evs) /\ IsFiniteSet(evs \ Held)
           /\ Cardinality(evs \ Held) \in Nat
           /\ IsFiniteSet(Threads) /\ Cardinality(Threads) \in Nat
<1>1. IsFiniteSet(Threads) /\ Cardinality(Threads) \in Nat
  BY ConnAssumption, FS_CardinalityType
<1>2. IsFiniteSet(1..Calls) /\ IsFiniteSet(Conns)
  BY Numbers, FS_Interval DEF Conns
<1>3. IsFiniteSet(Threads \X (1..Calls))
  BY <1>1, <1>2, FS_Product
<1>4. IsFiniteSet(LostCalls)
  BY <1>3, LostDef, FS_Subset
<1>5. evs \subseteq Conns
  BY DEF DataOK
<1>6. IsFiniteSet(evs)
  BY <1>2, <1>5, FS_Subset
<1>7. IsFiniteSet(evs \ Held)
  BY <1>6, FS_Subset
<1> QED
  BY <1>1, <1>4, <1>6, <1>7, FS_CardinalityType DEF Lost

(* A thread that holds no connection leaves fewer than one per thread held. *)
LEMMA HeldBound ==
    ASSUME NEW t \in Threads, ~Holds(t)
    PROVE  IsFiniteSet(Held) /\ Cardinality(Held) \in Nat
           /\ Cardinality(Held) <= Cardinality(Threads) - 1
<1> DEFINE H == { u \in Threads : Holds(u) }
           f == [u \in H |-> conn[u]]
<1>1. IsFiniteSet(Threads) /\ Cardinality(Threads) \in Nat
  BY ConnAssumption, FS_CardinalityType
<1>2. /\ IsFiniteSet(Threads \ {t})
      /\ Cardinality(Threads \ {t}) = Cardinality(Threads) - 1
  BY <1>1, FS_RemoveElement
<1>3. H \in SUBSET (Threads \ {t})
  OBVIOUS
<1>4. /\ IsFiniteSet(H) /\ Cardinality(H) <= Cardinality(Threads) - 1
      /\ Cardinality(H) \in Nat
  BY <1>2, <1>3, FS_Subset, FS_CardinalityType
<1>5. f \in Surjection(H, Held)
  <2>1. Held = { conn[u] : u \in H }
    BY DEF Held
  <2> HIDE DEF H
  <2>2. f \in [H -> Held] /\ \A c \in Held : \E u \in H : f[u] = c
    BY <2>1
  <2> QED
    BY <2>2 DEF Surjection
<1> HIDE DEF f, H
<1>6. IsFiniteSet(Held) /\ Cardinality(Held) <= Cardinality(H)
  BY <1>4, <1>5, FS_Surjection
<1> QED
  BY <1>1, <1>4, <1>6, FS_CardinalityType

LEMMA LostKeeps ==
    ASSUME LostInv, Serving' => Serving, made' = made,
           Serving' => evs' \ Held' = evs \ Held /\ LostCalls' = LostCalls
    PROVE  LostInv'
  BY DEF LostInv, Lost

LEMMA LostMain ==
    ASSUME Base, SendInv, AskInv, LostInv, Main \/ Quit \/ UNCHANGED vars
    PROVE  LostInv'
<1> USE DEF poolVars, connVars, threadVars, mainVars
<1>1. /\ UNCHANGED <<made, pc, conn, count, kind>>
      /\ \A u : (InCall(u)' <=> InCall(u)) /\ (Holds(u)' <=> Holds(u))
  BY MainStep
<1>2. Held' = Held /\ LostCalls' = LostCalls
  <2>1. Held' = Held
    BY <1>1 DEF Held, Holds
  <2>2. \A t \in Threads : Returned(t)' = Returned(t)
    BY <1>1 DEF Returned
  <2> QED
    BY <1>1, <2>1, <2>2, LostSame
<1>3. ASSUME NEW a \in asked, NotifyRelease(a)
      PROVE  evs' \ Held = evs \ Held /\ Serving
  <2>1. Serving /\ Up
    BY <1>3 DEF NotifyRelease, Serving, Up
  <2>2. a.msg.conn \in Conns
    BY AskedType DEF Base, Msg
  <2>3. PICK t \in Threads : Asks(kind[t])
    BY <1>3 DEF SendInv, Sends, NoAsker
  <2>4. Elsewhere(t)
    BY <2>1, <2>3 DEF AskInv, AskOK
  <2>5. a.msg.conn \in evs => a.msg.conn \in Held
    BY <2>2, <2>4, HeldDef DEF Elsewhere, Free
  <2>6. evs' = evs \/ (a.msg.conn \in evs /\ evs' = evs \ {a.msg.conn})
    BY <1>3 DEF NotifyRelease, Del
  <2> QED
    BY <2>1, <2>5, <2>6
<1>4. CASE Reply
  BY <1>1, <1>2, <1>3, <1>4, LostKeeps DEF Reply
<1>5. CASE ~Reply
  <2>1. (Serving' => Serving) /\ (Serving' => evs' = evs)
    BY <1>5 DEF Main, Wait, ProcessEventConn, NotifyReturn, NotifyAnswer, ProcessDone, ClearPool, ClearEvents,
         Quit, vars, Serving
  <2> QED
    BY <1>1, <1>2, <2>1, LostKeeps
<1> QED
  BY <1>4, <1>5

(* A connection on its way is in a call.                                    *)
LEMMA BetweenHeld ==
    ASSUME Base, SendInv, AskInv, Serving
    PROVE  Between \subseteq Held
<1> SUFFICES ASSUME NEW c \in Between PROVE c \in Held
  OBVIOUS
<1>1. CASE \E t \in Threads : pc[t] = "return" /\ conn[t] = c
  BY <1>1, HeldDef DEF Holds
<1>2. CASE mpc = "return" /\ notify.conn = c
  <2>1. notify # None /\ Up
    BY <1>2 DEF Base, PoolInv, Up
  <2>2. PICK t \in Threads : Asks(kind[t])
    BY <2>1 DEF SendInv, Sends, NoAsker
  <2>3. Arriving(t) /\ Asking(t)
    BY <2>1, <2>2 DEF AskInv, AskOK, Place, Awaited, Arrived
  <2>4. Holds(t) /\ conn[t] = c
    BY <1>2, <2>3 DEF Arriving, Asking, Holds
  <2> QED
    BY <2>4, HeldDef
<1> QED
  BY <1>1, <1>2, BetweenDef

LEMMA LostThread ==
    ASSUME Base, SendInv, AskInv, LostInv, NEW t \in Threads, Thread(t)
    PROVE  LostInv'
<1> USE DEF poolVars, connVars, threadVars, mainVars
<1>1. Using /\ HeldConns
  BY BaseUsing
<1>2. UNCHANGED <<kind, appState, mpc>> /\ (Serving' <=> Serving)
  BY Others DEF Base, Serving
<1>3. \A u \in Threads \ {t} :
        /\ pc'[u] = pc[u] /\ conn'[u] = conn[u] /\ count'[u] = count[u]
        /\ Holds(u)' <=> Holds(u)
        /\ InCall(u)' <=> InCall(u)
  BY Others DEF Base
<1>4. \A u \in Threads \ {t} : Returned(u)' = Returned(u)
  BY <1>3 DEF Returned
<1>5. ASSUME kind[t] # "nowhere" \/ Returned(t)' = Returned(t)
      PROVE  LostCalls' = LostCalls
  BY <1>2, <1>4, <1>5, LostSame
<1>6. count[t] \in Nat /\ count[t] <= Calls
  <2>1. count[t] \in 0..Calls
    BY DEF Base, DataOK
  <2> QED
    BY <2>1, Numbers
<1>7. \A c : c \in Held' <=> (Holds(t)' /\ conn'[t] = c)
                            \/ \E u \in Threads \ {t} : Holds(u) /\ conn[u] = c
  BY <1>3 DEF Held
<1>8. \A c : c \in Held <=> (Holds(t) /\ conn[t] = c)
                           \/ \E u \in Threads \ {t} : Holds(u) /\ conn[u] = c
  BY DEF Held
<1>9. ASSUME NEW u \in Threads \ {t}, Holds(u), Holds(t) PROVE conn[u] # conn[t]
  BY <1>9 DEF Base, HoldInv, ConnExclusive
<1>10. CASE Call(t)
  <2>1. /\ pc[t] = "idle" /\ pc'[t] = "alloc" /\ count'[t] = count[t] + 1
        /\ UNCHANGED <<evs, made, conn>>
    BY <1>10 DEF Call, Base, DataOK
  <2>2. ~Holds(t) /\ ~Holds(t)' /\ Returned(t)' = Returned(t)
    BY <1>6, <2>1 DEF Holds, Returned, InCall
  <2>3. Held' = Held
    BY <1>7, <1>8, <2>2
  <2> QED
    BY <1>2, <1>5, <2>1, <2>2, <2>3, LostKeeps
<1>11. CASE Alloc(t)
  <2>1. PICK c \in Conns :
          /\ c \notin evs /\ evs' = evs \cup {c} /\ conn' = [conn EXCEPT ![t] = c]
          /\ pc[t] = "alloc" /\ pc' = [pc EXCEPT ![t] = "poll"]
          /\ \/ made' = made
             \/ c = made /\ made' = made + 1 /\ idle = <<>>
    BY <1>11, AllocType DEF Base
  <2>2. conn'[t] = c /\ pc'[t] = "poll" /\ count' = count
    BY <1>11, <2>1 DEF Base, DataOK, Alloc
  <2>3. ~Holds(t) /\ Holds(t)' /\ Returned(t)' = Returned(t)
    BY <2>1, <2>2 DEF Holds, Returned, InCall
  <2>4. evs' \ Held' = evs \ Held
    BY <1>7, <1>8, <2>1, <2>2, <2>3
  <2>5. LostCalls' = LostCalls
    BY <1>5, <2>3
  <2>6. CASE made' = made
    BY <1>2, <2>4, <2>5, <2>6, LostKeeps
  <2>7. CASE c = made /\ made' = made + 1 /\ idle = <<>>
    <3> SUFFICES ASSUME Serving PROVE made + 1 <= Cardinality(Threads) + Lost
      BY <1>2, <2>4, <2>5, <2>7 DEF LostInv, Lost
    <3>1. made \in Nat
      BY MadeType DEF Base
    <3> DEFINE all == evs \cup Between
    <3>2. all = 0..made - 1
      <4>1. ToSet(idle) = {}
        BY <2>7, Nothing
      <4>2. /\ ToSet(idle) \cup evs \cup Between \subseteq 0..made - 1
            /\ 0..made - 1 \subseteq ToSet(idle) \cup evs \cup Between
        BY DEF Base, PoolInv
      <4> QED
        BY <4>1, <4>2
    <3>3. all \ Held = evs \ Held
      <4>1. Between \subseteq Held
        BY BetweenHeld
      <4> QED
        BY <4>1
    <3> HIDE DEF all
    <3>4. Cardinality(all) = made /\ IsFiniteSet(all)
      BY <3>1, <3>2, FS_Interval
    <3>5. Cardinality(evs \ Held) = made - Cardinality(all \cap Held)
      BY <3>3, <3>4, FS_Difference
    <3>6. /\ Cardinality(all \cap Held) <= Cardinality(Held)
          /\ Cardinality(all \cap Held) \in Nat
          /\ Cardinality(Held) \in Nat
          /\ Cardinality(Held) <= Cardinality(Threads) - 1
      <4>1. IsFiniteSet(Held) /\ Cardinality(Held) \in Nat
            /\ Cardinality(Held) <= Cardinality(Threads) - 1
        BY <2>3, HeldBound
      <4> QED
        BY <3>4, <4>1, FS_Intersection, FS_CardinalityType
    <3>7. Cardinality(evs \ Held) = Lost
      BY DEF LostInv
    <3>8. Lost \in Nat /\ Cardinality(Threads) \in Nat
      BY Finite DEF Base
    <3> QED
      BY <3>1, <3>5, <3>6, <3>7, <3>8
  <2> QED
    BY <2>1, <2>6, <2>7
<1>12. CASE PollAdd(t) \/ Put(t) \/ PutNowhere(t) \/ Receive(t)
            \/ (PollDel(t) /\ kind[t] = "send")
  <2>1. /\ UNCHANGED <<evs, made, conn, count>> /\ Holds(t) /\ Holds(t)'
        /\ InCall(t) /\ InCall(t)'
    BY <1>12 DEF PollAdd, Put, PutNowhere, Receive, PollDel, Holds, InCall, Base, DataOK
  <2>2. Returned(t)' = Returned(t) /\ Held' = Held
    BY <1>7, <1>8, <2>1 DEF Returned
  <2> QED
    BY <1>2, <1>5, <2>1, <2>2, LostKeeps
<1>13. CASE PollDel(t) /\ kind[t] # "send"
  <2>1. /\ UNCHANGED <<evs, made, conn, count>> /\ pc[t] = "unpoll" /\ pc'[t] = "idle"
    BY <1>13 DEF PollDel, Base, DataOK
  <2>2. /\ Holds(t) /\ ~Holds(t)' /\ InCall(t) /\ ~InCall(t)'
        /\ Returned(t) = count[t] - 1 /\ Returned(t)' = count[t] /\ count[t] > 0
        /\ kind[t] # "none"
    <3>1. Holds(t) /\ ~Holds(t)' /\ InCall(t) /\ ~InCall(t)'
      BY <2>1 DEF Holds, InCall
    <3> QED
      BY <1>1, <2>1, <3>1 DEF Returned, Using
  <2>3. Held' = Held \ {conn[t]}
    BY <1>7, <1>8, <1>9, <2>2
  <2>4. CASE Asks(kind[t])
    <3>1. Up => conn[t] \notin evs
      <4>1. ~Asking(t)
        BY <2>1 DEF Asking
      <4> QED
        BY <2>2, <2>4, <4>1 DEF AskInv, AskOK, Place, Free
    <3>2. Serving => Up
      BY DEF Serving, Up
    <3>3. LostCalls' = LostCalls
      BY <1>5, <2>4 DEF Asks
    <3> QED
      BY <1>2, <2>1, <2>3, <3>1, <3>2, <3>3, LostKeeps
  <2>5. CASE ~Asks(kind[t])
    <3>1. kind[t] = "nowhere"
      BY <1>13, <2>2, <2>5, KindType DEF Asks, Base
    <3>2. Serving => conn[t] \in evs
      BY <2>1, <2>2, <2>5 DEF Serving, Up, Base, HoldInv
    <3> SUFFICES ASSUME Serving PROVE LostInv'
      BY <1>2 DEF LostInv
    <3>3. evs' \ Held' = (evs \ Held) \cup {conn[t]} /\ conn[t] \notin evs \ Held
      BY <1>8, <2>1, <2>2, <2>3, <3>2
    <3> DEFINE x == <<t, count[t]>>
    <3>4. x \in Threads \X (1..Calls)
      BY <1>6, <2>2
    <3>5. x \notin LostCalls
      BY <1>6, <2>2, <3>4, LostDef
    <3>6. LostCalls' = LostCalls \cup {x}
      <4>1. ASSUME NEW u \in Threads, NEW n \in 1..Calls
            PROVE  <<u, n>> \in LostCalls' <=> <<u, n>> \in LostCalls \/ <<u, n>> = x
        <5>1. CASE u # t
          BY <1>2, <1>4, <5>1, LostDef, LostDefNext
        <5>2. CASE u = t
          <6>1. <<t, n>> \in LostCalls' <=> n <= count[t]
            BY <1>2, <2>2, <3>1, LostDefNext
          <6>2. <<t, n>> \in LostCalls <=> n <= count[t] - 1
            BY <2>2, <3>1, LostDef
          <6> QED
            BY <1>6, <5>2, <6>1, <6>2
        <5> QED
          BY <5>1, <5>2
      <4>2. \A y \in Threads \X (1..Calls) : y \in LostCalls' <=> y \in LostCalls \cup {x}
        BY <4>1
      <4> QED
        BY <3>4, <4>2, LostDef, LostDefNext
    <3> HIDE DEF x
    <3>7. Lost' = Lost + 1
      BY <3>5, <3>6, Finite, FS_AddElement DEF Base, Lost
    <3>8. Cardinality(evs' \ Held') = Cardinality(evs \ Held) + 1
      BY <3>3, Finite, FS_AddElement DEF Base
    <3>9. /\ Cardinality(evs \ Held) = Lost
          /\ made <= PoolSize + Lost \/ made <= Cardinality(Threads) + Lost
      BY DEF LostInv
    <3>10. /\ Lost \in Nat /\ Cardinality(Threads) \in Nat /\ PoolSize \in Nat
           /\ made \in Nat
      BY Finite, Numbers, MadeType DEF Base
    <3>11. /\ Cardinality(evs' \ Held') = Lost'
           /\ made' <= PoolSize + Lost' \/ made' <= Cardinality(Threads) + Lost'
      BY <2>1, <3>7, <3>8, <3>9, <3>10
    <3> QED
      BY <3>11 DEF LostInv
  <2> QED
    BY <2>4, <2>5
<1>14. CASE SendRelease(t) \/ SendReturn(t)
  <2>1. /\ UNCHANGED <<made, conn, count>> /\ Holds(t) /\ conn[t] \notin evs'
        /\ pc'[t] = "return" \/ pc'[t] = "idle"
        /\ evs' = evs \ {conn[t]}
    <3>1. CASE SendRelease(t)
      BY <3>1 DEF SendRelease, Del, Base, DataOK, Holds
    <3>2. CASE SendReturn(t)
      <4>1. /\ UNCHANGED <<made, conn, count, evs>> /\ pc[t] = "return"
            /\ pc'[t] = "idle"
        BY <3>2 DEF SendReturn, Base, DataOK
      <4>2. conn[t] \notin evs
        BY <4>1, InBetween DEF Base, PoolInv
      <4> QED
        BY <4>1, <4>2 DEF Holds
    <3> QED
      BY <1>14, <3>1, <3>2
  <2>2. kind[t] = "send"
    BY <1>14 DEF SendRelease, SendReturn, Base, HoldInv, Holds
  <2>3. conn[t] \in Held
    BY <1>8, <2>1
  <2>4. \A c : c \in Held' <=> c \in Held /\ (c = conn[t] => Holds(t)')
    BY <1>7, <1>8, <1>9, <2>1
  <2>5. evs' \ Held' = evs \ Held
    BY <2>1, <2>3, <2>4
  <2>6. LostCalls' = LostCalls
    BY <1>5, <2>2
  <2> QED
    BY <1>2, <2>1, <2>5, <2>6, LostKeeps
<1> QED
  BY <1>10, <1>11, <1>12, <1>13, <1>14 DEF Thread

LEMMA LostStep ==
    ASSUME Base, SendInv, AskInv, LostInv, [Next]_vars
    PROVE  LostInv'
  BY LostMain, LostThread, Steps
-----------------------------------------------------------------------------
(* The theorems.                                                            *)

LEMMA IInvParts ==
    IInv <=> /\ Base /\ Short /\ SendInv /\ DispatchInv /\ AskInv /\ RequestInv
             /\ LostInv
  BY TypeParts DEF IInv, Base

LEMMA IInvPartsNext ==
    IInv' <=> /\ Base' /\ Short' /\ SendInv' /\ DispatchInv' /\ AskInv' /\ RequestInv'
              /\ LostInv'
  BY IInvParts, PTL

LEMMA ShortNext == Base' /\ SendInv' /\ AskInv' /\ RequestInv' => Short'
  BY ShortHolds, PTL

LEMMA IInvInit ==
    ASSUME AskersAlone
    PROVE  Init => IInv
<1> SUFFICES ASSUME Init PROVE IInv
  OBVIOUS
<1>1. DataOK /\ PoolInv /\ Using
  BY TypeInit, PoolInit
<1>2. /\ \A t \in Threads : /\ pc[t] = "idle" /\ ~Holds(t) /\ ~InCall(t)
                            /\ count[t] = 0
      /\ evs = {} /\ asked = {} /\ notify = None /\ dispatched = <<>>
  BY DEF Init, Holds, InCall
<1>3. \A c \in Conns : /\ connType[c] = "request" /\ send[c] = <<>> /\ recv[c] = <<>>
                       /\ toMain[c] = <<>> /\ toOwner[c] = <<>>
  BY DEF Init
<1>4. Alone
  BY DEF Init, AskersAlone, Alone
<1>5. HoldInv
  BY <1>1, <1>2 DEF HoldInv, ConnExclusive
<1>6. SendInv
  BY <1>2, <1>3 DEF SendInv, Sends, Silent
<1>7. DispatchInv
  <2>1. Len(dispatched) = 0 /\ ToSet(dispatched) = {}
    BY <1>2, Nothing, EmptySeq
  <2>2. \A i \in 1..Len(dispatched) : FALSE
    BY <2>1
  <2>3. \A t \in Threads : \A n \in 1..count[t] : FALSE
    BY <1>2
  <2> QED
    BY <2>1, <2>2, <2>3 DEF DispatchInv
<1>8. AskInv
  <2> SUFFICES ASSUME NEW t \in Threads PROVE AskOK(t)
    BY DEF AskInv
  <2>1. QueuesOf(t)
    BY <1>3, Nothing DEF QueuesOf
  <2>2. AnswersOf(t) /\ Elsewhere(t) /\ Place(t) /\ Answered(t)
    BY <1>2, <1>3 DEF AnswersOf, Elsewhere, Free, Place, Asking, Answered
  <2> QED
    BY <2>1, <2>2 DEF AskOK
<1>9. RequestInv
  BY <1>2, <1>3 DEF RequestInv, OnePlace
<1>10. LostInv
  <2>1. LostCalls = {}
    <3>1. \A t \in Threads, n \in 1..Calls : <<t, n>> \notin LostCalls
      <4> SUFFICES ASSUME NEW t \in Threads, NEW n \in 1..Calls, n <= Returned(t)
                   PROVE  FALSE
        BY LostDef
      <4>1. Returned(t) = 0
        BY <1>2 DEF Returned
      <4> QED
        BY <4>1
    <3> QED
      BY <3>1, LostDef
  <2>2. evs \ Held = {}
    BY <1>2
  <2>3. Cardinality(evs \ Held) = 0 /\ Lost = 0
    BY <2>1, <2>2, FS_EmptySet DEF Lost
  <2>4. made = PoolSize /\ PoolSize \in Nat
    BY Numbers DEF Init
  <2> QED
    BY <2>3, <2>4 DEF LostInv
<1> QED
  BY <1>1, <1>4, <1>5, <1>6, <1>7, <1>8, <1>9, <1>10, ShortHolds, IInvParts DEF Base

LEMMA IInvStep == IInv /\ [Next]_vars => IInv'
<1> SUFFICES ASSUME IInv, [Next]_vars PROVE IInv'
  OBVIOUS
<1>1. Base /\ SendInv /\ DispatchInv /\ AskInv /\ RequestInv /\ LostInv
  BY IInvParts
<1>2. DataOK' /\ PoolInv'
  BY <1>1, BaseUsing, DataStep, PoolStep DEF Base
<1>3. Alone'
  <2>1. kind' = kind
    BY <1>1, Others, MainStep, Steps DEF Base
  <2> QED
    BY <1>1, <2>1 DEF Base, Alone
<1>4. Base'
  BY <1>1, <1>2, <1>3, HoldStep DEF Base
<1>5. SendInv' /\ DispatchInv' /\ AskInv' /\ RequestInv' /\ LostInv'
  BY <1>1, SendStep, DispatchStep, AskStep, RequestStep, LostStep
<1> QED
  BY <1>4, <1>5, ShortNext, IInvPartsNext

(* The inductive invariant, when a thread that calls SendRequest is the     *)
(* only one to use event connections.                                       *)
THEOREM IInvHolds ==
    ASSUME AskersAlone
    PROVE  Spec => []IInv
<1>1. Init => IInv
  BY IInvInit
<1>2. IInv /\ [Next]_vars => IInv'
  BY IInvStep
<1> QED
  BY <1>1, <1>2, PTL DEF Spec

(* Every variable stays in its type, and until the shutdown the command     *)
(* channel of a connection holds one command at most, if requests are       *)
(* answered once.                                                           *)
THEOREM TypeCorrect ==
    ASSUME AskersAlone
    PROVE  Spec => []TypeOK
<1>1. IInv => TypeOK
  BY DEF IInv
<1> QED
  BY <1>1, IInvHolds, PTL

(* Alloc never gives a connection that another call still uses, although    *)
(* connections have no lock.                                                *)
THEOREM ConnectionsAreExclusive ==
    ASSUME AskersAlone
    PROVE  Spec => []ConnExclusive
<1>1. IInv => ConnExclusive
  BY DEF IInv, HoldInv
<1> QED
  BY <1>1, IInvHolds, PTL

(* Send returns after its message was dispatched, and a thread's messages   *)
(* are dispatched once each, in the order of its calls.                     *)
THEOREM SendsAreDispatched ==
    ASSUME AskersAlone
    PROVE  Spec => []SendsDispatched
<1>1. IInv => SendsDispatched
  <2> SUFFICES ASSUME IInv PROVE SendsDispatched
    OBVIOUS
  <2>1. Ordered /\ \A t \in Threads : kind[t] = "send" => Kept(t)
    BY DispatchDef DEF IInv
  <2>2. ASSUME NEW t \in Threads, kind[t] = "send", pc[t] \in {"alloc", "poll", "put"},
               NEW m \in ToSet(dispatched), m.thread = t
        PROVE  m.n < count[t]
    <3>1. ~WasSent(t)
      BY <2>2 DEF WasSent
    <3>2. m.n <= count[t] /\ m.n # count[t]
      BY <2>1, <2>2, <3>1 DEF Kept
    <3>3. count[t] \in 0..Calls /\ m.n \in Nat
      BY DispatchedData DEF IInv, TypeOK, DataOK, AskedOK
    <3> QED
      BY <3>2, <3>3, Numbers
  <2>3. ASSUME NEW t \in Threads, kind[t] = "send", pc[t] \in {"unpoll", "release", "return"}, Up,
               NEW n \in 1..count[t]
        PROVE  \E m \in ToSet(dispatched) : m.thread = t /\ m.n = n
    BY <2>1, <2>3 DEF Kept, WasSent
  <2> QED
    BY <2>1, <2>2, <2>3 DEF SendsDispatched, Ordered, Up
<1> QED
  BY <1>1, IInvHolds, PTL

(* SendRequest returns an answer, to a message of the same thread; and the  *)
(* answer to this very call unless an earlier one was answered twice.       *)
THEOREM AnswersAreMine ==
    ASSUME AskersAlone
    PROVE  Spec => []AnswerIsMine
<1>1. IInv => AnswerIsMine
  <2> SUFFICES ASSUME IInv, NEW t \in Threads, Asks(kind[t]), pc[t] = "unpoll", Up
               PROVE  /\ answer[t] # None
                      /\ answer[t].thread = t
                      /\ answer[t].n # count[t] =>
                             /\ kind[t] = "twice"
                             /\ answer[t].n < count[t] /\ answer[t].conn = conn[t]
    BY DEF AnswerIsMine, Up
  <2>1. Answered(t)
    BY DEF IInv, AskInv, AskOK
  <2>2. answer[t] \in Msg /\ IsOf(t, answer[t]) /\ answer[t].conn = conn[t]
    BY <2>1 DEF Answered
  <2>3. answer[t].n \in Int /\ answer[t] # None
    BY <2>2, Numbers DEF Msg
  <2>4. count[t] \in 0..Calls
    BY DEF IInv, TypeOK
  <2>5. answer[t].n # count[t] => answer[t].n < count[t]
    BY <2>2, <2>3, <2>4, Numbers DEF IsOf
  <2> QED
    BY <2>2, <2>3, <2>5 DEF IsOf, Asks
<1> QED
  BY <1>1, IInvHolds, PTL

(* No connection is lost but by a call without a destination, one each, and *)
(* the pool grows only to make up for those or to have one connection per   *)
(* thread.                                                                  *)
THEOREM PoolIsExact ==
    ASSUME AskersAlone
    PROVE  Spec => []PoolExact
<1>1. IInv => PoolExact
  BY DEF IInv, PoolInv, LostInv, Serving, PoolExact
<1> QED
  BY <1>1, IInvHolds, PTL

=============================================================================
