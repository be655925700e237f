--------------------------- MODULE LifecycleProof ---------------------------
(****************************************************************************)
(* Proofs about Lifecycle, for any program of the host, any number of       *)
(* workers and of threads that call Quit: which threads are joined, when    *)
(* an actor is serial, what the types are, and that the messages which      *)
(* Init hooks send are delivered, in order, to their receivers and to the   *)
(* node.  The last is proved from the invariant Loading of Lifecycle, which *)
(* says of each pair of sender and receiver where its messages are: in the  *)
(* mailbox, in the cache of Exec, or nowhere yet.                           *)
(****************************************************************************)
EXTENDS Lifecycle, MailboxProof, FiniteSetTheorems

-----------------------------------------------------------------------------
(* The threads of workers.                                                  *)

(* What most steps do: neither a worker nor the loop of Exec is concerned.  *)
Elsewhere ==
    /\ UNCHANGED <<evs, stopped, thread>>
    /\ Looping' = Looping
    /\ mpc = "join" => mpc' = "join"

LEMMA HostElsewhere == ASSUME Host PROVE Elsewhere
<1>1. /\ UNCHANGED workerVars
      /\ mpc' = mpc \/ (mpc = "off" /\ mpc' = "check")
  BY DEF Host, AddBegin, AddTable, AddDispatch, CallExec
<1> QED
  BY <1>1 DEF workerVars, Elsewhere, Looping

LEMMA QuitElsewhere == ASSUME NEW c \in Callers, Quit(c) PROVE Elsewhere
BY DEF Quit, QuitCheck, QuitStore, StopAllWorker, workerVars, Elsewhere, Looping

LEMMA ArriveElsewhere == ASSUME NEW n \in Names, Arrive(n) PROVE Elsewhere
BY DEF Arrive, workerVars, Elsewhere, Looping

LEMMA ExecElsewhere ==
    ASSUME \/ ExecCheck \/ ExecStore \/ DispatchCache
           \/ \E i \in Items : Assign(i) \/ ProcessWorkerEvent(i)
    PROVE  Elsewhere
BY DEF ExecCheck, ExecStore, DispatchCache, Assign, ProcessWorkerEvent, workerVars,
   Elsewhere, Looping

LEMMA IdleElsewhere == ASSUME Idle \/ UNCHANGED vars PROVE Elsewhere
BY DEF Idle, vars, Elsewhere, Looping

LEMMA ElsewhereKeeps ==
    ASSUME ThreadInv, Elsewhere
    PROVE  ThreadInv' /\ \A w \in Workers : Kept(w) => Kept(w)'
BY DEF ThreadInv, Elsewhere, Kept, Looping

(* A worker goes on: from its registration on it is in evs, from the count  *)
(* on the loop waits for it.                                                *)
LEMMA WorkerKeeps ==
    ASSUME ThreadInv, NEW v \in Workers, AddWorkerCheck(v) \/ WorkerThread(v)
    PROVE  ThreadInv' /\ \A w \in Workers : Kept(w) => Kept(w)'
<1>1. mpc' = mpc /\ stopped' = stopped
  BY DEF AddWorkerCheck, WorkerThread, AddWorkerRegister, AddWorkerCount, Start,
     WorkerEnds, WorkerStep
<1>2. \/ \E to \in {"checked", "refused"} :
            thread[v] = "new" /\ thread' = [thread EXCEPT ![v] = to] /\ evs' = evs
      \/ /\ thread[v] = "checked" /\ thread' = [thread EXCEPT ![v] = "registered"]
         /\ evs' = evs \cup {v}
      \/ /\ thread[v] = "registered" /\ thread' = [thread EXCEPT ![v] = "counted"]
         /\ evs' = evs
      \/ /\ thread[v] = "counted" /\ thread' = [thread EXCEPT ![v] = "started"]
         /\ evs' = evs
      \/ /\ thread[v] = "started" /\ thread' = [thread EXCEPT ![v] = "ended"]
         /\ evs' = evs
  BY DEF AddWorkerCheck, WorkerThread, AddWorkerRegister, AddWorkerCount, Start,
     WorkerEnds, WorkerStep
<1> QED
  BY <1>1, <1>2 DEF ThreadInv, Kept, Looping

LEMMA DelKeeps ==
    ASSUME ThreadInv, NEW v \in Workers, Del(v)
    PROVE  ThreadInv' /\ \A w \in Workers : Kept(w) => Kept(w)'
BY DEF ThreadInv, Del, Kept, Looping

(* The loop ends when no worker is counted.                                 *)
LEMMA LoopEndKeeps ==
    ASSUME ThreadInv, LoopEnd
    PROVE  ThreadInv' /\ \A w \in Workers : Kept(w) => Kept(w)'
<1> DEFINE counted == { w \in evs : thread[w] # "registered" }
<1>1. IsFiniteSet(counted)
  BY FS_Subset, LifeAssumption DEF ThreadInv, Workers
<1>2. counted = {}
  BY <1>1, FS_EmptySet DEF LoopEnd, WorkerSize
<1>3. /\ mpc' = "join" /\ evs' = evs /\ stopped' = stopped /\ thread' = thread
  BY DEF LoopEnd, workerVars
<1> QED
  BY <1>2, <1>3 DEF ThreadInv, Kept, Looping

(* What is stopped is joined.                                               *)
LEMMA JoinKeeps ==
    ASSUME ThreadInv, Join
    PROVE  ThreadInv' /\ \A w \in Workers : Kept(w) => Kept(w)'
BY DEF ThreadInv, Join, Kept, Looping

LEMMA ClearKeeps ==
    ASSUME ThreadInv, Clear
    PROVE  ThreadInv' /\ \A w \in Workers : Kept(w) => Kept(w)'
BY DEF ThreadInv, Clear, Kept, Looping

LEMMA ThreadNext ==
    ASSUME ThreadInv, [Next]_vars
    PROVE  ThreadInv' /\ \A w \in Workers : Kept(w) => Kept(w)'
<1>1. CASE Host
  BY <1>1, HostElsewhere, ElsewhereKeeps
<1>2. CASE \E c \in Callers : Quit(c)
  BY <1>2, QuitElsewhere, ElsewhereKeeps
<1>3. CASE \E n \in Names : Arrive(n)
  BY <1>3, ArriveElsewhere, ElsewhereKeeps
<1>4. CASE \/ ExecCheck \/ ExecStore \/ DispatchCache
           \/ \E i \in Items : Assign(i) \/ ProcessWorkerEvent(i)
  BY <1>4, ExecElsewhere, ElsewhereKeeps
<1>5. CASE \E w \in Workers : Del(w)
  BY <1>5, DelKeeps
<1>6. CASE LoopEnd
  BY <1>6, LoopEndKeeps
<1>7. CASE Join
  BY <1>7, JoinKeeps
<1>8. CASE Clear
  BY <1>8, ClearKeeps
<1>9. CASE \E w \in Workers : AddWorkerCheck(w) \/ WorkerThread(w)
  BY <1>9, WorkerKeeps
<1>10. CASE Idle \/ UNCHANGED vars
  BY <1>10, IdleElsewhere, ElsewhereKeeps
<1> QED
  BY <1>1, <1>2, <1>3, <1>4, <1>5, <1>6, <1>7, <1>8, <1>9, <1>10 DEF Next, Exec

LEMMA ThreadInit == ASSUME Init PROVE ThreadInv
BY DEF Init, ThreadInv, Looping, Workers

(* Until the loop of Exec ends, the main thread knows every worker whose    *)
(* thread runs, so that Quit and the loop can wait for it.                  *)
THEOREM RunningThreadsAreKnown == Spec => []ThreadInv
<1>1. Init => ThreadInv
  BY ThreadInit
<1>2. ThreadInv /\ [Next]_vars => ThreadInv'
  BY ThreadNext
<1> QED
  BY <1>1, <1>2, PTL DEF Spec

(* A worker that was registered and counted while Exec was looping, or      *)
(* before, is joined when Exec returns, whoever called Quit and whenever.   *)
THEOREM NoThreadIsLeft == Spec => NoThreadLeft
<1>1. ASSUME NEW w \in Workers
      PROVE  Spec => [](mpc \in {"off", "loop"} /\ thread[w] \in {"counted", "started"}
                         => [](mpc = "done" => thread[w] = "joined"))
  <2>1. ThreadInv /\ mpc \in {"off", "loop"} /\ thread[w] \in {"counted", "started"}
          => Kept(w)
    BY <1>1 DEF ThreadInv, Kept, Looping
  <2>2. ThreadInv /\ [Next]_vars => (Kept(w) => Kept(w)')
    BY <1>1, ThreadNext
  <2>3. Kept(w) => (mpc = "done" => thread[w] = "joined")
    BY DEF Kept, Looping
  <2> QED
    BY <2>1, <2>2, <2>3, RunningThreadsAreKnown, PTL DEF Spec
<1> QED
  BY <1>1 DEF NoThreadLeft

-----------------------------------------------------------------------------
(* Actors.                                                                  *)

LEMMA FlagInit == ASSUME Init PROVE FlagInv
BY DEF Init, FlagInv

(* Steps that give no actor to a worker and take none back.                 *)
Resting ==
    /\ UNCHANGED <<prog, running, executing>>
    /\ mpc' = "off" => mpc = "off"
    /\ hpc' \in {"table", "dispatch"} => mpc' = "off"

LEMMA RestingKeeps == ASSUME FlagInv, Resting PROVE FlagInv'
BY DEF FlagInv, Resting, Items

LEMMA HostKeepsFlag == ASSUME ~Late, FlagInv, Host PROVE FlagInv'
<1>1. CASE AddBegin
  BY <1>1, RestingKeeps DEF AddBegin, MayAdd, runVars, Resting
<1>2. CASE AddTable
  BY <1>2, RestingKeeps DEF AddTable, runVars, Resting, FlagInv
<1>3. CASE AddDispatch
  <2>1. mpc = "off" /\ mpc' = mpc /\ hpc' = "add" /\ prog' = prog /\ executing' = executing
    BY <1>3 DEF AddDispatch, FlagInv
  <2>2. running' = [running EXCEPT ![pos] = FALSE]
    BY <1>3 DEF AddDispatch
  <2> QED
    BY <2>1, <2>2 DEF FlagInv, Items
<1>4. CASE CallExec
  BY <1>4, RestingKeeps DEF CallExec, runVars, Resting, FlagInv
<1> QED
  BY <1>1, <1>2, <1>3, <1>4 DEF Host

LEMMA QuitKeepsFlag ==
    ASSUME FlagInv, NEW c \in Callers, Quit(c)
    PROVE  FlagInv'
<1>1. Resting
  BY DEF Quit, QuitCheck, QuitStore, StopAllWorker, runVars, Resting, FlagInv
<1> QED
  BY <1>1, RestingKeeps

LEMMA WorkerKeepsFlag ==
    ASSUME FlagInv, NEW w \in Workers, AddWorkerCheck(w) \/ WorkerThread(w)
    PROVE  FlagInv'
<1>1. Resting
  BY DEF AddWorkerCheck, WorkerThread, AddWorkerRegister, AddWorkerCount, Start,
     WorkerEnds, WorkerStep, runVars, Resting, FlagInv
<1> QED
  BY <1>1, RestingKeeps

LEMMA ExecKeepsFlag ==
    ASSUME FlagInv,
           \/ ExecCheck \/ ExecStore \/ DispatchCache \/ LoopEnd \/ Join \/ Clear
           \/ \E w \in Workers : Del(w)
           \/ \E n \in Names : Arrive(n)
    PROVE  FlagInv'
<1>1. Resting
  BY DEF ExecCheck, ExecStore, DispatchCache, LoopEnd, Join, Clear, Del, Arrive,
     runVars, Resting, FlagInv
<1> QED
  BY <1>1, RestingKeeps

LEMMA AssignKeepsFlag ==
    ASSUME FlagInv, NEW i \in Items, Assign(i)
    PROVE  FlagInv'
BY DEF FlagInv, Assign, Items

LEMMA EventKeepsFlag ==
    ASSUME FlagInv, NEW i \in Items, ProcessWorkerEvent(i)
    PROVE  FlagInv'
BY DEF FlagInv, ProcessWorkerEvent, Items

(* While the host adds no actor once it called Exec, two workers never      *)
(* execute the same actor: AddActor beside Exec is the only way to clear    *)
(* the running flag of an actor that is executed (lifecycle_late).          *)
THEOREM SerialUnlessLate ==
    ASSUME ~Late
    PROVE  Spec => []SerialActor
<1>1. Init => FlagInv
  BY FlagInit
<1>2. FlagInv /\ [Next]_vars => FlagInv'
  <2> SUFFICES ASSUME FlagInv, [Next]_vars PROVE FlagInv'
    OBVIOUS
  <2>1. CASE \E i \in Items : Assign(i) \/ ProcessWorkerEvent(i)
    BY <2>1, AssignKeepsFlag, EventKeepsFlag
  <2>2. CASE Idle \/ UNCHANGED vars
    BY <2>2 DEF Idle, vars, FlagInv, Items
  <2> QED
    BY <2>1, <2>2, HostKeepsFlag, QuitKeepsFlag, WorkerKeepsFlag, ExecKeepsFlag
    DEF Next, Exec
<1>3. FlagInv => SerialActor
  BY DEF FlagInv, SerialActor
<1> QED
  BY <1>1, <1>2, <1>3, PTL DEF Spec

-----------------------------------------------------------------------------
(* Lists of lists, one behind the other.                                    *)

(* What the recursion of FlattenSeq says, up to the m-th list.              *)
Flattens(q, f, m) ==
    \A k \in 1..m : f[k] = IF k = 1 THEN q[k] ELSE f[k - 1] \o q[k]

LEMMA FlatteningExists ==
    ASSUME NEW q, NEW m \in Nat
    PROVE  \E f : f = [k \in 1..m |-> f[k]] /\ Flattens(q, f, m)
<1> DEFINE Has(n) == \E f : f = [k \in 1..n |-> f[k]] /\ Flattens(q, f, n)
           P == { n \in Nat : Has(n) }
<1>1. 0 \in P
  <2> DEFINE f == [k \in 1..0 |-> <<>>]
  <2>1. f = [k \in 1..0 |-> f[k]]
    OBVIOUS
  <2> HIDE DEF f
  <2>2. \A k \in 1..0 : FALSE
    OBVIOUS
  <2>3. Flattens(q, f, 0)
    BY <2>2 DEF Flattens
  <2>4. \E h : h = [k \in 1..0 |-> h[k]] /\ Flattens(q, h, 0)
    BY <2>1, <2>3
  <2>5. 0 \in Nat
    OBVIOUS
  <2> QED
    BY <2>4, <2>5
<1>2. ASSUME NEW n \in Nat, n \in P PROVE n + 1 \in P
  <2>1. PICK f : f = [k \in 1..n |-> f[k]] /\ Flattens(q, f, n)
    BY <1>2
  <2> DEFINE x == IF n = 0 THEN q[n + 1] ELSE f[n] \o q[n + 1]
             g == [k \in 1..n + 1 |-> IF k = n + 1 THEN x ELSE f[k]]
  <2> HIDE DEF x
  <2>2. g[n + 1] = x /\ \A k \in 1..n : g[k] = f[k]
    OBVIOUS
  <2> USE DEF x
  <2>3. ASSUME NEW k \in 1..n + 1
        PROVE  g[k] = IF k = 1 THEN q[k] ELSE g[k - 1] \o q[k]
    <3>1. CASE k = n + 1
      <4>1. CASE n = 0
        BY <2>2, <3>1, <4>1
      <4>2. CASE n # 0
        <5>1. k # 1 /\ k - 1 = n /\ g[n] = f[n]
          BY <2>2, <3>1, <4>2
        <5> QED
          BY <2>2, <3>1, <4>2, <5>1
      <4> QED
        BY <4>1, <4>2
    <3>2. CASE k # n + 1
      <4>1. k \in 1..n /\ (k # 1 => k - 1 \in 1..n)
        BY <3>2
      <4>2. f[k] = IF k = 1 THEN q[k] ELSE f[k - 1] \o q[k]
        BY <2>1, <4>1 DEF Flattens
      <4>3. g[k] = f[k] /\ (k # 1 => g[k - 1] = f[k - 1])
        BY <2>2, <4>1
      <4> HIDE DEF g
      <4> QED
        BY <4>2, <4>3
    <3> QED
      BY <3>1, <3>2
  <2>4. g = [k \in 1..n + 1 |-> g[k]]
    OBVIOUS
  <2> HIDE DEF g
  <2>5. Flattens(q, g, n + 1)
    BY <2>3 DEF Flattens
  <2> QED
    BY <2>4, <2>5
<1> HIDE DEF P
<1>3. m \in P
  BY <1>1, <1>2, InductNat
<1> QED
  BY <1>3 DEF P

LEMMA FlattenSeqDef ==
    ASSUME NEW q, Len(q) \in Nat
    PROVE  \E f : /\ Flattens(q, f, Len(q))
                  /\ FlattenSeq(q) = IF Len(q) = 0 THEN q ELSE f[Len(q)]
<1> DEFINE Is(f) == f = [k \in 1..Len(q) |->
                           IF k = 1 THEN q[k] ELSE f[k - 1] \o q[k]]
           c == CHOOSE f : Is(f)
<1>1. PICK f : f = [k \in 1..Len(q) |-> f[k]] /\ Flattens(q, f, Len(q))
  BY FlatteningExists
<1>2. Is(f)
  BY <1>1 DEF Flattens
<1>3. Is(c)
  BY <1>2
<1>4. FlattenSeq(q) = IF Len(q) = 0 THEN q ELSE c[Len(q)]
  BY DEF FlattenSeq
<1> HIDE DEF c
<1>5. Flattens(q, c, Len(q))
  BY <1>3 DEF Flattens
<1> QED
  BY <1>4, <1>5

LEMMA FlattenEmpty == FlattenSeq(<<>>) = <<>>
<1>1. Len(<<>>) = 0
  BY EmptySeq
<1> QED
  BY <1>1, FlattenSeqDef

LEMMA FlattenAppend ==
    ASSUME NEW T, NEW q \in Seq(Seq(T)), NEW x \in Seq(T)
    PROVE  FlattenSeq(Append(q, x)) = FlattenSeq(q) \o x
<1> DEFINE n == Len(q)
           t == Append(q, x)
           L == Len(t)
<1>1. /\ n \in Nat /\ L = n + 1 /\ t[n + 1] = x
      /\ \A i \in 1..n : t[i] = q[i]
  BY AppendProperties, LenProperties
<1>2. PICK f : /\ Flattens(q, f, n)
               /\ FlattenSeq(q) = IF n = 0 THEN q ELSE f[n]
  BY <1>1, FlattenSeqDef
<1>3. PICK g : /\ Flattens(t, g, L)
               /\ FlattenSeq(t) = IF L = 0 THEN t ELSE g[L]
  <2>1. L \in Nat
    BY <1>1
  <2> QED
    BY <2>1, FlattenSeqDef
<1>4. CASE n = 0
  <2>1. q = <<>>
    BY <1>4, EmptySeq
  <2>2. FlattenSeq(q) = <<>>
    BY <2>1, FlattenEmpty
  <2>3. <<>> \o x = x
    BY ConcatEmptySeq
  <2>4. g[1] = t[1] /\ L = 1 /\ t[1] = x
    <3> HIDE DEF t, n, L
    <3> QED
      BY <1>1, <1>3, <1>4 DEF Flattens
  <2> HIDE DEF t, n, L
  <2>5. FlattenSeq(t) = x
    BY <1>3, <2>4
  <2> QED
    BY <2>2, <2>3, <2>5 DEF t
<1>5. CASE n # 0
  <2> HIDE DEF n, t, L
  <2> DEFINE P == { k \in Nat : k + 1 <= n => g[k + 1] = f[k + 1] }
  <2>1. 0 \in P
    <3>1. 1 \in 1..n /\ 1 \in 1..L /\ t[1] = q[1]
      BY <1>1, <1>5
    <3>2. f[1] = q[1] /\ g[1] = t[1]
      BY <1>2, <1>3, <3>1 DEF Flattens
    <3> QED
      BY <3>1, <3>2
  <2>2. ASSUME NEW k \in Nat, k \in P PROVE k + 1 \in P
    <3> DEFINE j == k + 2
    <3>0. j \in Nat /\ j - 1 = k + 1 /\ (k + 1) + 1 = j /\ k + 1 \in Nat
      OBVIOUS
    <3> HIDE DEF j
    <3>1. ASSUME j <= n PROVE g[j] = f[j]
      <4>1. j \in 1..n /\ j \in 1..L /\ j # 1 /\ j - 1 <= n
        BY <1>1, <3>0, <3>1
      <4>2. f[j] = f[j - 1] \o q[j] /\ g[j] = g[j - 1] \o t[j]
        BY <1>2, <1>3, <4>1 DEF Flattens
      <4>3. g[j - 1] = f[j - 1]
        BY <2>2, <3>0, <4>1
      <4> QED
        BY <1>1, <4>1, <4>2, <4>3
    <3> QED
      BY <3>0, <3>1
  <2> HIDE DEF P
  <2>3. Nat \subseteq P
    BY <2>1, <2>2, InductNat
  <2>4. n - 1 \in Nat /\ (n - 1) + 1 = n
    BY <1>1, <1>5
  <2>5. g[n] = f[n]
    <3>1. n - 1 \in P
      BY <2>3, <2>4
    <3>2. n <= n
      BY <1>1
    <3> QED
      BY <2>4, <3>1, <3>2 DEF P
  <2>6. g[L] = g[n] \o x
    <3>1. L \in 1..L /\ L # 1 /\ L - 1 = n /\ t[L] = x
      BY <1>1, <1>5
    <3> QED
      BY <1>3, <3>1 DEF Flattens
  <2>7. FlattenSeq(t) = g[L]
    BY <1>1, <1>3
  <2>8. FlattenSeq(q) = f[n]
    BY <1>2, <1>5
  <2>9. FlattenSeq(t) = FlattenSeq(q) \o x
    BY <2>5, <2>6, <2>7, <2>8
  <2> QED
    BY <2>9 DEF t
<1> QED
  BY <1>4, <1>5

(* Each element x of a list replaced by the list F[x].                      *)
Spread(F, q) == FlattenSeq(MapOf(F, q))

LEMMA SpreadEmpty == ASSUME NEW F PROVE Spread(F, <<>>) = <<>>
<1>1. MapOf(F, <<>>) = <<>>
  BY EmptySeq DEF MapOf
<1> QED
  BY <1>1, FlattenEmpty DEF Spread

LEMMA SpreadAppend ==
    ASSUME NEW T, NEW F \in [T -> Seq(T)], NEW q \in Seq(T), NEW x \in T
    PROVE  Spread(F, Append(q, x)) = Spread(F, q) \o F[x]
<1>1. MapOf(F, Append(q, x)) = Append(MapOf(F, q), F[x])
  BY MapAppend
<1>2. Image(F, T) \subseteq Seq(T)
  BY DEF Image
<1>3. MapOf(F, q) \in Seq(Seq(T))
  <2>1. \A i \in 1..Len(q) : q[i] \in T
    BY ElementOfSeq
  <2>2. \A i \in 1..Len(q) : F[q[i]] \in Seq(T)
    BY <2>1
  <2>3. Len(q) \in Nat
    BY LenProperties
  <2> QED
    BY <2>2, <2>3, IsASeq DEF MapOf
<1>4. FlattenSeq(Append(MapOf(F, q), F[x])) = FlattenSeq(MapOf(F, q)) \o F[x]
  <2>1. F[x] \in Seq(T)
    OBVIOUS
  <2> QED
    BY <1>3, <2>1, FlattenAppend
<1> QED
  BY <1>1, <1>4 DEF Spread

LEMMA SpreadType ==
    ASSUME NEW T, NEW F \in [T -> Seq(T)], NEW q \in Seq(T)
    PROVE  Spread(F, q) \in Seq(T)
<1> DEFINE P == { s \in Seq(T) : Spread(F, s) \in Seq(T) }
<1>1. <<>> \in P
  BY SpreadEmpty, EmptySeq
<1>2. ASSUME NEW s \in Seq(T), NEW x \in T, s \in P
      PROVE  Append(s, x) \in P
  <2>1. Append(s, x) \in Seq(T)
    BY AppendProperties
  <2>2. Spread(F, Append(s, x)) = Spread(F, s) \o F[x]
    BY SpreadAppend
  <2>3. Spread(F, s) \in Seq(T) /\ F[x] \in Seq(T)
    BY <1>2
  <2>4. Spread(F, s) \o F[x] \in Seq(T)
    BY <2>3, ConcatProperties
  <2> QED
    BY <2>1, <2>2, <2>4
<1> HIDE DEF P
<1>3. q \in P
  BY <1>1, <1>2, InductSeq
<1> QED
  BY <1>3 DEF P

(* F puts the elements of A into S, and nothing else.                       *)
Puts(F, T, A, S) ==
    /\ F \in [T -> Seq(T)]
    /\ \A x \in T : Only(F[x], S) = IF x \in A THEN <<x>> ELSE <<>>

LEMMA OnlySpread ==
    ASSUME NEW T, NEW F, NEW q \in Seq(T), NEW S, NEW A, Puts(F, T, A, S)
    PROVE  Only(Spread(F, q), S) = Only(q, A)
<1> DEFINE P == { s \in Seq(T) : Only(Spread(F, s), S) = Only(s, A) }
<1>0. /\ F \in [T -> Seq(T)]
      /\ \A x \in T : Only(F[x], S) = IF x \in A THEN <<x>> ELSE <<>>
  BY DEF Puts
<1>1. <<>> \in P
  BY SpreadEmpty, EmptySeq, OnlyEmpty
<1>2. ASSUME NEW s \in Seq(T), NEW x \in T, s \in P
      PROVE  Append(s, x) \in P
  <2> DEFINE p == Spread(F, s)
             o == Only(s, A)
  <2>1. Append(s, x) \in Seq(T) /\ o \in Seq(T) /\ p \in Seq(T) /\ F[x] \in Seq(T)
    BY <1>0, AppendProperties, OnlyType, SpreadType
  <2>2. Spread(F, Append(s, x)) = p \o F[x]
    BY <1>0, SpreadAppend
  <2>3. Only(Append(s, x), A) = IF x \in A THEN Append(o, x) ELSE o
    BY OnlyAppend
  <2>4. Append(o, x) = o \o <<x>> /\ o \o <<>> = o
    BY <2>1, AppendIsConcat, ConcatEmptySeq
  <2>5. Only(p, S) = o
    BY <1>2
  <2> HIDE DEF p, o
  <2>6. Only(p \o F[x], S) = Only(p, S) \o Only(F[x], S)
    <3> DEFINE y == F[x]
    <3>1. p \in Seq(T) /\ y \in Seq(T)
      BY <2>1
    <3> HIDE DEF y
    <3>2. Splits(p, y, S)
      BY <3>1, OnlySplits
    <3> QED
      BY <3>2, Zenon DEF y, Splits
  <2>7. Only(F[x], S) = IF x \in A THEN <<x>> ELSE <<>>
    BY <1>0
  <2>8. Only(Spread(F, Append(s, x)), S) = Only(Append(s, x), A)
    BY <2>2, <2>3, <2>4, <2>5, <2>6, <2>7
  <2> QED
    BY <2>1, <2>8
<1> HIDE DEF P
<1>3. q \in P
  BY <1>1, <1>2, InductSeq
<1> QED
  BY <1>3 DEF P

(* What a spread list holds comes from an element of the list.              *)
LEMMA SpreadIn ==
    ASSUME NEW T, NEW F \in [T -> Seq(T)], NEW q \in Seq(T)
    PROVE  \A y : In(Spread(F, q), y) => \E x \in T : In(q, x) /\ In(F[x], y)
<1> DEFINE Is(s) == \A y : In(Spread(F, s), y) => \E x \in T : In(s, x) /\ In(F[x], y)
           P == { s \in Seq(T) : Is(s) }
<1>1. <<>> \in P
  <2>1. \A y : ~In(<<>>, y)
    BY EmptySeq DEF In
  <2> QED
    BY <2>1, SpreadEmpty, EmptySeq
<1>2. ASSUME NEW s \in Seq(T), NEW x \in T, s \in P
      PROVE  Append(s, x) \in P
  <2> DEFINE a == Append(s, x)
             p == Spread(F, s)
             c == F[x]
  <2>1. a \in Seq(T) /\ p \in Seq(T) /\ c \in Seq(T)
    BY AppendProperties, SpreadType
  <2>2. Spread(F, a) = p \o c
    BY SpreadAppend
  <2>3. \A y : In(a, y) <=> In(s, y) \/ y = x
    BY AppendOnce
  <2>4. Is(s)
    BY <1>2
  <2> HIDE DEF a
  <2>5. ASSUME NEW y, In(Spread(F, a), y) PROVE \E z \in T : In(a, z) /\ In(F[z], y)
    <3>1. In(p, y) \/ In(c, y)
      <4> HIDE DEF p, c
      <4> QED
        BY <2>1, <2>2, <2>5, InConcat
    <3>2. CASE In(p, y)
      BY <2>3, <2>4, <3>2
    <3>3. CASE In(c, y)
      BY <2>3, <3>3
    <3> QED
      BY <3>1, <3>2, <3>3
  <2> QED
    BY <2>1, <2>5 DEF a
<1> HIDE DEF P
<1>3. q \in P
  BY <1>1, <1>2, InductSeq
<1> QED
  BY <1>3 DEF P

-----------------------------------------------------------------------------
(* Messages and their delivery.                                             *)

LEMMA SendsType ==
    ASSUME prog \in Programs, NEW i \in Items
    PROVE  /\ prog[i] \in Item
           /\ Sends(i) \in Seq(Msg)
           /\ Len(Sends(i)) = Len(prog[i].sends) /\ Len(Sends(i)) \in Nat
           /\ \A k \in 1..Len(Sends(i)) : Sends(i)[k].src = i /\ Sends(i)[k].n = k
<1>1. prog \in Seq(Item) /\ Len(prog) \in Nat
  BY LifeAssumption, LenProperties
<1>2. prog[i] \in Item
  BY <1>1, ElementOfSeq DEF Items
<1> DEFINE q == prog[i].sends
           l == Len(q)
<1>3. q \in Seq(Send) /\ l \in Nat
  BY <1>2, LenProperties DEF Item
<1>4. \A k \in 1..l : q[k].dst \in Names /\ q[k].mode \in Modes
  <2>1. \A k \in 1..l : q[k] \in Send
    BY <1>3, ElementOfSeq
  <2> QED
    BY <2>1 DEF Send
<1> DEFINE e(k) == [src |-> i, n |-> k, dst |-> q[k].dst, mode |-> q[k].mode]
<1>5. \A k \in 1..l : e(k) \in Msg
  BY <1>1, <1>3, <1>4 DEF Msg, Items
<1>6. Sends(i) = [k \in 1..l |-> e(k)]
  BY DEF Sends
<1> HIDE DEF e
<1>7. Sends(i) \in Seq(Msg)
  BY <1>3, <1>5, <1>6, IsASeq
<1>8. Len(Sends(i)) = l
  BY <1>3, <1>6, <1>7, LenProperties
<1>9. \A k \in 1..l : Sends(i)[k].src = i /\ Sends(i)[k].n = k
  BY <1>6 DEF e
<1> QED
  BY <1>2, <1>3, <1>7, <1>8, <1>9

(* What DispatchMsg makes of a message for item i.                          *)
CopyFor(i) == [m \in Msg |-> Copies(table, nodeAddr, m, i)]

LEMMA CopiesCases ==
    ASSUME NEW m \in Msg, NEW i
    PROVE  Copies(table, nodeAddr, m, i) \in {<<>>, <<m>>, <<m>> \o <<m>>}
<1>1. <<>> \in Seq(Msg) /\ <<m>> \in Seq(Msg)
  BY EmptySeq
<1>2. <<>> \o <<>> = <<>> /\ <<>> \o <<m>> = <<m>> /\ <<m>> \o <<>> = <<m>>
  BY <1>1, ConcatEmptySeq
<1> DEFINE A == m.mode # "kDDS" /\ table[m.dst] = i
           B == m.mode # "kIntra" /\ nodeAddr # None /\ table[nodeAddr] = i
<1>4. Copies(table, nodeAddr, m, i)
      = (IF A THEN <<m>> ELSE <<>>) \o (IF B THEN <<m>> ELSE <<>>)
  BY DEF Copies
<1> HIDE DEF A, B
<1> QED
  BY <1>2, <1>4

(* A list of nothing but m.                                                 *)
Repeats(c, m) == c \in Seq(Msg) /\ \A k \in 1..Len(c) : c[k] = m

LEMMA CopiesRepeat ==
    ASSUME NEW m \in Msg, NEW c \in {<<>>, <<m>>, <<m>> \o <<m>>}
    PROVE  Repeats(c, m)
<1>0. <<m>> \in Seq(Msg) /\ Len(<<m>>) = 1 /\ <<m>>[1] = m
  OBVIOUS
<1>1. CASE c = <<>>
  BY <1>1, EmptySeq DEF Repeats
<1>2. CASE c = <<m>>
  BY <1>0, <1>2 DEF Repeats
<1>3. CASE c = <<m>> \o <<m>>
  <2> DEFINE p == <<m>>
  <2>1. p \in Seq(Msg) /\ Len(p) = 1 /\ p[1] = m
    BY <1>0
  <2> HIDE DEF p
  <2>2. /\ p \o p \in Seq(Msg) /\ Len(p \o p) = Len(p) + Len(p)
        /\ \A k \in 1..Len(p) + Len(p) :
              (p \o p)[k] = IF k <= Len(p) THEN p[k] ELSE p[k - Len(p)]
    BY <2>1, ConcatProperties
  <2>3. \A k \in 1..Len(p \o p) : (p \o p)[k] = m
    BY <2>1, <2>2
  <2> QED
    BY <1>3, <2>2, <2>3 DEF Repeats, p
<1> QED
  BY <1>1, <1>2, <1>3

LEMMA OnlyOthersRepeated ==
    ASSUME NEW m, NEW c, Repeats(c, m), NEW S, m \notin S
    PROVE  Only(c, S) = <<>>
<1>1. c \in Seq(Msg) /\ \A k \in 1..Len(c) : c[k] \notin S
  BY DEF Repeats
<1> QED
  BY <1>1, OnlyNone

LEMMA OnlyTheseRepeated ==
    ASSUME NEW m, NEW c, Repeats(c, m), NEW S, m \in S
    PROVE  Only(c, S) = c
<1>1. c \in Seq(Msg) /\ \A k \in 1..Len(c) : c[k] \in S
  BY DEF Repeats
<1> QED
  BY <1>1, OnlyAll

LEMMA DispatchType ==
    ASSUME recv \in [Items -> Seq(Msg)], NEW ms \in Seq(Msg), Dispatch(ms), NEW i \in Items
    PROVE  /\ CopyFor(i) \in [Msg -> Seq(Msg)]
           /\ recv'[i] = recv[i] \o Spread(CopyFor(i), ms)
           /\ Spread(CopyFor(i), ms) \in Seq(Msg)
           /\ recv'[i] \in Seq(Msg)
           /\ Len(recv[i]) \in Nat /\ Len(recv'[i]) \in Nat /\ Len(recv[i]) <= Len(recv'[i])
<1>1. CopyFor(i) \in [Msg -> Seq(Msg)]
  <2>1. ASSUME NEW m \in Msg PROVE Copies(table, nodeAddr, m, i) \in Seq(Msg)
    <3> DEFINE c == Copies(table, nodeAddr, m, i)
    <3>1. c \in {<<>>, <<m>>, <<m>> \o <<m>>}
      BY CopiesCases
    <3> HIDE DEF c
    <3>2. c \in Seq(Msg)
      BY <3>1, CopiesRepeat DEF Repeats
    <3> QED
      BY <3>2 DEF c
  <2> QED
    BY <2>1 DEF CopyFor
<1>2. [k \in 1..Len(ms) |-> Copies(table, nodeAddr, ms[k], i)] = MapOf(CopyFor(i), ms)
  <2>1. \A k \in 1..Len(ms) : ms[k] \in Msg
    BY ElementOfSeq
  <2>2. \A k \in 1..Len(ms) : CopyFor(i)[ms[k]] = Copies(table, nodeAddr, ms[k], i)
    BY <2>1 DEF CopyFor
  <2> QED
    BY <2>2 DEF MapOf
<1>3. recv'[i] = recv[i] \o Spread(CopyFor(i), ms)
  BY <1>2 DEF Dispatch, Spread
<1> DEFINE p == recv[i]
           q == Spread(CopyFor(i), ms)
           r == recv'[i]
<1>4. q \in Seq(Msg)
  BY <1>1, SpreadType
<1>5. p \in Seq(Msg)
  OBVIOUS
<1> HIDE DEF p, q, r
<1>6. p \o q \in Seq(Msg) /\ Len(p \o q) = Len(p) + Len(q) /\ Len(p) \in Nat /\ Len(q) \in Nat
  BY <1>4, <1>5, ConcatProperties, LenProperties
<1>7. r \in Seq(Msg) /\ Len(p) \in Nat /\ Len(r) \in Nat /\ Len(p) <= Len(r)
  BY <1>3, <1>6 DEF p, q, r
<1> QED
  BY <1>1, <1>3, <1>4, <1>7 DEF p, q, r

(* What is delivered, of a kind that item i gets one copy of.               *)
CopiedOnce(S, i) == \A m \in Msg : m \in S => Copies(table, nodeAddr, m, i) = <<m>>

LEMMA DispatchOnly ==
    ASSUME recv \in [Items -> Seq(Msg)], NEW ms \in Seq(Msg), Dispatch(ms), NEW i \in Items,
           NEW S, CopiedOnce(S, i)
    PROVE  Only(recv'[i], S) = Only(recv[i], S) \o Only(ms, S)
<1> DEFINE F == CopyFor(i)
<1>1. /\ F \in [Msg -> Seq(Msg)] /\ recv'[i] = recv[i] \o Spread(F, ms)
      /\ Spread(F, ms) \in Seq(Msg)
  BY DispatchType
<1>2. ASSUME NEW m \in Msg
      PROVE  Only(F[m], S) = IF m \in S THEN <<m>> ELSE <<>>
  <2> DEFINE c == Copies(table, nodeAddr, m, i)
  <2>1. F[m] = c
    BY DEF CopyFor
  <2>2. c \in {<<>>, <<m>>, <<m>> \o <<m>>}
    BY CopiesCases
  <2>3. m \in S => c = <<m>>
    BY DEF CopiedOnce
  <2> HIDE DEF c, F
  <2>4. m \notin S => Only(c, S) = <<>>
    BY <2>2, CopiesRepeat, OnlyOthersRepeated
  <2>5. m \in S => Only(c, S) = c
    BY <2>2, CopiesRepeat, OnlyTheseRepeated
  <2> QED
    BY <2>1, <2>3, <2>4, <2>5
<1> HIDE DEF F
<1>3. Puts(F, Msg, S, S)
  BY <1>1, <1>2 DEF Puts
<1>4. Only(Spread(F, ms), S) = Only(ms, S)
  BY <1>1, <1>3, OnlySpread
<1> DEFINE p == recv[i]
           q == Spread(F, ms)
<1>5. p \in Seq(Msg) /\ q \in Seq(Msg)
  BY <1>1
<1> HIDE DEF p, q
<1>6. Splits(p, q, S)
  BY <1>5, OnlySplits
<1>7. recv'[i] = p \o q
  BY <1>1 DEF p, q
<1>8. Only(recv'[i], S) = Only(p, S) \o Only(q, S)
  BY <1>6, <1>7, Zenon DEF Splits
<1>9. Only(q, S) = Only(ms, S)
  BY <1>4, Zenon DEF q
<1>10. Only(recv'[i], S) = Only(p, S) \o Only(ms, S)
  BY <1>8, <1>9, Zenon
<1> QED
  BY <1>10, Zenon DEF p

-----------------------------------------------------------------------------
(* Types.                                                                   *)

(* The callers that told the workers to quit are done, or told nobody.      *)
Finished == { c \in Callers : qpc[c] = "done" }

(* In parts: the host, Exec and the table; messages; threads.               *)
AppType ==
    /\ prog \in Programs /\ Len(prog) \in Nat /\ pos \in 1..Len(prog) + 1
    /\ hpc \in {"add", "table", "dispatch", "quit", "exec", "done"}
    /\ hpc \in {"table", "dispatch"} => pos \in Items
    /\ appState \in {"initialized", "running", "quitting", "quit"}
    /\ mpc \in {"off", "check", "store", "cached", "loop", "join", "clear",
                "done"}
    /\ table \in [Names -> 0..Len(prog)]
    /\ nodeAddr \in Nodes \cup {None}
    /\ arrivals \in 0..MaxArrivals
    /\ added \in Seq(Items)
MsgType ==
    /\ cache \in Seq(Msg) /\ recv \in [Items -> Seq(Msg)]
    /\ taken \in [Items -> Nat] /\ \A i \in Items : taken[i] <= Len(recv[i])
    /\ running \in [Items -> BOOLEAN] /\ executing \in [Items -> Nat]
ThreadType ==
    /\ evs \subseteq Workers /\ stopped \subseteq Workers
    /\ thread \in [Workers -> {"new", "checked", "registered", "counted",
                               "started", "ended", "joined", "refused"}]
    /\ told \in [Workers -> Nat]
    /\ \A w \in Workers : told[w] <= Cardinality(Finished)
    /\ qpc \in [Callers -> {"idle", "store", "stop", "done"}]

LEMMA CallersFinite ==
    /\ IsFiniteSet(Callers) /\ Cardinality(Callers) \in Nat
    /\ IsFiniteSet(Finished) /\ Cardinality(Finished) \in Nat
    /\ Cardinality(Finished) <= Cardinality(Callers)
<1>1. IsFiniteSet(Callers)
  BY LifeAssumption, FS_AddElement DEF Callers
<1>2. Finished \subseteq Callers
  BY DEF Finished
<1> QED
  BY <1>1, <1>2, FS_Subset, FS_CardinalityType

TypeInv == AppType /\ MsgType /\ ThreadType

LEMMA AppTypeSame ==
    ASSUME AppType, UNCHANGED <<prog, pos, hpc, appState, mpc, table, nodeAddr, arrivals, added>>
    PROVE  AppType'
BY DEF AppType, Items

LEMMA MsgTypeSame ==
    ASSUME MsgType, UNCHANGED <<prog, cache, recv, taken, running, executing>>
    PROVE  MsgType'
BY DEF MsgType, Items, Msg

LEMMA ThreadTypeSame ==
    ASSUME ThreadType, UNCHANGED <<evs, stopped, thread, told, qpc>>
    PROVE  ThreadType'
BY DEF ThreadType, Finished

LEMMA TypeInit == ASSUME Init PROVE TypeInv
<1>1. prog \in Seq(Item) /\ Len(prog) \in Nat
  BY LifeAssumption, LenProperties DEF Init
<1>2. <<>> \in Seq(Items) /\ <<>> \in Seq(Msg) /\ Len(<<>>) = 0
  BY EmptySeq
<1>3. AppType
  BY <1>1, <1>2, LifeAssumption DEF Init, AppType, Items
<1>4. MsgType
  BY <1>2 DEF Init, MsgType
<1>5. ThreadType
  BY CallersFinite DEF Init, ThreadType, Workers
<1> QED
  BY <1>3, <1>4, <1>5 DEF TypeInv

(* A mailbox grows.                                                         *)
LEMMA DispatchKeepsType ==
    ASSUME MsgType, NEW ms \in Seq(Msg), Dispatch(ms), UNCHANGED prog, cache' \in Seq(Msg),
           UNCHANGED <<taken, executing>>, running' \in [Items -> BOOLEAN]
    PROVE  MsgType'
<1>1. recv \in [Items -> Seq(Msg)]
  BY DEF MsgType
<1>2. \A i \in Items : recv'[i] \in Seq(Msg)
  BY <1>1, DispatchType
<1>3. \A i \in Items : /\ Len(recv[i]) \in Nat /\ Len(recv'[i]) \in Nat
                       /\ Len(recv[i]) <= Len(recv'[i])
  BY <1>1, DispatchType
<1>4. recv' \in [Items -> Seq(Msg)]
  BY <1>2 DEF Dispatch
<1>5. \A i \in Items : taken[i] \in Nat /\ taken[i] <= Len(recv[i])
  BY DEF MsgType
<1>6. \A i \in Items : taken[i] <= Len(recv'[i])
  BY <1>3, <1>5
<1>7. Items' = Items /\ Msg' = Msg
  BY DEF Items, Msg
<1> QED
  BY <1>4, <1>6, <1>7 DEF MsgType

LEMMA AddedType ==
    ASSUME AppType, MsgType, hpc = "dispatch"
    PROVE  /\ pos \in Items
           /\ prog[pos].name \in Names
           /\ \A S : Only(cache, S) \in Seq(Msg)
           /\ Sends(pos) \in Seq(Msg)
           /\ \A S : Only(Sends(pos), S) \in Seq(Msg)
<1>1. pos \in Items
  BY DEF AppType
<1>2. Sends(pos) \in Seq(Msg) /\ prog[pos] \in Item
  BY <1>1, SendsType DEF AppType
<1>3. cache \in Seq(Msg)
  BY DEF MsgType
<1> QED
  BY <1>1, <1>2, <1>3, OnlyType DEF Item

LEMMA HostKeepsType == ASSUME TypeInv, Host PROVE TypeInv'
<1>0. AppType /\ MsgType /\ ThreadType
  BY DEF TypeInv
<1>1. CASE AddBegin
  <2>1. MsgType' /\ ThreadType'
    BY <1>0, <1>1, MsgTypeSame, ThreadTypeSame DEF AddBegin, runVars, workerVars
  <2>2. prog[pos] \in Item
    BY <1>0, <1>1, SendsType DEF AppType, AddBegin
  <2>3. AppType'
    BY <1>0, <1>1, <2>2 DEF AppType, AddBegin, AddFailed, Items, Item
  <2> QED
    BY <2>1, <2>3 DEF TypeInv
<1>2. CASE AddTable
  <2>1. MsgType' /\ ThreadType'
    BY <1>0, <1>2, MsgTypeSame, ThreadTypeSame DEF AddTable, runVars, workerVars
  <2>2. hpc = "table" /\ pos \in 1..Len(prog) /\ Len(prog) \in Nat
    BY <1>0, <1>2 DEF AppType, AddTable, Items
  <2>3. table' \in [Names -> 0..Len(prog)]
    <3> DEFINE x == prog[pos].name
    <3>1. table' = table \/ table' = [table EXCEPT ![x] = pos]
      BY <1>2 DEF AddTable
    <3>2. table \in [Names -> 0..Len(prog)] /\ pos \in 0..Len(prog)
      BY <1>0, <2>2 DEF AppType
    <3> HIDE DEF x
    <3> QED
      BY <3>1, <3>2
  <2>4. hpc' = "dispatch" /\ UNCHANGED <<prog, pos, appState, mpc, nodeAddr, arrivals, added>>
    BY <1>2 DEF AddTable
  <2>5. AppType'
    BY <1>0, <2>2, <2>3, <2>4 DEF AppType, Items
  <2> QED
    BY <2>1, <2>5 DEF TypeInv
<1>3. CASE AddDispatch
  <2>0. hpc = "dispatch"
    BY <1>3 DEF AddDispatch
  <2>1. pos \in Items
    BY <1>0, <2>0 DEF AppType
  <2>2. ThreadType'
    BY <1>0, <1>3, ThreadTypeSame DEF AddDispatch, workerVars
  <2>3. AppType'
    <3>1. Append(added, pos) \in Seq(Items)
      BY <1>0, <2>1, AppendProperties DEF AppType
    <3>2. /\ added' = Append(added, pos) /\ pos' = pos + 1 /\ hpc' = "add"
          /\ UNCHANGED <<prog, appState, mpc, table, nodeAddr, arrivals>>
      BY <1>3 DEF AddDispatch
    <3> QED
      BY <1>0, <2>1, <3>1, <3>2 DEF AppType, Items
  <2>4. MsgType'
    <3> DEFINE name == prog[pos].name
               release == Only(cache, { m \in Msg : m.dst = name })
               rest == Only(cache, { m \in Msg : m.dst # name })
               wait == IF appState = "running" THEN <<>>
                       ELSE Only(Sends(pos), { m \in Msg : Cached(m) })
               now  == IF appState = "running" THEN Sends(pos)
                       ELSE Only(Sends(pos), { m \in Msg : ~Cached(m) })
    <3>1. release \in Seq(Msg) /\ rest \in Seq(Msg) /\ now \in Seq(Msg) /\ wait \in Seq(Msg)
      BY <1>0, <2>0, AddedType, EmptySeq
    <3>2. /\ Dispatch(release \o now) /\ cache' = rest \o wait
          /\ running' = [running EXCEPT ![pos] = FALSE]
          /\ UNCHANGED <<prog, taken, executing>>
      BY <1>3 DEF AddDispatch
    <3> HIDE DEF release, rest, wait, now
    <3>3. release \o now \in Seq(Msg) /\ rest \o wait \in Seq(Msg)
      BY <3>1, ConcatProperties
    <3>4. running' \in [Items -> BOOLEAN]
      BY <1>0, <3>2 DEF MsgType
    <3> QED
      BY <1>0, <3>2, <3>3, <3>4, DispatchKeepsType
  <2> QED
    BY <2>2, <2>3, <2>4 DEF TypeInv
<1>4. CASE CallExec
  <2>1. MsgType' /\ ThreadType'
    BY <1>0, <1>4, MsgTypeSame, ThreadTypeSame DEF CallExec, actorVars, runVars, workerVars
  <2>2. AppType'
    BY <1>0, <1>4 DEF AppType, CallExec, actorVars, Items
  <2> QED
    BY <2>1, <2>2 DEF TypeInv
<1> QED
  BY <1>1, <1>2, <1>3, <1>4 DEF Host

LEMMA QuitKeepsType ==
    ASSUME TypeInv, NEW c \in Callers, Quit(c)
    PROVE  TypeInv'
<1>0. AppType /\ MsgType /\ ThreadType
  BY DEF TypeInv
<1>1. MsgType'
  BY <1>0, MsgTypeSame DEF Quit, QuitCheck, QuitStore, StopAllWorker, actorVars, runVars
<1>2. AppType'
  BY <1>0 DEF Quit, QuitCheck, QuitStore, StopAllWorker, actorVars, AppType, Items
<1>3. qpc' \in [Callers -> {"idle", "store", "stop", "done"}] /\ qpc[c] # "done"
  BY <1>0 DEF Quit, QuitCheck, QuitStore, StopAllWorker, ThreadType
<1>4. Finished' = Finished \/ Finished' = Finished \cup {c}
  BY <1>0 DEF Quit, QuitCheck, QuitStore, StopAllWorker, ThreadType, Finished
<1>5. c \notin Finished
  BY <1>3 DEF Finished
<1>6. /\ Cardinality(Finished') \in Nat
      /\ Cardinality(Finished) <= Cardinality(Finished')
  <2>1. Cardinality(Finished) \in Nat /\ IsFiniteSet(Finished)
    BY CallersFinite
  <2>2. Cardinality(Finished \cup {c}) = Cardinality(Finished) + 1
    BY <1>5, <2>1, FS_AddElement
  <2>3. \/ Cardinality(Finished') = Cardinality(Finished)
        \/ Cardinality(Finished') = Cardinality(Finished \cup {c})
    BY <1>4, Zenon
  <2> QED
    BY <2>1, <2>2, <2>3
<1>7. ThreadType'
  <2>1. CASE StopAllWorker(c)
    <3>1. Finished' = Finished \cup {c}
      BY <1>0, <2>1 DEF StopAllWorker, ThreadType, Finished
    <3>2. Cardinality(Finished') = Cardinality(Finished) + 1
      BY <1>5, <3>1, CallersFinite, FS_AddElement
    <3>3. /\ told' = [w \in Workers |-> IF w \in evs THEN told[w] + 1 ELSE told[w]]
          /\ UNCHANGED <<evs, stopped, thread>>
      BY <2>1 DEF StopAllWorker
    <3>4. \A w \in Workers : told[w] \in Nat /\ told[w] <= Cardinality(Finished)
      BY <1>0 DEF ThreadType
    <3>5. \A w \in Workers : told'[w] \in Nat /\ told'[w] <= Cardinality(Finished')
      BY <3>2, <3>3, <3>4, CallersFinite
    <3> QED
      BY <1>0, <1>3, <3>3, <3>5 DEF ThreadType
  <2>2. CASE QuitCheck(c) \/ QuitStore(c)
    <3>1. UNCHANGED <<evs, stopped, thread, told>>
      BY <2>2 DEF QuitCheck, QuitStore, workerVars
    <3>2. \A w \in Workers : told[w] \in Nat /\ told[w] <= Cardinality(Finished)
      BY <1>0 DEF ThreadType
    <3>3. \A w \in Workers : told'[w] <= Cardinality(Finished')
      BY <1>6, <3>1, <3>2, CallersFinite
    <3> QED
      BY <1>0, <1>3, <3>1, <3>3 DEF ThreadType
  <2> QED
    BY <2>1, <2>2 DEF Quit
<1> QED
  BY <1>1, <1>2, <1>7 DEF TypeInv

LEMMA WorkerKeepsType ==
    ASSUME TypeInv, NEW w \in Workers, AddWorkerCheck(w) \/ WorkerThread(w) \/ Del(w)
    PROVE  TypeInv'
<1>0. AppType /\ MsgType /\ ThreadType
  BY DEF TypeInv
<1>1. UNCHANGED <<prog, pos, hpc, appState, mpc, table, nodeAddr, cache, recv, taken, running,
                  executing, arrivals, told, qpc, added>>
  BY DEF AddWorkerCheck, WorkerThread, AddWorkerRegister, AddWorkerCount, Start, WorkerEnds,
     WorkerStep, Del, actorVars, runVars
<1>2. /\ evs' \subseteq Workers /\ stopped' \subseteq Workers
      /\ thread' \in [Workers -> {"new", "checked", "registered", "counted",
                               "started", "ended", "joined", "refused"}]
  BY <1>0 DEF AddWorkerCheck, WorkerThread, AddWorkerRegister, AddWorkerCount, Start,
     WorkerEnds, WorkerStep, Del, ThreadType
<1>3. ThreadType'
  BY <1>0, <1>1, <1>2 DEF ThreadType, Finished
<1> QED
  BY <1>0, <1>1, <1>3, AppTypeSame, MsgTypeSame DEF TypeInv

LEMMA ExecKeepsType ==
    ASSUME TypeInv, ExecCheck \/ ExecStore \/ LoopEnd \/ Join \/ Clear
    PROVE  TypeInv'
<1>0. AppType /\ MsgType /\ ThreadType
  BY DEF TypeInv
<1>1. MsgType'
  BY <1>0, MsgTypeSame DEF ExecCheck, ExecStore, LoopEnd, Join, Clear, actorVars, runVars
<1>2. AppType'
  BY <1>0 DEF ExecCheck, ExecStore, LoopEnd, Join, Clear, actorVars, AppType, Items
<1>3. ThreadType'
  BY <1>0 DEF ExecCheck, ExecStore, LoopEnd, Join, Clear, workerVars, ThreadType, Finished
<1> QED
  BY <1>1, <1>2, <1>3 DEF TypeInv

LEMMA CacheKeepsType == ASSUME TypeInv, DispatchCache PROVE TypeInv'
<1>0. AppType /\ MsgType /\ ThreadType
  BY DEF TypeInv
<1>1. /\ cache \in Seq(Msg) /\ cache' \in Seq(Msg) /\ running' \in [Items -> BOOLEAN]
      /\ Dispatch(cache) /\ UNCHANGED <<prog, taken, executing>>
  BY <1>0, EmptySeq DEF DispatchCache, runVars, MsgType
<1>2. MsgType'
  BY <1>0, <1>1, DispatchKeepsType
<1>3. AppType' /\ ThreadType'
  BY <1>0, ThreadTypeSame DEF DispatchCache, workerVars, AppType, Items
<1> QED
  BY <1>2, <1>3 DEF TypeInv

LEMMA ArriveKeepsType ==
    ASSUME TypeInv, NEW n \in Names, Arrive(n)
    PROVE  TypeInv'
<1>0. AppType /\ MsgType /\ ThreadType
  BY DEF TypeInv
<1> DEFINE m == [src |-> 0, n |-> arrivals', dst |-> n, mode |-> "kIntra"]
<1>1. arrivals' = arrivals + 1 /\ arrivals \in Nat /\ arrivals < MaxArrivals /\ Len(prog) \in Nat
  BY <1>0, LifeAssumption DEF Arrive, AppType
<1>2. m \in Msg
  BY <1>1 DEF Msg, Modes
<1>3. Dispatch(<<m>>) /\ UNCHANGED <<prog, cache, taken, running, executing>>
  BY DEF Arrive, runVars
<1> HIDE DEF m
<1>4. <<m>> \in Seq(Msg)
  BY <1>2
<1>5. MsgType'
  BY <1>0, <1>3, <1>4, DispatchKeepsType DEF MsgType
<1>6. AppType' /\ ThreadType'
  BY <1>0, <1>1, LifeAssumption, ThreadTypeSame DEF Arrive, workerVars, AppType, Items
<1> QED
  BY <1>5, <1>6 DEF TypeInv

LEMMA RunKeepsType ==
    ASSUME TypeInv, NEW i \in Items, Assign(i) \/ ProcessWorkerEvent(i)
    PROVE  TypeInv'
<1>0. AppType /\ MsgType /\ ThreadType
  BY DEF TypeInv
<1>1. AppType' /\ ThreadType'
  BY <1>0, AppTypeSame, ThreadTypeSame DEF Assign, ProcessWorkerEvent, actorVars, workerVars
<1>2. UNCHANGED <<prog, cache, recv>>
  BY DEF Assign, ProcessWorkerEvent, actorVars
<1>3. running' \in [Items -> BOOLEAN]
  BY <1>0 DEF Assign, ProcessWorkerEvent, MsgType
<1>4. executing' \in [Items -> Nat]
  <2>1. executing \in [Items -> Nat] /\ executing[i] \in Nat
    BY <1>0 DEF MsgType
  <2>2. \E k \in Nat : executing' = [executing EXCEPT ![i] = k]
    BY <2>1 DEF Assign, ProcessWorkerEvent
  <2> QED
    BY <2>1, <2>2
<1>5. taken' \in [Items -> Nat] /\ \A j \in Items : taken'[j] <= Len(recv[j])
  <2>1. taken \in [Items -> Nat] /\ Len(recv[i]) \in Nat
    BY <1>0, LenProperties DEF MsgType
  <2>2. \A j \in Items : taken[j] <= Len(recv[j])
    BY <1>0 DEF MsgType
  <2>3. taken' = taken \/ taken' = [taken EXCEPT ![i] = Len(recv[i])]
    BY DEF Assign, ProcessWorkerEvent
  <2> QED
    BY <2>1, <2>2, <2>3
<1>6. MsgType'
  BY <1>0, <1>2, <1>3, <1>4, <1>5 DEF MsgType, Items, Msg
<1> QED
  BY <1>1, <1>6 DEF TypeInv

LEMMA IdleKeepsType == ASSUME TypeInv, Idle \/ UNCHANGED vars PROVE TypeInv'
<1>0. AppType /\ MsgType /\ ThreadType
  BY DEF TypeInv
<1> QED
  BY <1>0, AppTypeSame, MsgTypeSame, ThreadTypeSame DEF Idle, vars, TypeInv

LEMMA TypeNext == ASSUME TypeInv, [Next]_vars PROVE TypeInv'
BY HostKeepsType, QuitKeepsType, WorkerKeepsType, ExecKeepsType, CacheKeepsType,
   ArriveKeepsType, RunKeepsType, IdleKeepsType DEF Next, Exec

LEMMA TypeParts == ASSUME TypeInv PROVE TypeOK
<1>1. \A w \in Workers : told[w] \in Nat /\ told[w] <= Cardinality(Callers)
  <2>1. \A w \in Workers : told[w] \in Nat /\ told[w] <= Cardinality(Finished)
    BY DEF TypeInv, ThreadType
  <2> QED
    BY <2>1, CallersFinite
<1>2. told \in [Workers -> 0..Cardinality(Callers)]
  BY <1>1, CallersFinite DEF TypeInv, ThreadType
<1> QED
  BY <1>2 DEF TypeInv, AppType, MsgType, ThreadType, TypeOK

(* The state keeps its types, whatever the host adds and whoever quits; a   *)
(* worker is told to quit at most once by each caller of Quit.              *)
THEOREM TypeCorrect == Spec => []TypeOK
<1>1. Init => TypeInv
  BY TypeInit
<1>2. TypeInv /\ [Next]_vars => TypeInv'
  BY TypeNext
<1>3. TypeInv => TypeOK
  BY TypeParts
<1> QED
  BY <1>1, <1>2, <1>3, PTL DEF Spec

-----------------------------------------------------------------------------
(* Loading.                                                                 *)

LEMMA Basics ==
    ASSUME TypeInv
    PROVE  /\ Len(prog) \in Nat /\ pos \in Nat /\ Items = 1..Len(prog)
           /\ recv \in [Items -> Seq(Msg)] /\ cache \in Seq(Msg)
           /\ table \in [Names -> 0..Len(prog)]
           /\ \A x \in Names : table[x] # 0 => table[x] \in Items
           /\ nodeAddr \in Nodes \cup {None} /\ None \notin Names /\ Nodes \subseteq Names
           /\ nodeAddr # None => nodeAddr \in Names
           /\ Len(added) \in Nat /\ \A k \in 1..Len(added) : added[k] \in Items
           /\ \A i \in Items : prog[i].name \in Names /\ Sends(i) \in Seq(Msg)
<1>1. /\ prog \in Programs /\ Len(prog) \in Nat /\ pos \in 1..Len(prog) + 1
      /\ table \in [Names -> 0..Len(prog)] /\ nodeAddr \in Nodes \cup {None}
      /\ added \in Seq(Items)
  BY DEF TypeInv, AppType
<1>2. recv \in [Items -> Seq(Msg)] /\ cache \in Seq(Msg)
  BY DEF TypeInv, MsgType
<1>3. None \notin Names /\ Nodes \subseteq Names
  BY LifeAssumption
<1>4. \A i \in Items : prog[i].name \in Names /\ Sends(i) \in Seq(Msg)
  BY <1>1, SendsType DEF Item
<1>5. Len(added) \in Nat /\ \A k \in 1..Len(added) : added[k] \in Items
  BY <1>1, ElementOfSeq, LenProperties
<1>6. \A x \in Names : table[x] # 0 => table[x] \in Items
  BY <1>1 DEF Items
<1> QED
  BY <1>1, <1>2, <1>3, <1>4, <1>5, <1>6 DEF Items

(* The program does not change, nor what depends on it only.                *)
LEMMA SameProg ==
    ASSUME UNCHANGED prog
    PROVE  /\ Items' = Items /\ Msg' = Msg /\ Intra' = Intra
           /\ \A i : Sends(i)' = Sends(i)
           /\ \A i, x : LocalTo(i, x)' = LocalTo(i, x) /\ NetTo(i, x)' = NetTo(i, x)
BY DEF Items, Msg, Intra, Sends, LocalTo, NetTo

LEMMA InSends ==
    ASSUME TypeInv, NEW i \in Items, NEW m, In(Sends(i), m)
    PROVE  m \in Msg /\ m.src = i
<1>1. prog \in Programs
  BY DEF TypeInv, AppType
<1>2. /\ Sends(i) \in Seq(Msg)
      /\ \A k \in 1..Len(Sends(i)) : Sends(i)[k].src = i
  BY <1>1, SendsType
<1>3. \A k \in 1..Len(Sends(i)) : Sends(i)[k] \in Msg
  BY <1>2, ElementOfSeq
<1> QED
  BY <1>2, <1>3 DEF In

(* What is delivered to an item was sent to its name, and not for the       *)
(* network only, unless the item is the node.                               *)
For(m, i) ==
    /\ table[prog[i].name] = i
    /\ prog[i].name # nodeAddr => m.dst = prog[i].name /\ m.mode # "kDDS"

LEMMA DeliveredTo ==
    ASSUME TypeInv, TableInv, NEW ms \in Seq(Msg), Dispatch(ms), NEW i \in Items,
           NEW y, In(recv'[i], y)
    PROVE  In(recv[i], y) \/ (In(ms, y) /\ For(y, i))
<1>0. /\ recv \in [Items -> Seq(Msg)]
      /\ nodeAddr # None => nodeAddr \in Names
  BY Basics
<1> DEFINE F == CopyFor(i)
           p == recv[i]
           q == Spread(F, ms)
<1>1. F \in [Msg -> Seq(Msg)] /\ recv'[i] = p \o q /\ q \in Seq(Msg)
  BY <1>0, DispatchType
<1>2. p \in Seq(Msg)
  BY <1>0
<1>3. In(q, y) => \E m \in Msg : In(ms, m) /\ In(F[m], y)
  BY <1>1, SpreadIn
<1> HIDE DEF p, q
<1>4. In(p, y) \/ In(q, y)
  BY <1>1, <1>2, InConcat
<1>5. ASSUME NEW m \in Msg, In(ms, m), In(F[m], y) PROVE In(ms, y) /\ For(y, i)
  <2> DEFINE c == Copies(table, nodeAddr, m, i)
  <2>1. F[m] = c
    BY DEF CopyFor
  <2>2. c \in {<<>>, <<m>>, <<m>> \o <<m>>}
    BY CopiesCases
  <2> HIDE DEF c, F
  <2>3. Repeats(c, m)
    BY <2>2, CopiesRepeat
  <2>4. y = m
    BY <1>5, <2>1, <2>3 DEF Repeats, In
  <2>5. c # <<>>
    BY <1>5, <2>1, EmptySeq DEF In
  <2>6. \/ m.mode # "kDDS" /\ table[m.dst] = i
        \/ m.mode # "kIntra" /\ nodeAddr # None /\ table[nodeAddr] = i
    <3>1. <<>> \o <<>> = <<>>
      BY EmptySeq, ConcatEmptySeq
    <3> QED
      BY <2>5, <3>1 DEF Copies, c
  <2>7. m.dst \in Names
    BY DEF Msg
  <2>8. i # 0
    BY DEF Items
  <2> QED
    BY <1>0, <1>5, <2>4, <2>6, <2>7, <2>8 DEF TableInv, For
<1> QED
  BY <1>3, <1>4, <1>5 DEF p

(* A message that is not for the node reaches its receiver once; one for    *)
(* the network reaches the node once.                                       *)
LEMMA DeliverLocal ==
    ASSUME TypeInv, TableInv, NEW ms \in Seq(Msg), Dispatch(ms), UNCHANGED <<prog, table>>,
           NEW i, NEW x \in Names, x # nodeAddr, table[x] # 0
    PROVE  Only(Inbox(x)', LocalTo(i, x))
             = Only(Inbox(x), LocalTo(i, x)) \o Only(ms, LocalTo(i, x))
<1> DEFINE j == table[x]
           S == LocalTo(i, x)
<1>0. /\ recv \in [Items -> Seq(Msg)] /\ j \in Items /\ j # 0
      /\ nodeAddr # None => nodeAddr \in Names
  BY Basics
<1>1. ASSUME NEW m \in Msg, m \in S
      PROVE  Copies(table, nodeAddr, m, j) = <<m>>
  <2>1. m.dst = x /\ m.mode # "kDDS"
    BY <1>1 DEF LocalTo
  <2>2. ~(nodeAddr # None /\ table[nodeAddr] = j)
    BY <1>0 DEF TableInv
  <2>3. <<m>> \o <<>> = <<m>>
    <3>1. <<m>> \in Seq(Msg)
      OBVIOUS
    <3> QED
      BY <3>1, ConcatEmptySeq
  <2> QED
    BY <2>1, <2>2, <2>3 DEF Copies
<1> HIDE DEF j, S
<1>2. CopiedOnce(S, j)
  BY <1>1 DEF CopiedOnce
<1>3. Only(recv'[j], S) = Only(recv[j], S) \o Only(ms, S)
  BY <1>0, <1>2, DispatchOnly
<1>4. Inbox(x)' = recv'[j] /\ Inbox(x) = recv[j]
  BY <1>0 DEF Inbox, j
<1> QED
  BY <1>3, <1>4 DEF S

LEMMA DeliverNet ==
    ASSUME TypeInv, TableInv, NEW ms \in Seq(Msg), Dispatch(ms),
           UNCHANGED <<prog, table, nodeAddr>>,
           NEW i, NEW x \in Names, x # nodeAddr, NodeItem # 0
    PROVE  Only(NodeBox', NetTo(i, x)) = Only(NodeBox, NetTo(i, x)) \o Only(ms, NetTo(i, x))
<1> DEFINE j == NodeItem
           S == NetTo(i, x)
<1>0. /\ recv \in [Items -> Seq(Msg)] /\ j \in Items /\ j # 0
      /\ nodeAddr \in Names /\ nodeAddr # None /\ table[nodeAddr] = j
  BY Basics DEF NodeItem
<1>1. ASSUME NEW m \in Msg, m \in S
      PROVE  Copies(table, nodeAddr, m, j) = <<m>>
  <2>1. m.dst = x /\ m.mode # "kIntra"
    BY <1>1 DEF NetTo
  <2>2. table[x] # j
    BY <1>0 DEF TableInv
  <2>3. <<>> \o <<m>> = <<m>>
    <3>1. <<m>> \in Seq(Msg)
      OBVIOUS
    <3> QED
      BY <3>1, ConcatEmptySeq
  <2> HIDE DEF j
  <2> QED
    BY <1>0, <2>1, <2>2, <2>3 DEF Copies
<1>4. NodeBox' = recv'[j] /\ NodeBox = recv[j]
  BY <1>0 DEF NodeBox, NodeItem
<1> HIDE DEF j, S
<1>2. CopiedOnce(S, j)
  BY <1>1 DEF CopiedOnce
<1>3. Only(recv'[j], S) = Only(recv[j], S) \o Only(ms, S)
  BY <1>0, <1>2, DispatchOnly
<1> QED
  BY <1>3, <1>4 DEF S

LEMMA InOrderSame == ASSUME UNCHANGED prog PROVE \A i, x : InOrder(i, x)' = InOrder(i, x)
BY SameProg DEF InOrder

LEMMA LineSame ==
    ASSUME UNCHANGED <<prog, cache>>
    PROVE  \A i, x : Inbox(x)' = Inbox(x) => Line(i, x)' = Line(i, x)
BY SameProg DEF Line

LEMMA NetLineSame ==
    ASSUME UNCHANGED <<prog, cache>>, NodeBox' = NodeBox
    PROVE  \A i, x : NetLine(i, x)' = NetLine(i, x)
BY SameProg DEF NetLine

LEMMA HeardOfSame ==
    ASSUME UNCHANGED <<prog, added>>, NodeItem' = NodeItem
    PROVE  \A i, x : HeardOf(i, x)' = HeardOf(i, x)
<1>1. \A i, x : Released(i, x)' <=> Released(i, x)
  BY DEF Released
<1> QED
  BY <1>1, SameProg DEF HeardOf

(* Steps that load nothing.                                                 *)
Quiet ==
    /\ UNCHANGED <<prog, pos, table, nodeAddr, cache, recv, added>>
    /\ {hpc, hpc'} \cap {"table", "dispatch"} # {} => hpc' = hpc /\ mpc' = mpc
    /\ mpc' = "off" => mpc = "off"
    /\ mpc' = "off" /\ appState' = "running" => appState = "running"
    /\ mpc' = "loop" <=> mpc = "loop"

LEMMA QuietKeeps == ASSUME Loading, Quiet PROVE Loading'
<1>0. /\ HostInv /\ TableInv /\ BoxInv /\ LineInv /\ NetInv
      /\ UNCHANGED <<prog, pos, table, nodeAddr, cache, recv, added>>
      /\ {hpc, hpc'} \cap {"table", "dispatch"} # {} => hpc' = hpc /\ mpc' = mpc
      /\ mpc' = "off" => mpc = "off"
      /\ mpc' = "off" /\ appState' = "running" => appState = "running"
      /\ mpc' = "loop" <=> mpc = "loop"
  BY DEF Loading, Quiet
<1>1. HostInv'
  BY <1>0 DEF HostInv, Items
<1>2. TableInv'
  BY <1>0 DEF TableInv, Items
<1>3. BoxInv'
  BY <1>0 DEF BoxInv, Items
<1>4. \A x : Inbox(x)' = Inbox(x)
  BY <1>0 DEF Inbox
<1>5. LineInv'
  BY <1>0, <1>4, LineSame, InOrderSame DEF LineInv
<1>6. NodeItem' = NodeItem /\ NodeBox' = NodeBox
  BY <1>0 DEF NodeBox, NodeItem
<1>7. NetInv'
  BY <1>0, <1>6, NetLineSame, HeardOfSame DEF NetInv
<1> QED
  BY <1>1, <1>2, <1>3, <1>5, <1>7 DEF Loading

LEMMA LoadInit == ASSUME Init PROVE Loading
<1>1. Len(<<>>) = 0
  BY EmptySeq
<1>2. Len(added) = 0 /\ Len(cache) = 0 /\ hpc = "add" /\ mpc = "off" /\ appState = "initialized"
  BY <1>1 DEF Init
<1>3. (\A i \in Items : Len(recv[i]) = 0) /\ (\A x \in Names : table[x] = 0) /\ nodeAddr = None
  BY <1>1 DEF Init
<1>4. HostInv /\ LineInv /\ NetInv
  BY <1>2 DEF HostInv, LineInv, NetInv
<1>5. TableInv
  BY <1>2, <1>3, LifeAssumption DEF TableInv
<1>6. BoxInv
  BY <1>2, <1>3 DEF BoxInv
<1> QED
  BY <1>4, <1>5, <1>6 DEF Loading

LEMMA AddBeginKeeps == ASSUME ~Late, TypeInv, Loading, AddBegin PROVE Loading'
<1> DEFINE name == prog[pos].name
<1>0. HostInv /\ TableInv /\ BoxInv /\ LineInv /\ NetInv
  BY DEF Loading
<1>1. /\ hpc = "add" /\ mpc = "off" /\ pos \in Items /\ name \in Names
      /\ UNCHANGED <<prog, appState, mpc, table, cache, recv, added>>
  BY Basics DEF AddBegin, MayAdd, actorVars
<1>2. /\ pos' \in Nat /\ pos \in Nat /\ pos <= pos'
      /\ hpc' \in {"add", "quit", "table"}
      /\ hpc' = "table" => pos' = pos
  <2>1. Len(prog) \in Nat /\ pos \in 1..Len(prog)
    BY <1>1, Basics
  <2>2. AddFailed \/ (hpc' = "table" /\ pos' = pos)
    BY DEF AddBegin
  <2>3. AddFailed => \/ pos' = pos + 1 /\ hpc' = "add"
                     \/ pos' = Len(prog) + 1 /\ hpc' = "quit"
    BY DEF AddFailed
  <2> QED
    BY <2>1, <2>2, <2>3
<1>3. \/ nodeAddr' = nodeAddr
      \/ nodeAddr = None /\ nodeAddr' = name /\ name \in Nodes
  BY DEF AddBegin
<1>4. hpc' = "table" /\ name \in Nodes => nodeAddr' = name
  <2>1. AddFailed => hpc' # "table"
    BY DEF AddFailed
  <2> QED
    BY <2>1 DEF AddBegin
<1>5. nodeAddr' # nodeAddr => hpc' = "table" \/ prog[pos].fails
  BY DEF AddBegin
<1>6. \A x \in Names : x # None
  BY LifeAssumption
<1>7. \A x \in Nodes : x \in Names /\ x # None
  BY LifeAssumption
<1>8. \A x \in Names : x # nodeAddr' => x # nodeAddr
  BY <1>3, <1>6
<1>9. HostInv'
  <2>1. /\ Len(added) \in Nat /\ \A k \in 1..Len(added) : added[k] \in Nat
    BY Basics
  <2> QED
    BY <1>0, <1>1, <1>2, <2>1 DEF HostInv, Items
<1>10. TableInv'
  <2>1. \A x \in Names : table[x] \in Nat
    BY Basics
  <2>2. \A x \in Names : table[x] # 0 => prog[table[x]].name = x /\ table[x] < pos'
    BY <1>0, <1>1, <1>2, <2>1 DEF TableInv
  <2>3. \A x \in Nodes : table[x] # 0 => nodeAddr' = x
    BY <1>0, <1>3, <1>7 DEF TableInv
  <2>4. hpc' = "table" /\ prog[pos'].name \in Nodes => nodeAddr' = prog[pos'].name
    BY <1>2, <1>4
  <2>5. ASSUME nodeAddr' # None, table[nodeAddr'] = 0
        PROVE  \/ hpc' = "table" /\ prog[pos'].name = nodeAddr'
               \/ \E i \in Items : prog[i].name = nodeAddr' /\ prog[i].fails
    <3>1. CASE nodeAddr' = nodeAddr
      BY <1>0, <1>1, <2>5, <3>1 DEF TableInv
    <3>2. CASE nodeAddr' # nodeAddr
      BY <1>1, <1>2, <1>3, <1>5, <3>2
    <3> QED
      BY <3>1, <3>2
  <2> QED
    BY <1>1, <1>2, <2>2, <2>3, <2>4, <2>5 DEF TableInv, Items
<1>11. BoxInv'
  <2>1. \A i \in Items : prog[i].name \in Names
    BY Basics
  <2>2. ASSUME NEW i \in Items, NEW k \in 1..Len(recv[i])
        PROVE  /\ recv[i][k].src < pos'
               /\ table[prog[i].name] = i
               /\ prog[i].name # nodeAddr' =>
                     recv[i][k].dst = prog[i].name /\ recv[i][k].mode # "kDDS"
    <3>1. recv[i][k].src \in Int
      <4>1. recv[i] \in Seq(Msg)
        BY Basics
      <4>2. recv[i][k] \in Msg
        BY <4>1, ElementOfSeq
      <4> QED
        BY <4>2, Basics DEF Msg
    <3>2. /\ recv[i][k].src < pos
          /\ table[prog[i].name] = i
          /\ prog[i].name # nodeAddr =>
                recv[i][k].dst = prog[i].name /\ recv[i][k].mode # "kDDS"
      BY <1>0 DEF BoxInv
    <3>3. prog[i].name # nodeAddr' => prog[i].name # nodeAddr
      BY <1>8, <2>1
    <3>4. recv[i][k].src < pos'
      BY <1>2, <3>1, <3>2
    <3> QED
      BY <3>2, <3>3, <3>4
  <2>3. \A k \in 1..Len(cache) : cache[k].src \in 1..pos' - 1
    BY <1>0, <1>2 DEF BoxInv
  <2> QED
    BY <1>1, <2>2, <2>3 DEF BoxInv, Items
<1>12. \A x : Inbox(x)' = Inbox(x)
  BY <1>1 DEF Inbox
<1>13. LineInv'
  BY <1>0, <1>1, <1>8, <1>12, LineSame, InOrderSame DEF LineInv
<1>14. NodeItem' = NodeItem
  <2>1. CASE nodeAddr' = nodeAddr
    BY <1>1, <2>1 DEF NodeItem
  <2>2. CASE nodeAddr' # nodeAddr
    <3>1. table[name] = 0
      BY <1>0, <1>3, <1>7, <2>2 DEF TableInv
    <3> QED
      BY <1>1, <1>3, <2>2, <3>1 DEF NodeItem
  <2> QED
    BY <2>1, <2>2
<1>15. NodeBox' = NodeBox
  BY <1>1, <1>14 DEF NodeBox
<1>16. NetInv'
  BY <1>0, <1>1, <1>8, <1>14, <1>15, NetLineSame, HeardOfSame DEF NetInv
<1> QED
  BY <1>9, <1>10, <1>11, <1>13, <1>16 DEF Loading

LEMMA AddTableKeeps == ASSUME TypeInv, Loading, AddTable PROVE Loading'
<1> DEFINE name == prog[pos].name
<1>0. HostInv /\ TableInv /\ BoxInv /\ LineInv /\ NetInv
  BY DEF Loading
<1>1. /\ hpc = "table" /\ hpc' = "dispatch" /\ mpc = "off" /\ pos \in Items /\ name \in Names
      /\ UNCHANGED <<prog, pos, appState, mpc, nodeAddr, cache, recv, added>>
  BY <1>0, Basics DEF AddTable, HostInv
<1>2. pos \in Nat /\ pos # 0 /\ table \in [Names -> 0..Len(prog)]
  BY <1>1, Basics
<1>3. /\ table' = IF table[name] = 0 THEN [table EXCEPT ![name] = pos] ELSE table
  BY DEF AddTable
<1>4. \A x \in Names : \/ table'[x] = table[x]
                       \/ x = name /\ table[x] = 0 /\ table'[x] = pos
  BY <1>1, <1>2, <1>3
<1>5. table'[name] # 0
  BY <1>1, <1>2, <1>3
<1>6. table[name] = 0 => recv[pos] = <<>>
  <2>1. recv[pos] \in Seq(Msg) /\ Len(recv[pos]) \in Nat
    BY <1>1, Basics, LenProperties
  <2>2. table[name] = 0 => ~(1 \in 1..Len(recv[pos]))
    BY <1>0, <1>1, <1>2 DEF BoxInv
  <2> QED
    BY <2>1, <2>2, EmptySeq
<1>7. HostInv'
  BY <1>0, <1>1 DEF HostInv, Items
<1>8. TableInv'
  <2>1. \A x \in Names : table'[x] # 0 =>
           prog[table'[x]].name = x /\ (table'[x] < pos \/ table'[x] = pos)
    BY <1>0, <1>1, <1>4 DEF TableInv
  <2>2. \A x \in Nodes : table'[x] # 0 => nodeAddr = x
    BY <1>0, <1>1, <1>4, LifeAssumption DEF TableInv
  <2>3. name \in Nodes => nodeAddr = name
    BY <1>0, <1>1 DEF TableInv
  <2>4. ASSUME nodeAddr # None, table'[nodeAddr] = 0
        PROVE  \E i \in Items : prog[i].name = nodeAddr /\ prog[i].fails
    <3>1. nodeAddr \in Names
      BY <2>4, Basics
    <3>2. table[nodeAddr] = 0 /\ nodeAddr # name
      BY <1>2, <1>4, <1>5, <2>4, <3>1
    <3> QED
      BY <1>0, <2>4, <3>2 DEF TableInv
  <2> QED
    BY <1>1, <1>5, <2>1, <2>2, <2>3, <2>4 DEF TableInv, Items
<1>9. BoxInv'
  <2>1. ASSUME NEW i \in Items, NEW k \in 1..Len(recv[i])
        PROVE  /\ recv[i][k].src < pos
               /\ table'[prog[i].name] = i
               /\ prog[i].name # nodeAddr =>
                     recv[i][k].dst = prog[i].name /\ recv[i][k].mode # "kDDS"
    <3>1. prog[i].name \in Names /\ i # 0
      BY Basics
    <3>2. table[prog[i].name] = i
      BY <1>0 DEF BoxInv
    <3> QED
      BY <1>0, <1>4, <3>1, <3>2 DEF BoxInv
  <2> QED
    BY <1>0, <1>1, <2>1 DEF BoxInv, Items
<1>10. \A x \in Names : Inbox(x)' = Inbox(x)
  BY <1>1, <1>2, <1>4, <1>6 DEF Inbox
<1>11. LineInv'
  BY <1>0, <1>1, <1>10, LineSame, InOrderSame DEF LineInv
<1>12. \/ NodeItem' = NodeItem
       \/ NodeItem = 0 /\ NodeItem' = pos /\ table[name] = 0
  <2>1. nodeAddr # None => nodeAddr \in Names
    BY Basics
  <2> QED
    BY <1>1, <1>4, <2>1 DEF NodeItem
<1>13. NodeBox' = NodeBox
  BY <1>1, <1>2, <1>6, <1>12 DEF NodeBox
<1>14. \A i, x : Released(i, x)' <=> Released(i, x)
  <2>1. \A y \in ToSet(added) : y < pos
    BY <1>0 DEF HostInv, ToSet
  <2> QED
    BY <1>1, <1>2, <1>12, <2>1 DEF Released
<1>15. \A i, x : HeardOf(i, x)' = HeardOf(i, x)
  BY <1>1, <1>14, SameProg DEF HeardOf
<1>16. NetInv'
  BY <1>0, <1>1, <1>13, <1>15, NetLineSame DEF NetInv
<1> QED
  BY <1>7, <1>8, <1>9, <1>11, <1>16 DEF Loading

(* Dispatching messages of items added already keeps what is known of the   *)
(* mailboxes.                                                               *)
LEMMA BoxDelivered ==
    ASSUME TypeInv, TableInv, BoxInv, NEW ms \in Seq(Msg), Dispatch(ms),
           UNCHANGED <<prog, table, nodeAddr>>, pos' \in Nat, pos <= pos',
           \A y : In(ms, y) => y.src < pos',
           \A y : In(cache', y) => y.src \in 1..pos' - 1,
           mpc' = "loop" => cache' = <<>>
    PROVE  BoxInv'
<1>0. Items' = Items /\ recv \in [Items -> Seq(Msg)] /\ pos \in Nat
  BY Basics DEF Items
<1>1. ASSUME NEW i \in Items, NEW k \in 1..Len(recv'[i])
      PROVE  recv'[i][k].src < pos' /\ For(recv'[i][k], i)
  <2> DEFINE y == recv'[i][k]
  <2>1. In(recv'[i], y)
    BY DEF In
  <2> HIDE DEF y
  <2>2. In(recv[i], y) \/ (In(ms, y) /\ For(y, i))
    BY <2>1, DeliveredTo
  <2>3. CASE In(recv[i], y)
    <3>1. PICK l \in 1..Len(recv[i]) : recv[i][l] = y
      BY <2>3 DEF In
    <3>2. y \in Msg
      <4>1. recv[i] \in Seq(Msg)
        BY <1>0
      <4> QED
        BY <3>1, <4>1, ElementOfSeq
    <3>3. y.src \in Int
      BY <3>2, Basics DEF Msg
    <3> QED
      BY <1>0, <3>1, <3>3 DEF BoxInv, For, y
  <2>4. CASE In(ms, y) /\ For(y, i)
    BY <2>4 DEF y
  <2> QED
    BY <2>2, <2>3, <2>4
<1>2. \A k \in 1..Len(cache') : cache'[k].src \in 1..pos' - 1
  BY DEF In
<1> QED
  BY <1>0, <1>1, <1>2 DEF BoxInv, For

(* Who is in the cache, and in a mailbox.                                   *)
LEMMA InCache ==
    ASSUME TypeInv, BoxInv
    PROVE  \A y : In(cache, y) => y \in Msg /\ y.src \in 1..pos - 1
<1>1. cache \in Seq(Msg)
  BY Basics
<1>2. \A k \in 1..Len(cache) : cache[k] \in Msg
  BY <1>1, ElementOfSeq
<1> QED
  BY <1>2 DEF In, BoxInv

LEMMA BoxSources ==
    ASSUME TypeInv, BoxInv, NEW j \in Items
    PROVE  \A y : In(recv[j], y) => y.src < pos
BY DEF In, BoxInv

-----------------------------------------------------------------------------
(* DispatchCache and Arrive.                                                *)

LEMMA LinesDelivered ==
    ASSUME TypeInv, TableInv, BoxInv, NEW ms \in Seq(Msg), Dispatch(ms),
           UNCHANGED <<prog, table, nodeAddr>>, cache' = <<>>,
           \A i \in Items, x \in Names :
              /\ Only(ms, LocalTo(i, x)) = Only(cache, LocalTo(i, x))
              /\ Only(ms, NetTo(i, x)) = Only(cache, NetTo(i, x)),
           NEW i \in Items, NEW x \in Names, x # nodeAddr
    PROVE  /\ table[x] # 0 => Line(i, x)' = Line(i, x)
           /\ NodeItem # 0 => NetLine(i, x)' = NetLine(i, x)
<1>0. LocalTo(i, x)' = LocalTo(i, x) /\ NetTo(i, x)' = NetTo(i, x)
  BY SameProg
<1>1. \A S : Only(cache', S) = <<>>
  BY OnlyEmpty
<1>2. \A S : Only(cache, S) \in Seq(Msg)
  BY Basics, OnlyType
<1>3. ASSUME table[x] # 0 PROVE Line(i, x)' = Line(i, x)
  <2> DEFINE S == LocalTo(i, x)
             p == Only(Inbox(x), S)
             q == Only(cache, S)
  <2>1. Only(Inbox(x)', S) = p \o q
    BY <1>3, DeliverLocal
  <2>2. Inbox(x) \in Seq(Msg)
    BY <1>3, Basics DEF Inbox
  <2>3. p \in Seq(Msg) /\ q \in Seq(Msg)
    BY <1>2, <2>2, OnlyType
  <2>4. Line(i, x)' = Only(Inbox(x)', S) \o <<>>
    BY <1>0, <1>1 DEF Line
  <2>5. Line(i, x) = p \o q
    BY DEF Line
  <2> HIDE DEF p, q
  <2>6. p \o q \in Seq(Msg)
    BY <2>3, ConcatProperties
  <2>7. (p \o q) \o <<>> = p \o q
    BY <2>6, ConcatEmptySeq
  <2> QED
    BY <2>1, <2>4, <2>5, <2>7
<1>4. ASSUME NodeItem # 0 PROVE NetLine(i, x)' = NetLine(i, x)
  <2> DEFINE S == NetTo(i, x)
             p == Only(NodeBox, S)
             q == Only(cache, S)
  <2>1. Only(NodeBox', S) = p \o q
    BY <1>4, DeliverNet
  <2>2. NodeBox \in Seq(Msg)
    BY <1>4, Basics DEF NodeBox, NodeItem
  <2>3. p \in Seq(Msg) /\ q \in Seq(Msg)
    BY <1>2, <2>2, OnlyType
  <2>4. NetLine(i, x)' = Only(NodeBox', S) \o <<>>
    BY <1>0, <1>1 DEF NetLine
  <2>5. NetLine(i, x) = p \o q
    BY DEF NetLine
  <2> HIDE DEF p, q
  <2>6. p \o q \in Seq(Msg)
    BY <2>3, ConcatProperties
  <2>7. (p \o q) \o <<>> = p \o q
    BY <2>6, ConcatEmptySeq
  <2> QED
    BY <2>1, <2>4, <2>5, <2>7
<1> QED
  BY <1>3, <1>4

(* Steps of the main thread that dispatch, and leave nothing to wait.       *)
LEMMA MainDelivers ==
    ASSUME TypeInv, Loading, NEW ms \in Seq(Msg), Dispatch(ms),
           UNCHANGED <<prog, pos, hpc, table, nodeAddr, added>>, cache' = <<>>,
           mpc # "off", mpc' = "loop",
           \A y : In(ms, y) => y.src < pos,
           \A i \in Items, x \in Names :
              /\ Only(ms, LocalTo(i, x)) = Only(cache, LocalTo(i, x))
              /\ Only(ms, NetTo(i, x)) = Only(cache, NetTo(i, x))
    PROVE  Loading'
<1>0. HostInv /\ TableInv /\ BoxInv /\ LineInv /\ NetInv
  BY DEF Loading
<1>1. HostInv'
  BY <1>0 DEF HostInv, Items
<1>2. TableInv'
  BY <1>0 DEF TableInv, Items
<1>3. BoxInv'
  <2>1. pos \in Nat
    BY Basics
  <2>2. \A y : ~In(cache', y)
    BY EmptySeq DEF In
  <2> QED
    BY <1>0, <2>1, <2>2, BoxDelivered
<1>4. \A k \in 1..Len(added) : added[k] \in Items
  BY Basics
<1>5. LineInv'
  <2>1. ASSUME NEW k \in 1..Len(added), NEW x \in Names, x # nodeAddr, table[x] # 0
        PROVE  Line(added[k], x)' \in InOrder(added[k], x)'
    <3>1. PICK i \in Items : i = added[k] /\ i = added'[k]
      BY <1>4
    <3>2. Line(i, x)' = Line(i, x)
      BY <1>0, <2>1, <3>1, LinesDelivered
    <3>3. InOrder(i, x)' = InOrder(i, x)
      BY InOrderSame
    <3>4. Line(i, x) \in InOrder(i, x)
      BY <1>0, <2>1, <3>1 DEF LineInv
    <3> QED
      BY <3>1, <3>2, <3>3, <3>4
  <2> QED
    BY <2>1 DEF LineInv
<1>6. NodeItem' = NodeItem
  BY DEF NodeItem
<1>7. NetInv'
  <2>1. ASSUME NEW k \in 1..Len(added), NEW x \in Names, x # nodeAddr, NodeItem # 0
        PROVE  NetLine(added[k], x)' = HeardOf(added[k], x)'
    <3>1. PICK i \in Items : i = added[k] /\ i = added'[k]
      BY <1>4
    <3>2. NetLine(i, x)' = NetLine(i, x)
      BY <1>0, <2>1, <3>1, LinesDelivered
    <3>3. HeardOf(i, x)' = HeardOf(i, x)
      BY <1>6, HeardOfSame
    <3>4. NetLine(i, x) = HeardOf(i, x)
      BY <1>0, <2>1, <3>1 DEF NetInv
    <3> QED
      BY <3>1, <3>2, <3>3, <3>4
  <2> QED
    BY <1>6, <2>1 DEF NetInv
<1> QED
  BY <1>1, <1>2, <1>3, <1>5, <1>7 DEF Loading

LEMMA DispatchCacheKeeps == ASSUME TypeInv, Loading, DispatchCache PROVE Loading'
<1>1. cache \in Seq(Msg) /\ pos \in Nat
  BY Basics
<1>2. /\ Dispatch(cache) /\ cache' = <<>> /\ mpc # "off" /\ mpc' = "loop"
      /\ UNCHANGED <<prog, pos, hpc, table, nodeAddr, added>>
  BY DEF DispatchCache
<1>3. \A y : In(cache, y) => y.src < pos
  BY <1>1, InCache DEF Loading
<1> QED
  BY <1>1, <1>2, <1>3, MainDelivers

LEMMA ArriveKeeps ==
    ASSUME TypeInv, Loading, NEW n \in Names, Arrive(n)
    PROVE  Loading'
<1> DEFINE m == [src |-> 0, n |-> arrivals', dst |-> n, mode |-> "kIntra"]
           ms == <<m>>
<1>1. /\ mpc = "loop" /\ mpc' = "loop" /\ Dispatch(ms)
      /\ UNCHANGED <<prog, pos, hpc, table, nodeAddr, cache, added>>
  BY DEF Arrive
<1>2. cache = <<>> /\ cache' = <<>>
  BY <1>1 DEF Loading, BoxInv
<1>3. m \in Msg
  <2>1. arrivals' \in Nat \ {0} /\ Len(prog) \in Nat
    BY LifeAssumption DEF TypeInv, AppType, Arrive
  <2> QED
    BY <2>1 DEF Msg, Modes
<1>4. m.src = 0
  OBVIOUS
<1> HIDE DEF m
<1>5. ms \in Seq(Msg) /\ Len(ms) = 1 /\ ms[1] = m
  BY <1>3
<1> HIDE DEF ms
<1>6. \A y : In(ms, y) => y = m
  BY <1>5 DEF In
<1>7. pos \in Nat /\ pos # 0
  BY DEF TypeInv, AppType
<1>8. \A y : In(ms, y) => y.src < pos
  BY <1>4, <1>6, <1>7
<1>9. ASSUME NEW i \in Items, NEW x \in Names
      PROVE  /\ Only(ms, LocalTo(i, x)) = Only(cache, LocalTo(i, x))
             /\ Only(ms, NetTo(i, x)) = Only(cache, NetTo(i, x))
  <2>1. i # 0
    BY DEF Items
  <2>2. \A y \in LocalTo(i, x) : ~In(ms, y)
    BY <1>4, <1>6, <2>1 DEF LocalTo
  <2>3. \A y \in NetTo(i, x) : ~In(ms, y)
    BY <1>4, <1>6, <2>1 DEF NetTo
  <2>4. Only(ms, LocalTo(i, x)) = <<>> /\ Only(ms, NetTo(i, x)) = <<>>
    BY <1>5, <2>2, <2>3, OnlyIn
  <2>5. \A S : Only(cache, S) = <<>>
    BY <1>2, OnlyEmpty
  <2> QED
    BY <2>4, <2>5
<1> QED
  BY <1>1, <1>2, <1>5, <1>8, <1>9, MainDelivers

-----------------------------------------------------------------------------
(* AddDispatch: the cached messages that are released and those that go on  *)
(* waiting, the messages of Init that are sent and those that are held.     *)
Freed   == Only(cache, { m \in Msg : m.dst = prog[pos].name })
Unfreed == Only(cache, { m \in Msg : m.dst # prog[pos].name })
Sent    == Only(Sends(pos), { m \in Msg : ~Cached(m) })
Held    == Only(Sends(pos), { m \in Msg : Cached(m) })

LEMMA AddDispatchIs ==
    ASSUME AddDispatch, HostInv
    PROVE  /\ Dispatch(Freed \o Sent) /\ cache' = Unfreed \o Held
           /\ added' = Append(added, pos) /\ pos' = pos + 1
           /\ hpc = "dispatch" /\ hpc' = "add" /\ pos \in Items
           /\ mpc = "off" /\ mpc' = "off" /\ appState' # "running"
           /\ UNCHANGED <<prog, table, nodeAddr>>
<1>1. hpc = "dispatch" /\ appState # "running" /\ mpc = "off" /\ pos \in Items
  BY DEF AddDispatch, HostInv
<1> QED
  BY <1>1 DEF AddDispatch, Freed, Unfreed, Sent, Held

LEMMA SplitType ==
    ASSUME TypeInv, pos \in Items
    PROVE  /\ Freed \in Seq(Msg) /\ Unfreed \in Seq(Msg)
           /\ Sent \in Seq(Msg) /\ Held \in Seq(Msg)
           /\ Freed \o Sent \in Seq(Msg) /\ Unfreed \o Held \in Seq(Msg)
<1>1. cache \in Seq(Msg) /\ Sends(pos) \in Seq(Msg)
  BY Basics
<1>2. Freed \in Seq(Msg) /\ Unfreed \in Seq(Msg) /\ Sent \in Seq(Msg) /\ Held \in Seq(Msg)
  BY <1>1, OnlyType DEF Freed, Unfreed, Sent, Held
<1> QED
  BY <1>2, ConcatProperties

LEMMA MsgConcat ==
    ASSUME NEW p \in Seq(Msg), NEW q \in Seq(Msg), NEW S
    PROVE  Only(p \o q, S) = Only(p, S) \o Only(q, S)
<1>1. Splits(p, q, S)
  BY OnlySplits
<1> QED
  BY <1>1, Zenon DEF Splits

LEMMA SplitOnly ==
    ASSUME TypeInv, pos \in Items, NEW S
    PROVE  /\ Only(Freed \o Sent, S) = Only(Freed, S) \o Only(Sent, S)
           /\ Only(Unfreed \o Held, S) = Only(Unfreed, S) \o Only(Held, S)
<1>1. Freed \in Seq(Msg) /\ Sent \in Seq(Msg) /\ Unfreed \in Seq(Msg) /\ Held \in Seq(Msg)
  BY SplitType
<1>2. \A p, q \in Seq(Msg) : Only(p \o q, S) = Only(p, S) \o Only(q, S)
  BY MsgConcat
<1> QED
  BY <1>1, <1>2, Zenon

LEMMA SplitIn ==
    ASSUME TypeInv, BoxInv, pos \in Items
    PROVE  /\ \A y : In(Freed, y) \/ In(Unfreed, y) => y \in Msg /\ y.src \in 1..pos - 1
           /\ \A y : In(Sent, y) \/ In(Held, y) => y \in Msg /\ y.src = pos
<1>1. cache \in Seq(Msg) /\ Sends(pos) \in Seq(Msg)
  BY Basics
<1>2. \A y : In(Freed, y) \/ In(Unfreed, y) => In(cache, y)
  BY <1>1, OnlyType DEF Freed, Unfreed
<1>3. \A y : In(Sent, y) \/ In(Held, y) => In(Sends(pos), y)
  BY <1>1, OnlyType DEF Sent, Held
<1> QED
  BY <1>2, <1>3, InCache, InSends

(* Messages from i to x.                                                    *)
Of(S, i, x) == \A m \in S : m \in Msg /\ m.src = i /\ m.dst = x

LEMMA OfKinds ==
    ASSUME NEW i, NEW x
    PROVE  Of(LocalTo(i, x), i, x) /\ Of(NetTo(i, x), i, x)
BY DEF Of, LocalTo, NetTo

LEMMA FreedOnly ==
    ASSUME TypeInv, NEW S, NEW i, NEW x, Of(S, i, x)
    PROVE  /\ x = prog[pos].name =>
                Only(Freed, S) = Only(cache, S) /\ Only(Unfreed, S) = <<>>
           /\ x # prog[pos].name =>
                Only(Freed, S) = <<>> /\ Only(Unfreed, S) = Only(cache, S)
<1> DEFINE A == { m \in Msg : m.dst = prog[pos].name }
           B == { m \in Msg : m.dst # prog[pos].name }
<1>1. cache \in Seq(Msg)
  BY Basics
<1>2. x = prog[pos].name => S \subseteq A /\ \A y \in S : y \notin B
  BY DEF Of
<1>3. x # prog[pos].name => S \subseteq B /\ \A y \in S : y \notin A
  BY DEF Of
<1>4. Freed = Only(cache, A) /\ Unfreed = Only(cache, B)
  BY DEF Freed, Unfreed
<1> HIDE DEF A, B
<1> QED
  BY <1>1, <1>2, <1>3, <1>4, OnlyWithin, OnlyApart

(* An item that was added before sends nothing now.                         *)
LEMMA OldSplit ==
    ASSUME TypeInv, BoxInv, pos \in Items, NEW S, NEW i, i # pos, NEW x, Of(S, i, x)
    PROVE  /\ x = prog[pos].name =>
                /\ Only(Freed \o Sent, S) = Only(cache, S)
                /\ Only(Unfreed \o Held, S) = <<>>
           /\ x # prog[pos].name =>
                /\ Only(Freed \o Sent, S) = <<>>
                /\ Only(Unfreed \o Held, S) = Only(cache, S)
<1>1. Freed \in Seq(Msg) /\ Unfreed \in Seq(Msg) /\ Sent \in Seq(Msg) /\ Held \in Seq(Msg)
  BY SplitType
<1>2. /\ \A y \in S : ~In(Sent, y)
      /\ \A y \in S : ~In(Held, y)
  BY SplitIn DEF Of
<1>3. Only(Sent, S) = <<>> /\ Only(Held, S) = <<>>
  BY <1>1, <1>2, OnlyIn
<1>4. Only(Freed \o Sent, S) = Only(Freed, S) \o Only(Sent, S)
  BY SplitOnly
<1>5. Only(Unfreed \o Held, S) = Only(Unfreed, S) \o Only(Held, S)
  BY SplitOnly
<1>6. Only(Freed, S) \in Seq(Msg) /\ Only(Unfreed, S) \in Seq(Msg)
  BY <1>1, OnlyType
<1>7. Only(Freed, S) \o <<>> = Only(Freed, S) /\ Only(Unfreed, S) \o <<>> = Only(Unfreed, S)
  BY <1>6, ConcatEmptySeq
<1> QED
  BY <1>3, <1>4, <1>5, <1>7, FreedOnly

(* Of the item that is added nothing was sent before.                       *)
LEMMA NewSplit ==
    ASSUME TypeInv, BoxInv, pos \in Items, NEW S, NEW x, Of(S, pos, x)
    PROVE  /\ Only(Freed \o Sent, S) = Only(Sent, S)
           /\ Only(Unfreed \o Held, S) = Only(Held, S)
           /\ \A j \in Items : Only(recv[j], S) = <<>>
<1>1. Freed \in Seq(Msg) /\ Unfreed \in Seq(Msg) /\ Sent \in Seq(Msg) /\ Held \in Seq(Msg)
  BY SplitType
<1>2. pos \in Int /\ recv \in [Items -> Seq(Msg)]
  BY Basics
<1>3. /\ \A y \in S : ~In(Freed, y)
      /\ \A y \in S : ~In(Unfreed, y)
  BY <1>2, SplitIn DEF Of
<1>4. Only(Freed, S) = <<>> /\ Only(Unfreed, S) = <<>>
  BY <1>1, <1>3, OnlyIn
<1>5. Only(Freed \o Sent, S) = Only(Freed, S) \o Only(Sent, S)
  BY SplitOnly
<1>6. Only(Unfreed \o Held, S) = Only(Unfreed, S) \o Only(Held, S)
  BY SplitOnly
<1>7. Only(Sent, S) \in Seq(Msg) /\ Only(Held, S) \in Seq(Msg)
  BY <1>1, OnlyType
<1>8. <<>> \o Only(Sent, S) = Only(Sent, S) /\ <<>> \o Only(Held, S) = Only(Held, S)
  BY <1>7, ConcatEmptySeq
<1>9. ASSUME NEW j \in Items PROVE Only(recv[j], S) = <<>>
  <2>1. \A y \in S : ~In(recv[j], y)
    BY <1>2, BoxSources DEF Of
  <2>2. recv[j] \in Seq(Msg)
    BY <1>2
  <2> QED
    BY <2>1, <2>2, OnlyIn
<1> QED
  BY <1>4, <1>5, <1>6, <1>8, <1>9

(* What of its messages waits.                                              *)
LEMMA HeldOnly ==
    ASSUME TypeInv, pos \in Items, NEW x
    PROVE  /\ table[x] # 0 =>
                /\ Only(Sent, LocalTo(pos, x)) = Only(Sends(pos), LocalTo(pos, x) \cap Intra)
                /\ Only(Held, LocalTo(pos, x)) = Only(Sends(pos), LocalTo(pos, x) \ Intra)
           /\ table[x] = 0 => Only(Held, LocalTo(pos, x)) = Only(Sends(pos), LocalTo(pos, x))
           /\ Only(Sent, NetTo(pos, x)) = <<>>
           /\ Only(Held, NetTo(pos, x)) = Only(Sends(pos), NetTo(pos, x))
<1> DEFINE A == { m \in Msg : ~Cached(m) }
           B == { m \in Msg : Cached(m) }
           L == LocalTo(pos, x)
           N == NetTo(pos, x)
           q == Sends(pos)
<1>1. q \in Seq(Msg)
  BY Basics
<1>2. Sent = Only(q, A) /\ Held = Only(q, B)
  BY DEF Sent, Held
<1>3. table[x] # 0 => A \cap L = L \cap Intra /\ B \cap L = L \ Intra
  BY DEF Cached, LocalTo, Intra
<1>4. table[x] = 0 => L \subseteq B
  BY DEF Cached, LocalTo
<1>5. N \subseteq B /\ \A y \in N : y \notin A
  BY DEF Cached, NetTo
<1> HIDE DEF A, B, L, N, q
<1>6. Only(Sent, L) = Only(q, A \cap L) /\ Only(Held, L) = Only(q, B \cap L)
  BY <1>1, <1>2, OnlyOnly
<1>7. table[x] # 0 => /\ Only(Sent, L) = Only(q, L \cap Intra)
                      /\ Only(Held, L) = Only(q, L \ Intra)
  BY <1>3, <1>6, Zenon
<1>8. table[x] = 0 => Only(Held, L) = Only(q, L)
  BY <1>1, <1>2, <1>4, OnlyWithin
<1>9. Only(Held, N) = Only(q, N)
  BY <1>1, <1>2, <1>5, OnlyWithin
<1>10. Only(Sent, N) = <<>>
  BY <1>1, <1>2, <1>5, OnlyApart
<1> QED
  BY <1>7, <1>8, <1>9, <1>10 DEF L, N, q

-----------------------------------------------------------------------------
(* The two lines that Loading follows, local and to the node, when the item *)
(* is added: those of items added before, and those of the new one.         *)
LEMMA LineOld ==
    ASSUME TypeInv, Loading, AddDispatch, NEW i, i # pos, NEW x \in Names, x # nodeAddr
    PROVE  Line(i, x)' = Line(i, x)
<1> DEFINE S == LocalTo(i, x)
           b == Only(Inbox(x), S)
           c == Only(cache, S)
<1>0. HostInv /\ TableInv /\ BoxInv
  BY DEF Loading
<1>1. /\ Dispatch(Freed \o Sent) /\ cache' = Unfreed \o Held /\ UNCHANGED <<prog, table, nodeAddr>>
      /\ pos \in Items /\ hpc = "dispatch"
  BY <1>0, AddDispatchIs
<1>2. /\ x = prog[pos].name => Only(Freed \o Sent, S) = c /\ Only(cache', S) = <<>>
      /\ x # prog[pos].name => Only(Freed \o Sent, S) = <<>> /\ Only(cache', S) = c
  BY <1>0, <1>1, OldSplit, OfKinds
<1>3. Line(i, x)' = Only(Inbox(x)', S) \o Only(cache', S) /\ Line(i, x) = b \o c
  BY <1>1, SameProg DEF Line
<1>4. Inbox(x) \in Seq(Msg) /\ cache \in Seq(Msg)
  BY Basics, EmptySeq DEF Inbox
<1>5. b \in Seq(Msg) /\ c \in Seq(Msg)
  BY <1>4, OnlyType
<1>6. CASE table[x] # 0
  <2>1. Freed \o Sent \in Seq(Msg)
    BY <1>1, SplitType
  <2>2. Only(Inbox(x)', S) = b \o Only(Freed \o Sent, S)
    BY <1>0, <1>1, <1>6, <2>1, DeliverLocal
  <2> HIDE DEF b, c
  <2>3. b \o c \in Seq(Msg)
    BY <1>5, ConcatProperties
  <2>4. (b \o c) \o <<>> = b \o c /\ b \o <<>> = b
    BY <1>5, <2>3, ConcatEmptySeq
  <2> QED
    BY <1>2, <1>3, <2>2, <2>4
<1>7. CASE table[x] = 0
  <2>1. x # prog[pos].name
    BY <1>0, <1>1, <1>7 DEF TableInv
  <2>2. Inbox(x)' = Inbox(x)
    BY <1>1, <1>7 DEF Inbox
  <2> QED
    BY <1>2, <1>3, <2>1, <2>2
<1> QED
  BY <1>6, <1>7

LEMMA LineNew ==
    ASSUME TypeInv, Loading, AddDispatch, NEW i, i = pos, NEW x \in Names, x # nodeAddr
    PROVE  Line(i, x)' \in InOrder(i, x)
<1> DEFINE S == LocalTo(i, x)
<1>0. HostInv /\ TableInv /\ BoxInv
  BY DEF Loading
<1>1. /\ Dispatch(Freed \o Sent) /\ cache' = Unfreed \o Held /\ UNCHANGED <<prog, table, nodeAddr>>
      /\ pos \in Items
  BY <1>0, AddDispatchIs
<1>2. /\ Only(Freed \o Sent, S) = Only(Sent, S) /\ Only(cache', S) = Only(Held, S)
      /\ \A j \in Items : Only(recv[j], S) = <<>>
  BY <1>0, <1>1, NewSplit, OfKinds
<1>3. Line(i, x)' = Only(Inbox(x)', S) \o Only(cache', S)
  BY <1>1, SameProg DEF Line
<1>4. Only(Sent, S) \in Seq(Msg) /\ Only(Held, S) \in Seq(Msg)
  BY <1>1, SplitType, OnlyType
<1>5. CASE table[x] # 0
  <2>1. Freed \o Sent \in Seq(Msg)
    BY <1>1, SplitType
  <2>2. Only(Inbox(x)', S) = Only(Inbox(x), S) \o Only(Freed \o Sent, S)
    BY <1>0, <1>1, <1>5, <2>1, DeliverLocal
  <2>3. Only(Inbox(x), S) = <<>>
    BY <1>2, <1>5, Basics DEF Inbox
  <2>4. <<>> \o Only(Sent, S) = Only(Sent, S)
    BY <1>4, ConcatEmptySeq
  <2>5. /\ Only(Sent, S) = Only(Sends(i), S \cap Intra)
        /\ Only(Held, S) = Only(Sends(i), S \ Intra)
    BY <1>1, <1>5, HeldOnly
  <2>6. Line(i, x)' = Only(Sends(i), S \cap Intra) \o Only(Sends(i), S \ Intra)
    BY <1>2, <1>3, <2>2, <2>3, <2>4, <2>5
  <2> QED
    BY <2>6 DEF InOrder
<1>6. CASE table[x] = 0
  <2>1. Only(Inbox(x)', S) = <<>>
    BY <1>1, <1>6, OnlyEmpty DEF Inbox
  <2>2. <<>> \o Only(Held, S) = Only(Held, S)
    BY <1>4, ConcatEmptySeq
  <2>3. Only(Held, S) = Only(Sends(i), S)
    BY <1>1, <1>6, HeldOnly
  <2>4. Line(i, x)' = Only(Sends(i), S)
    BY <1>2, <1>3, <2>1, <2>2, <2>3
  <2> QED
    BY <2>4 DEF InOrder
<1> QED
  BY <1>5, <1>6

LEMMA NetOld ==
    ASSUME TypeInv, Loading, AddDispatch, NEW i, i # pos, NEW x \in Names, x # nodeAddr
    PROVE  /\ NodeItem # 0 \/ x # prog[pos].name => NetLine(i, x)' = NetLine(i, x)
           /\ NodeItem = 0 /\ x = prog[pos].name => NetLine(i, x)' = <<>>
<1> DEFINE S == NetTo(i, x)
           b == Only(NodeBox, S)
           c == Only(cache, S)
<1>0. HostInv /\ TableInv /\ BoxInv
  BY DEF Loading
<1>1. /\ Dispatch(Freed \o Sent) /\ cache' = Unfreed \o Held /\ UNCHANGED <<prog, table, nodeAddr>>
      /\ pos \in Items
  BY <1>0, AddDispatchIs
<1>2. /\ x = prog[pos].name => Only(Freed \o Sent, S) = c /\ Only(cache', S) = <<>>
      /\ x # prog[pos].name => Only(Freed \o Sent, S) = <<>> /\ Only(cache', S) = c
  BY <1>0, <1>1, OldSplit, OfKinds
<1>3. NetLine(i, x)' = Only(NodeBox', S) \o Only(cache', S) /\ NetLine(i, x) = b \o c
  BY <1>1, SameProg DEF NetLine
<1>4. NodeBox \in Seq(Msg) /\ cache \in Seq(Msg)
  BY Basics, EmptySeq DEF NodeBox, NodeItem
<1>5. b \in Seq(Msg) /\ c \in Seq(Msg)
  BY <1>4, OnlyType
<1>6. CASE NodeItem # 0
  <2>1. Freed \o Sent \in Seq(Msg)
    BY <1>1, SplitType
  <2>2. Only(NodeBox', S) = b \o Only(Freed \o Sent, S)
    BY <1>0, <1>1, <1>6, <2>1, DeliverNet
  <2> HIDE DEF b, c
  <2>3. b \o c \in Seq(Msg)
    BY <1>5, ConcatProperties
  <2>4. (b \o c) \o <<>> = b \o c /\ b \o <<>> = b
    BY <1>5, <2>3, ConcatEmptySeq
  <2> QED
    BY <1>2, <1>3, <1>6, <2>2, <2>4
<1>7. CASE NodeItem = 0
  <2>1. NodeBox = <<>> /\ NodeBox' = <<>>
    BY <1>1, <1>7 DEF NodeBox, NodeItem
  <2>2. Only(NodeBox', S) = b /\ b = <<>>
    BY <2>1, OnlyEmpty
  <2>3. <<>> \o <<>> = <<>>
    BY EmptySeq, ConcatEmptySeq
  <2> QED
    BY <1>2, <1>3, <1>7, <2>2, <2>3
<1> QED
  BY <1>6, <1>7

LEMMA NetNew ==
    ASSUME TypeInv, Loading, AddDispatch, NEW i, i = pos, NEW x \in Names, x # nodeAddr
    PROVE  NetLine(i, x)' = Only(Sends(i), NetTo(i, x))
<1> DEFINE S == NetTo(i, x)
<1>0. HostInv /\ TableInv /\ BoxInv
  BY DEF Loading
<1>1. /\ Dispatch(Freed \o Sent) /\ cache' = Unfreed \o Held /\ UNCHANGED <<prog, table, nodeAddr>>
      /\ pos \in Items
  BY <1>0, AddDispatchIs
<1>2. /\ Only(Freed \o Sent, S) = Only(Sent, S) /\ Only(cache', S) = Only(Held, S)
      /\ \A j \in Items : Only(recv[j], S) = <<>>
  BY <1>0, <1>1, NewSplit, OfKinds
<1>3. NetLine(i, x)' = Only(NodeBox', S) \o Only(cache', S)
  BY <1>1, SameProg DEF NetLine
<1>4. Only(Sent, S) = <<>> /\ Only(Held, S) = Only(Sends(i), S)
  BY <1>1, HeldOnly
<1>5. Only(Held, S) \in Seq(Msg)
  BY <1>1, SplitType, OnlyType
<1>6. <<>> \o <<>> = <<>> /\ <<>> \o Only(Held, S) = Only(Held, S)
  BY <1>5, EmptySeq, ConcatEmptySeq
<1>7. Only(NodeBox', S) = <<>>
  <2>1. CASE NodeItem # 0
    <3>1. Freed \o Sent \in Seq(Msg)
      BY <1>1, SplitType
    <3>2. Only(NodeBox', S) = Only(NodeBox, S) \o Only(Freed \o Sent, S)
      BY <1>0, <1>1, <2>1, <3>1, DeliverNet
    <3>3. Only(NodeBox, S) = <<>>
      BY <1>2, <2>1, Basics DEF NodeBox, NodeItem
    <3> QED
      BY <1>2, <1>4, <1>6, <3>2, <3>3
  <2>2. CASE NodeItem = 0
    BY <1>1, <2>2, OnlyEmpty DEF NodeBox, NodeItem
  <2> QED
    BY <2>1, <2>2
<1> QED
  BY <1>2, <1>3, <1>4, <1>6, <1>7

LEMMA ReleasedNew ==
    ASSUME TypeInv, Loading, AddDispatch, NEW i \in Items, NEW x
    PROVE  /\ i < pos => (Released(i, x)' <=>
                             Released(i, x) \/ (NodeItem = 0 /\ x = prog[pos].name))
           /\ i = pos => ~(Released(i, x)')
<1>0. HostInv /\ TableInv
  BY DEF Loading
<1>1. /\ added' = Append(added, pos) /\ UNCHANGED <<prog, table, nodeAddr>>
      /\ pos \in Items
  BY <1>0, AddDispatchIs
<1>2. added \in Seq(Items) /\ pos \in Nat
  BY Basics DEF TypeInv, AppType
<1>3. \A y : y \in ToSet(added') <=> y \in ToSet(added) \/ y = pos
  <2>1. \A y : In(Append(added, pos), y) <=> In(added, y) \/ y = pos
    BY <1>1, <1>2, AppendOnce
  <2>2. /\ \A y : y \in ToSet(added) <=> In(added, y)
        /\ \A y : y \in ToSet(Append(added, pos)) <=> In(Append(added, pos), y)
    <3>1. Append(added, pos) \in Seq(Items)
      BY <1>1, <1>2, AppendProperties
    <3>2. DOMAIN added = 1..Len(added) /\ DOMAIN Append(added, pos) = 1..Len(Append(added, pos))
      BY <1>2, <3>1, LenProperties
    <3> QED
      BY <3>2 DEF ToSet, In
  <2> QED
    BY <1>1, <2>1, <2>2
<1>4. \A y \in ToSet(added) : y \in Nat /\ y < pos
  <2>1. \A k \in 1..Len(added) : added[k] \in Nat /\ added[k] < pos
    BY <1>0, Basics DEF HostInv
  <2>2. DOMAIN added = 1..Len(added)
    BY <1>2, LenProperties
  <2> QED
    BY <2>1, <2>2 DEF ToSet
<1>5. NodeItem' = NodeItem
  BY <1>1 DEF NodeItem
<1>6. NodeItem # 0 => NodeItem \in Nat /\ NodeItem <= pos
  BY <1>0, <1>2, Basics DEF TableInv, NodeItem
<1>7. Released(i, x)' <=> \E y \in ToSet(added') :
             i < y /\ (NodeItem = 0 \/ y < NodeItem) /\ prog[y].name = x
  BY <1>1, <1>5 DEF Released
<1>9. ASSUME i < pos
      PROVE  Released(i, x)' <=> Released(i, x) \/ (NodeItem = 0 /\ x = prog[pos].name)
  BY <1>2, <1>3, <1>6, <1>7, <1>9 DEF Released
<1>10. ASSUME i = pos PROVE ~(Released(i, x)')
  <2>1. \A y \in ToSet(added') : ~(pos < y)
    BY <1>2, <1>3, <1>4
  <2> QED
    BY <1>7, <1>10, <2>1
<1> QED
  BY <1>9, <1>10

LEMMA AddDispatchKeeps == ASSUME TypeInv, Loading, AddDispatch PROVE Loading'
<1>0. HostInv /\ TableInv /\ BoxInv /\ LineInv /\ NetInv
  BY DEF Loading
<1>1. /\ Dispatch(Freed \o Sent) /\ cache' = Unfreed \o Held
      /\ added' = Append(added, pos) /\ pos' = pos + 1
      /\ hpc = "dispatch" /\ hpc' = "add" /\ pos \in Items
      /\ mpc = "off" /\ mpc' = "off" /\ appState' # "running"
      /\ UNCHANGED <<prog, table, nodeAddr>>
  BY <1>0, AddDispatchIs
<1>2. pos \in Nat /\ pos # 0 /\ Len(added) \in Nat /\ added \in Seq(Items)
  BY <1>1, Basics DEF TypeInv, AppType
<1>3. /\ Len(added') = Len(added) + 1 /\ added'[Len(added) + 1] = pos
      /\ \A k \in 1..Len(added) : added'[k] = added[k]
  BY <1>1, <1>2, AppendProperties
<1>4. \A k \in 1..Len(added) : added[k] \in Items /\ added[k] \in Nat /\ added[k] < pos
  BY <1>0, Basics DEF HostInv
<1>5. \A k \in 1..Len(added') : \/ k \in 1..Len(added) /\ added'[k] = added[k]
                                \/ added'[k] = pos
  BY <1>2, <1>3
<1>6. HostInv'
  BY <1>1, <1>2, <1>4, <1>5 DEF HostInv
<1>7. TableInv'
  <2>1. \A x \in Names : table[x] \in Nat
    BY Basics
  <2>5. \A x \in Names : table[x] # 0 => prog[table[x]].name = x
    BY <1>0 DEF TableInv
  <2>6. \A x \in Names : table[x] # 0 => table[x] < pos \/ table[x] = pos
    BY <1>0 DEF TableInv
  <2>2. \A x \in Names : table[x] # 0 => prog[table[x]].name = x /\ table[x] < pos + 1
    BY <1>2, <2>1, <2>5, <2>6
  <2>3. \A x \in Nodes : table[x] # 0 => nodeAddr = x
    BY <1>0 DEF TableInv
  <2>4. nodeAddr # None /\ table[nodeAddr] = 0 =>
            \E i \in Items : prog[i].name = nodeAddr /\ prog[i].fails
    BY <1>0, <1>1 DEF TableInv
  <2> QED
    BY <1>1, <2>2, <2>3, <2>4 DEF TableInv, Items
<1>8. BoxInv'
  <2>1. Freed \o Sent \in Seq(Msg) /\ Freed \in Seq(Msg) /\ Sent \in Seq(Msg)
        /\ Unfreed \in Seq(Msg) /\ Held \in Seq(Msg)
    BY <1>1, SplitType
  <2>2. /\ \A y : In(Freed, y) \/ In(Unfreed, y) => y.src \in 1..pos - 1
        /\ \A y : In(Sent, y) \/ In(Held, y) => y.src = pos
    BY <1>0, <1>1, SplitIn
  <2>3. \A y : In(Freed \o Sent, y) <=> In(Freed, y) \/ In(Sent, y)
    BY <2>1, InConcat
  <2>4. \A y : In(cache', y) <=> In(Unfreed, y) \/ In(Held, y)
    BY <1>1, <2>1, InConcat
  <2>5. \A y : In(Freed \o Sent, y) => y.src < pos'
    BY <1>1, <1>2, <2>2, <2>3
  <2>6. \A y : In(cache', y) => y.src \in 1..pos' - 1
    BY <1>1, <1>2, <2>2, <2>4
  <2>7. pos' \in Nat /\ pos <= pos' /\ mpc' # "loop"
    BY <1>1, <1>2
  <2> QED
    BY <1>0, <1>1, <2>1, <2>5, <2>6, <2>7, BoxDelivered
<1>9. LineInv'
  <2>1. ASSUME NEW k \in 1..Len(added'), NEW x \in Names, x # nodeAddr
        PROVE  Line(added[k], x)' \in InOrder(added[k], x)'
    <3>1. PICK i \in Items : i = added'[k]
      BY <1>1, <1>4, <1>5
    <3>2. CASE i = pos
      <4>1. Line(i, x)' \in InOrder(i, x)
        BY <2>1, <3>2, LineNew
      <4> QED
        BY <1>1, <3>1, <4>1, InOrderSame
    <3>3. CASE i # pos
      <4>1. k \in 1..Len(added) /\ i = added[k]
        BY <1>5, <3>1, <3>3
      <4>2. Line(i, x) \in InOrder(i, x)
        BY <1>0, <1>1, <2>1, <4>1 DEF LineInv
      <4>3. Line(i, x)' = Line(i, x)
        BY <2>1, <3>3, LineOld
      <4> QED
        BY <1>1, <3>1, <4>2, <4>3, InOrderSame
    <3> QED
      BY <3>2, <3>3
  <2> QED
    BY <1>1, <2>1 DEF LineInv
<1>10. NetInv'
  <2>1. ASSUME NEW k \in 1..Len(added'), NEW x \in Names, x # nodeAddr
        PROVE  NetLine(added[k], x)' = HeardOf(added[k], x)'
    <3>1. PICK i \in Items : i = added'[k]
      BY <1>1, <1>4, <1>5
    <3>2. HeardOf(i, x)' = IF Released(i, x)' THEN <<>> ELSE Only(Sends(i), NetTo(i, x))
      BY <1>1, SameProg DEF HeardOf
    <3>3. CASE i = pos
      <4>1. NetLine(i, x)' = Only(Sends(i), NetTo(i, x))
        BY <2>1, <3>3, NetNew
      <4>2. ~(Released(i, x)')
        BY <3>3, ReleasedNew
      <4> QED
        BY <3>1, <3>2, <4>1, <4>2
    <3>4. CASE i # pos
      <4>1. k \in 1..Len(added) /\ i = added[k] /\ i < pos
        BY <1>4, <1>5, <3>1, <3>4
      <4>2. NetLine(i, x) = HeardOf(i, x)
        BY <1>0, <1>1, <2>1, <4>1 DEF NetInv
      <4>3. Released(i, x)' <=> Released(i, x) \/ (NodeItem = 0 /\ x = prog[pos].name)
        BY <4>1, ReleasedNew
      <4>4. /\ NodeItem # 0 \/ x # prog[pos].name => NetLine(i, x)' = NetLine(i, x)
            /\ NodeItem = 0 /\ x = prog[pos].name => NetLine(i, x)' = <<>>
        BY <2>1, <3>4, NetOld
      <4>5. NetLine(i, x)' = HeardOf(i, x)'
        BY <3>2, <4>2, <4>3, <4>4 DEF HeardOf
      <4> QED
        BY <3>1, <4>5
    <3> QED
      BY <3>3, <3>4
  <2> QED
    BY <1>1, <2>1 DEF NetInv
<1> QED
  BY <1>6, <1>7, <1>8, <1>9, <1>10 DEF Loading

LEMMA LoadNext ==
    ASSUME TypeInv, LoadInv, [Next]_vars
    PROVE  LoadInv'
<1> SUFFICES ASSUME ~Late, Looping' PROVE Loading'
  BY DEF LoadInv
<1>1. Looping
  <2>1. mpc \in {"off", "check", "store", "cached", "loop", "join", "clear", "done"}
    BY DEF TypeInv, AppType
  <2> QED
    BY <2>1 DEF Next, Host, AddBegin, AddTable, AddDispatch, CallExec, Exec, ExecCheck,
       ExecStore, DispatchCache, LoopEnd, Join, Clear, Assign, ProcessWorkerEvent, Del, Idle,
       Quit, QuitCheck, QuitStore, StopAllWorker, AddWorkerCheck, WorkerThread,
       AddWorkerRegister, AddWorkerCount, Start, WorkerEnds, WorkerStep, Arrive, vars, Looping
<1>2. Loading
  BY <1>1 DEF LoadInv
<1>3. hpc \in {"table", "dispatch"} => mpc = "off"
  BY <1>2 DEF Loading, HostInv
<1>4. CASE Host
  <2>1. CASE CallExec
    <3>1. Quiet
      BY <1>3, <2>1 DEF CallExec, actorVars, Quiet
    <3> QED
      BY <1>2, <3>1, QuietKeeps
  <2> QED
    BY <1>2, <1>4, <2>1, AddBeginKeeps, AddTableKeeps, AddDispatchKeeps DEF Host
<1>5. CASE DispatchCache
  BY <1>2, <1>5, DispatchCacheKeeps
<1>6. CASE \E n \in Names : Arrive(n)
  BY <1>2, <1>6, ArriveKeeps
<1>7. ASSUME NEW c \in Callers, Quit(c) PROVE Loading'
  <2>1. Quiet
    BY <1>3, <1>7 DEF Quit, QuitCheck, QuitStore, StopAllWorker, actorVars, Quiet
  <2> QED
    BY <1>2, <2>1, QuietKeeps
<1>8. ASSUME NEW w \in Workers, AddWorkerCheck(w) \/ WorkerThread(w) \/ Del(w) PROVE Loading'
  <2>1. UNCHANGED <<prog, pos, hpc, appState, mpc, table, nodeAddr, cache, recv, added>>
    BY <1>8 DEF AddWorkerCheck, WorkerThread, AddWorkerRegister, AddWorkerCount, Start,
       WorkerEnds, WorkerStep, Del, actorVars
  <2>2. Quiet
    BY <2>1 DEF Quiet
  <2> QED
    BY <1>2, <2>2, QuietKeeps
<1>9. ASSUME NEW i \in Items, Assign(i) \/ ProcessWorkerEvent(i) PROVE Loading'
  <2>1. UNCHANGED <<prog, pos, hpc, appState, mpc, table, nodeAddr, cache, recv, added>>
    BY <1>9 DEF Assign, ProcessWorkerEvent, actorVars
  <2>2. Quiet
    BY <2>1 DEF Quiet
  <2> QED
    BY <1>2, <2>2, QuietKeeps
<1>10. CASE ExecCheck \/ ExecStore
  <2>1. Quiet
    BY <1>3, <1>10 DEF ExecCheck, ExecStore, actorVars, Quiet
  <2> QED
    BY <1>2, <2>1, QuietKeeps
<1>11. CASE LoopEnd \/ Join \/ Clear
  BY <1>11 DEF LoopEnd, Join, Clear, Looping
<1>12. CASE Idle \/ UNCHANGED vars
  <2>1. Quiet
    BY <1>12 DEF Idle, vars, Quiet
  <2> QED
    BY <1>2, <2>1, QuietKeeps
<1> QED
  BY <1>4, <1>5, <1>6, <1>7, <1>8, <1>9, <1>10, <1>11, <1>12 DEF Next, Exec

-----------------------------------------------------------------------------
(* What the lines say of the mailboxes when Exec has emptied its cache.     *)

LEMMA SendsOnce ==
    ASSUME TypeInv, NEW i \in Items, NEW m \in ToSet(Sends(i))
    PROVE  /\ m \in Msg /\ m.src = i
           /\ Only(Sends(i), {m}) = <<m>> /\ Len(<<m>>) = 1
<1>1. prog \in Programs
  BY DEF TypeInv, AppType
<1>2. /\ Sends(i) \in Seq(Msg)
      /\ \A k \in 1..Len(Sends(i)) : Sends(i)[k].src = i /\ Sends(i)[k].n = k
  BY <1>1, SendsType
<1>3. PICK k \in 1..Len(Sends(i)) : m = Sends(i)[k]
  BY <1>2, LenProperties DEF ToSet
<1>4. m \in Msg /\ m.src = i
  BY <1>2, <1>3, ElementOfSeq
<1>5. \A l \in 1..Len(Sends(i)) : Sends(i)[l] = Sends(i)[k] => l = k
  BY <1>2
<1>6. Only(Sends(i), {Sends(i)[k]}) = <<Sends(i)[k]>>
  BY <1>2, <1>5, OnlyOne
<1> QED
  BY <1>3, <1>4, <1>6

(* The order of sending, and local messages before those for the network.   *)
InTurn == { e \in Msg \X Msg :
              e[1].n < e[2].n \/ (e[1].mode = "kIntra" /\ e[2].mode # "kIntra") }

LEMMA SendsSorted ==
    ASSUME TypeInv, NEW i \in Items
    PROVE  Sorted(Sends(i), InTurn)
<1>1. prog \in Programs
  BY DEF TypeInv, AppType
<1>2. /\ Sends(i) \in Seq(Msg)
      /\ \A k \in 1..Len(Sends(i)) : Sends(i)[k].n = k
  BY <1>1, SendsType
<1>3. \A k \in 1..Len(Sends(i)) : Sends(i)[k] \in Msg
  BY <1>2, ElementOfSeq
<1> QED
  BY <1>2, <1>3 DEF Sorted, InTurn

LEMMA InOrderSorted ==
    ASSUME TypeInv, NEW i \in Items, NEW x, NEW l \in InOrder(i, x)
    PROVE  l \in Seq(Msg) /\ Sorted(l, InTurn)
<1> DEFINE q == Sends(i)
           S == LocalTo(i, x)
           a == Only(q, S \cap Intra)
           b == Only(q, S \ Intra)
<1>1. q \in Seq(Msg) /\ Sorted(q, InTurn)
  BY Basics, SendsSorted
<1>2. Only(q, S) \in Seq(Msg) /\ a \in Seq(Msg) /\ b \in Seq(Msg)
  BY <1>1, OnlyType
<1>3. Sorted(Only(q, S), InTurn) /\ Sorted(a, InTurn) /\ Sorted(b, InTurn)
  BY <1>1, OnlySorted
<1>4. l = Only(q, S) \/ l = a \o b
  BY DEF InOrder
<1>5. \A y, z : In(a, y) /\ In(b, z) => <<y, z>> \in InTurn
  <2>1. \A y : In(a, y) => y \in S \cap Intra
    BY <1>1, OnlyType
  <2>2. \A y : In(b, y) => y \in S \ Intra
    BY <1>1, OnlyType
  <2> HIDE DEF a, b
  <2> QED
    BY <2>1, <2>2 DEF InTurn, Intra, LocalTo
<1> HIDE DEF a, b, q, S
<1>6. a \o b \in Seq(Msg) /\ Sorted(a \o b, InTurn)
  BY <1>2, <1>3, <1>5, ConcatProperties, SortedConcat
<1> QED
  BY <1>2, <1>3, <1>4, <1>6

(* Each message that was sent is once in a list that is in order.           *)
LEMMA InOrderOnce ==
    ASSUME TypeInv, NEW i \in Items, NEW x, NEW l \in InOrder(i, x),
           NEW m \in ToSet(Sends(i)), m \in LocalTo(i, x)
    PROVE  Only(l, {m}) = <<m>>
<1> DEFINE q == Sends(i)
           S == LocalTo(i, x)
           A == S \cap Intra
           B == S \ Intra
           a == Only(q, A)
           b == Only(q, B)
<1>1. q \in Seq(Msg) /\ Only(q, {m}) = <<m>> /\ m \in S
  BY Basics, SendsOnce
<1>2. l = Only(q, S) \/ l = a \o b
  BY DEF InOrder
<1>3. /\ m \in Intra => {m} \subseteq A /\ \A y \in {m} : y \notin B
      /\ m \notin Intra => {m} \subseteq B /\ \A y \in {m} : y \notin A
      /\ {m} \subseteq S
  BY <1>1
<1> HIDE DEF q, S, A, B
<1>4. Only(Only(q, S), {m}) = <<m>>
  BY <1>1, <1>3, OnlyWithin
<1>5. a \in Seq(Msg) /\ b \in Seq(Msg)
  BY <1>1, OnlyType
<1>6. Only(a \o b, {m}) = Only(a, {m}) \o Only(b, {m})
  <2>1. \A r, s \in Seq(Msg) : Only(r \o s, {m}) = Only(r, {m}) \o Only(s, {m})
    BY MsgConcat
  <2> HIDE DEF a, b
  <2> QED
    BY <1>5, <2>1, Zenon
<1>7. <<m>> \in Seq(Msg)
  <2>1. m \in Msg
    BY SendsOnce
  <2> QED
    BY <2>1
<1>8. <<m>> \o <<>> = <<m>> /\ <<>> \o <<m>> = <<m>>
  BY <1>7, ConcatEmptySeq
<1>9. m \in Intra => Only(a, {m}) = <<m>> /\ Only(b, {m}) = <<>>
  BY <1>1, <1>3, OnlyWithin, OnlyApart
<1>10. m \notin Intra => Only(a, {m}) = <<>> /\ Only(b, {m}) = <<m>>
  BY <1>1, <1>3, OnlyWithin, OnlyApart
<1> HIDE DEF a, b
<1> QED
  BY <1>2, <1>4, <1>6, <1>8, <1>9, <1>10

(* The mailbox of an item that is not the node.                             *)
LEMMA GotIsLine ==
    ASSUME TypeInv, Loading, mpc = "loop", NEW i \in Items, NEW x \in Names,
           x # nodeAddr, table[x] # 0
    PROVE  /\ Got(i, table[x]) = Line(i, x)
           /\ Only(recv[table[x]], LocalTo(i, x)) = Line(i, x)
<1> DEFINE j == table[x]
           S == LocalTo(i, x)
           A == { m \in Msg : m.src = i }
           r == recv[j]
<1>1. BoxInv /\ TableInv /\ cache = <<>>
  BY DEF Loading, BoxInv
<1>2. j \in Items /\ r \in Seq(Msg) /\ prog[j].name = x
  BY <1>1, Basics DEF TableInv
<1>3. \A k \in 1..Len(r) : r[k] \in Msg
  BY <1>2, ElementOfSeq
<1>4. \A k \in 1..Len(r) : r[k].dst = x /\ r[k].mode # "kDDS"
  BY <1>1, <1>2 DEF BoxInv
<1>5. \A k \in 1..Len(r) : r[k] \in A <=> r[k] \in S
  BY <1>3, <1>4 DEF LocalTo
<1>6. Got(i, j) = Only(r, A)
  BY DEF Got
<1>7. Line(i, x) = Only(r, S) \o Only(cache, S)
  BY DEF Line, Inbox
<1> HIDE DEF r, A, S
<1>8. Only(r, A) = Only(r, S)
  BY <1>2, <1>5, OnlySame
<1>9. Only(cache, S) = <<>> /\ Only(r, S) \in Seq(Msg)
  BY <1>1, <1>2, OnlyEmpty, OnlyType
<1>10. Only(r, S) \o <<>> = Only(r, S)
  BY <1>9, ConcatEmptySeq
<1> QED
  BY <1>6, <1>7, <1>8, <1>9, <1>10 DEF r, S

LEMMA LoadDeliversHolds == ASSUME TypeInv, LoadInv PROVE LoadDelivers
<1> SUFFICES ASSUME mpc = "loop", ~Late, NEW k \in 1..Len(added),
                    NEW m \in ToSet(Sends(added[k])), table[m.dst] # 0,
                    m.dst # nodeAddr, m.mode # "kDDS"
             PROVE  LET i == added[k]
                        j == table[m.dst]
                        got == Got(i, j)
                    IN /\ Times(m, j) = 1
                       /\ \A a, b \in 1..Len(got) :
                             (a < b /\ got[b] = m /\ got[b].n < got[a].n)
                                 => got[b].mode # "kIntra" /\ got[a].mode = "kIntra"
  BY DEF LoadDelivers, Loaded
<1>1. Loading
  BY DEF LoadInv, Looping
<1> DEFINE i == added[k]
           x == m.dst
           j == table[x]
           got == Got(i, j)
           S == LocalTo(i, x)
           r == recv[j]
<1>2. i \in Items
  BY Basics
<1>3. /\ m \in Msg /\ m.src = i /\ Len(<<m>>) = 1 /\ x \in Names
      /\ m \in S
  <2>1. m \in Msg /\ m.src = i /\ Len(<<m>>) = 1
    BY <1>2, SendsOnce
  <2> QED
    BY <2>1 DEF Msg, LocalTo
<1>4. Line(i, x) \in InOrder(i, x)
  BY <1>1, <1>3 DEF Loading, LineInv
<1>5. got = Line(i, x) /\ Only(r, S) = Line(i, x)
  BY <1>1, <1>2, <1>3, GotIsLine
<1>6. got \in Seq(Msg) /\ Sorted(got, InTurn) /\ Len(got) \in Nat
  BY <1>2, <1>4, <1>5, InOrderSorted, LenProperties
<1>7. Times(m, j) = 1
  <2>1. Only(Line(i, x), {m}) = <<m>>
    BY <1>2, <1>3, <1>4, InOrderOnce
  <2>2. r \in Seq(Msg)
    BY <1>3, Basics
  <2>3. {m} \subseteq S
    BY <1>3
  <2> HIDE DEF S, r
  <2>4. Only(Only(r, S), {m}) = Only(r, {m})
    BY <2>2, <2>3, OnlyWithin
  <2>5. Only(r, {m}) = <<m>>
    BY <1>5, <2>1, <2>4
  <2> QED
    BY <1>3, <2>5 DEF Times, r
<1>8. ASSUME NEW a \in 1..Len(got), NEW b \in 1..Len(got),
             a < b, got[b] = m, got[b].n < got[a].n
      PROVE  got[b].mode # "kIntra" /\ got[a].mode = "kIntra"
  <2> DEFINE y == got[a]
             z == got[b]
  <2>1. <<y, z>> \in InTurn
    BY <1>6, <1>8 DEF Sorted
  <2>2. y \in Msg /\ z \in Msg
    BY <1>6, ElementOfSeq
  <2>3. z.n < y.n
    BY <1>8
  <2> HIDE DEF y, z
  <2>4. y.n < z.n \/ (y.mode = "kIntra" /\ z.mode # "kIntra")
    BY <2>1 DEF InTurn
  <2>5. y.n \in Nat /\ z.n \in Nat
    BY <2>2 DEF Msg
  <2>6. y.mode = "kIntra" /\ z.mode # "kIntra"
    BY <2>3, <2>4, <2>5
  <2> QED
    BY <2>6 DEF y, z
<1> QED
  BY <1>7, <1>8

LEMMA NodeHearsHolds == ASSUME TypeInv, LoadInv PROVE NodeHears
<1> SUFFICES ASSUME mpc = "loop", ~Late, nodeAddr # None
             PROVE  LET node == table[nodeAddr] IN
                    IF node = 0
                    THEN \E i \in Items : prog[i].name = nodeAddr /\ prog[i].fails
                    ELSE \A i \in ToSet(added) : \A m \in ToSet(Sends(i)) :
                            (m.mode # "kIntra" /\ m.dst # nodeAddr) =>
                            Times(m, node) =
                                IF \E x \in ToSet(added) :
                                        i < x /\ x < node /\ prog[x].name = m.dst
                                THEN 0 ELSE 1
  BY DEF NodeHears, Loaded
<1>1. Loading
  BY DEF LoadInv, Looping
<1>2. TableInv /\ NetInv /\ cache = <<>> /\ hpc # "table"
  BY <1>1 DEF Loading, BoxInv, HostInv
<1>3. CASE table[nodeAddr] = 0
  BY <1>2, <1>3 DEF TableInv
<1>4. CASE table[nodeAddr] # 0
  <2> DEFINE d == table[nodeAddr]
  <2>1. /\ NodeItem = d /\ NodeItem # 0 /\ NodeBox = recv[d] /\ d \in Items
        /\ recv[d] \in Seq(Msg)
    BY <1>4, Basics DEF NodeItem, NodeBox
  <2>2. ASSUME NEW i \in ToSet(added), NEW m \in ToSet(Sends(i)),
               m.mode # "kIntra", m.dst # nodeAddr
        PROVE  Times(m, d) = IF \E x \in ToSet(added) :
                                     i < x /\ x < d /\ prog[x].name = m.dst
                             THEN 0 ELSE 1
    <3> DEFINE x == m.dst
               S == NetTo(i, x)
               r == recv[d]
               q == Sends(i)
    <3>1. PICK k \in 1..Len(added) : i = added[k]
      BY LenProperties DEF ToSet, TypeInv, AppType
    <3>2. i \in Items /\ q \in Seq(Msg)
      BY <3>1, Basics
    <3>3. m \in Msg /\ m.src = i /\ Only(q, {m}) = <<m>> /\ Len(<<m>>) = 1
      BY <3>2, SendsOnce
    <3>4. x \in Names /\ m \in S
      BY <2>2, <3>3 DEF Msg, NetTo
    <3>5. NetLine(i, x) = HeardOf(i, x)
      BY <1>2, <2>1, <2>2, <3>1, <3>4 DEF NetInv
    <3>6. {m} \subseteq S /\ r \in Seq(Msg)
      BY <2>1, <3>4
    <3>7. NetLine(i, x) = Only(r, S) \o Only(cache, S)
      BY <2>1 DEF NetLine
    <3>8. Released(i, x) <=> \E y \in ToSet(added) : i < y /\ y < d /\ prog[y].name = x
      BY <1>4, <2>1 DEF Released
    <3>9. HeardOf(i, x) = IF Released(i, x) THEN <<>> ELSE Only(q, S)
      BY DEF HeardOf
    <3>10. Times(m, d) = Len(Only(r, {m}))
      BY DEF Times
    <3> HIDE DEF S, r, q, d
    <3>11. Only(r, S) \in Seq(Msg) /\ Only(cache, S) = <<>>
      BY <1>2, <3>6, OnlyType, OnlyEmpty
    <3>12. Only(r, S) = HeardOf(i, x)
      <4>1. Only(r, S) \o <<>> = Only(r, S)
        BY <3>11, ConcatEmptySeq
      <4> QED
        BY <3>5, <3>7, <3>11, <4>1
    <3>13. Only(r, {m}) = Only(HeardOf(i, x), {m})
      BY <3>6, <3>12, OnlyWithin
    <3>14. CASE Released(i, x)
      <4>1. Only(r, {m}) = <<>>
        BY <3>9, <3>13, <3>14, OnlyEmpty
      <4>2. Times(m, d) = 0
        BY <3>10, <4>1, EmptySeq
      <4> QED
        BY <3>8, <3>14, <4>2
    <3>15. CASE ~Released(i, x)
      <4>1. Only(Only(q, S), {m}) = Only(q, {m})
        BY <3>2, <3>6, OnlyWithin
      <4>2. Only(r, {m}) = <<m>>
        BY <3>3, <3>9, <3>13, <3>15, <4>1
      <4>3. Times(m, d) = 1
        BY <3>3, <3>10, <4>2
      <4> QED
        BY <3>8, <3>15, <4>3
    <3> QED
      BY <3>14, <3>15
  <2> QED
    BY <1>4, <2>2
<1> QED
  BY <1>3, <1>4

LEMMA LoadAlways == Spec => [](TypeInv /\ LoadInv)
<1>1. Init => TypeInv /\ LoadInv
  BY TypeInit, LoadInit DEF LoadInv
<1>2. TypeInv /\ LoadInv /\ [Next]_vars => TypeInv' /\ LoadInv'
  BY TypeNext, LoadNext
<1> QED
  BY <1>1, <1>2, PTL DEF Spec

(* A message of an Init hook is in the mailbox of its receiver exactly once *)
(* when Exec loops, in the order of sending up to what overtakes, for every *)
(* program: no order of AddActor loses, doubles or reorders it.             *)
THEOREM MessagesOfInitArrive == Spec => []LoadDelivers
<1>1. TypeInv /\ LoadInv => LoadDelivers
  BY LoadDeliversHolds
<1> QED
  BY <1>1, LoadAlways, PTL

(* The node has every message for the network exactly once, up to those     *)
(* whose receiver was added between their sender and the node.              *)
THEOREM TheNodeHears == Spec => []NodeHears
<1>1. TypeInv /\ LoadInv => NodeHears
  BY NodeHearsHolds
<1> QED
  BY <1>1, LoadAlways, PTL

=============================================================================
