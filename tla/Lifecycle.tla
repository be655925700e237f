------------------------------ MODULE Lifecycle ------------------------------
(****************************************************************************)
(* The life of an application: a host thread (launcher.cpp, a test, a       *)
(* Python program) adds actors to an initialized App and then runs Exec;    *)
(* other threads add workers and call Quit whenever they like.              *)
(*                                                                          *)
(* Two things are decided here.  What becomes of the messages an actor      *)
(* sends in its Init, while their receivers may not exist yet: they are     *)
(* cached, released when the receiver is added, or kept until Exec.  And    *)
(* whether everything that was started ends: the state of the App is tested *)
(* and set by several threads without a lock, workers are registered,       *)
(* started, told to quit, deregistered and joined by different ones.        *)
(*                                                                          *)
(* Scheduling is reduced to the running flag of an actor (the Scheduler     *)
(* module has the rest), worker threads to their beginning and end,         *)
(* subscriptions and publications are in Messages.                          *)
(****************************************************************************)
EXTENDS Integers, Sequences, FiniteSets, SequencesExt, Selection

CONSTANTS
    Names,          \* names of actors
    Nodes,          \* those of type "node"
    None,
    Programs,       \* what the host adds, in order; one of these is picked
    FirstWorkers,   \* the common workers App::Init started
    LateWorkers,    \* user workers that other threads add
    Quitters,       \* threads, other than the host, that may call Quit
    host,
    MaxArrivals,    \* bound on the messages sent from outside
    Late            \* TRUE: actors may be added while Exec runs

Modes == {"kIntra", "kHybrid", "kDDS"}
Send  == [dst : Names, mode : Modes]
Item  == [name : Names, fails : BOOLEAN, sends : Seq(Send)]

ASSUME LifeAssumption ==
    /\ Nodes \subseteq Names /\ None \notin Names
    /\ Programs \subseteq Seq(Item)
    /\ FirstWorkers \cap LateWorkers = {}
    /\ IsFiniteSet(FirstWorkers \cup LateWorkers)
    /\ IsFiniteSet(Quitters) /\ host \notin Quitters
    /\ MaxArrivals \in Nat
    /\ Late \in BOOLEAN

Workers == FirstWorkers \cup LateWorkers
Callers == Quitters \cup {host}

VARIABLES
    prog,       \* the program picked
    pos,        \* the item being added
    hpc,        \* where the host is
    appState,   \* App::state_
    mpc,        \* where App::Exec is
    table,      \* ActorContextManager::ctxs_: the item of a name, or 0
    nodeAddr,   \* App::node_addr_
    cache,      \* App::cache_msgs_
    recv,       \* recv[i]: every message ever put in the mailbox of item i
    taken,      \* how many of them were given to a worker
    running,    \* ActorContext::in_worker_
    executing,  \* how many workers execute the actor
    arrivals,   \* messages that came from outside
    evs,        \* the workers in EventManager::evs_
    stopped,    \* WorkerContextManager::stoped_workers_ctx_
    thread,     \* each worker: "new", "checked", "registered", "counted",
                \* "started", "ended", "joined" or "refused"
    told,       \* how often each worker was sent kQuit
    qpc,        \* where each caller is in App::Quit
    added       \* history: items that AddActor accepted, in order

actorVars  == <<table, nodeAddr, cache, recv>>
runVars    == <<taken, running, executing>>
workerVars == <<evs, stopped, thread, told>>
vars == <<prog, pos, hpc, appState, mpc, table, nodeAddr, cache, recv, taken,
          running, executing, arrivals, evs, stopped, thread, told, qpc,
          added>>

Items == 1..Len(prog)

(* A message: the item that sends it in its Init, or 0 if it comes from     *)
(* outside, its number, its receiver and how it travels.                    *)
Msg == [src : 0..Len(prog), n : Nat \ {0}, dst : Names, mode : Modes]

Init ==
    /\ prog \in Programs
    /\ pos = 1 /\ hpc = "add"
    /\ appState = "initialized" /\ mpc = "off"
    /\ table = [n \in Names |-> 0] /\ nodeAddr = None /\ cache = <<>>
    /\ recv = [i \in Items |-> <<>>] /\ taken = [i \in Items |-> 0]
    /\ running = [i \in Items |-> FALSE]
    /\ executing = [i \in Items |-> 0]
    /\ arrivals = 0
    /\ evs = FirstWorkers /\ stopped = {}
    /\ thread = [w \in Workers |->
                    IF w \in FirstWorkers THEN "started" ELSE "new"]
    /\ told = [w \in Workers |-> 0]
    /\ qpc = [c \in Callers |-> "idle"]
    /\ added = <<>>

-----------------------------------------------------------------------------
(* App::DispatchMsg for a message to an actor: trans2actor, trans2dds (the  *)
(* node is an actor here) or both; a receiver that is not in the table      *)
(* drops it.                                                                *)
Copies(t, node, m, i) ==
    (IF m.mode # "kDDS" /\ t[m.dst] = i THEN <<m>> ELSE <<>>) \o
    (IF m.mode # "kIntra" /\ node # None /\ t[node] = i THEN <<m>> ELSE <<>>)

(* A list of messages is dispatched one by one, under local_mtx_.           *)
Dispatch(ms) ==
    recv' = [i \in Items |-> recv[i] \o
        FlattenSeq([k \in 1..Len(ms) |-> Copies(table, nodeAddr, ms[k], i)])]

(* The messages item i sends in its Init.                                   *)
Sends(i) ==
    [k \in 1..Len(prog[i].sends) |->
        [src |-> i, n |-> k, dst |-> prog[i].sends[k].dst,
         mode |-> prog[i].sends[k].mode]]

-----------------------------------------------------------------------------
(* App::AddActor, on the host thread.  Late additions are modelled once     *)
(* Exec has emptied its cache.                                              *)
MayAdd == mpc = "off" \/ (Late /\ mpc = "loop")

(* AddActor returned false: the host goes on (tests and examples ignore the *)
(* result) or gives up loading and quits (launcher.cpp, the loader stops at *)
(* the first failure).                                                      *)
AddFailed ==
    \/ pos' = pos + 1 /\ hpc' = "add"
    \/ ~Late /\ pos' = Len(prog) + 1 /\ hpc' = "quit"

(* Mutant: whoever comes first claims the address of the node.              *)
AddBeginAnyNode ==
    LET it == prog[pos]
        refused == appState \in {"quitting", "quit"}
    IN
    /\ hpc = "add" /\ pos \in Items /\ MayAdd
    /\ nodeAddr' = IF nodeAddr = None /\ ~refused THEN it.name ELSE nodeAddr
    /\ IF refused \/ it.fails
       THEN AddFailed
       ELSE hpc' = "table" /\ UNCHANGED pos
    /\ UNCHANGED <<prog, appState, mpc, table, cache, recv, runVars, arrivals,
                   workerVars, qpc, added>>

(* The state is tested, a node claims its address, unless there is one, and *)
(* the actor's Init runs; a node whose Init fails has claimed it for good.  *)
AddBegin ==
    LET it == prog[pos]
        isNode == it.name \in Nodes
        refused == appState \in {"quitting", "quit"}
                   \/ (isNode /\ nodeAddr # None)
    IN
    /\ hpc = "add" /\ pos \in Items /\ MayAdd
    /\ nodeAddr' = IF isNode /\ ~refused THEN it.name ELSE nodeAddr
    /\ IF refused \/ it.fails
       THEN AddFailed
       ELSE hpc' = "table" /\ UNCHANGED pos
    /\ UNCHANGED <<prog, appState, mpc, table, cache, recv, runVars, arrivals,
                   workerVars, qpc, added>>

(* ActorContextManager::Add; a name that is taken keeps its first actor and *)
(* AddActor does not notice.                                                *)
AddTable ==
    /\ hpc = "table"
    /\ table' = IF table[prog[pos].name] = 0
                THEN [table EXCEPT ![prog[pos].name] = pos] ELSE table
    /\ hpc' = "dispatch"
    /\ UNCHANGED <<prog, pos, appState, mpc, nodeAddr, cache, recv, runVars,
                   arrivals, workerVars, qpc, added>>

(* Mutant: a message for the network that has a receiver is not cached.     *)
CachedIfMissing(m) == table[m.dst] = 0

(* What waits in the cache before Exec: messages to somebody who does not   *)
(* exist yet, and everything that may go to the node.                       *)
Cached(m) == table[m.dst] = 0 \/ m.mode # "kIntra"

(* The cached messages to the actor are dispatched, then those of its Init  *)
(* that need not wait, and its running flag is cleared: all under one lock. *)
AddDispatch ==
    LET name == prog[pos].name
        release == Only(cache, { m \in Msg : m.dst = name })
        rest == Only(cache, { m \in Msg : m.dst # name })
        wait == IF appState = "running" THEN <<>>
                ELSE Only(Sends(pos), { m \in Msg : Cached(m) })
        now  == IF appState = "running" THEN Sends(pos)
                ELSE Only(Sends(pos), { m \in Msg : ~Cached(m) })
    IN
    /\ hpc = "dispatch"
    /\ Dispatch(release \o now)
    /\ cache' = rest \o wait
    /\ running' = [running EXCEPT ![pos] = FALSE]
    /\ added' = Append(added, pos)
    /\ pos' = pos + 1 /\ hpc' = "add"
    /\ UNCHANGED <<prog, appState, mpc, table, nodeAddr, taken, executing,
                   arrivals, workerVars, qpc>>

(* The host calls Exec, or starts a thread for it (pyapp.h).                *)
CallExec ==
    /\ hpc \in {"add", "exec"}
    /\ mpc = "off"
    /\ pos \notin Items \/ Late
    /\ hpc' = IF pos \in Items THEN "add" ELSE "done"
    /\ mpc' = "check"
    /\ UNCHANGED <<prog, pos, appState, actorVars, runVars, arrivals,
                   workerVars, qpc, added>>

Host == AddBegin \/ AddTable \/ AddDispatch \/ CallExec

-----------------------------------------------------------------------------
(* Mutant: an App that does not run yet ignores Quit.                       *)
QuitCheckRunning(c) ==
    /\ qpc[c] = "idle"
    /\ c = host => hpc = "quit"
    /\ IF appState = "running"
       THEN qpc' = [qpc EXCEPT ![c] = "store"]
       ELSE qpc' = [qpc EXCEPT ![c] = "done"]
    /\ hpc' = IF c = host /\ qpc'[c] = "done" THEN "exec" ELSE hpc
    /\ UNCHANGED <<prog, pos, appState, mpc, actorVars, runVars, arrivals,
                   workerVars, added>>

(* App::Quit, on any thread: test, set, tell the workers.                   *)
QuitCheck(c) ==
    /\ qpc[c] = "idle"
    /\ c = host => hpc = "quit"
    /\ IF appState \in {"running", "initialized"}
       THEN qpc' = [qpc EXCEPT ![c] = "store"]
       ELSE qpc' = [qpc EXCEPT ![c] = "done"]
    /\ hpc' = IF c = host /\ qpc'[c] = "done" THEN "exec" ELSE hpc
    /\ UNCHANGED <<prog, pos, appState, mpc, actorVars, runVars, arrivals,
                   workerVars, added>>

QuitStore(c) ==
    /\ qpc[c] = "store"
    /\ appState' = "quitting"
    /\ qpc' = [qpc EXCEPT ![c] = "stop"]
    /\ UNCHANGED <<prog, pos, hpc, mpc, actorVars, runVars, arrivals,
                   workerVars, added>>

(* StopAllWorker: those that are registered now.                            *)
StopAllWorker(c) ==
    /\ qpc[c] = "stop"
    /\ told' = [w \in Workers |-> IF w \in evs THEN told[w] + 1 ELSE told[w]]
    /\ qpc' = [qpc EXCEPT ![c] = "done"]
    /\ hpc' = IF c = host THEN "exec" ELSE hpc
    /\ UNCHANGED <<prog, pos, appState, mpc, actorVars, runVars, arrivals,
                   evs, stopped, thread, added>>

Quit(c) == QuitCheck(c) \/ QuitStore(c) \/ StopAllWorker(c)

-----------------------------------------------------------------------------
(* App::AddWorker, on any thread, and the thread of a worker.               *)
WorkerStep(w, from, to) ==
    /\ thread[w] = from
    /\ thread' = [thread EXCEPT ![w] = to]
    /\ UNCHANGED <<prog, pos, hpc, appState, mpc, actorVars, runVars,
                   arrivals, stopped, told, qpc, added>>

AddWorkerCheck(w) ==
    /\ w \in LateWorkers
    /\ WorkerStep(w, "new", IF appState \in {"quitting", "quit"}
                            THEN "refused" ELSE "checked")
    /\ UNCHANGED evs

(* WorkerContextManager::Add: registered, then counted.                     *)
AddWorkerRegister(w) ==
    /\ WorkerStep(w, "checked", "registered")
    /\ evs' = evs \cup {w}

AddWorkerCount(w) == WorkerStep(w, "registered", "counted") /\ UNCHANGED evs

WorkerSize == Cardinality({w \in evs : thread[w] # "registered"})

Start(w) == WorkerStep(w, "counted", "started") /\ UNCHANGED evs

(* A common worker that executes no actor (which one does not matter here). *)
IdleWorker ==
    FoldFunction(+, 0, executing)
        < Cardinality({w \in FirstWorkers : thread[w] = "started"})

(* The thread ends when it was told to, a user worker also when it likes    *)
(* (Worker::Stop), and its last act is kQuit to the main thread.            *)
WorkerEnds(w) ==
    /\ w \in LateWorkers \/ (told[w] > 0 /\ IdleWorker)
    /\ WorkerStep(w, "started", "ended")
    /\ UNCHANGED evs

WorkerThread(w) ==
    AddWorkerRegister(w) \/ AddWorkerCount(w) \/ Start(w) \/ WorkerEnds(w)

-----------------------------------------------------------------------------
(* App::Exec.                                                               *)
ExecCheck ==
    /\ mpc = "check"
    /\ appState \in {"initialized", "quitting"}
    /\ mpc' = "store"
    /\ UNCHANGED <<prog, pos, hpc, appState, actorVars, runVars, arrivals,
                   workerVars, qpc, added>>

(* Whoever called Quit before: the state is kRunning again.                 *)
ExecStore ==
    /\ mpc = "store"
    /\ appState' = "running"
    /\ mpc' = "cached"
    /\ UNCHANGED <<prog, pos, hpc, actorVars, runVars, arrivals, workerVars,
                   qpc, added>>

(* Mutant: the cache is dispatched from its end.                            *)
DispatchCacheBackwards ==
    /\ mpc = "cached"
    /\ Dispatch(Reverse(cache))
    /\ cache' = <<>>
    /\ mpc' = "loop"
    /\ UNCHANGED <<prog, pos, hpc, appState, table, nodeAddr, runVars,
                   arrivals, workerVars, qpc, added>>

DispatchCache ==
    /\ mpc = "cached"
    /\ Dispatch(cache)
    /\ cache' = <<>>
    /\ mpc' = "loop"
    /\ UNCHANGED <<prog, pos, hpc, appState, table, nodeAddr, runVars,
                   arrivals, workerVars, qpc, added>>

(* GetContextWithMsg and MoveToRun: an actor with messages that is not      *)
(* running is given to an idle worker.                                      *)
Assign(i) ==
    /\ mpc = "loop" /\ IdleWorker
    /\ ~running[i] /\ taken[i] < Len(recv[i])
    /\ running' = [running EXCEPT ![i] = TRUE]
    /\ executing' = [executing EXCEPT ![i] = @ + 1]
    /\ taken' = [taken EXCEPT ![i] = Len(recv[i])]
    /\ UNCHANGED <<prog, pos, hpc, appState, mpc, actorVars, arrivals,
                   workerVars, qpc, added>>

(* The worker is done, and its event clears the running flag.               *)
ProcessWorkerEvent(i) ==
    /\ mpc = "loop"
    /\ executing[i] > 0
    /\ executing' = [executing EXCEPT ![i] = @ - 1]
    /\ running' = [running EXCEPT ![i] = FALSE]
    /\ UNCHANGED <<prog, pos, hpc, appState, mpc, actorVars, taken, arrivals,
                   workerVars, qpc, added>>

(* App::Send from outside, accepted only while the state is kRunning.       *)
Arrive(n) ==
    /\ mpc = "loop" /\ appState = "running"
    /\ arrivals < MaxArrivals
    /\ arrivals' = arrivals + 1
    /\ Dispatch(<<[src |-> 0, n |-> arrivals', dst |-> n, mode |-> "kIntra"]>>)
    /\ UNCHANGED <<prog, pos, hpc, appState, mpc, table, nodeAddr, cache,
                   runVars, workerVars, qpc, added>>

(* Mutant: a worker that ended is forgotten, not kept for Join.             *)
DelForgets(w) ==
    /\ mpc = "loop"
    /\ w \in evs /\ thread[w] = "ended"
    /\ evs' = evs \ {w}
    /\ UNCHANGED <<prog, pos, hpc, appState, mpc, actorVars, runVars, arrivals,
                   stopped, thread, told, qpc, added>>

(* The kQuit of a worker: WorkerContextManager::Del.                        *)
Del(w) ==
    /\ mpc = "loop"
    /\ w \in evs /\ thread[w] = "ended"
    /\ evs' = evs \ {w}
    /\ stopped' = stopped \cup {w}
    /\ UNCHANGED <<prog, pos, hpc, appState, mpc, actorVars, runVars, arrivals,
                   thread, told, qpc, added>>

LoopEnd ==
    /\ mpc = "loop"
    /\ WorkerSize = 0
    /\ mpc' = "join"
    /\ UNCHANGED <<prog, pos, hpc, appState, actorVars, runVars, arrivals,
                   workerVars, qpc, added>>

(* WaitAllWorkerQuit and ClearStopWorker.                                   *)
Join ==
    /\ mpc = "join"
    /\ thread' = [w \in Workers |-> IF w \in stopped THEN "joined"
                                    ELSE thread[w]]
    /\ stopped' = {}
    /\ mpc' = "clear"
    /\ UNCHANGED <<prog, pos, hpc, appState, actorVars, runVars, arrivals, evs,
                   told, qpc, added>>

(* EventManager::Clear, ClearContext, and the state.                        *)
Clear ==
    /\ mpc = "clear"
    /\ evs' = {}
    /\ table' = [n \in Names |-> 0]
    /\ appState' = "quit"
    /\ mpc' = "done"
    /\ UNCHANGED <<prog, pos, hpc, nodeAddr, cache, recv, runVars, arrivals,
                   stopped, thread, told, qpc, added>>

Exec ==
    \/ ExecCheck \/ ExecStore \/ DispatchCache \/ LoopEnd \/ Join \/ Clear
    \/ \E i \in Items : Assign(i) \/ ProcessWorkerEvent(i)
    \/ \E w \in Workers : Del(w)

(* Nobody is obliged to call Quit: Exec may run for ever.                   *)
Idle == mpc \in {"loop", "done"} /\ UNCHANGED vars

Next ==
    \/ Host \/ Exec \/ Idle
    \/ \E c \in Callers : Quit(c)
    \/ \E w \in Workers : AddWorkerCheck(w) \/ WorkerThread(w)
    \/ \E n \in Names : Arrive(n)

(* Every thread takes its next step; a user worker need not stop by itself, *)
(* others need not call Quit, but who began to goes on.                     *)
Fairness ==
    /\ WF_vars(Host)
    /\ \A w \in Workers : /\ WF_vars(Del(w))
                          /\ WF_vars(AddWorkerRegister(w) \/ AddWorkerCount(w)
                                  \/ Start(w))
                          /\ WF_vars(told[w] > 0 /\ WorkerEnds(w))
    /\ WF_vars(ExecCheck \/ ExecStore \/ DispatchCache \/ LoopEnd \/ Join
               \/ Clear)
    /\ WF_vars(\E i \in Items : ProcessWorkerEvent(i))
    /\ \A c \in Callers : WF_vars((qpc[c] # "idle" \/ c = host) /\ Quit(c))

Spec == Init /\ [][Next]_vars /\ Fairness

-----------------------------------------------------------------------------
(* Properties.                                                              *)

(* Every variable stays in its type, and nobody is given a message that did *)
(* not arrive.                                                              *)
TypeOK ==
    /\ prog \in Programs /\ pos \in 1..Len(prog) + 1
    /\ hpc \in {"add", "table", "dispatch", "quit", "exec", "done"}
    /\ appState \in {"initialized", "running", "quitting", "quit"}
    /\ mpc \in {"off", "check", "store", "cached", "loop", "join", "clear",
                "done"}
    /\ table \in [Names -> 0..Len(prog)]
    /\ nodeAddr \in Nodes \cup {None}
    /\ cache \in Seq(Msg) /\ recv \in [Items -> Seq(Msg)]
    /\ taken \in [Items -> Nat] /\ \A i \in Items : taken[i] <= Len(recv[i])
    /\ running \in [Items -> BOOLEAN] /\ executing \in [Items -> Nat]
    /\ arrivals \in 0..MaxArrivals
    /\ evs \subseteq Workers /\ stopped \subseteq Workers
    /\ thread \in [Workers -> {"new", "checked", "registered", "counted",
                               "started", "ended", "joined", "refused"}]
    /\ told \in [Workers -> 0..Cardinality(Callers)]
    /\ qpc \in [Callers -> {"idle", "store", "stop", "done"}]
    /\ added \in Seq(Items)

(* The messages of item i in the order in which the mailbox of j got them.  *)
Got(i, j) == Only(recv[j], { m \in Msg : m.src = i })
Times(m, j) == Len(Only(recv[j], {m}))
Loaded == mpc = "loop" /\ ~Late

(* A message that an actor sends to another one in its Init arrives exactly *)
(* once, whichever of the two is added first, whoever of the others fails   *)
(* to load, and even if Quit was called before Exec; and in the order of    *)
(* sending, except that a local message overtakes those that were cached    *)
(* for the network.                                                         *)
LoadDelivers ==
    Loaded =>
    \A k \in 1..Len(added) : \A m \in ToSet(Sends(added[k])) :
        LET i == added[k]
            j == table[m.dst]
            got == Got(i, j)
        IN (j # 0 /\ m.dst # nodeAddr /\ m.mode # "kDDS") =>
           /\ Times(m, j) = 1
           /\ \A a, b \in 1..Len(got) :
                 (a < b /\ got[b] = m /\ got[b].n < got[a].n)
                     => got[b].mode # "kIntra" /\ got[a].mode = "kIntra"

(* The node hears every message for the network exactly once, unless its    *)
(* receiver was added after the sender and before the node: that released   *)
(* the message when there was nobody to hand it to.  No node is heard of if *)
(* the first one failed to load: its name is kept.                          *)
NodeHears ==
    (Loaded /\ nodeAddr # None) =>
    LET node == table[nodeAddr] IN
    IF node = 0
    THEN \E i \in Items : prog[i].name = nodeAddr /\ prog[i].fails
    ELSE \A i \in ToSet(added) : \A m \in ToSet(Sends(i)) :
            (m.mode # "kIntra" /\ m.dst # nodeAddr) =>
            Times(m, node) =
                IF \E x \in ToSet(added) :
                        i < x /\ x < node /\ prog[x].name = m.dst
                THEN 0 ELSE 1

(* No two workers execute the same actor.                                   *)
SerialActor == \A i \in Items : executing[i] <= 1

(* After Quit, Exec returns, even if it was called only later and took the  *)
(* App for running again; unless there is a worker for good that was        *)
(* registered after Quit had told the others.                               *)
QuitEnds ==
    (\E c \in Callers : qpc[c] = "done") ~>
        (mpc = "done" \/ [](\E w \in evs \cap LateWorkers : told[w] = 0))

(* A worker that was registered and counted while Exec was looping, or      *)
(* before, has ended and is joined when Exec returns.                       *)
NoThreadLeft ==
    \A w \in Workers :
        [](mpc \in {"off", "loop"} /\ thread[w] \in {"counted", "started"}
            => [](mpc = "done" => thread[w] = "joined"))

-----------------------------------------------------------------------------
(* The inductive invariants of the proofs.                                  *)

(* Until the loop of Exec ends, a worker whose thread can send is known to  *)
(* the main thread.                                                         *)
Looping == mpc \in {"off", "check", "store", "cached", "loop"}
ThreadInv ==
    /\ evs \subseteq Workers /\ stopped \subseteq Workers
    /\ thread \in [Workers -> {"new", "checked", "registered", "counted",
                               "started", "ended", "joined", "refused"}]
    /\ Looping => \A w \in Workers :
                     thread[w] \in {"registered", "counted", "started"} => w \in evs

(* The loop waits for w, or w ended and is to be joined, or was joined.     *)
Kept(w) ==
    \/ Looping /\ w \in evs /\ thread[w] \in {"counted", "started", "ended"}
    \/ mpc \in {"off", "check", "store", "cached", "loop", "join"}
       /\ w \in stopped /\ thread[w] = "ended"
    \/ thread[w] = "joined"

(* If nothing is added while Exec runs, the running flag of an actor tells  *)
(* whether it is executed.                                                  *)
FlagInv ==
    /\ running \in [Items -> BOOLEAN] /\ executing \in [Items -> Nat]
    /\ \A i \in Items : executing[i] = IF running[i] THEN 1 ELSE 0
    /\ mpc = "off" => \A i \in Items : ~running[i]
    /\ hpc \in {"table", "dispatch"} => mpc = "off"

(* Loading, while nothing is added beside Exec: how far the host is.        *)
HostInv ==
    /\ hpc \in {"table", "dispatch"} => mpc = "off" /\ pos \in Items
    /\ mpc = "off" => appState # "running"
    /\ \A k \in 1..Len(added) : added[k] < pos

(* Who is in the table, and the node: whose address is taken is there, is   *)
(* being added, or failed.                                                  *)
TableInv ==
    /\ \A x \in Names : table[x] # 0 =>
          /\ prog[table[x]].name = x
          /\ table[x] < pos \/ (hpc = "dispatch" /\ table[x] = pos)
    /\ hpc = "dispatch" => table[prog[pos].name] # 0
    /\ \A x \in Nodes : table[x] # 0 => nodeAddr = x
    /\ hpc \in {"table", "dispatch"} /\ prog[pos].name \in Nodes
          => nodeAddr = prog[pos].name
    /\ nodeAddr # None /\ table[nodeAddr] = 0 =>
          \/ hpc = "table" /\ prog[pos].name = nodeAddr
          \/ \E i \in Items : prog[i].name = nodeAddr /\ prog[i].fails

(* Messages are from items added already; only items in the table have any, *)
(* and only the node those of others.                                       *)
BoxInv ==
    /\ \A i \in Items : \A k \in 1..Len(recv[i]) :
          /\ recv[i][k].src < pos
          /\ table[prog[i].name] = i
          /\ prog[i].name # nodeAddr =>
                recv[i][k].dst = prog[i].name /\ recv[i][k].mode # "kDDS"
    /\ \A k \in 1..Len(cache) : cache[k].src \in 1..pos - 1
    /\ mpc = "loop" => cache = <<>>

(* What item i sends to x in its Init lies in the mailbox of x and, behind  *)
(* that, in the cache: in the order of sending if x was not there yet, else *)
(* what is not for the network first.                                       *)
Inbox(x) == IF table[x] = 0 THEN <<>> ELSE recv[table[x]]
LocalTo(i, x) == { m \in Msg : m.src = i /\ m.dst = x /\ m.mode # "kDDS" }
Intra == { m \in Msg : m.mode = "kIntra" }
Line(i, x) == Only(Inbox(x), LocalTo(i, x)) \o Only(cache, LocalTo(i, x))
InOrder(i, x) ==
    { Only(Sends(i), LocalTo(i, x)),
      Only(Sends(i), LocalTo(i, x) \cap Intra)
          \o Only(Sends(i), LocalTo(i, x) \ Intra) }
LineInv ==
    \A k \in 1..Len(added) : \A x \in Names :
        (x # nodeAddr /\ (table[x] # 0 \/ mpc # "loop"))
            => Line(added[k], x) \in InOrder(added[k], x)

(* What item i sends to x over the network lies in the mailbox of the node  *)
(* and in the cache, in order, unless x was added between i and the node.   *)
NodeItem == IF nodeAddr = None THEN 0 ELSE table[nodeAddr]
NodeBox == IF NodeItem = 0 THEN <<>> ELSE recv[NodeItem]
NetTo(i, x) == { m \in Msg : m.src = i /\ m.dst = x /\ m.mode # "kIntra" }
NetLine(i, x) == Only(NodeBox, NetTo(i, x)) \o Only(cache, NetTo(i, x))
Released(i, x) ==
    \E y \in ToSet(added) :
        i < y /\ (NodeItem = 0 \/ y < NodeItem) /\ prog[y].name = x
HeardOf(i, x) == IF Released(i, x) THEN <<>> ELSE Only(Sends(i), NetTo(i, x))
NetInv ==
    \A k \in 1..Len(added) : \A x \in Names :
        (x # nodeAddr /\ (NodeItem # 0 \/ mpc # "loop"))
            => NetLine(added[k], x) = HeardOf(added[k], x)

Loading == HostInv /\ TableInv /\ BoxInv /\ LineInv /\ NetInv
LoadInv == ~Late /\ Looping => Loading

=============================================================================
