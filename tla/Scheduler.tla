------------------------------ MODULE Scheduler ------------------------------
(****************************************************************************)
(* The core of myframe: one main thread (App::Exec) that assigns actors     *)
(* with messages to idle common workers, and worker threads that run the    *)
(* actor's callback on a batch of its messages.                             *)
(*                                                                          *)
(* The main thread and a worker share nothing but a command channel: the    *)
(* worker says kIdle and blocks, the main thread then owns the worker, its  *)
(* actor and the actor's mailbox until it answers kRun.  Everything the     *)
(* main thread does between two commands is therefore invisible to the      *)
(* workers, and one action below is one step of a thread between two        *)
(* commands, or one message of a loop.                                      *)
(*                                                                          *)
(* "ext" stands for every other sender the main thread serves: the timer    *)
(* thread, user workers and event connections (modules of their own).       *)
(****************************************************************************)
EXTENDS Mailbox, Command, Flow, FiniteSets

CONSTANTS
    Actors,     \* the names in ActorContextManager::ctxs_
    Workers,    \* the common workers App::StartCommonWorker created
    ext,        \* any other source of messages
    None,       \* the null pointer
    Pending,    \* Pending[a]: pending_queue_size of actor a
    RunSize,    \* RunSize[a]: run_queue_size of actor a
    Quitters,   \* the threads that call App::Quit, each once
    UseCv,      \* TRUE: PollerGeneric (MYFRAME_USE_CV); FALSE: epoll
    Links,      \* bound: the pairs <<sender, receiver>> that communicate
    Counted,    \* TRUE: messages are numbered per (sender, receiver) and
                \* bounded; FALSE: traffic without end, unnumbered
    MaxSeq      \* bound on the messages of a pair, if Counted

ASSUME NamesAssumption ==
    /\ ext \notin Actors
    /\ None \notin Actors \cup Workers
    /\ Actors \cap Workers = {}
ASSUME ThreadsAssumption == IsFiniteSet(Workers) /\ IsFiniteSet(Quitters)
ASSUME LimitsAssumption ==
    /\ Pending \in [Actors -> Int]
    /\ RunSize \in [Actors -> Int]
    /\ Links \subseteq (Actors \cup {ext}) \X Actors
    /\ UseCv \in BOOLEAN
    /\ Counted \in BOOLEAN
    /\ MaxSeq \in Nat \ {0}

VARIABLES
    recv, run, send,   \* the mailbox of each actor
    inWorker,          \* ActorContext::in_worker_
    inWait,            \* ActorContext::in_wait_que_
    waitQ,             \* ActorContextManager::wait_queue_
    idleQ,             \* WorkerContextManager::idle_workers_ctx_
    ctx,               \* WorkerCommon::context_
    toOwner, toMain,   \* the two directions of each worker's CmdChannel
    wpc,               \* where each worker thread is
    mpc,               \* where the main thread is in App::Exec
    batch,             \* events returned by Poller::Wait, still unprocessed
    extReady,          \* one of them is an event of another kind of source
    cur,               \* the worker whose event is being processed
    registered,        \* EventManager::evs_, its common workers
    stopped,           \* WorkerContextManager::stoped_workers_ctx_
    appState,          \* App::state_
    qpc,               \* where each caller of App::Quit is
    toStop,            \* the workers it has listed and not told yet
    seq, done          \* history: last number sent / processed per pair

mailboxVars == <<recv, run, send>>
queueVars   == <<inWorker, inWait, waitQ, idleQ>>
chanVars    == <<toOwner, toMain>>
mainVars    == <<mpc, batch, extReady, cur>>
quitVars    == <<appState, qpc, toStop>>
evVars      == <<registered, stopped>>
histVars    == <<seq, done>>
vars == <<recv, run, send, inWorker, inWait, waitQ, idleQ, ctx, toOwner,
          toMain, wpc, mpc, batch, extReady, cur, registered, stopped,
          appState, qpc, toStop, seq, done>>

Senders == Actors \cup {ext}
Msg     == [src : Senders, dst : Actors, n : 1..MaxSeq]
Cmd     == {"kIdle", "kRun", "kQuit"}

-----------------------------------------------------------------------------
Init ==
    /\ recv = [a \in Actors |-> <<>>]
    /\ run  = [a \in Actors |-> <<>>]
    /\ send = [a \in Actors |-> <<>>]
    /\ inWorker = [a \in Actors |-> FALSE]
    /\ inWait   = [a \in Actors |-> FALSE]
    /\ waitQ = <<>>
    /\ idleQ = <<>>
    /\ ctx = [w \in Workers |-> None]
    /\ toOwner = [w \in Workers |-> <<>>]
    /\ toMain  = [w \in Workers |-> <<>>]
    /\ wpc = [w \in Workers |-> "loop"]
    /\ mpc = "check"
    /\ batch = [w \in Workers |-> 0]
    /\ extReady = FALSE
    /\ cur = None
    /\ registered = Workers
    /\ stopped = {}
    /\ appState = "running"
    /\ qpc = [c \in Quitters |-> "idle"]
    /\ toStop = [c \in Quitters |-> {}]
    /\ seq  = [s \in Senders |-> [a \in Actors |-> 0]]
    /\ done = [s \in Senders |-> [a \in Actors |-> 0]]

(* The number of the next message from s to d; the bound on new messages.   *)
NextNo(s, d) == IF Counted THEN seq[s][d] + 1 ELSE 1
MaySend(s, d) == <<s, d>> \in Links /\ (Counted => seq[s][d] < MaxSeq)
NoteSent(s, d) ==
    seq' = IF Counted THEN [seq EXCEPT ![s][d] = NextNo(s, d)] ELSE seq
NoteDone(m) ==
    done' = IF Counted THEN [done EXCEPT ![m.src][m.dst] = m.n] ELSE done

(* ActorContextManager::DispatchMsg: into the mailbox, then PushContext.    *)
Deliver(m) ==
    LET a == m.dst IN
    /\ recv' = [recv EXCEPT ![a] = Recv(recv[a], m, Pending[a])]
    /\ waitQ' = IF inWait[a] THEN waitQ ELSE Append(waitQ, a)
    /\ inWait' = [inWait EXCEPT ![a] = TRUE]

(* CmdChannel: two queues, written at one end and read at the other.        *)
SendToMain(w, cmd)  == toMain' = [toMain EXCEPT ![w] = Append(@, cmd)]
RecvFromOwner(w)    == toMain' = [toMain EXCEPT ![w] = Tail(@)]
SendToOwner(w, cmd) == toOwner' = [toOwner EXCEPT ![w] = Append(@, cmd)]
RecvFromMain(w)     == toOwner' = [toOwner EXCEPT ![w] = Tail(@)]

-----------------------------------------------------------------------------
(* Worker threads: WorkerContext::ListenThread around WorkerCommon::Run.    *)

(* Worker::DispatchMsg, first half.                                         *)
SendIdle(w) ==
    /\ wpc[w] = "loop"
    /\ SendToMain(w, "kIdle")
    /\ wpc' = [wpc EXCEPT ![w] = "recv"]
    /\ UNCHANGED <<mailboxVars, queueVars, ctx, toOwner, mainVars, evVars,
                   quitVars, histVars>>

(* Mutant: the command stays in the channel.                                *)
RecvCmdKeeps(w) ==
    /\ wpc[w] = "recv"
    /\ toOwner[w] # <<>>
    /\ wpc' = [wpc EXCEPT ![w] =
                  IF Head(toOwner[w]) = "kQuit" THEN "exit" ELSE "work"]
    /\ UNCHANGED <<mailboxVars, queueVars, ctx, chanVars, mainVars, evVars,
                   quitVars, histVars>>

(* Worker::DispatchMsg, second half: blocks until there is a command.       *)
RecvCmd(w) ==
    /\ wpc[w] = "recv"
    /\ toOwner[w] # <<>>
    /\ RecvFromMain(w)
    /\ wpc' = [wpc EXCEPT ![w] =
                  IF Head(toOwner[w]) = "kQuit" THEN "exit" ELSE "work"]
    /\ UNCHANGED <<mailboxVars, queueVars, ctx, toMain, mainVars, evVars,
                   quitVars, histVars>>

(* One round of WorkerCommon::Work: the callback of the actor consumes a    *)
(* message and sends at most one (a bound: a callback may send more).       *)
ProcMsg(w) ==
    LET a == ctx[w] IN
    /\ wpc[w] = "work"
    /\ a # None
    /\ run[a] # <<>>
    /\ LET m == Head(run[a]) IN
       /\ run' = [run EXCEPT ![a] = Tail(@)]
       /\ NoteDone(m)
    /\ \/ UNCHANGED <<send, seq>>
       \/ \E d \in Actors :
            /\ MaySend(a, d)
            /\ NoteSent(a, d)
            /\ send' = [send EXCEPT ![a] =
                 Append(@, [src |-> a, dst |-> d, n |-> NextNo(a, d)])]
    /\ UNCHANGED <<recv, queueVars, ctx, chanVars, wpc, mainVars, evVars,
                   quitVars>>

(* Work returns: nothing left to run, or no actor (an error in the code).   *)
WorkDone(w) ==
    /\ wpc[w] = "work"
    /\ ctx[w] # None => run[ctx[w]] = <<>>
    /\ wpc' = [wpc EXCEPT ![w] = "loop"]
    /\ UNCHANGED <<mailboxVars, queueVars, ctx, chanVars, mainVars, evVars,
                   quitVars, histVars>>

(* Mutant: the thread ends without saying so.                               *)
ExitSilent(w) ==
    /\ wpc[w] = "exit"
    /\ wpc' = [wpc EXCEPT ![w] = "ended"]
    /\ UNCHANGED <<mailboxVars, queueVars, ctx, chanVars, mainVars, evVars,
                   quitVars, histVars>>

(* After Worker::Stop the loop ends: Exit, then kQuit to the main thread.   *)
Exit(w) ==
    /\ wpc[w] = "exit"
    /\ SendToMain(w, "kQuit")
    /\ wpc' = [wpc EXCEPT ![w] = "ended"]
    /\ UNCHANGED <<mailboxVars, queueVars, ctx, toOwner, mainVars, evVars,
                   quitVars, histVars>>

Worker(w) == SendIdle(w) \/ RecvCmd(w) \/ ProcMsg(w) \/ WorkDone(w) \/ Exit(w)

-----------------------------------------------------------------------------
(* The main thread: App::Exec.                                              *)

(* Mutant: in_worker_ is not looked at.                                     *)
CanRunAny == 1..Len(waitQ)

(* GetContextWithMsg passes over the actors that are running.               *)
CanRun == { i \in 1..Len(waitQ) : ~inWorker[waitQ[i]] }

(* Mutant: the actor that waits for the shortest time goes first.           *)
ChosenLast(k) == k \in CanRun /\ \A i \in CanRun : i <= k

Chosen(k) == k \in CanRun /\ \A i \in CanRun : k <= i

(* The actors it passed over go to the back of the queue.                   *)
WaitQAfter(k) == SubSeq(waitQ, k + 1, Len(waitQ)) \o SubSeq(waitQ, 1, k - 1)

(* Mutant: an actor with messages left behind is not queued again.          *)
RequeueNever(q, a, left) == q

(* PushContext after a limited batch.                                       *)
Requeue(q, a, left) == IF left # <<>> THEN Append(q, a) ELSE q

(* One round of the loop of App::CheckStopWorkers: the k-th actor of the    *)
(* queue goes to the first idle worker.  An actor without a message ("has   *)
(* no msg" in the code) keeps in_worker_ set and the worker stays idle.     *)
Assign(k) ==
    LET a == waitQ[k]
        w == Head(idleQ)
        hasMsg == recv[a] # <<>>
    IN
    /\ mpc = "check"
    /\ idleQ # <<>>
    /\ Chosen(k)
    /\ inWorker' = [inWorker EXCEPT ![a] = TRUE]
    /\ run' = [run EXCEPT ![a] = RunAfterMove(recv[a], run[a], RunSize[a])]
    /\ recv' = [recv EXCEPT ![a] = RecvAfterMove(recv[a], RunSize[a])]
    /\ inWait' = [inWait EXCEPT ![a] = recv'[a] # <<>>]
    /\ waitQ' = Requeue(WaitQAfter(k), a, recv'[a])
    /\ idleQ' = IF hasMsg THEN Tail(idleQ) ELSE idleQ
    /\ ctx' = IF hasMsg THEN [ctx EXCEPT ![w] = a] ELSE ctx
    /\ toOwner' = IF hasMsg THEN [toOwner EXCEPT ![w] = Append(@, "kRun")]
                  ELSE toOwner
    /\ UNCHANGED <<send, toMain, wpc, mainVars, evVars, quitVars, histVars>>

AssignActor == \E k \in 1..Len(waitQ) : Assign(k)

(* The loop ends without an idle worker, or with an idle worker and no      *)
(* actor to run; GetContextWithMsg has then cycled through the whole queue, *)
(* which leaves it as it was.                                               *)
CheckDone ==
    /\ mpc = "check"
    /\ idleQ = <<>> \/ CanRun = {}
    /\ mpc' = "wait"
    /\ UNCHANGED <<mailboxVars, queueVars, ctx, chanVars, wpc, batch,
                   extReady, cur, evVars, quitVars, histVars>>

(* Events Poller::Wait reports for w: one for every command sent since the  *)
(* last Wait (PollerGeneric), or one if any is unread (epoll).              *)
EventsOf(w) ==
    IF w \notin registered THEN 0
    ELSE IF UseCv THEN Len(toMain[w]) ELSE Min2(1, Len(toMain[w]))

(* Poller::Wait returns what is ready, nothing if 100 ms pass.              *)
Wait ==
    /\ mpc = "wait"
    /\ batch' = [w \in Workers |-> EventsOf(w)]
    /\ extReady' \in BOOLEAN
    /\ mpc' = "process"
    /\ UNCHANGED <<mailboxVars, queueVars, ctx, chanVars, wpc, cur, evVars,
                   quitVars, histVars>>

(* A message of another source: ProcessTimerEvent, ProcessUserEvent,        *)
(* ProcessEventConn, all of which dispatch the source's send list.          *)
ProcessOther ==
    /\ mpc = "process"
    /\ extReady
    /\ extReady' = FALSE
    /\ \/ UNCHANGED <<recv, inWait, waitQ, seq>>
       \/ \E d \in Actors :
            /\ MaySend(ext, d)
            /\ NoteSent(ext, d)
            /\ Deliver([src |-> ext, dst |-> d, n |-> NextNo(ext, d)])
    /\ UNCHANGED <<run, send, inWorker, idleQ, ctx, chanVars, wpc, mpc, batch,
                   cur, evVars, quitVars, done>>

(* Mutant: the event is not taken from the batch.                           *)
BeginEventKeeps(w) ==
    /\ mpc = "process"
    /\ batch[w] > 0
    /\ inWorker' = IF ctx[w] = None THEN inWorker
                   ELSE [inWorker EXCEPT ![ctx[w]] = FALSE]
    /\ cur' = w
    /\ mpc' = "dispatch"
    /\ UNCHANGED <<mailboxVars, inWait, waitQ, idleQ, ctx, chanVars, wpc,
                   batch, extReady, evVars, quitVars, histVars>>

(* ProcessWorkerEvent, first: App::DispatchMsg(ctx) clears in_worker_.      *)
BeginEvent(w) ==
    /\ mpc = "process"
    /\ batch[w] > 0
    /\ batch' = [batch EXCEPT ![w] = @ - 1]
    /\ inWorker' = IF ctx[w] = None THEN inWorker
                   ELSE [inWorker EXCEPT ![ctx[w]] = FALSE]
    /\ cur' = w
    /\ mpc' = "dispatch"
    /\ UNCHANGED <<mailboxVars, inWait, waitQ, idleQ, ctx, chanVars, wpc,
                   extReady, evVars, quitVars, histVars>>

(* ... then every message of the actor's send list goes to its receiver.    *)
DispatchOne ==
    LET a == ctx[cur] IN
    /\ mpc = "dispatch"
    /\ a # None
    /\ send[a] # <<>>
    /\ Deliver(Head(send[a]))
    /\ send' = [send EXCEPT ![a] = Tail(@)]
    /\ UNCHANGED <<run, inWorker, idleQ, ctx, chanVars, wpc, mainVars, evVars,
                   quitVars, histVars>>

(* Mutant: the worker keeps its actor.                                      *)
IdleKeeps(w) == ctx' = ctx

(* WorkerCommon::Idle, WorkerContextManager::PushBackIdleWorker and Del.    *)
Idle(w) == ctx' = [ctx EXCEPT ![w] = None]

PushBackIdleWorker(w) == idleQ' = Append(idleQ, w)
Del(w) ==
    /\ registered' = registered \ {w}
    /\ stopped' = stopped \cup {w}

(* ... and the command is read: kIdle frees the worker, kQuit removes it.   *)
FinishEvent ==
    /\ mpc = "dispatch"
    /\ ctx[cur] # None => send[ctx[cur]] = <<>>
    /\ toMain[cur] # <<>>
    /\ RecvFromOwner(cur)
    /\ \/ /\ Head(toMain[cur]) = "kIdle"
          /\ Idle(cur)
          /\ PushBackIdleWorker(cur)
          /\ UNCHANGED evVars
       \/ /\ Head(toMain[cur]) = "kQuit"
          /\ Del(cur)
          /\ UNCHANGED <<ctx, idleQ>>
    /\ cur' = None
    /\ mpc' = "process"
    /\ UNCHANGED <<mailboxVars, inWorker, inWait, waitQ, toOwner, wpc, batch,
                   extReady, quitVars, histVars>>

(* The batch is processed: the next round, unless no worker is left.        *)
ProcessDone ==
    /\ mpc = "process"
    /\ \A w \in Workers : batch[w] = 0
    /\ ~extReady
    /\ mpc' = IF registered = {} THEN "join" ELSE "check"
    /\ UNCHANGED <<mailboxVars, queueVars, ctx, chanVars, wpc, batch,
                   extReady, cur, evVars, quitVars, histVars>>

(* WaitAllWorkerQuit joins the threads, ClearContext frees the actors.      *)
JoinAll ==
    /\ mpc = "join"
    /\ \A w \in stopped : wpc[w] = "ended"
    /\ stopped' = {}
    /\ recv' = [a \in Actors |-> <<>>]
    /\ run'  = [a \in Actors |-> <<>>]
    /\ send' = [a \in Actors |-> <<>>]
    /\ inWorker' = [a \in Actors |-> FALSE]
    /\ inWait'   = [a \in Actors |-> FALSE]
    /\ waitQ' = <<>>
    /\ mpc' = "done"
    /\ appState' = "quit"
    /\ UNCHANGED <<idleQ, ctx, chanVars, wpc, batch, extReady, cur,
                   registered, qpc, toStop, histVars>>

Main ==
    \/ AssignActor \/ CheckDone \/ Wait \/ ProcessOther
    \/ (\E w \in Workers : BeginEvent(w))
    \/ DispatchOne \/ FinishEvent \/ ProcessDone \/ JoinAll

-----------------------------------------------------------------------------
(* App::Quit, called by any thread: a signal handler, an actor's callback.  *)
(* Nothing is locked: two callers may both find the program running ...     *)
QuitCheck(c) ==
    /\ qpc[c] = "idle"
    /\ qpc' = [qpc EXCEPT ![c] = IF appState = "running" THEN "store" ELSE "back"]
    /\ UNCHANGED <<mailboxVars, queueVars, ctx, chanVars, wpc, mainVars,
                   evVars, appState, toStop, histVars>>

(* ... and one may write kQuitting over the kQuit Exec ended with ...       *)
QuitStore(c) ==
    /\ qpc[c] = "store"
    /\ appState' = "quitting"
    /\ qpc' = [qpc EXCEPT ![c] = "list"]
    /\ UNCHANGED <<mailboxVars, queueVars, ctx, chanVars, wpc, mainVars,
                   evVars, toStop, histVars>>

(* ... StopAllWorker lists the workers ...                                  *)
StopAllWorker(c) ==
    /\ qpc[c] = "list"
    /\ toStop' = [toStop EXCEPT ![c] = registered]
    /\ qpc' = [qpc EXCEPT ![c] = "stop"]
    /\ UNCHANGED <<mailboxVars, queueVars, ctx, chanVars, wpc, mainVars,
                   evVars, appState, histVars>>

(* ... and tells one after another, whoever told it before and even if it   *)
(* has ended meanwhile.                                                     *)
SendQuit(c, w) ==
    /\ w \in toStop[c]
    /\ SendToOwner(w, "kQuit")
    /\ toStop' = [toStop EXCEPT ![c] = @ \ {w}]
    /\ UNCHANGED <<mailboxVars, queueVars, ctx, toMain, wpc, mainVars, evVars,
                   appState, qpc, histVars>>

QuitGoesOn(c) ==
    QuitStore(c) \/ StopAllWorker(c) \/ \E w \in Workers : SendQuit(c, w)

Quit == \E c \in Quitters : QuitCheck(c) \/ QuitGoesOn(c)

Terminated == mpc = "done" /\ UNCHANGED vars

-----------------------------------------------------------------------------
SteadyNext == Main \/ \E w \in Workers : Worker(w)
Next == SteadyNext \/ Quit \/ Terminated

(* Every thread runs as long as it can: they are scheduled by the system,   *)
(* Wait returns after 100 ms at the latest, callbacks return.  Nobody is    *)
(* obliged to call Quit, but a Quit that began ends.                        *)
Fairness ==
    /\ WF_vars(Main)
    /\ \A w \in Workers : WF_vars(Worker(w))
    /\ \A c \in Quitters : WF_vars(QuitGoesOn(c))

Spec == Init /\ [][Next]_vars /\ Fairness
SteadySpec == Init /\ [][SteadyNext]_vars /\ Fairness

-----------------------------------------------------------------------------
(* Properties.                                                              *)

ToMainStates  == {<<>>, <<"kIdle">>, <<"kQuit">>, <<"kIdle", "kQuit">>}

(* The callers of Quit that are past w.                                     *)
Told(w) == { c \in Quitters : qpc[c] = "stop" /\ w \notin toStop[c] }

FromMain(w) == toOwner[w] \in ToOwnerStates({"kRun"}, Cardinality(Told(w)))

(* Every variable stays in its type; a worker has at most one kIdle and its *)
(* farewell under way, the main thread at most one kRun and a kQuit from    *)
(* each caller of Quit that is past this worker, in any order.              *)
TypeOK ==
    /\ recv \in [Actors -> Seq(Msg)]
    /\ run  \in [Actors -> Seq(Msg)]
    /\ send \in [Actors -> Seq(Msg)]
    /\ inWorker \in [Actors -> BOOLEAN]
    /\ inWait \in [Actors -> BOOLEAN]
    /\ waitQ \in Seq(Actors)
    /\ idleQ \in Seq(Workers)
    /\ ctx \in [Workers -> Actors \cup {None}]
    /\ toOwner \in [Workers -> Seq(Cmd)]
    /\ \A w \in Workers : FromMain(w)
    /\ toMain \in [Workers -> ToMainStates]
    /\ wpc \in [Workers -> {"loop", "recv", "work", "exit", "ended"}]
    /\ mpc \in {"check", "wait", "process", "dispatch", "join", "done"}
    /\ batch \in [Workers -> Nat]
    /\ extReady \in BOOLEAN
    /\ cur \in Workers \cup {None}
    /\ (mpc = "dispatch") = (cur # None)
    /\ registered \subseteq Workers
    /\ stopped \subseteq Workers
    /\ appState \in {"running", "quitting", "quit"}
    /\ qpc \in [Quitters -> {"idle", "store", "list", "stop", "back"}]
    /\ toStop \in [Quitters -> SUBSET Workers]
    /\ seq  \in [Senders -> [Actors -> 0..MaxSeq]]
    /\ done \in [Senders -> [Actors -> 0..MaxSeq]]

Executing(w, a) == wpc[w] = "work" /\ ctx[w] = a

(* An actor is executed by one worker at a time (the concurrency contract   *)
(* of the development guide), whatever Quit does in between.                *)
SerialActor ==
    \A a \in Actors : \A v, w \in Workers :
        Executing(v, a) /\ Executing(w, a) => v = w

(* While a worker executes an actor the main thread stays away from the     *)
(* actor's run and send queues: it neither moves a batch into the mailbox   *)
(* (only done for actors that are not in_worker_) nor dispatches its sends. *)
(* The mailboxes have no lock; this is what makes that safe.                *)
MailboxExclusive ==
    \A a \in Actors : \A w \in Workers :
        Executing(w, a) => inWorker[a] /\ (cur # None => ctx[cur] # a)

(* The wait queue holds exactly the actors with undelivered messages, each  *)
(* once: no wakeup is lost when a batch limit leaves messages behind, when  *)
(* a running actor is passed over or when a message comes while it runs,    *)
(* and GetContextWithMsg never returns an actor that "has no msg".          *)
WaitQueueExact ==
    /\ \A i, j \in 1..Len(waitQ) : waitQ[i] = waitQ[j] => i = j
    /\ \A a \in Actors :
         /\ inWait[a] = (recv[a] # <<>>)
         /\ inWait[a] = (\E i \in 1..Len(waitQ) : waitQ[i] = a)

(* RecvFromOwner pops a list without looking (generic) or blocks the main   *)
(* thread (epoll) when there is no command: every event that waits to be    *)
(* processed has a command of its own in the channel.                       *)
EveryEventHasCommand ==
    \A w \in Workers :
        batch[w] + (IF cur = w THEN 1 ELSE 0) <= Len(toMain[w])

(* What s sent and the main thread has not dispatched yet.                  *)
Sent(s) == IF s \in Actors THEN send[s] ELSE <<>>

(* The queues a message from s to d passes, the one nearest to d first.     *)
InFlight(s, d) == run[d] \o recv[d] \o Sent(s)

(* Without a pending limit and without Quit, what was sent and not yet      *)
(* processed is in flight, complete and in the order it was sent.           *)
NothingLost ==
    \A s \in Senders, d \in Actors :
        Pending[d] <= 0 =>
            /\ Rising(InFlight(s, d), s, d)
            /\ Numbers(InFlight(s, d), s, d) = done[s][d] + 1 .. seq[s][d]

(* With a pending limit messages may be dropped, but those that survive     *)
(* keep the order of their sender and none is processed twice.              *)
OrderKept ==
    \A s \in Senders, d \in Actors :
        /\ Rising(InFlight(s, d), s, d)
        /\ \A n \in Numbers(InFlight(s, d), s, d) : done[s][d] < n

(* run_queue_size bounds what one execution consumes, but for the batches   *)
(* left by workers that read kQuit before the kRun they were sent: their    *)
(* farewell clears the running flag of the actor, and the next batch is     *)
(* spliced in front of what they did not run.                               *)
RunBatchBound ==
    LET left == Cardinality({ w \in Workers : wpc[w] \in {"exit", "ended"} })
    IN  \A a \in Actors :
            RunSize[a] > 0 => Len(run[a]) <= RunSize[a] * (1 + left)

(* An actor with messages is eventually executed even if every other actor  *)
(* always has messages too: passing over running actors starves nobody.     *)
NoStarvation ==
    \A a \in Actors : recv[a] # <<>> ~> \E w \in Workers : Executing(w, a)

(* A caller of Quit that found the program running brings App::Exec to its  *)
(* end with every worker thread finished, however the callers interleave.   *)
(* (App::state_ may end as kQuitting: QuitStore.)                           *)
QuitTerminates ==
    (\E c \in Quitters : qpc[c] = "store")
        ~> mpc = "done" /\ \A w \in Workers : wpc[w] = "ended"

(* The scheduler implements the actor system it promises: an actor is busy  *)
(* while in_worker_ is set, its batch is the run queue.  In particular its  *)
(* in_worker_ is cleared only after the whole batch was processed, and a    *)
(* new batch begins only when the sends of the last one were dispatched.    *)
Promise == INSTANCE ActorSpec WITH
    Parallel <- Cardinality(Workers),
    accepted <- recv,
    batch    <- run,
    out      <- send,
    busy     <- {a \in Actors : inWorker[a]}

ImplementsFairActors == Promise!Spec

-----------------------------------------------------------------------------
(* Why an actor is serial: the inductive invariant of the proofs.           *)

HasIdle(w)    == toMain[w] \in {<<"kIdle">>, <<"kIdle", "kQuit">>}
HasGoodbye(w) == toMain[w] \in {<<"kQuit">>, <<"kIdle", "kQuit">>}
HasRun(w)     == In(toOwner[w], "kRun")
HasQuit(w)    == In(toOwner[w], "kQuit")
InIdleQ(w)    == In(idleQ, w)

(* A worker's baton is in one place: with the thread, in its kIdle, in the  *)
(* idle queue or in the kRun sent to it.                                    *)
Baton(w) ==
    /\ wpc[w] \in {"loop", "work"} => ~HasIdle(w) /\ ~InIdleQ(w) /\ ~HasRun(w)
    /\ HasIdle(w) => ~InIdleQ(w) /\ ~HasRun(w)
    /\ InIdleQ(w) => ~HasRun(w)

(* A worker says kQuit once, as the last thing, and none before somebody    *)
(* has called Quit.                                                         *)
Farewell(w) ==
    /\ HasGoodbye(w) => wpc[w] = "ended"
    /\ w \notin registered => wpc[w] = "ended" /\ toMain[w] = <<>>
    /\ appState = "running" => ~HasQuit(w) /\ wpc[w] \notin {"exit", "ended"}

(* A worker that was given an actor keeps it until its next kIdle is read,  *)
(* and the actor is marked in_worker_ until that event is processed.        *)
Holds(w) ==
    /\ wpc[w] = "work" \/ HasRun(w) => ctx[w] # None
    /\ InIdleQ(w) => ctx[w] = None
    /\ w \in registered /\ ctx[w] # None /\ cur # w => inWorker[ctx[w]]

(* No actor is given to two workers that are still registered.              *)
UniqueHolder ==
    \A v, w \in registered : v # w /\ ctx[v] = ctx[w] => ctx[v] = None

(* No caller of Quit goes on to the workers before the state is stored.     *)
StoredFirst ==
    \A c \in Quitters :
        /\ qpc[c] \in {"list", "stop"} => appState # "running"
        /\ toStop[c] # {} => qpc[c] = "stop"

IdleOnce == \A i, j \in 1..Len(idleQ) : idleQ[i] = idleQ[j] => i = j

WorkerInv ==
    /\ \A w \in Workers : Baton(w) /\ Farewell(w) /\ Holds(w)
    /\ StoredFirst
    /\ UniqueHolder
    /\ IdleOnce
    /\ EveryEventHasCommand
    /\ mpc \in {"join", "done"} => registered = {}

(* Over every order of kIdle, kRun and kQuit: each baton is in one place,   *)
(* each farewell said once, no actor in the hands of two workers.  This     *)
(* part is inductive by itself; SerialActor and MailboxExclusive follow.    *)
CoreInv == TypeOK /\ WorkerInv

(* Every worker that was given a and has not begun or ended its batch       *)
(* accounts for one batch in the run queue of a.                            *)
RunHolders(a) == { w \in Workers : ctx[w] = a /\ (wpc[w] = "work" \/ HasRun(w)) }
BatchesHeld ==
    \A a \in Actors :
        RunSize[a] > 0 => Len(run[a]) <= RunSize[a] * Cardinality(RunHolders(a))

(* Until Quit, an actor that is not marked running has nothing in its run   *)
(* queue, nor in its send list but while that is dispatched; one that is    *)
(* has a worker, and a worker that is done has run everything.              *)
ActorInv ==
    /\ \A a \in Actors :
         /\ ~inWorker[a] => run[a] = <<>>
         /\ ~inWorker[a] /\ send[a] # <<>> => cur # None /\ ctx[cur] = a
         /\ inWorker[a] => \E w \in Workers : ctx[w] = a /\ w # cur
    /\ \A w \in Workers :
         ctx[w] # None /\ (wpc[w] = "loop" \/ HasIdle(w)) => run[ctx[w]] = <<>>

(* Queues hold what belongs there.                                          *)
To(a) == { m \in Msg : m.dst = a }
By(a) == { m \in Msg : m.src = a }
Addressed ==
    \A a \in Actors :
        run[a] \in Seq(To(a)) /\ recv[a] \in Seq(To(a)) /\ send[a] \in Seq(By(a))

(* The messages of every pair flow, none missing if there is no limit.      *)
FlowInv ==
    /\ Addressed
    /\ \A s \in Senders, d \in Actors :
         /\ Flows(run[d], recv[d], Sent(s), s, d, done[s][d], seq[s][d])
         /\ Pending[d] <= 0 =>
              Full(run[d], recv[d], Sent(s), s, d, done[s][d], seq[s][d])

(* The inductive invariant of all safety properties of this module.         *)
IInv ==
    /\ CoreInv
    /\ WaitQueueExact
    /\ BatchesHeld
    /\ appState = "running" => ActorInv /\ (Counted => FlowInv)

=============================================================================
