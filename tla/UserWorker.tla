------------------------------ MODULE UserWorker ------------------------------
(****************************************************************************)
(* User workers: threads with a mailbox of their own and a Run callback     *)
(* that consumes its run queue, sends, and then hands over to the main      *)
(* thread in one of two ways: DispatchMsg (kIdle, answered at once with     *)
(* kRun) or DispatchAndWaitMsg (kWaitForMsg, answered with kRunWithMsg when *)
(* there is a message).  Nothing is locked: ctrl_owner_ says whether the    *)
(* main thread may touch the mailbox of a worker that waits.                *)
(*                                                                          *)
(* The main thread goes round as in Scheduler: WeakupWorker, Poller::Wait,  *)
(* events.  What it does within a step is seen by no other thread before    *)
(* the command it ends with.                                                *)
(*                                                                          *)
(* A Run that has got -1 ("told") uses the mailbox and dispatches no more,  *)
(* it returns: the mailbox may not be its own any longer, and a second call *)
(* might never be answered.  Every Run of the repository does so.           *)
(****************************************************************************)
EXTENDS Mailbox, Command, Flow, FiniteSets

CONSTANTS
    Users,      \* the user workers
    ext,        \* any other source of messages: actors, event connections
    None,       \* the null pointer
    Pending,    \* Pending[w]: pending_queue_size of the worker's mailbox
    RunSize,    \* RunSize[w]: run_queue_size of the worker's mailbox
    Stoppers,   \* the workers whose Run may call Worker::Stop
    Quitters,   \* the threads whose App::Quit finds the program running
    Loads,      \* bound: how much who may have sent to whom, all in all
    MaxSeq      \* bound on the messages of a pair

ASSUME UserWorkerAssumption ==
    /\ ext \notin Users
    /\ None \notin Users
    /\ Pending \in [Users -> Int]
    /\ RunSize \in [Users -> Int]
    /\ Loads \subseteq [Users \cup {ext} -> [Users -> 0..MaxSeq]]
    /\ MaxSeq \in Nat \ {0}
    /\ IsFiniteSet(Quitters)

VARIABLES
    recv, run, send,   \* the mailbox of each worker
    owner,             \* WorkerContext::ctrl_owner_
    flagged,           \* WorkerContext::in_msg_wait_queue_
    weakup,            \* WorkerContextManager::weakup_workers_ctx_
    toOwner, toMain,   \* the two directions of each worker's CmdChannel
    wpc,               \* where each worker thread is
    runing,            \* WorkerContext::runing_
    mpc,               \* where the main thread is in App::Exec
    ready,             \* events Poller::Wait returned for each worker
    cur,               \* the worker whose event is being processed
    registered,        \* EventManager::evs_, its user workers
    called,            \* the callers of Quit that have listed the workers
    toStop,            \* the workers such a caller has not told yet
    seq, done          \* history: last number sent / processed per pair

mailboxVars == <<recv, run, send>>
threadVars  == <<wpc, runing>>
quitVars    == <<called, toStop>>
ownerVars   == <<owner, flagged, weakup>>
chanVars    == <<toOwner, toMain>>
mainVars    == <<mpc, ready, cur, registered>>
histVars    == <<seq, done>>
vars == <<recv, run, send, owner, flagged, weakup, toOwner, toMain, wpc,
          runing, mpc, ready, cur, registered, called, toStop, seq, done>>

Senders == Users \cup {ext}
Msg     == [src : Senders, dst : Users, n : 1..MaxSeq]

Init ==
    /\ recv = [w \in Users |-> <<>>]
    /\ run  = [w \in Users |-> <<>>]
    /\ send = [w \in Users |-> <<>>]
    /\ owner = [w \in Users |-> "kWorker"]
    /\ flagged = [w \in Users |-> FALSE]
    /\ weakup = <<>>
    /\ toOwner = [w \in Users |-> <<>>]
    /\ toMain  = [w \in Users |-> <<>>]
    /\ wpc = [w \in Users |-> "run"]
    /\ runing = [w \in Users |-> TRUE]
    /\ mpc = "check"
    /\ ready = [w \in Users |-> 0]
    /\ cur = None
    /\ registered = Users
    /\ called = {}
    /\ toStop = [c \in Quitters |-> {}]
    /\ seq  = [s \in Senders |-> [w \in Users |-> 0]]
    /\ done = [s \in Senders |-> [w \in Users |-> 0]]

MaySend(s, d) == [seq EXCEPT ![s][d] = @ + 1] \in Loads
Numbered(s, d) == [src |-> s, dst |-> d, n |-> seq[s][d] + 1]

-----------------------------------------------------------------------------
(* Worker threads: WorkerContext::ListenThread around the user's Run.       *)

(* Run pops a message of the run queue ...                                  *)
Consume(w) ==
    /\ wpc[w] = "run"
    /\ run[w] # <<>>
    /\ LET m == Head(run[w]) IN done' = [done EXCEPT ![m.src][w] = m.n]
    /\ run' = [run EXCEPT ![w] = Tail(@)]
    /\ UNCHANGED <<recv, send, ownerVars, chanVars, threadVars, mainVars,
                   quitVars, seq>>

(* ... puts a message into the send list ...                                *)
Produce(w) ==
    /\ wpc[w] = "run"
    /\ \E d \in Users :
         /\ MaySend(w, d)
         /\ send' = [send EXCEPT ![w] = Append(@, Numbered(w, d))]
         /\ seq' = [seq EXCEPT ![w][d] = @ + 1]
    /\ UNCHANGED <<recv, run, ownerVars, chanVars, threadVars, mainVars,
                   quitVars, done>>

(* ... calls Worker::Stop, if the worker wants to end, and goes on ...      *)
Stop(w) ==
    /\ wpc[w] = "run"
    /\ w \in Stoppers
    /\ runing' = [runing EXCEPT ![w] = FALSE]
    /\ UNCHANGED <<mailboxVars, ownerVars, chanVars, wpc, mainVars, quitVars,
                   histVars>>

(* ... and calls Worker::DispatchMsg or DispatchAndWaitMsg, which send a    *)
(* command and block.                                                       *)
Dispatch(w) ==
    /\ wpc[w] = "run"
    /\ \E call \in {[cmd |-> "kIdle", pc |-> "idle"],
                    [cmd |-> "kWaitForMsg", pc |-> "wait"]} :
         /\ toMain' = [toMain EXCEPT ![w] = Append(@, call.cmd)]
         /\ wpc' = [wpc EXCEPT ![w] = call.pc]
    /\ UNCHANGED <<mailboxVars, ownerVars, toOwner, runing, mainVars, quitVars,
                   histVars>>

(* The answer: on kQuit the call stops the worker and returns -1 to Run,    *)
(* else Run goes on.                                                        *)
RecvCmd(w) ==
    LET told == Head(toOwner[w]) = "kQuit" IN
    /\ wpc[w] \in {"idle", "wait"}
    /\ toOwner[w] # <<>>
    /\ toOwner' = [toOwner EXCEPT ![w] = Tail(@)]
    /\ wpc' = [wpc EXCEPT ![w] = IF told THEN "told" ELSE "run"]
    /\ runing' = [runing EXCEPT ![w] = @ /\ ~told]
    /\ UNCHANGED <<mailboxVars, ownerVars, toMain, mainVars, quitVars,
                   histVars>>

(* Run returns to the loop of ListenThread, which calls it again unless the *)
(* worker was stopped.  Then the thread ends, with Exit and the farewell.   *)
Return(w) ==
    /\ wpc[w] \in {"run", "told"}
    /\ ~runing[w]
    /\ toMain' = [toMain EXCEPT ![w] = Append(@, "kQuit")]
    /\ wpc' = [wpc EXCEPT ![w] = "ended"]
    /\ UNCHANGED <<mailboxVars, ownerVars, toOwner, runing, mainVars, quitVars,
                   histVars>>

Thread(w) ==
    \/ Consume(w) \/ Produce(w) \/ Stop(w) \/ Dispatch(w) \/ RecvCmd(w)
    \/ Return(w)

-----------------------------------------------------------------------------
(* The main thread.                                                         *)

(* Mutant: the worker is queued with every message.                         *)
DispatchWorkerMsgAlways(m) ==
    LET w == m.dst IN
    \/ /\ w \notin registered
       /\ UNCHANGED <<recv, flagged, weakup>>
    \/ /\ w \in registered
       /\ recv' = [recv EXCEPT ![w] = Recv(recv[w], m, Pending[w])]
       /\ flagged' = [flagged EXCEPT ![w] = TRUE]
       /\ weakup' = Append(weakup, w)

(* WorkerContextManager::DispatchWorkerMsg: a message to a worker that is   *)
(* gone is dropped; the first message of a worker queues it for WeakupWorker.*)
DispatchWorkerMsg(m) ==
    LET w == m.dst IN
    \/ /\ w \notin registered
       /\ UNCHANGED <<recv, flagged, weakup>>
    \/ /\ w \in registered
       /\ recv' = [recv EXCEPT ![w] = Recv(recv[w], m, Pending[w])]
       /\ flagged' = [flagged EXCEPT ![w] = TRUE]
       /\ weakup' = IF flagged[w] THEN weakup ELSE Append(weakup, w)

(* Mutant: ctrl_owner_ is not looked at.                                    *)
MayWakeAny(w) == TRUE

MayWake(w) == owner[w] = "kMain"

(* Mutant: in_msg_wait_queue_ stays set.                                    *)
FlagAfterWakeKept(w) == TRUE

FlagAfterWake(w) == FALSE

(* The queue without the worker that is woken.                              *)
WeakupAfter(i) ==
    SubSeq(weakup, 1, i - 1) \o SubSeq(weakup, i + 1, Len(weakup))

(* One round of the loop of WeakupWorker: the first queued worker that      *)
(* waits gets its messages and kRunWithMsg.                                 *)
Wake(i) ==
    LET w == weakup[i] IN
    /\ mpc = "check"
    /\ MayWake(w)
    /\ \A j \in 1..i - 1 : ~MayWake(weakup[j])
    /\ run' = [run EXCEPT ![w] = RunAfterMove(recv[w], run[w], RunSize[w])]
    /\ recv' = [recv EXCEPT ![w] = RecvAfterMove(recv[w], RunSize[w])]
    /\ weakup' = WeakupAfter(i)
    /\ owner' = [owner EXCEPT ![w] = "kWorker"]
    /\ flagged' = [flagged EXCEPT ![w] = FlagAfterWake(w)]
    /\ toOwner' = [toOwner EXCEPT ![w] = Append(@, "kRunWithMsg")]
    /\ UNCHANGED <<send, toMain, threadVars, mainVars, quitVars,
                   histVars>>

WeakupWorker == \E i \in 1..Len(weakup) : Wake(i)

(* CheckStopWorkers is done and Poller::Wait returns: PollerGeneric reports *)
(* a worker once for every command, epoll once if there is one.             *)
Wait ==
    /\ mpc = "check"
    /\ \A i \in 1..Len(weakup) : ~MayWake(weakup[i])
    /\ \E most \in {1, 2} :
          ready' = [w \in Users |-> IF w \in registered
                                     THEN Min2(Len(toMain[w]), most) ELSE 0]
    /\ mpc' = "process"
    /\ UNCHANGED <<mailboxVars, ownerVars, chanVars, threadVars, cur, registered,
                   quitVars, histVars>>

(* A message from an actor or an event connection is dispatched.            *)
ProcessOther ==
    /\ mpc = "process"
    /\ \E d \in Users :
         /\ MaySend(ext, d)
         /\ DispatchWorkerMsg(Numbered(ext, d))
         /\ seq' = [seq EXCEPT ![ext][d] = @ + 1]
    /\ UNCHANGED <<run, send, owner, chanVars, threadVars, mainVars,
                   quitVars, done>>

(* App::ProcessUserEvent, first: an event of the batch ...                  *)
BeginEvent(w) ==
    /\ mpc = "process"
    /\ ready[w] > 0
    /\ ready' = [ready EXCEPT ![w] = @ - 1]
    /\ cur' = w
    /\ mpc' = "dispatch"
    /\ UNCHANGED <<mailboxVars, ownerVars, chanVars, threadVars, registered,
                   quitVars, histVars>>

(* Mutant: a dispatched message stays in the send list.                     *)
SendAfterKept(w) == send[w]

SendAfter(w) == Tail(send[w])

(* ... then every message of the worker's send list goes to its receiver.   *)
DispatchOne ==
    /\ mpc = "dispatch"
    /\ send[cur] # <<>>
    /\ DispatchWorkerMsg(Head(send[cur]))
    /\ send' = [send EXCEPT ![cur] = SendAfter(cur)]
    /\ UNCHANGED <<run, owner, chanVars, threadVars, mainVars, quitVars,
                   histVars>>

(* Mutant: the worker that waits for messages is answered at once.          *)
ReplyAlways == [cmd \in {"kIdle", "kWaitForMsg"} |-> <<"kRun">>]

Reply == [cmd \in {"kIdle", "kWaitForMsg"} |->
             IF cmd = "kIdle" THEN <<"kRun">> ELSE <<>>]

(* ... and one command is read and obeyed.                                  *)
FinishEvent ==
    LET cmd == Head(toMain[cur]) IN
    /\ mpc = "dispatch"
    /\ send[cur] = <<>>
    /\ toMain[cur] # <<>>
    /\ toMain' = [toMain EXCEPT ![cur] = Tail(@)]
    /\ \/ /\ cmd \in {"kIdle", "kWaitForMsg"}
          /\ toOwner' = [toOwner EXCEPT ![cur] = @ \o Reply[cmd]]
          /\ owner' = IF cmd = "kIdle" THEN owner
                      ELSE [owner EXCEPT ![cur] = "kMain"]
          /\ UNCHANGED registered
       \/ /\ cmd = "kQuit"
          /\ registered' = registered \ {cur}
          /\ UNCHANGED <<toOwner, owner>>
    /\ cur' = None
    /\ mpc' = "process"
    /\ UNCHANGED <<mailboxVars, flagged, weakup, threadVars, ready, quitVars,
                   histVars>>

(* All events are processed: the next round of App::Exec, if a worker is    *)
(* left; those of the other modules end with the program only.              *)
ProcessDone ==
    /\ mpc = "process"
    /\ \A w \in Users : ready[w] = 0
    /\ mpc' = IF registered = {} /\ called # {} THEN "done" ELSE "check"
    /\ UNCHANGED <<mailboxVars, ownerVars, chanVars, threadVars, ready, cur,
                   registered, quitVars, histVars>>

Main ==
    \/ WeakupWorker \/ Wait
    \/ (\E w \in Users : BeginEvent(w))
    \/ DispatchOne \/ FinishEvent \/ ProcessDone

(* WorkerContextManager::StopAllWorker on the thread of a caller of Quit:   *)
(* first a list of the workers ...                                          *)
StopAllWorker(c) ==
    /\ c \notin called
    /\ called' = called \cup {c}
    /\ toStop' = [toStop EXCEPT ![c] = registered]
    /\ UNCHANGED <<mailboxVars, ownerVars, chanVars, threadVars, mainVars,
                   histVars>>

(* Mutant: workers that wait for messages are not told.                     *)
SendQuitBusy(c, w) ==
    /\ w \in toStop[c]
    /\ toOwner' = IF owner[w] = "kMain" THEN toOwner
                  ELSE [toOwner EXCEPT ![w] = Append(@, "kQuit")]
    /\ toStop' = [toStop EXCEPT ![c] = @ \ {w}]
    /\ UNCHANGED <<mailboxVars, ownerVars, toMain, threadVars, mainVars, called,
                   histVars>>

(* ... then kQuit into one channel after another, whoever wrote there       *)
(* before and even if the worker has ended meanwhile.                       *)
SendQuit(c, w) ==
    /\ w \in toStop[c]
    /\ toOwner' = [toOwner EXCEPT ![w] = Append(@, "kQuit")]
    /\ toStop' = [toStop EXCEPT ![c] = @ \ {w}]
    /\ UNCHANGED <<mailboxVars, ownerVars, toMain, threadVars, mainVars, called,
                   histVars>>

Caller(c) == \E w \in Users : SendQuit(c, w)

Terminated == mpc = "done" /\ UNCHANGED vars

Next ==
    \/ (\E w \in Users : Thread(w)) \/ Main \/ ProcessOther
    \/ (\E c \in Quitters : StopAllWorker(c) \/ Caller(c))
    \/ Terminated

(* The main thread goes round; a worker that is answered goes on, and its   *)
(* Run always dispatches or returns in the end.  Nobody is obliged to       *)
(* consume, to send or to stop, nor to call Quit, but a Quit that began     *)
(* tells everybody.                                                         *)
Fairness ==
    /\ WF_vars(Main)
    /\ \A w \in Users : /\ WF_vars(Dispatch(w) \/ Return(w))
                        /\ WF_vars(RecvCmd(w))
    /\ \A c \in Quitters : WF_vars(Caller(c))

Spec == Init /\ [][Next]_vars /\ Fairness

-----------------------------------------------------------------------------
(* Properties.                                                              *)

ToMainStates  == {<<>>, <<"kIdle">>, <<"kWaitForMsg">>, <<"kQuit">>,
                  <<"kIdle", "kQuit">>, <<"kWaitForMsg", "kQuit">>}
Answers       == {"kRun", "kRunWithMsg"}

(* The callers of Quit that are past w.                                     *)
Told(w) == { c \in Quitters : c \in called /\ w \notin toStop[c] }

FromMain(w) == toOwner[w] \in ToOwnerStates(Answers, Cardinality(Told(w)))

(* Every variable stays in its type; a worker has at most one answer under  *)
(* way and a kQuit from each caller of Quit that is past it, and every      *)
(* event that waits to be processed has its command.                        *)
TypeOK ==
    /\ recv \in [Users -> Seq(Msg)]
    /\ run  \in [Users -> Seq(Msg)]
    /\ send \in [Users -> Seq(Msg)]
    /\ owner \in [Users -> {"kMain", "kWorker"}]
    /\ flagged \in [Users -> BOOLEAN]
    /\ weakup \in Seq(Users)
    /\ toOwner \in [Users -> Seq(Answers \cup {"kQuit"})]
    /\ \A w \in Users : FromMain(w)
    /\ toMain \in [Users -> ToMainStates]
    /\ wpc \in [Users -> {"run", "idle", "wait", "told", "ended"}]
    /\ runing \in [Users -> BOOLEAN]
    /\ mpc \in {"check", "process", "dispatch", "done"}
    /\ ready \in [Users -> Nat]
    /\ cur \in Users \cup {None}
    /\ (mpc = "dispatch") = (cur # None)
    /\ \A w \in Users :
         ready[w] + (IF cur = w THEN 1 ELSE 0) <= Len(toMain[w])
    /\ registered \subseteq Users
    /\ called \subseteq Quitters
    /\ toStop \in [Quitters -> SUBSET Users]
    /\ seq  \in [Senders -> [Users -> 0..MaxSeq]]
    /\ done \in [Senders -> [Users -> 0..MaxSeq]]

(* While Run executes, the main thread touches neither the worker's run     *)
(* queue (WeakupWorker would need ctrl_owner_ = kMain) nor its send list (a *)
(* ProcessUserEvent would need a command): the mailbox needs no lock, even  *)
(* if kQuit overtakes an answer or a worker mixes both ways of waiting.     *)
MailboxExclusive ==
    \A w \in Users :
        wpc[w] = "run" => ~MayWake(w) /\ ready[w] = 0 /\ cur # w

(* DispatchAndWaitMsg returns 0 only with a message: kRunWithMsg always     *)
(* comes with a run queue that is not empty.                                *)
WokenWithMessage ==
    \A w \in Users :
        In(toOwner[w], "kRunWithMsg") => run[w] # <<>>

(* A worker is queued exactly once from its first unmoved message on.  A    *)
(* batch limit breaks this: what it leaves behind waits for the next        *)
(* message, so it is claimed for unlimited workers only (the default).      *)
QueuedWithMessages ==
    /\ \A i, j \in 1..Len(weakup) : weakup[i] = weakup[j] => i = j
    /\ \A w \in Users :
         /\ flagged[w] = (\E i \in 1..Len(weakup) : weakup[i] = w)
         /\ flagged[w] => recv[w] # <<>>
         /\ RunSize[w] <= 0 /\ recv[w] # <<>> => flagged[w]

(* What s sent and the main thread has not dispatched yet.                  *)
Sent(s) == IF s \in Users THEN send[s] ELSE <<>>

(* The queues a message from s to d passes, the one nearest to d first.     *)
InFlight(s, d) == run[d] \o recv[d] \o Sent(s)

(* No message of an unlimited mailbox is lost, doubled or overtaken by one  *)
(* of the same sender, as long as the receiver is there.                    *)
NothingLost ==
    \A s \in Senders, d \in registered :
        Pending[d] <= 0 /\ RunSize[d] <= 0 =>
            /\ Rising(InFlight(s, d), s, d)
            /\ Numbers(InFlight(s, d), s, d) = done[s][d] + 1 .. seq[s][d]

(* A worker that waits is woken by a message that reached its mailbox.      *)
WaiterWoken ==
    \A w \in Users :
        RunSize[w] <= 0 =>
            (wpc[w] = "wait" /\ recv[w] # <<>> ~> wpc[w] # "wait")

(* Quit ends every user worker, those that wait for messages that never     *)
(* come included, and App::Exec with them.                                  *)
QuitTerminates ==
    called # {} ~> mpc = "done" /\ \A w \in Users : wpc[w] = "ended"

-----------------------------------------------------------------------------
(* The inductive invariant of the proofs.                                   *)

Says(w, c)    == In(toMain[w], c)
IsAnswered(w) == Answered(toOwner[w], Answers)

(* The right to run is with the thread, in the command it sent, with the    *)
(* main thread that keeps it waiting or in the answer, and nowhere else.    *)
Baton(w) ==
    /\ wpc[w] = "run" => ~Says(w, "kIdle") /\ ~Says(w, "kWaitForMsg")
                          /\ owner[w] = "kWorker" /\ ~IsAnswered(w)
    /\ Says(w, "kIdle") \/ Says(w, "kWaitForMsg")
         => owner[w] = "kWorker" /\ ~IsAnswered(w)
    /\ owner[w] = "kMain" => ~IsAnswered(w)

(* A worker says kQuit once, as the last thing, and only if it was stopped; *)
(* no caller of Quit tells before it has listed.                            *)
Farewell(w) ==
    /\ Says(w, "kQuit") => wpc[w] = "ended"
    /\ wpc[w] \in {"told", "ended"} => ~runing[w]
    /\ w \notin registered => wpc[w] = "ended" /\ toMain[w] = <<>>
    /\ In(toOwner[w], "kQuit") => called # {}
ListedFirst == \A c \in Quitters : toStop[c] # {} => c \in called

(* Queues hold what belongs there.                                          *)
To(w) == { m \in Msg : m.dst = w }
By(w) == { m \in Msg : m.src = w }
Addressed ==
    \A w \in Users :
        run[w] \in Seq(To(w)) /\ recv[w] \in Seq(To(w)) /\ send[w] \in Seq(By(w))

(* The messages to a worker that takes all that waits flow in order, none   *)
(* missing if there is no pending limit either.                             *)
FlowInv ==
    \A s \in Senders, d \in registered :
        RunSize[d] <= 0 =>
            /\ Flows(run[d], recv[d], Sent(s), s, d, done[s][d], seq[s][d])
            /\ Pending[d] <= 0 =>
                 Full(run[d], recv[d], Sent(s), s, d, done[s][d], seq[s][d])

BatonInv ==
    /\ TypeOK
    /\ \A w \in Users : Baton(w) /\ Farewell(w)
    /\ ListedFirst

IInv == BatonInv /\ QueuedWithMessages /\ WokenWithMessage /\ Addressed /\ FlowInv

=============================================================================
