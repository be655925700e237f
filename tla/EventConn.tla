------------------------------ MODULE EventConn ------------------------------
(****************************************************************************)
(* App::Send and App::SendRequest: threads that are not part of the         *)
(* framework talk to it through event connections.  A connection is taken   *)
(* from a pool, registered with the event manager and the poller, used for  *)
(* one message and given back: by the caller after Send, by the MAIN thread *)
(* after SendRequest, when the reply arrives (EventConnManager::Notify).    *)
(*                                                                          *)
(* The poller is epoll (the Linux default): an event is reported while a    *)
(* connection is registered with it and has an unread command.  Actors that *)
(* answer requests are outside of this module: a request dispatched is      *)
(* answered at any later time; twice if it went to an actor and to the node *)
(* (kHybrid), or if the actor answers again.                                *)
(****************************************************************************)
EXTENDS Integers, Sequences, FiniteSets, SequencesExt

CONSTANTS
    Threads,    \* the threads that call Send and SendRequest
    None,       \* no connection, no message
    PoolSize,   \* event_conn_size, the connections made by Init
    MaxConns,   \* bound on the connections AddEventConn may make
    Calls,      \* bound on the calls of a thread
    Workloads,  \* what each thread does: one of these is picked
    MayQuit     \* TRUE: App::Quit may be called

Conns == 0..MaxConns - 1
Msg == [thread : Threads, n : 1..Calls, conn : Conns]

ASSUME ConnAssumption ==
    /\ IsFiniteSet(Threads)
    /\ None \notin Threads \cup Int \cup Msg
    /\ PoolSize \in Nat /\ MaxConns \in Nat /\ PoolSize <= MaxConns
    /\ Calls \in Nat \ {0}
    /\ Workloads \subseteq [Threads -> {"send", "request", "twice", "nowhere",
                                       "none"}]
    /\ MayQuit \in BOOLEAN

(* "request": SendRequest, answered once; "twice": answered twice;          *)
(* "nowhere": SendRequest with a message that has no destination.           *)
Asks(k) == k \in {"request", "twice"}

VARIABLES
    idle,       \* EventConnManager::idle_conn_
    made,       \* EventConnManager::conn_sz_
    evs,        \* connections in EventManager::evs_
    polled,     \* connections registered with epoll
    connType,   \* EventConn::conn_type_
    send, recv, \* the mailbox of each connection
    toMain, toOwner,    \* the command channel of each connection
    pc,         \* where each thread is in its call
    conn,       \* the connection of its call
    count,      \* calls begun by each thread
    answer,     \* what the last SendRequest of a thread received
    ready,      \* events reported by epoll_wait, still unprocessed
    mpc,        \* where the main thread is
    notify,     \* the reply EventConnManager::Notify is working on
    asked,      \* answers the actors are going to give
    appState,   \* App::state_
    dispatched, \* history: messages, in the order of dispatch
    kind        \* the workload picked

poolVars   == <<idle, made>>
connVars   == <<connType, send, recv, toMain, toOwner>>
threadVars == <<pc, conn, count, answer>>
mainVars   == <<ready, mpc, notify, asked>>
vars == <<idle, made, evs, polled, connType, send, recv, toMain, toOwner, pc,
          conn, count, answer, ready, mpc, notify, asked, appState,
          dispatched, kind>>

Answers(m) == {[msg |-> m, copy |-> i] :
                  i \in IF kind[m.thread] = "twice" THEN 1..2 ELSE 1..1}

Init ==
    /\ idle = [i \in 1..PoolSize |-> i - 1]
    /\ made = PoolSize
    /\ evs = {} /\ polled = {}
    /\ connType = [c \in Conns |-> "request"]
    /\ send = [c \in Conns |-> <<>>] /\ recv = [c \in Conns |-> <<>>]
    /\ toMain = [c \in Conns |-> <<>>] /\ toOwner = [c \in Conns |-> <<>>]
    /\ pc = [t \in Threads |-> "idle"]
    /\ conn = [t \in Threads |-> None]
    /\ count = [t \in Threads |-> 0]
    /\ answer = [t \in Threads |-> None]
    /\ ready = {} /\ mpc = "wait" /\ notify = None /\ asked = {}
    /\ appState = "running"
    /\ dispatched = <<>>
    /\ kind \in Workloads

-----------------------------------------------------------------------------
(* A thread in App::Send or App::SendRequest.                               *)

(* The state is checked first, and once.                                    *)
Call(t) ==
    /\ pc[t] = "idle"
    /\ kind[t] # "none"
    /\ count[t] < Calls
    /\ appState = "running"
    /\ pc' = [pc EXCEPT ![t] = "alloc"]
    /\ count' = [count EXCEPT ![t] = @ + 1]
    /\ UNCHANGED <<poolVars, evs, polled, connVars, conn, answer, mainVars,
                   appState, dispatched, kind>>

(* Mutant: the connection stays in the idle list, and that it is already    *)
(* registered is ignored.                                                   *)
AllocPeek(t) ==
    LET fresh == idle = <<>>
        c == IF fresh THEN made ELSE Head(idle)
    IN
    /\ pc[t] = "alloc"
    /\ c \in Conns
    /\ made' = IF fresh THEN made + 1 ELSE made
    /\ evs' = evs \cup {c}
    /\ conn' = [conn EXCEPT ![t] = c]
    /\ pc' = [pc EXCEPT ![t] = "poll"]
    /\ UNCHANGED <<idle, polled, connVars, count, answer, mainVars, appState,
                   dispatched, kind>>

(* EventConnManager::Alloc, under its lock.  If the connection is already   *)
(* registered the call fails (and the connection is lost).                  *)
Alloc(t) ==
    LET fresh == idle = <<>>
        c == IF fresh THEN made ELSE Head(idle)
    IN
    /\ pc[t] = "alloc"
    /\ c \in Conns
    /\ made' = IF fresh THEN made + 1 ELSE made
    /\ idle' = IF fresh THEN idle ELSE Tail(idle)
    /\ evs' = evs \cup {c}
    /\ conn' = [conn EXCEPT ![t] = c]
    /\ pc' = [pc EXCEPT ![t] = IF c \in evs THEN "idle" ELSE "poll"]
    /\ UNCHANGED <<polled, connVars, count, answer, mainVars, appState,
                   dispatched, kind>>

(* poller_->Add.                                                            *)
PollAdd(t) ==
    /\ pc[t] = "poll"
    /\ polled' = polled \cup {conn[t]}
    /\ pc' = [pc EXCEPT ![t] = "put"]
    /\ UNCHANGED <<poolVars, evs, connVars, conn, count, answer, mainVars,
                   appState, dispatched, kind>>

Command(k) == IF k = "send" THEN "kRun" ELSE "kRunWithMsg"
ConnType(k) == IF k = "send" THEN "send" ELSE "request"

(* Mutant: Send does not wait for the main thread.                          *)
PutNoWait(t) ==
    LET c == conn[t] IN
    /\ pc[t] = "put" /\ kind[t] # "nowhere"
    /\ connType' = [connType EXCEPT ![c] = ConnType(kind[t])]
    /\ send' = [send EXCEPT
                   ![c] = <<[thread |-> t, n |-> count[t], conn |-> c]>>]
    /\ toMain' = [toMain EXCEPT ![c] = Append(@, Command(kind[t]))]
    /\ pc' = [pc EXCEPT ![t] = IF kind[t] = "send" THEN "unpoll" ELSE "recv"]
    /\ UNCHANGED <<poolVars, evs, polled, recv, toOwner, conn, count, answer,
                   mainVars, appState, dispatched, kind>>

(* Without a destination SendRequest returns at once.                       *)
PutNowhere(t) ==
    /\ pc[t] = "put" /\ kind[t] = "nowhere"
    /\ connType' = [connType EXCEPT ![conn[t]] = "request"]
    /\ send' = [send EXCEPT ![conn[t]] = <<>>]
    /\ answer' = [answer EXCEPT ![t] = None]
    /\ pc' = [pc EXCEPT ![t] = "unpoll"]
    /\ UNCHANGED <<poolVars, evs, polled, recv, toMain, toOwner, conn, count,
                   mainVars, appState, dispatched, kind>>

(* EventConn::Send and SendRequest up to the command for the main thread.   *)
Put(t) ==
    LET c == conn[t] IN
    /\ pc[t] = "put" /\ kind[t] # "nowhere"
    /\ connType' = [connType EXCEPT ![c] = ConnType(kind[t])]
    /\ send' = [send EXCEPT
                   ![c] = <<[thread |-> t, n |-> count[t], conn |-> c]>>]
    /\ toMain' = [toMain EXCEPT ![c] = Append(@, Command(kind[t]))]
    /\ pc' = [pc EXCEPT ![t] = "recv"]
    /\ UNCHANGED <<poolVars, evs, polled, recv, toOwner, conn, count, answer,
                   mainVars, appState, dispatched, kind>>

(* Mutant: the command stays in the channel.                                *)
ReceivePeeks(t) ==
    LET c == conn[t] IN
    /\ pc[t] = "recv"
    /\ toOwner[c] # <<>>
    /\ answer' = [answer EXCEPT ![t] =
                     IF Asks(kind[t]) /\ recv[c] # <<>>
                     THEN Head(recv[c]) ELSE None]
    /\ recv' = IF Asks(kind[t]) THEN [recv EXCEPT ![c] = <<>>] ELSE recv
    /\ pc' = [pc EXCEPT ![t] = "unpoll"]
    /\ UNCHANGED <<poolVars, evs, polled, connType, send, toMain, toOwner,
                   conn, count, mainVars, appState, dispatched, kind>>

(* Mutant: the answer is looked at but stays in the mailbox.                *)
ReceiveKeeps(t) ==
    LET c == conn[t] IN
    /\ pc[t] = "recv"
    /\ toOwner[c] # <<>>
    /\ toOwner' = [toOwner EXCEPT ![c] = Tail(@)]
    /\ answer' = [answer EXCEPT ![t] =
                     IF Asks(kind[t]) /\ recv[c] # <<>>
                     THEN Head(recv[c]) ELSE None]
    /\ pc' = [pc EXCEPT ![t] = "unpoll"]
    /\ UNCHANGED <<poolVars, evs, polled, connType, send, recv, toMain, conn,
                   count, mainVars, appState, dispatched, kind>>

(* The blocking RecvFromMain, then what SendRequest takes from the mailbox. *)
Receive(t) ==
    LET c == conn[t] IN
    /\ pc[t] = "recv"
    /\ toOwner[c] # <<>>
    /\ toOwner' = [toOwner EXCEPT ![c] = Tail(@)]
    /\ answer' = [answer EXCEPT ![t] =
                     IF Asks(kind[t]) /\ recv[c] # <<>>
                     THEN Head(recv[c]) ELSE None]
    /\ recv' = IF Asks(kind[t]) THEN [recv EXCEPT ![c] = <<>>] ELSE recv
    /\ pc' = [pc EXCEPT ![t] = "unpoll"]
    /\ UNCHANGED <<poolVars, evs, polled, connType, send, toMain, conn, count,
                   mainVars, appState, dispatched, kind>>

(* poller_->Del; SendRequest returns.                                       *)
PollDel(t) ==
    /\ pc[t] = "unpoll"
    /\ polled' = polled \ {conn[t]}
    /\ pc' = [pc EXCEPT ![t] =
                 IF kind[t] = "send" THEN "release" ELSE "idle"]
    /\ UNCHANGED <<poolVars, evs, connVars, conn, count, answer, mainVars,
                   appState, dispatched, kind>>

(* EventConnManager::Release has two steps, under two locks: ev_mgr_->Del,  *)
(* and the return to the pool, left out if Del did not find the connection. *)
Del(c) == evs' = evs \ {c}

(* Mutant: the connection is not given back.                                *)
GiveBackLeaks(c) == UNCHANGED idle

GiveBack(c) == idle' = Append(idle, c)

(* Send releases its connection ...                                         *)
SendRelease(t) ==
    /\ pc[t] = "release"
    /\ Del(conn[t])
    /\ pc' = [pc EXCEPT ![t] = IF conn[t] \in evs THEN "return" ELSE "idle"]
    /\ UNCHANGED <<poolVars, polled, connVars, conn, count, answer, mainVars,
                   appState, dispatched, kind>>

(* ... and returns.                                                         *)
SendReturn(t) ==
    /\ pc[t] = "return"
    /\ GiveBack(conn[t])
    /\ pc' = [pc EXCEPT ![t] = "idle"]
    /\ UNCHANGED <<made, evs, polled, connVars, conn, count, answer, mainVars,
                   appState, dispatched, kind>>

Thread(t) == Call(t) \/ Alloc(t) \/ PollAdd(t) \/ Put(t) \/ PutNowhere(t)
             \/ Receive(t) \/ PollDel(t) \/ SendRelease(t) \/ SendReturn(t)

-----------------------------------------------------------------------------
(* The main thread.                                                         *)

Wait ==
    /\ mpc = "wait"
    /\ ready' = { c \in polled : toMain[c] # <<>> }
    /\ mpc' = "process"
    /\ UNCHANGED <<poolVars, evs, polled, connVars, threadVars, notify, asked,
                   appState, dispatched, kind>>

(* Mutant: kRun is not answered.                                            *)
ProcessEventConnMute(c) ==
    LET requests == { i \in 1..Len(send[c]) : Asks(kind[send[c][i].thread]) }
    IN
    /\ mpc = "process" /\ notify = None
    /\ c \in ready
    /\ ready' = ready \ {c}
    /\ \/ /\ c \notin evs
          /\ UNCHANGED <<connVars, asked, dispatched>>
       \/ /\ c \in evs
          /\ asked' = asked \cup UNION { Answers(send[c][i]) : i \in requests }
          /\ dispatched' = dispatched \o send[c]
          /\ send' = [send EXCEPT ![c] = <<>>]
          /\ toMain' = [toMain EXCEPT ![c] = Tail(@)]
          /\ UNCHANGED <<connType, recv, toOwner>>
    /\ UNCHANGED <<poolVars, evs, polled, threadVars, mpc, notify, appState,
                   kind>>

(* App::ProcessEventConn: dispatch the message, read the command, answer    *)
(* kRun.  The event of a connection that is no longer in evs_ is ignored.   *)
ProcessEventConn(c) ==
    LET requests == { i \in 1..Len(send[c]) : Asks(kind[send[c][i].thread]) }
    IN
    /\ mpc = "process" /\ notify = None
    /\ c \in ready
    /\ ready' = ready \ {c}
    /\ \/ /\ c \notin evs
          /\ UNCHANGED <<connVars, asked, dispatched>>
       \/ /\ c \in evs
          /\ asked' = asked \cup UNION { Answers(send[c][i]) : i \in requests }
          /\ dispatched' = dispatched \o send[c]
          /\ send' = [send EXCEPT ![c] = <<>>]
          /\ toMain' = [toMain EXCEPT ![c] = Tail(@)]
          /\ toOwner' = IF Head(toMain[c]) = "kRun"
                        THEN [toOwner EXCEPT ![c] = Append(@, "kIdle")]
                        ELSE toOwner
          /\ UNCHANGED <<connType, recv>>
    /\ UNCHANGED <<poolVars, evs, polled, threadVars, mpc, notify, appState,
                   kind>>

(* EventConnManager::Notify, dispatching an actor's reply, until Release    *)
(* has deregistered the connection: a reply to an unknown or to a sending   *)
(* connection is dropped.                                                   *)
NotifyRelease(a) ==
    LET c == a.msg.conn IN
    /\ mpc = "process" /\ notify = None
    /\ a \in asked
    /\ asked' = asked \ {a}
    /\ IF c \in evs /\ connType[c] = "request"
       THEN Del(c) /\ notify' = a.msg /\ mpc' = "return"
       ELSE UNCHANGED <<evs, notify, mpc>>
    /\ UNCHANGED <<poolVars, polled, connVars, threadVars, ready, appState,
                   dispatched, kind>>

(* ... then the connection is back in the pool ...                          *)
NotifyReturn ==
    /\ mpc = "return"
    /\ GiveBack(notify.conn)
    /\ mpc' = "process"
    /\ UNCHANGED <<made, evs, polled, connVars, threadVars, ready, notify, asked,
                   appState, dispatched, kind>>

(* ... then the reply goes into the mailbox, and kIdle to the caller.       *)
NotifyAnswer ==
    /\ mpc = "process" /\ notify # None
    /\ recv' = [recv EXCEPT ![notify.conn] = Append(@, notify)]
    /\ toOwner' = [toOwner EXCEPT ![notify.conn] = Append(@, "kIdle")]
    /\ notify' = None
    /\ UNCHANGED <<poolVars, evs, polled, connType, send, toMain, threadVars,
                   ready, mpc, asked, appState, dispatched, kind>>

(* The events are processed; the loop ends when Quit stopped the workers.   *)
ProcessDone ==
    /\ mpc = "process" /\ notify = None
    /\ ready = {}
    /\ \/ mpc' = "wait"
       \/ appState = "quitting" /\ mpc' = "clear pool"
    /\ UNCHANGED <<poolVars, evs, polled, connVars, threadVars, ready, notify,
                   asked, appState, dispatched, kind>>

(* EventConnManager::Clear.                                                 *)
ClearPool ==
    /\ mpc = "clear pool"
    /\ idle' = <<>>
    /\ mpc' = "clear events"
    /\ UNCHANGED <<made, evs, polled, connVars, threadVars, ready, notify,
                   asked, appState, dispatched, kind>>

(* EventManager::Clear: every registered connection is told to quit.        *)
ClearEvents ==
    /\ mpc = "clear events"
    /\ toOwner' = [c \in Conns |-> IF c \in evs THEN Append(toOwner[c], "kQuit")
                                   ELSE toOwner[c]]
    /\ evs' = {}
    /\ mpc' = "done"
    /\ appState' = "quit"
    /\ UNCHANGED <<poolVars, polled, connType, send, recv, toMain, threadVars,
                   ready, notify, asked, dispatched, kind>>

(* App::Quit, without a lock: a second caller that saw the application      *)
(* running may store kQuitting when Exec has already stored kQuit.          *)
Quit ==
    /\ MayQuit
    /\ appState \in {"running", "quit"}
    /\ appState' = "quitting"
    /\ UNCHANGED <<poolVars, evs, polled, connVars, threadVars, mainVars,
                   dispatched, kind>>

Reply == \E a \in asked : NotifyRelease(a)
Main  == Wait \/ (\E c \in Conns : ProcessEventConn(c)) \/ Reply
         \/ NotifyReturn \/ NotifyAnswer \/ ProcessDone \/ ClearPool \/ ClearEvents

Terminated == mpc = "done" /\ UNCHANGED vars

Next == Main \/ Quit \/ (\E t \in Threads : Thread(t)) \/ Terminated

(* Every thread runs as long as it can (Wait returns after 100 ms), every   *)
(* actor answers, and the workers end after Quit.  Nobody has to call       *)
(* anything.                                                                *)
Fairness ==
    /\ WF_vars(Main)
    /\ SF_vars(Reply)
    /\ SF_vars(ProcessDone /\ mpc' = "clear pool")
    /\ \A t \in Threads : WF_vars(pc[t] # "idle" /\ Thread(t))

Spec == Init /\ [][Next]_vars /\ Fairness

-----------------------------------------------------------------------------
(* Properties.                                                              *)

InCall(t) == pc[t] # "idle"
Holds(t)  == pc[t] \in {"poll", "put", "recv", "unpoll", "release", "return"}
Up        == mpc # "done"

(* Every variable stays in its type, and until the shutdown no channel      *)
(* holds more than one command (a connection serves one call at a time),    *)
(* unless there are late answers.                                           *)
TypeOK ==
    /\ idle \in Seq(Conns) /\ made \in 0..MaxConns
    /\ evs \subseteq Conns /\ polled \subseteq Conns
    /\ connType \in [Conns -> {"send", "request"}]
    /\ send \in [Conns -> Seq(Msg)] /\ recv \in [Conns -> Seq(Msg)]
    /\ toMain \in [Conns -> Seq({"kRun", "kRunWithMsg"})]
    /\ toOwner \in [Conns -> Seq({"kIdle", "kQuit"})]
    /\ (Up /\ \A t \in Threads : kind[t] # "twice") =>
           \A c \in Conns : Len(toMain[c]) + Len(toOwner[c]) <= 1
    /\ pc \in [Threads -> {"idle", "alloc", "poll", "put", "recv", "unpoll",
                           "release", "return"}]
    /\ conn \in [Threads -> Conns \cup {None}]
    /\ count \in [Threads -> 0..Calls]
    /\ answer \in [Threads -> Msg \cup {None}]
    /\ ready \subseteq Conns
    /\ mpc \in {"wait", "process", "return", "clear pool", "clear events", "done"}
    /\ notify \in Msg \cup {None}
    /\ asked \subseteq UNION {Answers(m) : m \in Msg}
    /\ appState \in {"running", "quitting", "quit"}
    /\ dispatched \in Seq(Msg)
    /\ kind \in Workloads

(* No two threads use the same connection at the same time: connections     *)
(* have no lock.                                                            *)
ConnExclusive ==
    \A t, u \in Threads : Holds(t) /\ Holds(u) /\ conn[t] = conn[u] => t = u

(* While the application runs, a message is dispatched, exactly once and in *)
(* the order of the calls of its thread, before Send returns.               *)
SendsDispatched ==
    /\ \A i, j \in 1..Len(dispatched) :
          LET m == dispatched[i]
              o == dispatched[j]
          IN  i < j /\ m.thread = o.thread /\ kind[m.thread] = "send" => m.n < o.n
    /\ \A t \in Threads : kind[t] = "send" =>
          /\ pc[t] \in {"alloc", "poll", "put"} =>
                 \A m \in ToSet(dispatched) : m.thread = t => m.n < count[t]
          /\ pc[t] \in {"unpoll", "release", "return"} /\ Up =>
                 \A n \in 1..count[t] :
                     \E m \in ToSet(dispatched) : m.thread = t /\ m.n = n

(* While the application runs, SendRequest returns the reply to its own     *)
(* request.  Once a request was answered twice every later call on the same *)
(* connection may get the reply to an earlier one; but never nothing.       *)
AnswerIsMine ==
    \A t \in Threads :
        Asks(kind[t]) /\ pc[t] = "unpoll" /\ Up =>
            /\ answer[t] # None
            /\ answer[t].thread = t
            /\ answer[t].n # count[t] =>
                   /\ kind[t] = "twice"
                   /\ answer[t].n < count[t] /\ answer[t].conn = conn[t]

(* SendRequest without a destination leaves its connection registered: one  *)
(* is lost with each call.                                                  *)
LostCalls ==
    { call \in Threads \X (1..Calls) :
        /\ kind[call[1]] = "nowhere"
        /\ call[2] <= IF InCall(call[1]) THEN count[call[1]] - 1
                      ELSE count[call[1]] }
Lost == Cardinality(LostCalls)

(* The connections the threads are using.                                   *)
Held == { conn[t] : t \in { u \in Threads : Holds(u) } }

(* Deregistered, and not yet back in the pool.                              *)
Between == { conn[t] : t \in { u \in Threads : pc[u] = "return" } }
           \cup (IF mpc = "return" THEN {notify.conn} ELSE {})

Serving == mpc \in {"wait", "process", "return", "clear pool"}

(* Until the shutdown clears it, a connection is in the pool, once, or      *)
(* registered, or on its way from one to the other; none is lost except by  *)
(* a call without a destination, and the pool grows only to replace what    *)
(* was lost or to have one connection per thread, although a connection on  *)
(* its way is in neither.                                                   *)
PoolExact ==
    Serving =>
        /\ IsInjective(idle)
        /\ ToSet(idle) \cap evs = {}
        /\ Between \cap (ToSet(idle) \cup evs) = {}
        /\ ToSet(idle) \cup evs \cup Between = 0..made - 1
        /\ Cardinality(evs \ Held) = Lost
        /\ made <= PoolSize + Lost \/ made <= Cardinality(Threads) + Lost

(* Every call returns, unless Quit is called.                               *)
CallsReturnUnlessQuit ==
    \A t \in Threads : InCall(t) ~> ~InCall(t) \/ appState # "running"

(* Every Send and SendRequest returns.  Does not hold: see the findings.    *)
CallsReturn == \A t \in Threads : InCall(t) ~> ~InCall(t)

-----------------------------------------------------------------------------
(* The inductive invariant of the proofs, for workloads in which a thread   *)
(* that asks is the only one to use event connections: SendRequest shares   *)
(* its connection with the next caller (see the findings).                  *)

AskersAlone ==
    \A k \in Workloads : \A t, u \in Threads : Asks(k[t]) /\ k[u] # "none" => t = u

Alone == \A t, u \in Threads : Asks(kind[t]) /\ kind[u] # "none" => t = u

(* The pool, whatever the threads do: only the one that deregistered a      *)
(* connection gives it back.                                                *)
PoolInv ==
    /\ IsInjective(idle)
    /\ ToSet(idle) \cap evs = {}
    /\ Between \cap (ToSet(idle) \cup evs) = {}
    /\ \A t, u \in Threads :
          pc[t] = "return" /\ pc[u] = "return" /\ conn[t] = conn[u] => t = u
    /\ \A t \in Threads :
          pc[t] = "return" /\ mpc = "return" => conn[t] # notify.conn
    /\ ToSet(idle) \cup evs \cup Between \subseteq 0..made - 1
    /\ Serving => 0..made - 1 \subseteq ToSet(idle) \cup evs \cup Between
    /\ \A c \in ready : toMain[c] # <<>>
    /\ notify # None => mpc \in {"process", "return"}
    /\ mpc = "return" => notify # None
    /\ appState = "running" => mpc \in {"wait", "process", "return"}

(* Who holds a connection has it for itself.                                *)
HoldInv ==
    /\ ConnExclusive
    /\ \A t \in Threads :
         /\ InCall(t) => kind[t] # "none" /\ count[t] > 0
         /\ Holds(t) =>
              /\ conn[t] \in 0..made - 1
              /\ pc[t] \in {"release", "return"} => kind[t] = "send"
              /\ pc[t] = "recv" => kind[t] # "nowhere"
              /\ ~Asks(kind[t]) => /\ conn[t] \notin ToSet(idle)
                                   /\ Up /\ pc[t] # "return" => conn[t] \in evs

(* Nothing is under way through a connection.                               *)
Silent(c) ==
    toMain[c] = <<>> /\ toOwner[c] = <<>> /\ send[c] = <<>> /\ recv[c] = <<>>

(* The message of t's call.                                                 *)
Mine(t) == [thread |-> t, n |-> count[t], conn |-> conn[t]]

(* A thread waits in Send: its message is there with kRun, or was           *)
(* dispatched and kIdle is there.                                           *)
Undispatched(t) ==
    LET c == conn[t] IN
    /\ send[c] = <<Mine(t)>> /\ toMain[c] = <<"kRun">> /\ toOwner[c] = <<>>
Dispatched(t) ==
    LET c == conn[t] IN
    send[c] = <<>> /\ toMain[c] = <<>> /\ toOwner[c] = <<"kIdle">>

(* Threads that send.                                                       *)
NoAsker == \A t \in Threads : ~Asks(kind[t])

(* t's connection: its message is under way, or nothing is.                 *)
Served(t) ==
    IF pc[t] = "recv"
    THEN (Undispatched(t) \/ Dispatched(t)) /\ recv[conn[t]] = <<>>
    ELSE Silent(conn[t])

Sends ==
    /\ asked = {} /\ notify = None
    /\ Up => /\ \A c \in Conns \ Held : Silent(c)
             /\ \A t \in Threads : Holds(t) => Served(t)

SendInv == NoAsker => Sends

(* t's last call was dispatched.                                            *)
WasSent(t) ==
    \/ pc[t] \in {"idle", "unpoll", "release", "return"}
    \/ pc[t] = "recv" /\ (Up => send[conn[t]] = <<>>)

(* The messages of Send are dispatched in order, those of returned calls    *)
(* and no others.                                                           *)
DispatchInv ==
    /\ \A i, j \in 1..Len(dispatched) :
          LET m == dispatched[i]
              o == dispatched[j]
          IN  i < j /\ m.thread = o.thread /\ kind[m.thread] = "send" => m.n < o.n
    /\ \A t \in Threads : kind[t] = "send" =>
          /\ \A m \in ToSet(dispatched) :
                m.thread = t => m.n <= count[t] /\ (m.n = count[t] => WasSent(t))
          /\ Up => \A n \in 1..count[t] :
                n < count[t] \/ WasSent(t) =>
                    \E m \in ToSet(dispatched) : m.thread = t /\ m.n = n

(* A message of t, of its present call unless there are late answers.       *)
IsOf(t, m) ==
    m.thread = t /\ m.n <= count[t] /\ (kind[t] = "request" => m.n = count[t])

(* The answer to t's call is still to come, in the hands of the main        *)
(* thread, or in the mailbox.                                               *)
Awaited(t) ==
    LET c == conn[t] IN
    c \in evs /\ notify = None /\ toOwner[c] = <<>> /\ recv[c] = <<>>
Arriving(t) ==
    LET c == conn[t] IN
    /\ c \notin evs /\ toOwner[c] = <<>> /\ recv[c] = <<>>
    /\ notify # None /\ notify.conn = c /\ IsOf(t, notify)
Arrived(t) ==
    LET c == conn[t] IN
    /\ c \notin evs /\ notify = None /\ toOwner[c] = <<"kIdle">>
    /\ \E m \in Msg : recv[c] = <<m>> /\ m.conn = c /\ IsOf(t, m)

(* A thread that asks, alone: what is queued and what is coming are its     *)
(* messages, nothing is left in the connections it does not hold, and in a  *)
(* call the answer is in one place.                                         *)
QueuesOf(t) ==
    \A c \in Conns : /\ connType[c] = "request"
                     /\ \A k \in ToSet(toMain[c]) : k = "kRunWithMsg"
                     /\ \A m \in ToSet(send[c]) : IsOf(t, m) /\ m.conn = c
AnswersOf(t) == \A a \in asked : IsOf(t, a.msg)
Free(c) == c \notin evs /\ toOwner[c] = <<>> /\ recv[c] = <<>>
Elsewhere(t) == \A c \in Conns : ~(Holds(t) /\ conn[t] = c) => Free(c)
Asking(t) == pc[t] \in {"poll", "put", "recv"}
Place(t) ==
    IF Asking(t) THEN Awaited(t) \/ Arriving(t) \/ Arrived(t)
                 ELSE notify = None /\ (Holds(t) => Free(conn[t]))
Answered(t) ==
    pc[t] = "unpoll" =>
        answer[t] \in Msg /\ IsOf(t, answer[t]) /\ answer[t].conn = conn[t]
AskOK(t) ==
    QueuesOf(t) /\ AnswersOf(t) /\ (Up => Elsewhere(t) /\ Place(t) /\ Answered(t))

AskInv == \A t \in Threads : Asks(kind[t]) => AskOK(t)

(* A request that is answered once is in one place.                         *)
OnePlace(t) ==
    /\ \A c \in Conns : ~(pc[t] = "recv" /\ conn[t] = c) =>
         send[c] = <<>> /\ toMain[c] = <<>>
    /\ pc[t] \in {"poll", "put"} => Awaited(t)
    /\ pc[t] # "recv" => asked = {}
    /\ pc[t] = "recv" =>
         LET c == conn[t] IN
         \/ /\ send[c] = <<Mine(t)>> /\ toMain[c] = <<"kRunWithMsg">>
            /\ asked = {} /\ Awaited(t)
         \/ /\ send[c] = <<>> /\ toMain[c] = <<>>
            /\ asked = Answers(Mine(t)) /\ Awaited(t)
         \/ /\ send[c] = <<>> /\ toMain[c] = <<>>
            /\ asked = {} /\ ~Awaited(t)

RequestInv == \A t \in Threads : kind[t] = "request" /\ Up => OnePlace(t)

(* What is registered and not in use was lost, and the pool grew for that   *)
(* or for threads.                                                          *)
LostInv ==
    Serving => /\ Cardinality(evs \ Held) = Lost
               /\ made <= PoolSize + Lost \/ made <= Cardinality(Threads) + Lost

IInv == /\ TypeOK /\ Alone /\ PoolInv /\ HoldInv /\ SendInv /\ DispatchInv
        /\ AskInv /\ RequestInv /\ LostInv

=============================================================================
