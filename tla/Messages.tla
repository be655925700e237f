------------------------------ MODULE Messages -------------------------------
(****************************************************************************)
(* What actors say to each other: ordinary messages, subscriptions and      *)
(* publications (msg_manager.cpp), requests and responses                   *)
(* (actor_context.cpp), and the table by which App::DispatchMsg routes them *)
(* inside the process, to the node that connects it with others, or both.   *)
(*                                                                          *)
(* Scheduling is left out: Scheduler shows that an actor is executed by one *)
(* worker at a time, that its sends are dispatched, in order, while it does *)
(* not run, and that nothing is lost on the way.  Here an actor handles a   *)
(* message, or the main thread dispatches one, whenever this allows it.     *)
(* A batch of any size is a sequence of such steps.                         *)
(****************************************************************************)
EXTENDS Integers, Sequences, FiniteSets, SequencesExt

CONSTANTS
    Actors,     \* the names in ActorContextManager::ctxs_
    None,       \* no actor, no request id
    Node,       \* node_addr_: an actor, or None if it is empty
    Scripts,    \* what the callbacks send: Scripts is a set of functions
                \* that give each actor a sequence of the calls below
    MaxAnswers  \* bound on the responses to one request by one actor

Modes == {"kIntra", "kDDS", "kHybrid"}

(* An address may be one that nobody has here.                              *)
Addresses == STRING \cup Actors \cup {None}

(* A call of an actor's callback.                                           *)
ScriptCalls == [call : {"Send", "Subscribe", "Publish", "Request"},
                to : Addresses, name : STRING, mode : Modes]

ASSUME MessagesAssumption ==
    /\ None \notin Actors
    /\ Node \in Actors \cup {None}
    /\ Scripts \subseteq [Actors -> Seq(ScriptCalls)]
    /\ MaxAnswers \in Nat

VARIABLES
    inbox,      \* the recv and run queues of each actor's mailbox
    send,       \* the send list of each actor's mailbox
    routing,    \* the actor whose send list App::DispatchMsg works on
    subs,       \* MsgManager::sub_list_: pairs <<topic, subscriber>>
    nextId,     \* ActorContext::request_id_
    callbacks,  \* ActorContext::request_callbacks_: request id -> its call
    script,     \* the script picked
    said,       \* how many calls of its script an actor made
    answered,   \* history: modes of the responses an actor gave to a call
    got,        \* history: messages each actor handled
    ran,        \* history: callbacks each actor ran, with their response
    log         \* history: messages dispatched by the main thread

vars == <<inbox, send, routing, subs, nextId, callbacks, script, said,
          answered, got, ran, log>>
histVars == <<got, ran, log>>

MaxCalls == Max({0} \cup { Len(s[a]) : s \in Scripts, a \in Actors })
AskingCalls == Actors \X (1..MaxCalls)

Init ==
    /\ inbox = [a \in Actors |-> <<>>]
    /\ send = [a \in Actors |-> <<>>]
    /\ routing = None
    /\ subs = {}
    /\ nextId = [a \in Actors |-> 0]
    /\ callbacks = [a \in Actors |-> <<>>]
    /\ script \in Scripts
    /\ said = [a \in Actors |-> 0]
    /\ answered = [a \in Actors |-> [c \in AskingCalls |-> <<>>]]
    /\ got = [a \in Actors |-> <<>>]
    /\ ran = [a \in Actors |-> <<>>]
    /\ log = <<>>

-----------------------------------------------------------------------------
(* The worker thread that executes actor a.                                 *)

(* The main thread dispatches the sends of actors that do not run.          *)
Runs(a) == routing # a

(* The next call of a's script, as the message it sends.  "n" is history:   *)
(* the number of the call.                                                  *)
NextCall(a) == script[a][said[a] + 1]
Calls(a, call) ==
    /\ Runs(a)
    /\ said[a] < Len(script[a])
    /\ NextCall(a).call = call
    /\ said' = [said EXCEPT ![a] = @ + 1]
Message(a, type, id) ==
    [type |-> type, src |-> a, dst |-> NextCall(a).to,
     name |-> NextCall(a).name, mode |-> NextCall(a).mode, id |-> id,
     n |-> said[a] + 1]

(* Mutant: into the list at the wrong end.                                  *)
SendListFront(list, m) == <<m>> \o list

(* Mailbox::Send.                                                           *)
SendList(list, m) == Append(list, m)

SendMsg(a, m) == send' = [send EXCEPT ![a] = SendList(@, m)]

Send(a) ==
    /\ Calls(a, "Send")
    /\ SendMsg(a, Message(a, "TEXT", None))
    /\ UNCHANGED <<inbox, routing, subs, nextId, callbacks, script, answered,
                   histVars>>

(* Actor::Subscribe; not to itself.                                         *)
Subscribe(a) ==
    /\ Calls(a, "Subscribe")
    /\ IF NextCall(a).to = a THEN UNCHANGED send
       ELSE SendMsg(a, Message(a, "SUB", None))
    /\ UNCHANGED <<inbox, routing, subs, nextId, callbacks, script, answered,
                   histVars>>

(* Actor::Publish.                                                          *)
Publish(a) ==
    /\ Calls(a, "Publish")
    /\ SendMsg(a, [Message(a, "PUB", None) EXCEPT !.dst = None])
    /\ UNCHANGED <<inbox, routing, subs, nextId, callbacks, script, answered,
                   histVars>>

(* Mutant: every request has the same id.                                   *)
IncrementNot(i) == i

Increment(i) == i + 1

Insert(cb, id, call) ==
    [i \in DOMAIN cb \cup {id} |-> IF i = id THEN call ELSE cb[i]]

(* ActorContext::Request; not to itself, nor to nobody.                     *)
Request(a) ==
    LET id == nextId[a] IN
    /\ Calls(a, "Request")
    /\ IF NextCall(a).to \in {None, a} THEN UNCHANGED <<send, nextId, callbacks>>
       ELSE /\ nextId' = [nextId EXCEPT ![a] = Increment(@)]
            /\ callbacks' = [callbacks EXCEPT ![a] = Insert(@, id, said[a] + 1)]
            /\ SendMsg(a, Message(a, "REQUEST", id))
    /\ UNCHANGED <<inbox, routing, subs, script, answered, histVars>>

(* Mutant: the response is addressed like the request.                      *)
RespondTo(req) == req.dst

ResponseDst(req) == req.src

(* ActorContext::Response to a request the actor handled, at any later time *)
(* and more than once; not to itself.  Everything in the caller's message   *)
(* is set but its mode, which need not be that of the request.              *)
Response(a) ==
    /\ Runs(a)
    /\ \E req \in ToSet(got[a]), mode \in Modes :
         /\ req.type = "REQUEST"
         /\ req.src # a
         /\ Len(answered[a][<<req.src, req.n>>]) < MaxAnswers
         /\ answered' = [answered EXCEPT
                            ![a][<<req.src, req.n>>] = Append(@, mode)]
         /\ SendMsg(a, [req EXCEPT !.type = "RESPONSE", !.src = a,
                                   !.dst = ResponseDst(req), !.mode = mode])
    /\ UNCHANGED <<inbox, routing, subs, nextId, callbacks, script, said,
                   histVars>>

(* The message at the head of the run queue is consumed.                    *)
PopRun(a) ==
    /\ Runs(a)
    /\ inbox[a] # <<>>
    /\ inbox' = [inbox EXCEPT ![a] = Tail(@)]
    /\ got' = [got EXCEPT ![a] = Append(@, Head(inbox[a]))]

(* Mutant: the callback stays.                                              *)
EraseNot(cb, id) == cb

Erase(cb, id) == [i \in DOMAIN cb \ {id} |-> cb[i]]

(* ActorContext::ProcResponse: the callback runs once; a response without a *)
(* callback is ignored.  Nothing but the id is looked at: the node gets the *)
(* responses to others that leave the process, and runs a callback of its   *)
(* own with one that has the same id.                                       *)
ProcResponse(a) ==
    LET m == Head(inbox[a]) IN
    /\ PopRun(a)
    /\ m.type = "RESPONSE"
    /\ IF m.id \in DOMAIN callbacks[a]
       THEN /\ ran' = [ran EXCEPT ![a] =
                  Append(@, [call |-> callbacks[a][m.id], answer |-> m])]
            /\ callbacks' = [callbacks EXCEPT ![a] = Erase(@, m.id)]
       ELSE UNCHANGED <<ran, callbacks>>
    /\ UNCHANGED <<send, routing, subs, nextId, script, said, answered, log>>

(* Actor::Proc gets everything else.                                        *)
Proc(a) ==
    /\ PopRun(a)
    /\ Head(inbox[a]).type # "RESPONSE"
    /\ UNCHANGED <<send, routing, subs, nextId, callbacks, script, said,
                   answered, ran, log>>

Handle(a) == ProcResponse(a) \/ Proc(a)
Speak(a) == Send(a) \/ Subscribe(a) \/ Publish(a) \/ Request(a)

-----------------------------------------------------------------------------
(* The main thread.                                                         *)

(* The topic of a subscription is the one it is addressed to, that of a     *)
(* publication the one it comes from.                                       *)
SubTopic(m) == <<m.dst, m.name>>
PubTopic(m) == <<m.src, m.name>>
Subscribers(m) == { a \in Actors : <<PubTopic(m), a>> \in subs }

Local(mode)  == mode \in {"kIntra", "kHybrid"}
Remote(mode) == mode \in {"kDDS", "kHybrid"}

(* The routing table: how many copies actor a gets of a message to dst.     *)
ToActor(a, dst) == IF a = dst THEN 1 ELSE 0
ToNode(a)       == IF a = Node THEN 1 ELSE 0
Routed(a, dst, mode) ==
    (IF Local(mode) THEN ToActor(a, dst) ELSE 0)
    + (IF Remote(mode) THEN ToNode(a) ELSE 0)

(* Mutant: repeated subscriptions are not noticed.                          *)
KnownNever(m) == FALSE

Known(m) == <<SubTopic(m), m.src>> \in subs

(* Mutant: subscriptions for the node are recorded as well.                 *)
RecordsAll(mode) == TRUE

Records(mode) == Local(mode)

(* MsgManager::AddSubInfo: the subscription is recorded, and the node hears *)
(* of it, unless it repeats one that is recorded.                           *)
AddSubInfo(m) ==
    subs' = IF Records(m.mode) THEN subs \cup {<<SubTopic(m), m.src>>} ELSE subs
SubCopies(a, m) ==
    IF Remote(m.mode) /\ ~(Local(m.mode) /\ Known(m)) THEN ToNode(a) ELSE 0

(* MsgManager::AddPubInfo and DispatchPubMsg: every recorded subscriber     *)
(* gets the message, and the node if it is to leave the process.            *)
PubCopies(a, m) ==
    (IF Local(m.mode) /\ a \in Subscribers(m) THEN 1 ELSE 0)
    + (IF Remote(m.mode) THEN ToNode(a) ELSE 0)

Copies(a, m) ==
    CASE m.type = "SUB" -> SubCopies(a, m)
      [] m.type = "PUB" -> PubCopies(a, m)
      [] OTHER          -> Routed(a, m.dst, m.mode)

(* App::DispatchMsg(context): the sends of an actor that stopped running,   *)
(* one after another.                                                       *)
RouteBegin ==
    /\ routing = None
    /\ \E a \in Actors : send[a] # <<>> /\ routing' = a
    /\ UNCHANGED <<inbox, send, subs, nextId, callbacks, script, said,
                   answered, histVars>>

DispatchMsg ==
    LET m == Head(send[routing]) IN
    /\ routing # None
    /\ send[routing] # <<>>
    /\ send' = [send EXCEPT ![routing] = Tail(@)]
    /\ inbox' = [a \in Actors |-> inbox[a] \o [i \in 1..Copies(a, m) |-> m]]
    /\ IF m.type = "SUB" THEN AddSubInfo(m) ELSE UNCHANGED subs
    /\ log' = Append(log, m)
    /\ UNCHANGED <<routing, nextId, callbacks, script, said, answered, got,
                   ran>>

RouteEnd ==
    /\ routing # None
    /\ send[routing] = <<>>
    /\ routing' = None
    /\ UNCHANGED <<inbox, send, subs, nextId, callbacks, script, said,
                   answered, histVars>>

Main == RouteBegin \/ DispatchMsg \/ RouteEnd

Quiet ==
    /\ routing = None
    /\ \A a \in Actors : inbox[a] = <<>> /\ send[a] = <<>>
    /\ UNCHANGED vars

Next == Main \/ Quiet
        \/ \E a \in Actors : Handle(a) \/ Speak(a) \/ Response(a)

(* The main thread and the workers go on; nobody is obliged to say or to    *)
(* answer anything.                                                         *)
Fairness == WF_vars(Main) /\ \A a \in Actors : WF_vars(Handle(a))

Spec == Init /\ [][Next]_vars /\ Fairness

-----------------------------------------------------------------------------
(* Properties.                                                              *)

Msg == [type : {"TEXT", "SUB", "PUB", "REQUEST", "RESPONSE"}, src : Actors,
        dst : Addresses, name : STRING, mode : Modes, id : Nat \cup {None},
        n : Nat \ {0}]

Received(a) == got[a] \o inbox[a]
CopiesOf(a, m) == Cardinality({ i \in 1..Len(Received(a)) : Received(a)[i] = m })

(* Every variable stays in its type, and every callback that waits belongs  *)
(* to a request of its actor with an id given out.                          *)
TypeOK ==
    /\ inbox \in [Actors -> Seq(Msg)]
    /\ send \in [Actors -> Seq(Msg)]
    /\ got \in [Actors -> Seq(Msg)]
    /\ routing \in Actors \cup {None}
    /\ subs \subseteq (Addresses \X STRING) \X Actors
    /\ nextId \in [Actors -> Nat]
    /\ script \in Scripts
    /\ said \in [Actors -> Nat]
    /\ ran \in [Actors -> Seq([call : Nat, answer : Msg])]
    /\ log \in Seq(Msg)
    /\ DOMAIN callbacks = Actors
    /\ \A a \in Actors :
         /\ said[a] <= Len(script[a])
         /\ DOMAIN callbacks[a] \subseteq 0..nextId[a] - 1
         /\ \A i \in DOMAIN callbacks[a] :
              /\ callbacks[a][i] \in 1..said[a]
              /\ script[a][callbacks[a][i]].call = "Request"

(* A local subscription of actor a to this topic is among the first i - 1   *)
(* messages dispatched.                                                     *)
SubscribedBefore(i, a, publisher, name) ==
    \E j \in 1..i - 1 :
        /\ log[j].type = "SUB" /\ log[j].src = a
        /\ log[j].dst = publisher /\ log[j].name = name
        /\ Local(log[j].mode)

(* A publication reaches every actor whose local subscription to its topic  *)
(* was dispatched before it, once, however often and with whatever modes it *)
(* subscribed; the node gets the copy that is to leave the process; nobody  *)
(* else gets any.                                                           *)
SubscribersGetOne ==
    \A i \in 1..Len(log) : LET m == log[i] IN
        m.type = "PUB" => \A a \in Actors :
            CopiesOf(a, m) =
                (IF Local(m.mode) /\ SubscribedBefore(i, a, m.src, m.name)
                 THEN 1 ELSE 0)
                + (IF Remote(m.mode) /\ a = Node THEN 1 ELSE 0)

(* What an actor receives from another one, by whatever way it was routed,  *)
(* comes in the order it was said.                                          *)
OrderKept ==
    \A a \in Actors :
        \A i, j \in 1..Len(Received(a)) :
            LET m == Received(a)[i]
                o == Received(a)[j]
            IN  i < j /\ m.src = o.src /\ "RESPONSE" \notin {m.type, o.type}
                    => m.n <= o.n

(* A callback runs at most once.  An answer to its actor that it runs with  *)
(* is one to the request it was given with, from an actor that was asked;   *)
(* only the node runs one with an answer to somebody else, which was not to *)
(* stay in the process.  An answer to an actor goes unused only if its      *)
(* callback has run: the first answer finds it, unless a foreign one did.   *)
CallbacksMatch ==
    \A a \in Actors :
        /\ \A i, j \in 1..Len(ran[a]) : ran[a][i].call = ran[a][j].call => i = j
        /\ \A i \in 1..Len(ran[a]) :
              LET c == ran[a][i].call
                  m == ran[a][i].answer
              IN  IF m.dst = a
                  THEN m.n = c /\ m.src \in {script[a][c].to, Node}
                  ELSE a = Node /\ Remote(m.mode)
        /\ \A m \in ToSet(got[a]) :
              m.type = "RESPONSE" /\ m.dst = a =>
                  \E i \in 1..Len(ran[a]) : ran[a][i].call = m.n

(* When a request is answered, by whomever and in a mode that is routed to  *)
(* its actor, its callback runs.                                            *)
AnswerArrives ==
    \A a \in Actors, n \in 1..MaxCalls :
        (\E b \in Actors : \E mode \in ToSet(answered[b][<<a, n>>]) :
            Local(mode) \/ a = Node)
        ~> \E i \in 1..Len(ran[a]) : ran[a][i].call = n

(* The node hears of every subscription that is to leave the process, once, *)
(* except of a kHybrid one that repeats a local one: it is ignored even if  *)
(* the first was kIntra, so that a subscriber cannot widen its reach.       *)
NodeIsTold ==
    Node # None =>
        \A i \in 1..Len(log) : LET m == log[i] IN
            m.type = "SUB" =>
                CopiesOf(Node, m) =
                    IF \/ ~Remote(m.mode)
                       \/ /\ Local(m.mode)
                          /\ SubscribedBefore(i, m.src, m.dst, m.name)
                    THEN 0 ELSE 1

-----------------------------------------------------------------------------
(* The inductive invariant of the proofs.                                   *)

(* What was said and not taken back: dispatched, or still to be.            *)
Said == ToSet(log) \cup UNION { ToSet(send[a]) : a \in Actors }

(* Actors receive what was dispatched, and send what is their own.          *)
Delivered ==
    /\ \A a \in Actors : /\ ToSet(got[a]) \cup ToSet(inbox[a]) \subseteq ToSet(log)
                          /\ \A m \in ToSet(send[a]) : m.src = a

(* m was said before o; responses carry the number of their request.        *)
Before(m, o) ==
    m.src = o.src /\ "RESPONSE" \notin {m.type, o.type} => m.n < o.n
InOrder(q) == \A i, j \in 1..Len(q) : i < j => Before(q[i], q[j])

(* What was said is numbered, along the log and then the send lists.        *)
SaidInOrder ==
    /\ InOrder(log)
    /\ \A a \in Actors :
         /\ InOrder(send[a])
         /\ \A m \in ToSet(log), o \in ToSet(send[a]) : Before(m, o)
    /\ \A m \in Said : m.type # "RESPONSE" => m.n <= said[m.src]

(* The table holds the local subscriptions that were dispatched.            *)
SubsExact ==
    subs = { <<SubTopic(m), m.src>> :
               m \in { o \in ToSet(log) : o.type = "SUB" /\ Local(o.mode) } }

(* Who asked: a request goes out from it, the response comes to it.         *)
Asker(m) == IF m.type = "REQUEST" THEN m.src ELSE m.dst
Asked(a, n) == {script[a][n].to, Node}

(* A request and its responses carry the id of a callback that waits, or    *)
(* that ran; responses come from those who were asked.                      *)
Matched(m) ==
    LET a == Asker(m) IN
    /\ a \in Actors
    /\ m.n \in 1..said[a] /\ m.id \in 0..nextId[a] - 1
    /\ IF m.id \in DOMAIN callbacks[a] THEN callbacks[a][m.id] = m.n
       ELSE \E i \in 1..Len(ran[a]) : ran[a][i].call = m.n
    /\ IF m.type = "REQUEST" THEN m.dst = script[a][m.n].to
       ELSE m.src \in Asked(a, m.n)

(* A callback waits under one id, and for a call none ran for.              *)
CallbackInv ==
    \A a \in Actors :
        /\ \A i, j \in DOMAIN callbacks[a] :
              callbacks[a][i] = callbacks[a][j] => i = j
        /\ \A j \in 1..Len(ran[a]) :
              /\ ran[a][j].call \in 1..said[a]
              /\ \A i \in DOMAIN callbacks[a] : ran[a][j].call # callbacks[a][i]

MatchInv ==
    /\ \A m \in Said : m.type \in {"REQUEST", "RESPONSE"} => Matched(m)
    /\ \A a \in Actors : \A m \in ToSet(got[a]) \cup ToSet(inbox[a]) :
         m.type \in {"REQUEST", "RESPONSE"} =>
             a = m.dst \/ (a = Node /\ Remote(m.mode))

OrderInv == Delivered /\ SaidInOrder /\ OrderKept
CopyInv  == SubsExact /\ SubscribersGetOne /\ NodeIsTold
AskInv   == CallbackInv /\ MatchInv /\ CallbacksMatch
IInv     == TypeOK /\ OrderInv /\ CopyInv /\ AskInv

=============================================================================
