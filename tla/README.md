# A verification of myframe

myframe is a C++ actor framework: actors send each other messages, one *main*
thread (`App::Exec`) routes the messages and hands actors to worker threads,
and nothing but command channels connects the threads. Mailboxes have no lock.
This directory models the threads, the channels and the data they guard in
TLA+, checks the models with TLC and proves the central safety properties with
TLAPS.

Contents: 1 the system, 2 the modules, 3 the runs, 4 fairness, 5 the proofs,
6 where code and documents disagree, 7 what is not modelled, 8 the plan.

## 1. The system

Paths are relative to `src/myframe/`.

| Component | State | Operations | Correct when |
|---|---|---|---|
| Main loop and actor scheduling (`app.cpp`, `actor_context_manager`, `worker_context_manager`, `worker_common`, `worker_context`, `worker`) | actors with a running flag (`in_worker_`) and a queued flag (`in_wait_que_`), the wait queue, the idle workers, each worker's actor, the events of a round | `CheckStopWorkers`, `ProcessWorkerEvent`, `DispatchMsg`, `PushContext`, `GetContextWithMsg`, `Quit`, `StopAllWorker`, `WaitAllWorkerQuit` | an actor is executed by one worker at a time; no wakeup and no message is lost; every actor gets its turn; `Quit` ends everything |
| Mailbox (`mailbox`) | `recv_`, `run_`, `send_`, two limits | `Recv`, `MoveToRun`, `PopRun`, `Send` | the oldest messages are dropped on overflow, never others; a batch is the oldest messages |
| Command channel, poller (`cmd_channel`, `poller`, `platform/`) | two command queues per worker, mutexes and condition variables, the ready events | `SendToOwner`, `RecvFromMain`, `SendToMain`, `RecvFromOwner`, `Wait` | every event comes with a command of its own |
| Timer worker (`worker_timer`, `list`) | five wheels, `time_`, expired timers | `Timeout`, `Updatetime`, `_Shift`, `Run` | a timer fires at its tick, in arming order, across cascades and the wrap-around of `time_` |
| Event connections (`event_conn`, `event_conn_manager`, `event_manager`) | a pool of connections, the registered ones, their mailboxes and channels | `App::Send`, `App::SendRequest`, `Alloc`, `Release`, `Notify`, `Clear` | a caller owns its connection, gets the answer to its own request, and returns |
| User workers (`worker`, `worker_context`, `worker_context_manager`) | `ctrl_owner_`, `in_msg_wait_queue_`, the queue of workers to wake | `DispatchMsg`, `DispatchAndWaitMsg`, `WeakupWorker`, `ProcessUserEvent` | a waiting worker is woken with a message; its mailbox is never shared |
| Publish/subscribe and routing (`msg_manager`, `App::DispatchMsg`) | subscriptions per topic and mode | `AddSubInfo`, `DispatchPubMsg`, `GetTopicName` | exactly the subscribers get a copy |
| Requests and responses between actors (`actor_context`, `actor`) | callbacks by request id | `Request`, `Response`, `ProcResponse` | a callback runs at most once, for its own request, and an answer that comes in finds it |
| Life cycle and loading (`app`, `mod_manager`; the launcher and `pyapp.h` as its callers) | `App::state_`, the table of actors, the address of the node, messages cached before `Exec`, registered and stopped workers | `Init`, `LoadServiceFromJson`, `AddActor`, `AddWorker`, `Exec`, `Quit` | what is sent at load time arrives; what is added is scheduled, told to stop and joined |
| Message object, arguments, logging, shared libraries | values | getters, setters, parsing, `dlopen` | not a matter of state |
| Launcher, Python bindings, tools, tests, examples | | | around the framework |

How they interact:

* A **worker thread** (common, timer or user worker) runs its `Run`, then sends
  a command (`kIdle`, `kWaitForMsg`) to the main thread and blocks for the
  answer (`kRun`, `kRunWithMsg`, `kQuit`). Between the two commands the main
  thread may use the worker's mailbox, and its actor's; at all other times the
  worker may. This hand-over is the only synchronisation of mailboxes.
* The **main thread** repeats: give actors with messages to idle workers, wake
  user workers that have messages, wait for events for at most 100 ms, process
  them. Processing an event dispatches the worker's send list, then reads the
  command and answers it.
* **Foreign threads** enter through event connections: `Send` and `SendRequest`
  put a message into a connection's mailbox and block on its channel.
* **`Quit`** may be called by any thread, a callback or a signal handler, and by
  several: it tests the state, sets it, and writes `kQuit` into one worker's channel
  after another, all without a lock. Each thread answers `kQuit` and
  ends; the main loop ends when no worker is registered.
* The **host** (launcher, a test, a Python program) loads actors before `Exec`,
  or beside it. Their `Init` may already send: what has no receiver yet, or is
  for the network, waits in a cache of the `App`.

What is hard here: `kQuit` comes from a third thread and can overtake the
answer to a `kIdle`; flags (`in_worker_`, `in_wait_que_`, `ctrl_owner_`,
`in_msg_wait_queue_`) must agree with queues across several steps; batch limits
leave messages behind that somebody has to remember; a timing wheel wraps
around; connections are given back by another thread than the one that uses
them, and are for a moment neither in the pool nor registered; the state of the
`App` is tested and set by several threads in steps of their own. PROJECT.json lists these hazards line by line.

## 2. The modules

| Module | Models |
|---|---|
| `Mailbox` | `mailbox.cpp` as operators on sequences, shared by the others |
| `Command` | what the channel to a worker can hold: an answer, and a `kQuit` from each caller of `Quit`, in any order |
| `Flow` | the messages of one sender to one receiver along the queues they pass: order and completeness, for the invariants of `Scheduler` and `UserWorker` |
| `ActorSpec` | abstract: what an application may rely on; no threads, channels or queues |
| `Scheduler` | the main loop, actors and common workers, `Quit`; implements `ActorSpec` |
| `TimerSpec` | abstract: exact timers |
| `TimerWheel` | the timer worker; implements `TimerSpec` |
| `EventConn` | `App::Send` and `App::SendRequest`, the pool, repeated answers, shutdown |
| `UserWorker` | user workers and `WeakupWorker` |
| `Messages` | routing, publish/subscribe, requests and responses between actors |
| `Lifecycle` | loading, adding actors and workers, `Quit` and `Exec` from their first test to the end |
| `ChannelSpec` | abstract: what the modules above take a command channel to be |
| `CmdChannel` | `CmdChannelGeneric` and `PollerGeneric`, mutex by mutex; implements `ChannelSpec` |
| `MC...` | instances for TLC |
| `Selection` | the loops of the code that take some elements out of a list, as a recursive function one can prove about |
| `MailboxProof` | lemmas for the other proofs: `Mailbox`, `Flow`, `Command`, other channels, induction over sequences, `Selection`, concatenation and order |
| `SchedulerProof`, `UserWorkerProof`, `MessagesProof`, `EventConnProof`, `LifecycleProof`, `CmdChannelProof`, `TimerWheelProof` | theorems of the module each is named after |

Common conventions: a variable is named after the member it stands for, or its
comment names the member. An action is what a thread does between two commands
or system calls that another thread can see, or one message of a loop. A
message is a record of its sender, its receiver and a number per pair of the
two, and history variables `seq` and `done` hold the last number sent and
processed; this is how loss, duplication and overtaking become visible. Operators
commented "Mutant" are single-line mistakes a check can be shown to catch; no
specification uses them.

**Scheduler.** `wpc` is the place of each worker thread: `loop` and `recv` are
the two halves of `Worker::DispatchMsg`, `work` is `WorkerCommon::Work`, `exit`
and `ended` follow `kQuit`. `mpc` is the place of the main thread: `check` is
the loop of `CheckStopWorkers` (one `Assign` is one round: the first actor of
the wait queue that is not running goes to the first idle worker), `wait` is
`Poller::Wait`, `process` the loop over its events, `dispatch` the inside of
`ProcessWorkerEvent` (`BeginEvent` clears the running flag, `DispatchOne` moves
one message, `FinishEvent` reads the command), `join` what follows the loop.
`App::Quit` takes no lock, and `Quitters` are the threads that call it: `qpc` is the
place of each, which tests the state (`QuitCheck`), sets it (`QuitStore`), lists the
registered workers (`StopAllWorker`) and writes one `kQuit` after another
(`SendQuit`), in any order, because `evs_` is an unordered map. All of this
interleaves with all the rest: two callers may both pass the test, tell every
worker twice, tell one that has ended, and store `kQuitting` over the `kQuit`
that `Exec` ended with.
`UseCv` chooses the poller: `PollerGeneric` reports an event per command,
epoll one per readable channel.

**ActorSpec.** Up to `Parallel` actors are `busy`. `Begin` takes the oldest
messages as a batch, only of an actor with an empty batch and nothing left to
send; `Handle` processes one; `End`, then `Route` accepts what was sent, in
order. Fairness: no actor with messages waits for ever. In the refinement
`busy` is the set of actors with the running flag.

**TimerWheel.** The code has 256 slots in the first level and 64 in each of the
other four, powers of two so that it can shift and mask; the sizes are constants
here, of any value from 2 on, and shifts and masks are divisions and remainders.
The cascade rule, the special case of a full wrap and the uninitialised `time_`
are the code's. `_MoveList` adds the timers of a slot again one by one: each slot
gets, behind what it holds, those that belong there (`Only`), in their order.
`lag` and `todo` are the ticks the thread is behind the clock: `Updatetime`
reads the clock once and then makes up for all missed ticks. `StopWorker` is the step
of `StopAllWorker` that concerns this worker; up to `Quits` callers take it (`told`
counts them), also when the thread has ended. In the refinement
`pending` are the armed timers with `(expire - time_) % Span` ticks left.

**EventConn.** A call is divided where another thread can interfere: state
check, `Alloc` (locked), `poller_->Add`, the command, the blocking receive,
`poller_->Del`, and the two halves of `Release`: `SendRelease` or `NotifyRelease`
deregisters the connection under the lock of `EventManager`, `SendReturn` or
`NotifyReturn` puts it back under that of the pool, and `Between` are the connections
for which one has happened and the other has not. The poller is epoll, which reports a connection only
while it is registered. Actors are not part of this module: they answer every
request at any later time, once or, in the workload `twice`, again (a `kHybrid`
request goes to an actor and to the node, and both answer). In the workload
`nowhere` a `SendRequest` has no destination and returns before it sends
anything (`PutNowhere`). The history `dispatched` holds every message the main thread
dispatched. `Quit` is here only what connections see of it, the stored state, which a
second caller may store again after `Exec` has ended; that the workers end and the
main loop with them is taken from `Scheduler`.

**UserWorker.** `Run` is any sequence of consuming, sending, calling `Worker::Stop` (the
workers in `Stoppers`) and calling either `DispatchMsg` or `DispatchAndWaitMsg`. On
`kQuit` that call stops the worker and returns -1 to `Run` (`RecvCmd`, place `told`);
`Run` returns to `ListenThread`, whose loop ends when the worker is stopped (`Return`).
Assumed is that a `Run` that got -1 returns without touching its mailbox or dispatching
again, as all in the repository do (worker_common.cpp:25, worker_timer.cpp:168,
example_worker_io.cpp:39 and 49, example_trans_msg.cpp:52, example_trans_obj.cpp:64):
the mailbox may be the main thread's by then, and nobody need answer. `StopAllWorker`
takes the list of workers, `SendQuit` tells one of them, for each of `Quitters`. The main thread processes an event as in
`Scheduler`: `BeginEvent`, one `DispatchOne` per message of the send list, and
`FinishEvent`, which reads the command and answers it or keeps the worker waiting.

**Messages.** What actors say: `Send`, `Subscribe`, `Publish`, `Request` and
`Response` put messages into the send list of the actor that runs; the main
thread takes the list of an actor that does not run (`RouteBegin`, one
`DispatchMsg` per message, `RouteEnd`), consults the subscriptions and the
routing table by address and transmission mode (`Copies`), and fills the
mailboxes. Each actor follows a script, a sequence of calls it makes at any
time, so that the number of a call identifies a message; a response may be
given at any time after the request was handled, and in any mode: `Response` leaves
that of the caller's message as it is. `ProcResponse` looks at the id only, so that
the node, which gets the responses to others that leave the process, can take one for
its own. Queues, batches and workers
are left out: `Scheduler` shows that they keep and do not reorder messages.

**Lifecycle.** `prog` is what the host adds: a list of actors, each with the
messages it sends in its `Init` and whether that fails. `AddActor` has three
steps because other threads see what lies between them: the state, the node's
address and `Init` (`AddBegin`), the table (`AddTable`), and the release of
cached messages, the caching of its own and the clearing of the running flag
under one lock (`AddDispatch`). After a failure the host goes on, as the tests
and Python programs do, or gives up and calls `Quit`, as the launcher does.
`Quit` is three steps (test, set, tell the registered workers; one after another
in `Scheduler` and `UserWorker`), by the host or by others; `Exec` tests the state, sets it, dispatches the cache, loops until no
worker is counted, joins and clears. A worker added by another thread is checked,
registered, counted and started. Actors and common workers are reduced to the
running flag, the number of workers that execute an actor, and which messages a
mailbox ever got. With `Late` the host adds actors while `Exec` runs.

**CmdChannel.** One step is what a thread does under one mutex, or one
`notify_one`. `owner` is the place of the thread at the owner's end: it pushes a
command (`posting`) and then its event; it tests the condition (`recv`), sleeps
and is woken, also for nothing. `notifying` is a sender between its push and its
`notify_one`. `ChannelSpec` is the channel of the other modules: a command to the
main thread and its event appear together. The refinement counts an event from
the moment its command is pushed; the main thread cannot tell, for it reads a
command only for an event it was given.

## 3. The runs

| Run | Instance | What it shows |
|---|---|---|
| `scheduler_steady` | 2 actors (one unlimited with batches of one, one with a pending limit of 2 and unlimited batches), 2 workers, everybody writes to everybody, 2 messages a pair, condition-variable poller | type correctness; mailboxes are exclusive; the wait queue holds exactly the actors with messages; nothing is lost, doubled or overtaken |
| `scheduler_fair` | 3 actors with limits of one, flooded by an outside source, two of them writing to each other, 2 workers, epoll | no actor starves; the scheduler implements `ActorSpec` with its fairness |
| `scheduler_quit` | 2 actors with batches of one, one writing to the other and an outside source writing to both, 2 workers, 2 messages a pair, two callers of `Quit` at any point | actors stay serial; every event has its command; a batch exceeds its limit by no more than what ended workers left; the inductive invariant of the proofs holds; `Exec` ends with every thread finished |
| `timer_wheel` | 2 timers, levels of two slots (a wrap every 32 ticks), intervals of 1 and 15 ticks, clock up to 1 tick ahead, two `kQuit` at any points | every timer is in its slot at all times; the wheel implements exact timers, delivery of every fired timer included; `Quit` ends the thread although no timer fires |
| `timer_early` | 1 timer, clock up to 2 ticks ahead | violation: a timer can fire early (section 6) |
| `event_conn` | 2 threads that both send, one of them perhaps to nowhere, or one that requests and is answered once or twice; 3 calls each, a pool of 1 that may grow to 4 | a connection has one user; sends are dispatched in order before `Send` returns; an answer is the caller's own unless an earlier one was repeated; the pool loses one connection for each call to nowhere and no other, and every other one is in the pool, registered or between the steps of `Release`; calls return unless `Quit` is called |
| `event_conn_shared` | 2 threads that request | violation: a connection is reused too early (section 6) |
| `event_conn_shutdown` | 1 sender, `Quit` | violation: a call can miss the shutdown (section 6) |
| `user_worker` | 2 user workers in a chain behind an outside source, one with batches of one, one that may stop by itself, two callers of `Quit` | mailboxes are exclusive; a wakeup brings a message and is not lost; nothing is lost or overtaken; `Quit` ends waiting workers |
| `messages` | 2 actors and the node; 37 combinations of scripts: repeated subscriptions and publications in every mode, requests to each other, to oneself, to the node, to an unknown address, by the node beside another's under the same id; answers in every mode | one copy for each subscriber; order kept; a callback runs once, with its own answer (or, in the node, a foreign one that leaves the process), and an answer that is routed to its actor finds it; what the node hears of |
| `lifecycle` | 3 items in every order: an actor that sends to another in every mode, its receiver, the node; either may fail to load; a name taken twice; a node after one that failed; 1 common worker, 1 worker added by another thread, `Quit` by the host after a failure and by another thread at any time | messages of `Init` arrive once and in order; what the node hears of; `Quit` ends `Exec` even if it came first; no thread is left |
| `lifecycle_late` | 1 actor added while `Exec` runs, 2 workers, 2 messages from outside | violation: two workers execute one actor (section 6) |

Why the bounds are enough. Two workers and two actors meet every pair of
threads, and a worker only ever interacts with the main thread; a third actor
is needed, and used, to have one left over when both workers are busy. Two
messages a pair distinguish order and leave one behind a batch limit of one.
Levels of two slots make every cascade, the wrap-around and a cascade at the
wrap-around happen within 32 ticks; two timers are needed for their order; the
shortest and the longest interval the wheel takes reach every level, since timers are
armed at any time and the level depends on it. A pool of one connection
and two threads meet the empty pool, its growth and reuse; three calls let a
repeated answer reach the call after next. Two callers of `Quit` can meet in
the test and the store; more add only further `kQuit` to the channels, and the
proofs are for any number. `timer_early` and the liveness and steady runs of
`Scheduler` need none. In `user_worker` the bound `Loads` lets one pair of the chain
exchange up to two messages in a behaviour; that two workers wait in the wake-up queue
behind each other (`Wake(i)` for `i` above one) is left to the proofs. In `lifecycle` the four messages of
one `Init` have each mode and repeat one, so that copies and order show; one
common worker and one added later meet every order of registration, `Quit` and
the end of the loop. The workers' symmetry is used in `scheduler_steady` only, which checks
invariants only. `Counted = FALSE` in `scheduler_fair` drops the numbering, so
that traffic has no end in a finite model. In `messages` two subscriptions in
any two modes meet every repetition, a request that goes to an actor and to
the node gets two answers, the second one late, and two actors that ask under the same
id, one of them the node, make foreign answers meet callbacks. `CmdChannel` has no run: its
properties are proved (section 5), for any number of channels, commands and
senders.

Where a property holds only under a condition the run has it: `event_conn` has
threads that send, or a single one that requests, because two requesters break
it; `WaiterWoken` and part of `QueuedWithMessages` are claimed for user workers
without a batch limit, since `WeakupWorker` clears the queued flag although a
limited batch leaves messages behind (worker_context_manager.cpp:150): these
wait for the next message. Nothing in the repository sets that limit for a user
worker, and no document promises otherwise. `LoadDelivers` and `NodeHears` are
about loading before `Exec`; `QuitEnds` excepts a worker that was registered
after `Quit` had told the others, since nothing stops it (section 6), and
`NoThreadLeft` speaks of workers that were counted while the loop ran.

## 4. Fairness

* Every thread takes its next step if it can (weak fairness): the operating
  system schedules it, `Poller::Wait` returns after 100 ms at the latest, and
  callbacks are assumed to return.
* The clock of the timer worker advances.
* A caller that is in `Quit` goes on to its end; nobody has to call it. In `TimerWheel`
  and `EventConn`, where a caller is one step, nobody has to take it.
* In `EventConn`, actors answer every request (strong fairness on `Reply`,
  because the main thread can process a reply only in some of its states), and
  after `Quit` the main loop leaves (the other workers end; the `Scheduler`
  module shows it).
* In `Messages`, the main thread routes and actors handle what is in their
  mailbox (what `Scheduler` provides); nobody has to say or answer anything.
* In `Lifecycle`, every thread takes its next step; the host calls `Exec` in the
  end; a common worker ends what it executes; a worker that was told to quit
  ends. Nobody has to call `Quit`, but who began to goes on, and the host does
  when loading failed. Actors need not be assigned.
* In `UserWorker`, a `Run` that was answered calls `DispatchMsg` or
  `DispatchAndWaitMsg` or returns from a stopped worker in the end. It need not
  consume or send anything, nor call `Stop`.

No fairness is assumed for callers: calls, messages and timers come or do not.

## 5. The proofs

`tlapm` proves, for any number of actors, workers, threads, connections and
messages, any limits, either poller and any communication pattern:

| Theorem | States | Hypotheses |
|---|---|---|
| `SchedulerProof!CoreInvHolds` | `Spec => []CoreInv`, the protocol's inductive invariant | |
| `SchedulerProof!TypeCorrect` | `Spec => []TypeOK` | |
| `SchedulerProof!ActorsAreSerial` | `Spec => []SerialActor` | |
| `SchedulerProof!MailboxesAreExclusive` | `Spec => []MailboxExclusive` | |
| `SchedulerProof!NoReadFromEmptyChannel` | `Spec => []EveryEventHasCommand` | |
| `SchedulerProof!WaitQueueIsExact` | `Spec => []WaitQueueExact` | |
| `SchedulerProof!BatchesAreBounded` | `Spec => []RunBatchBound` | |
| `SchedulerProof!IInvHolds` | `Spec => []IInv`, the whole inductive invariant | |
| `SchedulerProof!OrderUntilQuit` | `Spec => [](appState = "running" => OrderKept /\ NothingLost)` | `Counted` |
| `SchedulerProof!OrderIsKept` | `SteadySpec => []OrderKept` | `Counted`, `Workers # {}` |
| `SchedulerProof!NoMessageIsLost` | `SteadySpec => []NothingLost` | `Counted`, `Workers # {}` |
| `SchedulerProof!ImplementsActors` | `SteadySpec => Promise!Safe`, the safety part of the refinement of `ActorSpec` | `Workers # {}` |
| `UserWorkerProof!IInvHolds` | `Spec => []IInv` | |
| `UserWorkerProof!TypeCorrect` | `Spec => []TypeOK` | |
| `UserWorkerProof!MailboxesAreExclusive` | `Spec => []MailboxExclusive` | |
| `UserWorkerProof!WokenWithAMessage` | `Spec => []WokenWithMessage` | |
| `UserWorkerProof!WaitersAreQueued` | `Spec => []QueuedWithMessages` | |
| `UserWorkerProof!NoMessageIsLost` | `Spec => []NothingLost` | |
| `MessagesProof!IInvHolds` | `Spec => []IInv` | |
| `MessagesProof!TypeCorrect` | `Spec => []TypeOK` | |
| `MessagesProof!OrderIsKept` | `Spec => []OrderKept` | |
| `MessagesProof!SubscribersGetOneCopy` | `Spec => []SubscribersGetOne` | |
| `MessagesProof!TheNodeIsTold` | `Spec => []NodeIsTold` | |
| `MessagesProof!CallbacksAreMatched` | `Spec => []CallbacksMatch` | |
| `EventConnProof!PoolIsSound` | `Spec => []PoolInv` | |
| `EventConnProof!IInvHolds` | `Spec => []IInv` | `AskersAlone` |
| `EventConnProof!TypeCorrect` | `Spec => []TypeOK` | `AskersAlone` |
| `EventConnProof!ConnectionsAreExclusive` | `Spec => []ConnExclusive` | `AskersAlone` |
| `EventConnProof!SendsAreDispatched` | `Spec => []SendsDispatched` | `AskersAlone` |
| `EventConnProof!AnswersAreMine` | `Spec => []AnswerIsMine` | `AskersAlone` |
| `EventConnProof!PoolIsExact` | `Spec => []PoolExact` | `AskersAlone` |
| `LifecycleProof!RunningThreadsAreKnown` | `Spec => []ThreadInv` | |
| `LifecycleProof!NoThreadIsLeft` | `Spec => NoThreadLeft` | |
| `LifecycleProof!SerialUnlessLate` | `Spec => []SerialActor` | `~Late` |
| `LifecycleProof!TypeCorrect` | `Spec => []TypeOK` | |
| `LifecycleProof!MessagesOfInitArrive` | `Spec => []LoadDelivers` | |
| `LifecycleProof!TheNodeHears` | `Spec => []NodeHears` | |
| `TimerWheelProof!TypesAreKept` | `Spec => []TypeOK` | |
| `TimerWheelProof!TimersAreInPlace` | `Spec => []InPlace` | |
| `TimerWheelProof!FiresLikeExactTimers` | `Spec => ImplementsTimers`, the safety part of the refinement of `TimerSpec` | |
| `CmdChannelProof!EveryCommandHasItsEvent` | `Spec => []EventPerCommand` | |
| `CmdChannelProof!NoWakeupIsLost` | `Spec => []NoLostWakeup` | |
| `CmdChannelProof!ImplementsChannel` | `Spec => Atomic!Spec`, the refinement of `ChannelSpec` | |

The modules' own assumptions on constants are `NamesAssumption` (actors, workers,
the outside source and the null pointer are different things),
`ThreadsAssumption` (finitely many workers and callers of `Quit`) and
`LimitsAssumption` (limits are integers) of `Scheduler`; `UserWorkerAssumption`, `MessagesAssumption`,
`ConnAssumption` and `LifeAssumption` of the modules named so, of the same kind;
`WheelAssumption` of `TimerWheel` (levels have two slots at least, and a timer is armed
for less than half of what the wheel spans). `CmdChannelProof`
assumes nothing. The hypotheses in the table:

* `Counted`: messages carry numbers. Without it nothing tells two of them apart,
  and there is no order to speak of.
* `Workers # {}`: an application has a common worker. With none the main loop
  ends at once (`JoinAll`), which is not a step of a running `ActorSpec`.
* `AskersAlone`: a thread that calls `SendRequest` is the only one that uses event
  connections. Without it each of these properties is false for some workload, because
  two threads can then share a connection (finding 3). Threads that only call
  `Send` may be any number. What holds for all workloads is `PoolInv`.
* `~Late`: the host adds no actor after it called `Exec`. With late additions two
  workers can execute one actor (finding 1).
* `running`: a worker that reads `kQuit` before the `kRun` it was sent leaves a
  batch, so order and completeness are claimed until `Quit`, or for `SteadySpec`,
  in which nobody calls it.

**Scheduler.** That an actor is serial is not inductive: nothing in it says why
the main thread never gives away an actor that is still running. The reason is
spread over the protocol, and `CoreInv = TypeOK /\ WorkerInv` writes it down:

* `Baton`: the right to run is in one place, with the thread, in the `kIdle` it
  sent, in the idle queue, or in the `kRun` sent to it.
* `Farewell`: a worker says `kQuit` last and once, and not before somebody called
  `Quit`. It is told to by each caller that has come to it (`Told`), so its channel
  holds at most one `kRun` and as many `kQuit` as there are such callers, in any
  order (`FromMain`).
* `StoredFirst`: whoever lists or tells workers has set the state before, so that
  nothing of this has happened while the state is `kRunning`.
* `Holds`: a worker keeps its actor until its `kIdle` is read, and until then
  the actor has its running flag. The exception is the worker whose event is
  being processed: its flag is already cleared, but it waits for an answer, or
  has ended.
* `UniqueHolder`: two registered workers never hold the same actor.
* `IdleOnce`: a worker is in the idle queue at most once.
* `EveryEventHasCommand`: an event stands for a command that is in the channel;
  a spurious one would clear the flag of a running actor.

`IInv` adds what the queues hold. `WaitQueueExact` is inductive beside `CoreInv`.
`BatchesHeld` counts: every batch in a run queue belongs to a worker that was
given the actor and has not begun or ended it, so the queue is no longer than the
limit times their number, and `RunBatchBound` follows because all but one of them
have ended. Until `Quit`, `ActorInv` says that an actor without a running flag has
an empty run queue and nothing left to send but while it is dispatched: this is
why a new batch is not put behind an old one, and why the refinement may say that
a batch begins empty. `FlowInv` follows the messages of one pair: along `run`,
`recv` and `send` their numbers rise from the last one processed to the last one
sent, with none missing if there is no pending limit. The refinement takes each
action to the step of `ActorSpec` it is (`Assign` to `Begin`, `ProcMsg` to
`Handle`, `BeginEvent` to `End`, `DispatchOne` to `Route`, `ProcessOther` to
`Arrive`), all others to stutters.

There is one lemma per action and part of the invariant. Used throughout: the
channel lemmas `ToMainOps` and, in `MailboxProof`, `ToOwnerTail`, `ToOwnerQuit` and
`ToOwnerAnswer` (what `Append` and `Tail` do to what a channel can hold); and `MailboxProof`, which says of each
operation of a mailbox (`Recv` with its overflow, `MoveToRun` with its limit,
taking the first, appending, dispatching one) that types, bounds and the flow of
every pair are kept. TLC checks `IInv` in `scheduler_quit`. The proofs cover `Spec`, `Quit`
included, of which `SteadySpec` is a special case.

**UserWorker.** The right to use a mailbox is here split by `ctrl_owner_`: `Baton`
says that a worker that runs has said neither `kIdle` nor `kWaitForMsg` and is not
answered, that one whose command is unread still has `ctrl_owner_ = kWorker`, so
`WeakupWorker` leaves it alone, and that one the main thread keeps waiting has no
answer under way. `Farewell` and `FromMain` do for `kQuit` what they do above; a
worker may also end because it stopped itself, so its farewell does not tell of a
`Quit`; `ListedFirst` ties the list of workers a caller has yet to tell to its having
called. With `QueuedWithMessages` the flag and the queue of workers to wake agree; with
`WokenWithMessage` the answer `kRunWithMsg` has a batch in front of it, because only
the woken worker empties its run queue. `FlowInv` is claimed for unlimited batches.

**Messages.** Order: everything said is numbered along the log of what was
dispatched and then the send lists (`SaidInOrder`), and what an actor got or has in
its mailbox is a part of the log in the log's order. Copies: `SubsExact` says the
table is exactly the local subscriptions in the log, so the subscribers of a
publication are those before it. Callbacks: `Matched` follows an id on its way out
and back; a request or response in any queue names a callback of the one who asked that
waits, for that very call, or that ran; ids are below `request_id_` and never reused.
A response keeps the mode its sender gave it, and ids are the asker's own. So a
response is in the mailbox of the one who asked or, if it goes to the network, of
the node, which may find a callback of its own under that id: `Usable` says
which answers a callback may run with, and an answer that did not run its own
callback met one that had run.

**EventConn.** `PoolInv` needs no hypothesis. `Alloc` and the two halves of `Release`
take a connection from the pool to `evs_`, from there to the thread that releases
it (`Between`), and back to the pool. It is in one of these places, and in `Between`
on account of one thread, because the first half does nothing for a
connection that is not registered. How many there are follows: `Alloc` adds
to the pool when it is empty, however many are on their way back. Who *uses* it is another matter. `HoldInv` says
that a holder of a connection is alone with it, and that a sender's connection is
registered until it releases it itself. For senders, `SendInv` says where the one
command of a call is (`Undispatched`, `Dispatched`) and that all other connections
are silent; `DispatchInv` adds the history. For the thread that asks, the connection
is released by the main thread, before the answer is there: `AskInv` has the answer
in one place, still to come (`Awaited`), between `Release` and the mailbox
(`Arriving`), or in the mailbox with its `kIdle` (`Arrived`), and says that all
messages and answers are its own. If requests are answered once, `RequestInv` makes
this one place for the command, too; if they are answered twice a late answer may
arrive in place of the next, on the same connection, which is what `AnswerIsMine`
allows. `LostInv` counts the connections that are registered and held by no thread.

**Lifecycle.** `ThreadInv`: until the loop of `Exec` ends, a worker that is registered
and has not ended is in `evs_`. `Kept` names the stations of a worker that was counted:
in `evs_` with the loop running, ended and in the list of stopped workers with the
loop running or over, joined. Each step takes it from a station to that or the
next: the loop cannot end beside it, because `WorkerSize` counts it, and
`WaitAllWorkerQuit` joins all stopped ones. So `NoThreadLeft`, a property of two
moments, is an invariant from the first of them on. `FlagInv`, without late
additions: an actor is executed by one worker if its running flag is set, else by
none; `AddActor` clears flags only while no actor is executed.

`LoadDelivers` and `NodeHears` speak of the moment when `Exec` loops, and of mailboxes
only; neither says anything before. `Loading` is what holds all along, as long as nothing
is added late. For each item `i` that was added and each name `x`, the messages `i` sends
to `x` are a `Line`: the mailbox of `x`, if there is one, and behind it the cache of
`Exec`. That line is what the `Init` of `i` sent, in one of two orders: as sent, when `x`
was not there and all of it was cached, or local messages first, when `x` was there and
only those for the network too were cached (`LineInv`). `AddDispatch` is the hard step:
it takes from the cache what is for the new item, wherever it lies there, and delivers
it before what the item sends itself, and holds back a part of that. `LineOld` and
`LineNew` show it for items added before and for the new one: what is released moves from
the cache's part of its line to the mailbox's, and nothing overtakes it. `NetInv` is the same for the
node, for which a message released when there is no node is lost (`Released`). `BoxInv`
and `TableInv` are what this needs to know of mailboxes and the table: only an item in the
table has messages, nobody but the node has those of others, no message is from an
item yet to be added. When `Exec` has emptied its cache, lines are mailboxes, and a list
that holds what was sent, in one of these orders, holds each message once
(`InOrderOnce`). The lemmas on `Only`, on `\o` and on lists of lists (`Spread`, as the one
dispatched message becomes none, one or two) are shown by induction on the length
of a list.

The inductive invariants of `UserWorker`, `Messages`, `EventConn` and `Lifecycle` hold
in the instances of `user_worker`, `messages`, `event_conn` and `lifecycle`; the runs
themselves check the properties that follow from them (`LoadInv` with them, once, in the
286,394 states of `lifecycle`).

**TimerWheel.** `InPlace` is almost inductive. `WheelInv` adds that every armed timer has
between 1 and `MaxTime` ticks left, so that `expire` and `time_` can be compared
although both wrap around, and that ids are different, so that the timers fired are
those whose tick it is and no others. The heart of it is arithmetic about mixed radix
numbers, a lemma a step: `time_` divided by the span of a level changes only when
all levels below begin a new turn (`PrefixStep`, `TurningStep`); so the slot of a timer
is another one after a tick only for the timers of the one slot that `_Shift` spreads
(`SlotStays`, `SlotSpreads`), and `CascadePlaces` concludes that a cascade puts every timer
where it belongs, behind timers armed before it. The lemmas on `Only` are shown by
induction on the length of a list. `ChanInv` is the handover: the `kIdle`, its
answer, or the right to run is in one place (`Handover`), and besides the answer the
channel holds no more than a `kQuit` from each caller that has told the worker. In the refinement a tick takes out the timers with one tick left,
which are those of the two slots `_Execute` empties.

**CmdChannel.** The commands in `to_main_cmd_` are counted: as many
as there are events in the poller and in the main thread's round, and one more
while the owner has pushed and not yet notified. `PushToMain` and `Notify` move
one between these places; `Wait` moves all; `RecvFromOwner` takes one from both
sides, so the list it takes the front of is not empty. A sleeping owner with a
command in its queue has a sender that pushed and will notify: a sender pushes
before it notifies, and the owner goes to sleep in the step that found the queue
empty, because the predicate and the sleep share the mutex. The refinement is
by cases over the steps: `Notify`, `Sleep`, `WakeUp`, `NotifyOwner` and `Wait`
stutter, the others are the steps of `ChannelSpec` of the same meaning; the count
shows that `RecvFromOwner` is allowed there. Safety only: that the main thread
wakes up at all is the 100 ms of `Wait`.

**Only model-checked.** The liveness properties of all runs, the fairness of
`ActorSpec` and `TimerSpec` among them: liveness under fairness is out of the prover's
reach. Every invariant of a passing run is a theorem.

## 6. Where code and documents disagree

1. **An actor added while `Exec` runs can be executed by two workers**
   (`SerialActor` in `lifecycle_late`). `AddActor` puts it into the table, where
   the main thread finds it, gives it a message and a worker; then `AddActor`
   calls `DispatchMsg(ctx)` for what `Init` sent, which clears the running flag of
   the actor and walks its send list. The guide says that a single actor is
   executed serially, and app.cpp:252 provides for additions at run time.
2. **A timer can fire early** (`NeverEarly` in `timer_early`). `Timeout` counts
   from `time_`, which is behind the clock while the timer thread waits for the
   main thread or makes up for missed ticks. `actor.h` says the message comes
   when the time has passed.
3. **Two threads can share a connection** (`CallsReturn` in
   `event_conn_shared`). `Notify` returns the connection to the pool before the
   caller of `SendRequest` has read its answer; the next caller may get the same
   one, and one of the two can wait for ever.
4. **A call can miss the shutdown** (`CallsReturn` in `event_conn_shutdown`). The
   state is checked once; a connection registered after `EventManager::Clear`
   is told nothing.

Observations that are no findings here; a passing run states each exactly:

* A `kHybrid` subscription that repeats a `kIntra` one is ignored as a whole, so
  the node never hears of it (`NodeIsTold`, msg_manager.cpp:38-44).
* Messages that a batch limit of a user worker leaves behind wait for the next
  message (`QueuedWithMessages`).
* A worker that reads `kQuit` before the `kRun` it was sent leaves its batch; the
  next worker gets the actor with a second batch in front of it, more than
  `run_queue_size` (`RunBatchBound`).
* `SendRequest` without a destination loses its connection for good, although
  app.cpp:345 says the system releases it (`PoolExact`).
* After a request was answered twice, each later call on its connection may get
  the answer to an earlier one (`AnswerIsMine`).
* A local message overtakes those of the same `Init` that were cached for the
  network; a message for the network that is released because its receiver was
  added is lost for a node that comes later (`LoadDelivers`, `NodeHears`). A node
  whose `Init` fails keeps the address, and no other is accepted.
* `Exec` takes an `App` that `Quit` was called on for a running one; it still ends,
  except for a worker that is registered between `StopAllWorker` and the end:
  nobody tells it to stop (`QuitEnds`). One that is registered but not counted
  when the loop ends is never joined (`NoThreadLeft`).
* `Quit` tests and sets the state without a lock. Two callers that both pass tell the
  workers twice, also those that have ended, and the later one can store `kQuitting`
  over the `kQuit` that `Exec` ended with, for good. The workers and the loop end all the
  same (`QuitTerminates`, `QuitEnds`).
* Between the two halves of `EventConnManager::Release` a connection is neither
  registered nor in the pool; an `Alloc` at that moment makes another one, and the pool
  is larger from then on (`PoolExact`).
* `Response` does not set the transmission mode. One sent as `kDDS` goes to the node
  alone, and the one who asked never gets it (`AnswerArrives`). One that goes to the
  node, as `kHybrid` or `kDDS`, is looked up among the node's own callbacks by an id that
  actor_context.cpp:94 calls unique and that is unique per actor: the node may run a
  callback with the answer to another's request, and its own answer then finds
  none (`CallbacksMatch`).

## 7. What is not modelled

* Failing system calls and the limit of 64 events of an `epoll_wait`. The code logs these errors and goes on.
* In `Scheduler`: adding actors and workers (they are in `Lifecycle`); a callback
  that sends more than one message for each it processes (`ProcMsg` sends at
  most one: a bound); requests and responses, which are messages to it.
* In `TimerWheel`: the doubly linked lists are sequences; the wall-clock sleeps
  are steps of the clock.
* In `UserWorker`: a `Run` that got -1 and still uses its mailbox or dispatches again
  (section 2); the end of the main
  loop without `Quit`, when every worker has stopped by itself (there the timer worker
  keeps the loop going).
* In `EventConn`: the callers of `Quit`, of which only the stored state is there (two of
  them are in `Scheduler` and `Lifecycle`); workloads that mix requesters with other callers, beyond the
  violation runs; `Send` without a destination, which returns -1 and releases its
  connection.
* In `Lifecycle`: `AddActor` on another thread while `Exec` walks the cache
  (app.cpp:739, a list erased from while it is walked); a node that is a user
  worker; service files and `ModManager`, which decide what is added but not how;
  `Init` of the `App` failing half-way.
* In `CmdChannel`: time limits of `RecvFromMain`, which no caller uses, and the
  Linux variant, whose queues are socket pairs in the kernel.
* Signal handlers. The launcher calls `Quit` from one; the modules have threads,
  and a handler can interrupt a thread that holds a lock `Quit` takes.
* In `Messages`: a node that is a user worker, subscriptions made on other
  threads than the main one, the wrap-around of the 32-bit request id, and what
  an iterator into the table of callbacks survives.
* Logging, JSON, string helpers, shared libraries, the launcher, the Python
  bindings, the tools: values and I/O without a protocol. The Python files of the
  repository are a vendored copy of cpplint, an installer script and sample
  programs that call the bindings; the framework itself is C++, and the modules
  translate the C++.

## 8. The plan

Done: `Mailbox`, `ActorSpec`, `Scheduler`, `TimerSpec`, `TimerWheel`, `EventConn`,
`UserWorker`, `Messages` and the first proofs; then `Lifecycle`, `CmdChannel` with its
refinement, calls without a destination and repeated answers in `EventConn`. The
order was the importance of the behaviour: scheduling first, then the three
other kinds of threads the main loop serves, then what travels between actors,
then the beginning and the end.

Then the inductive invariants and proofs, with `Selection` and induction over sequences
for what moves through lists: every invariant a passing run checks is now a theorem, and
so are `NoThreadLeft` and the safety part of each refinement.

Left: `LinkedList`, the pointers of `list.cpp` as a refinement of the sequences
`TimerWheel` uses, splicing included; a node that is a user worker, in
`UserWorker` or `Messages`.

Composition: the modules meet at the main loop. `Scheduler` stands for the
others by `ext`; each of them abstracts the actors in turn. `Messages` sits above
`ActorSpec`, on what `Scheduler` is shown to provide; `Lifecycle` surrounds
`Scheduler` with sets of actors and workers that grow; `CmdChannel` lies below
all of them.

Theorems worth proving next: that `LinkedList`, once it is written, implements the
sequences of `TimerWheel`.
