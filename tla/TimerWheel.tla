----------------------------- MODULE TimerWheel ------------------------------
(****************************************************************************)
(* The timer worker (worker_timer.cpp): a hierarchical timing wheel turned  *)
(* by a thread of its own, filled by the actors' threads under a mutex, and *)
(* emptied by the main thread through the worker's command channel.         *)
(*                                                                          *)
(* The wheel has five levels: tv1_ with TVR_SIZE slots of one tick each,    *)
(* tv2_ .. tv5_ with TVN_SIZE slots each.  The code has 256 and 64, powers  *)
(* of two, so that it can shift and mask where division and remainder are   *)
(* meant; time_ wraps around after TVR_SIZE * TVN_SIZE^4 ticks.             *)
(****************************************************************************)
EXTENDS Command, FiniteSets, SequencesExt, Selection

CONSTANTS
    TVR_SIZE, TVN_SIZE,
    Timers,         \* bound: at most one timer of each of these is armed
    Times,          \* the arguments of Actor::Timeout
    MaxLag,         \* bound: ticks the clock may be ahead of the thread
    DispatchRounds, \* dispatch_timeout_us_ / sleep_us_
    Timed,          \* TRUE: note how late time_ is when a timer is armed
    Quits           \* bound: the calls of App::Quit that stop the workers

(* The ticks a slot of level l stands for; a slot of a sixth level would    *)
(* stand for all values of time_.                                           *)
Units == <<1, TVR_SIZE, TVR_SIZE * TVN_SIZE, TVR_SIZE * TVN_SIZE * TVN_SIZE,
           TVR_SIZE * TVN_SIZE * TVN_SIZE * TVN_SIZE,
           TVR_SIZE * TVN_SIZE * TVN_SIZE * TVN_SIZE * TVN_SIZE>>
Unit(l) == Units[l + 1]

Span    == Unit(5)
MaxTime == Span \div 2 - 1

ASSUME WheelAssumption ==
    /\ TVR_SIZE \in Nat \ {0, 1}
    /\ TVN_SIZE \in Nat \ {0, 1}
    /\ Times \subseteq 1..MaxTime
    /\ MaxLag \in Nat \ {0}
    /\ DispatchRounds \in Nat \ {0}
    /\ Timed \in BOOLEAN
    /\ Quits \in Nat

VARIABLES
    time_,      \* TimerManager::time_, a tick counter that wraps around
    wheel,      \* tv1_ (level 0) and tv_[0..3] (levels 1..4): timers per slot
    expired,    \* TimerManager::timeout_list_
    send,       \* the send list of the timer worker's mailbox
    lag,        \* ticks of the clock since cur_point_
    todo,       \* rounds of Updatetime's loop still to do
    tpc,        \* where the timer thread is
    rounds,     \* cur_us_ / sleep_us_
    toMain, toOwner,    \* the command channel
    registered, \* the worker is in EventManager::evs_
    told,       \* how many calls of App::Quit have told the worker
    armed       \* history: timers in the wheel in the order they were armed

wheelVars == <<time_, wheel, armed>>
chanVars  == <<toMain, toOwner, registered>>
vars == <<time_, wheel, expired, send, lag, todo, tpc, rounds, toMain,
          toOwner, registered, told, armed>>

Slots == ({0} \X (0..TVR_SIZE - 1)) \cup ((1..4) \X (0..TVN_SIZE - 1))
Timer == [id : Timers, expire : 0..Span - 1, behind : 0..2 * MaxLag]
Fired == [id : Timers, early : BOOLEAN]

Size(l) == IF l = 0 THEN TVR_SIZE ELSE TVN_SIZE
Index(l, t) == (t \div Unit(l)) % Size(l)
SamePrefix(l, s, t) == s \div Unit(l) = t \div Unit(l)

(* _AddTimerNode: the lowest level whose span holds both times.             *)
Slot(expire, now) ==
    LET l == Min({4} \cup { i \in 0..3 : SamePrefix(i + 1, expire, now) })
    IN  <<l, Index(l, expire)>>

Add(w, timer, now) == [w EXCEPT ![Slot(timer.expire, now)] = Append(@, timer)]

(* The timers that belong into a slot.                                      *)
At(slot, now) == { x \in Timer : Slot(x.expire, now) = slot }

(* _MoveList: every timer of a slot is added again, one after the other.    *)
MoveList(w, slot, now) ==
    LET rest == [w EXCEPT ![slot] = <<>>]
    IN  [s \in Slots |-> rest[s] \o Only(w[slot], At(s, now))]

(* Mutant: nothing is done when the time wraps around.                      *)
CascadeNoWrap(w, now) ==
    LET turned == { l \in 1..4 : Index(l, now) # 0 }
    IN  IF Index(0, now) # 0 \/ now = 0 THEN w
        ELSE LET l == Min(turned) IN MoveList(w, <<l, Index(l, now)>>, now)

(* _Shift, after ++time_: when tv1_ begins a new turn, the slot the lowest  *)
(* turning level has reached is spread over the levels below.               *)
Cascade(w, now) ==
    LET turned == { l \in 1..4 : Index(l, now) # 0 }
    IN  IF Index(0, now) # 0 THEN w
        ELSE IF now = 0 THEN MoveList(w, <<4, 0>>, now)
        ELSE LET l == Min(turned) IN MoveList(w, <<l, Index(l, now)>>, now)

-----------------------------------------------------------------------------
(* time_ has no initializer: it starts with whatever the memory holds.      *)
Init ==
    /\ time_ \in 0..Span - 1
    /\ wheel = [s \in Slots |-> <<>>]
    /\ expired = <<>> /\ send = <<>>
    /\ lag = 0 /\ todo = 0
    /\ tpc = "run" /\ rounds = 0
    /\ toMain = <<>> /\ toOwner = <<>>
    /\ registered = TRUE
    /\ told = 0
    /\ armed = <<>>

Ids(s) == { s[i].id : i \in 1..Len(s) }

(* Mutant: the addition does not wrap around.                               *)
ExpireNoWrap(t) == time_ + t

Expire(t) == (time_ + t) % Span

(* TimerManager::Timeout, on the thread of an actor.  "behind" is history:  *)
(* how far the clock is ahead of time_.                                     *)
Timeout(id, t) ==
    LET timer == [id |-> id, expire |-> Expire(t),
                  behind |-> IF Timed THEN lag + todo ELSE 0] IN
    /\ id \notin Ids(armed) \cup Ids(expired) \cup Ids(send)
    /\ wheel' = Add(wheel, timer, time_)
    /\ armed' = Append(armed, timer)
    /\ UNCHANGED <<time_, expired, send, lag, todo, tpc, rounds, chanVars,
                   told>>

(* The monotonic clock goes on.                                             *)
Clock ==
    /\ lag < MaxLag
    /\ lag' = lag + 1
    /\ UNCHANGED <<wheelVars, expired, send, todo, tpc, rounds, chanVars,
                   told>>

-----------------------------------------------------------------------------
(* The timer thread: WorkerTimer::Run in a loop.                            *)

(* Updatetime reads the clock.                                              *)
ReadClock ==
    /\ tpc = "run"
    /\ todo' = lag
    /\ lag' = 0
    /\ tpc' = "ticks"
    /\ UNCHANGED <<wheelVars, expired, send, rounds, chanVars, told>>

(* _Updatetime, under the mutex: _Execute, _Shift, _Execute.  "early" is    *)
(* history: more than one tick less than was asked for has passed on the    *)
(* clock.                                                                   *)
Tick ==
    LET now   == (time_ + 1) % Span
        here  == <<0, Index(0, time_)>>
        there == <<0, Index(0, now)>>
        w1    == [wheel EXCEPT ![here] = <<>>]
        w2    == Cascade(w1, now)
        due   == wheel[here] \o w2[there]
    IN
    /\ tpc = "ticks"
    /\ todo > 0
    /\ time_' = now
    /\ wheel' = [w2 EXCEPT ![there] = <<>>]
    /\ todo' = todo - 1
    /\ expired' = expired \o [i \in 1..Len(due) |->
           [id |-> due[i].id, early |-> lag + todo' + 1 < due[i].behind]]
    /\ armed' = Only(armed, { x \in Timer : x.id \notin Ids(due) })
    /\ UNCHANGED <<send, lag, tpc, rounds, chanVars, told>>

(* Mutant: nothing is dispatched while no timer fires.                      *)
RunNeverIdle ==
    /\ tpc = "ticks"
    /\ todo = 0
    /\ send' = send \o expired
    /\ expired' = <<>>
    /\ IF send' # <<>>
       THEN /\ toMain' = Append(toMain, "kIdle")
            /\ tpc' = "recv"
            /\ UNCHANGED rounds
       ELSE /\ tpc' = "run"
            /\ UNCHANGED <<rounds, toMain>>
    /\ UNCHANGED <<wheelVars, lag, todo, toOwner, registered, told>>

(* Work returns: fired timers, or a second without a dispatch, make the     *)
(* thread hand over to the main thread; else it sleeps for sleep_us_.       *)
Run ==
    /\ tpc = "ticks"
    /\ todo = 0
    /\ send' = send \o expired
    /\ expired' = <<>>
    /\ IF send' # <<>> \/ rounds >= DispatchRounds
       THEN /\ toMain' = Append(toMain, "kIdle")
            /\ tpc' = "recv"
            /\ UNCHANGED rounds
       ELSE /\ rounds' = rounds + 1
            /\ tpc' = "run"
            /\ UNCHANGED toMain
    /\ UNCHANGED <<wheelVars, lag, todo, toOwner, registered, told>>

(* Worker::DispatchMsg gets an answer; the thread sleeps and runs again,    *)
(* or ends.                                                                 *)
RecvCmd ==
    /\ tpc = "recv"
    /\ toOwner # <<>>
    /\ toOwner' = Tail(toOwner)
    /\ tpc' = IF Head(toOwner) = "kQuit" THEN "exit" ELSE "run"
    /\ rounds' = 1
    /\ UNCHANGED <<wheelVars, expired, send, lag, todo, toMain, registered,
                   told>>

Exit ==
    /\ tpc = "exit"
    /\ toMain' = Append(toMain, "kQuit")
    /\ tpc' = "ended"
    /\ UNCHANGED <<wheelVars, expired, send, lag, todo, rounds, toOwner,
                   registered, told>>

-----------------------------------------------------------------------------
(* The main thread.                                                         *)

(* Mutant: kIdle is not answered.                                           *)
ProcessTimerEventMute ==
    /\ registered
    /\ toMain # <<>>
    /\ send' = <<>>
    /\ toMain' = Tail(toMain)
    /\ registered' = (Head(toMain) # "kQuit")
    /\ UNCHANGED <<wheelVars, expired, lag, todo, tpc, rounds, toOwner, told>>

(* App::ProcessTimerEvent: the fired timers go to their actors, then the    *)
(* command is read and answered.                                            *)
ProcessTimerEvent ==
    /\ registered
    /\ toMain # <<>>
    /\ send' = <<>>
    /\ toMain' = Tail(toMain)
    /\ \/ /\ Head(toMain) = "kIdle"
          /\ toOwner' = Append(toOwner, "kRun")
          /\ UNCHANGED registered
       \/ /\ Head(toMain) = "kQuit"
          /\ registered' = FALSE
          /\ UNCHANGED toOwner
    /\ UNCHANGED <<wheelVars, expired, lag, todo, tpc, rounds, told>>

(* StopAllWorker comes to this worker, on a thread that calls App::Quit.    *)
(* Two calls may both have passed the test of the state, and the list a     *)
(* caller goes through may be older than the worker's farewell.             *)
StopWorker ==
    /\ told < Quits
    /\ told' = told + 1
    /\ toOwner' = Append(toOwner, "kQuit")
    /\ UNCHANGED <<wheelVars, expired, send, lag, todo, tpc, rounds, toMain,
                   registered>>

Thread == ReadClock \/ Tick \/ Run \/ RecvCmd \/ Exit

SteadyNext == (\E id \in Timers, t \in Times : Timeout(id, t))
              \/ Clock \/ Thread \/ ProcessTimerEvent
Terminated == tpc = "ended" /\ ~registered /\ UNCHANGED vars

Next == SteadyNext \/ StopWorker \/ Terminated

(* The clock advances and both threads run as long as they can.             *)
Fairness == WF_vars(Clock) /\ WF_vars(Thread) /\ WF_vars(ProcessTimerEvent)

Spec == Init /\ [][Next]_vars /\ Fairness
SteadySpec == Init /\ [][SteadyNext]_vars /\ Fairness

-----------------------------------------------------------------------------
(* Properties.                                                              *)

(* Every variable stays in its type; the thread has at most one kIdle and   *)
(* its farewell under way, the main thread one kRun and what each caller of *)
(* Quit wrote.                                                              *)
TypeOK ==
    /\ time_ \in 0..Span - 1
    /\ wheel \in [Slots -> Seq(Timer)]
    /\ expired \in Seq(Fired) /\ send \in Seq(Fired)
    /\ lag \in 0..MaxLag /\ todo \in 0..MaxLag
    /\ tpc \in {"run", "ticks", "recv", "exit", "ended"}
    /\ rounds \in 0..DispatchRounds
    /\ toMain \in {<<>>, <<"kIdle">>, <<"kQuit">>, <<"kIdle", "kQuit">>}
    /\ toOwner \in ToOwnerStates({"kRun"}, told)
    /\ registered \in BOOLEAN /\ told \in 0..Quits
    /\ armed \in Seq(Timer)

(* Every armed timer is always in the slot it would be put in if it were    *)
(* armed now, and the timers of a slot are in the order they were armed.    *)
(* So a cascade moves timers strictly downwards (a timer added to the list  *)
(* being walked would make _MoveList walk for ever), and tv1_'s current     *)
(* slot is empty between ticks: no timer is overlooked when its tick comes. *)
InPlace ==
    /\ \A s \in Slots : wheel[s] = Only(armed, At(s, time_))
    /\ wheel[<<0, Index(0, time_)>>] = <<>>

(* The wheel implements exact timers, across cascades, the wrap-around of   *)
(* time_ and any number of ticks made up for at once.                       *)
Promise == INSTANCE TimerSpec WITH
    pending <- [i \in 1..Len(armed) |->
                  [id |-> armed[i].id,
                   left |-> (armed[i].expire - time_) % Span]],
    fired   <- [i \in 1..Len(send \o expired) |-> (send \o expired)[i].id],
    halted  <- told > 0

ImplementsTimers == Promise!Safe

(* ... and every fired timer reaches the main thread, unless Quit stops the *)
(* worker first.                                                            *)
ImplementsFairTimers == Promise!Spec

(* The thread asks for a command at least every DispatchRounds rounds, so   *)
(* Quit ends it even if no timer ever fires.                                *)
QuitEndsThread == told > 0 ~> tpc = "ended" /\ ~registered

(* actor.h: a timer's message comes when its time has passed, up to the     *)
(* resolution of one tick.  Does not hold: Timeout counts from time_, which *)
(* lags behind the clock while the thread waits for the main thread or      *)
(* makes up for missed ticks.                                               *)
NeverEarly == \A i \in 1..Len(expired) : ~expired[i].early

=============================================================================
