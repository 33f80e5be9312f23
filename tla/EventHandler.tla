---------------------------- MODULE EventHandler ----------------------------
(***************************************************************************)
(* The event handlers of ethereum/event/BREvent.c with their queues and    *)
(* the shared alarm clock, and how the Ethereum wallet manager connects,   *)
(* disconnects and is destroyed (ethereum/ewm/BREthereumEWM.c, without     *)
(* peer-to-peer).  A manager has one handler; the handler's lockToUse is   *)
(* the manager's recursive lock.                                           *)
(*                                                                         *)
(* Threads: the clock's thread, one dispatching thread for each handler,   *)
(* and the application's threads.  A call of an application's thread is    *)
(* the sequence of the steps it has still to take; between two of them     *)
(* other threads run.                                                      *)
(***************************************************************************)
EXTENDS EventQueue, AlarmClock

CONSTANTS
    Handler,      \* the handlers; also the names of their threads
    Caller,       \* the application's threads
    May,          \* <<c, h, op>>: which calls each of them makes
    Period,       \* [Handler -> Nat]: the timeout's period
    Timeout,      \* the timeout event
    MaxConnects   \* bound: connects of one handler

ASSUME HandlerAssumption ==
    /\ Timeout \in Event
    /\ Period \in [Handler -> Nat \ {0}]
    /\ Free \notin Handler /\ Clock \notin Handler
    /\ (Handler \cup {Free, Clock}) \cap Caller = {}
    /\ MaxConnects \in Nat

VARIABLES
    queue,      \* handler->queue
    connected,  \* ewm->state
    thread,     \* handler->thread # PTHREAD_NULL
    hpc,        \* where that thread is
    quit,       \* handler->threadQuit
    lock,       \* handler->lockToUse: <<owner, depth>>
    startStop,  \* the owner of handler->lockOnStartStop
    alarmId,    \* handler->timeoutAlarmId
    destroyed,  \* the manager and its handler are freed
    calls,      \* [Caller -> the call's handler and its remaining steps]
    signalled,  \* events the application has signalled (each once)
    connects    \* counts the connects, for MaxConnects

threadVars  == <<thread, hpc, quit>>
managerVars == <<connected, alarmId, destroyed>>
appVars     == <<signalled, connects>>
vars == <<queue, threadVars, lock, startStop, managerVars, calls, appVars, clockAll>>

-----------------------------------------------------------------------------
(* Locks and the condition variable *)

Unlocked == <<Free, 0>>

\* a recursive mutex
CanLock(h, t) == lock[h][1] \in {Free, t}
Locked(h, t) == [lock EXCEPT ![h] = <<t, @[2] + 1>>]
Released(h) == [lock EXCEPT ![h] = IF @[2] = 1 THEN Unlocked ELSE <<@[1], @[2] - 1>>]

\* mutant: the handler's thread is not told
WokenNot(h) == hpc

\* pthread_cond_signal(&handler->cond)
Woken(h) == [hpc EXCEPT ![h] = IF @ = "waiting" THEN "woken" ELSE @]

-----------------------------------------------------------------------------
(* eventHandlerThread *)

\* the thread gets its lock: at its beginning, or when its wait ends
ThreadLocks(h) ==
    /\ hpc[h] \in {"started", "woken"}
    /\ CanLock(h, h)
    /\ lock' = Locked(h, h)
    /\ hpc' = [hpc EXCEPT ![h] = "check"]
    /\ quit' = IF hpc[h] = "started" THEN [quit EXCEPT ![h] = FALSE] ELSE quit
    /\ UNCHANGED <<queue, thread, startStop, managerVars, calls, appVars, clockAll>>

ThreadQuits(h) ==
    /\ hpc[h] = "check"
    /\ quit[h]
    /\ hpc' = [hpc EXCEPT ![h] = "ended"]
    /\ lock' = Released(h)
    /\ UNCHANGED <<queue, thread, quit, startStop, managerVars, calls, appVars, clockAll>>

\* dequeue; what the dispatcher does is the event's business
ThreadTakes(h) ==
    /\ hpc[h] = "check"
    /\ ~quit[h]
    /\ queue[h].pending # NULL
    /\ queue' = [queue EXCEPT ![h] = Dequeue(@)]
    /\ hpc' = [hpc EXCEPT ![h] = "dispatch"]
    /\ UNCHANGED <<thread, quit, lock, startStop, managerVars, calls, appVars, clockAll>>

ThreadDispatches(h) ==
    /\ hpc[h] = "dispatch"
    /\ hpc' = [hpc EXCEPT ![h] = "check"]
    /\ UNCHANGED <<queue, thread, quit, lock, startStop, managerVars, calls, appVars, clockAll>>

\* EVENT_STATUS_NONE_PENDING
ThreadIdles(h) ==
    /\ hpc[h] = "check"
    /\ ~quit[h]
    /\ queue[h].pending = NULL
    /\ hpc' = [hpc EXCEPT ![h] = "idle"]
    /\ UNCHANGED <<queue, thread, quit, lock, startStop, managerVars, calls, appVars, clockAll>>

\* pthread_cond_wait
ThreadWaits(h) ==
    /\ hpc[h] = "idle"
    /\ hpc' = [hpc EXCEPT ![h] = "waiting"]
    /\ lock' = Released(h)
    /\ UNCHANGED <<queue, thread, quit, startStop, managerVars, calls, appVars, clockAll>>

ThreadStep(h) ==
    \/ ThreadLocks(h) \/ ThreadQuits(h) \/ ThreadTakes(h) \/ ThreadDispatches(h)
    \/ ThreadIdles(h) \/ ThreadWaits(h)

-----------------------------------------------------------------------------
(* The clock's thread, with eventHandlerAlarmCallback *)

handlerVars == <<queue, threadVars, lock, startStop, managerVars, calls, appVars>>

ClockBeginsStep == ClockBegins /\ UNCHANGED handlerVars
ClockWakesStep == ClockWakes /\ UNCHANGED handlerVars
ClockTimesOutStep == ClockTimesOut /\ UNCHANGED handlerVars
ClockExpiresStep == ClockExpires /\ UNCHANGED handlerVars
ClockReinsertsStep == ClockReinserts /\ UNCHANGED handlerVars

\* the callback: eventHandlerSignalEventOOB, enqueue ...
CallbackEnqueues ==
    LET h == expiring.context
    IN  /\ kpc = "expiring"
        /\ queue' = [queue EXCEPT ![h] = Enqueue(@, Timeout, FALSE)]
        /\ kpc' = "enqueued"
        /\ UNCHANGED <<threadVars, lock, startStop, managerVars, calls, appVars, now, listVars,
                       timeout, expiring, clockQuit, clockThread, clockLock, clockStartStop,
                       failed>>

\* ... and signal
CallbackSignals ==
    /\ kpc = "enqueued"
    /\ hpc' = Woken(expiring.context)
    /\ kpc' = "expired"
    /\ UNCHANGED <<queue, thread, quit, lock, startStop, managerVars, calls, appVars, now,
                   listVars, timeout, expiring, clockQuit, clockThread, clockLock,
                   clockStartStop, failed>>

ClockStep ==
    \/ ClockBeginsStep \/ ClockWakesStep \/ ClockTimesOutStep \/ ClockExpiresStep
    \/ CallbackEnqueues \/ CallbackSignals \/ ClockReinsertsStep

Time == Tick /\ UNCHANGED handlerVars

-----------------------------------------------------------------------------
(* The application's calls *)

Idle == [h |-> Free, e |-> NoEvent, steps |-> <<>>]

\* mutant: alarmClockRemAlarm is left out of eventHandlerStop
StopStepsKeepingAlarm ==
    <<"stopEnter", "stopLock", "stopQuit", "stopJoin", "stopClear">>

\* eventHandlerStop
StopSteps ==
    <<"stopEnter", "stopLock", "stopAlarm", "stopQuit", "stopJoin", "stopClear">>

ConnectSteps == <<"lock", "connect">>
DisconnectSteps == <<"lock", "disconnect">>

\* what a call does, as the steps it begins with
Program(op) ==
    CASE op = "connect"    -> ConnectSteps
      [] op = "disconnect" -> DisconnectSteps
      [] op = "destroy"    -> <<"lock">> \o DisconnectSteps \o StopSteps \o <<"free">>
      [] op = "signal"     -> <<"enqueueTail", "notify">>
      [] op = "signalOOB"  -> <<"enqueueHead", "notify">>

\* the calls of an application's thread; nobody uses a freed manager
Invoke(c, h, op, e) ==
    /\ calls[c] = Idle
    /\ <<c, h, op>> \in May
    /\ ~destroyed[h]
    /\ IF op \in {"signal", "signalOOB"}
       THEN e \in Event \ (signalled \cup {Timeout}) /\ signalled' = signalled \cup {e}
       ELSE e = NoEvent /\ UNCHANGED signalled
    /\ op = "connect" => connects[h] < MaxConnects
    /\ connects' = IF op = "connect" THEN [connects EXCEPT ![h] = @ + 1] ELSE connects
    /\ op = "destroy" => \A d \in Caller : calls[d].h # h
    /\ \A d \in Caller : calls[d].h = h => "free" \notin Range(calls[d].steps)
    /\ calls' = [calls EXCEPT ![c] = [h |-> h, e |-> e, steps |-> Program(op)]]
    /\ UNCHANGED <<queue, threadVars, lock, startStop, managerVars, clockAll>>

\* the caller is at step s of a call on h
At(c, s) == calls[c].steps # <<>> /\ calls[c].steps[1] = s

GoOn(c, steps) ==
    calls' = [calls EXCEPT ![c] = IF steps = <<>> THEN Idle ELSE [@ EXCEPT !.steps = steps]]

\* the rest of the call, after the step's own further steps
Then(c, more) == GoOn(c, more \o Tail(calls[c].steps))

\* an early return: the call goes on after its next n steps
Skip(c, n) == GoOn(c, SubSeq(calls[c].steps, n + 1, Len(calls[c].steps)))

LockStep(c) ==
    LET h == calls[c].h
    IN  /\ \E s \in {"lock", "stopLock"} : At(c, s)
        /\ CanLock(h, c)
        /\ lock' = Locked(h, c)
        /\ Then(c, <<>>)
        /\ UNCHANGED <<queue, threadVars, startStop, managerVars, appVars, clockAll>>

UnlockStep(c) ==
    /\ At(c, "unlock")
    /\ lock' = Released(calls[c].h)
    /\ Then(c, <<>>)
    /\ UNCHANGED <<queue, threadVars, startStop, managerVars, appVars, clockAll>>

\* ewmConnect with the lock held
ConnectStep(c) ==
    LET h == calls[c].h
    IN  /\ At(c, "connect")
        /\ connected' = [connected EXCEPT ![h] = TRUE]
        /\ Then(c, IF connected[h] THEN <<"unlock">>
                   ELSE <<"clockStart", "clockStart", "startEnter", "startAlarm",
                          "startThread", "unlock">>)
        /\ UNCHANGED <<queue, threadVars, lock, startStop, alarmId, destroyed, appVars, clockAll>>

\* alarmClockStart, of ewmConnect and again of alarmClockCreateIfNecessary(1)
ClockStartStep(c) ==
    /\ At(c, "clockStart")
    /\ ClockStart
    /\ Then(c, <<>>)
    /\ UNCHANGED <<queue, threadVars, lock, startStop, managerVars, appVars>>

\* eventHandlerStart: a handler that runs is left alone
StartEnterStep(c) ==
    LET h == calls[c].h
    IN  /\ At(c, "startEnter")
        /\ startStop[h] = Free
        /\ IF thread[h]
           THEN Skip(c, 3) /\ UNCHANGED startStop
           ELSE Then(c, <<>>) /\ startStop' = [startStop EXCEPT ![h] = c]
        /\ UNCHANGED <<queue, threadVars, lock, managerVars, appVars, clockAll>>

StartAlarmStep(c) ==
    LET h == calls[c].h
    IN  /\ At(c, "startAlarm")
        /\ AddAlarm(h, now, Period[h])
        /\ alarmId' = [alarmId EXCEPT ![h] = identifier']
        /\ Then(c, <<>>)
        /\ UNCHANGED <<queue, threadVars, lock, startStop, connected, destroyed, appVars>>

\* pthread_create
StartThreadStep(c) ==
    LET h == calls[c].h
    IN  /\ At(c, "startThread")
        /\ thread' = [thread EXCEPT ![h] = TRUE]
        /\ hpc' = [hpc EXCEPT ![h] = "started"]
        /\ startStop' = [startStop EXCEPT ![h] = Free]
        /\ Then(c, <<>>)
        /\ UNCHANGED <<queue, quit, lock, managerVars, appVars, clockAll>>

\* ewmDisconnect with the lock held
DisconnectStep(c) ==
    LET h == calls[c].h
    IN  /\ At(c, "disconnect")
        /\ connected' = [connected EXCEPT ![h] = FALSE]
        /\ Then(c, IF connected[h]
                   THEN <<"clockStopEnter", "clockStopQuit", "clockStopJoin", "unlock">>
                        \o StopSteps
                   ELSE <<"unlock">>)
        /\ UNCHANGED <<queue, threadVars, lock, startStop, alarmId, destroyed, appVars, clockAll>>

\* alarmClockStop
ClockStopEnterStep(c) ==
    /\ At(c, "clockStopEnter")
    /\ ClockStopEnter(c)
    /\ IF clockThread THEN Then(c, <<>>)
       ELSE Skip(c, 3)
    /\ UNCHANGED <<queue, threadVars, lock, startStop, managerVars, appVars>>

ClockStopQuitStep(c) ==
    /\ At(c, "clockStopQuit")
    /\ ClockStopQuit
    /\ Then(c, <<>>)
    /\ UNCHANGED <<queue, threadVars, lock, startStop, managerVars, appVars>>

ClockStopJoinStep(c) ==
    /\ At(c, "clockStopJoin")
    /\ ClockStopJoin
    /\ Then(c, <<>>)
    /\ UNCHANGED <<queue, threadVars, lock, startStop, managerVars, appVars>>

\* eventHandlerStop
StopEnterStep(c) ==
    LET h == calls[c].h
    IN  /\ At(c, "stopEnter")
        /\ startStop[h] = Free
        /\ IF thread[h]
           THEN Then(c, <<>>) /\ startStop' = [startStop EXCEPT ![h] = c]
           ELSE Skip(c, Len(StopSteps)) /\ UNCHANGED startStop
        /\ UNCHANGED <<queue, threadVars, lock, managerVars, appVars, clockAll>>

StopAlarmStep(c) ==
    LET h == calls[c].h
    IN  /\ At(c, "stopAlarm")
        /\ RemAlarm(alarmId[h])
        /\ alarmId' = [alarmId EXCEPT ![h] = 0]
        /\ Then(c, <<>>)
        /\ UNCHANGED <<queue, threadVars, lock, startStop, connected, destroyed, appVars>>

StopQuitStep(c) ==
    LET h == calls[c].h
    IN  /\ At(c, "stopQuit")
        /\ quit' = [quit EXCEPT ![h] = TRUE]
        /\ hpc' = Woken(h)
        /\ lock' = Released(h)
        /\ Then(c, <<>>)
        /\ UNCHANGED <<queue, thread, startStop, managerVars, appVars, clockAll>>

\* pthread_join
StopJoinStep(c) ==
    LET h == calls[c].h
    IN  /\ At(c, "stopJoin")
        /\ hpc[h] = "ended"
        /\ hpc' = [hpc EXCEPT ![h] = "none"]
        /\ thread' = [thread EXCEPT ![h] = FALSE]
        /\ Then(c, <<>>)
        /\ UNCHANGED <<queue, quit, lock, startStop, managerVars, appVars, clockAll>>

StopClearStep(c) ==
    LET h == calls[c].h
    IN  /\ At(c, "stopClear")
        /\ queue' = [queue EXCEPT ![h] = Clear(@)]
        /\ startStop' = [startStop EXCEPT ![h] = Free]
        /\ Then(c, <<>>)
        /\ UNCHANGED <<threadVars, lock, managerVars, appVars, clockAll>>

\* the end of eventHandlerDestroy and of ewmDestroy
FreeStep(c) ==
    LET h == calls[c].h
    IN  /\ At(c, "free")
        /\ queue' = [queue EXCEPT ![h] = Clear(@)]
        /\ lock' = Released(h)
        /\ destroyed' = [destroyed EXCEPT ![h] = TRUE]
        /\ Then(c, <<>>)
        /\ UNCHANGED <<threadVars, startStop, connected, alarmId, appVars, clockAll>>

\* eventHandlerSignalEvent and eventHandlerSignalEventOOB: no handler's lock is taken
EnqueueStep(c) ==
    LET h == calls[c].h
    IN  /\ At(c, "enqueueTail") \/ At(c, "enqueueHead")
        /\ queue' = [queue EXCEPT ![h] = Enqueue(@, calls[c].e, At(c, "enqueueTail"))]
        /\ Then(c, <<>>)
        /\ UNCHANGED <<threadVars, lock, startStop, managerVars, appVars, clockAll>>

NotifyStep(c) ==
    /\ At(c, "notify")
    /\ hpc' = Woken(calls[c].h)
    /\ Then(c, <<>>)
    /\ UNCHANGED <<queue, thread, quit, lock, startStop, managerVars, appVars, clockAll>>

Continue(c) ==
    \/ LockStep(c) \/ UnlockStep(c) \/ ConnectStep(c) \/ ClockStartStep(c)
    \/ StartEnterStep(c) \/ StartAlarmStep(c) \/ StartThreadStep(c) \/ DisconnectStep(c)
    \/ ClockStopEnterStep(c) \/ ClockStopQuitStep(c) \/ ClockStopJoinStep(c)
    \/ StopEnterStep(c) \/ StopAlarmStep(c) \/ StopQuitStep(c) \/ StopJoinStep(c)
    \/ StopClearStep(c) \/ FreeStep(c) \/ EnqueueStep(c) \/ NotifyStep(c)

-----------------------------------------------------------------------------

Init ==
    /\ ClockInit
    /\ queue = [h \in Handler |-> eventQueueCreate]
    /\ connected = [h \in Handler |-> FALSE]
    /\ thread = [h \in Handler |-> FALSE]
    /\ hpc = [h \in Handler |-> "none"]
    /\ quit = [h \in Handler |-> FALSE]
    /\ lock = [h \in Handler |-> Unlocked]
    /\ startStop = [h \in Handler |-> Free]
    /\ alarmId = [h \in Handler |-> 0]
    /\ destroyed = [h \in Handler |-> FALSE]
    /\ calls = [c \in Caller |-> Idle]
    /\ signalled = {}
    /\ connects = [h \in Handler |-> 0]

Op == {"connect", "disconnect", "destroy", "signal", "signalOOB"}

Next ==
    \/ \E h \in Handler : ThreadStep(h)
    \/ ClockStep
    \/ Time
    \/ \E c \in Caller : Continue(c)
    \/ \E c \in Caller, h \in Handler, op \in Op, e \in Event \cup {NoEvent} : Invoke(c, h, op, e)

Spec == Init /\ [][Next]_vars

\* The threads run and time passes.  The mutexes are the platform's; a thread that
\* waits for one of them again and again gets it.
Fairness ==
    /\ \A h \in Handler : SF_vars(ThreadStep(h))
    /\ SF_vars(ClockStep)
    /\ \A c \in Caller : SF_vars(Continue(c))
    /\ WF_vars(Time)

FairSpec == Spec /\ Fairness

-----------------------------------------------------------------------------
(* Properties *)

Cell == Nat \ {NULL}

\* Every variable has its type.
TypeOK ==
    /\ \A h \in Handler :
          /\ {queue[h].pending, queue[h].available} \subseteq DOMAIN queue[h].next \cup {NULL}
          /\ DOMAIN queue[h].next \subseteq Cell /\ DOMAIN queue[h].event = DOMAIN queue[h].next
          /\ lock[h][1] \in {Free, h} \cup Caller /\ lock[h][2] \in 0..3
          /\ startStop[h] \in {Free} \cup Caller
          /\ hpc[h] \in {"none", "started", "check", "dispatch", "idle", "waiting", "woken", "ended"}
    /\ kpc \in {"none", "started", "waiting", "woken", "timedout", "expiring", "enqueued",
               "expired", "ended"}
    /\ \A a \in Range(alarms) \cup {expiring} : a.context \in Handler \cup {Clock}
    /\ signalled \subseteq Event

\* Every record of a queue is in exactly one of its two lists, once, and both lists end:
\* no event is handed out while it is queued and none leaks (BREventQueue.c).
CellsOwned ==
    \A h \in Handler :
        LET q == queue[h]
            n == Cardinality(DOMAIN q.next)
            all == Records(q, q.pending, n) \o Records(q, q.available, n)
        IN  /\ \A c \in DOMAIN q.next : Cardinality({i \in DOMAIN all : all[i] = c}) = 1
            /\ Cardinality({i \in DOMAIN all : all[i] = NULL}) = 2

Deque == INSTANCE EventDeque WITH waiting <- [h \in Handler |-> Contents(queue[h])]

\* The queue with its pool of records is the double-ended queue BREvent.h promises, whatever
\* the threads that signal, dispatch, time out and stop do.
QueueIsDeque == Deque!Spec

\* A handler that runs has one alarm, in the list or expiring; one that does not run has
\* none: no timeout reaches a stopped handler or one that is freed (eventHandlerStop).
OneAlarmPerThread ==
    \A h \in Handler : startStop[h] = Free =>
        Cardinality({a \in Range(alarms) \cup {expiring} : a.context = h})
            = IF thread[h] THEN 1 ELSE 0

Due(h) == \E a \in Range(alarms) : a.context = h /\ a.expiration <= now

\* An alarm that is due expires, unless the clock is stopped first or its assertion has
\* failed (alarmClockThread).
DueAlarmFires ==
    \A h \in Handler : (Due(h) /\ clockThread) ~> (~Due(h) \/ ~clockThread \/ failed)

\* A handler that waits although an event is queued -- eventHandlerSignalEvent signals without
\* the lock, so the signal can come before the wait -- dispatches it after the next timeout,
\* unless the handler is being stopped.
LateEventsAreDispatched ==
    \A h \in Handler :
        (hpc[h] = "waiting" /\ queue[h].pending # NULL /\ kpc = "expiring" /\ expiring.context = h)
            ~> (queue[h].pending = NULL \/ ~connected[h] \/ startStop[h] # Free)

\* Every call returns: 'Unlock here - required for eventHandlerStop() to run and succeed on
\* pthread_join()' (ewmDisconnect).
\* The code does not have this property: see MCEventHandler_stop.cfg.
StopReturns == \A c \in Caller : (calls[c] # Idle) ~> (calls[c] = Idle)

\* 'Unlock here - required for eventHandlerStop() to run and succeed' (ewmDisconnect): who
\* stops a handler gets the manager's lock.  No caller that holds it waits for
\* lockOnStartStop, which the one that stops the handler has.
\* The code does not have this property: see MCEventHandler_order.cfg.
LocksInOrder ==
    \A c, d \in Caller :
        ~(/\ At(c, "startEnter") /\ lock[calls[c].h][1] = c
          /\ At(d, "stopLock") /\ startStop[calls[c].h] = d)

\* The clock expires alarms whose time has come ('get the alarm that has expired', comment of
\* alarmClockThread).
\* The code does not have this property: see MCEventHandler_expired.cfg.
ExpiredOnly == ~failed /\ expiring.expiration <= now
=============================================================================
