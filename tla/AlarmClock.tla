----------------------------- MODULE AlarmClock -----------------------------
(***************************************************************************)
(* The alarm clock of ethereum/event/BREventAlarm.c.  One thread waits for *)
(* the first alarm of a sorted list; threads that add or remove an alarm   *)
(* signal its condition variable.  clock->lock is held by the clock's      *)
(* thread from the end of a wait to the beginning of the next, so also     *)
(* while the callback of an alarm runs (kpc = "expiring" and after).       *)
(*                                                                         *)
(* A wait that has timed out must still take the lock: between the two     *)
(* the list can change.                                                    *)
(***************************************************************************)
EXTENDS Naturals, Sequences, SequencesExt, FiniteSetsExt

CONSTANTS
    Free,      \* nobody holds a lock
    Clock,     \* the clock's thread
    Forever,   \* 'forever in the future', later than every time
    MaxTime    \* bound: the last time

ASSUME ClockAssumption ==
    /\ Free # Clock
    /\ Forever \in Nat /\ MaxTime \in Nat /\ MaxTime < Forever

VARIABLES
    now,             \* gettimeofday
    alarms,          \* clock->alarms: records [id, context, expiration, period]
    identifier,      \* clock->identifier
    timeout,         \* clock->timeout, what the thread waits for
    kpc,             \* where the clock's thread is
    expiring,        \* the alarm that has expired
    clockThread,     \* clock->thread # PTHREAD_NULL
    clockQuit,       \* clock->threadQuit
    clockLock,       \* the owner of clock->lock
    clockStartStop,  \* the owner of clock->lockOnStartStop
    failed           \* the assertion of array_rm has failed

listVars  == <<alarms, identifier>>
clockVars == <<timeout, kpc, expiring, clockQuit>>
clockAll  == <<now, listVars, clockVars, clockThread, clockLock, clockStartStop, failed>>

Alarm(id, context, expiration, period) ==
    [id |-> id, context |-> context, expiration |-> expiration, period |-> period]

NoAlarm == Alarm(0, Clock, 0, 0)

\* alarmClockInsertAlarm: after the last alarm that is not later
InsertAlarm(s, a) ==
    InsertAt(s, 1 + Max({0} \cup {i \in 1..Len(s) : s[i].expiration <= a.expiration}), a)

\* alarmClockRemAlarm: the first alarm with the identifier
WithoutAlarm(s, id) ==
    LET at == {i \in 1..Len(s) : s[i].id = id}
    IN  IF at = {} THEN s ELSE RemoveAt(s, Min(at))

\* mutant: the clock's thread is not told
SignalClockNot == kpc' = kpc

\* pthread_cond_signal(&clock->cond): who has timed out waits no more
SignalClock == kpc' = IF kpc = "waiting" THEN "woken" ELSE kpc

-----------------------------------------------------------------------------
(* alarmClockThread *)

\* the head of the loop with the lock held: quit, or set the timeout and wait
ClockLoop(quit, s) ==
    /\ kpc' = IF quit THEN "ended" ELSE "waiting"
    /\ timeout' = IF quit THEN timeout
                  ELSE IF s = <<>> THEN Forever ELSE s[1].expiration
    /\ clockLock' = Free

\* the thread begins; it clears threadQuit
ClockBegins ==
    /\ kpc = "started"
    /\ clockLock = Free
    /\ clockQuit' = FALSE
    /\ ClockLoop(FALSE, alarms)
    /\ UNCHANGED <<now, listVars, expiring, clockThread, clockStartStop, failed>>

ClockWakes ==
    /\ kpc = "woken"
    /\ clockLock = Free
    /\ ClockLoop(clockQuit, alarms)
    /\ UNCHANGED <<now, listVars, expiring, clockQuit, clockThread, clockStartStop, failed>>

\* pthread_cond_timedwait times out
ClockTimesOut ==
    /\ kpc = "waiting"
    /\ now >= timeout
    /\ kpc' = "timedout"
    /\ UNCHANGED <<now, listVars, timeout, expiring, clockQuit, clockThread, clockLock,
                   clockStartStop, failed>>

\* it has the lock again and takes the first alarm, whichever that is now
ClockExpires ==
    /\ kpc = "timedout"
    /\ clockLock = Free
    /\ ~failed
    /\ IF alarms = <<>>
       THEN failed' = TRUE /\ UNCHANGED <<alarms, expiring, kpc, clockLock>>
       ELSE /\ expiring' = Head(alarms)
            /\ alarms' = Tail(alarms)
            /\ kpc' = "expiring"
            /\ clockLock' = Clock
            /\ UNCHANGED failed
    /\ UNCHANGED <<now, identifier, timeout, clockQuit, clockThread, clockStartStop>>

\* after the callback: the alarm is inserted again, and the loop goes on
ClockReinserts ==
    LET a == [expiring EXCEPT !.expiration = @ + expiring.period]
    IN  /\ kpc = "expired"
        /\ alarms' = InsertAlarm(alarms, a)
        /\ expiring' = NoAlarm
        /\ ClockLoop(clockQuit, alarms')
        /\ UNCHANGED <<now, identifier, clockQuit, clockThread, clockStartStop, failed>>

Tick ==
    /\ now < MaxTime
    /\ now' = now + 1
    /\ UNCHANGED <<listVars, clockVars, clockThread, clockLock, clockStartStop, failed>>

-----------------------------------------------------------------------------
(* The calls, each one step; the caller's step says which variables it leaves. *)

\* alarmClockStart
ClockStart ==
    /\ clockStartStop = Free
    /\ clockThread' = TRUE
    /\ kpc' = IF clockThread THEN kpc ELSE "started"
    /\ UNCHANGED <<now, listVars, timeout, expiring, clockQuit, clockLock, clockStartStop, failed>>

\* alarmClockAddAlarmPeriodic
AddAlarm(context, expiration, period) ==
    /\ clockLock = Free
    /\ identifier' = identifier + 1
    /\ alarms' = InsertAlarm(alarms, Alarm(identifier + 1, context, expiration, period))
    /\ SignalClock
    /\ UNCHANGED <<now, timeout, expiring, clockThread, clockQuit, clockLock, clockStartStop,
                   failed>>

RemAlarm(id) ==
    /\ clockLock = Free
    /\ alarms' = WithoutAlarm(alarms, id)
    /\ SignalClock
    /\ UNCHANGED <<now, identifier, timeout, expiring, clockThread, clockQuit, clockLock,
                   clockStartStop, failed>>

\* alarmClockStop: enter, tell the thread to quit, join it
ClockStopEnter(c) ==
    /\ clockStartStop = Free
    /\ clockStartStop' = IF clockThread THEN c ELSE Free
    /\ UNCHANGED <<now, listVars, clockVars, clockThread, clockLock, failed>>

ClockStopQuit ==
    /\ clockLock = Free
    /\ clockQuit' = TRUE
    /\ SignalClock
    /\ UNCHANGED <<now, listVars, timeout, expiring, clockThread, clockLock, clockStartStop,
                   failed>>

ClockStopJoin ==
    /\ kpc = "ended"
    /\ kpc' = "none"
    /\ clockThread' = FALSE
    /\ clockStartStop' = Free
    /\ UNCHANGED <<now, listVars, timeout, expiring, clockQuit, clockLock, failed>>

ClockInit ==
    /\ now = 0
    /\ alarms = <<>>
    /\ identifier = 0
    /\ timeout = Forever
    /\ kpc = "none"
    /\ expiring = NoAlarm
    /\ clockThread = FALSE
    /\ clockQuit = FALSE
    /\ clockLock = Free
    /\ clockStartStop = Free
    /\ failed = FALSE
=============================================================================
