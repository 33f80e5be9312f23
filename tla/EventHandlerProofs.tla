------------------------- MODULE EventHandlerProofs -------------------------
(***************************************************************************)
(* Theorems about module EventHandler, for any number of handlers, of the  *)
(* application's threads, of events and of records in a queue:             *)
(*   TimeoutsReachRunning  a handler that runs has one alarm, one that is  *)
(*                         stopped has none;                               *)
(*   RecordsAreOwned       each record of a queue is in one of its lists;  *)
(*   QueueImplementsDeque  the queues implement EventDeque;                *)
(*   HandlerTyped          every variable has its type.                    *)
(*                                                                         *)
(* The alarms, the calls and the lock lockOnStartStop that ties them to    *)
(* the handler's thread each have their part of the first inductive        *)
(* invariant, HandlerInv.  QueuesInv adds the manager's lock, whose depth  *)
(* is what the owner's remaining steps give back (Takes), the handlers'    *)
(* threads, and the two lists each queue is made of (Lists).               *)
(***************************************************************************)
EXTENDS EventHandler, BasicLemmas

-----------------------------------------------------------------------------
(* The alarms *)

AlarmRecord == [id : Nat, context : Handler, expiration : Nat, period : Nat]

\* the clock's thread has an alarm in its hands, and the lock
Busy == kpc \in {"expiring", "enqueued", "expired"}

\* no two alarms have the same handler or the same identifier
Apart(a, b) == a.context # b.context /\ a.id # b.id

\* an alarm has the identifier its handler knows it by
Known(a, ids, last) == a.id = ids[a.context] /\ a.id \in 1..last
KnownAlarm(a) == Known(a, alarmId, identifier)

AlarmsTyped ==
    /\ alarms \in Seq(AlarmRecord)
    /\ identifier \in Nat /\ now \in Nat
    /\ alarmId \in [Handler -> Nat]
    /\ expiring \in AlarmRecord \cup {NoAlarm}

ClockLocked ==
    /\ Busy <=> expiring # NoAlarm
    /\ clockLock = IF Busy THEN Clock ELSE Free
    /\ ~clockThread => kpc = "none"

AlarmsApart ==
    /\ \A i \in 1..Len(alarms) : KnownAlarm(alarms[i])
    /\ \A i, j \in 1..Len(alarms) : i # j => Apart(alarms[i], alarms[j])
    /\ expiring # NoAlarm => /\ KnownAlarm(expiring)
                             /\ \A i \in 1..Len(alarms) : Apart(alarms[i], expiring)

AlarmInv == AlarmsTyped /\ ClockLocked /\ AlarmsApart

\* the handlers that have an alarm, in the list or expiring
WithAlarm == {h \in Handler : \/ \E i \in 1..Len(alarms) : alarms[i].context = h
                              \/ expiring.context = h}

-----------------------------------------------------------------------------
(* The calls *)

Step == {"lock", "unlock", "connect", "disconnect", "free", "enqueueTail", "enqueueHead",
         "notify", "clockStart", "clockStopEnter", "clockStopQuit", "clockStopJoin",
         "startEnter", "startAlarm", "startThread", "stopEnter", "stopLock", "stopAlarm",
         "stopQuit", "stopJoin", "stopClear"}

\* the steps that follow each other in every call
Goes(x, y) ==
    /\ x = "startEnter" <=> y = "startAlarm"
    /\ x = "startAlarm" <=> y = "startThread"
    /\ x = "stopEnter" <=> y = "stopLock"
    /\ x = "stopLock" <=> y = "stopAlarm"
    /\ x = "stopAlarm" <=> y = "stopQuit"
    /\ x = "stopQuit" <=> y = "stopJoin"
    /\ x = "stopJoin" <=> y = "stopClear"
    /\ x = "clockStopEnter" <=> y = "clockStopQuit"
    /\ x = "clockStopQuit" <=> y = "clockStopJoin"

\* the steps taken with handler->lockOnStartStop held
Owning == {"startAlarm", "startThread", "stopLock", "stopAlarm", "stopQuit", "stopJoin",
           "stopClear"}

\* the steps that come after another one, and the steps another one comes after
Inside == Owning \cup {"clockStopQuit", "clockStopJoin"}
Opening == {"startEnter", "startAlarm", "stopEnter", "stopLock", "stopAlarm", "stopQuit",
            "stopJoin", "clockStopEnter", "clockStopQuit"}

Ordered(s) ==
    /\ \A i \in 1..(Len(s) - 1) : Goes(s[i], s[i + 1])
    /\ s # <<>> => s[Len(s)] \notin Opening

\* a call that begins with s is in none of those steps
Outside(s) == s # <<>> => s[1] \notin Inside

CallRecord == [h : Handler \cup {Free}, e : Event \cup {NoEvent}, steps : Seq(Step)]

Owner(call, h) == call.h = h /\ call.steps # <<>> /\ call.steps[1] \in Owning

CallsOK ==
    /\ calls \in [Caller -> CallRecord]
    /\ startStop \in [Handler -> Caller \cup {Free}]
    /\ \A c \in Caller : /\ Ordered(calls[c].steps)
                         /\ calls[c].steps # <<>> => calls[c].h \in Handler
    /\ \A c \in Caller, h \in Handler : startStop[h] = c <=> Owner(calls[c], h)

-----------------------------------------------------------------------------
(* The handler's thread and its alarm *)

\* what holds of a handler while the owner of its lock is at step s: whether it has an alarm,
\* and whether its thread runs
InPhase(has, runs, s) ==
    /\ s = "startAlarm" => ~has /\ ~runs
    /\ s = "startThread" => has /\ ~runs
    /\ s \in {"stopLock", "stopAlarm"} => has
    /\ s \in {"stopQuit", "stopJoin"} => ~has
    /\ s = "stopClear" => ~has /\ ~runs

PhaseOK ==
    /\ thread \in [Handler -> BOOLEAN]
    /\ \A h \in Handler : startStop[h] = Free => (h \in WithAlarm <=> thread[h])
    /\ \A h \in Handler :
          startStop[h] # Free =>
             InPhase(h \in WithAlarm, thread[h], calls[startStop[h]].steps[1])

HandlerInv == AlarmInv /\ CallsOK /\ PhaseOK

-----------------------------------------------------------------------------
(* What happens to the alarms *)

\* the position an alarm is inserted at
LEMMA InsertAlarmProperties ==
    ASSUME NEW s \in Seq(AlarmRecord), NEW a \in AlarmRecord
    PROVE  \E k \in 1..(Len(s) + 1) : /\ InsertAlarm(s, a) \in Seq(AlarmRecord)
                                      /\ IsInsertion(InsertAlarm(s, a), s, k, a)
<1>1. Len(s) \in Nat
  BY LenProperties
<1>2. PICK P : P = {0} \cup {i \in 1..Len(s) : s[i].expiration <= a.expiration}
  OBVIOUS
<1>3. P \in SUBSET Nat /\ P # {} /\ \A y \in P : y <= Len(s)
  BY <1>1, <1>2
<1>4. Max(P) \in P
  BY <1>1, <1>3, MaxProperties
<1>5. PICK m, k : m = Max(P) /\ k = 1 + m
  OBVIOUS
<1>6. k \in 1..(Len(s) + 1)
  <2>1. m \in Nat /\ m <= Len(s)
    BY <1>3, <1>4, <1>5, Zenon
  <2> QED
    BY <1>1, <1>5, <2>1
<1>7. InsertAlarm(s, a) = InsertAt(s, k, a)
  BY <1>2, <1>5 DEF InsertAlarm
<1>8. InsertAt(s, k, a) \in Seq(AlarmRecord) /\ IsInsertion(InsertAt(s, k, a), s, k, a)
  BY <1>6, InsertAtProperties
<1> QED
  BY <1>6, <1>7, <1>8

\* r has the alarms of s and a, all of them apart
Inserted(r, s, a) ==
    /\ r \in Seq(AlarmRecord)
    /\ \A i \in 1..Len(r) : r[i] = a \/ \E j \in 1..Len(s) : r[i] = s[j]
    /\ \A j \in 1..Len(s) : \E i \in 1..Len(r) : r[i] = s[j]
    /\ \E i \in 1..Len(r) : r[i] = a
    /\ \A i, j \in 1..Len(r) : i # j => Apart(r[i], r[j])

Pairwise(s) == \A i, j \in 1..Len(s) : i # j => Apart(s[i], s[j])
AllApart(s, a) == \A i \in 1..Len(s) : Apart(s[i], a)

\* an alarm gets into a list of alarms that are apart from it
LEMMA InsertedApart ==
    ASSUME NEW s \in Seq(AlarmRecord), NEW a \in AlarmRecord,
           Pairwise(s), AllApart(s, a), NEW r, r = InsertAlarm(s, a)
    PROVE  Inserted(r, s, a)
<1> USE DEF Pairwise, AllApart
<1>0. Len(s) \in Nat
  BY LenProperties
<1>2. PICK k \in 1..(Len(s) + 1) : r \in Seq(AlarmRecord) /\ IsInsertion(r, s, k, a)
  BY InsertAlarmProperties
<1>3. /\ Len(r) = Len(s) + 1
      /\ \A j \in 1..(Len(s) + 1) : r[j] = IF j < k THEN s[j] ELSE IF j = k THEN a ELSE s[j - 1]
  BY <1>2 DEF IsInsertion
<1>4. \A i \in 1..Len(r) : r[i] = a \/ \E j \in 1..Len(s) : r[i] = s[j]
  <2> SUFFICES ASSUME NEW i \in 1..Len(r), i # k
               PROVE  \E j \in 1..Len(s) : r[i] = s[j]
    BY <1>0, <1>3
  <2>1. CASE i < k
    BY <1>0, <1>3, <2>1
  <2>2. CASE i > k
    <3>1. i - 1 \in 1..Len(s) /\ r[i] = s[i - 1]
      BY <1>0, <1>3, <2>2
    <3> QED
      BY <3>1
  <2> QED
    BY <1>0, <1>3, <2>1, <2>2
<1>5. \A j \in 1..Len(s) : \E i \in 1..Len(r) : r[i] = s[j]
  <2> TAKE j \in 1..Len(s)
  <2>1. CASE j < k
    BY <1>0, <1>3, <2>1
  <2>2. CASE j >= k
    <3>1. j + 1 \in 1..Len(r) /\ r[j + 1] = s[j]
      BY <1>0, <1>3, <2>2
    <3> QED
      BY <3>1
  <2> QED
    BY <1>0, <2>1, <2>2
<1>6. \E i \in 1..Len(r) : r[i] = a
  BY <1>0, <1>3
<1>7. ASSUME NEW i \in 1..Len(r), NEW j \in 1..Len(r), i < j
      PROVE  Apart(r[i], r[j])
  <2>1. CASE j < k
    BY <1>0, <1>3, <1>7, <2>1
  <2>2. CASE j = k
    BY <1>0, <1>3, <1>7, <2>2
  <2>3. CASE i < k /\ k < j
    <3>1. r[i] = s[i] /\ r[j] = s[j - 1] /\ i # j - 1 /\ i \in 1..Len(s) /\ j - 1 \in 1..Len(s)
      BY <1>0, <1>3, <1>7, <2>3
    <3> QED
      BY <3>1
  <2>4. CASE i = k
    <3>1. r[i] = a /\ r[j] = s[j - 1] /\ j - 1 \in 1..Len(s)
      BY <1>0, <1>3, <1>7, <2>4
    <3> QED
      BY <3>1 DEF Apart
  <2>5. CASE k < i
    <3>1. /\ r[i] = s[i - 1] /\ r[j] = s[j - 1] /\ i - 1 # j - 1
          /\ i - 1 \in 1..Len(s) /\ j - 1 \in 1..Len(s)
      BY <1>0, <1>3, <1>7, <2>5
    <3> QED
      BY <3>1
  <2> QED
    BY <1>0, <1>3, <2>1, <2>2, <2>3, <2>4, <2>5
<1>8. \A i, j \in 1..Len(r) : i # j => Apart(r[i], r[j])
  <2> TAKE i, j \in 1..Len(r)
  <2> HAVE i # j
  <2>1. CASE i < j
    BY <1>7, <2>1
  <2>2. CASE j < i
    BY <1>7, <2>2 DEF Apart
  <2> QED
    BY <1>0, <1>3, <2>1, <2>2
<1> QED
  BY <1>2, <1>4, <1>5, <1>6, <1>8 DEF Inserted

\* the alarm that has expired leaves the list and is in the clock's hands
LEMMA ExpiresAlarm ==
    ASSUME AlarmInv, ClockExpires, alarmId' = alarmId
    PROVE  AlarmInv' /\ WithAlarm' = WithAlarm
<1>0. Len(alarms) \in Nat /\ alarms \in Seq(AlarmRecord)
  BY LenProperties DEF AlarmInv, AlarmsTyped
<1>1. ~Busy /\ expiring = NoAlarm
  BY DEF ClockExpires, AlarmInv, ClockLocked, Busy
<1>2. CASE alarms = <<>>
  <2>1. UNCHANGED <<alarms, expiring, kpc, clockLock, now, identifier, clockThread>>
    BY <1>2 DEF ClockExpires
  <2> QED
    BY <2>1 DEF AlarmInv, AlarmsTyped, ClockLocked, AlarmsApart, WithAlarm, Busy, KnownAlarm, Known
<1>3. CASE alarms # <<>>
  <2>1. /\ Head(alarms) \in AlarmRecord /\ Tail(alarms) \in Seq(AlarmRecord)
        /\ Head(alarms) = alarms[1] /\ Len(alarms) >= 1
        /\ Len(Tail(alarms)) = Len(alarms) - 1
        /\ \A i \in 1..Len(Tail(alarms)) : Tail(alarms)[i] = alarms[i + 1]
    BY <1>0, <1>3, HeadTailProperties, LenProperties
  <2>2. /\ expiring' = Head(alarms) /\ alarms' = Tail(alarms) /\ kpc' = "expiring"
        /\ clockLock' = Clock /\ UNCHANGED <<now, identifier, clockThread>>
    BY <1>3 DEF ClockExpires
  <2>3. clockThread
    BY DEF ClockExpires, AlarmInv, ClockLocked
  <2>4. expiring' # NoAlarm
    BY <2>1, <2>2, HandlerAssumption DEF AlarmRecord, NoAlarm, Alarm
  <2>5. AlarmsTyped'
    BY <2>1, <2>2 DEF AlarmInv, AlarmsTyped
  <2>6. ClockLocked'
    BY <2>2, <2>3, <2>4 DEF ClockLocked, Busy
  <2>7. AlarmsApart'
    <3>1. \A i \in 1..Len(alarms') : alarms'[i] = alarms[i + 1] /\ i + 1 \in 1..Len(alarms)
      BY <1>0, <2>1, <2>2
    <3>2. alarmId' = alarmId /\ identifier' = identifier
      BY <2>2
    <3>3. \A i, j \in 1..Len(alarms) : i # j => Apart(alarms[i], alarms[j])
      BY DEF AlarmInv, AlarmsApart
    <3>4. \A i \in 1..Len(alarms) : Known(alarms[i], alarmId', identifier')
      BY <3>2 DEF AlarmInv, AlarmsApart, KnownAlarm
    <3>5. \A i \in 1..Len(alarms') : Known(alarms'[i], alarmId', identifier')
      BY <3>1, <3>4
    <3>6. \A i, j \in 1..Len(alarms') : i # j => Apart(alarms'[i], alarms'[j])
      BY <1>0, <2>1, <2>2, <3>1, <3>3
    <3>7. Known(expiring', alarmId', identifier')
      BY <1>0, <2>1, <2>2, <3>4
    <3>8. \A i \in 1..Len(alarms') : Apart(alarms'[i], expiring')
      BY <1>0, <2>1, <2>2, <3>1, <3>3
    <3> QED
      BY <3>5, <3>6, <3>7, <3>8 DEF AlarmsApart, KnownAlarm
  <2>8. ASSUME NEW h \in Handler
        PROVE  h \in WithAlarm' <=> h \in WithAlarm
    <3>1. expiring.context # h
      BY <1>1, HandlerAssumption DEF NoAlarm, Alarm
    <3>2. ASSUME NEW i \in 1..Len(alarms), alarms[i].context = h
          PROVE  h \in WithAlarm'
      <4>1. CASE i = 1
        BY <2>1, <2>2, <3>2, <4>1 DEF WithAlarm
      <4>2. CASE i # 1
        <5>1. i - 1 \in 1..Len(alarms') /\ alarms'[i - 1] = alarms[i]
          BY <1>0, <2>1, <2>2, <4>2
        <5> QED
          BY <3>2, <5>1 DEF WithAlarm
      <4> QED
        BY <4>1, <4>2
    <3>3. ASSUME NEW i \in 1..Len(alarms'), alarms'[i].context = h
          PROVE  h \in WithAlarm
      <4>1. i + 1 \in 1..Len(alarms) /\ alarms'[i] = alarms[i + 1]
        BY <1>0, <2>1, <2>2
      <4> QED
        BY <3>3, <4>1 DEF WithAlarm
    <3>4. expiring'.context = h => h \in WithAlarm
      BY <1>0, <2>1, <2>2 DEF WithAlarm
    <3> QED
      BY <3>1, <3>2, <3>3, <3>4 DEF WithAlarm
  <2> QED
    BY <2>5, <2>6, <2>7, <2>8 DEF AlarmInv, WithAlarm
<1> QED
  BY <1>2, <1>3

\* and comes back later under the same identifier
LEMMA ReinsertsAlarm ==
    ASSUME AlarmInv, ClockReinserts, alarmId' = alarmId
    PROVE  AlarmInv' /\ WithAlarm' = WithAlarm
<1>0. alarms \in Seq(AlarmRecord) /\ expiring # NoAlarm /\ expiring \in AlarmRecord
  BY DEF ClockReinserts, AlarmInv, AlarmsTyped, ClockLocked, Busy
<1>1. PICK a : a = [expiring EXCEPT !.expiration = @ + expiring.period]
  OBVIOUS
<1>2. a \in AlarmRecord /\ a.context = expiring.context /\ a.id = expiring.id
  BY <1>0, <1>1 DEF AlarmRecord
<1>3. PICK r : r = InsertAlarm(alarms, a)
  OBVIOUS
<1>4. alarms' = r /\ expiring' = NoAlarm /\ kpc' \in {"ended", "waiting"} /\ clockLock' = Free
      /\ UNCHANGED <<now, identifier, clockThread>>
  BY <1>1, <1>3 DEF ClockReinserts, ClockLoop
<1>5. \A i \in 1..Len(alarms) : Apart(alarms[i], a)
  BY <1>0, <1>2 DEF AlarmInv, AlarmsApart, Apart
<1>6. /\ r \in Seq(AlarmRecord)
      /\ \A i \in 1..Len(r) : r[i] = a \/ \E j \in 1..Len(alarms) : r[i] = alarms[j]
      /\ \A j \in 1..Len(alarms) : \E i \in 1..Len(r) : r[i] = alarms[j]
      /\ \E i \in 1..Len(r) : r[i] = a
      /\ \A i, j \in 1..Len(r) : i # j => Apart(r[i], r[j])
  <2>1. Pairwise(alarms) /\ AllApart(alarms, a)
    BY <1>5 DEF AlarmInv, AlarmsApart, Pairwise, AllApart
  <2>2. alarms \in Seq(AlarmRecord) /\ a \in AlarmRecord
    BY <1>0, <1>2
  <2>3. Inserted(r, alarms, a)
    BY <1>3, <2>1, <2>2, InsertedApart, Zenon
  <2> QED
    BY <2>3 DEF Inserted
<1>7. AlarmsTyped'
  BY <1>4, <1>6 DEF AlarmInv, AlarmsTyped
<1>8. clockThread
  BY DEF ClockReinserts, AlarmInv, ClockLocked
<1>9. ClockLocked'
  BY <1>4, <1>8 DEF ClockLocked, Busy
<1>10. KnownAlarm(a)
  BY <1>0, <1>2 DEF AlarmInv, AlarmsApart, KnownAlarm, Known
<1>11. \A i \in 1..Len(r) : KnownAlarm(r[i])
  BY <1>6, <1>10 DEF AlarmInv, AlarmsApart
<1>12. AlarmsApart'
  BY <1>4, <1>6, <1>11 DEF AlarmsApart, KnownAlarm
<1>13. NoAlarm.context \notin Handler
  BY HandlerAssumption DEF NoAlarm, Alarm
<1>14. ASSUME NEW h \in Handler
       PROVE  h \in WithAlarm' <=> h \in WithAlarm
  BY <1>2, <1>4, <1>6, <1>13 DEF WithAlarm
<1> QED
  BY <1>7, <1>9, <1>12, <1>14 DEF AlarmInv, WithAlarm

\* eventHandlerStart adds an alarm with a new identifier
LEMMA AddsAlarm ==
    ASSUME AlarmInv, NEW h \in Handler, h \notin WithAlarm, AddAlarm(h, now, Period[h]),
           alarmId' = [alarmId EXCEPT ![h] = identifier']
    PROVE  AlarmInv' /\ WithAlarm' = WithAlarm \cup {h}
<1>0. alarms \in Seq(AlarmRecord) /\ identifier \in Nat /\ alarmId \in [Handler -> Nat]
  BY DEF AlarmInv, AlarmsTyped
<1>1. ~Busy /\ expiring = NoAlarm
  BY ClockAssumption DEF AddAlarm, AlarmInv, ClockLocked, Busy
<1>2. PICK a : a = Alarm(identifier + 1, h, now, Period[h])
  OBVIOUS
<1>3. a \in AlarmRecord /\ a.context = h /\ a.id = identifier + 1
  BY <1>0, <1>2, HandlerAssumption DEF Alarm, AlarmRecord, AlarmInv, AlarmsTyped
<1>4. PICK r : r = InsertAlarm(alarms, a)
  OBVIOUS
<1>5. /\ alarms' = r /\ identifier' = identifier + 1
      /\ UNCHANGED <<now, expiring, clockThread, clockLock>>
  BY <1>2, <1>4 DEF AddAlarm
<1>6. kpc' = IF kpc = "waiting" THEN "woken" ELSE kpc
  BY DEF AddAlarm, SignalClock
<1>7. \A i \in 1..Len(alarms) : Apart(alarms[i], a)
  <2> TAKE i \in 1..Len(alarms)
  <2>1. alarms[i].context # h
    BY DEF WithAlarm
  <2>2. alarms[i].id \in 1..identifier
    BY DEF AlarmInv, AlarmsApart, KnownAlarm, Known
  <2> QED
    BY <1>0, <1>3, <2>1, <2>2 DEF Apart
<1>8. /\ r \in Seq(AlarmRecord)
      /\ \A i \in 1..Len(r) : r[i] = a \/ \E j \in 1..Len(alarms) : r[i] = alarms[j]
      /\ \A j \in 1..Len(alarms) : \E i \in 1..Len(r) : r[i] = alarms[j]
      /\ \E i \in 1..Len(r) : r[i] = a
      /\ \A i, j \in 1..Len(r) : i # j => Apart(r[i], r[j])
  <2>1. Pairwise(alarms) /\ AllApart(alarms, a)
    BY <1>7 DEF AlarmInv, AlarmsApart, Pairwise, AllApart
  <2>2. alarms \in Seq(AlarmRecord) /\ a \in AlarmRecord
    BY <1>0, <1>3
  <2>3. Inserted(r, alarms, a)
    BY <1>4, <2>1, <2>2, InsertedApart, Zenon
  <2> QED
    BY <2>3 DEF Inserted
<1>9. AlarmsTyped'
  BY <1>0, <1>1, <1>5, <1>8 DEF AlarmInv, AlarmsTyped
<1>10. ClockLocked'
  <2>1. Busy' <=> Busy
    BY <1>6 DEF Busy
  <2>2. kpc' = "none" <=> kpc = "none"
    BY <1>6
  <2> QED
    BY <1>1, <1>5, <2>1, <2>2 DEF AlarmInv, ClockLocked
<1>11. Known(a, alarmId', identifier')
  BY <1>0, <1>3, <1>5 DEF Known
<1>12. ASSUME NEW j \in 1..Len(alarms)
       PROVE  Known(alarms[j], alarmId', identifier')
  <2>0. alarms[j] \in AlarmRecord
    BY <1>0, ElementOfSeq
  <2>1. alarms[j].context \in Handler /\ alarms[j].context # h
    BY <2>0 DEF WithAlarm, AlarmRecord
  <2>2. alarms[j].id = alarmId[alarms[j].context] /\ alarms[j].id \in 1..identifier
    BY DEF AlarmInv, AlarmsApart, KnownAlarm, Known
  <2> QED
    BY <1>0, <1>5, <2>1, <2>2 DEF Known
<1>13. \A i \in 1..Len(r) : Known(r[i], alarmId', identifier')
  BY <1>8, <1>11, <1>12
<1>14. AlarmsApart'
  BY <1>1, <1>5, <1>8, <1>13 DEF AlarmsApart, KnownAlarm
<1>15. ASSUME NEW g \in Handler
       PROVE  g \in WithAlarm' <=> g \in WithAlarm \/ g = h
  BY <1>3, <1>5, <1>8 DEF WithAlarm
<1> QED
  BY <1>9, <1>10, <1>14, <1>15 DEF AlarmInv, WithAlarm

\* eventHandlerStop removes the alarm of its handler and no other
LEMMA RemovesAlarm ==
    ASSUME AlarmInv, NEW h \in Handler, h \in WithAlarm, RemAlarm(alarmId[h]),
           alarmId' = [alarmId EXCEPT ![h] = 0]
    PROVE  AlarmInv' /\ WithAlarm' = WithAlarm \ {h}
<1>0. /\ alarms \in Seq(AlarmRecord) /\ identifier \in Nat /\ alarmId \in [Handler -> Nat]
      /\ Len(alarms) \in Nat
  BY LenProperties DEF AlarmInv, AlarmsTyped
<1>1. ~Busy /\ expiring = NoAlarm
  BY ClockAssumption DEF RemAlarm, AlarmInv, ClockLocked, Busy
<1>2. NoAlarm.context \notin Handler
  BY HandlerAssumption DEF NoAlarm, Alarm
<1>3. PICK k \in 1..Len(alarms) : alarms[k].context = h
  BY <1>1, <1>2 DEF WithAlarm
<1>4. \A i \in 1..Len(alarms) : i # k => Apart(alarms[i], alarms[k])
  BY DEF AlarmInv, AlarmsApart
<1>5. \A i \in 1..Len(alarms) : /\ alarms[i].id = alarmId[alarms[i].context]
                                /\ alarms[i].id \in 1..identifier
                                /\ alarms[i].context \in Handler
  <2> TAKE i \in 1..Len(alarms)
  <2>1. alarms[i] \in AlarmRecord
    BY <1>0, ElementOfSeq
  <2>2. alarms[i].context \in Handler
    BY <2>1 DEF AlarmRecord
  <2>3. KnownAlarm(alarms[i])
    BY DEF AlarmInv, AlarmsApart
  <2> QED
    BY <2>2, <2>3 DEF KnownAlarm, Known
<1>6. {i \in 1..Len(alarms) : alarms[i].id = alarmId[h]} = {k}
  BY <1>3, <1>4, <1>5 DEF Apart
<1>7. Min({k}) = k
  <2>0. {k} \in SUBSET Nat /\ {k} # {}
    BY <1>0
  <2>1. Min({k}) \in {k}
    BY <2>0, MinProperties
  <2> QED
    BY <2>1
<1>8. PICK r : r = RemoveAt(alarms, k)
  OBVIOUS
<1>9. /\ alarms' = r
      /\ UNCHANGED <<now, identifier, expiring, clockThread, clockLock>>
  <2>1. WithoutAlarm(alarms, alarmId[h]) = r
    BY <1>6, <1>7, <1>8, Zenon DEF WithoutAlarm
  <2> QED
    BY <2>1 DEF RemAlarm
<1>10. kpc' = IF kpc = "waiting" THEN "woken" ELSE kpc
  BY DEF RemAlarm, SignalClock
<1>11. /\ r \in Seq(AlarmRecord) /\ Len(r) = Len(alarms) - 1
       /\ \A j \in 1..(Len(alarms) - 1) : r[j] = IF j < k THEN alarms[j] ELSE alarms[j + 1]
  BY <1>0, <1>8, RemoveAtProperties
<1>12. AlarmsTyped'
  BY <1>0, <1>1, <1>9, <1>11 DEF AlarmInv, AlarmsTyped
<1>13. ClockLocked'
  <2>1. Busy' <=> Busy
    BY <1>10 DEF Busy
  <2>2. kpc' = "none" <=> kpc = "none"
    BY <1>10
  <2> QED
    BY <1>1, <1>9, <2>1, <2>2 DEF AlarmInv, ClockLocked
<1>14. \A i \in 1..Len(r) : \E j \in 1..Len(alarms) : j # k /\ r[i] = alarms[j]
  <2> TAKE i \in 1..Len(r)
  <2>1. CASE i < k
    BY <1>0, <1>11, <2>1
  <2>2. CASE i >= k
    <3>1. i + 1 \in 1..Len(alarms) /\ i + 1 # k /\ r[i] = alarms[i + 1]
      BY <1>0, <1>11, <2>2
    <3> QED
      BY <3>1
  <2> QED
    BY <1>0, <1>11, <2>1, <2>2
<1>15. \A j \in 1..Len(alarms) : j # k => \E i \in 1..Len(r) : r[i] = alarms[j]
  <2> TAKE j \in 1..Len(alarms)
  <2> HAVE j # k
  <2>1. CASE j < k
    BY <1>0, <1>11, <2>1
  <2>2. CASE j > k
    <3>1. j - 1 \in 1..Len(r) /\ r[j - 1] = alarms[j]
      BY <1>0, <1>11, <2>2
    <3> QED
      BY <3>1
  <2> QED
    BY <1>0, <2>1, <2>2
<1>16. \A i, j \in 1..Len(r) : i # j => Apart(r[i], r[j])
  <2> TAKE i, j \in 1..Len(r)
  <2> HAVE i # j
  <2>1. PICK f : f = [n \in 1..Len(r) |-> IF n < k THEN n ELSE n + 1]
    OBVIOUS
  <2>2. /\ r[i] = alarms[f[i]] /\ r[j] = alarms[f[j]] /\ f[i] # f[j]
        /\ f[i] \in 1..Len(alarms) /\ f[j] \in 1..Len(alarms)
    BY <1>0, <1>11, <2>1
  <2>3. \A m, n \in 1..Len(alarms) : m # n => Apart(alarms[m], alarms[n])
    BY DEF AlarmInv, AlarmsApart
  <2> QED
    BY <2>2, <2>3
<1>17. \A i \in 1..Len(r) : Known(r[i], alarmId', identifier')
  <2> TAKE i \in 1..Len(r)
  <2>1. PICK j \in 1..Len(alarms) : j # k /\ r[i] = alarms[j]
    BY <1>14
  <2>2. alarms[j].context # h /\ alarms[j].context \in Handler
    BY <1>3, <1>4, <1>5, <2>1 DEF Apart
  <2> QED
    BY <1>0, <1>5, <1>9, <2>1, <2>2 DEF Known
<1>18. AlarmsApart'
  BY <1>1, <1>9, <1>16, <1>17 DEF AlarmsApart, KnownAlarm
<1>19. ASSUME NEW g \in Handler
       PROVE  g \in WithAlarm' <=> g \in WithAlarm /\ g # h
  <2>1. ASSUME g \in WithAlarm'
        PROVE  g \in WithAlarm /\ g # h
    <3>1. PICK i \in 1..Len(r) : r[i].context = g
      BY <1>1, <1>2, <1>9, <2>1 DEF WithAlarm
    <3>2. PICK j \in 1..Len(alarms) : j # k /\ r[i] = alarms[j]
      BY <1>14
    <3> QED
      BY <1>3, <1>4, <3>1, <3>2 DEF WithAlarm, Apart
  <2>2. ASSUME g \in WithAlarm, g # h
        PROVE  g \in WithAlarm'
    <3>1. PICK j \in 1..Len(alarms) : alarms[j].context = g
      BY <1>1, <1>2, <2>2 DEF WithAlarm
    <3>2. PICK i \in 1..Len(r) : r[i] = alarms[j]
      BY <1>3, <1>15, <2>2, <3>1
    <3> QED
      BY <1>9, <3>1, <3>2 DEF WithAlarm
  <2> QED
    BY <2>1, <2>2
<1> QED
  BY <1>12, <1>13, <1>18, <1>19 DEF AlarmInv, WithAlarm

\* the other steps leave the alarms alone; they move the clock's thread
LEMMA AlarmsKept ==
    ASSUME AlarmInv, UNCHANGED <<alarms, identifier, alarmId, expiring>>, now' \in Nat,
           Busy' <=> Busy, clockLock' = clockLock, ~clockThread' => kpc' = "none"
    PROVE  AlarmInv' /\ WithAlarm' = WithAlarm
<1>1. AlarmsTyped'
  BY DEF AlarmInv, AlarmsTyped
<1>2. ClockLocked'
  BY DEF AlarmInv, ClockLocked
<1>3. AlarmsApart'
  BY DEF AlarmInv, AlarmsApart, KnownAlarm, Known
<1> QED
  BY <1>1, <1>2, <1>3 DEF AlarmInv, WithAlarm

\* a step that does not touch the clock
LEMMA ClockUntouched ==
    ASSUME AlarmInv, UNCHANGED <<clockAll, alarmId>>
    PROVE  AlarmInv' /\ WithAlarm' = WithAlarm
<1>1. UNCHANGED <<alarms, identifier, alarmId, expiring, now, kpc, clockLock, clockThread>>
  BY DEF clockAll, listVars, clockVars
<1>2. (Busy' <=> Busy) /\ now' \in Nat /\ (~clockThread' => kpc' = "none")
  BY <1>1 DEF Busy, AlarmInv, AlarmsTyped, ClockLocked
<1> QED
  BY <1>1, <1>2, AlarmsKept

\* the clock's own steps keep the invariant of the alarms
LEMMA ClockSteps ==
    ASSUME AlarmInv, ClockStep \/ Time
    PROVE  AlarmInv' /\ WithAlarm' = WithAlarm
<1>0. alarmId' = alarmId
  BY DEF ClockStep, Time, ClockBeginsStep, ClockWakesStep, ClockTimesOutStep, ClockExpiresStep,
         ClockReinsertsStep, CallbackEnqueues, CallbackSignals, handlerVars, managerVars
<1>1. ~clockThread => kpc = "none"
  BY DEF AlarmInv, ClockLocked
<1>2. now \in Nat
  BY DEF AlarmInv, AlarmsTyped
<1>3. CASE ClockBegins \/ ClockWakes
  <2>1. UNCHANGED <<alarms, identifier, expiring, clockThread, now>>
    BY <1>3 DEF ClockBegins, ClockWakes, listVars
  <2>2. kpc \in {"started", "woken"} /\ kpc' \in {"ended", "waiting"}
    BY <1>3 DEF ClockBegins, ClockWakes, ClockLoop
  <2>3. clockLock' = clockLock
    BY <1>3 DEF ClockBegins, ClockWakes, ClockLoop
  <2>4. Busy' <=> Busy
    BY <2>2 DEF Busy
  <2>5. ~clockThread' => kpc' = "none"
    BY <1>1, <2>1, <2>2
  <2> QED
    BY <1>0, <1>2, <2>1, <2>3, <2>4, <2>5, AlarmsKept
<1>4. CASE ClockTimesOut
  <2>1. UNCHANGED <<alarms, identifier, expiring, clockThread, now, clockLock>>
    BY <1>4 DEF ClockTimesOut, listVars
  <2>2. (Busy' <=> Busy) /\ (~clockThread' => kpc' = "none")
    BY <1>1, <1>4, <2>1 DEF Busy, ClockTimesOut
  <2> QED
    BY <1>0, <1>2, <2>1, <2>2, AlarmsKept
<1>5. CASE ClockExpires
  BY <1>0, <1>5, ExpiresAlarm
<1>6. CASE ClockReinserts
  BY <1>0, <1>6, ReinsertsAlarm
<1>7. CASE CallbackEnqueues \/ CallbackSignals
  <2>1. UNCHANGED <<alarms, identifier, expiring, clockThread, now, clockLock>>
    BY <1>7 DEF CallbackEnqueues, CallbackSignals, listVars
  <2>2. kpc \in {"expiring", "enqueued"} /\ kpc' \in {"enqueued", "expired"}
    BY <1>7 DEF CallbackEnqueues, CallbackSignals
  <2>3. (Busy' <=> Busy) /\ (~clockThread' => kpc' = "none")
    BY <1>1, <2>1, <2>2 DEF Busy
  <2> QED
    BY <1>0, <1>2, <2>1, <2>3, AlarmsKept
<1>8. CASE Tick
  <2>1. UNCHANGED <<alarms, identifier, expiring, clockThread, kpc, clockLock>> /\ now' \in Nat
    BY <1>2, <1>8 DEF Tick, listVars, clockVars
  <2>2. (Busy' <=> Busy) /\ (~clockThread' => kpc' = "none")
    BY <1>1, <2>1 DEF Busy
  <2> QED
    BY <1>0, <2>1, <2>2, AlarmsKept
<1> QED
  BY <1>3, <1>4, <1>5, <1>6, <1>7, <1>8
  DEF ClockStep, Time, ClockBeginsStep, ClockWakesStep, ClockTimesOutStep, ClockExpiresStep,
      ClockReinsertsStep

\* and so do the starts and stops of the clock
LEMMA ClockCalls ==
    ASSUME AlarmInv, alarmId' = alarmId, NEW c,
           ClockStart \/ ClockStopEnter(c) \/ ClockStopQuit \/ ClockStopJoin
    PROVE  AlarmInv' /\ WithAlarm' = WithAlarm
<1>1. ~clockThread => kpc = "none"
  BY DEF AlarmInv, ClockLocked
<1>2. now \in Nat
  BY DEF AlarmInv, AlarmsTyped
<1>3. UNCHANGED <<alarms, identifier, expiring, now, clockLock>>
  BY DEF ClockStart, ClockStopEnter, ClockStopQuit, ClockStopJoin, listVars, clockVars
<1>4. CASE ClockStart
  <2>1. (Busy' <=> Busy) /\ clockThread'
    BY <1>1, <1>4 DEF ClockStart, Busy
  <2> QED
    BY <1>2, <1>3, <2>1, AlarmsKept
<1>5. CASE ClockStopEnter(c)
  <2>1. (Busy' <=> Busy) /\ (~clockThread' => kpc' = "none")
    BY <1>1, <1>5 DEF ClockStopEnter, clockVars, Busy
  <2> QED
    BY <1>2, <1>3, <2>1, AlarmsKept
<1>6. CASE ClockStopQuit
  <2>1. (Busy' <=> Busy) /\ (~clockThread' => kpc' = "none")
    BY <1>1, <1>6 DEF ClockStopQuit, SignalClock, Busy
  <2> QED
    BY <1>2, <1>3, <2>1, AlarmsKept
<1>7. CASE ClockStopJoin
  <2>1. (Busy' <=> Busy) /\ (~clockThread' => kpc' = "none")
    BY <1>7 DEF ClockStopJoin, Busy
  <2> QED
    BY <1>2, <1>3, <2>1, AlarmsKept
<1> QED
  BY <1>4, <1>5, <1>6, <1>7

-----------------------------------------------------------------------------
(* The steps of a call *)

\* what is left of a call after its first n steps
LEMMA RestOrdered ==
    ASSUME NEW s \in Seq(Step), Ordered(s), NEW n \in 1..Len(s), s[n] \notin Opening
    PROVE  LET r == SubSeq(s, n + 1, Len(s))
           IN  r \in Seq(Step) /\ Ordered(r) /\ Outside(r)
<1>1. PICK r : r = SubSeq(s, n + 1, Len(s))
  OBVIOUS
<1>2. Len(s) \in Nat
  BY LenProperties
<1>3. /\ r \in Seq(Step) /\ Len(r) = Len(s) - n
      /\ \A i \in 1..Len(r) : r[i] = s[n + i]
  BY <1>1, <1>2, SubSeqProperties
<1>4. \A i \in 1..(Len(s) - 1) : Goes(s[i], s[i + 1])
  BY DEF Ordered
<1>5. \A i \in 1..(Len(r) - 1) : Goes(r[i], r[i + 1])
  <2> TAKE i \in 1..(Len(r) - 1)
  <2>1. /\ i \in 1..Len(r) /\ i + 1 \in 1..Len(r) /\ n + (i + 1) = (n + i) + 1
        /\ n + i \in 1..(Len(s) - 1)
    BY <1>2, <1>3
  <2>2. r[i] = s[n + i] /\ r[i + 1] = s[(n + i) + 1]
    BY <1>3, <2>1
  <2> QED
    BY <1>4, <2>1, <2>2
<1>6. ASSUME r # <<>>
      PROVE  r[Len(r)] \notin Opening /\ r[1] \notin Inside
  <2>1. Len(r) \in 1..Len(r)
    BY <1>2, <1>3, <1>6, EmptySeq
  <2>2. r[Len(r)] = s[Len(s)] /\ s # <<>>
    BY <1>2, <1>3, <2>1
  <2>3. r[1] = s[n + 1] /\ n \in 1..(Len(s) - 1)
    BY <1>2, <1>3, <2>1
  <2>4. Goes(s[n], s[n + 1])
    BY <1>4, <2>3
  <2>5. s[n + 1] \notin Inside
    BY <2>4 DEF Goes, Inside, Owning, Opening
  <2> QED
    BY <2>2, <2>3, <2>5 DEF Ordered
<1> QED
  BY <1>1, <1>3, <1>5, <1>6 DEF Ordered, Outside

\* what a step adds goes before it
LEMMA MoreOrdered ==
    ASSUME NEW m \in Seq(Step), Ordered(m), Outside(m),
           NEW r \in Seq(Step), Ordered(r), Outside(r)
    PROVE  m \o r \in Seq(Step) /\ Ordered(m \o r) /\ Outside(m \o r)
<1>1. PICK s : s = m \o r
  OBVIOUS
<1>2. Len(m) \in Nat /\ Len(r) \in Nat
  BY LenProperties
<1>3. /\ s \in Seq(Step) /\ Len(s) = Len(m) + Len(r)
      /\ \A i \in 1..Len(s) : s[i] = IF i <= Len(m) THEN m[i] ELSE r[i - Len(m)]
  BY <1>1, ConcatProperties
<1>4. /\ \A i \in 1..(Len(m) - 1) : Goes(m[i], m[i + 1])
      /\ \A i \in 1..(Len(r) - 1) : Goes(r[i], r[i + 1])
  BY DEF Ordered
<1>5. \A i \in 1..(Len(s) - 1) : Goes(s[i], s[i + 1])
  <2> TAKE i \in 1..(Len(s) - 1)
  <2>1. CASE i < Len(m)
    <3>1. s[i] = m[i] /\ s[i + 1] = m[i + 1] /\ i \in 1..(Len(m) - 1)
      BY <1>2, <1>3, <2>1
    <3> QED
      BY <1>4, <3>1
  <2>2. CASE i = Len(m)
    <3>1. s[i] = m[Len(m)] /\ s[i + 1] = r[1] /\ Len(m) >= 1 /\ Len(r) >= 1
      BY <1>2, <1>3, <2>2
    <3>2. m # <<>> /\ r # <<>>
      BY <3>1
    <3>3. m[Len(m)] \notin Opening /\ r[1] \notin Inside
      BY <3>2 DEF Ordered, Outside
    <3> QED
      BY <3>1, <3>3 DEF Goes, Opening, Inside, Owning
  <2>3. CASE i > Len(m)
    <3>1. /\ s[i] = r[i - Len(m)] /\ s[i + 1] = r[(i - Len(m)) + 1]
          /\ i - Len(m) \in 1..(Len(r) - 1)
      BY <1>2, <1>3, <2>3
    <3> QED
      BY <1>4, <3>1
  <2> QED
    BY <1>2, <1>3, <2>1, <2>2, <2>3
<1>6. ASSUME s # <<>>
      PROVE  s[Len(s)] \notin Opening /\ s[1] \notin Inside
  <2>1. Len(s) \in 1..Len(s)
    BY <1>2, <1>3, <1>6, EmptySeq
  <2>2. s[Len(s)] \notin Opening
    <3>1. CASE r = <<>>
      <4>1. Len(r) = 0
        BY <3>1
      <4>2. s[Len(s)] = m[Len(m)] /\ Len(m) >= 1
        BY <1>2, <1>3, <2>1, <4>1
      <4>3. m # <<>>
        BY <4>2
      <4> QED
        BY <4>2, <4>3 DEF Ordered
    <3>2. CASE r # <<>>
      <4>1. Len(r) >= 1
        BY <1>2, <3>2, EmptySeq
      <4>2. s[Len(s)] = r[Len(r)]
        BY <1>2, <1>3, <2>1, <4>1
      <4> QED
        BY <3>2, <4>2 DEF Ordered
    <3> QED
      BY <3>1, <3>2
  <2>3. s[1] \notin Inside
    <3>1. CASE m = <<>>
      <4>1. Len(m) = 0
        BY <3>1
      <4>2. s[1] = r[1] /\ Len(r) >= 1
        BY <1>2, <1>3, <2>1, <4>1
      <4>3. r # <<>>
        BY <4>2
      <4> QED
        BY <4>2, <4>3 DEF Outside
    <3>2. CASE m # <<>>
      <4>1. Len(m) >= 1
        BY <1>2, <3>2, EmptySeq
      <4>2. s[1] = m[1]
        BY <1>2, <1>3, <2>1, <4>1
      <4> QED
        BY <3>2, <4>2 DEF Outside
    <3> QED
      BY <3>1, <3>2
  <2> QED
    BY <2>2, <2>3
<1> QED
  BY <1>1, <1>3, <1>5, <1>6 DEF Ordered, Outside

\* a step that is followed by another one is not the last
LEMMA InsideFollows ==
    ASSUME NEW s \in Seq(Step), Ordered(s), s # <<>>, s[1] \in Opening
    PROVE  /\ Tail(s) \in Seq(Step) /\ Ordered(Tail(s)) /\ Tail(s) # <<>>
           /\ Goes(s[1], Tail(s)[1])
<1>1. PICK r : r = Tail(s)
  OBVIOUS
<1>2. /\ r \in Seq(Step) /\ Len(s) \in Nat /\ Len(s) >= 1 /\ Len(r) = Len(s) - 1
      /\ \A i \in 1..Len(r) : r[i] = s[i + 1]
  BY <1>1, HeadTailProperties, LenProperties
<1>3. Len(s) # 1
  BY DEF Ordered
<1>4. r # <<>> /\ r[1] = s[2] /\ r[Len(r)] = s[Len(s)]
  BY <1>2, <1>3
<1>5. \A i \in 1..(Len(s) - 1) : Goes(s[i], s[i + 1])
  BY DEF Ordered
<1>6. \A i \in 1..(Len(r) - 1) : Goes(r[i], r[i + 1])
  <2> TAKE i \in 1..(Len(r) - 1)
  <2>1. r[i] = s[i + 1] /\ r[i + 1] = s[(i + 1) + 1] /\ i + 1 \in 1..(Len(s) - 1)
    BY <1>2
  <2> QED
    BY <1>5, <2>1
<1>7. Goes(s[1], s[2])
  BY <1>2, <1>3, <1>5
<1> QED
  BY <1>1, <1>2, <1>4, <1>6, <1>7 DEF Ordered

\* the sequences that calls are made of
LEMMA StopOrdered ==
    LET s == StopSteps
    IN  s \in Seq(Step) /\ Ordered(s) /\ Outside(s)
<1>1. PICK s : s = StopSteps
  OBVIOUS
<1>2. s \in Seq(Step) /\ Len(s) = 6
  BY <1>1 DEF Step, StopSteps
<1>0. s # <<>>
  BY <1>2
<1>3. /\ s[1] = "stopEnter" /\ s[2] = "stopLock" /\ s[3] = "stopAlarm"
      /\ s[4] = "stopQuit" /\ s[5] = "stopJoin" /\ s[6] = "stopClear"
  BY <1>1 DEF StopSteps
<1>4. \A i \in 1..5 : Goes(s[i], s[i + 1])
  <2>1. /\ Goes(s[1], s[2])
        /\ Goes(s[2], s[3])
        /\ Goes(s[3], s[4])
        /\ Goes(s[4], s[5])
        /\ Goes(s[5], s[6])
    BY <1>3 DEF Goes
  <2>2. \A i \in 1..5 : i \in {1, 2, 3, 4, 5}
    OBVIOUS
  <2> QED
    BY <2>1, <2>2
<1> QED
  BY <1>0, <1>1, <1>2, <1>3, <1>4 DEF Ordered, Outside, Opening, Inside, Owning

\* the steps of a start follow each other as they must
LEMMA StartOrdered ==
    LET s == <<"clockStart", "clockStart", "startEnter", "startAlarm", "startThread", "unlock">>
    IN  s \in Seq(Step) /\ Ordered(s) /\ Outside(s)
<1>1. PICK s : s = <<"clockStart", "clockStart", "startEnter", "startAlarm", "startThread", "unlock">>
  OBVIOUS
<1>2. s \in Seq(Step) /\ Len(s) = 6
  BY <1>1 DEF Step
<1>0. s # <<>>
  BY <1>2
<1>3. /\ s[1] = "clockStart" /\ s[2] = "clockStart" /\ s[3] = "startEnter"
      /\ s[4] = "startAlarm" /\ s[5] = "startThread" /\ s[6] = "unlock"
  BY <1>1
<1>4. \A i \in 1..5 : Goes(s[i], s[i + 1])
  <2>1. /\ Goes(s[1], s[2])
        /\ Goes(s[2], s[3])
        /\ Goes(s[3], s[4])
        /\ Goes(s[4], s[5])
        /\ Goes(s[5], s[6])
    BY <1>3 DEF Goes
  <2>2. \A i \in 1..5 : i \in {1, 2, 3, 4, 5}
    OBVIOUS
  <2> QED
    BY <2>1, <2>2
<1> QED
  BY <1>0, <1>1, <1>2, <1>3, <1>4 DEF Ordered, Outside, Opening, Inside, Owning

\* so do the steps of a stop of the clock
LEMMA ClockStopOrdered ==
    LET s == <<"clockStopEnter", "clockStopQuit", "clockStopJoin", "unlock">>
    IN  s \in Seq(Step) /\ Ordered(s) /\ Outside(s)
<1>1. PICK s : s = <<"clockStopEnter", "clockStopQuit", "clockStopJoin", "unlock">>
  OBVIOUS
<1>2. s \in Seq(Step) /\ Len(s) = 4
  BY <1>1 DEF Step
<1>0. s # <<>>
  BY <1>2
<1>3. /\ s[1] = "clockStopEnter" /\ s[2] = "clockStopQuit" /\ s[3] = "clockStopJoin"
      /\ s[4] = "unlock"
  BY <1>1
<1>4. \A i \in 1..3 : Goes(s[i], s[i + 1])
  <2>1. /\ Goes(s[1], s[2])
        /\ Goes(s[2], s[3])
        /\ Goes(s[3], s[4])
    BY <1>3 DEF Goes
  <2>2. \A i \in 1..3 : i \in {1, 2, 3}
    OBVIOUS
  <2> QED
    BY <2>1, <2>2
<1> QED
  BY <1>0, <1>1, <1>2, <1>3, <1>4 DEF Ordered, Outside, Opening, Inside, Owning

Plain == {"lock", "unlock", "connect", "disconnect", "free", "enqueueTail", "enqueueHead", "notify"}

\* and one or two steps that belong to none of these
LEMMA ShortOrdered ==
    ASSUME NEW x \in Plain, NEW y \in Plain
    PROVE  /\ <<x>> \in Seq(Step) /\ Ordered(<<x>>) /\ Outside(<<x>>)
           /\ <<x, y>> \in Seq(Step) /\ Ordered(<<x, y>>) /\ Outside(<<x, y>>)
<1>0. x \in Step /\ y \in Step /\ {x, y} \cap (Opening \cup Inside) = {}
  BY DEF Plain, Step, Opening, Inside, Owning
<1>1. PICK s : s = <<x>>
  OBVIOUS
<1>2. s \in Seq(Step) /\ Len(s) = 1 /\ s[1] = x
  BY <1>0, <1>1
<1>3. Ordered(s) /\ Outside(s)
  BY <1>0, <1>2 DEF Ordered, Outside
<1>4. PICK r : r = <<x, y>>
  OBVIOUS
<1>5. r \in Seq(Step) /\ Len(r) = 2 /\ r[1] = x /\ r[2] = y
  BY <1>0, <1>4
<1>6. Goes(x, y)
  BY <1>0 DEF Goes, Opening, Inside, Owning
<1>7. Ordered(r) /\ Outside(r)
  BY <1>0, <1>5, <1>6 DEF Ordered, Outside
<1> QED
  BY <1>1, <1>2, <1>3, <1>4, <1>5, <1>7

\* what the calls and their steps begin with
LEMMA ProgramsOrdered ==
    /\ StopSteps \in Seq(Step) /\ Ordered(StopSteps) /\ Outside(StopSteps)
    /\ \A op \in Op : Program(op) \in Seq(Step) /\ Ordered(Program(op)) /\ Outside(Program(op))
    /\ \A m \in {<<>>, <<"unlock">>,
                 <<"clockStart", "clockStart", "startEnter", "startAlarm", "startThread", "unlock">>,
                 <<"clockStopEnter", "clockStopQuit", "clockStopJoin", "unlock">> \o StopSteps} :
          m \in Seq(Step) /\ Ordered(m) /\ Outside(m)
<1> DEFINE Fine(s) == s \in Seq(Step) /\ Ordered(s) /\ Outside(s)
<1>1. Fine(<<>>)
  BY DEF Ordered, Outside
<1>2. Fine(<<"unlock">>) /\ Fine(<<"lock">>) /\ Fine(<<"free">>)
  <2>1. "unlock" \in Plain /\ "lock" \in Plain /\ "free" \in Plain
    BY DEF Plain
  <2> QED
    BY <2>1, ShortOrdered
<1>3. Fine(StopSteps)
  BY StopOrdered
<1>4. Fine(ConnectSteps) /\ Fine(DisconnectSteps)
  <2>1. "lock" \in Plain /\ "connect" \in Plain /\ "disconnect" \in Plain
    BY DEF Plain
  <2> QED
    BY <2>1, ShortOrdered DEF ConnectSteps, DisconnectSteps
<1>5. Fine(<<"enqueueTail", "notify">>) /\ Fine(<<"enqueueHead", "notify">>)
  <2>1. "enqueueTail" \in Plain /\ "enqueueHead" \in Plain /\ "notify" \in Plain
    BY DEF Plain
  <2> QED
    BY <2>1, ShortOrdered
<1>6. Fine(<<"clockStart", "clockStart", "startEnter", "startAlarm", "startThread", "unlock">>)
  BY StartOrdered
<1>7. Fine(<<"clockStopEnter", "clockStopQuit", "clockStopJoin", "unlock">>)
  BY ClockStopOrdered
<1>8. \A m, r : Fine(m) /\ Fine(r) => Fine(m \o r)
  BY MoreOrdered
<1> HIDE DEF Fine
<1>9. Fine(<<"clockStopEnter", "clockStopQuit", "clockStopJoin", "unlock">> \o StopSteps)
  BY <1>3, <1>7, <1>8
<1>10. Fine(<<"lock">> \o DisconnectSteps \o StopSteps \o <<"free">>)
  BY <1>2, <1>3, <1>4, <1>8
<1>11. \A op \in Op : Fine(Program(op))
  BY <1>4, <1>5, <1>10 DEF Op, Program
<1> QED
  BY <1>1, <1>2, <1>3, <1>6, <1>9, <1>11 DEF Fine

-----------------------------------------------------------------------------
(* What a step does to the calls and to the handler's phase *)

\* a call that goes on with s; without a step left the thread is idle
LEMMA GoOnProperties ==
    ASSUME CallsOK, NEW c \in Caller, NEW s \in Seq(Step), GoOn(c, s)
    PROVE  /\ calls' \in [Caller -> CallRecord]
           /\ calls'[c].steps = s
           /\ s # <<>> => calls'[c].h = calls[c].h
           /\ s = <<>> => calls'[c].h = Free
           /\ \A d \in Caller : d # c => calls'[d] = calls[d]
<1>1. calls \in [Caller -> CallRecord] /\ calls[c] \in CallRecord
  BY DEF CallsOK
<1>2. PICK r : r = IF s = <<>> THEN Idle ELSE [calls[c] EXCEPT !.steps = s]
  OBVIOUS
<1>3. calls' = [calls EXCEPT ![c] = r]
  BY <1>1, <1>2 DEF GoOn
<1>4. CASE s = <<>>
  <2>1. r = Idle
    BY <1>2, <1>4
  <2>2. r \in CallRecord /\ r.steps = s /\ r.h = Free
    BY <1>4, <2>1 DEF Idle, CallRecord
  <2> QED
    BY <1>1, <1>3, <1>4, <2>2
<1>5. CASE s # <<>>
  <2>1. r = [calls[c] EXCEPT !.steps = s]
    BY <1>2, <1>5
  <2>2. r \in CallRecord /\ r.steps = s /\ r.h = calls[c].h
    BY <1>1, <2>1 DEF CallRecord
  <2> QED
    BY <1>1, <1>3, <1>5, <2>2
<1> QED
  BY <1>4, <1>5

\* the call of c on h moves to s, and the lock of h with it
LEMMA CallsMove ==
    ASSUME CallsOK, NEW c \in Caller, NEW h \in Handler, calls[c].h = h,
           NEW s \in Seq(Step), Ordered(s), GoOn(c, s),
           startStop' \in [Handler -> Caller \cup {Free}],
           \A g \in Handler : g # h => startStop'[g] = startStop[g],
           startStop'[h] = c <=> s # <<>> /\ s[1] \in Owning,
           \A d \in Caller : d # c => (startStop'[h] = d <=> startStop[h] = d)
    PROVE  CallsOK'
<1>1. /\ calls' \in [Caller -> CallRecord]
      /\ calls'[c].steps = s
      /\ s # <<>> => calls'[c].h = h
      /\ s = <<>> => calls'[c].h = Free
      /\ \A d \in Caller : d # c => calls'[d] = calls[d]
  BY GoOnProperties
<1>2. ASSUME NEW d \in Caller
      PROVE  Ordered(calls'[d].steps) /\ (calls'[d].steps # <<>> => calls'[d].h \in Handler)
  <2>1. CASE d = c
    BY <1>1, <2>1
  <2>2. CASE d # c
    BY <1>1, <2>2 DEF CallsOK
  <2> QED
    BY <2>1, <2>2
<1>3. ASSUME NEW d \in Caller, NEW g \in Handler
      PROVE  startStop'[g] = d <=> Owner(calls'[d], g)
  <2>1. startStop[g] = d <=> Owner(calls[d], g)
    BY DEF CallsOK
  <2>2. CASE d # c
    <3>1. startStop'[g] = d <=> startStop[g] = d
      BY <2>2
    <3>2. calls'[d] = calls[d]
      BY <1>1, <2>2
    <3> QED
      BY <2>1, <3>1, <3>2
  <2>3. CASE d = c /\ g = h
    <3>1. Owner(calls'[c], h) <=> s # <<>> /\ s[1] \in Owning
      BY <1>1 DEF Owner
    <3> QED
      BY <2>3, <3>1
  <2>4. CASE d = c /\ g # h
    <3>1. startStop'[g] # c
      BY <2>1, <2>4 DEF Owner
    <3>2. calls'[c].h \in {h, Free}
      BY <1>1
    <3>3. Free \notin Handler
      BY HandlerAssumption
    <3> QED
      BY <2>4, <3>1, <3>2, <3>3 DEF Owner
  <2> QED
    BY <2>2, <2>3, <2>4
<1> QED
  BY <1>1, <1>2, <1>3 DEF CallsOK

\* the other handlers stay in their phase
LEMMA PhaseMove ==
    ASSUME CallsOK, PhaseOK, NEW c \in Caller, NEW h \in Handler, calls[c].h = h,
           \A d \in Caller : d # c => calls'[d] = calls[d],
           startStop' \in [Handler -> Caller \cup {Free}],
           thread' \in [Handler -> BOOLEAN],
           \A g \in Handler : g # h => /\ startStop'[g] = startStop[g]
                                       /\ thread'[g] = thread[g]
                                       /\ g \in WithAlarm' <=> g \in WithAlarm,
           startStop'[h] = Free => (h \in WithAlarm' <=> thread'[h]),
           startStop'[h] # Free =>
              InPhase(h \in WithAlarm', thread'[h], calls'[startStop'[h]].steps[1])
    PROVE  PhaseOK'
<1>1. ASSUME NEW g \in Handler, startStop'[g] = Free
      PROVE  g \in WithAlarm' <=> thread'[g]
  <2>1. CASE g = h
    BY <1>1, <2>1
  <2>2. CASE g # h
    <3>1. startStop[g] = Free
      BY <1>1, <2>2
    <3>2. g \in WithAlarm <=> thread[g]
      BY <3>1 DEF PhaseOK
    <3> QED
      BY <2>2, <3>2
  <2> QED
    BY <2>1, <2>2
<1>2. ASSUME NEW g \in Handler, startStop'[g] # Free
      PROVE  InPhase(g \in WithAlarm', thread'[g], calls'[startStop'[g]].steps[1])
  <2>1. CASE g = h
    BY <1>2, <2>1
  <2>2. CASE g # h
    <3>1. PICK d : d = startStop[g]
      OBVIOUS
    <3>2. d \in Caller /\ startStop'[g] = d /\ d # Free
      BY <1>2, <2>2, <3>1
    <3>3. Owner(calls[d], g)
      BY <3>1, <3>2 DEF CallsOK
    <3>4. d # c
      BY <2>2, <3>3 DEF Owner
    <3>5. InPhase(g \in WithAlarm, thread[g], calls[d].steps[1])
      BY <3>1, <3>2 DEF PhaseOK
    <3>6. /\ calls'[d] = calls[d] /\ thread'[g] = thread[g]
          /\ g \in WithAlarm' <=> g \in WithAlarm
      BY <2>2, <3>2, <3>4
    <3> QED
      BY <3>2, <3>5, <3>6 DEF InPhase
  <2> QED
    BY <2>1, <2>2
<1> QED
  BY <1>1, <1>2 DEF PhaseOK

\* a step of a call that does not hold the lock, and does not take it
LEMMA OuterStep ==
    ASSUME CallsOK, PhaseOK, NEW c \in Caller, calls[c].steps # <<>>,
           calls[c].steps[1] \notin Owning,
           NEW s \in Seq(Step), Ordered(s), s # <<>> => s[1] \notin Owning, GoOn(c, s),
           UNCHANGED <<startStop, thread>>, WithAlarm' = WithAlarm
    PROVE  CallsOK' /\ PhaseOK'
<1>1. PICK h : h = calls[c].h
  OBVIOUS
<1>2. h \in Handler
  BY <1>1 DEF CallsOK
<1>3. startStop[h] # c
  BY <1>1, <1>2 DEF CallsOK, Owner
<1>4. startStop \in [Handler -> Caller \cup {Free}] /\ thread \in [Handler -> BOOLEAN]
  BY DEF CallsOK, PhaseOK
<1>5. CallsOK'
  BY <1>1, <1>2, <1>3, <1>4, CallsMove
<1>6. \A d \in Caller : d # c => calls'[d] = calls[d]
  BY GoOnProperties
<1>7. startStop'[h] = Free => (h \in WithAlarm' <=> thread'[h])
  BY <1>2 DEF PhaseOK
<1>8. ASSUME startStop'[h] # Free
      PROVE  InPhase(h \in WithAlarm', thread'[h], calls'[startStop'[h]].steps[1])
  <2>1. PICK d : d = startStop[h]
    OBVIOUS
  <2>2. d \in Caller /\ d # c /\ startStop'[h] = d
    BY <1>2, <1>3, <1>4, <1>8, <2>1
  <2>3. InPhase(h \in WithAlarm, thread[h], calls[d].steps[1])
    BY <1>2, <1>8, <2>1 DEF PhaseOK
  <2>4. calls'[d] = calls[d]
    BY <1>6, <2>2
  <2> QED
    BY <2>2, <2>3, <2>4
<1>9. PhaseOK'
  <2>1. \A g \in Handler : g # h => /\ startStop'[g] = startStop[g]
                                    /\ thread'[g] = thread[g]
                                    /\ g \in WithAlarm' <=> g \in WithAlarm
    OBVIOUS
  <2>2. startStop' \in [Handler -> Caller \cup {Free}] /\ thread' \in [Handler -> BOOLEAN]
    BY <1>4
  <2> QED
    BY <1>1, <1>2, <1>6, <1>7, <1>8, <2>1, <2>2, PhaseMove
<1> QED
  BY <1>5, <1>9

\* a step of the owner of the lock that keeps it
LEMMA InnerStep ==
    ASSUME CallsOK, PhaseOK, NEW c \in Caller, calls[c].steps # <<>>,
           calls[c].steps[1] \in Owning,
           NEW s \in Seq(Step), Ordered(s), s # <<>>, s[1] \in Owning, GoOn(c, s),
           startStop' = startStop, thread' \in [Handler -> BOOLEAN],
           \A g \in Handler : g # calls[c].h => /\ thread'[g] = thread[g]
                                                /\ g \in WithAlarm' <=> g \in WithAlarm,
           InPhase(calls[c].h \in WithAlarm', thread'[calls[c].h], s[1])
    PROVE  CallsOK' /\ PhaseOK'
<1>1. PICK h : h = calls[c].h
  OBVIOUS
<1>2. h \in Handler
  BY <1>1 DEF CallsOK
<1>3. startStop[h] = c
  BY <1>1, <1>2 DEF CallsOK, Owner
<1>4. startStop' \in [Handler -> Caller \cup {Free}]
  BY DEF CallsOK
<1>5. CallsOK'
  BY <1>1, <1>2, <1>3, <1>4, CallsMove
<1>6. /\ \A d \in Caller : d # c => calls'[d] = calls[d]
      /\ calls'[c].steps = s
  BY GoOnProperties
<1>7. startStop'[h] # Free /\ calls'[startStop'[h]].steps[1] = s[1]
  BY <1>3, <1>6, HandlerAssumption
<1>8. InPhase(h \in WithAlarm', thread'[h], calls'[startStop'[h]].steps[1])
  BY <1>1, <1>7
<1>9. \A g \in Handler : g # h => /\ startStop'[g] = startStop[g]
                                  /\ thread'[g] = thread[g]
                                  /\ g \in WithAlarm' <=> g \in WithAlarm
  BY <1>1
<1>10. PhaseOK'
  BY <1>1, <1>2, <1>4, <1>6, <1>7, <1>8, <1>9, PhaseMove
<1> QED
  BY <1>5, <1>10

\* a step that takes the lock
LEMMA EnterStep ==
    ASSUME CallsOK, PhaseOK, NEW c \in Caller, calls[c].steps # <<>>,
           startStop[calls[c].h] = Free,
           NEW s \in Seq(Step), Ordered(s), s # <<>>, s[1] \in Owning, GoOn(c, s),
           startStop' = [startStop EXCEPT ![calls[c].h] = c], thread' = thread,
           WithAlarm' = WithAlarm,
           InPhase(calls[c].h \in WithAlarm, thread[calls[c].h], s[1])
    PROVE  CallsOK' /\ PhaseOK'
<1>1. PICK h : h = calls[c].h
  OBVIOUS
<1>2. h \in Handler
  BY <1>1 DEF CallsOK
<1>3. startStop \in [Handler -> Caller \cup {Free}] /\ startStop[h] = Free
  BY <1>1 DEF CallsOK
<1>4. /\ startStop' \in [Handler -> Caller \cup {Free}] /\ startStop'[h] = c
      /\ \A g \in Handler : g # h => startStop'[g] = startStop[g]
  BY <1>1, <1>2, <1>3
<1>5. Free \notin Caller
  BY HandlerAssumption
<1>6. \A d \in Caller : d # c => (startStop'[h] = d <=> startStop[h] = d)
  BY <1>3, <1>4, <1>5
<1>7. CallsOK'
  BY <1>1, <1>2, <1>4, <1>6, CallsMove
<1>8. /\ \A d \in Caller : d # c => calls'[d] = calls[d]
      /\ calls'[c].steps = s
  BY GoOnProperties
<1>9. startStop'[h] # Free /\ calls'[startStop'[h]].steps[1] = s[1]
  BY <1>4, <1>5, <1>8
<1>10. InPhase(h \in WithAlarm', thread'[h], calls'[startStop'[h]].steps[1])
  BY <1>1, <1>9
<1>11. thread' \in [Handler -> BOOLEAN]
  BY DEF PhaseOK
<1>12. \A g \in Handler : g # h => /\ startStop'[g] = startStop[g]
                                   /\ thread'[g] = thread[g]
                                   /\ g \in WithAlarm' <=> g \in WithAlarm
  BY <1>4
<1>13. PhaseOK'
  BY <1>1, <1>2, <1>4, <1>8, <1>9, <1>10, <1>11, <1>12, PhaseMove
<1> QED
  BY <1>7, <1>13

\* a step that gives it back
LEMMA LeaveStep ==
    ASSUME CallsOK, PhaseOK, NEW c \in Caller, calls[c].steps # <<>>,
           calls[c].steps[1] \in Owning,
           NEW s \in Seq(Step), Ordered(s), s # <<>> => s[1] \notin Owning, GoOn(c, s),
           startStop' = [startStop EXCEPT ![calls[c].h] = Free],
           thread' \in [Handler -> BOOLEAN], WithAlarm' = WithAlarm,
           \A g \in Handler : g # calls[c].h => thread'[g] = thread[g],
           calls[c].h \in WithAlarm <=> thread'[calls[c].h]
    PROVE  CallsOK' /\ PhaseOK'
<1>1. PICK h : h = calls[c].h
  OBVIOUS
<1>2. h \in Handler
  BY <1>1 DEF CallsOK
<1>3. startStop \in [Handler -> Caller \cup {Free}]
  BY DEF CallsOK
<1>4. startStop[h] = c
  BY <1>1, <1>2 DEF CallsOK, Owner
<1>5. /\ startStop' \in [Handler -> Caller \cup {Free}] /\ startStop'[h] = Free
      /\ \A g \in Handler : g # h => startStop'[g] = startStop[g]
  BY <1>1, <1>2, <1>3
<1>6. Free \notin Caller
  BY HandlerAssumption
<1>7. \A d \in Caller : d # c => (startStop'[h] = d <=> startStop[h] = d)
  BY <1>4, <1>5, <1>6
<1>8. startStop'[h] = c <=> s # <<>> /\ s[1] \in Owning
  BY <1>5, <1>6
<1>9. CallsOK'
  BY <1>1, <1>2, <1>5, <1>7, <1>8, CallsMove
<1>10. \A d \in Caller : d # c => calls'[d] = calls[d]
  BY GoOnProperties
<1>11. \A g \in Handler : g # h => /\ startStop'[g] = startStop[g]
                                   /\ thread'[g] = thread[g]
                                   /\ g \in WithAlarm' <=> g \in WithAlarm
  BY <1>1, <1>5
<1>12. startStop'[h] = Free => (h \in WithAlarm' <=> thread'[h])
  BY <1>1
<1>13. PhaseOK'
  BY <1>1, <1>2, <1>5, <1>10, <1>11, <1>12, PhaseMove
<1> QED
  BY <1>9, <1>13

-----------------------------------------------------------------------------
(* The steps of the application's threads *)

\* the rest of a call after a step that no other has to follow
LEMMA ThenOutside ==
    ASSUME CallsOK, NEW c \in Caller, calls[c].steps # <<>>, calls[c].steps[1] \notin Opening,
           NEW m \in Seq(Step), Ordered(m), Outside(m)
    PROVE  LET s == m \o Tail(calls[c].steps)
           IN  s \in Seq(Step) /\ Ordered(s) /\ (s # <<>> => s[1] \notin Owning)
<1>1. PICK t : t = calls[c].steps
  OBVIOUS
<1>2. t \in Seq(Step) /\ Ordered(t)
  BY <1>1 DEF CallsOK, CallRecord
<1>3. 1 \in 1..Len(t) /\ t[1] \notin Opening
  BY <1>1, <1>2, EmptySeq
<1>4. Tail(t) = SubSeq(t, 1 + 1, Len(t))
  BY <1>1, <1>2, TailIsSubSeq
<1>5. Tail(t) \in Seq(Step) /\ Ordered(Tail(t)) /\ Outside(Tail(t))
  BY <1>2, <1>3, <1>4, RestOrdered
<1>6. PICK s : s = m \o Tail(t)
  OBVIOUS
<1>7. s \in Seq(Step) /\ Ordered(s) /\ Outside(s)
  BY <1>5, <1>6, MoreOrdered, Zenon
<1> QED
  BY <1>1, <1>6, <1>7 DEF Outside, Inside

\* the rest of a call after a step that another one has to follow
LEMMA ThenInside ==
    ASSUME CallsOK, NEW c \in Caller, calls[c].steps # <<>>, calls[c].steps[1] \in Opening
    PROVE  LET s == <<>> \o Tail(calls[c].steps)
           IN  s \in Seq(Step) /\ Ordered(s) /\ s # <<>> /\ Goes(calls[c].steps[1], s[1])
<1>1. PICK t : t = calls[c].steps
  OBVIOUS
<1>2. t \in Seq(Step) /\ Ordered(t)
  BY <1>1 DEF CallsOK, CallRecord
<1>3. /\ Tail(t) \in Seq(Step) /\ Ordered(Tail(t)) /\ Tail(t) # <<>>
      /\ Goes(t[1], Tail(t)[1])
  BY <1>1, <1>2, InsideFollows
<1>4. <<>> \o Tail(t) = Tail(t)
  BY <1>3, ConcatEmptySeq
<1> QED
  BY <1>1, <1>3, <1>4

\* the steps that an early return skips
LEMMA SkippedSteps ==
    ASSUME NEW t \in Seq(Step), Ordered(t), t # <<>>
    PROVE  /\ t[1] = "startEnter" =>
                 3 \in 1..Len(t) /\ t[2] = "startAlarm" /\ t[3] = "startThread"
           /\ t[1] = "clockStopEnter" =>
                 3 \in 1..Len(t) /\ t[2] = "clockStopQuit" /\ t[3] = "clockStopJoin"
           /\ t[1] = "stopEnter" =>
                 /\ 6 \in 1..Len(t) /\ t[2] = "stopLock" /\ t[3] = "stopAlarm"
                 /\ t[4] = "stopQuit" /\ t[5] = "stopJoin" /\ t[6] = "stopClear"
<1>1. Len(t) \in Nat /\ Len(t) >= 1
  BY EmptySeq, LenProperties
<1>2. ASSUME NEW i \in 1..Len(t), t[i] \in Opening
      PROVE  i + 1 \in 1..Len(t) /\ Goes(t[i], t[i + 1])
  <2>1. i # Len(t)
    BY <1>2 DEF Ordered
  <2>2. i \in 1..(Len(t) - 1)
    BY <1>1, <2>1
  <2> QED
    BY <1>1, <2>2 DEF Ordered
<1>3. 1 \in 1..Len(t)
  BY <1>1
<1>4. ASSUME t[1] = "startEnter"
      PROVE  3 \in 1..Len(t) /\ t[2] = "startAlarm" /\ t[3] = "startThread"
  <2>1. 2 \in 1..Len(t) /\ t[2] = "startAlarm"
    BY <1>2, <1>3, <1>4 DEF Goes, Opening
  <2> QED
    BY <1>2, <2>1 DEF Goes, Opening
<1>5. ASSUME t[1] = "clockStopEnter"
      PROVE  3 \in 1..Len(t) /\ t[2] = "clockStopQuit" /\ t[3] = "clockStopJoin"
  <2>1. 2 \in 1..Len(t) /\ t[2] = "clockStopQuit"
    BY <1>2, <1>3, <1>5 DEF Goes, Opening
  <2> QED
    BY <1>2, <2>1 DEF Goes, Opening
<1>6. ASSUME t[1] = "stopEnter"
      PROVE  /\ 6 \in 1..Len(t) /\ t[2] = "stopLock" /\ t[3] = "stopAlarm"
             /\ t[4] = "stopQuit" /\ t[5] = "stopJoin" /\ t[6] = "stopClear"
  <2>1. 2 \in 1..Len(t) /\ t[2] = "stopLock"
    BY <1>2, <1>3, <1>6 DEF Goes, Opening
  <2>2. 3 \in 1..Len(t) /\ t[3] = "stopAlarm"
    BY <1>2, <2>1 DEF Goes, Opening
  <2>3. 4 \in 1..Len(t) /\ t[4] = "stopQuit"
    BY <1>2, <2>2 DEF Goes, Opening
  <2>4. 5 \in 1..Len(t) /\ t[5] = "stopJoin"
    BY <1>2, <2>3 DEF Goes, Opening
  <2>5. 6 \in 1..Len(t) /\ t[6] = "stopClear"
    BY <1>2, <2>4 DEF Goes, Opening
  <2> QED
    BY <2>1, <2>2, <2>3, <2>4, <2>5
<1> QED
  BY <1>4, <1>5, <1>6

\* an early return skips steps that follow each other
LEMMA SkipOutside ==
    ASSUME CallsOK, NEW c \in Caller, NEW n \in Nat, calls[c].steps # <<>>,
           \/ calls[c].steps[1] = "startEnter" /\ n = 3
           \/ calls[c].steps[1] = "clockStopEnter" /\ n = 3
           \/ calls[c].steps[1] = "stopEnter" /\ n = 6
    PROVE  LET s == SubSeq(calls[c].steps, n + 1, Len(calls[c].steps))
           IN  s \in Seq(Step) /\ Ordered(s) /\ (s # <<>> => s[1] \notin Owning)
<1>1. PICK t : t = calls[c].steps
  OBVIOUS
<1>2. t \in Seq(Step) /\ Ordered(t) /\ t # <<>>
  BY <1>1 DEF CallsOK, CallRecord
<1>3. n \in 1..Len(t) /\ t[n] \notin Opening
  <2>1. CASE t[1] = "startEnter" /\ n = 3
    <3>1. 3 \in 1..Len(t) /\ t[3] = "startThread"
      BY <1>2, <2>1, SkippedSteps
    <3> QED
      BY <2>1, <3>1 DEF Opening
  <2>2. CASE t[1] = "clockStopEnter" /\ n = 3
    <3>1. 3 \in 1..Len(t) /\ t[3] = "clockStopJoin"
      BY <1>2, <2>2, SkippedSteps
    <3> QED
      BY <2>2, <3>1 DEF Opening
  <2>3. CASE t[1] = "stopEnter" /\ n = 6
    <3>1. 6 \in 1..Len(t) /\ t[6] = "stopClear"
      BY <1>2, <2>3, SkippedSteps
    <3> QED
      BY <2>3, <3>1 DEF Opening
  <2> QED
    BY <1>1, <2>1, <2>2, <2>3
<1>4. PICK s : s = SubSeq(t, n + 1, Len(t))
  OBVIOUS
<1>5. s \in Seq(Step) /\ Ordered(s) /\ Outside(s)
  BY <1>2, <1>3, <1>4, RestOrdered
<1> QED
  BY <1>1, <1>4, <1>5 DEF Outside, Inside

\* a step after which the call goes on with m, outside of the lock
LEMMA OuterThen ==
    ASSUME CallsOK, PhaseOK, NEW c \in Caller, calls[c].steps # <<>>,
           calls[c].steps[1] \notin Opening \cup Owning,
           NEW m \in Seq(Step), Ordered(m), Outside(m), Then(c, m),
           UNCHANGED <<startStop, thread>>, WithAlarm' = WithAlarm
    PROVE  CallsOK' /\ PhaseOK'
<1>1. PICK s : s = m \o Tail(calls[c].steps)
  OBVIOUS
<1>2. s \in Seq(Step) /\ Ordered(s) /\ (s # <<>> => s[1] \notin Owning)
  BY <1>1, ThenOutside
<1>3. GoOn(c, s)
  BY <1>1 DEF Then
<1> QED
  BY <1>2, <1>3, OuterStep

\* the steps that are not part of starting or stopping a handler or the clock
LEMMA PlainSteps ==
    ASSUME HandlerInv, NEW c \in Caller,
           \/ LockStep(c) /\ At(c, "lock")
           \/ UnlockStep(c) \/ ConnectStep(c) \/ DisconnectStep(c)
           \/ FreeStep(c) \/ EnqueueStep(c) \/ NotifyStep(c)
    PROVE  HandlerInv'
<1>1. PICK x \in Plain : calls[c].steps # <<>> /\ calls[c].steps[1] = x
  BY DEF At, Plain, UnlockStep, ConnectStep, DisconnectStep, FreeStep, EnqueueStep, NotifyStep
<1>2. calls[c].steps[1] \notin Opening \cup Owning
  BY <1>1 DEF Plain, Opening, Owning
<1>3. PICK m : /\ m \in Seq(Step) /\ Ordered(m) /\ Outside(m)
               /\ Then(c, m)
  <2>1. CASE LockStep(c) \/ UnlockStep(c) \/ FreeStep(c) \/ EnqueueStep(c) \/ NotifyStep(c)
    <3>1. Then(c, <<>>)
      BY <2>1 DEF LockStep, UnlockStep, FreeStep, EnqueueStep, NotifyStep
    <3> QED
      BY <3>1, ProgramsOrdered, Zenon
  <2>2. CASE ConnectStep(c)
    <3>1. \/ Then(c, <<"unlock">>)
          \/ Then(c, <<"clockStart", "clockStart", "startEnter", "startAlarm", "startThread",
                       "unlock">>)
      BY <2>2 DEF ConnectStep
    <3> QED
      BY <3>1, ProgramsOrdered, Zenon
  <2>3. CASE DisconnectStep(c)
    <3>1. \/ Then(c, <<"unlock">>)
          \/ Then(c, <<"clockStopEnter", "clockStopQuit", "clockStopJoin", "unlock">>
                     \o StopSteps)
      BY <2>3 DEF DisconnectStep
    <3> QED
      BY <3>1, ProgramsOrdered, Zenon
  <2> QED
    BY <2>1, <2>2, <2>3
<1>4. UNCHANGED <<clockAll, alarmId, startStop, thread>>
  BY DEF LockStep, UnlockStep, ConnectStep, DisconnectStep, FreeStep, EnqueueStep, NotifyStep,
         threadVars, managerVars
<1>5. AlarmInv' /\ WithAlarm' = WithAlarm
  BY <1>4, ClockUntouched DEF HandlerInv
<1>6. CallsOK' /\ PhaseOK'
  BY <1>1, <1>2, <1>3, <1>4, <1>5, OuterThen DEF HandlerInv
<1> QED
  BY <1>5, <1>6 DEF HandlerInv

\* alarmClockStart and alarmClockStop
LEMMA ClockCallSteps ==
    ASSUME HandlerInv, NEW c \in Caller,
           \/ ClockStartStep(c) \/ ClockStopEnterStep(c) \/ ClockStopQuitStep(c)
           \/ ClockStopJoinStep(c)
    PROVE  HandlerInv'
<1>1. UNCHANGED <<alarmId, startStop, thread>>
  BY DEF ClockStartStep, ClockStopEnterStep, ClockStopQuitStep, ClockStopJoinStep, threadVars,
         managerVars
<1>2. AlarmInv' /\ WithAlarm' = WithAlarm
  BY <1>1, ClockCalls
  DEF HandlerInv, ClockStartStep, ClockStopEnterStep, ClockStopQuitStep, ClockStopJoinStep
<1>3. CASE ClockStartStep(c) \/ ClockStopJoinStep(c)
  <2>1. /\ calls[c].steps # <<>> /\ calls[c].steps[1] \in {"clockStart", "clockStopJoin"}
        /\ Then(c, <<>>)
    BY <1>3 DEF ClockStartStep, ClockStopJoinStep, At
  <2>2. calls[c].steps[1] \notin Opening \cup Owning
    BY <2>1 DEF Opening, Owning
  <2>3. <<>> \in Seq(Step) /\ Ordered(<<>>) /\ Outside(<<>>)
    BY ProgramsOrdered, Zenon
  <2>4. CallsOK' /\ PhaseOK'
    BY <1>1, <1>2, <2>1, <2>2, <2>3, OuterThen DEF HandlerInv
  <2> QED
    BY <1>2, <2>4 DEF HandlerInv
<1>4. CASE ClockStopEnterStep(c) \/ ClockStopQuitStep(c)
  <2>1. calls[c].steps # <<>> /\ calls[c].steps[1] \in {"clockStopEnter", "clockStopQuit"}
    BY <1>4 DEF ClockStopEnterStep, ClockStopQuitStep, At
  <2>2. calls[c].steps[1] \in Opening /\ calls[c].steps[1] \notin Owning
    BY <2>1 DEF Opening, Owning
  <2>3. \/ Then(c, <<>>)
        \/ Skip(c, 3) /\ calls[c].steps[1] = "clockStopEnter"
    BY <1>4 DEF ClockStopEnterStep, ClockStopQuitStep, At
  <2>4. PICK s \in Seq(Step) : Ordered(s) /\ (s # <<>> => s[1] \notin Owning) /\ GoOn(c, s)
    <3>1. CASE Then(c, <<>>)
      <4>1. PICK s : s = <<>> \o Tail(calls[c].steps)
        OBVIOUS
      <4>2. s \in Seq(Step) /\ Ordered(s) /\ Goes(calls[c].steps[1], s[1])
        BY <2>1, <2>2, <4>1, ThenInside DEF HandlerInv
      <4>3. s[1] \notin Owning
        BY <2>1, <4>2 DEF Goes, Owning
      <4> QED
        BY <3>1, <4>1, <4>2, <4>3 DEF Then
    <3>2. CASE Skip(c, 3) /\ calls[c].steps[1] = "clockStopEnter"
      <4>1. PICK s : s = SubSeq(calls[c].steps, 3 + 1, Len(calls[c].steps))
        OBVIOUS
      <4>2. s \in Seq(Step) /\ Ordered(s) /\ (s # <<>> => s[1] \notin Owning)
        BY <2>1, <3>2, <4>1, SkipOutside DEF HandlerInv
      <4> QED
        BY <3>2, <4>1, <4>2 DEF Skip
    <3> QED
      BY <2>3, <3>1, <3>2
  <2>5. CallsOK' /\ PhaseOK'
    BY <1>1, <1>2, <2>1, <2>2, <2>4, OuterStep DEF HandlerInv
  <2> QED
    BY <1>2, <2>5 DEF HandlerInv
<1> QED
  BY <1>3, <1>4

\* the beginnings of eventHandlerStart and eventHandlerStop
LEMMA EnterSteps ==
    ASSUME HandlerInv, NEW c \in Caller, StartEnterStep(c) \/ StopEnterStep(c)
    PROVE  HandlerInv'
<1>0. AlarmInv /\ CallsOK /\ PhaseOK
  BY DEF HandlerInv
<1>1. PICK h : h = calls[c].h
  OBVIOUS
<1>2. /\ calls[c].steps # <<>> /\ calls[c].steps[1] \in {"startEnter", "stopEnter"}
      /\ startStop[h] = Free
      /\ UNCHANGED <<clockAll, alarmId, thread>>
  BY <1>1 DEF StartEnterStep, StopEnterStep, At, threadVars, managerVars
<1>3. h \in Handler
  BY <1>0, <1>1, <1>2 DEF CallsOK
<1>4. h \in WithAlarm <=> thread[h]
  BY <1>0, <1>2, <1>3 DEF PhaseOK
<1>5. calls[c].steps[1] \in Opening /\ calls[c].steps[1] \notin Owning
  BY <1>2 DEF Opening, Owning
<1>6. AlarmInv' /\ WithAlarm' = WithAlarm
  BY <1>0, <1>2, ClockUntouched
<1>7. \/ /\ Then(c, <<>>) /\ startStop' = [startStop EXCEPT ![h] = c]
         /\ calls[c].steps[1] = "startEnter" => ~thread[h]
         /\ calls[c].steps[1] = "stopEnter" => thread[h]
      \/ /\ startStop' = startStop
         /\ \/ Skip(c, 3) /\ calls[c].steps[1] = "startEnter"
            \/ Skip(c, 6) /\ calls[c].steps[1] = "stopEnter"
  <2>1. CASE StartEnterStep(c)
    <3>1. /\ calls[c].steps[1] = "startEnter"
          /\ IF thread[h] THEN Skip(c, 3) /\ UNCHANGED startStop
             ELSE Then(c, <<>>) /\ startStop' = [startStop EXCEPT ![h] = c]
      BY <1>1, <2>1 DEF StartEnterStep, At
    <3> QED
      BY <3>1
  <2>2. CASE StopEnterStep(c)
    <3>0. Len(StopSteps) = 6
      BY DEF StopSteps
    <3>1. /\ calls[c].steps[1] = "stopEnter"
          /\ IF thread[h] THEN Then(c, <<>>) /\ startStop' = [startStop EXCEPT ![h] = c]
             ELSE Skip(c, 6) /\ UNCHANGED startStop
      BY <1>1, <2>2, <3>0 DEF StopEnterStep, At
    <3> QED
      BY <3>1
  <2> QED
    BY <2>1, <2>2
<1>8. CASE /\ Then(c, <<>>) /\ startStop' = [startStop EXCEPT ![h] = c]
           /\ calls[c].steps[1] = "startEnter" => ~thread[h]
           /\ calls[c].steps[1] = "stopEnter" => thread[h]
  <2>1. PICK s : s = <<>> \o Tail(calls[c].steps)
    OBVIOUS
  <2>2. s \in Seq(Step) /\ Ordered(s) /\ s # <<>> /\ Goes(calls[c].steps[1], s[1])
    BY <1>0, <1>2, <1>5, <2>1, ThenInside
  <2>3. GoOn(c, s)
    BY <1>8, <2>1 DEF Then
  <2>4. /\ s[1] \in {"startAlarm", "stopLock"}
        /\ s[1] = "startAlarm" => ~thread[h]
        /\ s[1] = "stopLock" => thread[h]
    BY <1>2, <1>8, <2>2 DEF Goes
  <2>5. s[1] \in Owning
    BY <2>4 DEF Owning
  <2>6. InPhase(h \in WithAlarm, thread[h], s[1])
    BY <1>4, <2>4 DEF InPhase
  <2>7. CallsOK' /\ PhaseOK'
    BY <1>0, <1>1, <1>2, <1>6, <1>8, <2>2, <2>3, <2>5, <2>6, EnterStep
  <2> QED
    BY <1>6, <2>7 DEF HandlerInv
<1>9. CASE /\ startStop' = startStop
           /\ \/ Skip(c, 3) /\ calls[c].steps[1] = "startEnter"
              \/ Skip(c, 6) /\ calls[c].steps[1] = "stopEnter"
  <2>1. PICK n \in Nat : /\ Skip(c, n)
                         /\ \/ calls[c].steps[1] = "startEnter" /\ n = 3
                            \/ calls[c].steps[1] = "stopEnter" /\ n = 6
    BY <1>9
  <2>2. PICK s : s = SubSeq(calls[c].steps, n + 1, Len(calls[c].steps))
    OBVIOUS
  <2>3. s \in Seq(Step) /\ Ordered(s) /\ (s # <<>> => s[1] \notin Owning)
    BY <1>0, <1>2, <2>1, <2>2, SkipOutside
  <2>4. GoOn(c, s)
    BY <2>1, <2>2 DEF Skip
  <2>5. CallsOK' /\ PhaseOK'
    BY <1>0, <1>2, <1>5, <1>6, <1>9, <2>3, <2>4, OuterStep
  <2> QED
    BY <1>6, <2>5 DEF HandlerInv
<1> QED
  BY <1>7, <1>8, <1>9

\* the phase of the handler whose lock the call c holds
LEMMA OwnPhase ==
    ASSUME CallsOK, PhaseOK, NEW c \in Caller, calls[c].steps # <<>>,
           calls[c].steps[1] \in Owning
    PROVE  /\ calls[c].h \in Handler /\ startStop[calls[c].h] = c
           /\ InPhase(calls[c].h \in WithAlarm, thread[calls[c].h], calls[c].steps[1])
<1>1. PICK h : h = calls[c].h
  OBVIOUS
<1>2. h \in Handler
  BY <1>1 DEF CallsOK
<1>3. startStop[h] = c
  BY <1>1, <1>2 DEF CallsOK, Owner
<1>4. c # Free
  BY HandlerAssumption
<1>5. InPhase(h \in WithAlarm, thread[h], calls[startStop[h]].steps[1])
  BY <1>2, <1>3, <1>4 DEF PhaseOK
<1> QED
  BY <1>1, <1>2, <1>3, <1>5

\* the steps of eventHandlerStart and eventHandlerStop between their ends
LEMMA OwningSteps ==
    ASSUME HandlerInv, NEW c \in Caller,
           \/ LockStep(c) /\ At(c, "stopLock")
           \/ StartAlarmStep(c) \/ StopAlarmStep(c) \/ StopQuitStep(c) \/ StopJoinStep(c)
    PROVE  HandlerInv'
<1>0. AlarmInv /\ CallsOK /\ PhaseOK
  BY DEF HandlerInv
<1>1. PICK h, x : h = calls[c].h /\ x = calls[c].steps[1]
  OBVIOUS
<1>2. /\ calls[c].steps # <<>>
      /\ x \in {"stopLock", "startAlarm", "stopAlarm", "stopQuit", "stopJoin"}
      /\ startStop' = startStop /\ Then(c, <<>>)
  BY <1>1
  DEF LockStep, StartAlarmStep, StopAlarmStep, StopQuitStep, StopJoinStep, At
<1>3. x \in Opening /\ x \in Owning
  BY <1>2 DEF Opening, Owning
<1>4. h \in Handler /\ InPhase(h \in WithAlarm, thread[h], x)
  BY <1>0, <1>1, <1>2, <1>3, OwnPhase
<1>5. PICK s : s = <<>> \o Tail(calls[c].steps)
  OBVIOUS
<1>6. s \in Seq(Step) /\ Ordered(s) /\ s # <<>> /\ Goes(x, s[1])
  BY <1>0, <1>1, <1>2, <1>3, <1>5, ThenInside
<1>7. GoOn(c, s)
  BY <1>2, <1>5 DEF Then
<1>8. s[1] \in Owning
  BY <1>2, <1>6 DEF Goes, Owning
<1>9. /\ AlarmInv' /\ thread' \in [Handler -> BOOLEAN]
      /\ \A g \in Handler : g # h => /\ thread'[g] = thread[g]
                                     /\ g \in WithAlarm' <=> g \in WithAlarm
      /\ InPhase(h \in WithAlarm', thread'[h], s[1])
  <2>0. thread \in [Handler -> BOOLEAN]
    BY <1>0 DEF PhaseOK
  <2>1. CASE LockStep(c) /\ At(c, "stopLock")
    <3>1. x = "stopLock" /\ UNCHANGED <<clockAll, alarmId, thread>>
      BY <1>1, <2>1 DEF LockStep, At, threadVars, managerVars
    <3>2. AlarmInv' /\ WithAlarm' = WithAlarm
      BY <1>0, <3>1, ClockUntouched
    <3>3. s[1] = "stopAlarm" /\ h \in WithAlarm
      BY <1>4, <1>6, <3>1 DEF Goes, InPhase
    <3>4. InPhase(h \in WithAlarm', thread'[h], s[1])
      BY <3>2, <3>3 DEF InPhase
    <3> QED
      BY <2>0, <3>1, <3>2, <3>4
  <2>2. CASE StartAlarmStep(c)
    <3>1. /\ x = "startAlarm" /\ thread' = thread
          /\ AddAlarm(h, now, Period[h]) /\ alarmId' = [alarmId EXCEPT ![h] = identifier']
      BY <1>1, <2>2 DEF StartAlarmStep, At, threadVars
    <3>2. h \notin WithAlarm /\ ~thread[h]
      BY <1>4, <3>1 DEF InPhase
    <3>3. AlarmInv' /\ WithAlarm' = WithAlarm \cup {h}
      BY <1>0, <1>4, <3>1, <3>2, AddsAlarm
    <3>4. s[1] = "startThread"
      BY <1>6, <3>1 DEF Goes
    <3>5. InPhase(h \in WithAlarm', thread'[h], s[1])
      BY <3>1, <3>2, <3>3, <3>4 DEF InPhase
    <3> QED
      BY <2>0, <3>1, <3>3, <3>5
  <2>3. CASE StopAlarmStep(c)
    <3>1. /\ x = "stopAlarm" /\ thread' = thread
          /\ RemAlarm(alarmId[h]) /\ alarmId' = [alarmId EXCEPT ![h] = 0]
      BY <1>1, <2>3 DEF StopAlarmStep, At, threadVars
    <3>2. h \in WithAlarm
      BY <1>4, <3>1 DEF InPhase
    <3>3. AlarmInv' /\ WithAlarm' = WithAlarm \ {h}
      BY <1>0, <1>4, <3>1, <3>2, RemovesAlarm
    <3>4. s[1] = "stopQuit"
      BY <1>6, <3>1 DEF Goes
    <3>5. InPhase(h \in WithAlarm', thread'[h], s[1])
      BY <3>3, <3>4 DEF InPhase
    <3> QED
      BY <2>0, <3>1, <3>3, <3>5
  <2>4. CASE StopQuitStep(c)
    <3>1. x = "stopQuit" /\ UNCHANGED <<clockAll, alarmId, thread>>
      BY <1>1, <2>4 DEF StopQuitStep, At, managerVars
    <3>2. AlarmInv' /\ WithAlarm' = WithAlarm
      BY <1>0, <3>1, ClockUntouched
    <3>3. s[1] = "stopJoin" /\ h \notin WithAlarm
      BY <1>4, <1>6, <3>1 DEF Goes, InPhase
    <3>4. InPhase(h \in WithAlarm', thread'[h], s[1])
      BY <3>2, <3>3 DEF InPhase
    <3> QED
      BY <2>0, <3>1, <3>2, <3>4
  <2>5. CASE StopJoinStep(c)
    <3>1. /\ x = "stopJoin" /\ UNCHANGED <<clockAll, alarmId>>
          /\ thread' = [thread EXCEPT ![h] = FALSE]
      BY <1>1, <2>5 DEF StopJoinStep, At, managerVars
    <3>2. AlarmInv' /\ WithAlarm' = WithAlarm
      BY <1>0, <3>1, ClockUntouched
    <3>3. s[1] = "stopClear" /\ h \notin WithAlarm
      BY <1>4, <1>6, <3>1 DEF Goes, InPhase
    <3>4. /\ thread' \in [Handler -> BOOLEAN] /\ ~thread'[h]
          /\ \A g \in Handler : g # h => thread'[g] = thread[g]
      BY <1>4, <2>0, <3>1
    <3>5. InPhase(h \in WithAlarm', thread'[h], s[1])
      BY <3>2, <3>3, <3>4 DEF InPhase
    <3> QED
      BY <3>2, <3>4, <3>5
  <2> QED
    BY <2>1, <2>2, <2>3, <2>4, <2>5
<1>10. CallsOK' /\ PhaseOK'
  BY <1>0, <1>1, <1>2, <1>3, <1>6, <1>7, <1>8, <1>9, InnerStep
<1> QED
  BY <1>9, <1>10 DEF HandlerInv

\* their ends
LEMMA LeaveSteps ==
    ASSUME HandlerInv, NEW c \in Caller, StartThreadStep(c) \/ StopClearStep(c)
    PROVE  HandlerInv'
<1>0. AlarmInv /\ CallsOK /\ PhaseOK
  BY DEF HandlerInv
<1>1. PICK h, x : h = calls[c].h /\ x = calls[c].steps[1]
  OBVIOUS
<1>2. /\ calls[c].steps # <<>> /\ x \in {"startThread", "stopClear"}
      /\ startStop' = [startStop EXCEPT ![h] = Free] /\ Then(c, <<>>)
      /\ UNCHANGED <<clockAll, alarmId>>
  BY <1>1 DEF StartThreadStep, StopClearStep, At, managerVars
<1>3. x \notin Opening /\ x \in Owning
  BY <1>2 DEF Opening, Owning
<1>4. h \in Handler /\ InPhase(h \in WithAlarm, thread[h], x)
  BY <1>0, <1>1, <1>2, <1>3, OwnPhase
<1>5. AlarmInv' /\ WithAlarm' = WithAlarm
  BY <1>0, <1>2, ClockUntouched
<1>6. PICK s : s = <<>> \o Tail(calls[c].steps)
  OBVIOUS
<1>7. <<>> \in Seq(Step) /\ Ordered(<<>>) /\ Outside(<<>>)
  BY ProgramsOrdered, Zenon
<1>8. s \in Seq(Step) /\ Ordered(s) /\ (s # <<>> => s[1] \notin Owning)
  BY <1>0, <1>1, <1>2, <1>3, <1>6, <1>7, ThenOutside
<1>9. GoOn(c, s)
  BY <1>2, <1>6 DEF Then
<1>10. thread \in [Handler -> BOOLEAN]
  BY <1>0 DEF PhaseOK
<1>11. /\ thread' \in [Handler -> BOOLEAN]
       /\ \A g \in Handler : g # h => thread'[g] = thread[g]
       /\ h \in WithAlarm <=> thread'[h]
  <2>1. CASE StartThreadStep(c)
    <3>1. x = "startThread" /\ thread' = [thread EXCEPT ![h] = TRUE]
      BY <1>1, <2>1 DEF StartThreadStep, At
    <3>2. h \in WithAlarm
      BY <1>4, <3>1 DEF InPhase
    <3> QED
      BY <1>4, <1>10, <3>1, <3>2
  <2>2. CASE StopClearStep(c)
    <3>1. x = "stopClear" /\ thread' = thread
      BY <1>1, <2>2 DEF StopClearStep, At, threadVars
    <3>2. h \notin WithAlarm /\ ~thread[h]
      BY <1>4, <3>1 DEF InPhase
    <3> QED
      BY <1>10, <3>1, <3>2
  <2> QED
    BY <2>1, <2>2
<1>12. CallsOK' /\ PhaseOK'
  BY <1>0, <1>1, <1>2, <1>3, <1>5, <1>8, <1>9, <1>11, LeaveStep
<1> QED
  BY <1>5, <1>12 DEF HandlerInv

\* a new call begins outside of the lock
LEMMA InvokeStep ==
    ASSUME HandlerInv, NEW c \in Caller, NEW h \in Handler, NEW op \in Op,
           NEW e \in Event \cup {NoEvent}, Invoke(c, h, op, e)
    PROVE  HandlerInv'
<1>0. AlarmInv /\ CallsOK /\ PhaseOK
  BY DEF HandlerInv
<1>1. /\ calls[c] = Idle
      /\ calls' = [calls EXCEPT ![c] = [h |-> h, e |-> e, steps |-> Program(op)]]
      /\ UNCHANGED <<clockAll, alarmId, startStop, thread>>
  BY DEF Invoke, threadVars, managerVars
<1>2. AlarmInv' /\ WithAlarm' = WithAlarm
  BY <1>0, <1>1, ClockUntouched
<1>3. PICK s : s = Program(op)
  OBVIOUS
<1>4. s \in Seq(Step) /\ Ordered(s) /\ Outside(s)
  BY <1>3, ProgramsOrdered, Zenon
<1>5. PICK r : r = [h |-> h, e |-> e, steps |-> s]
  OBVIOUS
<1>6. r \in CallRecord /\ r.h = h /\ r.steps = s
  BY <1>4, <1>5 DEF CallRecord
<1>7. calls \in [Caller -> CallRecord] /\ calls' = [calls EXCEPT ![c] = r]
  BY <1>0, <1>1, <1>3, <1>5 DEF CallsOK
<1>8. /\ calls' \in [Caller -> CallRecord] /\ calls'[c] = r
      /\ \A d \in Caller : d # c => calls'[d] = calls[d]
  BY <1>6, <1>7
<1>9. \A g \in Handler : startStop[g] # c
  <2>1. calls[c].steps = <<>>
    BY <1>1 DEF Idle
  <2> QED
    BY <1>0, <2>1 DEF CallsOK, Owner
<1>10. CallsOK'
  <2>1. ASSUME NEW d \in Caller
        PROVE  Ordered(calls'[d].steps) /\ (calls'[d].steps # <<>> => calls'[d].h \in Handler)
    <3>1. CASE d = c
      BY <1>4, <1>6, <1>8, <3>1
    <3>2. CASE d # c
      BY <1>0, <1>8, <3>2 DEF CallsOK
    <3> QED
      BY <3>1, <3>2
  <2>2. ASSUME NEW d \in Caller, NEW g \in Handler
        PROVE  startStop'[g] = d <=> Owner(calls'[d], g)
    <3>1. CASE d = c
      <4>1. ~Owner(r, g)
        BY <1>4, <1>6 DEF Owner, Outside, Inside
      <4> QED
        BY <1>1, <1>8, <1>9, <3>1, <4>1
    <3>2. CASE d # c
      <4>1. startStop[g] = d <=> Owner(calls[d], g)
        BY <1>0 DEF CallsOK
      <4> QED
        BY <1>1, <1>8, <3>2, <4>1
    <3> QED
      BY <3>1, <3>2
  <2>3. startStop' \in [Handler -> Caller \cup {Free}]
    BY <1>0, <1>1 DEF CallsOK
  <2> QED
    BY <1>8, <2>1, <2>2, <2>3 DEF CallsOK
<1>11. PhaseOK'
  <2>1. ASSUME NEW g \in Handler, startStop'[g] # Free
        PROVE  InPhase(g \in WithAlarm', thread'[g], calls'[startStop'[g]].steps[1])
    <3>1. PICK d : d = startStop[g]
      OBVIOUS
    <3>2. d \in Caller /\ d # c /\ startStop'[g] = d
      BY <1>0, <1>1, <1>9, <2>1, <3>1 DEF CallsOK
    <3>3. InPhase(g \in WithAlarm, thread[g], calls[d].steps[1])
      BY <1>0, <1>1, <2>1, <3>1 DEF PhaseOK
    <3>4. calls'[d] = calls[d] /\ thread'[g] = thread[g]
      BY <1>1, <1>8, <3>2
    <3> QED
      BY <1>2, <3>2, <3>3, <3>4
  <2>2. thread' \in [Handler -> BOOLEAN]
    BY <1>0, <1>1 DEF PhaseOK
  <2>3. \A g \in Handler : startStop'[g] = Free => (g \in WithAlarm' <=> thread'[g])
    BY <1>0, <1>1, <1>2 DEF PhaseOK
  <2> QED
    BY <2>1, <2>2, <2>3 DEF PhaseOK
<1> QED
  BY <1>2, <1>10, <1>11 DEF HandlerInv

\* the steps of the handlers' threads and of the clock's thread
LEMMA OtherSteps ==
    ASSUME HandlerInv, AlarmInv' /\ WithAlarm' = WithAlarm, UNCHANGED <<calls, startStop, thread>>
    PROVE  HandlerInv'
<1>1. CallsOK'
  BY DEF HandlerInv, CallsOK
<1>2. PhaseOK'
  BY DEF HandlerInv, PhaseOK
<1> QED
  BY <1>1, <1>2 DEF HandlerInv

-----------------------------------------------------------------------------
(* The theorems *)

\* No alarm exists when the program begins and no call is under way.
LEMMA HandlerInit == Init => HandlerInv
<1> SUFFICES ASSUME Init
             PROVE  HandlerInv
  OBVIOUS
<1>1. /\ alarms = <<>> /\ identifier = 0 /\ now = 0 /\ kpc = "none" /\ expiring = NoAlarm
      /\ clockThread = FALSE /\ clockLock = Free
      /\ alarmId = [h \in Handler |-> 0] /\ thread = [h \in Handler |-> FALSE]
      /\ startStop = [h \in Handler |-> Free] /\ calls = [c \in Caller |-> Idle]
  BY DEF Init, ClockInit
<1>2. Len(alarms) = 0
  BY <1>1
<1>3. AlarmInv
  <2>1. AlarmsTyped
    BY <1>1 DEF AlarmsTyped
  <2>2. ClockLocked
    BY <1>1 DEF ClockLocked, Busy
  <2>3. AlarmsApart
    BY <1>1, <1>2 DEF AlarmsApart
  <2> QED
    BY <2>1, <2>2, <2>3 DEF AlarmInv
<1>4. NoAlarm.context \notin Handler
  BY HandlerAssumption DEF NoAlarm, Alarm
<1>5. WithAlarm = {}
  BY <1>1, <1>2, <1>4 DEF WithAlarm
<1>6. Idle \in CallRecord /\ Idle.steps = <<>> /\ Ordered(<<>>)
  BY DEF Idle, CallRecord, Ordered
<1>7. CallsOK
  <2>1. /\ calls \in [Caller -> CallRecord]
        /\ startStop \in [Handler -> Caller \cup {Free}]
        /\ \A c \in Caller : calls[c].steps = <<>>
        /\ \A h \in Handler : startStop[h] = Free
    BY <1>1, <1>6
  <2>2. Free \notin Caller
    BY HandlerAssumption
  <2>3. \A c \in Caller, h \in Handler : startStop[h] = c <=> Owner(calls[c], h)
    BY <2>1, <2>2 DEF Owner
  <2> QED
    BY <1>6, <2>1, <2>3 DEF CallsOK
<1>8. PhaseOK
  BY <1>1, <1>5 DEF PhaseOK
<1> QED
  BY <1>3, <1>7, <1>8 DEF HandlerInv

\* Every step of every thread keeps the invariant.
LEMMA HandlerNext == HandlerInv /\ [Next]_vars => HandlerInv'
<1> SUFFICES ASSUME HandlerInv, [Next]_vars
             PROVE  HandlerInv'
  OBVIOUS
<1>1. CASE \E h \in Handler : ThreadStep(h)
  <2>1. UNCHANGED <<clockAll, alarmId, calls, startStop, thread>>
    BY <1>1 DEF ThreadStep, ThreadLocks, ThreadQuits, ThreadTakes, ThreadDispatches, ThreadIdles,
               ThreadWaits, managerVars
  <2> QED
    BY <2>1, ClockUntouched, OtherSteps DEF HandlerInv
<1>2. CASE ClockStep \/ Time
  <2>1. UNCHANGED <<calls, startStop, thread>>
    BY <1>2 DEF ClockStep, Time, ClockBeginsStep, ClockWakesStep, ClockTimesOutStep,
               ClockExpiresStep, ClockReinsertsStep, CallbackEnqueues, CallbackSignals,
               handlerVars, threadVars
  <2> QED
    BY <1>2, <2>1, ClockSteps, OtherSteps DEF HandlerInv
<1>3. ASSUME NEW c \in Caller, Continue(c)
      PROVE  HandlerInv'
  <2>1. CASE LockStep(c)
    <3>1. At(c, "lock") \/ At(c, "stopLock")
      BY <2>1 DEF LockStep
    <3> QED
      BY <2>1, <3>1, PlainSteps, OwningSteps
  <2>2. CASE \/ UnlockStep(c) \/ ConnectStep(c) \/ DisconnectStep(c)
             \/ FreeStep(c) \/ EnqueueStep(c) \/ NotifyStep(c)
    BY <2>2, PlainSteps
  <2>3. CASE \/ ClockStartStep(c) \/ ClockStopEnterStep(c) \/ ClockStopQuitStep(c)
             \/ ClockStopJoinStep(c)
    BY <2>3, ClockCallSteps
  <2>4. CASE StartEnterStep(c) \/ StopEnterStep(c)
    BY <2>4, EnterSteps
  <2>5. CASE StartAlarmStep(c) \/ StopAlarmStep(c) \/ StopQuitStep(c) \/ StopJoinStep(c)
    BY <2>5, OwningSteps
  <2>6. CASE StartThreadStep(c) \/ StopClearStep(c)
    BY <2>6, LeaveSteps
  <2> QED
    BY <1>3, <2>1, <2>2, <2>3, <2>4, <2>5, <2>6 DEF Continue
<1>4. ASSUME NEW c \in Caller, NEW h \in Handler, NEW op \in Op,
             NEW e \in Event \cup {NoEvent}, Invoke(c, h, op, e)
      PROVE  HandlerInv'
  BY <1>4, InvokeStep
<1>5. CASE UNCHANGED vars
  <2>1. UNCHANGED <<clockAll, alarmId, calls, startStop, thread>>
    BY <1>5 DEF vars, threadVars, managerVars
  <2> QED
    BY <2>1, ClockUntouched, OtherSteps DEF HandlerInv
<1> QED
  BY <1>1, <1>2, <1>3, <1>4, <1>5 DEF Next

\* The alarms, the calls and the lock lockOnStartStop agree in every reachable state:
\* eventHandlerStart and eventHandlerStop find their handler as they left it, whatever the
\* clock's thread does in between (BREvent.c, BREventAlarm.c).
THEOREM HandlerInvariance == Spec => []HandlerInv
<1>1. Init => HandlerInv
  BY HandlerInit
<1>2. HandlerInv /\ [Next]_vars => HandlerInv'
  BY HandlerNext
<1> QED
  BY <1>1, <1>2, PTL DEF Spec

\* A handler that runs has one alarm, one that is stopped has none, for any number of
\* handlers and of threads that connect, disconnect and destroy them (eventHandlerStart,
\* eventHandlerStop).
THEOREM TimeoutsReachRunning == Spec => []OneAlarmPerThread
<1>1. ASSUME HandlerInv
      PROVE  OneAlarmPerThread
  <2> SUFFICES ASSUME NEW h \in Handler, startStop[h] = Free
               PROVE  Cardinality({a \in Range(alarms) \cup {expiring} : a.context = h})
                         = IF thread[h] THEN 1 ELSE 0
    BY DEF OneAlarmPerThread
  <2>1. PICK A : A = {a \in Range(alarms) \cup {expiring} : a.context = h}
    OBVIOUS
  <2>2. (h \in WithAlarm <=> thread[h]) /\ thread[h] \in BOOLEAN
    BY <1>1 DEF HandlerInv, PhaseOK
  <2>3. Range(alarms) = {alarms[i] : i \in 1..Len(alarms)}
    <3>1. DOMAIN alarms = 1..Len(alarms)
      BY <1>1, LenProperties DEF HandlerInv, AlarmInv, AlarmsTyped
    <3> QED
      BY <3>1 DEF Range
  <2>4. \A a, b \in A : a = b
    <3>1. NoAlarm.context \notin Handler
      BY HandlerAssumption DEF NoAlarm, Alarm
    <3>2. AlarmsApart
      BY <1>1 DEF HandlerInv, AlarmInv
    <3>3. \A a \in A : a.context = h /\ (a = expiring \/ \E i \in 1..Len(alarms) : a = alarms[i])
      BY <2>1, <2>3
    <3>4. \A i, j \in 1..Len(alarms) : alarms[i].context = h /\ alarms[j].context = h => i = j
      BY <3>2 DEF AlarmsApart, Apart
    <3>5. \A i \in 1..Len(alarms) : alarms[i].context = h => expiring.context # h
      BY <3>1, <3>2 DEF AlarmsApart, Apart
    <3> QED
      BY <3>3, <3>4, <3>5
  <2>5. h \in WithAlarm <=> A # {}
    BY <2>1, <2>3 DEF WithAlarm
  <2>6. CASE thread[h]
    <3>1. PICK a : a \in A
      BY <2>2, <2>5, <2>6
    <3>2. A = {a}
      BY <2>4, <3>1
    <3>3. Cardinality({a}) = 1
      BY FS_Singleton, Zenon
    <3> QED
      BY <2>1, <2>6, <3>2, <3>3
  <2>7. CASE ~thread[h]
    <3>1. A = {}
      BY <2>2, <2>5, <2>7
    <3>2. Cardinality({}) = 0
      BY FS_EmptySet, Zenon
    <3> QED
      BY <2>1, <2>7, <3>1, <3>2
  <2> QED
    BY <2>2, <2>6, <2>7
<1>2. HandlerInv => OneAlarmPerThread
  BY <1>1
<1> QED
  BY <1>2, HandlerInvariance, PTL

-----------------------------------------------------------------------------
(* The queue's two lists *)

\* the records of a linked list, first to last; n records are allocated
IsList(s, next, n) ==
    /\ s \in Seq(1..n)
    /\ \A i, j \in 1..Len(s) : s[i] = s[j] => i = j
    /\ \A i \in 1..Len(s) : next[s[i]] = IF i = Len(s) THEN NULL ELSE s[i + 1]

\* where a list begins
FirstOf(s) == IF Len(s) = 0 THEN NULL ELSE s[1]

\* a queue of n records
QueueRecord(n) ==
    [pending : 0..n, available : 0..n, next : [1..n -> 0..n],
     event : [1..n -> Event \cup {NoEvent}]]

\* the record c is in the list s
Among(c, s) == \E i \in 1..Len(s) : s[i] = c

\* each of the n records is in P, the pending ones, or in A, the pool, and in one place only
Lists(q, n, P, A) ==
    /\ n \in Nat /\ q \in QueueRecord(n)
    /\ IsList(P, q.next, n) /\ IsList(A, q.next, n)
    /\ q.pending = FirstOf(P) /\ q.available = FirstOf(A)
    /\ \A i \in 1..Len(P) : q.event[P[i]] \in Event
    /\ \A i \in 1..Len(P), j \in 1..Len(A) : P[i] # A[j]
    /\ \A c \in 1..n : Among(c, P) \/ Among(c, A)

\* the queue is made of two such lists
ListsOK(q) == \E n, P, A : Lists(q, n, P, A)

\* the events of the records P
EventsOf(q, P) == [i \in 1..Len(P) |-> q.event[P[i]]]

\* a queue without records has two empty lists
LEMMA NoRecords ==
    ASSUME NEW q, q = [pending |-> NULL, available |-> NULL, next |-> <<>>, event |-> <<>>]
    PROVE  Lists(q, 0, <<>>, <<>>)
<1>1. PICK s : s = <<>>
  OBVIOUS
<1>2. s \in Seq(1..0) /\ Len(s) = 0 /\ s \in Seq(0..0) /\ s \in Seq(Event \cup {NoEvent})
  BY <1>1
<1>3. s \in [1..0 -> 0..0] /\ s \in [1..0 -> Event \cup {NoEvent}]
  BY <1>2, LenProperties
<1>4. q \in QueueRecord(0)
  BY <1>1, <1>3 DEF QueueRecord, NULL
<1> QED
  BY <1>1, <1>2, <1>4 DEF Lists, IsList, FirstOf, NULL

\* eventQueueClear leaves such a queue
LEMMA ClearLists ==
    ASSUME NEW q
    PROVE  Lists(Clear(q), 0, <<>>, <<>>)
<1>1. PICK r : r = Clear(q)
  OBVIOUS
<1> QED
  BY <1>1, NoRecords DEF Clear

\* eventQueueCreate puts all the records into the pool, the last one first
LEMMA CreateLists ==
    \E n, A : Lists(eventQueueCreate, n, <<>>, A)
<1>1. PICK n : n = EVENT_QUEUE_DEFAULT_INITIAL_CAPACITY
  OBVIOUS
<1>2. n \in Nat
  BY <1>1, QueueAssumption
<1>3. PICK q : q = eventQueueCreate
  OBVIOUS
<1>4. q = [pending |-> NULL, available |-> n,
           next |-> [c \in 1..n |-> c - 1], event |-> [c \in 1..n |-> NoEvent]]
  BY <1>1, <1>3 DEF eventQueueCreate
<1>5. q \in QueueRecord(n)
  <2>1. [c \in 1..n |-> c - 1] \in [1..n -> 0..n]
    BY <1>2
  <2> QED
    BY <1>2, <1>4, <2>1 DEF QueueRecord, NULL
<1>6. PICK A : A = [i \in 1..n |-> n + 1 - i]
  OBVIOUS
<1>7. A \in Seq(1..n) /\ Len(A) = n
  BY <1>2, <1>6
<1>8. \A i \in 1..n : A[i] = n + 1 - i
  BY <1>6
<1>9. \A c \in 1..n : q.next[c] = c - 1
  BY <1>4
<1>10. IsList(A, q.next, n)
  <2>1. \A i, j \in 1..n : A[i] = A[j] => i = j
    BY <1>2, <1>8
  <2>2. ASSUME NEW i \in 1..n PROVE q.next[A[i]] = IF i = n THEN NULL ELSE A[i + 1]
    <3>1. A[i] \in 1..n /\ q.next[A[i]] = n - i
      BY <1>2, <1>8, <1>9
    <3>2. CASE i = n
      BY <1>2, <3>1, <3>2 DEF NULL
    <3>3. CASE i # n
      <4>1. i + 1 \in 1..n
        BY <1>2, <3>3
      <4>2. A[i + 1] = n - i
        BY <1>2, <1>8, <4>1
      <4> QED
        BY <3>1, <3>3, <4>2
    <3> QED
      BY <3>2, <3>3
  <2> QED
    BY <1>7, <2>1, <2>2 DEF IsList
<1>11. PICK P : P = <<>>
  OBVIOUS
<1>12. P \in Seq(1..n) /\ Len(P) = 0
  BY <1>11
<1>13. q.pending = FirstOf(P) /\ q.available = FirstOf(A)
  <2>1. n = 0 \/ (1 \in 1..n /\ A[1] = n)
    BY <1>2, <1>8
  <2> QED
    BY <1>4, <1>7, <1>12, <2>1 DEF FirstOf, NULL
<1>14. \A c \in 1..n : Among(c, A)
  <2> TAKE c \in 1..n
  <2>1. n + 1 - c \in 1..n
    BY <1>2
  <2>2. A[n + 1 - c] = c
    BY <1>2, <1>8, <2>1
  <2> QED
    BY <1>7, <2>1, <2>2 DEF Among
<1>15. IsList(P, q.next, n)
  BY <1>12 DEF IsList
<1> QED
  BY <1>2, <1>3, <1>5, <1>7, <1>10, <1>11, <1>12, <1>13, <1>14, <1>15 DEF Lists

\* a list without its first record, with another one in front, with another one at its end
Behind(s) == [i \in 1..(Len(s) - 1) |-> s[i + 1]]
Before(x, s) == [i \in 1..(Len(s) + 1) |-> IF i = 1 THEN x ELSE s[i - 1]]
After(s, x) == [i \in 1..(Len(s) + 1) |-> IF i <= Len(s) THEN s[i] ELSE x]

\* t is the list of s and x
Grown(t, s, x, next, n) ==
    /\ IsList(t, next, n) /\ Len(t) = Len(s) + 1 /\ Len(s) \in Nat
    /\ Among(x, t)
    /\ \A i \in 1..Len(t) : t[i] = x \/ Among(t[i], s)
    /\ \A i \in 1..Len(s) : Among(s[i], t)

\* the first record is taken off a list
LEMMA ShorterList ==
    ASSUME NEW n \in Nat, NEW next, NEW s, IsList(s, next, n), Len(s) # 0
    PROVE  /\ IsList(Behind(s), next, n) /\ Len(Behind(s)) = Len(s) - 1 /\ Len(s) \in Nat
           /\ s[1] \in 1..n /\ next[s[1]] = FirstOf(Behind(s))
           /\ ~Among(s[1], Behind(s))
           /\ \A i \in 1..Len(Behind(s)) : Among(Behind(s)[i], s)
           /\ \A i \in 1..Len(s) : s[i] = s[1] \/ Among(s[i], Behind(s))
<1>0. PICK t : t = Behind(s)
  OBVIOUS
<1>1. s \in Seq(1..n) /\ Len(s) \in Nat /\ \A i \in 1..Len(s) : s[i] \in 1..n
  BY LenProperties, ElementOfSeq DEF IsList
<1>2. /\ \A i, j \in 1..Len(s) : s[i] = s[j] => i = j
      /\ \A i \in 1..Len(s) : next[s[i]] = IF i = Len(s) THEN NULL ELSE s[i + 1]
  BY DEF IsList
<1>3. \A i \in 1..(Len(s) - 1) : i + 1 \in 1..Len(s) /\ t[i] = s[i + 1]
  BY <1>0, <1>1 DEF Behind
<1>4. t \in Seq(1..n) /\ Len(t) = Len(s) - 1
  BY <1>0, <1>1, <1>3 DEF Behind
<1>5. IsList(t, next, n)
  <2>1. ASSUME NEW i \in 1..Len(t), NEW j \in 1..Len(t), t[i] = t[j] PROVE i = j
    <3>1. s[i + 1] = s[j + 1] /\ i + 1 \in 1..Len(s) /\ j + 1 \in 1..Len(s)
      BY <1>1, <1>3, <1>4, <2>1
    <3>2. i + 1 = j + 1
      BY <1>2, <3>1
    <3> QED
      BY <1>1, <1>4, <3>2
  <2>2. ASSUME NEW i \in 1..Len(t) PROVE next[t[i]] = IF i = Len(t) THEN NULL ELSE t[i + 1]
    <3>1. t[i] = s[i + 1] /\ i + 1 \in 1..Len(s)
      BY <1>3, <1>4
    <3>2. next[s[i + 1]] = IF i + 1 = Len(s) THEN NULL ELSE s[i + 1 + 1]
      BY <1>2, <3>1
    <3>3. i = Len(t) <=> i + 1 = Len(s)
      BY <1>1, <1>4
    <3>4. ASSUME i # Len(t)
          PROVE  t[i + 1] = s[i + 1 + 1]
      <4>1. PICK k : k = i + 1
        OBVIOUS
      <4>2. k \in 1..(Len(s) - 1)
        BY <1>1, <1>4, <3>4, <4>1
      <4> QED
        BY <1>3, <4>1, <4>2
    <3> QED
      BY <3>1, <3>2, <3>3, <3>4
  <2> QED
    BY <1>4, <2>1, <2>2 DEF IsList
<1>6. 1 \in 1..Len(s)
  BY <1>1
<1>7. next[s[1]] = FirstOf(t)
  <2>1. next[s[1]] = IF 1 = Len(s) THEN NULL ELSE s[1 + 1]
    BY <1>2, <1>6
  <2>2. Len(t) = 0 <=> Len(s) = 1
    BY <1>1, <1>4
  <2>3. Len(t) # 0 => t[1] = s[1 + 1]
    <3>1. PICK l : l = Len(s)
      OBVIOUS
    <3>2. l \in Nat /\ l # 0
      BY <1>1, <3>1
    <3>3. l = 1 \/ 1 \in 1..(l - 1)
      BY <3>2
    <3> QED
      BY <1>3, <2>2, <3>1, <3>3
  <2> QED
    BY <2>1, <2>2, <2>3 DEF FirstOf
<1>8. ~Among(s[1], t)
  <2> SUFFICES ASSUME NEW i \in 1..Len(t), t[i] = s[1] PROVE FALSE
    BY DEF Among
  <2>1. i + 1 \in 1..Len(s) /\ s[i + 1] = s[1]
    BY <1>3, <1>4
  <2>2. i + 1 = 1
    BY <1>2, <1>6, <2>1
  <2> QED
    BY <1>1, <1>4, <2>2
<1>9. \A i \in 1..Len(t) : Among(t[i], s)
  BY <1>3, <1>4 DEF Among
<1>10. ASSUME NEW i \in 1..Len(s), i # 1 PROVE Among(s[i], t)
  <2>1. i - 1 \in 1..Len(t)
    BY <1>1, <1>4, <1>10
  <2>2. t[i - 1] = s[i]
    BY <1>1, <1>3, <1>4, <2>1
  <2> QED
    BY <2>1, <2>2 DEF Among
<1> QED
  BY <1>0, <1>1, <1>4, <1>5, <1>6, <1>7, <1>8, <1>9, <1>10

\* the list with x in front
LEMMA LongerList ==
    ASSUME NEW n \in Nat, NEW next, NEW s, NEW x \in 1..n, IsList(s, next, n),
           ~Among(x, s), next[x] = FirstOf(s)
    PROVE  Grown(Before(x, s), s, x, next, n) /\ FirstOf(Before(x, s)) = x
<1>0. PICK t : t = Before(x, s)
  OBVIOUS
<1>1. s \in Seq(1..n) /\ Len(s) \in Nat /\ \A i \in 1..Len(s) : s[i] \in 1..n
  BY LenProperties, ElementOfSeq DEF IsList
<1>2. /\ \A i, j \in 1..Len(s) : s[i] = s[j] => i = j
      /\ \A i \in 1..Len(s) : next[s[i]] = IF i = Len(s) THEN NULL ELSE s[i + 1]
  BY DEF IsList
<1>3. \A i \in 1..(Len(s) + 1) : t[i] = IF i = 1 THEN x ELSE s[i - 1]
  BY <1>0, <1>1 DEF Before
<1>4. t \in Seq(1..n) /\ Len(t) = Len(s) + 1
  BY <1>0, <1>1, <1>3 DEF Before
<1>5. t[1] = x /\ 1 \in 1..Len(t)
  BY <1>1, <1>3, <1>4
<1>6. \A i \in 1..Len(t) : i # 1 => i - 1 \in 1..Len(s) /\ t[i] = s[i - 1]
  BY <1>1, <1>3, <1>4
<1>7. \A i \in 1..Len(t) : i # 1 => t[i] # x
  BY <1>6 DEF Among
<1>8. ASSUME NEW i \in 1..Len(t), NEW j \in 1..Len(t), t[i] = t[j] PROVE i = j
  <2>1. CASE i = 1 \/ j = 1
    BY <1>5, <1>7, <1>8, <2>1
  <2>2. CASE i # 1 /\ j # 1
    <3>1. i - 1 \in 1..Len(s) /\ j - 1 \in 1..Len(s) /\ s[i - 1] = s[j - 1]
      BY <1>6, <1>8, <2>2
    <3>2. i - 1 = j - 1
      BY <1>2, <3>1
    <3> QED
      BY <1>1, <1>4, <3>2
  <2> QED
    BY <2>1, <2>2
<1>9. ASSUME NEW i \in 1..Len(t) PROVE next[t[i]] = IF i = Len(t) THEN NULL ELSE t[i + 1]
  <2>1. CASE i = 1
    <3>1. Len(s) = 0 <=> 1 = Len(t)
      BY <1>1, <1>4
    <3>2. Len(s) # 0 => t[1 + 1] = s[1]
      BY <1>1, <1>3
    <3> QED
      BY <1>5, <2>1, <3>1, <3>2 DEF FirstOf
  <2>2. CASE i # 1
    <3>1. i - 1 \in 1..Len(s) /\ t[i] = s[i - 1]
      BY <1>6, <2>2
    <3>2. next[t[i]] = IF i - 1 = Len(s) THEN NULL ELSE s[i - 1 + 1]
      BY <1>2, <3>1
    <3>3. i - 1 = Len(s) <=> i = Len(t)
      BY <1>1, <1>4
    <3>4. i # Len(t) => t[i + 1] = s[i - 1 + 1]
      <4> HAVE i # Len(t)
      <4>1. i + 1 \in 1..Len(t) /\ i + 1 # 1 /\ i + 1 - 1 = i - 1 + 1
        BY <1>1, <1>4, <2>2
      <4>2. t[i + 1] = s[i + 1 - 1]
        BY <1>6, <4>1
      <4> QED
        BY <4>1, <4>2
    <3> QED
      BY <3>2, <3>3, <3>4
  <2> QED
    BY <2>1, <2>2
<1>10. IsList(t, next, n)
  BY <1>4, <1>8, <1>9 DEF IsList
<1>11. FirstOf(t) = x
  BY <1>1, <1>4, <1>5 DEF FirstOf
<1>12. Among(x, t)
  BY <1>5 DEF Among
<1>13. \A i \in 1..Len(t) : t[i] = x \/ Among(t[i], s)
  BY <1>5, <1>6 DEF Among
<1>14. ASSUME NEW i \in 1..Len(s) PROVE Among(s[i], t)
  <2>1. i + 1 \in 1..Len(t) /\ i + 1 # 1 /\ i + 1 - 1 = i
    BY <1>1, <1>4
  <2>2. t[i + 1] = s[i]
    BY <1>6, <2>1
  <2> QED
    BY <2>1, <2>2 DEF Among
<1> QED
  BY <1>0, <1>1, <1>4, <1>10, <1>11, <1>12, <1>13, <1>14 DEF Grown

\* a list does not depend on the links of other records, nor on there being more of them
LEMMA SameList ==
    ASSUME NEW n \in Nat, NEW m \in Nat, n <= m, NEW next, NEW new, NEW s, IsList(s, next, n),
           \A i \in 1..Len(s) : new[s[i]] = next[s[i]]
    PROVE  IsList(s, new, m)
<1>1. s \in Seq(1..n) /\ Len(s) \in Nat /\ \A i \in 1..Len(s) : s[i] \in 1..n
  BY LenProperties, ElementOfSeq DEF IsList
<1>2. s \in Seq(1..m)
  BY <1>1
<1> QED
  BY <1>1, <1>2 DEF IsList
\* the last record of s is linked to x, which becomes the last
Relinked(new, next, s, x) ==
    /\ new[x] = NULL /\ new[s[Len(s)]] = x
    /\ \A i \in 1..(Len(s) - 1) : new[s[i]] = next[s[i]]

\* the list with x at its end
LEMMA ExtendedList ==
    ASSUME NEW n \in Nat, NEW next, NEW new, NEW s, NEW x \in 1..n, IsList(s, next, n),
           Len(s) # 0, ~Among(x, s), Relinked(new, next, s, x)
    PROVE  Grown(After(s, x), s, x, new, n) /\ FirstOf(After(s, x)) = FirstOf(s)
<1>0. PICK t : t = After(s, x)
  OBVIOUS
<1>1. s \in Seq(1..n) /\ Len(s) \in Nat /\ \A i \in 1..Len(s) : s[i] \in 1..n
  BY LenProperties, ElementOfSeq DEF IsList
<1>2. /\ \A i, j \in 1..Len(s) : s[i] = s[j] => i = j
      /\ \A i \in 1..Len(s) : next[s[i]] = IF i = Len(s) THEN NULL ELSE s[i + 1]
  BY DEF IsList
<1>3. \A i \in 1..(Len(s) + 1) : t[i] = IF i <= Len(s) THEN s[i] ELSE x
  BY <1>0, <1>1 DEF After
<1>4. t \in Seq(1..n) /\ Len(t) = Len(s) + 1
  BY <1>0, <1>1, <1>3 DEF After
<1>5. t[Len(t)] = x /\ Len(t) \in 1..Len(t)
  <2>1. Len(s) + 1 \in 1..(Len(s) + 1) /\ ~(Len(s) + 1 <= Len(s))
    BY <1>1
  <2>2. t[Len(s) + 1] = x
    BY <1>3, <2>1
  <2> QED
    BY <1>4, <2>1, <2>2
<1>6. \A i \in 1..Len(t) : i # Len(t) => i \in 1..Len(s) /\ t[i] = s[i]
  BY <1>1, <1>3, <1>4
<1>7. \A i \in 1..Len(t) : i # Len(t) => t[i] # x
  BY <1>6 DEF Among
<1>8. ASSUME NEW i \in 1..Len(t), NEW j \in 1..Len(t), t[i] = t[j] PROVE i = j
  <2>1. CASE i = Len(t) \/ j = Len(t)
    BY <1>5, <1>7, <1>8, <2>1
  <2>2. CASE i # Len(t) /\ j # Len(t)
    BY <1>2, <1>6, <1>8, <2>2
  <2> QED
    BY <2>1, <2>2
<1>9. ASSUME NEW i \in 1..Len(t) PROVE new[t[i]] = IF i = Len(t) THEN NULL ELSE t[i + 1]
  <2>1. CASE i = Len(t)
    BY <1>5, <2>1 DEF Relinked
  <2>2. CASE i = Len(s)
    <3>1. t[i] = s[Len(s)] /\ t[i + 1] = x /\ i # Len(t)
      BY <1>1, <1>4, <1>5, <1>6, <2>2
    <3> QED
      BY <3>1 DEF Relinked
  <2>3. CASE i # Len(t) /\ i # Len(s)
    <3>1. i \in 1..(Len(s) - 1) /\ i \in 1..Len(s) /\ t[i] = s[i]
      BY <1>1, <1>4, <1>6, <2>3
    <3>2. i + 1 \in 1..Len(t) /\ i + 1 # Len(t)
      BY <1>1, <1>4, <3>1
    <3>3. t[i + 1] = s[i + 1]
      BY <1>6, <3>2
    <3>4. next[s[i]] = s[i + 1]
      BY <1>2, <2>3, <3>1
    <3>5. new[s[i]] = next[s[i]]
      BY <3>1 DEF Relinked
    <3> QED
      BY <2>3, <3>1, <3>3, <3>4, <3>5
  <2> QED
    BY <2>1, <2>2, <2>3
<1>10. IsList(t, new, n)
  BY <1>4, <1>8, <1>9 DEF IsList
<1>11. FirstOf(t) = FirstOf(s)
  <2>1. t[1] = s[1] /\ Len(t) # 0
    BY <1>1, <1>3, <1>4
  <2> QED
    BY <2>1 DEF FirstOf
<1>12. Among(x, t)
  BY <1>5 DEF Among
<1>13. \A i \in 1..Len(t) : t[i] = x \/ Among(t[i], s)
  BY <1>5, <1>6 DEF Among
<1>14. ASSUME NEW i \in 1..Len(s) PROVE Among(s[i], t)
  <2>1. i \in 1..Len(t) /\ t[i] = s[i]
    BY <1>1, <1>3, <1>4
  <2> QED
    BY <2>1 DEF Among
<1> QED
  BY <1>0, <1>1, <1>4, <1>10, <1>11, <1>12, <1>13, <1>14 DEF Grown

\* the pending list is empty exactly when its pointer is NULL, and the lists have their types
LEMMA ListsTyped ==
    ASSUME NEW q, NEW n, NEW P, NEW A, Lists(q, n, P, A)
    PROVE  /\ n \in Nat /\ q \in QueueRecord(n)
           /\ P \in Seq(1..n) /\ Len(P) \in Nat /\ A \in Seq(1..n) /\ Len(A) \in Nat
           /\ \A i \in 1..Len(P) : P[i] \in 1..n
           /\ \A i \in 1..Len(A) : A[i] \in 1..n
           /\ q.pending = NULL <=> Len(P) = 0
           /\ q.available = NULL <=> Len(A) = 0
<1>1. n \in Nat /\ q \in QueueRecord(n) /\ P \in Seq(1..n) /\ A \in Seq(1..n)
  BY DEF Lists, IsList
<1>2. Len(P) \in Nat /\ Len(A) \in Nat
  BY <1>1, LenProperties
<1>3. \A i \in 1..Len(P) : P[i] \in 1..n
  BY <1>1, ElementOfSeq
<1>4. \A i \in 1..Len(A) : A[i] \in 1..n
  BY <1>1, ElementOfSeq
<1>5. q.pending = FirstOf(P) /\ q.available = FirstOf(A)
  BY DEF Lists
<1>6. q.pending = NULL <=> Len(P) = 0
  <2>1. Len(P) # 0 => P[1] \in 1..n
    BY <1>2, <1>3
  <2> QED
    BY <1>1, <1>5, <2>1 DEF FirstOf, NULL
<1>7. q.available = NULL <=> Len(A) = 0
  <2>1. Len(A) # 0 => A[1] \in 1..n
    BY <1>2, <1>4
  <2> QED
    BY <1>1, <1>5, <2>1 DEF FirstOf, NULL
<1> QED
  BY <1>1, <1>2, <1>3, <1>4, <1>6, <1>7

\* eventQueueDequeue: the first pending record becomes the first of the pool
LEMMA DequeueLists ==
    ASSUME NEW q, NEW n, NEW P, NEW A, Lists(q, n, P, A), q.pending # NULL
    PROVE  \E B : Lists(Dequeue(q), n, Behind(P), B)
<1>1. /\ n \in Nat /\ q \in QueueRecord(n)
      /\ Len(P) \in Nat /\ Len(A) \in Nat
      /\ \A i \in 1..Len(P) : P[i] \in 1..n
      /\ \A i \in 1..Len(A) : A[i] \in 1..n
      /\ Len(P) # 0
  BY ListsTyped
<1>2. PICK x : x = P[1]
  OBVIOUS
<1>3. /\ IsList(P, q.next, n) /\ IsList(A, q.next, n)
      /\ q.pending = x /\ q.available = FirstOf(A)
      /\ \A i \in 1..Len(P) : q.event[P[i]] \in Event
      /\ \A i \in 1..Len(P), j \in 1..Len(A) : P[i] # A[j]
      /\ \A c \in 1..n : Among(c, P) \/ Among(c, A)
  BY <1>1, <1>2 DEF Lists, FirstOf
<1>4. PICK r : r = Dequeue(q)
  OBVIOUS
<1>5. x \in 1..n /\ 1 \in 1..Len(P)
  BY <1>1, <1>2
<1>6. /\ r \in QueueRecord(n)
      /\ r.pending = q.next[x] /\ r.available = x
      /\ r.next = [q.next EXCEPT ![x] = q.available] /\ r.event = q.event
  BY <1>1, <1>3, <1>4, <1>5 DEF Dequeue, QueueRecord
<1>7. /\ r.next[x] = FirstOf(A)
      /\ \A c \in 1..n : c # x => r.next[c] = q.next[c]
  BY <1>1, <1>3, <1>5, <1>6 DEF QueueRecord
<1>8. PICK T, B : T = Behind(P) /\ B = Before(x, A)
  OBVIOUS
<1>9. /\ IsList(T, q.next, n) /\ Len(T) = Len(P) - 1
      /\ q.next[x] = FirstOf(T)
      /\ ~Among(x, T)
      /\ \A i \in 1..Len(T) : Among(T[i], P)
      /\ \A i \in 1..Len(P) : P[i] = x \/ Among(P[i], T)
  <2>1. PICK next : next = q.next
    OBVIOUS
  <2>2. IsList(P, next, n) /\ Len(P) # 0 /\ n \in Nat
    BY <1>1, <1>3, <2>1
  <2>3. T = Behind(P) /\ x = P[1]
    BY <1>2, <1>8
  <2> QED
    BY <2>1, <2>2, <2>3, ShorterList
<1>10. IsList(T, r.next, n)
  <2>1. \A i \in 1..Len(T) : T[i] \in 1..n /\ T[i] # x
    BY <1>1, <1>9 DEF Among
  <2>2. \A i \in 1..Len(T) : r.next[T[i]] = q.next[T[i]]
    BY <1>7, <2>1
  <2>3. n <= n
    BY <1>1
  <2> QED
    BY <1>1, <1>9, <2>2, <2>3, SameList
<1>11. ~Among(x, A)
  BY <1>2, <1>3, <1>5 DEF Among
<1>12. IsList(A, r.next, n)
  <2>1. \A i \in 1..Len(A) : r.next[A[i]] = q.next[A[i]]
    BY <1>1, <1>7, <1>11 DEF Among
  <2>2. n <= n
    BY <1>1
  <2> QED
    BY <1>1, <1>3, <2>1, <2>2, SameList
<1>13. /\ IsList(B, r.next, n) /\ FirstOf(B) = x
       /\ Among(x, B)
       /\ \A i \in 1..Len(B) : B[i] = x \/ Among(B[i], A)
       /\ \A i \in 1..Len(A) : Among(A[i], B)
  <2>1. PICK new : new = r.next
    OBVIOUS
  <2>2. n \in Nat /\ x \in 1..n /\ IsList(A, new, n) /\ ~Among(x, A) /\ new[x] = FirstOf(A)
    BY <1>1, <1>5, <1>7, <1>11, <1>12, <2>1
  <2>3. Grown(Before(x, A), A, x, new, n) /\ FirstOf(Before(x, A)) = x
    BY <2>2, LongerList
  <2> QED
    BY <1>8, <2>1, <2>3 DEF Grown
<1>14. \A i \in 1..Len(T) : r.event[T[i]] \in Event
  BY <1>3, <1>6, <1>9 DEF Among
<1>15. \A i \in 1..Len(T), j \in 1..Len(B) : T[i] # B[j]
  <2> SUFFICES ASSUME NEW i \in 1..Len(T), NEW j \in 1..Len(B), T[i] = B[j] PROVE FALSE
    OBVIOUS
  <2>1. PICK k \in 1..Len(P) : P[k] = T[i]
    BY <1>9 DEF Among
  <2>2. T[i] # x
    BY <1>9 DEF Among
  <2>3. PICK l \in 1..Len(A) : A[l] = B[j]
    BY <1>13, <2>2 DEF Among
  <2> QED
    BY <1>3, <2>1, <2>3
<1>16. \A c \in 1..n : Among(c, T) \/ Among(c, B)
  <2> TAKE c \in 1..n
  <2>1. CASE Among(c, P)
    <3>1. PICK k \in 1..Len(P) : P[k] = c
      BY <2>1 DEF Among
    <3> QED
      BY <1>9, <1>13, <3>1
  <2>2. CASE Among(c, A)
    <3>1. PICK k \in 1..Len(A) : A[k] = c
      BY <2>2 DEF Among
    <3> QED
      BY <1>13, <3>1
  <2> QED
    BY <1>3, <2>1, <2>2
<1>17. Lists(r, n, T, B)
  BY <1>1, <1>6, <1>9, <1>10, <1>13, <1>14, <1>15, <1>16 DEF Lists
<1> QED
  BY <1>4, <1>8, <1>17
\* the record for a new event, of m that are allocated then, and the pool B after it
Fresh(q, n, P, this, m, B) ==
    /\ m \in Nat /\ n <= m /\ this \in 1..m
    /\ 1..m = (1..n) \cup {this}
    /\ IsList(B, q.next, n) /\ Rest(q) = FirstOf(B)
    /\ ~Among(this, P) /\ ~Among(this, B)
    /\ \A i \in 1..Len(P), j \in 1..Len(B) : P[i] # B[j]
    /\ \A c \in 1..m : c = this \/ Among(c, P) \/ Among(c, B)

\* The record comes from the pool, or is a new one when the pool is empty.
LEMMA FreshRecord ==
    ASSUME NEW q, NEW n, NEW P, NEW A, Lists(q, n, P, A)
    PROVE  \E m, B : Fresh(q, n, P, This(q), m, B)
<1>1. /\ n \in Nat /\ q \in QueueRecord(n)
      /\ P \in Seq(1..n) /\ A \in Seq(1..n) /\ Len(P) \in Nat /\ Len(A) \in Nat
      /\ \A i \in 1..Len(P) : P[i] \in 1..n
      /\ \A i \in 1..Len(A) : A[i] \in 1..n
      /\ q.available = NULL <=> Len(A) = 0
  BY ListsTyped
<1>2. /\ IsList(A, q.next, n) /\ q.available = FirstOf(A)
      /\ \A i \in 1..Len(P), j \in 1..Len(A) : P[i] # A[j]
      /\ \A c \in 1..n : Among(c, P) \/ Among(c, A)
  BY DEF Lists
<1>3. PICK this : this = This(q)
  OBVIOUS
<1>4. CASE Len(A) # 0
  <2>1. PICK B : B = Behind(A)
    OBVIOUS
  <2>2. this = A[1] /\ Rest(q) = q.next[A[1]]
    BY <1>1, <1>2, <1>3, <1>4 DEF This, Rest, FirstOf
  <2>3. PICK next : next = q.next
    OBVIOUS
  <2>4. /\ IsList(B, next, n) /\ A[1] \in 1..n /\ next[A[1]] = FirstOf(B)
        /\ ~Among(A[1], B)
        /\ \A i \in 1..Len(B) : Among(B[i], A)
        /\ \A i \in 1..Len(A) : A[i] = A[1] \/ Among(A[i], B)
    BY <1>1, <1>2, <1>4, <2>1, <2>3, ShorterList
  <2>5. 1 \in 1..Len(A)
    BY <1>1, <1>4
  <2>6. ~Among(this, P)
    BY <1>2, <2>2, <2>5 DEF Among
  <2>7. \A i \in 1..Len(P), j \in 1..Len(B) : P[i] # B[j]
    <3> SUFFICES ASSUME NEW i \in 1..Len(P), NEW j \in 1..Len(B), P[i] = B[j] PROVE FALSE
      OBVIOUS
    <3>1. PICK k \in 1..Len(A) : A[k] = B[j]
      BY <2>4 DEF Among
    <3> QED
      BY <1>2, <3>1
  <2>8. \A c \in 1..n : c = this \/ Among(c, P) \/ Among(c, B)
    <3> TAKE c \in 1..n
    <3>1. CASE Among(c, A)
      <4>1. PICK k \in 1..Len(A) : A[k] = c
        BY <3>1 DEF Among
      <4> QED
        BY <2>2, <2>4, <4>1
    <3> QED
      BY <1>2, <3>1
  <2>9. 1..n = (1..n) \cup {this} /\ n <= n
    BY <1>1, <2>2, <2>4
  <2> QED
    BY <1>1, <1>3, <2>2, <2>3, <2>4, <2>6, <2>7, <2>8, <2>9 DEF Fresh
<1>5. CASE Len(A) = 0
  <2>1. DOMAIN q.next = 1..n
    BY <1>1 DEF QueueRecord
  <2>2. Cardinality(1..n) = n
    BY <1>1, FS_Interval
  <2>3. this = n + 1
    BY <1>1, <1>3, <1>5, <2>1, <2>2 DEF This
  <2>4. Rest(q) = FirstOf(A)
    BY <1>1, <1>5 DEF Rest, FirstOf
  <2>5. ~Among(this, P) /\ ~Among(this, A)
    <3>1. this \notin 1..n
      BY <1>1, <2>3
    <3> QED
      BY <1>1, <3>1 DEF Among
  <2>6. 1..this = (1..n) \cup {this} /\ n <= this /\ this \in Nat /\ this \in 1..this
    <3>1. n <= this /\ this \in Nat /\ this \in 1..this
      BY <1>1, <2>3
    <3>2. \A c \in 1..this : c \in 1..n \/ c = this
      BY <1>1, <2>3
    <3>3. \A c \in 1..n : c \in 1..this
      BY <1>1, <2>3
    <3> QED
      BY <3>1, <3>2, <3>3
  <2>7. \A c \in 1..this : c = this \/ Among(c, P) \/ Among(c, A)
    BY <1>2, <2>6
  <2> QED
    BY <1>2, <1>3, <2>4, <2>5, <2>6, <2>7 DEF Fresh
<1> QED
  BY <1>1, <1>4, <1>5

\* r is q with the event e in a record of its own, at the end or in front of P
Enqueued(r, q, n, P, e, tail) ==
    \E m, this, B : /\ ~Among(this, P)
                    /\ Lists(r, m, IF tail THEN After(P, this) ELSE Before(this, P), B)
                    /\ r.event[this] = e
                    /\ \A c \in 1..n : c # this => r.event[c] = q.event[c]

\* eventQueueEnqueue: the pending records are the ones before and the one with the event
LEMMA EnqueueLists ==
    ASSUME NEW q, NEW n, NEW P, NEW A, Lists(q, n, P, A), NEW e \in Event, NEW tail \in BOOLEAN,
           q.pending # NULL /\ tail => LastPending(q) = P[Len(P)]
    PROVE  Enqueued(Enqueue(q, e, tail), q, n, P, e, tail)
<1>1. /\ n \in Nat /\ q \in QueueRecord(n)
      /\ Len(P) \in Nat /\ P \in Seq(1..n)
      /\ \A i \in 1..Len(P) : P[i] \in 1..n
      /\ q.pending = NULL <=> Len(P) = 0
  BY ListsTyped
<1>2. /\ IsList(P, q.next, n) /\ q.pending = FirstOf(P)
      /\ \A i \in 1..Len(P) : q.event[P[i]] \in Event
  BY DEF Lists
<1>3. PICK this : this = This(q)
  OBVIOUS
<1>4. PICK m, B : Fresh(q, n, P, this, m, B)
  BY <1>3, FreshRecord
<1>5. /\ m \in Nat /\ n <= m /\ this \in 1..m
      /\ 1..m = (1..n) \cup {this}
      /\ IsList(B, q.next, n) /\ Rest(q) = FirstOf(B)
      /\ ~Among(this, P) /\ ~Among(this, B)
      /\ \A i \in 1..Len(P), j \in 1..Len(B) : P[i] # B[j]
      /\ \A c \in 1..m : c = this \/ Among(c, P) \/ Among(c, B)
  BY <1>4 DEF Fresh
<1>6. B \in Seq(1..n) /\ Len(B) \in Nat /\ \A i \in 1..Len(B) : B[i] \in 1..n
  BY <1>5, LenProperties, ElementOfSeq DEF IsList
<1>7. PICK fresh : fresh = [c \in 1..m |-> IF c = this THEN NULL ELSE q.next[c]]
  OBVIOUS
<1>8. /\ fresh \in [1..m -> 0..m] /\ fresh[this] = NULL
      /\ \A c \in 1..n : c # this => fresh[c] = q.next[c]
  <2>0. \A c \in 1..n : q.next[c] \in 0..n
    BY <1>1 DEF QueueRecord
  <2>1. \A c \in 1..m : c # this => c \in 1..n /\ q.next[c] \in 0..m
    <3>1. \A c \in 0..n : c \in 0..m
      BY <1>1, <1>5
    <3>2. \A c \in 1..m : c # this => c \in 1..n
      BY <1>5
    <3> QED
      BY <2>0, <3>1, <3>2
  <2>2. NULL \in 0..m
    BY <1>5 DEF NULL
  <2> QED
    BY <1>5, <1>7, <2>1, <2>2
<1>9. DOMAIN q.next \cup {this} = 1..m
  BY <1>1, <1>5 DEF QueueRecord
<1>10. PICK r : r = Enqueue(q, e, tail)
  OBVIOUS
<1>11. PICK event : event = [c \in 1..m |-> IF c = this THEN e ELSE q.event[c]]
  OBVIOUS
<1>12. /\ event \in [1..m -> Event \cup {NoEvent}] /\ event[this] = e
       /\ \A c \in 1..n : c # this => event[c] = q.event[c]
  <2>1. \A c \in 1..m : c # this => c \in 1..n /\ q.event[c] \in Event \cup {NoEvent}
    BY <1>1, <1>5 DEF QueueRecord
  <2> QED
    BY <1>5, <1>11, <2>1
<1>13. r = [pending   |-> IF q.pending # NULL /\ tail THEN q.pending ELSE this,
            available |-> FirstOf(B),
            next      |-> CASE q.pending = NULL -> fresh
                            [] q.pending # NULL /\ tail ->
                                  [fresh EXCEPT ![LastPending(q)] = this]
                            [] q.pending # NULL /\ ~tail -> [fresh EXCEPT ![this] = q.pending],
            event     |-> event]
  BY <1>3, <1>5, <1>7, <1>9, <1>10, <1>11 DEF Enqueue
<1>14. PICK Q : Q = IF tail THEN After(P, this) ELSE Before(this, P)
  OBVIOUS
<1>15. /\ \A i \in 1..Len(P) : P[i] \in 1..n /\ P[i] # this
       /\ \A i \in 1..Len(B) : B[i] \in 1..n /\ B[i] # this
  BY <1>1, <1>5, <1>6 DEF Among
<1>16. /\ r.event = event /\ r.available = FirstOf(B) /\ DOMAIN r.next = 1..m
  BY <1>8, <1>13
<1>17. /\ r.next \in [1..m -> 0..m] /\ r.pending \in 0..m
       /\ IsList(Q, r.next, m) /\ FirstOf(Q) = r.pending
       /\ Len(Q) \in Nat
       /\ \A i \in 1..Len(B) : r.next[B[i]] = q.next[B[i]]
       /\ Among(this, Q)
       /\ \A i \in 1..Len(Q) : Q[i] = this \/ Among(Q[i], P)
       /\ \A i \in 1..Len(P) : Among(P[i], Q)
  <2>1. CASE q.pending = NULL
    <3>1. r.next = fresh /\ r.pending = this /\ Len(P) = 0
      BY <1>1, <1>13, <2>1
    <3>2. Before(this, P) = After(P, this)
      <4>1. \A i \in 1..(Len(P) + 1) : i = 1 /\ ~(i <= Len(P))
        BY <3>1
      <4> QED
        BY <4>1 DEF Before, After
    <3>3. Q = Before(this, P)
      BY <1>14, <3>2
    <3>4. IsList(P, fresh, m)
      <4>1. \A i \in 1..Len(P) : fresh[P[i]] = q.next[P[i]]
        BY <1>8, <1>15
      <4> QED
        BY <1>1, <1>2, <1>5, <4>1, SameList
    <3>5. fresh[this] = FirstOf(P)
      BY <1>8, <3>1 DEF FirstOf
    <3>6. /\ IsList(Q, fresh, m) /\ FirstOf(Q) = this /\ Len(Q) = Len(P) + 1
          /\ Among(this, Q)
          /\ \A i \in 1..Len(Q) : Q[i] = this \/ Among(Q[i], P)
          /\ \A i \in 1..Len(P) : Among(P[i], Q)
      <4>1. Grown(Before(this, P), P, this, fresh, m) /\ FirstOf(Before(this, P)) = this
        BY <1>5, <3>4, <3>5, LongerList
      <4> QED
        BY <3>3, <4>1 DEF Grown
    <3>7. \A i \in 1..Len(B) : fresh[B[i]] = q.next[B[i]]
      BY <1>8, <1>15
    <3>8. r.pending \in 0..m /\ Len(Q) \in Nat
      BY <1>1, <1>5, <3>1, <3>6
    <3> QED
      BY <1>8, <3>1, <3>6, <3>7, <3>8
  <2>2. CASE q.pending # NULL /\ tail
    <3>1. PICK z : z = P[Len(P)]
      OBVIOUS
    <3>2. Len(P) # 0 /\ Len(P) \in 1..Len(P) /\ z \in 1..n /\ z # this
      BY <1>1, <1>15, <2>2, <3>1
    <3>3. r.next = [fresh EXCEPT ![z] = this] /\ r.pending = q.pending
      BY <1>13, <2>2, <3>1
    <3>4. z \in 1..m
      BY <1>5, <3>2
    <3>5. PICK new : new = r.next
      OBVIOUS
    <3>6. /\ new \in [1..m -> 0..m] /\ new[z] = this /\ new[this] = NULL
          /\ \A c \in 1..n : c # this /\ c # z => new[c] = q.next[c]
      <4>1. this \in 0..m
        BY <1>5
      <4>2. \A c \in 1..m : c # z => new[c] = fresh[c]
        BY <1>8, <3>3, <3>4, <3>5
      <4>3. \A c \in 1..n : c \in 1..m
        BY <1>5
      <4>4. new \in [1..m -> 0..m] /\ new[z] = this
        BY <1>8, <3>3, <3>4, <3>5, <4>1
      <4>5. new[this] = NULL
        BY <1>5, <1>8, <3>2, <4>2
      <4>6. \A c \in 1..n : c # this /\ c # z => new[c] = q.next[c]
        BY <1>8, <4>2, <4>3
      <4> QED
        BY <4>4, <4>5, <4>6
    <3>7. \A i \in 1..(Len(P) - 1) : new[P[i]] = q.next[P[i]]
      <4> TAKE i \in 1..(Len(P) - 1)
      <4>1. i \in 1..Len(P) /\ i # Len(P)
        BY <1>1
      <4>2. P[i] # z
        BY <1>2, <3>1, <3>2, <4>1 DEF IsList
      <4> QED
        BY <1>15, <3>6, <4>1, <4>2
    <3>8. IsList(P, q.next, m)
      <4>1. \A i \in 1..Len(P) : q.next[P[i]] = q.next[P[i]]
        OBVIOUS
      <4> QED
        BY <1>1, <1>2, <1>5, <4>1, SameList
    <3>9. Q = After(P, this)
      BY <1>14, <2>2
    <3>10. PICK next : next = q.next
      OBVIOUS
    <3>11. /\ m \in Nat /\ this \in 1..m /\ IsList(P, next, m) /\ Len(P) # 0
           /\ ~Among(this, P) /\ Relinked(new, next, P, this)
      BY <1>5, <3>1, <3>2, <3>6, <3>7, <3>8, <3>10 DEF Relinked
    <3>12. /\ IsList(Q, new, m) /\ FirstOf(Q) = FirstOf(P) /\ Len(Q) = Len(P) + 1
           /\ Among(this, Q)
           /\ \A i \in 1..Len(Q) : Q[i] = this \/ Among(Q[i], P)
           /\ \A i \in 1..Len(P) : Among(P[i], Q)
      <4>1. Grown(After(P, this), P, this, new, m) /\ FirstOf(After(P, this)) = FirstOf(P)
        BY <3>11, ExtendedList
      <4> QED
        BY <3>9, <4>1 DEF Grown
    <3>13. \A i \in 1..Len(B) : new[B[i]] = q.next[B[i]]
      <4> TAKE i \in 1..Len(B)
      <4>1. B[i] # z
        BY <1>5, <3>1, <3>2
      <4> QED
        BY <1>15, <3>6, <4>1
    <3>14. r.pending \in 0..m /\ Len(Q) \in Nat /\ r.pending = FirstOf(P)
      <4>1. q.pending \in 0..n
        BY <1>1 DEF QueueRecord
      <4> QED
        BY <1>1, <1>2, <1>5, <3>3, <3>12, <4>1
    <3> QED
      BY <3>5, <3>6, <3>12, <3>13, <3>14
  <2>3. CASE q.pending # NULL /\ ~tail
    <3>1. PICK new : new = r.next
      OBVIOUS
    <3>2. new = [fresh EXCEPT ![this] = q.pending] /\ r.pending = this
      BY <1>13, <2>3, <3>1
    <3>3. q.pending \in 0..n /\ q.pending \in 0..m
      <4>1. q.pending \in 0..n
        BY <1>1 DEF QueueRecord
      <4> QED
        BY <1>1, <1>5, <4>1
    <3>4. /\ new \in [1..m -> 0..m] /\ new[this] = FirstOf(P)
          /\ \A c \in 1..n : c # this => new[c] = q.next[c]
      BY <1>2, <1>5, <1>8, <3>2, <3>3
    <3>5. IsList(P, new, m)
      <4>1. \A i \in 1..Len(P) : new[P[i]] = q.next[P[i]]
        BY <1>15, <3>4
      <4> QED
        BY <1>1, <1>2, <1>5, <4>1, SameList
    <3>6. Q = Before(this, P)
      BY <1>14, <2>3
    <3>7. /\ IsList(Q, new, m) /\ FirstOf(Q) = this /\ Len(Q) = Len(P) + 1
          /\ Among(this, Q)
          /\ \A i \in 1..Len(Q) : Q[i] = this \/ Among(Q[i], P)
          /\ \A i \in 1..Len(P) : Among(P[i], Q)
      <4>0. /\ m \in Nat /\ this \in 1..m /\ IsList(P, new, m)
            /\ ~Among(this, P) /\ new[this] = FirstOf(P)
        BY <1>5, <3>4, <3>5
      <4>1. Grown(Before(this, P), P, this, new, m) /\ FirstOf(Before(this, P)) = this
        BY <4>0, LongerList, Zenon
      <4> QED
        BY <3>6, <4>1 DEF Grown
    <3>8. \A i \in 1..Len(B) : new[B[i]] = q.next[B[i]]
      BY <1>15, <3>4
    <3>9. r.pending \in 0..m /\ Len(Q) \in Nat
      BY <1>1, <1>5, <3>2, <3>7
    <3> QED
      BY <3>1, <3>2, <3>4, <3>7, <3>8, <3>9
  <2> QED
    BY <2>1, <2>2, <2>3
<1>18. IsList(B, r.next, m)
  BY <1>1, <1>5, <1>17, SameList
<1>19. r.available \in 0..m
  BY <1>5, <1>6, <1>16 DEF FirstOf, NULL
<1>20. r \in QueueRecord(m)
  <2>1. r = [pending |-> r.pending, available |-> r.available, next |-> r.next,
             event |-> r.event]
    BY <1>13
  <2>2. r.event \in [1..m -> Event \cup {NoEvent}]
    BY <1>12, <1>16
  <2>3. PICK p, a, nx, ev : p = r.pending /\ a = r.available /\ nx = r.next /\ ev = r.event
    OBVIOUS
  <2>4. p \in 0..m /\ a \in 0..m /\ nx \in [1..m -> 0..m] /\ ev \in [1..m -> Event \cup {NoEvent}]
    BY <1>17, <1>19, <2>2, <2>3
  <2>5. r = [pending |-> p, available |-> a, next |-> nx, event |-> ev]
    BY <2>1, <2>3
  <2> QED
    BY <2>4, <2>5 DEF QueueRecord
<1>21. \A i \in 1..Len(Q) : r.event[Q[i]] \in Event
  <2> TAKE i \in 1..Len(Q)
  <2>1. CASE Q[i] = this
    BY <1>12, <1>16, <2>1
  <2>2. CASE Q[i] # this
    <3>1. PICK k \in 1..Len(P) : P[k] = Q[i]
      BY <1>17, <2>2 DEF Among
    <3> QED
      BY <1>2, <1>12, <1>15, <1>16, <3>1
  <2> QED
    BY <2>1, <2>2
<1>22. \A i \in 1..Len(Q), j \in 1..Len(B) : Q[i] # B[j]
  <2> SUFFICES ASSUME NEW i \in 1..Len(Q), NEW j \in 1..Len(B), Q[i] = B[j] PROVE FALSE
    OBVIOUS
  <2>1. Q[i] # this
    BY <1>15
  <2>2. PICK k \in 1..Len(P) : P[k] = Q[i]
    BY <1>17, <2>1 DEF Among
  <2> QED
    BY <1>5, <2>2
<1>23. \A c \in 1..m : Among(c, Q) \/ Among(c, B)
  <2> TAKE c \in 1..m
  <2>1. CASE Among(c, P)
    <3>1. PICK k \in 1..Len(P) : P[k] = c
      BY <2>1 DEF Among
    <3> QED
      BY <1>17, <3>1
  <2> QED
    BY <1>5, <1>17, <2>1
<1>24. Lists(r, m, Q, B)
  BY <1>5, <1>16, <1>17, <1>18, <1>20, <1>21, <1>22, <1>23 DEF Lists
<1> QED
  BY <1>5, <1>10, <1>12, <1>14, <1>16, <1>24 DEF Enqueued
\* where a record is in a list
Place(c, s) == CHOOSE i \in 1..Len(s) : s[i] = c

\* a record is in a list at one place only
LEMMA PlaceProperties ==
    ASSUME NEW s, NEW next, NEW n, IsList(s, next, n)
    PROVE  \A i \in 1..Len(s) : Place(s[i], s) = i /\ Among(s[i], s)
<1> TAKE i \in 1..Len(s)
<1>1. PICK p : p = Place(s[i], s)
  OBVIOUS
<1>2. p \in 1..Len(s) /\ s[p] = s[i]
  BY <1>1 DEF Place
<1> QED
  BY <1>1, <1>2 DEF IsList, Among

\* the events of a list from its i-th record on
EventsFrom(q, s, i) == [j \in 1..(Len(s) + 1 - i) |-> q.event[s[i - 1 + j]]]

\* the events from a record on: its own, and those from the next one on
LEMMA EventsFromStep ==
    ASSUME NEW q, NEW S, NEW s \in Seq(S), NEW i \in 1..Len(s)
    PROVE  EventsFrom(q, s, i) = <<q.event[s[i]]>>
                                 \o (IF i = Len(s) THEN <<>> ELSE EventsFrom(q, s, i + 1))
<1>1. Len(s) \in Nat /\ i \in Nat
  BY LenProperties
<1>2. PICK l : l = Len(s) + 1 - i
  OBVIOUS
<1>3. l \in Nat /\ l >= 1 /\ (l = 1 <=> i = Len(s)) /\ Len(s) + 1 - (i + 1) = l - 1
  BY <1>1, <1>2
<1>4. PICK E : E = [j \in 1..l |-> q.event[s[i - 1 + j]]]
  OBVIOUS
<1>5. PICK X : X = {q.event[s[k]] : k \in 1..Len(s)}
  OBVIOUS
<1>6. E \in Seq(X) /\ Len(E) = l
  <2>1. \A j \in 1..l : i - 1 + j \in 1..Len(s)
    BY <1>1, <1>2, <1>3
  <2>2. \A j \in 1..l : q.event[s[i - 1 + j]] \in X
    BY <1>5, <2>1
  <2> QED
    BY <1>3, <1>4, <2>2
<1>7. PICK F : F = IF i = Len(s) THEN <<>> ELSE EventsFrom(q, s, i + 1)
  OBVIOUS
<1>8. F \in Seq(X) /\ Len(F) = l - 1 /\ \A j \in 1..(l - 1) : F[j] = E[j + 1]
  <2>1. CASE i = Len(s)
    <3>1. F = <<>> /\ l - 1 = 0
      BY <1>3, <1>7, <2>1
    <3> QED
      BY <3>1
  <2>2. CASE i # Len(s)
    <3>0. F = [j \in 1..(Len(s) + 1 - (i + 1)) |-> q.event[s[i + 1 - 1 + j]]]
      <4>1. F = EventsFrom(q, s, i + 1)
        BY <1>7, <2>2
      <4> QED
        BY <4>1 DEF EventsFrom
    <3>1. F = [j \in 1..(l - 1) |-> q.event[s[i + 1 - 1 + j]]]
      <4>1. Len(s) + 1 - (i + 1) = l - 1
        BY <1>3
      <4> QED
        BY <3>0, <4>1, Zenon
    <3>2. \A j \in 1..(l - 1) : /\ i + 1 - 1 + j = i - 1 + (j + 1) /\ j + 1 \in 1..l
                                /\ i + 1 - 1 + j \in 1..Len(s)
      BY <1>1, <1>2, <1>3
    <3>3. \A j \in 1..(l - 1) : F[j] = E[j + 1] /\ F[j] \in X
      BY <1>4, <1>5, <3>1, <3>2
    <3>4. l - 1 \in Nat
      BY <1>3
    <3>5. F \in Seq(X) /\ Len(F) = l - 1
      <4>1. F = [j \in 1..(l - 1) |-> F[j]]
        BY <3>1
      <4> QED
        BY <3>3, <3>4, <4>1
    <3> QED
      BY <3>3, <3>5
  <2> QED
    BY <2>1, <2>2
<1>9. PICK G : G = <<q.event[s[i]]>> \o F
  OBVIOUS
<1>10. E[1] = q.event[s[i]] /\ E[1] \in X
  <2>1. 1 \in 1..l /\ i - 1 + 1 = i
    BY <1>1, <1>3
  <2> QED
    BY <1>4, <1>5, <2>1
<1>11. /\ G \in Seq(X) /\ Len(G) = l
       /\ \A j \in 1..l : G[j] = IF j = 1 THEN E[1] ELSE F[j - 1]
  <2>1. PICK H : H = <<E[1]>>
    OBVIOUS
  <2>2. H \in Seq(X) /\ Len(H) = 1 /\ H[1] = E[1]
    BY <1>10, <2>1
  <2>3. G = H \o F
    BY <1>9, <1>10, <2>1
  <2>4. /\ G \in Seq(X) /\ Len(G) = Len(H) + Len(F)
        /\ \A j \in 1..(Len(H) + Len(F)) : G[j] = IF j <= Len(H) THEN H[j] ELSE F[j - Len(H)]
    <3>1. H \in Seq(X) /\ F \in Seq(X)
      BY <1>8, <2>2
    <3> QED
      BY <2>3, <3>1, ConcatProperties
  <2>5. Len(H) + Len(F) = l
    BY <1>3, <1>8, <2>2
  <2>6. ASSUME NEW j \in 1..l PROVE G[j] = IF j = 1 THEN E[1] ELSE F[j - 1]
    <3>1. j <= Len(H) <=> j = 1
      BY <1>3, <2>2
    <3> QED
      BY <2>2, <2>4, <2>5, <3>1
  <2> QED
    BY <2>4, <2>5, <2>6
<1>12. ASSUME NEW j \in 1..l PROVE G[j] = E[j]
  <2>1. CASE j = 1
    BY <1>11, <2>1
  <2>2. CASE j # 1
    <3>1. j - 1 \in 1..(l - 1) /\ j - 1 + 1 = j
      BY <1>3, <2>2
    <3> QED
      BY <1>8, <1>11, <2>2, <3>1
  <2> QED
    BY <2>1, <2>2
<1>13. G = E
  BY <1>6, <1>11, <1>12, SeqEqual
<1> QED
  BY <1>2, <1>4, <1>7, <1>9, <1>13 DEF EventsFrom
\* Contents follows the pending list.
LEMMA ContentsLists ==
    ASSUME NEW q, NEW n, NEW P, NEW A, Lists(q, n, P, A)
    PROVE  Contents(q) = EventsOf(q, P)
<1>1. /\ n \in Nat /\ q \in QueueRecord(n)
      /\ P \in Seq(1..n) /\ A \in Seq(1..n) /\ Len(P) \in Nat /\ Len(A) \in Nat
      /\ \A i \in 1..Len(P) : P[i] \in 1..n
      /\ \A i \in 1..Len(A) : A[i] \in 1..n
      /\ q.pending = NULL <=> Len(P) = 0
  BY ListsTyped
<1>2. /\ IsList(P, q.next, n) /\ IsList(A, q.next, n) /\ q.pending = FirstOf(P)
      /\ \A i \in 1..Len(P), j \in 1..Len(A) : P[i] # A[j]
      /\ \A c \in 1..n : Among(c, P) \/ Among(c, A)
  BY DEF Lists
<1>3. PICK S : S = DOMAIN q.next \cup {NULL}
  OBVIOUS
<1>4. S = (1..n) \cup {NULL} /\ NULL \notin 1..n
  BY <1>1, <1>3 DEF QueueRecord, NULL
<1>5. PICK g : g = [c \in S |-> IF c = NULL THEN <<>>
                                ELSE IF Among(c, P) THEN EventsFrom(q, P, Place(c, P))
                                ELSE EventsFrom(q, A, Place(c, A))]
  OBVIOUS
<1>6. ASSUME NEW i \in 1..Len(P) PROVE g[P[i]] = EventsFrom(q, P, i)
  <2>1. P[i] \in S /\ P[i] # NULL
    BY <1>1, <1>4
  <2>2. Place(P[i], P) = i /\ Among(P[i], P)
    BY <1>2, PlaceProperties
  <2> QED
    BY <1>5, <2>1, <2>2
<1>7. ASSUME NEW i \in 1..Len(A) PROVE g[A[i]] = EventsFrom(q, A, i)
  <2>1. A[i] \in S /\ A[i] # NULL
    BY <1>1, <1>4
  <2>2. Place(A[i], A) = i /\ ~Among(A[i], P)
    BY <1>2, PlaceProperties DEF Among
  <2> QED
    BY <1>5, <2>1, <2>2
<1>8. g[NULL] = <<>>
  BY <1>4, <1>5
<1>9. ASSUME NEW c \in 1..n PROVE g[c] = <<q.event[c]>> \o g[q.next[c]]
  <2>1. CASE Among(c, P)
    <3>1. PICK i \in 1..Len(P) : P[i] = c
      BY <2>1 DEF Among
    <3>2. q.next[c] = IF i = Len(P) THEN NULL ELSE P[i + 1]
      BY <1>2, <3>1 DEF IsList
    <3>3. g[q.next[c]] = IF i = Len(P) THEN <<>> ELSE EventsFrom(q, P, i + 1)
      <4>1. i # Len(P) => i + 1 \in 1..Len(P)
        BY <1>1
      <4> QED
        BY <1>6, <1>8, <3>2, <4>1
    <3> QED
      <4>1. EventsFrom(q, P, i) = <<q.event[P[i]]>>
                     \o (IF i = Len(P) THEN <<>> ELSE EventsFrom(q, P, i + 1))
        BY <1>1, EventsFromStep
      <4>2. g[c] = EventsFrom(q, P, i)
        BY <1>6, <3>1
      <4> QED
        BY <3>1, <3>3, <4>1, <4>2
  <2>2. CASE Among(c, A)
    <3>1. PICK i \in 1..Len(A) : A[i] = c
      BY <2>2 DEF Among
    <3>2. q.next[c] = IF i = Len(A) THEN NULL ELSE A[i + 1]
      BY <1>2, <3>1 DEF IsList
    <3>3. g[q.next[c]] = IF i = Len(A) THEN <<>> ELSE EventsFrom(q, A, i + 1)
      <4>1. i # Len(A) => i + 1 \in 1..Len(A)
        BY <1>1
      <4> QED
        BY <1>7, <1>8, <3>2, <4>1
    <3> QED
      <4>1. EventsFrom(q, A, i) = <<q.event[A[i]]>>
                     \o (IF i = Len(A) THEN <<>> ELSE EventsFrom(q, A, i + 1))
        BY <1>1, EventsFromStep
      <4>2. g[c] = EventsFrom(q, A, i)
        BY <1>7, <3>1
      <4> QED
        BY <3>1, <3>3, <4>1, <4>2
  <2> QED
    BY <1>2, <2>1, <2>2
<1>10. g = [c \in S |-> IF c = NULL THEN <<>> ELSE <<q.event[c]>> \o g[q.next[c]]]
  <2>1. \A c \in S : g[c] = IF c = NULL THEN <<>> ELSE <<q.event[c]>> \o g[q.next[c]]
    BY <1>4, <1>8, <1>9
  <2>2. g = [c \in S |-> g[c]]
    BY <1>5
  <2> QED
    BY <2>1, <2>2, Zenon
<1>11. PICK w : w = CHOOSE f : f = [c \in S |-> IF c = NULL THEN <<>>
                                               ELSE <<q.event[c]>> \o f[q.next[c]]]
  OBVIOUS
<1>12. w = [c \in S |-> IF c = NULL THEN <<>> ELSE <<q.event[c]>> \o w[q.next[c]]]
  BY <1>10, <1>11, Zenon
<1>13. Contents(q) = w[q.pending]
  BY <1>3, <1>11 DEF Contents
<1>14. w[NULL] = <<>> /\ \A c \in 1..n : w[c] = <<q.event[c]>> \o w[q.next[c]]
  BY <1>4, <1>12
<1>15. CASE Len(P) = 0
  <2>1. EventsOf(q, P) = <<>>
    BY <1>15 DEF EventsOf
  <2> QED
    BY <1>1, <1>13, <1>14, <1>15, <2>1
<1>16. CASE Len(P) # 0
  <2>1. PICK l : l = Len(P) - 1
    OBVIOUS
  <2>2. l \in Nat /\ Len(P) = l + 1
    BY <1>1, <1>16, <2>1
  <2>3. PICK T : T = {k \in 0..l : w[P[Len(P) - k]] = EventsFrom(q, P, Len(P) - k)}
    OBVIOUS
  <2>4. \A k \in 0..l : Len(P) - k \in 1..Len(P)
    BY <1>1, <2>2
  <2>5. ASSUME NEW i \in 1..Len(P), i # Len(P) => w[P[i + 1]] = EventsFrom(q, P, i + 1)
        PROVE  w[P[i]] = EventsFrom(q, P, i)
    <3>1. q.next[P[i]] = IF i = Len(P) THEN NULL ELSE P[i + 1]
      BY <1>2 DEF IsList
    <3>2. w[q.next[P[i]]] = IF i = Len(P) THEN <<>> ELSE EventsFrom(q, P, i + 1)
      BY <1>14, <2>5, <3>1
    <3>3. w[P[i]] = <<q.event[P[i]]>> \o w[q.next[P[i]]]
      BY <1>1, <1>14
    <3> QED
      BY <1>1, <3>2, <3>3, EventsFromStep
  <2>6. 0 \in T
    <3>1. Len(P) \in 1..Len(P) /\ Len(P) - 0 = Len(P) /\ 0 \in 0..l
      BY <2>2
    <3>2. w[P[Len(P)]] = EventsFrom(q, P, Len(P))
      BY <2>5, <3>1
    <3> QED
      BY <2>3, <3>1, <3>2
  <2>7. ASSUME NEW k \in 1..l, k - 1 \in T PROVE k \in T
    <3>1. /\ k \in 0..l /\ Len(P) - k \in 1..Len(P) /\ Len(P) - k + 1 = Len(P) - (k - 1)
      BY <1>1, <2>2, <2>4
    <3>2. w[P[Len(P) - (k - 1)]] = EventsFrom(q, P, Len(P) - (k - 1))
      BY <2>3, <2>7
    <3>3. w[P[Len(P) - k + 1]] = EventsFrom(q, P, Len(P) - k + 1)
      BY <3>1, <3>2
    <3>4. w[P[Len(P) - k]] = EventsFrom(q, P, Len(P) - k)
      BY <2>5, <3>1, <3>3
    <3> QED
      BY <2>3, <3>1, <3>4
  <2>8. l \in T
    <3>1. \A k \in 0..l : k \in T
      BY <2>2, <2>6, <2>7, CountUp
    <3> QED
      BY <2>2, <3>1
  <2>9. w[P[1]] = EventsFrom(q, P, 1)
    <3>1. Len(P) - l = 1
      BY <2>2
    <3> QED
      BY <2>3, <2>8, <3>1
  <2>10. EventsFrom(q, P, 1) = EventsOf(q, P)
    <3>1. Len(P) + 1 - 1 = Len(P) /\ \A j \in 1..Len(P) : 1 - 1 + j = j
      BY <1>1
    <3> QED
      BY <3>1 DEF EventsFrom, EventsOf
  <2>11. q.pending = P[1]
    BY <1>2, <1>16 DEF FirstOf
  <2> QED
    BY <1>13, <2>9, <2>10, <2>11
<1> QED
  BY <1>15, <1>16

\* The search for the last pending event ends at the end of the pending list.
LEMMA LastLists ==
    ASSUME NEW q, NEW n, NEW P, NEW A, Lists(q, n, P, A), q.pending # NULL
    PROVE  LastPending(q) = P[Len(P)]
<1>1. /\ n \in Nat /\ q \in QueueRecord(n)
      /\ Len(P) \in Nat /\ Len(A) \in Nat
      /\ \A i \in 1..Len(P) : P[i] \in 1..n
      /\ \A i \in 1..Len(A) : A[i] \in 1..n
      /\ Len(P) # 0
  BY ListsTyped
<1>2. /\ IsList(P, q.next, n) /\ IsList(A, q.next, n) /\ q.pending = FirstOf(P)
      /\ \A i \in 1..Len(P), j \in 1..Len(A) : P[i] # A[j]
      /\ \A c \in 1..n : Among(c, P) \/ Among(c, A)
  BY DEF Lists
<1>3. PICK S : S = DOMAIN q.next
  OBVIOUS
<1>4. S = 1..n /\ NULL \notin 1..n
  BY <1>1, <1>3 DEF QueueRecord, NULL
<1>5. PICK g : g = [c \in S |-> IF Among(c, P) THEN P[Len(P)] ELSE A[Len(A)]]
  OBVIOUS
<1>6. \A i \in 1..Len(P) : g[P[i]] = P[Len(P)]
  BY <1>1, <1>4, <1>5 DEF Among
<1>7. \A i \in 1..Len(A) : g[A[i]] = A[Len(A)]
  BY <1>1, <1>2, <1>4, <1>5 DEF Among
<1>8. ASSUME NEW c \in 1..n PROVE g[c] = IF q.next[c] = NULL THEN c ELSE g[q.next[c]]
  <2>1. CASE Among(c, P)
    <3>1. PICK i \in 1..Len(P) : P[i] = c
      BY <2>1 DEF Among
    <3>2. q.next[c] = IF i = Len(P) THEN NULL ELSE P[i + 1]
      BY <1>2, <3>1 DEF IsList
    <3>3. i # Len(P) => i + 1 \in 1..Len(P) /\ P[i + 1] # NULL
      BY <1>1, <1>4
    <3> QED
      BY <1>6, <3>1, <3>2, <3>3
  <2>2. CASE Among(c, A)
    <3>1. PICK i \in 1..Len(A) : A[i] = c
      BY <2>2 DEF Among
    <3>2. q.next[c] = IF i = Len(A) THEN NULL ELSE A[i + 1]
      BY <1>2, <3>1 DEF IsList
    <3>3. i # Len(A) => i + 1 \in 1..Len(A) /\ A[i + 1] # NULL
      BY <1>1, <1>4
    <3> QED
      BY <1>7, <3>1, <3>2, <3>3
  <2> QED
    BY <1>2, <2>1, <2>2
<1>9. g = [c \in S |-> IF q.next[c] = NULL THEN c ELSE g[q.next[c]]]
  <2>1. g = [c \in S |-> g[c]]
    BY <1>5
  <2>2. \A c \in S : g[c] = IF q.next[c] = NULL THEN c ELSE g[q.next[c]]
    BY <1>4, <1>8
  <2> QED
    BY <2>1, <2>2, Zenon
<1>10. PICK w : w = CHOOSE f : f = [c \in S |-> IF q.next[c] = NULL THEN c ELSE f[q.next[c]]]
  OBVIOUS
<1>11. w = [c \in S |-> IF q.next[c] = NULL THEN c ELSE w[q.next[c]]]
  BY <1>9, <1>10, Zenon
<1>12. LastPending(q) = w[q.pending]
  BY <1>3, <1>10 DEF LastPending
<1>13. \A c \in 1..n : w[c] = IF q.next[c] = NULL THEN c ELSE w[q.next[c]]
  BY <1>4, <1>11
<1>14. PICK l : l = Len(P) - 1
  OBVIOUS
<1>15. l \in Nat /\ Len(P) = l + 1
  BY <1>1, <1>14
<1>16. PICK T : T = {k \in 0..l : w[P[Len(P) - k]] = P[Len(P)]}
  OBVIOUS
<1>17. 0 \in T
  <2>1. Len(P) \in 1..Len(P) /\ Len(P) - 0 = Len(P) /\ 0 \in 0..l
    BY <1>15
  <2>2. q.next[P[Len(P)]] = NULL
    BY <1>2, <2>1 DEF IsList
  <2>3. w[P[Len(P)]] = P[Len(P)]
    BY <1>1, <1>13, <2>1, <2>2
  <2> QED
    BY <1>16, <2>1, <2>3
<1>18. ASSUME NEW k \in 1..l, k - 1 \in T PROVE k \in T
  <2>1. PICK i : i = Len(P) - k
    OBVIOUS
  <2>2. /\ k \in 0..l /\ i \in 1..Len(P) /\ i # Len(P) /\ i + 1 = Len(P) - (k - 1)
        /\ i + 1 \in 1..Len(P)
    BY <1>1, <1>15, <2>1
  <2>3. w[P[i + 1]] = P[Len(P)]
    BY <1>16, <1>18, <2>2
  <2>4. q.next[P[i]] = P[i + 1]
    BY <1>2, <2>2 DEF IsList
  <2>5. P[i + 1] # NULL
    BY <1>1, <1>4, <2>2
  <2>6. w[P[i]] = P[Len(P)]
    BY <1>1, <1>13, <2>2, <2>3, <2>4, <2>5
  <2> QED
    BY <1>16, <2>1, <2>2, <2>6
<1>19. l \in T
  <2>1. \A k \in 0..l : k \in T
    BY <1>15, <1>17, <1>18, CountUp
  <2> QED
    BY <1>15, <2>1
<1>20. Len(P) - l = 1 /\ q.pending = P[1]
  BY <1>1, <1>2, <1>15 DEF FirstOf
<1> QED
  BY <1>12, <1>16, <1>19, <1>20
\* the first k + 1 of the records of s and the NULL at its end
Reached(s, k) ==
    [i \in 1..((IF k <= Len(s) THEN k ELSE Len(s)) + 1) |-> IF i <= Len(s) THEN s[i] ELSE NULL]

\* what one more step along the list gives
Onward(t, next) == IF t[Len(t)] = NULL THEN t ELSE Append(t, next[t[Len(t)]])

\* what is reached after k steps is one step onward from what is reached after k - 1
LEMMA ReachedStep ==
    ASSUME NEW n \in Nat, NEW next, NEW s, IsList(s, next, n), NEW k \in Nat, k # 0
    PROVE  Reached(s, k) = Onward(Reached(s, k - 1), next)
<1>1. s \in Seq(1..n) /\ Len(s) \in Nat /\ \A i \in 1..Len(s) : s[i] \in 1..n
  BY LenProperties, ElementOfSeq DEF IsList
<1>2. PICK t, u : t = Reached(s, k - 1) /\ u = Reached(s, k)
  OBVIOUS
<1>3. PICK X : X = 0..n
  OBVIOUS
<1>4. \A i \in Nat \ {0} : (IF i <= Len(s) THEN s[i] ELSE NULL) \in X
  <2>1. \A i \in Nat \ {0} : i <= Len(s) => i \in 1..Len(s)
    BY <1>1
  <2>2. NULL \in X /\ \A c \in 1..n : c \in X
    BY <1>3 DEF NULL
  <2> QED
    BY <1>1, <2>1, <2>2
<1>5. ASSUME NEW l \in Nat, NEW v, v = [i \in 1..(l + 1) |-> IF i <= Len(s) THEN s[i] ELSE NULL]
      PROVE  /\ v \in Seq(X) /\ Len(v) = l + 1
             /\ \A i \in 1..(l + 1) : v[i] = IF i <= Len(s) THEN s[i] ELSE NULL
  <2>1. \A i \in 1..(l + 1) : v[i] = IF i <= Len(s) THEN s[i] ELSE NULL
    BY <1>5
  <2>2. \A i \in 1..(l + 1) : v[i] \in X
    BY <1>4, <2>1
  <2> QED
    BY <1>5, <2>1, <2>2
<1>6. CASE k > Len(s)
  <2>1. u = [i \in 1..(Len(s) + 1) |-> IF i <= Len(s) THEN s[i] ELSE NULL]
    <3>1. ~(k <= Len(s))
      BY <1>1, <1>6
    <3> QED
      BY <1>2, <3>1 DEF Reached
  <2>2. t = u
    <3>1. (IF k - 1 <= Len(s) THEN k - 1 ELSE Len(s)) = Len(s)
      BY <1>1, <1>6
    <3> QED
      BY <1>2, <2>1, <3>1 DEF Reached
  <2>3. /\ Len(u) = Len(s) + 1
        /\ \A i \in 1..(Len(s) + 1) : u[i] = IF i <= Len(s) THEN s[i] ELSE NULL
    BY <1>1, <1>5, <2>1
  <2>4. u[Len(u)] = NULL
    <3>1. Len(s) + 1 \in 1..(Len(s) + 1) /\ ~(Len(s) + 1 <= Len(s))
      BY <1>1
    <3> QED
      BY <2>3, <3>1
  <2> QED
    BY <1>2, <2>2, <2>4 DEF Onward
<1>7. CASE k <= Len(s)
  <2>0. k \in 1..Len(s) /\ k - 1 \in Nat /\ k - 1 + 1 = k
    BY <1>1, <1>7
  <2>1. u = [i \in 1..(k + 1) |-> IF i <= Len(s) THEN s[i] ELSE NULL]
    BY <1>2, <1>7 DEF Reached
  <2>2. t = [i \in 1..(k - 1 + 1) |-> IF i <= Len(s) THEN s[i] ELSE NULL]
    <3>1. k - 1 <= Len(s)
      BY <1>1, <1>7
    <3> QED
      BY <1>2, <3>1 DEF Reached
  <2>3. /\ u \in Seq(X) /\ Len(u) = k + 1
        /\ \A i \in 1..(k + 1) : u[i] = IF i <= Len(s) THEN s[i] ELSE NULL
    BY <1>5, <2>1
  <2>4. /\ t \in Seq(X) /\ Len(t) = k
        /\ \A i \in 1..k : t[i] = IF i <= Len(s) THEN s[i] ELSE NULL
    BY <1>5, <2>0, <2>2
  <2>5. t[Len(t)] = s[k] /\ s[k] # NULL
    <3>1. k \in 1..k /\ s[k] \in 1..n
      BY <1>1, <2>0
    <3> QED
      BY <1>7, <2>4, <3>1 DEF NULL
  <2>6. PICK y : y = next[s[k]]
    OBVIOUS
  <2>7. u[k + 1] = y
    <3>1. y = IF k = Len(s) THEN NULL ELSE s[k + 1]
      BY <2>0, <2>6 DEF IsList
    <3>2. k + 1 \in 1..(k + 1) /\ (k + 1 <= Len(s) <=> k # Len(s))
      BY <1>1, <2>0
    <3> QED
      BY <2>3, <3>1, <3>2
  <2>8. y \in X
    <3>1. k + 1 \in 1..Len(u)
      BY <2>3
    <3> QED
      BY <2>3, <2>7, <3>1, ElementOfSeq
  <2>9. PICK v : v = Append(t, y)
    OBVIOUS
  <2>10. /\ v \in Seq(X) /\ Len(v) = k + 1 /\ v[k + 1] = y
         /\ \A i \in 1..k : v[i] = t[i]
    BY <2>4, <2>8, <2>9, AppendProperties
  <2>11. ASSUME NEW i \in 1..(k + 1) PROVE v[i] = u[i]
    <3>1. i = k + 1 \/ i \in 1..k
      OBVIOUS
    <3> QED
      BY <2>3, <2>4, <2>7, <2>10, <3>1
  <2>12. v = u
    BY <2>3, <2>10, <2>11, SeqEqual
  <2> QED
    BY <1>2, <2>5, <2>6, <2>9, <2>12 DEF Onward
<1> QED
  BY <1>1, <1>6, <1>7

\* Records follows a list to its end when it may take enough steps.
LEMMA RecordsList ==
    ASSUME NEW q, NEW n \in Nat, NEW s, IsList(s, q.next, n), NEW m \in Nat, Len(s) <= m
    PROVE  Records(q, FirstOf(s), m) = After(s, NULL)
<1>1. s \in Seq(1..n) /\ Len(s) \in Nat
  BY LenProperties DEF IsList
<1>2. PICK c : c = FirstOf(s)
  OBVIOUS
<1>3. Reached(s, 0) = <<c>>
  <2>1. PICK t : t = Reached(s, 0)
    OBVIOUS
  <2>2. 0 <= Len(s) /\ 1..(0 + 1) = {1} /\ (1 <= Len(s) <=> Len(s) # 0)
    BY <1>1
  <2>3. t = [i \in {1} |-> IF i <= Len(s) THEN s[i] ELSE NULL]
    BY <2>1, <2>2 DEF Reached
  <2>4. t = [i \in {1} |-> c]
    BY <1>2, <2>2, <2>3 DEF FirstOf
  <2>5. [i \in {1} |-> c] = <<c>>
    <3>1. PICK u : u = <<c>>
      OBVIOUS
    <3>2. u \in Seq({c}) /\ Len(u) = 1 /\ u[1] = c
      BY <3>1
    <3>3. u \in [1..1 -> {c}]
      BY <3>2, LenProperties
    <3>4. 1..1 = {1}
      OBVIOUS
    <3> QED
      BY <3>1, <3>2, <3>3, <3>4
  <2> QED
    BY <2>1, <2>4, <2>5
<1>4. PICK g : g = [k \in 0..m |-> Reached(s, k)]
  OBVIOUS
<1>5. g = [k \in 0..m |-> IF k = 0 THEN <<c>> ELSE Onward(g[k - 1], q.next)]
  <2>1. ASSUME NEW k \in 0..m PROVE g[k] = IF k = 0 THEN <<c>> ELSE Onward(g[k - 1], q.next)
    <3>1. CASE k = 0
      BY <1>3, <1>4, <3>1
    <3>2. CASE k # 0
      <4>1. k \in Nat /\ k - 1 \in 0..m
        BY <3>2
      <4>2. Reached(s, k) = Onward(Reached(s, k - 1), q.next)
        BY <3>2, <4>1, ReachedStep
      <4> QED
        BY <1>4, <3>2, <4>1, <4>2
    <3> QED
      BY <3>1, <3>2
  <2>2. g = [k \in 0..m |-> g[k]]
    BY <1>4
  <2> QED
    BY <2>1, <2>2, Zenon
<1>6. PICK w : w = CHOOSE f : f = [k \in 0..m |-> IF k = 0 THEN <<c>> ELSE Onward(f[k - 1], q.next)]
  OBVIOUS
<1>7. w = [k \in 0..m |-> IF k = 0 THEN <<c>> ELSE Onward(w[k - 1], q.next)]
  BY <1>5, <1>6, Zenon
<1>8. Records(q, c, m) = w[m]
  BY <1>6 DEF Records, Onward
<1>9. PICK T : T = {k \in 0..m : w[k] = g[k]}
  OBVIOUS
<1>10. 0 \in T
  BY <1>5, <1>7, <1>9
<1>11. ASSUME NEW k \in 1..m, k - 1 \in T PROVE k \in T
  <2>1. k \in 0..m /\ k # 0 /\ w[k - 1] = g[k - 1]
    BY <1>9, <1>11
  <2>2. w[k] = Onward(w[k - 1], q.next) /\ g[k] = Onward(g[k - 1], q.next)
    BY <1>5, <1>7, <2>1
  <2> QED
    BY <1>9, <2>1, <2>2
<1>12. w[m] = Reached(s, m)
  <2>1. \A k \in 0..m : k \in T
    BY <1>10, <1>11, CountUp
  <2>2. m \in 0..m
    OBVIOUS
  <2> QED
    BY <1>4, <1>9, <2>1, <2>2
<1>13. Reached(s, m) = After(s, NULL)
  <2>1. (IF m <= Len(s) THEN m ELSE Len(s)) = Len(s)
    BY <1>1
  <2> QED
    BY <2>1 DEF Reached, After
<1> QED
  BY <1>2, <1>8, <1>12, <1>13
\* a list has at most as many records as are allocated
LEMMA ListLength ==
    ASSUME NEW n \in Nat, NEW next, NEW s, IsList(s, next, n)
    PROVE  Len(s) <= n
<1>1. s \in Seq(1..n) /\ Len(s) \in Nat /\ \A i \in 1..Len(s) : s[i] \in 1..n
  BY LenProperties, ElementOfSeq DEF IsList
<1>2. PICK R : R = {s[i] : i \in 1..Len(s)}
  OBVIOUS
<1>3. Cardinality(R) = Len(s)
  <2>1. \A i, j \in 1..Len(s) : s[i] = s[j] => i = j
    BY DEF IsList
  <2> QED
    BY <1>1, <1>2, <2>1, LengthOfDistinct
<1>4. IsFiniteSet(1..n) /\ Cardinality(1..n) = n
  BY FS_Interval
<1>5. R \subseteq 1..n
  BY <1>1, <1>2
<1>6. Cardinality(R) <= Cardinality(1..n)
  BY <1>4, <1>5, FS_Subset
<1> QED
  BY <1>3, <1>4, <1>6

\* the records of both lists, one after the other, with the NULL at the end of each
AllRecords(q) ==
    LET n == Cardinality(DOMAIN q.next)
    IN  Records(q, q.pending, n) \o Records(q, q.available, n)

\* the records of both lists, each with the NULL that ends it
LEMMA AllRecordsLists ==
    ASSUME NEW q, NEW n, NEW P, NEW A, Lists(q, n, P, A)
    PROVE  AllRecords(q) = After(P, NULL) \o After(A, NULL)
<1>1. n \in Nat /\ q \in QueueRecord(n)
  BY ListsTyped
<1>2. /\ IsList(P, q.next, n) /\ IsList(A, q.next, n)
      /\ q.pending = FirstOf(P) /\ q.available = FirstOf(A)
  BY DEF Lists
<1>3. Cardinality(DOMAIN q.next) = n
  <2>1. DOMAIN q.next = 1..n
    BY <1>1 DEF QueueRecord
  <2>2. Cardinality(1..n) = n
    BY <1>1, FS_Interval
  <2> QED
    BY <2>1, <2>2
<1>4. Len(P) <= n /\ Len(A) <= n
  BY <1>1, <1>2, ListLength
<1>5. Records(q, FirstOf(P), n) = After(P, NULL)
  BY <1>1, <1>2, <1>4, RecordsList
<1>6. Records(q, FirstOf(A), n) = After(A, NULL)
  BY <1>1, <1>2, <1>4, RecordsList
<1> QED
  BY <1>2, <1>3, <1>5, <1>6 DEF AllRecords

\* Every record is in one place of the two lists, and each of the lists ends.
LEMMA RecordsOwned ==
    ASSUME NEW q, ListsOK(q)
    PROVE  LET all == AllRecords(q)
           IN  /\ \A c \in DOMAIN q.next : Cardinality({i \in DOMAIN all : all[i] = c}) = 1
               /\ Cardinality({i \in DOMAIN all : all[i] = NULL}) = 2
<1>1. PICK n, P, A : Lists(q, n, P, A)
  BY DEF ListsOK
<1>2. /\ n \in Nat /\ q \in QueueRecord(n)
      /\ Len(P) \in Nat /\ Len(A) \in Nat
      /\ \A i \in 1..Len(P) : P[i] \in 1..n
      /\ \A i \in 1..Len(A) : A[i] \in 1..n
  BY <1>1, ListsTyped
<1>3. /\ \A i, j \in 1..Len(P) : P[i] = P[j] => i = j
      /\ \A i, j \in 1..Len(A) : A[i] = A[j] => i = j
      /\ \A i \in 1..Len(P), j \in 1..Len(A) : P[i] # A[j]
      /\ \A c \in 1..n : Among(c, P) \/ Among(c, A)
  BY <1>1 DEF Lists, IsList
<1>4. PICK p, a : p = After(P, NULL) /\ a = After(A, NULL)
  OBVIOUS
<1>5. \A c \in 1..n : c \in 0..n /\ c # NULL
  BY <1>2 DEF NULL
<1>6. /\ p \in Seq(0..n) /\ Len(p) = Len(P) + 1
      /\ \A i \in 1..(Len(P) + 1) : p[i] = IF i <= Len(P) THEN P[i] ELSE NULL
  <2>1. \A i \in 1..(Len(P) + 1) : p[i] = IF i <= Len(P) THEN P[i] ELSE NULL
    BY <1>4 DEF After
  <2>2. \A i \in 1..(Len(P) + 1) : i <= Len(P) => i \in 1..Len(P)
    BY <1>2
  <2>3. NULL \in 0..n
    BY <1>2 DEF NULL
  <2>4. \A i \in 1..(Len(P) + 1) : p[i] \in 0..n
    BY <1>2, <1>5, <2>1, <2>2, <2>3
  <2> QED
    BY <1>2, <1>4, <2>1, <2>4 DEF After
<1>7. /\ a \in Seq(0..n) /\ Len(a) = Len(A) + 1
      /\ \A i \in 1..(Len(A) + 1) : a[i] = IF i <= Len(A) THEN A[i] ELSE NULL
  <2>1. \A i \in 1..(Len(A) + 1) : a[i] = IF i <= Len(A) THEN A[i] ELSE NULL
    BY <1>4 DEF After
  <2>2. \A i \in 1..(Len(A) + 1) : i <= Len(A) => i \in 1..Len(A)
    BY <1>2
  <2>3. NULL \in 0..n
    BY <1>2 DEF NULL
  <2>4. \A i \in 1..(Len(A) + 1) : a[i] \in 0..n
    BY <1>2, <1>5, <2>1, <2>2, <2>3
  <2> QED
    BY <1>2, <1>4, <2>1, <2>4 DEF After
<1>8. PICK all : all = p \o a
  OBVIOUS
<1>9. PICK x, y : x = Len(P) + 1 /\ y = Len(P) + Len(A) + 2
  OBVIOUS
<1>10. x \in Nat /\ y \in Nat /\ x < y /\ x \in 1..y /\ y \in 1..y
  BY <1>2, <1>9
<1>11. /\ DOMAIN all = 1..y
       /\ \A i \in 1..y : all[i] = IF i <= x THEN p[i] ELSE a[i - x]
  <2>1. /\ all \in Seq(0..n) /\ Len(all) = Len(p) + Len(a)
        /\ \A i \in 1..(Len(p) + Len(a)) : all[i] = IF i <= Len(p) THEN p[i] ELSE a[i - Len(p)]
    <3>1. p \in Seq(0..n) /\ a \in Seq(0..n)
      BY <1>6, <1>7
    <3> QED
      BY <1>8, <3>1, ConcatProperties
  <2>2. Len(p) = x /\ Len(p) + Len(a) = y
    BY <1>2, <1>6, <1>7, <1>9
  <2>3. DOMAIN all = 1..Len(all)
    BY <2>1, LenProperties
  <2> QED
    BY <2>1, <2>2, <2>3
<1>12. /\ \A i \in 1..Len(P) : i \in 1..y /\ i # x /\ i # y /\ all[i] = P[i]
       /\ \A i \in 1..Len(A) : x + i \in 1..y /\ x + i # x /\ x + i # y /\ all[x + i] = A[i]
       /\ all[x] = NULL /\ all[y] = NULL
       /\ \A i \in 1..y : i = x \/ i = y \/ i \in 1..Len(P) \/ i - x \in 1..Len(A)
  <2>1. ASSUME NEW i \in 1..Len(P) PROVE i \in 1..y /\ i # x /\ i # y /\ all[i] = P[i]
    <3>1. i \in 1..y /\ i # x /\ i # y /\ i <= x /\ i <= Len(P) /\ i \in 1..(Len(P) + 1)
      BY <1>2, <1>9
    <3>2. all[i] = p[i] /\ p[i] = P[i]
      BY <1>6, <1>11, <3>1
    <3> QED
      BY <3>1, <3>2
  <2>2. ASSUME NEW i \in 1..Len(A)
        PROVE  x + i \in 1..y /\ x + i # x /\ x + i # y /\ all[x + i] = A[i]
    <3>1. /\ x + i \in 1..y /\ x + i # x /\ x + i # y /\ ~(x + i <= x) /\ i <= Len(A)
          /\ i \in 1..(Len(A) + 1) /\ x + i - x = i
      BY <1>2, <1>9, <1>10
    <3>2. all[x + i] = a[i]
      <4>1. PICK z : z = x + i
        OBVIOUS
      <4>2. z \in 1..y /\ ~(z <= x) /\ z - x = i
        BY <1>2, <1>9, <1>10, <4>1
      <4>3. all[z] = a[z - x]
        BY <1>11, <4>2
      <4> QED
        BY <4>1, <4>2, <4>3
    <3>3. a[i] = A[i]
      BY <1>7, <3>1
    <3> QED
      BY <3>1, <3>2, <3>3
  <2>3. all[x] = NULL
    <3>1. x <= x /\ x \in 1..(Len(P) + 1) /\ ~(x <= Len(P))
      BY <1>2, <1>9
    <3> QED
      BY <1>6, <1>10, <1>11, <3>1
  <2>4. all[y] = NULL
    <3>1. PICK z : z = Len(A) + 1
      OBVIOUS
    <3>2. ~(y <= x) /\ y - x = z /\ z \in 1..(Len(A) + 1) /\ ~(z <= Len(A))
      BY <1>2, <1>9, <3>1
    <3> QED
      BY <1>7, <1>10, <1>11, <3>2
  <2>5. \A i \in 1..y : i = x \/ i = y \/ i \in 1..Len(P) \/ i - x \in 1..Len(A)
    BY <1>2, <1>9
  <2> QED
    BY <2>1, <2>2, <2>3, <2>4, <2>5
<1>13. \A i \in 1..y : i - x \in 1..Len(A) => all[i] = A[i - x]
  <2> SUFFICES ASSUME NEW i \in 1..y, i - x \in 1..Len(A) PROVE all[i] = A[i - x]
    OBVIOUS
  <2>1. x + (i - x) = i
    BY <1>10
  <2> QED
    BY <1>12, <2>1
<1>14. ASSUME NEW c \in 1..n PROVE Cardinality({i \in DOMAIN all : all[i] = c}) = 1
  <2>1. \E k : {i \in DOMAIN all : all[i] = c} = {k}
    <3>1. CASE Among(c, P)
      <4>1. PICK k \in 1..Len(P) : P[k] = c
        BY <3>1 DEF Among
      <4>2. k \in 1..y /\ all[k] = c
        BY <1>12, <4>1
      <4>3. ASSUME NEW i \in 1..y, all[i] = c PROVE i = k
        <5>1. i # x /\ i # y
          BY <1>5, <1>12, <4>3
        <5>2. i - x \notin 1..Len(A)
          BY <1>3, <1>13, <4>1, <4>3
        <5>3. i \in 1..Len(P)
          BY <1>12, <5>1, <5>2
        <5> QED
          BY <1>3, <1>12, <4>1, <4>3, <5>3
      <4>4. {i \in DOMAIN all : all[i] = c} = {k}
        BY <1>11, <4>2, <4>3
      <4> QED
        BY <4>4
    <3>2. CASE Among(c, A)
      <4>1. PICK k \in 1..Len(A) : A[k] = c
        BY <3>2 DEF Among
      <4>2. x + k \in 1..y /\ all[x + k] = c
        BY <1>12, <4>1
      <4>3. ASSUME NEW i \in 1..y, all[i] = c PROVE i = x + k
        <5>1. i # x /\ i # y
          BY <1>5, <1>12, <4>3
        <5>2. i \notin 1..Len(P)
          BY <1>3, <1>12, <4>1, <4>3
        <5>3. i - x \in 1..Len(A)
          BY <1>12, <5>1, <5>2
        <5>4. i - x = k
          BY <1>3, <1>13, <4>1, <4>3, <5>3
        <5> QED
          BY <1>10, <5>4
      <4>4. {i \in DOMAIN all : all[i] = c} = {x + k}
        BY <1>11, <4>2, <4>3
      <4> QED
        BY <4>4
    <3> QED
      BY <1>3, <3>1, <3>2
  <2>2. PICK k : {i \in DOMAIN all : all[i] = c} = {k}
    BY <2>1
  <2>3. Cardinality({k}) = 1
    BY FS_Singleton, Zenon
  <2> QED
    BY <2>2, <2>3
<1>15. Cardinality({i \in DOMAIN all : all[i] = NULL}) = 2
  <2>1. ASSUME NEW i \in 1..y, all[i] = NULL PROVE i = x \/ i = y
    <3>1. i \notin 1..Len(P)
      BY <1>2, <1>5, <1>12, <2>1
    <3>2. i - x \notin 1..Len(A)
      BY <1>2, <1>5, <1>13, <2>1
    <3> QED
      BY <1>12, <3>1, <3>2
  <2>2. {i \in DOMAIN all : all[i] = NULL} = {x, y}
    BY <1>10, <1>11, <1>12, <2>1
  <2>3. Cardinality({x, y}) = 2
    <3>1. IsFiniteSet({x}) /\ Cardinality({x}) = 1
      BY FS_Singleton, Zenon
    <3>2. y \notin {x} /\ {x} \cup {y} = {x, y}
      BY <1>10
    <3>3. Cardinality({x} \cup {y}) = Cardinality({x}) + 1
      BY <3>1, <3>2, FS_AddElement
    <3> QED
      BY <3>1, <3>2, <3>3
  <2> QED
    BY <2>2, <2>3
<1>16. DOMAIN q.next = 1..n
  BY <1>2 DEF QueueRecord
<1>17. AllRecords(q) = all
  BY <1>1, <1>4, <1>8, AllRecordsLists
<1> QED
  BY <1>14, <1>15, <1>16, <1>17
-----------------------------------------------------------------------------
(* What the operations do to the contents *)

\* what a queue holds is the events of its pending records
LEMMA ContentsTyped ==
    ASSUME NEW q, NEW n, NEW P, NEW A, Lists(q, n, P, A)
    PROVE  /\ Contents(q) \in Seq(Event) /\ Len(Contents(q)) = Len(P)
           /\ \A i \in 1..Len(P) : Contents(q)[i] = q.event[P[i]]
<1>1. PICK s : s = Contents(q)
  OBVIOUS
<1>2. s = [i \in 1..Len(P) |-> q.event[P[i]]]
  BY <1>1, ContentsLists DEF EventsOf
<1>3. Len(P) \in Nat /\ \A i \in 1..Len(P) : q.event[P[i]] \in Event
  BY ListsTyped DEF Lists
<1>4. s \in Seq(Event) /\ Len(s) = Len(P)
  BY <1>2, <1>3
<1> QED
  BY <1>1, <1>2, <1>4

\* and nothing when no record is pending
LEMMA EmptyContents ==
    ASSUME NEW q, NEW n, NEW A, Lists(q, n, <<>>, A)
    PROVE  Contents(q) = <<>>
<1>1. PICK P : P = <<>>
  OBVIOUS
<1>2. Len(P) = 0
  BY <1>1
<1>3. Contents(q) \in Seq(Event) /\ Len(Contents(q)) = 0
  BY <1>1, <1>2, ContentsTyped
<1> QED
  BY <1>3, EmptySeq

\* eventQueueCreate: no event is queued.
LEMMA CreateContents == ListsOK(eventQueueCreate) /\ Contents(eventQueueCreate) = <<>>
<1>1. PICK n, A : Lists(eventQueueCreate, n, <<>>, A)
  BY CreateLists
<1> QED
  BY <1>1, EmptyContents DEF ListsOK

\* eventQueueClear drops all.
LEMMA ClearContents ==
    ASSUME NEW q
    PROVE  ListsOK(Clear(q)) /\ Contents(Clear(q)) = <<>>
<1>1. Lists(Clear(q), 0, <<>>, <<>>)
  BY ClearLists
<1> QED
  BY <1>1, EmptyContents DEF ListsOK

\* eventQueueDequeue takes the first event.
LEMMA DequeueContents ==
    ASSUME NEW q, ListsOK(q), q.pending # NULL
    PROVE  /\ ListsOK(Dequeue(q))
           /\ Contents(q) # <<>> /\ Contents(Dequeue(q)) = Tail(Contents(q))
<1>1. PICK n, P, A : Lists(q, n, P, A)
  BY DEF ListsOK
<1>2. PICK r, T : r = Dequeue(q) /\ T = Behind(P)
  OBVIOUS
<1>3. PICK B : Lists(r, n, T, B)
  BY <1>1, <1>2, DequeueLists
<1>4. /\ n \in Nat /\ q \in QueueRecord(n) /\ Len(P) \in Nat /\ Len(P) # 0
      /\ \A i \in 1..Len(P) : P[i] \in 1..n
  BY <1>1, ListsTyped
<1>5. Len(T) = Len(P) - 1 /\ \A i \in 1..(Len(P) - 1) : T[i] = P[i + 1]
  <2>1. \A i \in 1..(Len(P) - 1) : T[i] = P[i + 1]
    BY <1>2 DEF Behind
  <2>2. Len(P) - 1 \in Nat
    BY <1>4
  <2> QED
    BY <1>2, <2>1, <2>2 DEF Behind
<1>6. r.event = q.event
  BY <1>2, <1>4 DEF Dequeue, QueueRecord
<1>7. PICK s, t : s = Contents(q) /\ t = Contents(r)
  OBVIOUS
<1>8. s \in Seq(Event) /\ Len(s) = Len(P) /\ \A i \in 1..Len(P) : s[i] = q.event[P[i]]
  BY <1>1, <1>7, ContentsTyped
<1>9. t \in Seq(Event) /\ Len(t) = Len(T) /\ \A i \in 1..Len(T) : t[i] = r.event[T[i]]
  BY <1>3, <1>7, ContentsTyped
<1>10. s # <<>>
  BY <1>4, <1>8
<1>11. Tail(s) \in Seq(Event) /\ Len(Tail(s)) = Len(s) - 1
       /\ \A i \in 1..(Len(s) - 1) : Tail(s)[i] = s[i + 1]
  BY <1>8, <1>10, HeadTailProperties
<1>12. ASSUME NEW i \in 1..Len(t) PROVE t[i] = Tail(s)[i]
  <2>1. i \in 1..Len(T) /\ i \in 1..(Len(P) - 1) /\ i + 1 \in 1..Len(P)
    BY <1>4, <1>5, <1>9
  <2>2. t[i] = q.event[P[i + 1]]
    BY <1>5, <1>6, <1>9, <2>1
  <2>3. s[i + 1] = q.event[P[i + 1]]
    BY <1>8, <2>1
  <2> QED
    BY <1>8, <1>11, <2>1, <2>2, <2>3
<1>13. Len(t) = Len(Tail(s))
  BY <1>5, <1>8, <1>9, <1>11
<1>14. t = Tail(s)
  BY <1>9, <1>11, <1>12, <1>13, SeqEqual
<1> QED
  BY <1>2, <1>3, <1>7, <1>10, <1>14 DEF ListsOK

\* eventQueueEnqueue puts the event at the tail or at the head.
LEMMA EnqueueContents ==
    ASSUME NEW q, ListsOK(q), NEW e \in Event, NEW tail \in BOOLEAN
    PROVE  /\ ListsOK(Enqueue(q, e, tail))
           /\ Contents(Enqueue(q, e, tail))
                 = IF tail THEN Append(Contents(q), e) ELSE <<e>> \o Contents(q)
<1>1. PICK n, P, A : Lists(q, n, P, A)
  BY DEF ListsOK
<1>2. q.pending # NULL /\ tail => LastPending(q) = P[Len(P)]
  BY <1>1, LastLists
<1>3. PICK r : r = Enqueue(q, e, tail)
  OBVIOUS
<1>4. PICK m, this, B :
         /\ ~Among(this, P)
         /\ Lists(r, m, IF tail THEN After(P, this) ELSE Before(this, P), B)
         /\ r.event[this] = e
         /\ \A c \in 1..n : c # this => r.event[c] = q.event[c]
  <2>1. Enqueued(r, q, n, P, e, tail)
    BY <1>1, <1>2, <1>3, EnqueueLists
  <2> QED
    BY <2>1 DEF Enqueued
<1>5. PICK Q : Q = IF tail THEN After(P, this) ELSE Before(this, P)
  OBVIOUS
<1>6. Lists(r, m, Q, B)
  BY <1>4, <1>5
<1>7. Len(P) \in Nat /\ \A i \in 1..Len(P) : P[i] \in 1..n
  BY <1>1, ListsTyped
<1>8. PICK s, t : s = Contents(q) /\ t = Contents(r)
  OBVIOUS
<1>9. s \in Seq(Event) /\ Len(s) = Len(P) /\ \A i \in 1..Len(P) : s[i] = q.event[P[i]]
  BY <1>1, <1>8, ContentsTyped
<1>10. t \in Seq(Event) /\ Len(t) = Len(Q) /\ \A i \in 1..Len(Q) : t[i] = r.event[Q[i]]
  BY <1>6, <1>8, ContentsTyped
<1>11. \A i \in 1..Len(P) : r.event[P[i]] = s[i]
  BY <1>4, <1>7, <1>9 DEF Among
<1>12. CASE tail
  <2>1. Q = [i \in 1..(Len(P) + 1) |-> IF i <= Len(P) THEN P[i] ELSE this]
    BY <1>5, <1>12 DEF After
  <2>2. Len(Q) = Len(P) + 1
    BY <1>7, <2>1
  <2>3. PICK u : u = Append(s, e)
    OBVIOUS
  <2>4. /\ u \in Seq(Event) /\ Len(u) = Len(P) + 1 /\ u[Len(P) + 1] = e
        /\ \A i \in 1..Len(P) : u[i] = s[i]
    BY <1>9, <2>3, AppendProperties
  <2>5. ASSUME NEW i \in 1..(Len(P) + 1) PROVE t[i] = u[i]
    <3>1. CASE i \in 1..Len(P)
      <4>1. i <= Len(P)
        BY <1>7, <3>1
      <4>2. Q[i] = P[i]
        BY <2>1, <4>1
      <4> QED
        BY <1>10, <1>11, <2>2, <2>4, <3>1, <4>2
    <3>2. CASE i = Len(P) + 1
      <4>1. ~(i <= Len(P))
        BY <1>7, <3>2
      <4>2. Q[i] = this
        BY <2>1, <4>1
      <4> QED
        BY <1>4, <1>10, <2>2, <2>4, <3>2, <4>2
    <3> QED
      BY <1>7, <3>1, <3>2
  <2>6. t = u
    BY <1>10, <2>2, <2>4, <2>5, SeqEqual
  <2> QED
    BY <1>3, <1>6, <1>8, <1>12, <2>3, <2>6 DEF ListsOK
<1>13. CASE ~tail
  <2>1. Q = [i \in 1..(Len(P) + 1) |-> IF i = 1 THEN this ELSE P[i - 1]]
    BY <1>5, <1>13 DEF Before
  <2>2. Len(Q) = Len(P) + 1
    BY <1>7, <2>1
  <2>3. PICK h, u : h = <<e>> /\ u = h \o s
    OBVIOUS
  <2>4. h \in Seq(Event) /\ Len(h) = 1 /\ h[1] = e
    BY <2>3
  <2>5. /\ u \in Seq(Event) /\ Len(u) = Len(h) + Len(s)
        /\ \A i \in 1..(Len(h) + Len(s)) : u[i] = IF i <= Len(h) THEN h[i] ELSE s[i - Len(h)]
    BY <1>9, <2>3, <2>4, ConcatProperties
  <2>6. Len(h) + Len(s) = Len(P) + 1
    BY <1>7, <1>9, <2>4
  <2>7. ASSUME NEW i \in 1..(Len(P) + 1) PROVE t[i] = u[i]
    <3>1. CASE i = 1
      <4>1. Q[i] = this /\ u[i] = e
        BY <2>1, <2>4, <2>5, <2>6, <3>1
      <4> QED
        BY <1>4, <1>10, <2>2, <4>1
    <3>2. CASE i # 1
      <4>1. i - 1 \in 1..Len(P) /\ ~(i <= Len(h)) /\ i - Len(h) = i - 1
        BY <1>7, <2>4, <3>2
      <4>2. Q[i] = P[i - 1]
        BY <2>1, <3>2
      <4>3. u[i] = s[i - 1]
        BY <2>5, <2>6, <4>1
      <4> QED
        BY <1>10, <1>11, <2>2, <4>1, <4>2, <4>3
    <3> QED
      BY <3>1, <3>2
  <2>8. t = u
    BY <1>10, <2>2, <2>5, <2>6, <2>7, SeqEqual
  <2> QED
    BY <1>3, <1>6, <1>8, <1>13, <2>3, <2>8 DEF ListsOK
<1> QED
  BY <1>12, <1>13

-----------------------------------------------------------------------------
(* How often a call holds the manager's lock *)

Locking == {"lock", "stopLock"}
Unlocking == {"unlock", "stopQuit", "free"}

\* what a step does to the depth of the lock; ewmConnect and ewmDisconnect go on to an unlock
Delta(x) == IF x \in Locking THEN 1
            ELSE IF x \in Unlocking \cup {"connect", "disconnect"} THEN -1 ELSE 0

\* the steps s take the depth from k to j
Takes(s, k, j) ==
    \E d \in [1..(Len(s) + 1) -> 0..2] :
        /\ d[1] = k /\ d[Len(s) + 1] = j
        /\ \A i \in 1..Len(s) : d[i + 1] = d[i] + Delta(s[i])

\* no step leaves the depth as it is
LEMMA TakesNothing ==
    ASSUME NEW k \in 0..2, NEW j
    PROVE  Takes(<<>>, k, j) <=> k = j
<1>1. PICK s : s = <<>>
  OBVIOUS
<1>2. Len(s) = 0
  BY <1>1
<1>3. Takes(s, k, j) => k = j
  BY <1>2 DEF Takes
<1>4. Takes(s, k, k)
  <2>1. PICK d : d = [i \in 1..(Len(s) + 1) |-> k]
    OBVIOUS
  <2>2. /\ d \in [1..(Len(s) + 1) -> 0..2] /\ d[1] = k /\ d[Len(s) + 1] = k
        /\ \A i \in 1..Len(s) : d[i + 1] = d[i] + Delta(s[i])
    BY <1>2, <2>1
  <2> QED
    BY <2>2 DEF Takes
<1> QED
  BY <1>1, <1>3, <1>4

\* what is left after n steps takes the depth from where these leave it
LEMMA TakesRest ==
    ASSUME NEW s \in Seq(Step), NEW k, NEW j, NEW n \in 0..Len(s),
           NEW d \in [1..(Len(s) + 1) -> 0..2], d[Len(s) + 1] = j,
           \A i \in 1..Len(s) : d[i + 1] = d[i] + Delta(s[i])
    PROVE  Takes(SubSeq(s, n + 1, Len(s)), d[n + 1], j)
<1>1. PICK r : r = SubSeq(s, n + 1, Len(s))
  OBVIOUS
<1>2. Len(s) \in Nat
  BY LenProperties
<1>3. /\ r \in Seq(Step) /\ Len(r) = Len(s) - n
      /\ \A i \in 1..Len(r) : r[i] = s[n + i]
  BY <1>1, <1>2, SubSeqProperties
<1>4. PICK f : f = [i \in 1..(Len(r) + 1) |-> d[n + i]]
  OBVIOUS
<1>5. \A i \in 1..(Len(r) + 1) : n + i \in 1..(Len(s) + 1) /\ f[i] = d[n + i]
  BY <1>2, <1>3, <1>4
<1>6. f \in [1..(Len(r) + 1) -> 0..2]
  BY <1>4, <1>5
<1>7. f[1] = d[n + 1] /\ f[Len(r) + 1] = j
  <2>1. 1 \in 1..(Len(r) + 1) /\ Len(r) + 1 \in 1..(Len(r) + 1) /\ n + (Len(r) + 1) = Len(s) + 1
    BY <1>2, <1>3
  <2> QED
    BY <1>5, <2>1
<1>8. ASSUME NEW i \in 1..Len(r) PROVE f[i + 1] = f[i] + Delta(r[i])
  <2>1. /\ i \in 1..(Len(r) + 1) /\ i + 1 \in 1..(Len(r) + 1) /\ n + i \in 1..Len(s)
        /\ n + (i + 1) = n + i + 1
    BY <1>2, <1>3
  <2>2. d[n + i + 1] = d[n + i] + Delta(s[n + i])
    BY <2>1
  <2>3. f[i + 1] = d[n + i + 1] /\ f[i] = d[n + i] /\ r[i] = s[n + i]
    BY <1>3, <1>5, <2>1
  <2> QED
    BY <2>2, <2>3
<1> QED
  BY <1>1, <1>6, <1>7, <1>8 DEF Takes

\* two sequences of steps, one after the other
LEMMA TakesBoth ==
    ASSUME NEW s \in Seq(Step), NEW t \in Seq(Step), NEW k, NEW j, NEW l,
           Takes(s, k, j), Takes(t, j, l)
    PROVE  Takes(s \o t, k, l)
<1>1. PICK d \in [1..(Len(s) + 1) -> 0..2] :
         /\ d[1] = k /\ d[Len(s) + 1] = j
         /\ \A i \in 1..Len(s) : d[i + 1] = d[i] + Delta(s[i])
  BY DEF Takes
<1>2. PICK f \in [1..(Len(t) + 1) -> 0..2] :
         /\ f[1] = j /\ f[Len(t) + 1] = l
         /\ \A i \in 1..Len(t) : f[i + 1] = f[i] + Delta(t[i])
  BY DEF Takes
<1>3. Len(s) \in Nat /\ Len(t) \in Nat
  BY LenProperties
<1>4. PICK r : r = s \o t
  OBVIOUS
<1>5. /\ r \in Seq(Step) /\ Len(r) = Len(s) + Len(t)
      /\ \A i \in 1..(Len(s) + Len(t)) : r[i] = IF i <= Len(s) THEN s[i] ELSE t[i - Len(s)]
  BY <1>4, ConcatProperties
<1>6. PICK g : g = [i \in 1..(Len(r) + 1) |-> IF i <= Len(s) THEN d[i] ELSE f[i - Len(s)]]
  OBVIOUS
<1>7. \A i \in 1..(Len(r) + 1) : /\ i <= Len(s) => i \in 1..Len(s) /\ i \in 1..(Len(s) + 1)
                                 /\ ~(i <= Len(s)) => i - Len(s) \in 1..(Len(t) + 1)
  BY <1>3, <1>5
<1>8. g \in [1..(Len(r) + 1) -> 0..2]
  BY <1>6, <1>7
<1>9. \A i \in 1..(Len(s) + 1) : i \in 1..(Len(r) + 1) /\ g[i] = d[i]
  <2> TAKE i \in 1..(Len(s) + 1)
  <2>1. i \in 1..(Len(r) + 1)
    BY <1>3, <1>5
  <2>2. CASE i <= Len(s)
    BY <1>6, <2>1, <2>2
  <2>3. CASE ~(i <= Len(s))
    <3>1. i = Len(s) + 1 /\ i - Len(s) = 1
      BY <1>3, <2>3
    <3> QED
      BY <1>1, <1>2, <1>6, <2>1, <2>3, <3>1
  <2> QED
    BY <2>1, <2>2, <2>3
<1>10. \A i \in 1..(Len(t) + 1) : Len(s) + i \in 1..(Len(r) + 1) /\ g[Len(s) + i] = f[i]
  <2> TAKE i \in 1..(Len(t) + 1)
  <2>1. PICK z : z = Len(s) + i
    OBVIOUS
  <2>2. z \in 1..(Len(r) + 1) /\ ~(z <= Len(s)) /\ z - Len(s) = i
    BY <1>3, <1>5, <2>1
  <2>3. g[z] = f[z - Len(s)]
    BY <1>6, <2>2
  <2> QED
    BY <2>1, <2>2, <2>3
<1>11. g[1] = k /\ g[Len(r) + 1] = l
  <2>1. 1 \in 1..(Len(s) + 1) /\ Len(t) + 1 \in 1..(Len(t) + 1) /\ Len(s) + (Len(t) + 1) = Len(r) + 1
    BY <1>3, <1>5
  <2> QED
    BY <1>1, <1>2, <1>9, <1>10, <2>1
<1>12. ASSUME NEW i \in 1..Len(r) PROVE g[i + 1] = g[i] + Delta(r[i])
  <2>1. CASE i <= Len(s)
    <3>1. /\ i \in 1..Len(s) /\ i \in 1..(Len(s) + 1) /\ i + 1 \in 1..(Len(s) + 1)
          /\ i \in 1..(Len(s) + Len(t))
      BY <1>3, <1>5, <2>1
    <3>2. r[i] = s[i]
      BY <1>5, <2>1, <3>1
    <3> QED
      BY <1>1, <1>9, <3>1, <3>2
  <2>2. CASE ~(i <= Len(s))
    <3>1. PICK z : z = i - Len(s)
      OBVIOUS
    <3>2. /\ z \in 1..Len(t) /\ z \in 1..(Len(t) + 1) /\ z + 1 \in 1..(Len(t) + 1)
          /\ Len(s) + z = i /\ Len(s) + (z + 1) = i + 1 /\ i \in 1..(Len(s) + Len(t))
      BY <1>3, <1>5, <2>2, <3>1
    <3>3. r[i] = t[z]
      BY <1>5, <2>2, <3>1, <3>2
    <3>4. g[i] = f[z] /\ g[i + 1] = f[z + 1]
      <4>1. g[Len(s) + z] = f[z] /\ g[Len(s) + (z + 1)] = f[z + 1]
        BY <1>10, <3>2
      <4> QED
        BY <3>2, <4>1
    <3> QED
      BY <1>2, <3>2, <3>3, <3>4
  <2> QED
    BY <2>1, <2>2
<1> QED
  BY <1>4, <1>8, <1>11, <1>12 DEF Takes

\* one step
LEMMA TakesOne ==
    ASSUME NEW x \in Step, NEW k \in 0..2, k + Delta(x) \in 0..2
    PROVE  <<x>> \in Seq(Step) /\ Takes(<<x>>, k, k + Delta(x))
<1>1. PICK s : s = <<x>>
  OBVIOUS
<1>2. s \in Seq(Step) /\ Len(s) = 1 /\ s[1] = x
  BY <1>1
<1>3. PICK j : j = k + Delta(x)
  OBVIOUS
<1>4. PICK d : d = [i \in 1..(Len(s) + 1) |-> IF i = 1 THEN k ELSE j]
  OBVIOUS
<1>5. d \in [1..(Len(s) + 1) -> 0..2] /\ d[1] = k /\ d[Len(s) + 1] = j
  BY <1>2, <1>3, <1>4
<1>6. \A i \in 1..Len(s) : d[i + 1] = d[i] + Delta(s[i])
  BY <1>2, <1>3, <1>5
<1>7. Takes(s, k, j)
  BY <1>5, <1>6 DEF Takes
<1> QED
  BY <1>1, <1>2, <1>3, <1>7

\* eventHandlerStop takes the lock once
LEMMA TakesStop ==
    ASSUME NEW k \in 0..1
    PROVE  Takes(StopSteps, k, k)
<1>1. PICK s : s = StopSteps
  OBVIOUS
<1>2. Len(s) = 6
  BY <1>1 DEF StopSteps
<1>3. /\ s[1] = "stopEnter" /\ s[2] = "stopLock" /\ s[3] = "stopAlarm"
      /\ s[4] = "stopQuit" /\ s[5] = "stopJoin" /\ s[6] = "stopClear"
  BY <1>1 DEF StopSteps
<1>4. /\ Delta(s[1]) = 0 /\ Delta(s[2]) = 1 /\ Delta(s[3]) = 0
      /\ Delta(s[4]) = -1 /\ Delta(s[5]) = 0 /\ Delta(s[6]) = 0
  BY <1>3 DEF Delta, Locking, Unlocking
<1>5. PICK d : d = [i \in 1..(Len(s) + 1) |-> IF i \in {3, 4} THEN k + 1 ELSE k]
  OBVIOUS
<1>6. \A i \in 1..7 : d[i] = IF i \in {3, 4} THEN k + 1 ELSE k
  BY <1>2, <1>5
<1>7. d \in [1..(Len(s) + 1) -> 0..2] /\ d[1] = k /\ d[Len(s) + 1] = k
  BY <1>2, <1>5
<1>8. \A i \in 1..Len(s) : d[i + 1] = d[i] + Delta(s[i])
  <2>1. \A i \in 1..Len(s) : i \in {1, 2, 3, 4, 5, 6}
    BY <1>2
  <2>2. /\ d[2] = d[1] + Delta(s[1]) /\ d[3] = d[2] + Delta(s[2]) /\ d[4] = d[3] + Delta(s[3])
        /\ d[5] = d[4] + Delta(s[4]) /\ d[6] = d[5] + Delta(s[5]) /\ d[7] = d[6] + Delta(s[6])
    BY <1>4, <1>6
  <2> QED
    BY <2>1, <2>2
<1> QED
  BY <1>1, <1>7, <1>8 DEF Takes

\* the steps that ewmConnect goes on with, and those of alarmClockStop in ewmDisconnect
StartSteps == <<"clockStart", "clockStart", "startEnter", "startAlarm", "startThread", "unlock">>
ClockStopSteps == <<"clockStopEnter", "clockStopQuit", "clockStopJoin", "unlock">>

\* what follows in ewmConnect and in ewmDisconnect ends with the unlock
LEMMA TakesStart ==
    ASSUME NEW k \in 1..2
    PROVE  Takes(StartSteps, k, k - 1)
<1>1. PICK s : s = StartSteps
  OBVIOUS
<1>2. Len(s) = 6
  BY <1>1 DEF StartSteps
<1>3. /\ s[1] = "clockStart" /\ s[2] = "clockStart" /\ s[3] = "startEnter"
      /\ s[4] = "startAlarm" /\ s[5] = "startThread" /\ s[6] = "unlock"
  BY <1>1 DEF StartSteps
<1>4. /\ Delta(s[1]) = 0 /\ Delta(s[2]) = 0 /\ Delta(s[3]) = 0
      /\ Delta(s[4]) = 0 /\ Delta(s[5]) = 0 /\ Delta(s[6]) = -1
  BY <1>3 DEF Delta, Locking, Unlocking
<1>5. PICK d : d = [i \in 1..(Len(s) + 1) |-> IF i = 7 THEN k - 1 ELSE k]
  OBVIOUS
<1>6. \A i \in 1..7 : d[i] = IF i = 7 THEN k - 1 ELSE k
  BY <1>2, <1>5
<1>7. d \in [1..(Len(s) + 1) -> 0..2] /\ d[1] = k /\ d[Len(s) + 1] = k - 1
  BY <1>2, <1>5
<1>8. \A i \in 1..Len(s) : d[i + 1] = d[i] + Delta(s[i])
  <2>1. \A i \in 1..Len(s) : i \in {1, 2, 3, 4, 5, 6}
    BY <1>2
  <2>2. /\ d[2] = d[1] + Delta(s[1]) /\ d[3] = d[2] + Delta(s[2]) /\ d[4] = d[3] + Delta(s[3])
        /\ d[5] = d[4] + Delta(s[4]) /\ d[6] = d[5] + Delta(s[5]) /\ d[7] = d[6] + Delta(s[6])
    BY <1>4, <1>6
  <2> QED
    BY <2>1, <2>2
<1> QED
  BY <1>1, <1>7, <1>8 DEF Takes

\* the same for the stop of the clock
LEMMA TakesClockStop ==
    ASSUME NEW k \in 1..2
    PROVE  Takes(ClockStopSteps, k, k - 1)
<1>1. PICK s : s = ClockStopSteps
  OBVIOUS
<1>2. Len(s) = 4
  BY <1>1 DEF ClockStopSteps
<1>3. /\ s[1] = "clockStopEnter" /\ s[2] = "clockStopQuit" /\ s[3] = "clockStopJoin"
      /\ s[4] = "unlock"
  BY <1>1 DEF ClockStopSteps
<1>4. Delta(s[1]) = 0 /\ Delta(s[2]) = 0 /\ Delta(s[3]) = 0 /\ Delta(s[4]) = -1
  BY <1>3 DEF Delta, Locking, Unlocking
<1>5. PICK d : d = [i \in 1..(Len(s) + 1) |-> IF i = 5 THEN k - 1 ELSE k]
  OBVIOUS
<1>6. \A i \in 1..5 : d[i] = IF i = 5 THEN k - 1 ELSE k
  BY <1>2, <1>5
<1>7. d \in [1..(Len(s) + 1) -> 0..2] /\ d[1] = k /\ d[Len(s) + 1] = k - 1
  BY <1>2, <1>5
<1>8. \A i \in 1..Len(s) : d[i + 1] = d[i] + Delta(s[i])
  <2>1. \A i \in 1..Len(s) : i \in {1, 2, 3, 4}
    BY <1>2
  <2>2. /\ d[2] = d[1] + Delta(s[1]) /\ d[3] = d[2] + Delta(s[2]) /\ d[4] = d[3] + Delta(s[3])
        /\ d[5] = d[4] + Delta(s[4])
    BY <1>4, <1>6
  <2> QED
    BY <2>1, <2>2
<1> QED
  BY <1>1, <1>7, <1>8 DEF Takes

\* a step of the call queues an event
Signals(s) == \E i \in 1..Len(s) : s[i] \in {"enqueueTail", "enqueueHead"}

\* steps one after the other signal only if one of them does
LEMMA SignalsOfBoth ==
    ASSUME NEW s \in Seq(Step), NEW t \in Seq(Step), Signals(s \o t)
    PROVE  Signals(s) \/ Signals(t)
<1>1. Len(s) \in Nat /\ Len(t) \in Nat
  BY LenProperties
<1>2. PICK r : r = s \o t
  OBVIOUS
<1>3. /\ Len(r) = Len(s) + Len(t)
      /\ \A i \in 1..(Len(s) + Len(t)) : r[i] = IF i <= Len(s) THEN s[i] ELSE t[i - Len(s)]
  BY <1>2, ConcatProperties
<1>4. PICK i \in 1..Len(r) : r[i] \in {"enqueueTail", "enqueueHead"}
  BY <1>2 DEF Signals
<1>5. i \in 1..(Len(s) + Len(t))
  BY <1>3
<1>6. CASE i <= Len(s)
  <2>1. i \in 1..Len(s) /\ r[i] = s[i]
    BY <1>1, <1>3, <1>5, <1>6
  <2> QED
    BY <1>4, <2>1 DEF Signals
<1>7. CASE ~(i <= Len(s))
  <2>1. PICK j : j = i - Len(s)
    OBVIOUS
  <2>2. j \in 1..Len(t) /\ r[i] = t[j]
    BY <1>1, <1>3, <1>5, <1>7, <2>1
  <2> QED
    BY <1>4, <2>2 DEF Signals
<1> QED
  BY <1>6, <1>7

\* what is left of a call signals only if the call does
LEMMA SignalsOfRest ==
    ASSUME NEW s \in Seq(Step), NEW n \in 0..Len(s), Signals(SubSeq(s, n + 1, Len(s)))
    PROVE  Signals(s)
<1>1. PICK r : r = SubSeq(s, n + 1, Len(s))
  OBVIOUS
<1>2. Len(s) \in Nat
  BY LenProperties
<1>3. /\ Len(r) = Len(s) - n
      /\ \A i \in 1..Len(r) : r[i] = s[n + i]
  BY <1>1, <1>2, SubSeqProperties
<1>4. PICK i \in 1..Len(r) : r[i] \in {"enqueueTail", "enqueueHead"}
  BY <1>1 DEF Signals
<1>5. n + i \in 1..Len(s) /\ s[n + i] = r[i]
  BY <1>2, <1>3
<1> QED
  BY <1>4, <1>5 DEF Signals

\* no part of a connect, a disconnect or a destroy queues an event
LEMMA PartsDoNotSignal ==
    /\ ~Signals(<<>>) /\ ~Signals(StopSteps) /\ ~Signals(StartSteps) /\ ~Signals(ClockStopSteps)
    /\ ~Signals(ConnectSteps) /\ ~Signals(DisconnectSteps)
    /\ ~Signals(<<"lock">>) /\ ~Signals(<<"unlock">>) /\ ~Signals(<<"free">>)
<1>1. ~Signals(<<>>)
  BY DEF Signals
<1>2. ~Signals(StopSteps)
  <2>1. PICK s : s = StopSteps
    OBVIOUS
  <2>2. Len(s) = 6 /\ \A i \in 1..6 : i \in {1, 2, 3, 4, 5, 6}
    BY <2>1 DEF StopSteps
  <2>3. /\ s[1] = "stopEnter" /\ s[2] = "stopLock" /\ s[3] = "stopAlarm"
        /\ s[4] = "stopQuit" /\ s[5] = "stopJoin" /\ s[6] = "stopClear"
    BY <2>1 DEF StopSteps
  <2> QED
    BY <2>1, <2>2, <2>3 DEF Signals
<1>3. ~Signals(StartSteps)
  <2>1. PICK s : s = StartSteps
    OBVIOUS
  <2>2. Len(s) = 6 /\ \A i \in 1..6 : i \in {1, 2, 3, 4, 5, 6}
    BY <2>1 DEF StartSteps
  <2>3. /\ s[1] = "clockStart" /\ s[2] = "clockStart" /\ s[3] = "startEnter"
        /\ s[4] = "startAlarm" /\ s[5] = "startThread" /\ s[6] = "unlock"
    BY <2>1 DEF StartSteps
  <2> QED
    BY <2>1, <2>2, <2>3 DEF Signals
<1>4. ~Signals(ClockStopSteps)
  <2>1. PICK s : s = ClockStopSteps
    OBVIOUS
  <2>2. Len(s) = 4 /\ \A i \in 1..4 : i \in {1, 2, 3, 4}
    BY <2>1 DEF ClockStopSteps
  <2>3. /\ s[1] = "clockStopEnter" /\ s[2] = "clockStopQuit" /\ s[3] = "clockStopJoin"
        /\ s[4] = "unlock"
    BY <2>1 DEF ClockStopSteps
  <2> QED
    BY <2>1, <2>2, <2>3 DEF Signals
<1>5. ASSUME NEW x, NEW y, {x, y} \cap {"enqueueTail", "enqueueHead"} = {}
      PROVE  ~Signals(<<x>>) /\ ~Signals(<<x, y>>)
  <2>1. PICK s, t : s = <<x>> /\ t = <<x, y>>
    OBVIOUS
  <2>2. Len(s) = 1 /\ s[1] = x /\ Len(t) = 2 /\ t[1] = x /\ t[2] = y
    BY <2>1
  <2>3. \A i \in 1..2 : i \in {1, 2}
    OBVIOUS
  <2>4. x \notin {"enqueueTail", "enqueueHead"} /\ y \notin {"enqueueTail", "enqueueHead"}
    BY <1>5
  <2>5. ~Signals(s)
    BY <2>2, <2>4 DEF Signals
  <2>6. ~Signals(t)
    BY <2>2, <2>3, <2>4 DEF Signals
  <2> QED
    BY <2>1, <2>5, <2>6
<1>6. ~Signals(<<"lock">>) /\ ~Signals(<<"unlock">>) /\ ~Signals(<<"free">>)
  BY <1>5
<1>7. ~Signals(ConnectSteps) /\ ~Signals(DisconnectSteps)
  BY <1>5 DEF ConnectSteps, DisconnectSteps
<1> QED
  BY <1>1, <1>2, <1>3, <1>4, <1>6, <1>7

\* a call returns with the lock as it found it, and only the calls to signal queue an event
LEMMA ProgramsTake ==
    ASSUME NEW op \in Op
    PROVE  /\ Takes(Program(op), 0, 0)
           /\ Signals(Program(op)) => op \in {"signal", "signalOOB"}
<1>0. /\ Delta("lock") = 1 /\ Delta("connect") = -1 /\ Delta("disconnect") = -1
      /\ Delta("free") = -1 /\ Delta("enqueueTail") = 0 /\ Delta("enqueueHead") = 0
      /\ Delta("notify") = 0
      /\ \A x \in {"lock", "connect", "disconnect", "free", "enqueueTail", "enqueueHead",
                   "notify"} : x \in Step
  BY DEF Delta, Locking, Unlocking, Step
<1>1. ASSUME NEW x \in Step, NEW y \in Step, NEW k \in 0..2, k + Delta(x) \in 0..2,
             NEW l \in 0..2, l = k + Delta(x) + Delta(y)
      PROVE  <<x, y>> \in Seq(Step) /\ Takes(<<x, y>>, k, l)
  <2>1. PICK s, j : s = <<x, y>> /\ j = k + Delta(x)
    OBVIOUS
  <2>2. s \in Seq(Step) /\ Len(s) = 2 /\ s[1] = x /\ s[2] = y
    BY <2>1
  <2>3. PICK d : d = [i \in 1..(Len(s) + 1) |-> IF i = 1 THEN k ELSE IF i = 2 THEN j ELSE l]
    OBVIOUS
  <2>4. d[1] = k /\ d[2] = j /\ d[3] = l /\ Len(s) + 1 = 3 /\ \A i \in 1..2 : i \in {1, 2}
    BY <2>2, <2>3
  <2>5. d \in [1..(Len(s) + 1) -> 0..2]
    BY <1>1, <2>1, <2>2, <2>3
  <2>6. j = k + Delta(x) /\ l = j + Delta(y)
    BY <1>1, <2>1
  <2>7. \A i \in 1..Len(s) : d[i + 1] = d[i] + Delta(s[i])
    BY <2>2, <2>4, <2>6
  <2> QED
    BY <2>1, <2>2, <2>4, <2>5, <2>7 DEF Takes
<1>2. /\ Takes(ConnectSteps, 0, 0)
      /\ DisconnectSteps \in Seq(Step) /\ Takes(DisconnectSteps, 0, 0) /\ Takes(DisconnectSteps, 1, 1)
  <2>1. Takes(<<"lock", "connect">>, 0, 0)
    BY <1>0, <1>1
  <2>2. <<"lock", "disconnect">> \in Seq(Step) /\ Takes(<<"lock", "disconnect">>, 0, 0)
    BY <1>0, <1>1
  <2>3. Takes(<<"lock", "disconnect">>, 1, 1)
    BY <1>0, <1>1
  <2> QED
    BY <2>1, <2>2, <2>3 DEF ConnectSteps, DisconnectSteps
<1>3. Takes(<<"enqueueTail", "notify">>, 0, 0) /\ Takes(<<"enqueueHead", "notify">>, 0, 0)
  BY <1>0, <1>1
<1>4. <<"lock">> \in Seq(Step) /\ Takes(<<"lock">>, 0, 1)
  BY <1>0, TakesOne
<1>5. <<"free">> \in Seq(Step) /\ Takes(<<"free">>, 1, 0)
  BY <1>0, TakesOne
<1>6. StopSteps \in Seq(Step) /\ Takes(StopSteps, 1, 1)
  BY StopOrdered, TakesStop
<1>7. PICK a : a = <<"lock">> \o DisconnectSteps
  OBVIOUS
<1>8. a \in Seq(Step) /\ Takes(a, 0, 1) /\ ~Signals(a)
  BY <1>2, <1>4, <1>7, ConcatProperties, TakesBoth, SignalsOfBoth, PartsDoNotSignal
<1>9. PICK b : b = a \o StopSteps
  OBVIOUS
<1>10. b \in Seq(Step) /\ Takes(b, 0, 1) /\ ~Signals(b)
  BY <1>6, <1>8, <1>9, ConcatProperties, TakesBoth, SignalsOfBoth, PartsDoNotSignal
<1>11. Takes(b \o <<"free">>, 0, 0) /\ ~Signals(b \o <<"free">>)
  BY <1>5, <1>10, TakesBoth, SignalsOfBoth, PartsDoNotSignal
<1>12. Program("destroy") = b \o <<"free">>
  BY <1>7, <1>9 DEF Program
<1>13. CASE op = "destroy"
  BY <1>11, <1>12, <1>13
<1>14. CASE op \in {"connect", "disconnect"}
  BY <1>2, <1>14, PartsDoNotSignal DEF Program
<1>15. CASE op \in {"signal", "signalOOB"}
  BY <1>3, <1>15 DEF Program
<1> QED
  BY <1>13, <1>14, <1>15 DEF Op
-----------------------------------------------------------------------------
(* How a call goes on *)

\* what a step itself does to the depth of the lock
Change(x) == IF x \in Locking THEN 1 ELSE IF x \in Unlocking THEN -1 ELSE 0

\* the ways a step can go on
LEMMA WaysOn ==
    ASSUME NEW c \in Caller, Continue(c)
    PROVE  /\ calls[c].steps # <<>>
           /\ \/ Then(c, <<>>) /\ calls[c].steps[1] \notin {"connect", "disconnect"}
              \/ /\ calls[c].steps[1] \in {"connect", "disconnect"}
                 /\ Then(c, <<"unlock">>) \/ Then(c, StartSteps) \/ Then(c, ClockStopSteps \o StopSteps)
              \/ Skip(c, 3) /\ calls[c].steps[1] \in {"startEnter", "clockStopEnter"}
              \/ Skip(c, 6) /\ calls[c].steps[1] = "stopEnter"
<1>1. Len(StopSteps) = 6
  BY DEF StopSteps
<1>2. CASE \/ LockStep(c) \/ UnlockStep(c) \/ ClockStartStep(c) \/ StartAlarmStep(c)
           \/ StartThreadStep(c) \/ ClockStopQuitStep(c) \/ ClockStopJoinStep(c)
           \/ StopAlarmStep(c) \/ StopQuitStep(c) \/ StopJoinStep(c)
           \/ StopClearStep(c) \/ FreeStep(c) \/ EnqueueStep(c) \/ NotifyStep(c)
  <2>1. Then(c, <<>>)
    BY <1>2 DEF LockStep, UnlockStep, ClockStartStep, StartAlarmStep, StartThreadStep,
                ClockStopQuitStep, ClockStopJoinStep, StopAlarmStep, StopQuitStep, StopJoinStep,
                StopClearStep, FreeStep, EnqueueStep, NotifyStep
  <2>2. calls[c].steps # <<>> /\ calls[c].steps[1] \notin {"connect", "disconnect"}
    BY <1>2 DEF LockStep, UnlockStep, ClockStartStep, StartAlarmStep, StartThreadStep,
                ClockStopQuitStep, ClockStopJoinStep, StopAlarmStep, StopQuitStep, StopJoinStep,
                StopClearStep, FreeStep, EnqueueStep, NotifyStep, At
  <2> QED
    BY <2>1, <2>2
<1>3. CASE ConnectStep(c)
  <2>1. At(c, "connect") /\ (Then(c, <<"unlock">>) \/ Then(c, StartSteps))
    BY <1>3 DEF ConnectStep, StartSteps
  <2> QED
    BY <2>1 DEF At
<1>4. CASE DisconnectStep(c)
  <2>1. At(c, "disconnect") /\ (Then(c, <<"unlock">>) \/ Then(c, ClockStopSteps \o StopSteps))
    BY <1>4 DEF DisconnectStep, ClockStopSteps
  <2> QED
    BY <2>1 DEF At
<1>5. CASE StartEnterStep(c)
  <2>1. At(c, "startEnter") /\ (Then(c, <<>>) \/ Skip(c, 3))
    BY <1>5 DEF StartEnterStep
  <2> QED
    BY <2>1 DEF At
<1>6. CASE ClockStopEnterStep(c)
  <2>1. At(c, "clockStopEnter") /\ (Then(c, <<>>) \/ Skip(c, 3))
    BY <1>6 DEF ClockStopEnterStep
  <2> QED
    BY <2>1 DEF At
<1>7. CASE StopEnterStep(c)
  <2>1. At(c, "stopEnter") /\ (Then(c, <<>>) \/ Skip(c, 6))
    BY <1>1, <1>7 DEF StopEnterStep
  <2> QED
    BY <2>1 DEF At
<1> QED
  BY <1>2, <1>3, <1>4, <1>5, <1>6, <1>7 DEF Continue

\* A step leaves steps that return the lock as it was found, and that signal only if the call did.
LEMMA CallGoesOn ==
    ASSUME CallsOK, NEW c \in Caller, Continue(c), NEW k, Takes(calls[c].steps, k, 0)
    PROVE  /\ calls[c].steps # <<>> /\ k \in 0..2
           /\ \E s \in Seq(Step), j \in 0..2 :
                 /\ GoOn(c, s) /\ Takes(s, j, 0) /\ j = k + Change(calls[c].steps[1])
                 /\ Signals(s) => Signals(calls[c].steps)
<1>1. PICK t : t = calls[c].steps
  OBVIOUS
<1>2. t \in Seq(Step) /\ Ordered(t)
  BY <1>1 DEF CallsOK, CallRecord
<1>3. t # <<>>
  BY <1>1, WaysOn
<1>4. Len(t) \in Nat /\ 1 \in 1..Len(t) /\ 0 \in 0..Len(t) /\ 1 \in 0..Len(t)
  BY <1>2, <1>3, EmptySeq, LenProperties
<1>5. PICK d \in [1..(Len(t) + 1) -> 0..2] :
         /\ d[1] = k /\ d[Len(t) + 1] = 0
         /\ \A i \in 1..Len(t) : d[i + 1] = d[i] + Delta(t[i])
  BY <1>1 DEF Takes
<1>6. k \in 0..2 /\ d[2] \in 0..2 /\ d[2] = k + Delta(t[1])
  <2>1. 1 \in 1..(Len(t) + 1) /\ 2 \in 1..(Len(t) + 1) /\ 1 + 1 = 2
    BY <1>4
  <2> QED
    BY <1>4, <1>5, <2>1
<1>7. ASSUME NEW n \in 0..Len(t)
      PROVE  /\ SubSeq(t, n + 1, Len(t)) \in Seq(Step)
             /\ Takes(SubSeq(t, n + 1, Len(t)), d[n + 1], 0) /\ d[n + 1] \in 0..2
             /\ Signals(SubSeq(t, n + 1, Len(t))) => Signals(t)
  <2>1. SubSeq(t, n + 1, Len(t)) \in Seq(Step)
    BY <1>2, <1>4, SubSeqProperties
  <2>2. Takes(SubSeq(t, n + 1, Len(t)), d[n + 1], 0)
    BY <1>2, <1>5, TakesRest
  <2>3. d[n + 1] \in 0..2
    BY <1>4, <1>5
  <2> QED
    BY <1>2, <2>1, <2>2, <2>3, SignalsOfRest
<1>8. PICK r : r = Tail(t)
  OBVIOUS
<1>9. r \in Seq(Step) /\ Takes(r, d[2], 0) /\ (Signals(r) => Signals(t))
  <2>1. r = SubSeq(t, 1 + 1, Len(t)) /\ 1 + 1 = 2
    BY <1>2, <1>3, <1>8, TailIsSubSeq
  <2> QED
    BY <1>4, <1>7, <2>1
<1>10. CASE Then(c, <<>>) /\ t[1] \notin {"connect", "disconnect"}
  <2>1. GoOn(c, r)
    BY <1>1, <1>8, <1>9, <1>10, ConcatEmptySeq DEF Then
  <2>2. Delta(t[1]) = Change(t[1])
    BY <1>10 DEF Delta, Change, Locking, Unlocking
  <2> QED
    BY <1>1, <1>3, <1>6, <1>9, <2>1, <2>2
<1>11. CASE /\ t[1] \in {"connect", "disconnect"}
            /\ Then(c, <<"unlock">>) \/ Then(c, StartSteps) \/ Then(c, ClockStopSteps \o StopSteps)
  <2>1. Delta(t[1]) = -1 /\ Change(t[1]) = 0
    BY <1>11 DEF Delta, Change, Locking, Unlocking
  <2>2. PICK j : j = d[2]
    OBVIOUS
  <2>3. k \in 1..2 /\ j = k - 1 /\ j \in 0..1 /\ k + Change(t[1]) = k
    BY <1>6, <2>1, <2>2
  <2>4. PICK m : m \in Seq(Step) /\ Takes(m, k, j) /\ ~Signals(m) /\ Then(c, m)
    <3>1. CASE Then(c, <<"unlock">>)
      <4>1. "unlock" \in Step /\ Delta("unlock") = -1
        BY DEF Step, Delta, Locking, Unlocking
      <4>2. k + Delta("unlock") = j /\ k \in 0..2 /\ j \in 0..2
        BY <2>3, <4>1
      <4>3. <<"unlock">> \in Seq(Step) /\ Takes(<<"unlock">>, k, j)
        BY <4>1, <4>2, TakesOne
      <4> QED
        BY <3>1, <4>3, PartsDoNotSignal
    <3>2. CASE Then(c, StartSteps)
      <4>1. StartSteps \in Seq(Step)
        BY StartOrdered DEF StartSteps
      <4> QED
        BY <2>3, <3>2, <4>1, TakesStart, PartsDoNotSignal
    <3>3. CASE Then(c, ClockStopSteps \o StopSteps)
      <4>1. ClockStopSteps \in Seq(Step) /\ StopSteps \in Seq(Step)
        BY ClockStopOrdered, StopOrdered DEF ClockStopSteps
      <4>2. Takes(ClockStopSteps, k, j)
        BY <2>3, TakesClockStop
      <4>3. Takes(StopSteps, j, j)
        BY <2>3, TakesStop
      <4>4. ClockStopSteps \o StopSteps \in Seq(Step)
        BY <4>1, ConcatProperties
      <4>5. Takes(ClockStopSteps \o StopSteps, k, j)
        BY <4>1, <4>2, <4>3, TakesBoth
      <4>6. ~Signals(ClockStopSteps \o StopSteps)
        BY <4>1, SignalsOfBoth, PartsDoNotSignal
      <4> QED
        BY <3>3, <4>4, <4>5, <4>6
    <3> QED
      BY <1>11, <3>1, <3>2, <3>3
  <2>5. PICK s : s = m \o r
    OBVIOUS
  <2>6. GoOn(c, s)
    BY <1>1, <1>8, <2>4, <2>5 DEF Then
  <2>7. s \in Seq(Step)
    BY <1>9, <2>4, <2>5, ConcatProperties
  <2>8. Takes(s, k, 0)
    BY <1>9, <2>2, <2>4, <2>5, TakesBoth
  <2>9. Signals(s) => Signals(t)
    BY <1>9, <2>4, <2>5, SignalsOfBoth
  <2> QED
    BY <1>1, <1>3, <1>6, <2>3, <2>6, <2>7, <2>8, <2>9
<1>12. CASE \/ Skip(c, 3) /\ t[1] \in {"startEnter", "clockStopEnter"}
            \/ Skip(c, 6) /\ t[1] = "stopEnter"
  <2>1. Change(t[1]) = 0 /\ k + Change(t[1]) = k
    <3>1. Change(t[1]) = 0
      BY <1>12 DEF Change, Locking, Unlocking
    <3> QED
      BY <1>6, <3>1
  <2>2. PICK n \in {3, 6} : Skip(c, n) /\ n \in 1..Len(t) /\ d[n + 1] = k
    <3>1. CASE Skip(c, 3) /\ t[1] \in {"startEnter", "clockStopEnter"}
      <4>1. 3 \in 1..Len(t) /\ t[2] \in {"startAlarm", "clockStopQuit"}
                            /\ t[3] \in {"startThread", "clockStopJoin"}
        BY <1>2, <1>3, <3>1, SkippedSteps
      <4>2. Delta(t[1]) = 0 /\ Delta(t[2]) = 0 /\ Delta(t[3]) = 0
        BY <3>1, <4>1 DEF Delta, Locking, Unlocking
      <4>3. 1 \in 1..Len(t) /\ 2 \in 1..Len(t)
        BY <1>4, <4>1
      <4>4. d[2] = d[1] + Delta(t[1]) /\ d[3] = d[2] + Delta(t[2]) /\ d[4] = d[3] + Delta(t[3])
        <5>1. d[1 + 1] = d[1] + Delta(t[1]) /\ d[2 + 1] = d[2] + Delta(t[2])
                                            /\ d[3 + 1] = d[3] + Delta(t[3])
          BY <1>5, <4>1, <4>3
        <5> QED
          BY <5>1
      <4>5. d[3 + 1] = k
        BY <1>5, <1>6, <4>2, <4>4
      <4> QED
        BY <3>1, <4>1, <4>5
    <3>2. CASE Skip(c, 6) /\ t[1] = "stopEnter"
      <4>1. /\ 6 \in 1..Len(t) /\ t[2] = "stopLock" /\ t[3] = "stopAlarm"
            /\ t[4] = "stopQuit" /\ t[5] = "stopJoin" /\ t[6] = "stopClear"
        BY <1>2, <1>3, <3>2, SkippedSteps
      <4>2. /\ Delta(t[1]) = 0 /\ Delta(t[2]) = 1 /\ Delta(t[3]) = 0
            /\ Delta(t[4]) = -1 /\ Delta(t[5]) = 0 /\ Delta(t[6]) = 0
        BY <3>2, <4>1 DEF Delta, Locking, Unlocking
      <4>3. \A i \in 1..6 : i \in 1..Len(t)
        BY <1>4, <4>1
      <4>4. /\ d[2] = d[1] + Delta(t[1]) /\ d[3] = d[2] + Delta(t[2])
            /\ d[4] = d[3] + Delta(t[3]) /\ d[5] = d[4] + Delta(t[4])
            /\ d[6] = d[5] + Delta(t[5]) /\ d[7] = d[6] + Delta(t[6])
        <5>1. \A i \in 1..6 : d[i + 1] = d[i] + Delta(t[i])
          BY <1>5, <4>3
        <5> QED
          BY <5>1
      <4>5. d[6 + 1] = k
        BY <1>5, <1>6, <4>2, <4>4
      <4> QED
        BY <3>2, <4>1, <4>5
    <3> QED
      BY <1>12, <3>1, <3>2
  <2>3. PICK s : s = SubSeq(t, n + 1, Len(t))
    OBVIOUS
  <2>4. n \in 0..Len(t)
    BY <1>4, <2>2
  <2>5. s \in Seq(Step) /\ Takes(s, k, 0) /\ (Signals(s) => Signals(t))
    BY <1>7, <2>2, <2>3, <2>4
  <2>6. GoOn(c, s)
    BY <1>1, <2>2, <2>3 DEF Skip
  <2> QED
    BY <1>1, <1>3, <1>6, <2>1, <2>5, <2>6
<1> QED
  BY <1>1, <1>10, <1>11, <1>12, WaysOn

-----------------------------------------------------------------------------
(* The manager's lock *)

\* the handler's thread is between a lock and the unlock or the wait that follows
Running == {"check", "dispatch", "idle"}
Runners(pc) == {h \in Handler : pc[h] \in Running}

\* the owner of a lock and its depth
LockState == ({Free} \cup Handler \cup Caller) \X (0..2)

\* how often the call of c holds its handler's lock
HeldBy(lk, c, call) == IF call.steps # <<>> /\ lk[call.h][1] = c THEN lk[call.h][2] ELSE 0

\* lk: the locks, cs: the calls, R: the handlers whose threads are running
LockOK(lk, cs, R) ==
    /\ lk \in [Handler -> LockState]
    /\ \A h \in Handler : lk[h][1] = Free <=> lk[h][2] = 0
    /\ \A h, g \in Handler : lk[h][1] = g <=> g = h /\ h \in R
    /\ \A h \in Handler : lk[h][1] = h => lk[h][2] = 1
    /\ \A h \in Handler, c \in Caller : lk[h][1] = c => cs[c].steps # <<>> /\ cs[c].h = h
    /\ \A c \in Caller : Takes(cs[c].steps, HeldBy(lk, c, cs[c]), 0)

\* the lock of a handler before and after a step of c that leaves c with it j times
Moves(before, after, c, j) ==
    \/ after = before /\ before[1] # c /\ j = 0
    \/ before[1] \in {Free, c} /\ after = IF j = 0 THEN Unlocked ELSE <<c, j>>

\* The step of a call keeps the locks in order.
LEMMA CallMovesLock ==
    ASSUME NEW lk, NEW cs, NEW R, LockOK(lk, cs, R), cs \in [Caller -> CallRecord],
           NEW c \in Caller, NEW h \in Handler, cs[c].h = h,
           NEW s \in Seq(Step), NEW j \in 0..2, Takes(s, j, 0),
           NEW new, new = [lk EXCEPT ![h] = new[h]], Moves(lk[h], new[h], c, j)
    PROVE  LockOK(new, [cs EXCEPT ![c] = IF s = <<>> THEN Idle ELSE [@ EXCEPT !.steps = s]], R)
<1>1. PICK cs2 : cs2 = [cs EXCEPT ![c] = IF s = <<>> THEN Idle ELSE [@ EXCEPT !.steps = s]]
  OBVIOUS
<1>2. /\ cs2[c].steps = s /\ (s # <<>> => cs2[c].h = h)
      /\ \A d \in Caller : d # c => cs2[d] = cs[d]
  <2>1. cs[c] \in CallRecord
    OBVIOUS
  <2>2. CASE s = <<>>
    BY <1>1, <2>2 DEF Idle
  <2>3. CASE s # <<>>
    BY <1>1, <2>1, <2>3 DEF CallRecord
  <2>4. \A d \in Caller : d # c => cs2[d] = cs[d]
    BY <1>1
  <2> QED
    BY <2>2, <2>3, <2>4
<1>3. Free \notin Handler /\ Free \notin Caller /\ \A g \in Handler : g \notin Caller
  BY HandlerAssumption
<1>4. lk \in [Handler -> LockState] /\ DOMAIN lk = Handler /\ lk[h] \in LockState
  BY DEF LockOK
<1>5. \A g \in Handler : g # h => new[g] = lk[g]
  BY <1>4
<1>6. /\ new[h] \in LockState
      /\ new[h][1] = Free <=> new[h][2] = 0
      /\ new[h][1] = c <=> j # 0
      /\ new[h][1] = c => new[h][2] = j
      /\ new[h][1] # c => new[h][1] = lk[h][1] \/ (new[h][1] = Free /\ lk[h][1] \in {Free, c})
      /\ new[h][1] = c => lk[h][1] \in {Free, c}
      /\ new[h][1] \notin {c, Free} => new[h] = lk[h]
  <2>1. CASE new[h] = lk[h] /\ lk[h][1] # c /\ j = 0
    <3>1. lk[h][1] = Free <=> lk[h][2] = 0
      BY DEF LockOK
    <3> QED
      BY <1>4, <2>1, <3>1
  <2>2. CASE lk[h][1] \in {Free, c} /\ j = 0 /\ new[h] = Unlocked
    BY <1>3, <2>2 DEF Unlocked, LockState
  <2>3. CASE lk[h][1] \in {Free, c} /\ j # 0 /\ new[h] = <<c, j>>
    BY <1>3, <2>3 DEF LockState
  <2> QED
    BY <2>1, <2>2, <2>3 DEF Moves
<1>7. new \in [Handler -> LockState]
  BY <1>4, <1>6
<1>8. ASSUME NEW g \in Handler
      PROVE  /\ new[g][1] = Free <=> new[g][2] = 0
             /\ \A f \in Handler : new[g][1] = f <=> f = g /\ g \in R
             /\ new[g][1] = g => new[g][2] = 1
             /\ \A d \in Caller : new[g][1] = d => cs2[d].steps # <<>> /\ cs2[d].h = g
  <2>1. /\ lk[g][1] = Free <=> lk[g][2] = 0
        /\ \A f \in Handler : lk[g][1] = f <=> f = g /\ g \in R
        /\ lk[g][1] = g => lk[g][2] = 1
        /\ \A d \in Caller : lk[g][1] = d => cs[d].steps # <<>> /\ cs[d].h = g
    BY DEF LockOK
  <2>2. CASE g # h
    BY <1>2, <1>5, <2>1, <2>2
  <2>3. CASE g = h
    <3>1. \A f \in Handler : new[h][1] = f <=> lk[h][1] = f
      BY <1>3, <1>6
    <3>2. new[h][1] = h => new[h][2] = 1
      BY <1>3, <1>6, <2>1, <2>3
    <3>3. ASSUME NEW d \in Caller, new[h][1] = d
          PROVE  cs2[d].steps # <<>> /\ cs2[d].h = h
      <4>1. CASE d = c
        <5>1. j # 0
          BY <1>6, <3>3, <4>1
        <5>2. s # <<>>
          BY <5>1, TakesNothing
        <5> QED
          BY <1>2, <4>1, <5>2
      <4>2. CASE d # c
        <5>1. lk[h][1] = d
          BY <1>3, <1>6, <3>3, <4>2
        <5> QED
          BY <1>2, <2>1, <2>3, <4>2, <5>1
      <4> QED
        BY <4>1, <4>2
    <3> QED
      BY <1>6, <2>1, <2>3, <3>1, <3>2, <3>3
  <2> QED
    BY <2>2, <2>3
<1>9. ASSUME NEW d \in Caller
      PROVE  Takes(cs2[d].steps, HeldBy(new, d, cs2[d]), 0)
  <2>1. CASE d = c
    <3>1. CASE s = <<>>
      <4>1. HeldBy(new, c, cs2[c]) = 0
        BY <1>2, <3>1 DEF HeldBy
      <4>2. j = 0
        BY <3>1, TakesNothing
      <4> QED
        BY <1>2, <2>1, <4>1, <4>2
    <3>2. CASE s # <<>>
      <4>1. HeldBy(new, c, cs2[c]) = j
        BY <1>2, <1>6, <3>2 DEF HeldBy
      <4> QED
        BY <1>2, <2>1, <4>1
    <3> QED
      BY <3>1, <3>2
  <2>2. CASE d # c
    <3>1. cs2[d] = cs[d]
      BY <1>2, <2>2
    <3>2. cs[d].steps # <<>> => cs[d].h \in Handler \cup {Free}
      BY DEF CallRecord
    <3>3. \A g \in Handler : new[g][1] = d <=> lk[g][1] = d
      <4> TAKE g \in Handler
      <4>1. CASE g # h
        BY <1>5, <4>1
      <4>2. CASE g = h
        BY <1>3, <1>6, <2>2, <4>2
      <4> QED
        BY <4>1, <4>2
    <3>4. \A g \in Handler : lk[g][1] = d => new[g] = lk[g]
      <4> TAKE g \in Handler
      <4>1. CASE g # h
        BY <1>5, <4>1
      <4>2. CASE g = h
        BY <1>3, <1>6, <2>2, <3>3, <4>2
      <4> QED
        BY <4>1, <4>2
    <3>5. cs[d].h \in Handler \cup {Free}
      BY DEF CallRecord
    <3>6. CASE cs[d].h \in Handler
      <4>1. HeldBy(new, d, cs[d]) = HeldBy(lk, d, cs[d])
        BY <3>3, <3>4, <3>6 DEF HeldBy
      <4> QED
        BY <3>1, <4>1 DEF LockOK
    <3>7. CASE cs[d].h = Free
      <4>1. new[Free] = lk[Free]
        BY <1>3, <1>4
      <4>2. HeldBy(new, d, cs[d]) = HeldBy(lk, d, cs[d])
        BY <3>7, <4>1 DEF HeldBy
      <4> QED
        BY <3>1, <4>2 DEF LockOK
    <3> QED
      BY <3>5, <3>6, <3>7
  <2> QED
    BY <2>1, <2>2
<1>10. LockOK(new, cs2, R)
  BY <1>7, <1>8, <1>9 DEF LockOK
<1> QED
  BY <1>1, <1>10
\* where the handler's thread is; a handler without a thread has none
ThreadState == {"none", "started", "check", "dispatch", "idle", "waiting", "woken", "ended"}

ThreadsOK(pc, th) ==
    /\ pc \in [Handler -> ThreadState]
    /\ \A h \in Handler : ~th[h] => pc[h] = "none"

\* the locks, the calls and the threads agree
LockInv == LockOK(lock, calls, Runners(hpc)) /\ ThreadsOK(hpc, thread)

\* A thread that gets the lock finds it free: it holds it once.
LEMMA ThreadTakesLock ==
    ASSUME NEW lk, NEW cs, NEW R, LockOK(lk, cs, R), NEW h \in Handler, h \notin R,
           lk[h][1] \in {Free, h}
    PROVE  LockOK([lk EXCEPT ![h] = <<h, @[2] + 1>>], cs, R \cup {h})
<1>1. PICK new : new = [lk EXCEPT ![h] = <<h, @[2] + 1>>]
  OBVIOUS
<1>2. Free \notin Handler /\ Free \notin Caller /\ \A g \in Handler : g \notin Caller
  BY HandlerAssumption
<1>3. lk \in [Handler -> LockState] /\ DOMAIN lk = Handler
  BY DEF LockOK
<1>4. lk[h][1] = Free /\ lk[h][2] = 0
  BY DEF LockOK
<1>5. new[h] = <<h, 1>> /\ \A g \in Handler : g # h => new[g] = lk[g]
  BY <1>1, <1>3, <1>4
<1>6. new \in [Handler -> LockState]
  BY <1>1, <1>3, <1>5 DEF LockState
<1>7. ASSUME NEW g \in Handler
      PROVE  /\ new[g][1] = Free <=> new[g][2] = 0
             /\ \A f \in Handler : new[g][1] = f <=> f = g /\ g \in R \cup {h}
             /\ new[g][1] = g => new[g][2] = 1
             /\ \A d \in Caller : new[g][1] = d => cs[d].steps # <<>> /\ cs[d].h = g
  <2>1. CASE g # h
    BY <1>5, <2>1 DEF LockOK
  <2>2. CASE g = h
    BY <1>2, <1>5, <2>2
  <2> QED
    BY <2>1, <2>2
<1>8. ASSUME NEW d \in Caller
      PROVE  Takes(cs[d].steps, HeldBy(new, d, cs[d]), 0)
  <2>1. \A g : g # h => new[g] = lk[g]
    BY <1>1
  <2>2. HeldBy(new, d, cs[d]) = HeldBy(lk, d, cs[d])
    <3>1. CASE cs[d].h = h
      BY <1>2, <1>4, <1>5, <3>1 DEF HeldBy
    <3>2. CASE cs[d].h # h
      BY <2>1, <3>2 DEF HeldBy
    <3> QED
      BY <3>1, <3>2
  <2> QED
    BY <2>2 DEF LockOK
<1>9. LockOK(new, cs, R \cup {h})
  BY <1>6, <1>7, <1>8 DEF LockOK
<1> QED
  BY <1>1, <1>9

\* A thread that waits or ends gives the lock back.
LEMMA ThreadGivesLock ==
    ASSUME NEW lk, NEW cs, NEW R, LockOK(lk, cs, R), NEW h \in Handler, h \in R
    PROVE  LockOK([lk EXCEPT ![h] = IF @[2] = 1 THEN Unlocked ELSE <<@[1], @[2] - 1>>],
                  cs, R \ {h})
<1>1. PICK new : new = [lk EXCEPT ![h] = IF @[2] = 1 THEN Unlocked ELSE <<@[1], @[2] - 1>>]
  OBVIOUS
<1>2. Free \notin Handler /\ Free \notin Caller /\ \A g \in Handler : g \notin Caller
  BY HandlerAssumption
<1>3. lk \in [Handler -> LockState] /\ DOMAIN lk = Handler
  BY DEF LockOK
<1>4. lk[h][1] = h /\ lk[h][2] = 1
  BY DEF LockOK
<1>5. new[h] = <<Free, 0>> /\ \A g \in Handler : g # h => new[g] = lk[g]
  BY <1>1, <1>3, <1>4 DEF Unlocked
<1>6. new \in [Handler -> LockState]
  BY <1>1, <1>3, <1>5 DEF LockState
<1>7. ASSUME NEW g \in Handler
      PROVE  /\ new[g][1] = Free <=> new[g][2] = 0
             /\ \A f \in Handler : new[g][1] = f <=> f = g /\ g \in R \ {h}
             /\ new[g][1] = g => new[g][2] = 1
             /\ \A d \in Caller : new[g][1] = d => cs[d].steps # <<>> /\ cs[d].h = g
  <2>1. CASE g # h
    BY <1>5, <2>1 DEF LockOK
  <2>2. CASE g = h
    BY <1>2, <1>5, <2>2
  <2> QED
    BY <2>1, <2>2
<1>8. ASSUME NEW d \in Caller
      PROVE  Takes(cs[d].steps, HeldBy(new, d, cs[d]), 0)
  <2>1. \A g : g # h => new[g] = lk[g]
    BY <1>1
  <2>2. HeldBy(new, d, cs[d]) = HeldBy(lk, d, cs[d])
    <3>1. CASE cs[d].h = h
      BY <1>2, <1>4, <1>5, <3>1 DEF HeldBy
    <3>2. CASE cs[d].h # h
      BY <2>1, <3>2 DEF HeldBy
    <3> QED
      BY <3>1, <3>2
  <2> QED
    BY <2>2 DEF LockOK
<1>9. LockOK(new, cs, R \ {h})
  BY <1>6, <1>7, <1>8 DEF LockOK
<1> QED
  BY <1>1, <1>9

\* A call begins without the lock.
LEMMA CallBegins ==
    ASSUME NEW lk, NEW cs, NEW R, LockOK(lk, cs, R), DOMAIN cs = Caller,
           NEW c \in Caller, cs[c].steps = <<>>, NEW r, Takes(r.steps, 0, 0), r.h \in Handler
    PROVE  LockOK(lk, [cs EXCEPT ![c] = r], R)
<1>1. PICK new : new = [cs EXCEPT ![c] = r]
  OBVIOUS
<1>2. new[c] = r /\ \A d \in Caller : d # c => new[d] = cs[d]
  BY <1>1
<1>3. \A h \in Handler : lk[h][1] # c
  BY DEF LockOK
<1>4. \A h \in Handler, d \in Caller : lk[h][1] = d => new[d].steps # <<>> /\ new[d].h = h
  BY <1>2, <1>3 DEF LockOK
<1>5. ASSUME NEW d \in Caller
      PROVE  Takes(new[d].steps, HeldBy(lk, d, new[d]), 0)
  <2>1. CASE d = c
    <3>1. HeldBy(lk, c, r) = 0
      BY <1>3 DEF HeldBy
    <3> QED
      BY <1>2, <2>1, <3>1
  <2>2. CASE d # c
    BY <1>2, <2>2 DEF LockOK
  <2> QED
    BY <2>1, <2>2
<1>6. LockOK(lk, new, R)
  BY <1>4, <1>5 DEF LockOK
<1> QED
  BY <1>1, <1>6
\* What the step of a call does to the lock.
LEMMA CallLocks ==
    ASSUME NEW c \in Caller, Continue(c), NEW h, h = calls[c].h, NEW x, x = calls[c].steps[1]
    PROVE  \/ x \in Locking /\ CanLock(h, c) /\ lock' = Locked(h, c)
           \/ x \in Unlocking /\ lock' = Released(h)
           \/ x \notin Locking \cup Unlocking /\ lock' = lock
<1>1. CASE LockStep(c)
  BY <1>1 DEF LockStep, At, Locking
<1>2. CASE UnlockStep(c) \/ StopQuitStep(c) \/ FreeStep(c)
  BY <1>2 DEF UnlockStep, StopQuitStep, FreeStep, At, Unlocking
<1>3. CASE \/ ConnectStep(c) \/ ClockStartStep(c) \/ StartEnterStep(c) \/ StartAlarmStep(c)
           \/ StartThreadStep(c) \/ DisconnectStep(c) \/ ClockStopEnterStep(c)
           \/ ClockStopQuitStep(c) \/ ClockStopJoinStep(c) \/ StopEnterStep(c)
           \/ StopAlarmStep(c) \/ StopJoinStep(c) \/ StopClearStep(c) \/ EnqueueStep(c)
           \/ NotifyStep(c)
  <2>1. lock' = lock
    BY <1>3 DEF ConnectStep, ClockStartStep, StartEnterStep, StartAlarmStep, StartThreadStep,
                DisconnectStep, ClockStopEnterStep, ClockStopQuitStep, ClockStopJoinStep,
                StopEnterStep, StopAlarmStep, StopJoinStep, StopClearStep, EnqueueStep, NotifyStep
  <2>2. x \in {"connect", "clockStart", "startEnter", "startAlarm", "startThread", "disconnect",
               "clockStopEnter", "clockStopQuit", "clockStopJoin", "stopEnter", "stopAlarm",
               "stopJoin", "stopClear", "enqueueTail", "enqueueHead", "notify"}
    BY <1>3 DEF ConnectStep, ClockStartStep, StartEnterStep, StartAlarmStep, StartThreadStep,
                DisconnectStep, ClockStopEnterStep, ClockStopQuitStep, ClockStopJoinStep,
                StopEnterStep, StopAlarmStep, StopJoinStep, StopClearStep, EnqueueStep, NotifyStep,
                At
  <2> QED
    BY <2>1, <2>2 DEF Locking, Unlocking
<1> QED
  BY <1>1, <1>2, <1>3 DEF Continue

\* The step of a call moves its handler's lock by what is left of the call.
LEMMA CallKeepsLock ==
    ASSUME CallsOK, NEW R, LockOK(lock, calls, R), NEW c \in Caller, Continue(c)
    PROVE  LockOK(lock', calls', R)
<1>1. PICK h, x, k : h = calls[c].h /\ x = calls[c].steps[1] /\ k = HeldBy(lock, c, calls[c])
  OBVIOUS
<1>2. Takes(calls[c].steps, k, 0)
  BY <1>1 DEF LockOK
<1>3. calls[c].steps # <<>> /\ k \in 0..2
  BY <1>2, CallGoesOn
<1>4. PICK s \in Seq(Step), j \in 0..2 : GoOn(c, s) /\ Takes(s, j, 0) /\ j = k + Change(x)
  BY <1>1, <1>2, CallGoesOn
<1>5. h \in Handler /\ calls \in [Caller -> CallRecord]
  BY <1>1, <1>3 DEF CallsOK
<1>6. Free \notin Handler /\ Free \notin Caller /\ \A g \in Handler : g \notin Caller
  BY HandlerAssumption
<1>7. PICK new, b : new = lock' /\ b = lock[h]
  OBVIOUS
<1>8. /\ lock \in [Handler -> LockState] /\ b \in LockState
      /\ b = <<b[1], b[2]>> /\ b[2] \in 0..2 /\ (b[1] = Free <=> b[2] = 0)
  <2>1. lock \in [Handler -> LockState] /\ (b[1] = Free <=> b[2] = 0)
    BY <1>5, <1>7 DEF LockOK
  <2>2. b \in LockState
    BY <1>5, <1>7, <2>1
  <2> QED
    BY <2>1, <2>2 DEF LockState
<1>9. k = IF b[1] = c THEN b[2] ELSE 0
  BY <1>1, <1>3, <1>7 DEF HeldBy
<1>10. new = [lock EXCEPT ![h] = new[h]] /\ Moves(b, new[h], c, j)
  <2>1. CASE x \in Locking /\ CanLock(h, c) /\ lock' = Locked(h, c)
    <3>1. b[1] \in {Free, c} /\ new = [lock EXCEPT ![h] = <<c, b[2] + 1>>]
      BY <1>7, <2>1 DEF CanLock, Locked
    <3>2. b[2] = k
      BY <1>6, <1>8, <1>9, <3>1
    <3>3. Change(x) = 1
      BY <2>1 DEF Change
    <3>4. j = k + 1 /\ j # 0
      BY <1>3, <1>4, <3>3
    <3>5. new[h] = <<c, j>> /\ new = [lock EXCEPT ![h] = new[h]]
      BY <1>5, <1>8, <3>1, <3>2, <3>4
    <3> QED
      BY <3>1, <3>4, <3>5 DEF Moves
  <2>2. CASE x \in Unlocking /\ lock' = Released(h)
    <3>1. new = [lock EXCEPT ![h] = IF b[2] = 1 THEN Unlocked ELSE <<b[1], b[2] - 1>>]
      BY <1>7, <2>2 DEF Released
    <3>2. Change(x) = -1
      BY <2>2 DEF Change, Locking, Unlocking
    <3>3. j = k - 1 /\ k # 0
      BY <1>3, <1>4, <3>2
    <3>4. b[1] = c /\ b[2] = k
      BY <1>9, <3>3
    <3>5. /\ new[h] = IF j = 0 THEN Unlocked ELSE <<c, j>>
          /\ new = [lock EXCEPT ![h] = new[h]]
      <4>1. b[2] = 1 <=> j = 0
        BY <1>3, <3>3, <3>4
      <4>2. new[h] = IF b[2] = 1 THEN Unlocked ELSE <<b[1], b[2] - 1>>
        BY <1>5, <1>8, <3>1
      <4> QED
        BY <3>1, <3>3, <3>4, <4>1, <4>2
    <3> QED
      BY <3>4, <3>5 DEF Moves
  <2>3. CASE x \notin Locking \cup Unlocking /\ lock' = lock
    <3>1. Change(x) = 0
      BY <2>3 DEF Change
    <3>2. j = k
      BY <1>3, <1>4, <3>1
    <3>3. new = lock /\ new[h] = b /\ new = [lock EXCEPT ![h] = new[h]]
      BY <1>5, <1>7, <1>8, <2>3
    <3>4. CASE b[1] = c
      <4>1. b = <<c, j>> /\ j # 0
        BY <1>6, <1>8, <1>9, <3>2, <3>4
      <4> QED
        BY <3>3, <3>4, <4>1 DEF Moves
    <3>5. CASE b[1] # c
      BY <1>9, <3>2, <3>3, <3>5 DEF Moves
    <3> QED
      BY <3>3, <3>4, <3>5
  <2> QED
    BY <1>1, <2>1, <2>2, <2>3, CallLocks
<1>11. calls' = [calls EXCEPT ![c] = IF s = <<>> THEN Idle ELSE [@ EXCEPT !.steps = s]]
  BY <1>4 DEF GoOn
<1>12. PICK cs : cs = calls
  OBVIOUS
<1>13. /\ LockOK(lock, cs, R) /\ cs \in [Caller -> CallRecord] /\ cs[c].h = h
       /\ Moves(lock[h], new[h], c, j)
  BY <1>1, <1>5, <1>7, <1>10, <1>12
<1>14. LockOK(new, [cs EXCEPT ![c] = IF s = <<>> THEN Idle ELSE [@ EXCEPT !.steps = s]], R)
  BY <1>4, <1>5, <1>10, <1>13, CallMovesLock
<1> QED
  BY <1>7, <1>11, <1>12, <1>14

\* A call starts a thread for a handler that has none, and joins one that has ended.
LEMMA CallKeepsThreads ==
    ASSUME HandlerInv, ThreadsOK(hpc, thread), NEW c \in Caller, Continue(c)
    PROVE  ThreadsOK(hpc', thread') /\ Runners(hpc') = Runners(hpc)
<1>0. /\ CallsOK /\ PhaseOK /\ thread \in [Handler -> BOOLEAN]
      /\ hpc \in [Handler -> ThreadState] /\ \A g \in Handler : ~thread[g] => hpc[g] = "none"
  BY DEF HandlerInv, PhaseOK, ThreadsOK
<1>1. PICK h : h = calls[c].h
  OBVIOUS
<1>2. h \in Handler
  <2>1. calls[c].steps # <<>>
    BY WaysOn
  <2> QED
    BY <1>0, <1>1, <2>1 DEF CallsOK
<1>3. CASE StartThreadStep(c)
  <2>1. /\ thread' = [thread EXCEPT ![h] = TRUE] /\ hpc' = [hpc EXCEPT ![h] = "started"]
        /\ calls[c].steps # <<>> /\ calls[c].steps[1] = "startThread"
    BY <1>1, <1>3 DEF StartThreadStep, At
  <2>2. ~thread[h]
    <3>1. calls[c].steps[1] \in Owning
      BY <2>1 DEF Owning
    <3>2. InPhase(h \in WithAlarm, thread[h], "startThread")
      BY <1>0, <1>1, <2>1, <3>1, OwnPhase
    <3> QED
      BY <3>2 DEF InPhase
  <2>3. hpc[h] = "none"
    BY <1>0, <1>2, <2>2
  <2>4. ThreadsOK(hpc', thread')
    BY <1>0, <1>2, <2>1 DEF ThreadsOK, ThreadState
  <2>5. Runners(hpc') = Runners(hpc)
    BY <1>0, <1>2, <2>1, <2>3 DEF Runners, Running
  <2> QED
    BY <2>4, <2>5
<1>4. CASE StopJoinStep(c)
  <2>1. /\ thread' = [thread EXCEPT ![h] = FALSE] /\ hpc' = [hpc EXCEPT ![h] = "none"]
        /\ hpc[h] = "ended"
    BY <1>1, <1>4 DEF StopJoinStep
  <2>2. ThreadsOK(hpc', thread')
    BY <1>0, <1>2, <2>1 DEF ThreadsOK, ThreadState
  <2>3. Runners(hpc') = Runners(hpc)
    BY <1>0, <1>2, <2>1 DEF Runners, Running
  <2> QED
    BY <2>2, <2>3
<1>5. CASE StopQuitStep(c) \/ NotifyStep(c)
  <2>1. thread' = thread /\ hpc' = [hpc EXCEPT ![h] = IF @ = "waiting" THEN "woken" ELSE @]
    BY <1>1, <1>5 DEF StopQuitStep, NotifyStep, Woken
  <2>2. ThreadsOK(hpc', thread')
    BY <1>0, <1>2, <2>1 DEF ThreadsOK, ThreadState
  <2>3. Runners(hpc') = Runners(hpc)
    BY <1>0, <1>2, <2>1 DEF Runners, Running
  <2> QED
    BY <2>2, <2>3
<1>6. CASE \/ LockStep(c) \/ UnlockStep(c) \/ ConnectStep(c) \/ ClockStartStep(c)
           \/ StartEnterStep(c) \/ StartAlarmStep(c) \/ DisconnectStep(c)
           \/ ClockStopEnterStep(c) \/ ClockStopQuitStep(c) \/ ClockStopJoinStep(c)
           \/ StopEnterStep(c) \/ StopAlarmStep(c) \/ StopClearStep(c) \/ FreeStep(c)
           \/ EnqueueStep(c)
  <2>1. thread' = thread /\ hpc' = hpc
    BY <1>6 DEF LockStep, UnlockStep, ConnectStep, ClockStartStep, StartEnterStep,
                StartAlarmStep, DisconnectStep, ClockStopEnterStep, ClockStopQuitStep,
                ClockStopJoinStep, StopEnterStep, StopAlarmStep, StopClearStep, FreeStep,
                EnqueueStep, threadVars
  <2> QED
    BY <2>1
<1> QED
  BY <1>3, <1>4, <1>5, <1>6 DEF Continue
\* The alarm that is expiring is a handler's.
LEMMA ExpiringHandler ==
    ASSUME HandlerInv, Busy
    PROVE  expiring.context \in Handler
<1>1. expiring # NoAlarm
  BY DEF HandlerInv, AlarmInv, ClockLocked
<1>2. expiring \in AlarmRecord
  BY <1>1 DEF HandlerInv, AlarmInv, AlarmsTyped
<1> QED
  BY <1>2 DEF AlarmRecord

\* A handler's thread takes and gives back the lock.
LEMMA ThreadKeepsLock ==
    ASSUME LockInv, NEW h \in Handler, ThreadStep(h)
    PROVE  LockInv'
<1>0. /\ hpc \in [Handler -> ThreadState] /\ \A g \in Handler : ~thread[g] => hpc[g] = "none"
      /\ LockOK(lock, calls, Runners(hpc))
  BY DEF LockInv, ThreadsOK
<1>1. thread' = thread /\ calls' = calls
  BY DEF ThreadStep, ThreadLocks, ThreadQuits, ThreadTakes, ThreadDispatches, ThreadIdles,
         ThreadWaits
<1>2. PICK p : p = hpc'[h]
  OBVIOUS
<1>3. /\ hpc' = [hpc EXCEPT ![h] = p] /\ p \in ThreadState /\ hpc[h] # "none"
      /\ \/ h \notin Runners(hpc) /\ p \in Running /\ CanLock(h, h) /\ lock' = Locked(h, h)
         \/ h \in Runners(hpc) /\ p \notin Running /\ lock' = Released(h)
         \/ h \in Runners(hpc) /\ p \in Running /\ lock' = lock
  <2>1. CASE ThreadLocks(h)
    <3>1. /\ hpc[h] \in {"started", "woken"} /\ CanLock(h, h) /\ lock' = Locked(h, h)
          /\ hpc' = [hpc EXCEPT ![h] = "check"]
      BY <2>1 DEF ThreadLocks
    <3>2. p = "check"
      BY <1>0, <1>2, <3>1
    <3> QED
      BY <1>0, <3>1, <3>2 DEF Runners, Running, ThreadState
  <2>2. CASE ThreadQuits(h)
    <3>1. hpc[h] = "check" /\ lock' = Released(h) /\ hpc' = [hpc EXCEPT ![h] = "ended"]
      BY <2>2 DEF ThreadQuits
    <3>2. p = "ended"
      BY <1>0, <1>2, <3>1
    <3> QED
      BY <1>0, <3>1, <3>2 DEF Runners, Running, ThreadState
  <2>3. CASE ThreadTakes(h)
    <3>1. hpc[h] = "check" /\ lock' = lock /\ hpc' = [hpc EXCEPT ![h] = "dispatch"]
      BY <2>3 DEF ThreadTakes
    <3>2. p = "dispatch"
      BY <1>0, <1>2, <3>1
    <3> QED
      BY <1>0, <3>1, <3>2 DEF Runners, Running, ThreadState
  <2>4. CASE ThreadDispatches(h)
    <3>1. hpc[h] = "dispatch" /\ lock' = lock /\ hpc' = [hpc EXCEPT ![h] = "check"]
      BY <2>4 DEF ThreadDispatches
    <3>2. p = "check"
      BY <1>0, <1>2, <3>1
    <3> QED
      BY <1>0, <3>1, <3>2 DEF Runners, Running, ThreadState
  <2>5. CASE ThreadIdles(h)
    <3>1. hpc[h] = "check" /\ lock' = lock /\ hpc' = [hpc EXCEPT ![h] = "idle"]
      BY <2>5 DEF ThreadIdles
    <3>2. p = "idle"
      BY <1>0, <1>2, <3>1
    <3> QED
      BY <1>0, <3>1, <3>2 DEF Runners, Running, ThreadState
  <2>6. CASE ThreadWaits(h)
    <3>1. hpc[h] = "idle" /\ lock' = Released(h) /\ hpc' = [hpc EXCEPT ![h] = "waiting"]
      BY <2>6 DEF ThreadWaits
    <3>2. p = "waiting"
      BY <1>0, <1>2, <3>1
    <3> QED
      BY <1>0, <3>1, <3>2 DEF Runners, Running, ThreadState
  <2> QED
    BY <2>1, <2>2, <2>3, <2>4, <2>5, <2>6 DEF ThreadStep
<1>4. ThreadsOK(hpc', thread')
  BY <1>0, <1>1, <1>3 DEF ThreadsOK
<1>5. PICK R : R = Runners(hpc)
  OBVIOUS
<1>6. Runners(hpc') = IF p \in Running THEN R \cup {h} ELSE R \ {h}
  BY <1>0, <1>3, <1>5 DEF Runners
<1>7. LockOK(lock', calls', Runners(hpc'))
  <2>1. CASE h \notin R /\ p \in Running /\ CanLock(h, h) /\ lock' = Locked(h, h)
    <3>1. lock[h][1] \in {Free, h} /\ lock' = [lock EXCEPT ![h] = <<h, @[2] + 1>>]
      BY <2>1 DEF CanLock, Locked
    <3>2. LockOK(lock, calls, R) /\ h \notin R /\ lock[h][1] \in {Free, h}
      BY <1>0, <1>5, <2>1, <3>1
    <3>3. LockOK([lock EXCEPT ![h] = <<h, @[2] + 1>>], calls, R \cup {h})
      BY <3>2, ThreadTakesLock
    <3> QED
      BY <1>1, <1>6, <2>1, <3>1, <3>3
  <2>2. CASE h \in R /\ p \notin Running /\ lock' = Released(h)
    <3>1. lock' = [lock EXCEPT ![h] = IF @[2] = 1 THEN Unlocked ELSE <<@[1], @[2] - 1>>]
      BY <2>2 DEF Released
    <3>2. LockOK(lock, calls, R) /\ h \in R
      BY <1>0, <1>5, <2>2
    <3>3. LockOK([lock EXCEPT ![h] = IF @[2] = 1 THEN Unlocked ELSE <<@[1], @[2] - 1>>],
                 calls, R \ {h})
      BY <3>2, ThreadGivesLock
    <3> QED
      BY <1>1, <1>6, <2>2, <3>1, <3>3
  <2>3. CASE h \in R /\ p \in Running /\ lock' = lock
    <3>1. Runners(hpc') = R
      BY <1>6, <2>3
    <3> QED
      BY <1>0, <1>1, <1>5, <2>3, <3>1
  <2> QED
    BY <1>3, <1>5, <2>1, <2>2, <2>3
<1> QED
  BY <1>4, <1>7 DEF LockInv

\* Every step keeps the locks and the threads in order.
LEMMA LockNext == HandlerInv /\ LockInv /\ [Next]_vars => LockInv'
<1> SUFFICES ASSUME HandlerInv, LockInv, [Next]_vars
             PROVE  LockInv'
  OBVIOUS
<1>0. ThreadsOK(hpc, thread) /\ LockOK(lock, calls, Runners(hpc)) /\ CallsOK
  BY DEF LockInv, HandlerInv
<1>1. ASSUME NEW h \in Handler, ThreadStep(h)
      PROVE  LockInv'
  BY <1>1, ThreadKeepsLock
<1>2. CASE \/ ClockBeginsStep \/ ClockWakesStep \/ ClockTimesOutStep \/ ClockExpiresStep
           \/ CallbackEnqueues \/ ClockReinsertsStep \/ Time \/ UNCHANGED vars
  <2>1. UNCHANGED <<hpc, thread, lock, calls>>
    BY <1>2 DEF ClockBeginsStep, ClockWakesStep, ClockTimesOutStep, ClockExpiresStep,
                CallbackEnqueues, ClockReinsertsStep, Time, vars, handlerVars, threadVars
  <2> QED
    BY <1>0, <2>1 DEF LockInv
<1>3. CASE CallbackSignals
  <2>1. PICK h : h = expiring.context
    OBVIOUS
  <2>2. h \in Handler
    <3>1. Busy
      BY <1>3 DEF CallbackSignals, Busy
    <3> QED
      BY <2>1, <3>1, ExpiringHandler
  <2>3. /\ UNCHANGED <<thread, lock, calls>>
        /\ hpc' = [hpc EXCEPT ![h] = IF @ = "waiting" THEN "woken" ELSE @]
    BY <1>3, <2>1 DEF CallbackSignals, Woken
  <2>4. ThreadsOK(hpc', thread')
    BY <1>0, <2>2, <2>3 DEF ThreadsOK, ThreadState
  <2>5. Runners(hpc') = Runners(hpc)
    BY <1>0, <2>2, <2>3 DEF Runners, Running, ThreadsOK
  <2> QED
    BY <1>0, <2>3, <2>4, <2>5 DEF LockInv
<1>4. ASSUME NEW c \in Caller, Continue(c)
      PROVE  LockInv'
  <2>1. ThreadsOK(hpc', thread') /\ Runners(hpc') = Runners(hpc)
    BY <1>0, <1>4, CallKeepsThreads
  <2>2. LockOK(lock', calls', Runners(hpc))
    BY <1>0, <1>4, CallKeepsLock
  <2> QED
    BY <2>1, <2>2 DEF LockInv
<1>5. ASSUME NEW c \in Caller, NEW h \in Handler, NEW op \in Op,
             NEW e \in Event \cup {NoEvent}, Invoke(c, h, op, e)
      PROVE  LockInv'
  <2>1. PICK r : r = [h |-> h, e |-> e, steps |-> Program(op)]
    OBVIOUS
  <2>2. /\ calls[c] = Idle /\ calls' = [calls EXCEPT ![c] = r]
        /\ UNCHANGED <<hpc, thread, lock>>
    BY <1>5, <2>1 DEF Invoke, threadVars
  <2>3. calls[c].steps = <<>> /\ DOMAIN calls = Caller
    BY <1>0, <2>2 DEF Idle, CallsOK
  <2>4. Takes(r.steps, 0, 0) /\ r.h \in Handler
    BY <2>1, ProgramsTake
  <2>5. LockOK(lock, [calls EXCEPT ![c] = r], Runners(hpc))
    BY <1>0, <2>3, <2>4, CallBegins
  <2> QED
    BY <1>0, <2>2, <2>5 DEF LockInv
<1> QED
  BY <1>1, <1>2, <1>3, <1>4, <1>5 DEF Next, ClockStep

\* No lock is held and no thread runs when the program begins.
LEMMA LockInit == Init => LockInv
<1> SUFFICES ASSUME Init
             PROVE  LockInv
  OBVIOUS
<1>1. /\ lock = [h \in Handler |-> Unlocked] /\ calls = [c \in Caller |-> Idle]
      /\ hpc = [h \in Handler |-> "none"]
  BY DEF Init
<1>2. Free \notin Handler /\ Free \notin Caller
  BY HandlerAssumption
<1>3. ThreadsOK(hpc, thread)
  BY <1>1 DEF ThreadsOK, ThreadState
<1>4. Runners(hpc) = {}
  BY <1>1 DEF Runners, Running
<1>5. lock \in [Handler -> LockState] /\ \A h \in Handler : lock[h][1] = Free /\ lock[h][2] = 0
  BY <1>1 DEF Unlocked, LockState
<1>6. ASSUME NEW c \in Caller
      PROVE  Takes(calls[c].steps, HeldBy(lock, c, calls[c]), 0)
  <2>1. calls[c].steps = <<>>
    BY <1>1 DEF Idle
  <2>2. HeldBy(lock, c, calls[c]) = 0
    BY <2>1 DEF HeldBy
  <2> QED
    BY <2>1, <2>2, TakesNothing
<1>7. LockOK(lock, calls, {})
  BY <1>2, <1>5, <1>6 DEF LockOK
<1> QED
  BY <1>3, <1>4, <1>7 DEF LockInv
-----------------------------------------------------------------------------
(* The handlers' queues *)

\* the queues are well formed and hold events only
QueueInv ==
    /\ queue = [h \in Handler |-> queue[h]]
    /\ \A h \in Handler : ListsOK(queue[h])
    /\ \A c \in Caller : Signals(calls[c].steps) => calls[c].e \in Event
    /\ signalled \subseteq Event

\* what a step does to a queue
Changes(q, r) ==
    \/ \E e \in Event, tail \in BOOLEAN : r = Enqueue(q, e, tail)
    \/ q.pending # NULL /\ r = Dequeue(q)
    \/ r = Clear(q)

\* and so to the events it holds: one is added at either end, the first is taken, all are dropped
Turns(s, t) ==
    \/ \E e \in Event : t = Append(s, e) \/ t = <<e>> \o s
    \/ s # <<>> /\ t = Tail(s)
    \/ t = <<>>

\* Each operation of the queue is the operation of a deque.
LEMMA ChangeContents ==
    ASSUME NEW q, NEW r, ListsOK(q), Changes(q, r)
    PROVE  ListsOK(r) /\ Turns(Contents(q), Contents(r))
<1>1. ASSUME NEW e \in Event, NEW tail \in BOOLEAN, r = Enqueue(q, e, tail)
      PROVE  ListsOK(r) /\ Turns(Contents(q), Contents(r))
  <2>1. /\ ListsOK(r)
        /\ Contents(r) = IF tail THEN Append(Contents(q), e) ELSE <<e>> \o Contents(q)
    BY <1>1, EnqueueContents
  <2>2. Contents(r) = Append(Contents(q), e) \/ Contents(r) = <<e>> \o Contents(q)
    BY <2>1
  <2> QED
    BY <2>1, <2>2 DEF Turns
<1>2. CASE q.pending # NULL /\ r = Dequeue(q)
  <2>1. ListsOK(r) /\ Contents(q) # <<>> /\ Contents(r) = Tail(Contents(q))
    BY <1>2, DequeueContents
  <2> QED
    BY <2>1 DEF Turns
<1>3. CASE r = Clear(q)
  <2>1. ListsOK(r) /\ Contents(r) = <<>>
    BY <1>3, ClearContents
  <2> QED
    BY <2>1 DEF Turns
<1> QED
  BY <1>1, <1>2, <1>3 DEF Changes

\* one queue changes, by one of the operations, or none
QueueMoves ==
    \/ queue' = queue
    \/ \E h \in Handler : \E r : Changes(queue[h], r) /\ queue' = [queue EXCEPT ![h] = r]

\* A call operates on its handler's queue.
LEMMA CallChanges ==
    ASSUME CallsOK, QueueInv, NEW c \in Caller, Continue(c)
    PROVE  QueueMoves
<1>1. PICK h, q : h = calls[c].h /\ q = queue[h]
  OBVIOUS
<1>2. calls[c].steps # <<>> /\ calls[c].steps \in Seq(Step)
  BY WaysOn DEF CallsOK, CallRecord
<1>3. h \in Handler
  BY <1>1, <1>2 DEF CallsOK
<1>4. CASE EnqueueStep(c)
  <2>1. PICK t \in BOOLEAN : t = At(c, "enqueueTail")
    BY DEF At
  <2>2. /\ calls[c].steps[1] \in {"enqueueTail", "enqueueHead"}
        /\ queue' = [queue EXCEPT ![h] = Enqueue(q, calls[c].e, t)]
    BY <1>1, <1>4, <2>1 DEF EnqueueStep, At
  <2>3. 1 \in 1..Len(calls[c].steps)
    BY <1>2, EmptySeq, LenProperties
  <2>4. calls[c].e \in Event
    BY <2>2, <2>3 DEF QueueInv, Signals
  <2>5. Changes(q, Enqueue(q, calls[c].e, t))
    BY <2>4 DEF Changes
  <2> QED
    BY <1>1, <1>3, <2>2, <2>5 DEF QueueMoves
<1>5. CASE StopClearStep(c) \/ FreeStep(c)
  <2>1. queue' = [queue EXCEPT ![h] = Clear(q)]
    BY <1>1, <1>5 DEF StopClearStep, FreeStep
  <2>2. Changes(q, Clear(q))
    BY DEF Changes
  <2> QED
    BY <1>1, <1>3, <2>1, <2>2 DEF QueueMoves
<1>6. CASE \/ LockStep(c) \/ UnlockStep(c) \/ ConnectStep(c) \/ ClockStartStep(c)
           \/ StartEnterStep(c) \/ StartAlarmStep(c) \/ StartThreadStep(c) \/ DisconnectStep(c)
           \/ ClockStopEnterStep(c) \/ ClockStopQuitStep(c) \/ ClockStopJoinStep(c)
           \/ StopEnterStep(c) \/ StopAlarmStep(c) \/ StopQuitStep(c) \/ StopJoinStep(c)
           \/ NotifyStep(c)
  BY <1>6 DEF QueueMoves, LockStep, UnlockStep, ConnectStep, ClockStartStep, StartEnterStep,
              StartAlarmStep, StartThreadStep, DisconnectStep, ClockStopEnterStep,
              ClockStopQuitStep, ClockStopJoinStep, StopEnterStep, StopAlarmStep, StopQuitStep,
              StopJoinStep, NotifyStep
<1> QED
  BY <1>4, <1>5, <1>6 DEF Continue

\* A step changes at most one queue.
LEMMA StepChanges ==
    ASSUME HandlerInv, QueueInv, [Next]_vars
    PROVE  QueueMoves
<1>1. ASSUME NEW h \in Handler, ThreadStep(h)
      PROVE  QueueMoves
  <2>1. CASE ThreadTakes(h)
    <3>1. PICK q : q = queue[h]
      OBVIOUS
    <3>2. q.pending # NULL /\ queue' = [queue EXCEPT ![h] = Dequeue(q)]
      BY <2>1, <3>1 DEF ThreadTakes
    <3>3. Changes(q, Dequeue(q))
      BY <3>2 DEF Changes
    <3> QED
      BY <3>1, <3>2, <3>3 DEF QueueMoves
  <2>2. CASE \/ ThreadLocks(h) \/ ThreadQuits(h) \/ ThreadDispatches(h) \/ ThreadIdles(h)
             \/ ThreadWaits(h)
    BY <2>2 DEF QueueMoves, ThreadLocks, ThreadQuits, ThreadDispatches, ThreadIdles, ThreadWaits
  <2> QED
    BY <1>1, <2>1, <2>2 DEF ThreadStep
<1>2. CASE \/ ClockBeginsStep \/ ClockWakesStep \/ ClockTimesOutStep \/ ClockExpiresStep
           \/ CallbackSignals \/ ClockReinsertsStep \/ Time \/ UNCHANGED vars
  BY <1>2 DEF QueueMoves, ClockBeginsStep, ClockWakesStep, ClockTimesOutStep, ClockExpiresStep,
              CallbackSignals, ClockReinsertsStep, Time, vars, handlerVars
<1>3. CASE CallbackEnqueues
  <2>1. PICK h, q : h = expiring.context /\ q = queue[h]
    OBVIOUS
  <2>2. h \in Handler
    <3>1. Busy
      BY <1>3 DEF CallbackEnqueues, Busy
    <3> QED
      BY <2>1, <3>1, ExpiringHandler
  <2>3. queue' = [queue EXCEPT ![h] = Enqueue(q, Timeout, FALSE)]
    BY <1>3, <2>1 DEF CallbackEnqueues
  <2>4. Timeout \in Event
    BY HandlerAssumption
  <2>5. Changes(q, Enqueue(q, Timeout, FALSE))
    BY <2>4 DEF Changes
  <2> QED
    BY <2>1, <2>2, <2>3, <2>5 DEF QueueMoves
<1>4. ASSUME NEW c \in Caller, Continue(c)
      PROVE  QueueMoves
  BY <1>4, CallChanges DEF HandlerInv
<1>5. ASSUME NEW c \in Caller, NEW h \in Handler, NEW op \in Op,
             NEW e \in Event \cup {NoEvent}, Invoke(c, h, op, e)
      PROVE  QueueMoves
  BY <1>5 DEF QueueMoves, Invoke
<1> QED
  BY <1>1, <1>2, <1>3, <1>4, <1>5 DEF Next, ClockStep
\* No event is queued that was not signalled, and none is signalled by a call that has none.
LEMMA SignalsKept ==
    ASSUME HandlerInv, LockInv, QueueInv, [Next]_vars
    PROVE  /\ signalled' \subseteq Event
           /\ \A c \in Caller : Signals(calls'[c].steps) => calls'[c].e \in Event
<1>0. /\ CallsOK /\ LockOK(lock, calls, Runners(hpc)) /\ signalled \subseteq Event
      /\ \A c \in Caller : Signals(calls[c].steps) => calls[c].e \in Event
  BY DEF HandlerInv, LockInv, QueueInv
<1>1. CASE UNCHANGED <<calls, signalled>>
  BY <1>0, <1>1
<1>2. CASE (\E h \in Handler : ThreadStep(h)) \/ ClockStep \/ Time \/ UNCHANGED vars
  <2>1. UNCHANGED <<calls, signalled>>
    BY <1>2 DEF ThreadStep, ThreadLocks, ThreadQuits, ThreadTakes, ThreadDispatches, ThreadIdles,
                ThreadWaits, ClockStep, Time, ClockBeginsStep, ClockWakesStep, ClockTimesOutStep,
                ClockExpiresStep, ClockReinsertsStep, CallbackEnqueues, CallbackSignals,
                handlerVars, appVars, vars
  <2> QED
    BY <1>1, <2>1
<1>3. ASSUME NEW c \in Caller, Continue(c)
      PROVE  /\ signalled' = signalled
             /\ \A d \in Caller : Signals(calls'[d].steps) => calls'[d].e \in Event
  <2>1. signalled' = signalled
    BY <1>3 DEF Continue, LockStep, UnlockStep, ConnectStep, ClockStartStep, StartEnterStep,
                StartAlarmStep, StartThreadStep, DisconnectStep, ClockStopEnterStep,
                ClockStopQuitStep, ClockStopJoinStep, StopEnterStep, StopAlarmStep, StopQuitStep,
                StopJoinStep, StopClearStep, FreeStep, EnqueueStep, NotifyStep, appVars
  <2>2. Takes(calls[c].steps, HeldBy(lock, c, calls[c]), 0)
    BY <1>0 DEF LockOK
  <2>3. PICK s \in Seq(Step) : GoOn(c, s) /\ (Signals(s) => Signals(calls[c].steps))
    BY <1>0, <1>3, <2>2, CallGoesOn
  <2>4. /\ calls'[c].steps = s
        /\ \A d \in Caller : d # c => calls'[d] = calls[d]
    BY <1>0, <2>3, GoOnProperties
  <2>5. s # <<>> => calls'[c].e = calls[c].e
    <3> SUFFICES ASSUME s # <<>>
                 PROVE  calls'[c].e = calls[c].e
      OBVIOUS
    <3>1. calls \in [Caller -> CallRecord] /\ calls[c] \in CallRecord
      BY <1>0 DEF CallsOK
    <3>2. calls' = [calls EXCEPT ![c] = [@ EXCEPT !.steps = s]]
      BY <2>3 DEF GoOn
    <3> QED
      BY <3>1, <3>2 DEF CallRecord
  <2>6. Signals(s) => s # <<>>
    BY PartsDoNotSignal
  <2>7. ASSUME NEW d \in Caller, Signals(calls'[d].steps)
        PROVE  calls'[d].e \in Event
    <3>1. CASE d = c
      BY <1>0, <2>3, <2>4, <2>5, <2>6, <2>7, <3>1
    <3>2. CASE d # c
      BY <1>0, <2>4, <2>7, <3>2
    <3> QED
      BY <3>1, <3>2
  <2> QED
    BY <2>1, <2>7
<1>4. ASSUME NEW c \in Caller, NEW h \in Handler, NEW op \in Op,
             NEW e \in Event \cup {NoEvent}, Invoke(c, h, op, e)
      PROVE  /\ signalled' \subseteq Event
             /\ \A d \in Caller : Signals(calls'[d].steps) => calls'[d].e \in Event
  <2>1. PICK r : r = [h |-> h, e |-> e, steps |-> Program(op)]
    OBVIOUS
  <2>2. calls' = [calls EXCEPT ![c] = r] /\ calls \in [Caller -> CallRecord]
    BY <1>0, <1>4, <2>1 DEF Invoke, CallsOK
  <2>3. r.steps = Program(op) /\ r.e = e
    BY <2>1
  <2>4. /\ op \in {"signal", "signalOOB"} => e \in Event /\ signalled' = signalled \cup {e}
        /\ op \notin {"signal", "signalOOB"} => signalled' = signalled
    BY <1>4 DEF Invoke
  <2>5. Signals(Program(op)) => op \in {"signal", "signalOOB"}
    BY ProgramsTake
  <2>6. signalled' \subseteq Event
    BY <1>0, <2>4
  <2>7. calls'[c] = r /\ \A d \in Caller : d # c => calls'[d] = calls[d]
    BY <2>2
  <2> QED
    BY <1>0, <2>3, <2>4, <2>5, <2>6, <2>7
<1> QED
  BY <1>0, <1>2, <1>3, <1>4 DEF Next

\* Every step keeps the queues well formed.
LEMMA QueueNext == HandlerInv /\ LockInv /\ QueueInv /\ [Next]_vars => QueueInv'
<1> SUFFICES ASSUME HandlerInv, LockInv, QueueInv, [Next]_vars
             PROVE  QueueInv'
  OBVIOUS
<1>1. queue = [h \in Handler |-> queue[h]] /\ \A h \in Handler : ListsOK(queue[h])
  BY DEF QueueInv
<1>2. queue' = [h \in Handler |-> queue'[h]] /\ \A h \in Handler : ListsOK(queue'[h])
  <2>1. CASE queue' = queue
    BY <1>1, <2>1
  <2>2. ASSUME NEW h \in Handler, NEW r, Changes(queue[h], r), queue' = [queue EXCEPT ![h] = r]
        PROVE  queue' = [g \in Handler |-> queue'[g]] /\ \A g \in Handler : ListsOK(queue'[g])
    <3>1. ListsOK(r)
      BY <1>1, <2>2, ChangeContents
    <3>2. \A g \in Handler : queue'[g] = IF g = h THEN r ELSE queue[g]
      BY <1>1, <2>2
    <3>3. queue' = [g \in Handler |-> queue'[g]]
      BY <1>1, <2>2
    <3> QED
      BY <1>1, <3>1, <3>2, <3>3
  <2> QED
    BY <2>1, <2>2, StepChanges DEF QueueMoves
<1> QED
  BY <1>2, SignalsKept DEF QueueInv

\* All the queues are empty when the program begins.
LEMMA QueueInit == Init => QueueInv
<1> SUFFICES ASSUME Init
             PROVE  QueueInv
  OBVIOUS
<1>1. /\ queue = [h \in Handler |-> eventQueueCreate] /\ calls = [c \in Caller |-> Idle]
      /\ signalled = {}
  BY DEF Init
<1>2. \A c \in Caller : calls[c].steps = <<>>
  BY <1>1 DEF Idle
<1> QED
  BY <1>1, <1>2, CreateContents, PartsDoNotSignal DEF QueueInv

\* the inductive invariant of the theorems about the queues and about the types
QueuesInv == HandlerInv /\ LockInv /\ QueueInv

\* The locks, the threads and the queues are in order in every reachable state, for any number
\* of threads that signal, connect, disconnect and destroy (BREvent.c, BREventQueue.c).
THEOREM QueuesInvariance == Spec => []QueuesInv
<1>1. Init => QueuesInv
  BY HandlerInit, LockInit, QueueInit DEF QueuesInv
<1>2. QueuesInv /\ [Next]_vars => QueuesInv'
  BY HandlerNext, LockNext, QueueNext DEF QueuesInv
<1> QED
  BY <1>1, <1>2, PTL DEF Spec

\* Every record of a queue is in exactly one of its two lists, once, and both lists end, for
\* any capacity and any growth of the pool (BREventQueue.c).
THEOREM RecordsAreOwned == Spec => []CellsOwned
<1>1. ASSUME QueuesInv
      PROVE  CellsOwned
  <2> SUFFICES ASSUME NEW h \in Handler
               PROVE  LET q == queue[h]
                          n == Cardinality(DOMAIN q.next)
                          all == Records(q, q.pending, n) \o Records(q, q.available, n)
                      IN  /\ \A c \in DOMAIN q.next : Cardinality({i \in DOMAIN all : all[i] = c}) = 1
                          /\ Cardinality({i \in DOMAIN all : all[i] = NULL}) = 2
    BY DEF CellsOwned
  <2>1. PICK q : q = queue[h]
    OBVIOUS
  <2>2. ListsOK(q)
    BY <1>1, <2>1 DEF QueuesInv, QueueInv
  <2>3. PICK n, all : n = Cardinality(DOMAIN q.next) /\ all = AllRecords(q)
    OBVIOUS
  <2>4. /\ \A c \in DOMAIN q.next : Cardinality({i \in DOMAIN all : all[i] = c}) = 1
        /\ Cardinality({i \in DOMAIN all : all[i] = NULL}) = 2
    BY <2>2, <2>3, RecordsOwned
  <2>5. all = Records(q, q.pending, n) \o Records(q, q.available, n)
    BY <2>3 DEF AllRecords
  <2> QED
    BY <2>1, <2>3, <2>4, <2>5, Zenon
<1>2. QueuesInv => CellsOwned
  BY <1>1
<1> QED
  BY <1>2, QueuesInvariance, PTL

\* The queue with its pool of records is the double-ended queue BREvent.h promises, for any
\* number of handlers and of threads that signal, dispatch, time out and stop: the linked
\* lists implement EventDeque, whose sequence is Contents of the pending list.
THEOREM QueueImplementsDeque == Spec => QueueIsDeque
<1>1. Init => Deque!Init
  <2> SUFFICES ASSUME Init
               PROVE  Deque!Init
    OBVIOUS
  <2>1. queue = [h \in Handler |-> eventQueueCreate]
    BY DEF Init
  <2> QED
    BY <2>1, CreateContents DEF Deque!Init
<1>2. QueuesInv /\ [Next]_vars => [Deque!Next]_([h \in Handler |-> Contents(queue[h])])
  <2> SUFFICES ASSUME QueuesInv, [Next]_vars
               PROVE  [Deque!Next]_([h \in Handler |-> Contents(queue[h])])
    OBVIOUS
  <2>0. /\ HandlerInv /\ QueueInv /\ queue = [h \in Handler |-> queue[h]]
        /\ \A h \in Handler : ListsOK(queue[h])
    BY DEF QueuesInv, QueueInv
  <2>1. CASE queue' = queue
    BY <2>1
  <2>2. ASSUME NEW h \in Handler, NEW r, Changes(queue[h], r), queue' = [queue EXCEPT ![h] = r]
        PROVE  Deque!Next
    <3>1. PICK w, v : /\ w = [g \in Handler |-> Contents(queue[g])]
                      /\ v = [g \in Handler |-> Contents(queue'[g])]
      OBVIOUS
    <3>2. \A g \in Handler : queue'[g] = IF g = h THEN r ELSE queue[g]
      BY <2>0, <2>2
    <3>3. v = [w EXCEPT ![h] = v[h]]
      BY <3>1, <3>2
    <3>4. Turns(w[h], v[h])
      <4>1. Turns(Contents(queue[h]), Contents(r))
        BY <2>0, <2>2, ChangeContents
      <4>2. w[h] = Contents(queue[h]) /\ v[h] = Contents(r)
        BY <3>1, <3>2
      <4> QED
        BY <4>1, <4>2
    <3>5. ASSUME NEW e \in Event, v[h] = Append(w[h], e)
          PROVE  Deque!Next
      <4>1. v = [w EXCEPT ![h] = Append(@, e)]
        BY <3>1, <3>3, <3>5
      <4>2. Deque!SignalEvent(h, e)
        BY <3>1, <4>1 DEF Deque!SignalEvent
      <4> QED
        BY <4>2 DEF Deque!Next
    <3>6. ASSUME NEW e \in Event, v[h] = <<e>> \o w[h]
          PROVE  Deque!Next
      <4>1. v = [w EXCEPT ![h] = <<e>> \o @]
        BY <3>1, <3>3, <3>6
      <4>2. Deque!SignalEventOOB(h, e)
        BY <3>1, <4>1 DEF Deque!SignalEventOOB
      <4> QED
        BY <4>2 DEF Deque!Next
    <3>7. CASE w[h] # <<>> /\ v[h] = Tail(w[h])
      <4>1. w[h] # <<>> /\ v = [w EXCEPT ![h] = Tail(@)]
        BY <3>1, <3>3, <3>7
      <4>2. Deque!Take(h)
        BY <3>1, <4>1 DEF Deque!Take
      <4> QED
        BY <4>2 DEF Deque!Next
    <3>8. CASE v[h] = <<>>
      <4>1. v = [w EXCEPT ![h] = <<>>]
        BY <3>3, <3>8
      <4>2. Deque!Drop(h)
        BY <3>1, <4>1 DEF Deque!Drop
      <4> QED
        BY <4>2 DEF Deque!Next
    <3> QED
      BY <3>4, <3>5, <3>6, <3>7, <3>8 DEF Turns
  <2> QED
    BY <2>0, <2>1, <2>2, StepChanges DEF QueueMoves
<1> QED
  BY <1>1, <1>2, QueuesInvariance, PTL DEF Spec, QueueIsDeque, Deque!Spec
\* where the clock's thread is
ClockState == {"none", "started", "waiting", "woken", "timedout", "expiring", "enqueued",
               "expired", "ended"}

ClockTyped == kpc \in ClockState

\* Every step leaves the clock's thread at one of its places.
LEMMA ClockStateNext == ClockTyped /\ [Next]_vars => ClockTyped'
<1> USE DEF ClockTyped
<1> SUFFICES ASSUME kpc \in ClockState, [Next]_vars
             PROVE  kpc' \in ClockState
  OBVIOUS
<1>1. kpc' = kpc \/ SignalClock => kpc' \in ClockState
  BY DEF SignalClock, ClockState
<1>2. ASSUME NEW h \in Handler, ThreadStep(h)
      PROVE  kpc' \in ClockState
  <2>1. kpc' = kpc
    BY <1>2 DEF ThreadStep, ThreadLocks, ThreadQuits, ThreadTakes, ThreadDispatches, ThreadIdles,
                ThreadWaits, clockAll, clockVars
  <2> QED
    BY <1>1, <2>1
<1>3. CASE ClockStep \/ Time
  BY <1>3 DEF ClockStep, Time, ClockBeginsStep, ClockWakesStep, ClockTimesOutStep,
              ClockExpiresStep, ClockReinsertsStep, CallbackEnqueues, CallbackSignals, ClockBegins,
              ClockWakes, ClockTimesOut, ClockExpires, ClockReinserts, ClockLoop, Tick, clockVars,
              ClockState
<1>4. ASSUME NEW c \in Caller, Continue(c)
      PROVE  kpc' \in ClockState
  <2>1. CASE \/ LockStep(c) \/ UnlockStep(c) \/ ConnectStep(c) \/ StartEnterStep(c)
             \/ StartThreadStep(c) \/ DisconnectStep(c) \/ ClockStopEnterStep(c)
             \/ StopEnterStep(c) \/ StopQuitStep(c) \/ StopJoinStep(c) \/ StopClearStep(c)
             \/ FreeStep(c) \/ EnqueueStep(c) \/ NotifyStep(c)
    <3>1. kpc' = kpc
      BY <2>1 DEF LockStep, UnlockStep, ConnectStep, StartEnterStep, StartThreadStep,
                  DisconnectStep, ClockStopEnterStep, StopEnterStep, StopQuitStep, StopJoinStep,
                  StopClearStep, FreeStep, EnqueueStep, NotifyStep, ClockStopEnter, clockAll,
                  clockVars
    <3> QED
      BY <1>1, <3>1
  <2>2. CASE ClockStartStep(c) \/ ClockStopJoinStep(c)
    BY <2>2 DEF ClockStartStep, ClockStopJoinStep, ClockStart, ClockStopJoin, ClockState
  <2>3. CASE StartAlarmStep(c) \/ ClockStopQuitStep(c) \/ StopAlarmStep(c)
    <3>1. SignalClock
      BY <2>3 DEF StartAlarmStep, ClockStopQuitStep, StopAlarmStep, AddAlarm, ClockStopQuit,
                  RemAlarm
    <3> QED
      BY <1>1, <3>1
  <2> QED
    BY <1>4, <2>1, <2>2, <2>3 DEF Continue
<1>5. ASSUME NEW c \in Caller, NEW h \in Handler, NEW op \in Op,
             NEW e \in Event \cup {NoEvent}, Invoke(c, h, op, e)
      PROVE  kpc' \in ClockState
  <2>1. kpc' = kpc
    BY <1>5 DEF Invoke, clockAll, clockVars
  <2> QED
    BY <1>1, <2>1
<1>6. CASE UNCHANGED vars
  <2>1. kpc' = kpc
    BY <1>6 DEF vars, clockAll, clockVars
  <2> QED
    BY <1>1, <2>1
<1> QED
  BY <1>2, <1>3, <1>4, <1>5, <1>6 DEF Next

\* Every variable has its type in every reachable state; the depth of a manager's recursive
\* lock, which ewmDestroy takes around ewmDisconnect and eventHandlerStop, stays bounded.
THEOREM HandlerTyped == Spec => []TypeOK
<1>1. Init => ClockTyped
  BY DEF Init, ClockInit, ClockTyped, ClockState
<1>2. QueuesInv /\ ClockTyped => TypeOK
  <2> SUFFICES ASSUME QueuesInv, ClockTyped
               PROVE  TypeOK
    OBVIOUS
  <2>0. /\ AlarmInv /\ CallsOK /\ QueueInv
        /\ LockOK(lock, calls, Runners(hpc)) /\ ThreadsOK(hpc, thread)
    BY DEF QueuesInv, HandlerInv, LockInv
  <2>1. ASSUME NEW h \in Handler
        PROVE  /\ {queue[h].pending, queue[h].available} \subseteq DOMAIN queue[h].next \cup {NULL}
               /\ DOMAIN queue[h].next \subseteq Cell
               /\ DOMAIN queue[h].event = DOMAIN queue[h].next
    <3>1. PICK q : q = queue[h]
      OBVIOUS
    <3>2. PICK n, P, A : Lists(q, n, P, A)
      BY <2>0, <3>1 DEF QueueInv, ListsOK
    <3>3. n \in Nat /\ q \in QueueRecord(n)
      BY <3>2 DEF Lists
    <3>4. /\ DOMAIN q.next = 1..n /\ DOMAIN q.event = 1..n
          /\ q.pending \in 0..n /\ q.available \in 0..n
      BY <3>3 DEF QueueRecord
    <3> QED
      BY <3>1, <3>3, <3>4 DEF Cell, NULL
  <2>2. ASSUME NEW h \in Handler
        PROVE  lock[h][1] \in {Free, h} \cup Caller /\ lock[h][2] \in 0..3
    <3>1. lock[h] \in LockState /\ \A g \in Handler : lock[h][1] = g => g = h
      BY <2>0 DEF LockOK
    <3>2. lock[h][1] \in {Free} \cup Handler \cup Caller /\ lock[h][2] \in 0..2
      BY <3>1 DEF LockState
    <3> QED
      BY <3>1, <3>2
  <2>3. \A h \in Handler : startStop[h] \in {Free} \cup Caller
    BY <2>0 DEF CallsOK
  <2>4. \A h \in Handler :
           hpc[h] \in {"none", "started", "check", "dispatch", "idle", "waiting", "woken", "ended"}
    BY <2>0 DEF ThreadsOK, ThreadState
  <2>5. \A a \in Range(alarms) \cup {expiring} : a.context \in Handler \cup {Clock}
    <3>1. alarms \in Seq(AlarmRecord) /\ expiring \in AlarmRecord \cup {NoAlarm}
      BY <2>0 DEF AlarmInv, AlarmsTyped
    <3>2. \A a \in Range(alarms) : a \in AlarmRecord
      <4>1. \A i \in DOMAIN alarms : alarms[i] \in AlarmRecord
        BY <3>1, ElementOfSeq, LenProperties
      <4> QED
        BY <4>1 DEF Range
    <3> QED
      BY <3>1, <3>2 DEF AlarmRecord, NoAlarm, Alarm
  <2>6. signalled \subseteq Event
    BY <2>0 DEF QueueInv
  <2> QED
    BY <2>1, <2>2, <2>3, <2>4, <2>5, <2>6 DEF TypeOK, ClockTyped, ClockState
<1> QED
  BY <1>1, <1>2, ClockStateNext, QueuesInvariance, PTL DEF Spec
=============================================================================
