----------------------------- MODULE EventDeque -----------------------------
(***************************************************************************)
(* What BREvent.h promises of a handler's events: an event is queued at    *)
(* the tail, or out of band at the head; the handler takes the first; a    *)
(* handler that stops drops all.  Nothing is lost, doubled or reordered.   *)
(***************************************************************************)
EXTENDS Sequences

CONSTANTS Handler, Event

VARIABLES
    waiting   \* [Handler -> Seq(Event)]

Init == waiting = [h \in Handler |-> <<>>]

SignalEvent(h, e) == waiting' = [waiting EXCEPT ![h] = Append(@, e)]

SignalEventOOB(h, e) == waiting' = [waiting EXCEPT ![h] = <<e>> \o @]

Take(h) == waiting[h] # <<>> /\ waiting' = [waiting EXCEPT ![h] = Tail(@)]

Drop(h) == waiting' = [waiting EXCEPT ![h] = <<>>]

Next ==
    \E h \in Handler :
        \/ \E e \in Event : SignalEvent(h, e) \/ SignalEventOOB(h, e)
        \/ Take(h) \/ Drop(h)

Spec == Init /\ [][Next]_waiting
=============================================================================
