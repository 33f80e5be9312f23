----------------------------- MODULE EventQueue -----------------------------
(***************************************************************************)
(* The event queue of ethereum/event/BREventQueue.c: two linked lists of   *)
(* event records, the pending ones and a pool of available ones.  Every    *)
(* operation runs under queue->lock and is an operator from one value of   *)
(* the queue to the next.  An address of a record is a number, NULL is 0.  *)
(***************************************************************************)
EXTENDS Naturals, Sequences, FiniteSetsExt

CONSTANTS
    Event,     \* what is signalled
    NoEvent,   \* the content of a record before its first use
    EVENT_QUEUE_DEFAULT_INITIAL_CAPACITY

NULL == 0

ASSUME QueueAssumption ==
    /\ NoEvent \notin Event
    /\ EVENT_QUEUE_DEFAULT_INITIAL_CAPACITY \in Nat

\* a queue: next and event are defined on the allocated records
eventQueueCreate ==
    LET n == EVENT_QUEUE_DEFAULT_INITIAL_CAPACITY
    IN  [pending |-> NULL, available |-> n,
         next |-> [c \in 1..n |-> c - 1], event |-> [c \in 1..n |-> NoEvent]]

\* the record for a new event: from the pool, or a new one (calloc), numbered after those that
\* exist; records are freed only all together
This(q) == IF q.available # NULL THEN q.available ELSE Cardinality(DOMAIN q.next) + 1

\* mutant: the pool keeps the record that is handed out
RestKeepingThis(q) == q.available

\* the pool after that
Rest(q) == IF q.available # NULL THEN q.next[q.available] ELSE NULL

\* mutant: the search for the last event does not advance
FirstPending(q) == q.pending

LastPending(q) ==
    LET last[c \in DOMAIN q.next] == IF q.next[c] = NULL THEN c ELSE last[q.next[c]]
    IN  last[q.pending]

\* eventQueueEnqueue: at the tail, or out of band at the head
Enqueue(q, e, tail) ==
    LET this  == This(q)
        cells == DOMAIN q.next \cup {this}
        next  == [c \in cells |-> IF c = this THEN NULL ELSE q.next[c]]
    IN  [pending   |-> IF q.pending # NULL /\ tail THEN q.pending ELSE this,
         available |-> Rest(q),
         next      |-> CASE q.pending = NULL -> next
                         [] q.pending # NULL /\ tail -> [next EXCEPT ![LastPending(q)] = this]
                         [] q.pending # NULL /\ ~tail -> [next EXCEPT ![this] = q.pending],
         event     |-> [c \in cells |-> IF c = this THEN e ELSE q.event[c]]]

\* eventQueueDequeue, when an event is pending: its record goes back to the pool
Dequeue(q) ==
    [q EXCEPT !.pending = q.next[q.pending],
              !.next = [@ EXCEPT ![q.pending] = q.available],
              !.available = q.pending]

\* mutant: the pool's pointer is not reset
ClearKeepingPool(q) == [pending |-> NULL, available |-> q.available, next |-> <<>>, event |-> <<>>]

\* eventQueueClear: all records are freed, those of the pool too
Clear(q) == [pending |-> NULL, available |-> NULL, next |-> <<>>, event |-> <<>>]

-----------------------------------------------------------------------------
(* What the lists hold. *)

\* the events of the pending list, first to last
Contents(q) ==
    LET from[c \in DOMAIN q.next \cup {NULL}] ==
            IF c = NULL THEN <<>> ELSE <<q.event[c]>> \o from[q.next[c]]
    IN  from[q.pending]

\* the records of the list that starts at c, at most n of them
Records(q, c, n) ==
    LET from[k \in 0..n] ==
            IF k = 0 THEN <<c>>
            ELSE LET s == from[k - 1] IN
                 IF s[Len(s)] = NULL THEN s ELSE Append(s, q.next[s[Len(s)]])
    IN  from[n]
=============================================================================
