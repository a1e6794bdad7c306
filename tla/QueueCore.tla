----------------------------- MODULE QueueCore -----------------------------
(***************************************************************************)
(* internal/core/queue.go: one core.Queue as a value.  Every method holds  *)
(* q.mu from its first statement to its last, so each is a function from   *)
(* the queue it found to the queue it leaves; the modules that keep a      *)
(* queue in a variable turn these functions into actions.                  *)
(*                                                                         *)
(* A delivery is [ID, ConsumerID, Attempts].  Its Message (payload and     *)
(* routing key) is fixed when the delivery is made and only copied         *)
(* afterwards, so the ID stands for it.                                    *)
(*                                                                         *)
(* readyNotify: the code keeps a channel there, closes it to wake whoever  *)
(* waits on it and puts a fresh one in its place.  Here the field is the   *)
(* set of waiting calls that hold the channel now in the field; closing    *)
(* the channel empties the set, and a waiting call outside the set is one  *)
(* whose channel has been closed.                                          *)
(***************************************************************************)
EXTENDS Naturals, Sequences, FiniteSets, SequencesExt

CONSTANT NoConsumer      \* the empty string in Delivery.ConsumerID

NewQueue(isDurable, isAutoDelete, maxAttempts, filters) ==
    [ IsDurable    |-> isDurable,
      IsAutoDelete |-> isAutoDelete,
      MaxAttempts  |-> maxAttempts,
      Filters      |-> filters,
      Ready        |-> << >>,
      InFlight     |-> [id \in {} |-> NoConsumer],
      Consumers    |-> {},
      readyNotify  |-> {} ]

Deliveries(ids, consumers) ==
    [ID : ids, ConsumerID : consumers \cup {NoConsumer}, Attempts : Nat]

NewDelivery(id) == [ID |-> id, ConsumerID |-> NoConsumer, Attempts |-> 0]

\* Defect: a returned delivery starts to count from zero.
UnownedAfresh(d) == [d EXCEPT !.ConsumerID = NoConsumer, !.Attempts = 0]

Unowned(d) == [d EXCEPT !.ConsumerID = NoConsumer]

\* The maps of the code: m[k] = v and delete(m, k) for every k of a set.
Put(m, k, v)  == [x \in DOMAIN m \cup {k} |-> IF x = k THEN v ELSE m[x]]
Delete(m, ks) == Restrict(m, DOMAIN m \ ks)
----------------------------------------------------------------------------
notifyReadyLocked(q) == [q EXCEPT !.readyNotify = {}]

\* Defect: the delivery goes to the front.
EnqueuedInFront(q, d) == notifyReadyLocked([q EXCEPT !.Ready = <<d>> \o @])

Enqueued(q, d) == notifyReadyLocked([q EXCEPT !.Ready = Append(@, d)])

RestoredReady(q, d) == Enqueued(q, Unowned(d))

\* Defect: the consumer is entered under an empty id.
WithAnonymous(q, c) == [q EXCEPT !.Consumers = @ \cup {NoConsumer}]

WithConsumer(q, c) == [q EXCEPT !.Consumers = @ \cup {c}]

HasConsumers(q) == q.Consumers # {}
----------------------------------------------------------------------------
\* The two early returns of Ack and Reject: DeliveryNotFound and
\* DeliveryOwnerMismatch.
Holds(q, id, c) == id \in DOMAIN q.InFlight /\ q.InFlight[id].ConsumerID = c

\* Defect: the entry is overwritten and not deleted.
AckedNotDeleted(q, id) == [q EXCEPT !.InFlight = Put(@, id, NoConsumer)]

Acked(q, id) == [q EXCEPT !.InFlight = Delete(@, {id})]

\* Reject's second result, for the in-flight delivery d.
ShouldDeadLetter(q, d) ==
    \/ q.MaxAttempts > 0 /\ d.Attempts >= q.MaxAttempts
    \/ q.Consumers \subseteq {d.ConsumerID}

\* Defect: a requeued delivery stays in flight.
RejectedStillHeld(q, id) ==
    IF ShouldDeadLetter(q, q.InFlight[id])
      THEN Acked(q, id)
      ELSE Enqueued(q, Unowned(q.InFlight[id]))

\* Defect: a requeued delivery wakes nobody.
RejectedSilently(q, id) ==
    IF ShouldDeadLetter(q, q.InFlight[id])
      THEN Acked(q, id)
      ELSE [Acked(q, id) EXCEPT !.Ready = Append(@, Unowned(q.InFlight[id]))]

Rejected(q, id) ==
    IF ShouldDeadLetter(q, q.InFlight[id])
      THEN Acked(q, id)
      ELSE Enqueued(Acked(q, id), Unowned(q.InFlight[id]))
----------------------------------------------------------------------------
InFlightOf(q, c) == {id \in DOMAIN q.InFlight : q.InFlight[id].ConsumerID = c}

\* The loop ranges over a map: the returned deliveries are appended in an
\* order the code does not fix.
ReturnOrders(q, c) == SetToSeqs(InFlightOf(q, c))

Returned(q, order) == [i \in 1..Len(order) |-> Unowned(q.InFlight[order[i]])]

\* Defects: nothing is returned; what is returned wakes nobody.
DisconnectedKeeping(q, c, order) == [q EXCEPT !.Consumers = @ \ {c}]

DisconnectedSilently(q, c, order) ==
    [q EXCEPT !.InFlight  = Delete(@, InFlightOf(q, c)),
              !.Ready     = @ \o Returned(q, order),
              !.Consumers = @ \ {c}]

Disconnected(q, c, order) ==
    LET r == [q EXCEPT !.InFlight  = Delete(@, InFlightOf(q, c)),
                       !.Ready     = @ \o Returned(q, order),
                       !.Consumers = @ \ {c}]
    IN  IF Len(order) > 0 THEN notifyReadyLocked(r) ELSE r
----------------------------------------------------------------------------
\* Defect: one delivery more than the limit.
FetchAllowedOneMore(q, c, maxInFlight) ==
    /\ c \in q.Consumers
    /\ maxInFlight > 0 => Cardinality(InFlightOf(q, c)) <= maxInFlight

\* FetchOrWait: the errors ConsumerNotFound and TooManyInFlight, then
\* either the head of Ready or the channel to wait on.
FetchAllowed(q, c, maxInFlight) ==
    /\ c \in q.Consumers
    /\ maxInFlight > 0 => Cardinality(InFlightOf(q, c)) < maxInFlight

FetchedDelivery(q, c) ==
    [Head(q.Ready) EXCEPT !.ConsumerID = c, !.Attempts = @ + 1]

Fetched(q, c) ==
    LET d == FetchedDelivery(q, c)
    IN  [q EXCEPT !.InFlight = Put(@, d.ID, d), !.Ready = Tail(@)]

WaitingOn(q, f) == [q EXCEPT !.readyNotify = @ \cup {f}]
============================================================================
