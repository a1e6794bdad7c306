------------------------------- MODULE Queue -------------------------------
(***************************************************************************)
(* One in-memory queue under concurrent callers: the methods of core.Queue *)
(* as the Exchange calls them for a queue that stays registered, and the   *)
(* wait loop of BrokerService.BlockingFetch around FetchOrWait.  Calls     *)
(* that only return an error change nothing and are not actions, except    *)
(* where the error ends a fetch call.  Persistence is in DeliveryService.  *)
(***************************************************************************)
EXTENDS QueueCore

CONSTANTS DeliveryIDs,   \* the uuids that can be drawn
          Consumers,     \* consumer ids
          Fetchers,      \* fetch calls in progress at the same time
          MaxAttempts,   \* of the queue; 0 is no limit
          MaxInFlight,   \* LimitsConfig.MaxInFlight; 0 is no limit
          AttemptBound   \* bound on Attempts: it is not counted any further

ASSUME QueueAssumption ==
    /\ IsFiniteSet(DeliveryIDs)
    /\ NoConsumer \notin Consumers
    /\ MaxAttempts \in Nat
    /\ MaxInFlight \in Nat
    /\ AttemptBound \in Nat \ {0, 1}
    /\ MaxAttempts <= AttemptBound

VARIABLES queue,         \* the core.Queue
          fetch,         \* per fetch call: where it is in BlockingFetch
          created,       \* history: the deliveries enqueued, in order
          acked,         \* history: deliveries removed by Ack
          dead           \* history: deliveries Reject handed to dead-letter

vars == <<queue, fetch, created, acked, dead>>

Delivery == Deliveries(DeliveryIDs, Consumers)

IsQueue(q) ==
    /\ q = [IsDurable |-> FALSE, IsAutoDelete |-> FALSE,
            MaxAttempts |-> MaxAttempts, Filters |-> {},
            Ready |-> q.Ready, InFlight |-> q.InFlight,
            Consumers |-> q.Consumers, readyNotify |-> q.readyNotify]
    /\ q.Ready \in Seq(Delivery)
    /\ DOMAIN q.InFlight \subseteq DeliveryIDs
    /\ q.InFlight \in [DOMAIN q.InFlight -> Delivery]
    /\ q.Consumers \subseteq Consumers
    /\ q.readyNotify \subseteq Fetchers

\* timer is "none" for timeout <= 0, "armed" while time.Timer runs, "fired"
\* once its channel holds a value.
FetchCall == [pc : {"idle", "loop", "wait"},
              consumer : Consumers \cup {NoConsumer},
              timer : {"none", "armed", "fired"}]

Idle == [pc |-> "idle", consumer |-> NoConsumer, timer |-> "none"]

Init ==
    /\ queue = NewQueue(FALSE, FALSE, MaxAttempts, {})
    /\ fetch = [f \in Fetchers |-> Idle]
    /\ created = << >>
    /\ acked = {}
    /\ dead = {}
----------------------------------------------------------------------------
\* Queue.Append and Queue.EnqueueDelivery, under a fresh uuid.
EnqueueDelivery(id) ==
    /\ id \notin ToSet(created)
    /\ queue' = Enqueued(queue, NewDelivery(id))
    /\ created' = Append(created, id)
    /\ UNCHANGED <<fetch, acked, dead>>

AddConsumer(c) ==
    /\ queue' = WithConsumer(queue, c)
    /\ UNCHANGED <<fetch, created, acked, dead>>

DisconnectConsumer(c) ==
    /\ \E order \in ReturnOrders(queue, c) :
          queue' = Disconnected(queue, c, order)
    /\ UNCHANGED <<fetch, created, acked, dead>>

Ack(id, c) ==
    /\ Holds(queue, id, c)
    /\ queue' = Acked(queue, id)
    /\ acked' = acked \cup {queue.InFlight[id]}
    /\ UNCHANGED <<fetch, created, dead>>

NAck(id, c) ==
    /\ Holds(queue, id, c)
    /\ LET d == queue.InFlight[id]
       IN  dead' = IF ShouldDeadLetter(queue, d) THEN dead \cup {d} ELSE dead
    /\ queue' = Rejected(queue, id)
    /\ UNCHANGED <<fetch, created, acked>>
----------------------------------------------------------------------------
\* BlockingFetch, from the call to the first FetchOrWait.
StartFetch(f, c, timer) ==
    /\ fetch[f].pc = "idle"
    /\ fetch' = [fetch EXCEPT ![f] = [pc |-> "loop", consumer |-> c,
                                      timer |-> timer]]
    /\ UNCHANGED <<queue, created, acked, dead>>

\* The bound: the head of Ready has a count that can grow by one.  Only
\* ShouldDeadLetter reads the counts, and only to tell those below MaxAttempts
\* from the others, so the queues that are not told apart act alike.
Counting(q) ==
    [q EXCEPT !.Ready[1].Attempts = IF @ < AttemptBound THEN @ ELSE AttemptBound - 1]

FetchReady(f) ==
    /\ fetch[f].pc = "loop"
    /\ FetchAllowed(queue, fetch[f].consumer, MaxInFlight)
    /\ queue.Ready # << >>
    /\ queue' = Fetched(Counting(queue), fetch[f].consumer)
    /\ fetch' = [fetch EXCEPT ![f] = Idle]
    /\ UNCHANGED <<created, acked, dead>>

\* ConsumerNotFound or TooManyInFlight.
FetchRefused(f) ==
    /\ fetch[f].pc = "loop"
    /\ ~FetchAllowed(queue, fetch[f].consumer, MaxInFlight)
    /\ fetch' = [fetch EXCEPT ![f] = Idle]
    /\ UNCHANGED <<queue, created, acked, dead>>

\* Defect: the timer is started again on every turn of the loop.
FetchEmptyRearming(f) ==
    /\ fetch[f].pc = "loop"
    /\ FetchAllowed(queue, fetch[f].consumer, MaxInFlight)
    /\ queue.Ready = << >>
    /\ \/ /\ fetch[f].timer = "none"
          /\ fetch' = [fetch EXCEPT ![f] = Idle]
          /\ UNCHANGED queue
       \/ /\ fetch[f].timer # "none"
          /\ fetch' = [fetch EXCEPT ![f].pc = "wait", ![f].timer = "armed"]
          /\ queue' = WaitingOn(queue, f)
    /\ UNCHANGED <<created, acked, dead>>

\* QueueEmpty: returned to the caller when it does not want to wait.
FetchEmpty(f) ==
    /\ fetch[f].pc = "loop"
    /\ FetchAllowed(queue, fetch[f].consumer, MaxInFlight)
    /\ queue.Ready = << >>
    /\ \/ /\ fetch[f].timer = "none"
          /\ fetch' = [fetch EXCEPT ![f] = Idle]
          /\ UNCHANGED queue
       \/ /\ fetch[f].timer # "none"
          /\ fetch' = [fetch EXCEPT ![f].pc = "wait"]
          /\ queue' = WaitingOn(queue, f)
    /\ UNCHANGED <<created, acked, dead>>

FetchOrWait(f) == FetchReady(f) \/ FetchRefused(f) \/ FetchEmpty(f)

\* The select of the wait loop: <-waitCh, <-timer.C, <-ctx.Done().
WakeUp(f) ==
    /\ fetch[f].pc = "wait"
    /\ f \notin queue.readyNotify
    /\ fetch' = [fetch EXCEPT ![f].pc = "loop"]
    /\ UNCHANGED <<queue, created, acked, dead>>

StopWaiting(f) ==
    /\ fetch' = [fetch EXCEPT ![f] = Idle]
    /\ queue' = [queue EXCEPT !.readyNotify = @ \ {f}]
    /\ UNCHANGED <<created, acked, dead>>

FetchTimeout(f) ==
    /\ fetch[f].pc = "wait"
    /\ fetch[f].timer = "fired"
    /\ StopWaiting(f)

FetchCancelled(f) ==
    /\ fetch[f].pc = "wait"
    /\ StopWaiting(f)

TimerFires(f) ==
    /\ fetch[f].timer = "armed"
    /\ fetch' = [fetch EXCEPT ![f].timer = "fired"]
    /\ UNCHANGED <<queue, created, acked, dead>>
----------------------------------------------------------------------------
Next ==
    \/ \E id \in DeliveryIDs : EnqueueDelivery(id)
    \/ \E c \in Consumers : AddConsumer(c) \/ DisconnectConsumer(c)
    \/ \E id \in DeliveryIDs, c \in Consumers : Ack(id, c) \/ NAck(id, c)
    \/ \E f \in Fetchers :
          \/ \E c \in Consumers, timer \in {"none", "armed"} :
                StartFetch(f, c, timer)
          \/ FetchOrWait(f)
          \/ WakeUp(f)
          \/ FetchTimeout(f)
          \/ FetchCancelled(f)
          \/ TimerFires(f)

Spec == Init /\ [][Next]_vars

\* The goroutine of a fetch call keeps running: sync.Mutex does not starve
\* a waiter, and a closed channel makes its select case ready for good.
WakeFairness == \A f \in Fetchers : WF_vars(FetchOrWait(f)) /\ WF_vars(WakeUp(f))

\* Timers fire, and select picks among its ready cases at random, so a
\* case that is ready again and again is taken.
TimerFairness == \A f \in Fetchers : WF_vars(TimerFires(f)) /\ SF_vars(FetchTimeout(f))

FairSpec == Spec /\ WakeFairness
----------------------------------------------------------------------------
ReadyIDs    == {queue.Ready[i].ID : i \in DOMAIN queue.Ready}
InFlightIDs == DOMAIN queue.InFlight
IDsOf(ds)   == {d.ID : d \in ds}

\* The queue's fields and the fetch calls have the types the code gives them.
TypeOK ==
    /\ IsQueue(queue)
    /\ fetch \in [Fetchers -> FetchCall]
    /\ created \in Seq(DeliveryIDs)
    /\ acked \subseteq Delivery
    /\ dead \subseteq Delivery

\* No delivery is lost or doubled: whatever was enqueued is once in Ready,
\* or in flight, or was acked, or was dead-lettered, and only one of these.
\* Reject, DisconnectConsumer and FetchOrWait each move deliveries between
\* Ready and InFlight in two statements.
ExactlyOnePlace ==
    /\ \A i, j \in DOMAIN queue.Ready :
          queue.Ready[i].ID = queue.Ready[j].ID => i = j
    /\ ReadyIDs \cap InFlightIDs = {}
    /\ (ReadyIDs \cup InFlightIDs) \cap IDsOf(acked \cup dead) = {}
    /\ IDsOf(acked) \cap IDsOf(dead) = {}
    /\ ToSet(created) = ReadyIDs \cup InFlightIDs \cup IDsOf(acked \cup dead)

\* A delivery in flight belongs to a consumer that is still registered, so
\* that some Ack, Reject or DisconnectConsumer can still take it out, and a
\* ready one belongs to nobody.
HeldByRegistered ==
    /\ \A id \in InFlightIDs : /\ queue.InFlight[id].ID = id
                               /\ queue.InFlight[id].ConsumerID \in queue.Consumers
    /\ \A i \in DOMAIN queue.Ready : queue.Ready[i].ConsumerID = NoConsumer

\* A fetch call waits on an open readyNotify channel only while the queue is
\* empty: whoever makes Ready non-empty has closed the channel before it
\* releases the mutex.
NoLostWakeup ==
    \A f \in Fetchers :
        f \in queue.readyNotify => fetch[f].pc = "wait" /\ queue.Ready = << >>

\* No consumer ever holds more than MaxInFlight deliveries, however many
\* fetch calls it has running.
InFlightWithinLimit ==
    MaxInFlight > 0 =>
        \A c \in Consumers : Cardinality(InFlightOf(queue, c)) <= MaxInFlight

NeverFetched(id) ==
    \E i \in DOMAIN queue.Ready : queue.Ready[i].ID = id /\ queue.Ready[i].Attempts = 0

\* First hand-outs follow the order of publication: no delivery is fetched
\* while an earlier one was never fetched, whatever was requeued meanwhile.
FirstFetchInOrder ==
    \A i, j \in DOMAIN created :
        i < j /\ NeverFetched(created[i]) => NeverFetched(created[j])

\* A blocked fetch call does not sleep beside a message: while a message it
\* was waiting for stays in the queue it wakes up, tries again and returns,
\* with a delivery or an error and without help from its timer, whoever put
\* the message there (queue.go 190-193, service/broker.go 203-229).
WaiterServed ==
    \A f \in Fetchers, id \in DeliveryIDs :
        (fetch[f].pc = "wait" /\ id \in ReadyIDs)
            ~> (fetch[f].pc = "idle" \/ id \notin ReadyIDs)

\* If timers go off, every BlockingFetch call returns: with a delivery, an
\* error, or because its timeout ran out, even when it is woken for ever and
\* other consumers take every message it is woken for: the timer is started
\* once, before the loop (service/broker.go 197-229).
FetchReturns ==
    TimerFairness =>
        \A f \in Fetchers : (fetch[f].pc # "idle") ~> (fetch[f].pc = "idle")
----------------------------------------------------------------------------
\* The queue implements DeliveryLifecycle.
StatusOf(id) ==
    CASE id \in IDsOf(acked) -> "acked"
      [] id \in IDsOf(dead)  -> "dead"
      [] id \in InFlightIDs  -> "held"
      [] id \in ReadyIDs     -> "ready"
      [] OTHER               -> "none"

HolderOf(id) ==
    IF id \in InFlightIDs THEN queue.InFlight[id].ConsumerID ELSE NoConsumer

Records == acked \cup dead \cup ToSet(queue.Ready) \cup Range(queue.InFlight)

AttemptsOf(id) ==
    IF id \in IDsOf(Records) THEN (CHOOSE d \in Records : d.ID = id).Attempts
                             ELSE 0

Lifecycle == INSTANCE DeliveryLifecycle WITH
    status     <- [id \in DeliveryIDs |-> StatusOf(id)],
    holder     <- [id \in DeliveryIDs |-> HolderOf(id)],
    attempts   <- [id \in DeliveryIDs |-> AttemptsOf(id)],
    registered <- queue.Consumers

\* Every step of the queue is a step the abstract delivery life cycle allows
\* (or none of its business): holders, attempts and settled deliveries
\* change only as DeliveryLifecycle says.
LifecycleSpec == Lifecycle!Spec
============================================================================
