# Verification of the message broker

TLA+ models of the broker in this repository, TLC runs that check them on small
instances, and TLAPS proofs for every value of the constants. Paths are
relative to the repository; line numbers are those of the modelled commit.

## 1. The system

A gRPC service keeps exchanges, queues and deliveries in memory and writes the
durable ones to PostgreSQL. Publishers send messages to an exchange; the
exchange copies each message to the queues with a matching filter; consumers
register with a queue, fetch deliveries, and ack or nack them.

| Part | State | Operations |
|---|---|---|
| `core.Queue` (`internal/core/queue.go`) | `Ready` (slice), `InFlight` (map), `Consumers` (set), `readyNotify` (channel), flags; one mutex | `Append`, `EnqueueDelivery`, `RestoreReady`, `FetchOrWait`, `Ack`, `Reject`, `AddConsumer`, `DisconnectConsumer`, `HasConsumers`, `MatchFilters` |
| `core.Exchange`, `core.Broker` (`exchange.go`, `broker.go`) | maps of queues and of exchanges, one RW mutex each | register, delete, look up, `Route`, and the queue operations by name |
| `BrokerService` (`internal/service/broker.go`) | none of its own | every RPC: an operation on the core objects and the repository statements that go with it; `Restore` at start |
| `Repository` (`internal/repository/postgres.go`) | tables `exchanges`, `queues`, `queue_filters`, `deliveries`, `dead_letters`, foreign keys with cascade | one statement per method, `SaveQueue` in a transaction, `LoadState` |
| gRPC handlers (`internal/transport/grpc`) | per stream: the registration of its consumer | decode, call the service, map errors; `StreamFetch` loops and disconnects its consumer when it ends; token check |
| client (`pkg/brokerclient`) | cache of fetch subscriptions | one call per RPC, `AddConsumer` on first `Fetch` |
| start-up (`cmd/broker`, `internal/config`, `internal/db`) | - | configuration, connect with retries, `Restore`, serve, graceful stop |

How they interact: a handler calls the service; the service takes pointers out
of the broker's maps, runs one method under one mutex, releases it, and then
talks to the database with no lock held. So memory and tables are changed in
separate steps, and between any two of them other calls run. A waiting fetch
sleeps in a `select` over the channel it read under the mutex, its timer and
its context. After a crash only the tables remain and `Restore` rebuilds the
memory from them before the server listens.

What is hard here: wake-ups through a channel that is replaced each time it is
closed; deliveries that move between two containers; memory and table that are
changed in two steps, in either order, by concurrent calls; statements that
fail or whose answer is lost; crashes between the steps; lookups whose result is
used after the lock is released; a registration that client, stream handler and
queue each know of in their own way, while connections break and the broker
restarts. PROJECT.json lists each place as a hazard.

## 2. What makes each part correct

- **Queue.** No delivery is lost, doubled or left with a consumer that is gone;
  a limit of deliveries in flight holds over concurrent calls; first hand-outs
  follow the order of publication; nobody sleeps beside a message, and every
  fetch call returns.
- **Delivery path and its tables.** What a consumer can be handed has a row; a
  confirmed message that nobody settled survives every failure; an acknowledged
  one never comes back; a restart restores exactly the table; tables and memory
  agree between calls.
- **Registry and its tables.** What the tables hold can always be restored;
  queues and exchanges in use are not removed, unused auto-delete queues are;
  durable queues come back as they were registered, deleted ones do not;
  messages reach all the queues their key matches and no other.
- **Sessions** (handlers, client, process). Whoever is registered is known to
  somebody who will end the registration; a stream that lost it ends; clients
  that left hold nothing; a client that keeps trying is served, also after a
  restart; start-up and shutdown come to an end; no configuration switches the
  in-flight limit off, and a changed token shuts old clients out.
- **Routing.** A filter accepts exactly the keys that come from it by one word
  per `*`.

## 3. Modules

| Module | Models | Remarks |
|---|---|---|
| `QueueCore` | `core.Queue` as a value, one operator per method | every method holds `q.mu` throughout, so a method is a function on queues |
| `Queue` | one queue under concurrent callers, with the wait loop of `BlockingFetch` | extends `QueueCore` |
| `DeliveryLifecycle` | what a queue promises: the life of a delivery, without order, channels and calls | `Queue` implements it: `LifecycleSpec` |
| `QueueCoreProofs` | lemmas: what each method does to a queue | used by the proofs of `Queue`, `DeliveryService` and `Session` |
| `QueueProofs`, `QueueRefinementProofs` | theorems about `Queue` | the second shows that it implements `DeliveryLifecycle` |
| `DeliveryService` | `BrokerService` over one durable queue, `deliveries`, `dead_letters`, crashes, failing statements, `Restore` | composes `QueueCore` with the tables |
| `ServiceProofs` | theorems about `DeliveryService` | the last part about calls that come one at a time |
| `Routing` | keys, filters, `Match`, `equalFilters` as sequences of tokens | |
| `RoutingProofs` | theorems about `Routing` | |
| `Registry` | `Broker`, `Exchange`, registration half of the service and of the tables, `Publish` to several queues, `Restore` | composes `QueueCore` and `Routing` |
| `RegistryProofs` | theorems about `Registry` | |
| `RegistryHistory` | `Registry` with history variables: which consumers are older than a call, which names were overtaken | states how far the promises go when calls race and statements fail |
| `RegistryHistoryProofs` | theorems about `RegistryHistory` | rests on the invariants of `RegistryProofs` |
| `BrokerProcess` | `main`, `internal/config`, `db.Connect`, signal and graceful stop | actions only; `Session` composes them |
| `Session` | `pkg/brokerclient`, the gRPC handlers, the interceptors, `mapError` | composes `QueueCore` and `BrokerProcess` |
| `SessionProofs` | theorems about `Session` and the process under it | |
| `MCQueue`, `MCService`, `MCRegistry`, `MCRegistryHistory`, `MCSession` | the modules TLC runs, with values for their constants and symmetry | |

An operator whose comment starts with `Defect:` is a wrong version of the one
that follows it. PROJECT.json pairs each property with such a version, and the
property fails when the version takes the place of the original.

### State and actions

`Queue`: `queue` is the Go struct. Its field `readyNotify` stands for the
channel: it is the set of the waiting calls that hold the channel now in the
field; `notifyReadyLocked` (close and replace) empties it. `fetch[f]` is a call
of `BlockingFetch`: `idle`, about to try `FetchOrWait`, or in the `select`;
`timer` is its `time.Timer`. The
history variables record what was created, acked and dead-lettered.
`DisconnectConsumer` returns deliveries in every order, as the map iteration
may. The count of attempts does not grow past `AttemptBound`, which is at least
`MaxAttempts`; the code only compares counts with `MaxAttempts`, so a delivery
can be handed out and returned for ever, and a call be woken for ever.

`DeliveryService`: a call does its step on the queue in one action and keeps
the repository statements it still has to execute in `todo`; each is an action
(`StatementDone`), and so is its failure (`StatementFails`, which may have
applied the statement before the answer was lost). An error ends the call, as
the early returns do. `Crash` drops memory and calls; `StartRestore`,
`RestoreDelivery` and `Serve` are `Restore`, one delivery at a time, and it can
fail or be interrupted as well.

`Registry`: pointers are numbers of objects, so that a name can stand for
another object than the one a call has looked up. A call is a record with its
next step `pc` and what it found so far; it is cut at every unlock and every
statement. The foreign keys appear as the failure of `SaveQueue` and
`SaveReadyDelivery` and as the cascades of the two `DELETE`s. A statement may
return an error without being applied (`StatementFails`) or after it was
(`AnswerLost`; only `SaveQueue` and `SaveReadyDelivery` have it, since the other
statements are the last step of their call anyway). Three cuts at an unlock are
left out because the later step commutes with what may come in between; the
module's header names them.

`RegistryHistory`: `stayed[t]` are the registrations of consumers that are as
old as the call `t`. `overtaken` are the queue names, and `exOvertaken` says it of
the exchange name, for which steps in memory and statements of different calls
came in different orders or a statement failed. There are seven such events,
each an operator: a queue is registered while a row of its name is still there
(`RowLeft`); one is saved that lost its name (`SavedLate`); another one is removed
than was looked up (`OtherRemoved`); a row is deleted when the name has a queue
again, or its `DELETE` fails (`DeletedLate`); the same of an exchange
(`ExchangeDeletedLate`, `ExchangeSavedLate`); a message is saved or enqueued for a
queue younger than its `Publish` (`RoutedLate`).

`BrokerProcess`: `phase` is the place `main` has reached (`down`, `config`,
`connect` and `delay` in the loop of `db.Connect`, `restore`, `listen`,
`serving`, `draining` in `GracefulStop`, `closed` in the deferred `pool.Close`).
`env` is the environment of this start; a variable is a set, empty when unset.
A signal only sets the context of `main`; what it stops is decided where the
code looks at that context. `GracefulStop` admits no call and waits for the
handlers: that is what `main.go` relies on, and it is assumed of the library.

`Session`: a call joins a method of the client and the goroutine that handles
it. `pc` says whether it is still a request (`add`, `request`, `register`,
`disconnect`), runs in the handler (`lookup`: `BlockingFetch` takes the queue's
pointer; `loop`: `FetchOrWait` by name; `wait`; `mark`: `MarkInFlight`; `reply`;
`deferred`: the function `StreamFetch` defers), or is back in the client
(`added`, `disconnected`: answered, the map not yet changed; `close`).
`call.open` turns `FALSE` when the caller gives up or the connection breaks;
from then on the request may be lost, the handler's context is done and its
answer is dropped. `cached` is `fetchSubscriptions`, `held` what a client has
received and not settled. `suspect` and `forgotten` are no state of the code:
the first is what the application concludes from the codes of its last `Fetch`,
the second the consumers whose client could not know that it left them
registered: it never heard the answer of `AddConsumer`, went away without a
`DisconnectConsumer` that succeeded, or registered between another
`DisconnectConsumer` of its own and the answer to that, which drops the entry of
the new registration. A lookup of the queue by name and the method called on it
are one step here, although the exchange's lock is released in between;
`Registry` makes that cut.

### Abstractions

- A message is its delivery id; payloads are only copied by the code. In
  `Registry` an id shows the publication and the queue name it was made for.
- Errors that change nothing are not actions, except where they end a call that
  has done something before.
- A repository method is atomic (`SaveQueue` is a transaction). A statement of
  a crashed broker was applied before the crash or never is.
- `created_at` orders rows as they were inserted (`DeliveryService`); `Registry`
  keeps no order of the delivery rows, no property of it is about one.
- `DeliveryService` has one durable queue that stays registered; in `Registry`
  nothing is fetched, so a consumer that leaves returns nothing.
- In `Session` memory and table of the queue change together (the steps between
  them are in `DeliveryService`), the exchange stays, and the queues have
  neither filters nor a limit of attempts; `Methods` says which calls the
  applications of a run make. The methods of one client overlap freely.
  `stream.Send` does not block: flow control is left out.
- Tokens are words, `*`, or something invalid; the characters of a word do not
  matter to any property.
- Limits on payload and key length refuse a call before it does anything.

## 4. Runs

| Run | Checks | Bounds |
|---|---|---|
| `queue` | `TypeOK`, `ExactlyOnePlace`, `HeldByRegistered`, `NoLostWakeup`, `InFlightWithinLimit`, `FirstFetchInOrder`, `LifecycleSpec` (refinement), `WaiterServed`, `FetchReturns` (liveness) | 2 deliveries, 2 consumers, 2 fetch calls, `MaxAttempts` 2, `MaxInFlight` 1, attempts counted up to 2 |
| `service_crash` | `TypeOK`, `MemoryIsPersisted`, `UnsettledKept`, `AckedNeverBack`, `AttemptsNotOvercounted`, `PublishOrderKept`, `QuiescentAgreement` | 2 messages, 2 consumers, 2 calls at a time, 1 crash |
| `service_faults` | `MemoryIsPersisted`, `UnsettledKept`, `RestoredExactly` | 2 messages, 1 consumer, 2 calls at a time, 2 failing statements (of calls or of `Restore`, which is then repeated), 1 crash |
| `service_dead_letter` | `UnackedNeverLost`, violated | 1 message, 1 call, 1 crash |
| `registry_race` | `TypeOK`, `RestoreSucceeds`, `ConfirmedReachesAll` | 1 queue name, every kind of queue, 1 consumer, 2 calls, 2 exchange and 2 queue objects per process, 1 publication with a valid or an invalid key, 1 crash, 1 failing statement |
| `registry_consumers` | `AutoDeleteDone`, `ConsumerKeepsQueue`, `ConsumerKeepsExchange` | 2 queue names, auto-delete queues, 2 consumers, 2 calls, 2 exchange and 2 queue objects |
| `registry_tables` | `SavedUnlessOvertaken`, `DeletedUnlessOvertaken`, `MatchUnlessOvertaken`, `RegisteredAsAsked` | 1 queue name, requests with and without a repeated filter, 2 calls, 2 exchange and 2 queue objects per process, 1 publication, 1 crash, 1 failing statement |
| `registry_late_delete` | `DurableQueuesSaved`, violated | 2 calls |
| `registry_auto_delete` | `ConsumedQueueStays`, violated | 2 calls |
| `session_safety` | `TypeOK`, `RegistrationKnown` | 1 client, 2 calls of any kind, 1 message, 2 queues, 1 start in any of 3 environments |
| `session_streams` | `StartupEnds`, `ShutdownCompletes`, `DroppedStreamEnds`, `LeftClientsHoldNothing` (liveness) | 2 streams or disconnects under one consumer id, 1 message, 1 queue that may be deleted, 1 start in any of 5 environments |
| `session_served` | `LimitInForce`, `OldTokenShutOut`, `Served` (liveness) | 1 call at a time of any kind, 2 messages, in-flight limit 1, 2 starts, each in any of 3 environments |

Why the bounds are enough to meet the interesting cases: two deliveries are
needed to overtake one another (for any number of them the order is proved);
two consumers to requeue after a nack instead of dead-lettering; two fetch
calls to compete for one message and to exceed a limit together. Two calls at a
time exhibit every order of two handlers' steps; a crash in the middle and one
more generation of every object shows what a restart and a re-registration
inherit. The properties of `RegistryHistory` hold with racing calls and failing
statements and say which events void them. None of the seven is idle: with any
one of them taken out of `Overtakes` or `exOvertaken`, TLC finds one of the
three properties `...UnlessOvertaken` violated. What they do is in section 6.
Only `QuiescentAgreement` has the premise that calls came one at a time (the
history variable `serial` of `DeliveryService`). One queue name is enough to
replace a queue under a running `Publish`; that a publication reaches every one
of several queues is proved (`PublishReachesAll`). One client is enough for
`Session`: two of its calls already share a consumer id, and the queue tells
consumers, not clients, apart. Two queues in `session_safety` let a call hold
the pointer of a replaced one, durable or not; a limit of 1 makes a stream end
at the limit and lets one lost delivery use the limit up; two starts show stale
caches, the restored queue and a changed environment.

Symmetry (deliveries, consumers, calls) is used in runs of invariants and
action properties only. Queue names are symmetric only in `registry_consumers`,
which has no crash: `Restore` numbers the queues with a `CHOOSE`. Deadlock is
checked in the runs of the first three parts, where the bounds are guards that
never leave a call without its next step. It is not in those of `Session`:
after the last start the process may end, and clients may all be gone.

### Fairness

`FairSpec` assumes weak fairness of a fetch call's own steps: a runnable
goroutine is eventually scheduled, and a closed channel makes the `select`
runnable. It assumes nothing of the timer, of publishers or of consumers.
`FetchReturns` has `TimerFairness` as its premise: weak fairness of the timer and
strong fairness of `FetchTimeout`: when both the channel and the timer are
ready, Go's `select` picks at random, so a timer that is ready again and again
is taken eventually. Strong fairness is needed: another consumer that takes and
returns a message for ever wakes the call for ever. A timer that was set anew
on each turn of the loop would let it wait for ever, which is the defect the
property is checked against.

`BrokerSpec` of `Session` assumes that handlers, `main` and timers go on (weak
fairness), that a request either arrives or fails, and that a context that is
done is noticed in a `select` whose timer runs for 30 s again and again (strong
fairness of `ContextDone`). Nothing makes a client, a signal or a start happen.
`FairSpec` adds an application, as the client library expects one: it fetches
again and again, settles what it gets, and calls `DisconnectConsumer` when
`Fetch` has answered `NotFound`, which stands for an empty queue as well as for
an unknown consumer, or `ResourceExhausted` while it holds nothing. `Served`
has one premise more: connections break only finitely often.

## 5. Proofs

All theorems hold for any sets of deliveries, consumers, clients, queue names,
keys, requests, calls and environments and for any value of the bounds on
crashes, starts, failing statements, objects, messages and attempts. They use
only the assumptions on constants that the modules state: `QueueAssumption` and
`ServiceAssumption` (the set of ids is finite, the empty consumer id is no
consumer, limits and bounds are naturals, attempts are counted at least up to
`MaxAttempts` and to 2), `RoutingAssumption` (`*` is no word),
`RegistryAssumption` (requests and keys consist of tokens), `ProcessAssumption`
(what `strconv.Atoi` accepts is an integer, of any size and sign),
`SessionAssumption` (every client has a consumer id; bounds are naturals, and
there may be a queue). Where a theorem needs more, that is a hypothesis named
in the table. Each proof has one lemma per action and ends with `PTL`.

| Module | Theorem | Property | Hypothesis |
|---|---|---|---|
| `QueueProofs` | `TypeCorrect` | `TypeOK` | |
| | `NothingLost` | `ExactlyOnePlace` | |
| | `NoStrandedDelivery` | `HeldByRegistered` | |
| | `WakeupsKept` | `NoLostWakeup` | |
| | `LimitRespected` | `InFlightWithinLimit` | |
| | `PublicationOrder` | `FirstFetchInOrder` | |
| `QueueRefinementProofs` | `ImplementsLifecycle` | `LifecycleSpec` | |
| `ServiceProofs` | `ServiceTypes` | `TypeOK` | |
| | `QueuePersisted` | `MemoryIsPersisted` | |
| | `ConfirmedKept` | `UnsettledKept` | |
| | `AckFinal` | `AckedNeverBack` | |
| | `AttemptsFair` | `AttemptsNotOvercounted` | |
| | `OrderKept` | `PublishOrderKept` | |
| | `RestoreComplete` | `RestoredExactly` (action property) | |
| | `TableMirrorsQueue` | `QuiescentAgreement` | |
| `RoutingProofs` | `MatchIsDenotation`, `MatchFiltersIsDenotation` | the operators of `MatchUnlessOvertaken` | valid key |
| | `EqualFiltersExact` | | the first list repeats nothing |
| `RegistryProofs` | `RegistryTypes` | `TypeOK` | |
| | `RestoreAlwaysSucceeds` | `RestoreSucceeds` | |
| | `PublishReachesAll` | `ConfirmedReachesAll` | |
| | `FiltersAsAsked` | `RegisteredAsAsked` | |
| | `UnusedQueuesGo` | `AutoDeleteDone` | |
| `RegistryHistoryProofs` | `QueuesWithConsumersStay` | `ConsumerKeepsQueue` (action property) | |
| | `ExchangesWithConsumersStay` | `ConsumerKeepsExchange` (action property) | |
| | `ConfirmedQueuesSaved` | `SavedUnlessOvertaken` | |
| | `NothingComesBack` | `DeletedUnlessOvertaken` | |
| | `OnlyMatching` | `MatchUnlessOvertaken` | |
| `SessionProofs` | `SessionTypes` | `TypeOK` | |
| | `LimitAlwaysInForce` | `LimitInForce` | |
| | `OldTokenNeverIn` | `OldTokenShutOut` | |
| | `NoRegistrationUnknown` | `RegistrationKnown` | |

No theorem about a specification has a hypothesis on its constants beyond those
assumptions. What the code does not keep in every execution is said in the
properties: by the premise of `QuiescentAgreement`, by `overtaken` and
`exOvertaken`, and by `forgotten`. Section 6 says what happens in the excepted
cases.

**Queue.** The inductive invariant `IInv` is the conjunction of the first five
properties. None of its last four parts is inductive alone: that a requeue puts
an id into `Ready` that is not there already needs `ExactlyOnePlace` together
with the keys of `InFlight` (`HeldByRegistered`); that a fetch call leaves
exactly one record in flight needs both; the limit is kept because a fetched id
was not in flight before. `QueueCoreProofs` says per method what it does to
`Ready`, `InFlight` and `Consumers`.

`FirstFetchInOrder` speaks of which deliveries were never fetched, but what the
next fetch takes depends on their places in `Ready`. `Ordered` therefore adds
that the never-fetched deliveries stand in `Ready` in the order of `created`,
that no id is created twice, and that a delivery in flight has at least one
attempt, so that a requeued one is none of the never-fetched. It is inductive
relative to `IInv`: a method appends what was handed out before
(`RequeuedOrdered`), appends the newest delivery (`AppendedOrdered`), or takes
the head (`TakenOrdered`).

**Refinement.** The mapping reads a delivery's status off the place it is in and
its holder and attempts off the record found there. `Single`, at most one
record of a settled delivery, makes the choice of the record unique; with
`IInv` the mapping becomes a function of the step's place, and every action of
`Queue` is then one step of `DeliveryLifecycle` or leaves the mapped variables
alone. A `DisconnectConsumer` that requeues several deliveries is one step of
the life cycle, too.

**Delivery path.** The properties are proved from one `IInv`, since statements of
several calls are under way at once. Its parts:
what is in memory has a row (`Stored`); a message being published belongs to
its call alone (`Publishing`); what a statement that is still to come may
name (`Outstanding`: a `DELETE` names only settled ids that have left memory, a
`MarkInFlight` carries no more attempts than the queue counts, however late it
comes); the table's attempts (`Counted`); confirmed messages (`Unlost`) and
acknowledged ones (`AckKept`); the order in table and queue (`TableOrder`,
`QueueOrder`); and where `Restore` is when it is interrupted (`Restoring`).

`QuiescentAgreement` needs what lies between the calls: `Mirror` says that a
delivery on which table and queue disagree is the one the running call is about
to write or to enqueue, and that the statement, when it comes, makes them agree.

**Registry.** `IInv` says that pointers are good, that the tables hold what
`Accepted` lets through and satisfy their foreign keys, and what each call has
found when it is at its next step (`Placed`); it yields `TypeOK` and
`RestoreSucceeds`. The other properties rest on `Frame`, proved once for every
step: objects stay, a name only comes to stand for a queue that is made now, no
queue loses a parameter or a delivery. Then

- `Reaches`: while `Publish` runs, a queue that was there when it began and has
  a filter for the key is among the items still to deliver, or has the message;
- `RInv`: a registration that found or made a queue has a queue without a filter
  it did not ask for, and with all of them when the queue's list repeats none;
- `UInv`: an object is registered under one name of one exchange object, and a
  call holds it under that name; `AInv`: while an unused auto-delete queue is
  registered, a call that is going to remove it runs. The last one is what the
  order of disconnects, checks and re-registrations could break.

`RegistryHistoryProofs` adds three invariants of the histories:

- `StayedInv`: a call that is about to remove a queue, or an exchange, has asked
  every queue it may hit that was there when the call began, and what it did
  not ask, or asked and found unused, has no registration in `stayed[t]`;
- `RowsInv`: for a name that was not overtaken, a row is that of the queue that
  has the name, or a call runs that is about to delete it, and a queue that was
  returned to a caller, or is about to be, has its row; the same of the
  exchange. The properties speak of quiet moments, the invariant of all;
- `KeyedInv`: deliveries in memory, in the table and under way have keys for
  which the filters of the queue, or of its row, stand. It needs `RowsInv`: with
  a row left from a deleted queue a restart would give its deliveries to other
  filters.

**Routing.** `EqualFiltersExact`: if the first list repeats nothing,
`equalFilters` decides whether two lists have the same length and the same
filters; a cardinality argument replaces the direction the code does not
compare.

**Session.** Three invariants, kept by every step (`StepKeeps`), with one lemma
per action:

- `IInv` gives `TypeOK` and `LimitInForce`. `ProcessInv`: past the
  configuration `main` runs with values that `Load` accepted, and `delay` is
  only reached with an attempt left. `MemoryInv`: every queue object of the
  process, also one that has lost its name, is sound (each message in one place,
  in flight only with registered consumers) and within the limit
  (`GoodQueues`); there is none before `Restore`. `LimitInForce` speaks of the
  registered queue while serving; the invariant has to speak of all objects in
  all phases, since calls hold pointers and the limit comes from an
  environment that is replaced at a start. `CallInv`: the fields of a call fit
  its next step, and handlers exist only while there is a server.
- `TokenInv`: handlers run for, and consumers belong to, clients with the token
  of this start. A request that was under way across a restart is no exception,
  since it meets the interceptor of the new process.
- `KnownInv` strengthens `RegistrationKnown`: the entry of the map, or the answer
  of `AddConsumer`, that vouches for a consumer is not one a
  `DisconnectConsumer` of the same client is about to drop (`Dropping`). Methods
  of a client overlap, so a registration that comes while an entry is about to
  be dropped has only such an entry; `AddConsumer` counts it as `forgotten`, and
  every other order keeps the invariant.

Model-checked only: the liveness properties (`WaiterServed`, `FetchReturns`,
`StartupEnds`, `ShutdownCompletes`, `DroppedStreamEnds`,
`LeftClientsHoldNothing`, `Served`), which are out of the proof system's reach.
Every invariant and every action property that a passing run checks is a theorem.

## 6. Where code and documents disagree

- `service_dead_letter`: a dead-lettering `NAck` deletes the delivery and then
  inserts the dead letter; a crash between the two loses the message.
- `registry_late_delete`: `DeleteQueue` executes its `DELETE` after the lock is
  released; a queue of the same name that was registered meanwhile loses its
  row, with the messages stored for it, and is not restored.
- `registry_auto_delete`: a consumer that registers between the check and the
  removal of auto-delete is told that it is registered and is left on a queue
  nobody can reach.

Other disagreements of tables, registry and clients are no contradiction to a
document, and the properties name them as exceptions:

- `serial`: a late `MarkInFlight` can overwrite a newer one, so that the table
  forgets an attempt.
- `overtaken`: a message routed before a queue was replaced is enqueued in the
  new queue of that name, whatever its filters; a `SaveQueue` or `SaveExchange`
  that comes after the `DELETE` brings a deleted queue or exchange back at the
  next start; a `DELETE` that failed leaves a row that a restart restores or that
  a later registration takes for its own, joining the filters of both; when the
  `SaveQueue` of that registration fails as well, the messages of the new queue
  are restored under the filters of the old one.
- `stayed`: a consumer that registers while `DeleteExchange` runs, after its queue
  was asked, loses its queue, as with auto-delete.
- `IsInjective` in `RegisteredAsAsked`: a queue registered with a list that repeats
  a filter is also given to a caller who asked for more filters, in a list of
  the same length.

What the exceptions in the properties of `Session` say about the code: a client
that dies, or closes while the broker cannot be reached, after it has
subscribed by `Fetch` leaves its deliveries in flight until the broker restarts
(`forgotten`); so does a client whose `Fetch` registers between a concurrent
`DisconnectConsumer` and the answer to it, since that answer drops the entry by
which `Close` would disconnect the consumer; a stream that is kept open keeps a
graceful stop waiting (`ShutdownCompletes`); and a stale cache or a lost
delivery is only repaired by a `DisconnectConsumer` of the application
(`Served` without strong fairness of it fails).

## 7. Not modelled, and plan

Done, in this order: the queue with its proofs; the delivery path with its
tables; routing with its proofs; the registry with its tables; the process, the
handlers and the client; the proofs of the refinement, of the delivery path, of
the registry and of the sessions. No safety property is left without a proof.

Left out:

- `CreateExchange` and `DeleteExchange` of handler and client: they forward one
  request; the steps of the service behind them are in `Registry`. A fetch that
  waits while its exchange is deleted is in neither module: it would need the
  exchange pointers of `Registry` in `Session`.
- Attempts, dead letters and statement-by-statement persistence in `Session`;
  several queues in `DeliveryService`. The product of the modules is beyond TLC.
- Options and getters of the client. `WithMaxAttempts` narrows an `int` to
  `int32`; TLC's own integers have that width.
- Building of requests and responses, logging, the DSN, the listen address.
- Generated code and the mock.
- Liveness, and what recursive definitions compute for every input, are beyond
  the proof system and stay with TLC.
