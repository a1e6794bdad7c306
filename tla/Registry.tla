------------------------------ MODULE Registry ------------------------------
(***************************************************************************)
(* Exchanges and queues coming and going: core.Broker and core.Exchange,   *)
(* the tables exchanges, queues, queue_filters and deliveries, the calls   *)
(* of BrokerService that register, delete, look up and route, crashes and  *)
(* Restore.  There is one exchange name; queues have several.              *)
(*                                                                         *)
(* The maps hold pointers.  A pointer is the number of its object:         *)
(* queues[e] is the map Queues of the e-th Exchange created since the      *)
(* process started, objs[q] the q-th Queue.  exchange is the entry of the  *)
(* map Broker.Exchanges, 0 when there is none.                             *)
(*                                                                         *)
(* A call is cut wherever it releases a mutex or waits for the database:   *)
(* pc names its next step, and what it found under an earlier lock (e, q,  *)
(* items) stays in its record.  An early return makes the call Idle.       *)
(* Three cuts are left out because the later step commutes with whatever   *)
(* another call may do in between: GetQueue before queue.EnqueueDelivery,  *)
(* the first of the two GetQueue of DisconnectConsumer, and HasConsumers   *)
(* before the delete of the name in Exchange.DeleteQueue.  (That keeps the *)
(* exchange's lock in between: only steps that hold a pointer already get  *)
(* past it, AddConsumer for one, and they do not look at the map.)         *)
(*                                                                         *)
(* Nothing is fetched here (see Queue and DeliveryService), so a consumer  *)
(* that leaves returns no delivery.                                        *)
(***************************************************************************)
EXTENDS QueueCore, Routing

CONSTANTS QueueNames,    \* the names queues are registered under
          Requests,      \* parameters of RegisterQueue, see Request
          Keys,          \* routing keys messages are published with
          Consumers,     \* consumer ids
          Calls,         \* service calls in progress at the same time
          MaxQueueFilters,
          ExchangeBound, \* bound on Exchange objects per process
          QueueBound,    \* bound on Queue objects per process
          PublishBound,  \* bound on calls of Publish
          CrashBound,    \* bound on crashes of the broker
          FaultBound     \* bound on statements that return an error

VARIABLES up,            \* the broker process serves
          exchange, queues, objs,
          call,
          exRow,         \* table exchanges has the row
          qRows,         \* tables queues and queue_filters, by name
          dRows,         \* ids of table deliveries
          crashes, faults,
          published,     \* history: keys of the calls of Publish
          confirmed,     \* history: Queue objects RegisterQueue returned
          consumed       \* history: Queue objects that had a consumer

memory   == <<exchange, queues, objs>>
database == <<exRow, qRows, dRows>>
bounds   == <<crashes, faults>>
history  == <<published, confirmed, consumed>>
vars     == <<up, memory, call, database, bounds, history>>

\* A fresh delivery id: a message gets one per queue it is routed to.
DeliveryID(number, name) == <<number, name>>

EmptyMap == [x \in {} |-> x]

\* A call in progress: the pointers e and q it holds, its arguments, and
\* what it found under an earlier lock.
Idle == [ op |-> "none", pc |-> "none", e |-> 0, q |-> 0,
          name |-> "", consumer |-> NoConsumer, request |-> EmptyMap,
          asked |-> {},                         \* queues not asked yet
          key |-> << >>, number |-> 0, known |-> 0,
          items |-> {}, durable |-> {},         \* what Route found
          saved |-> {} ]                        \* saved and not enqueued

NewQueueOf(r) == NewQueue(r.IsDurable, r.IsAutoDelete, r.MaxAttempts, r.Filters)

Init ==
    /\ up = TRUE
    /\ exchange = 0 /\ queues = << >> /\ objs = << >>
    /\ call = [t \in Calls |-> Idle]
    /\ exRow = FALSE /\ qRows = EmptyMap /\ dRows = {}
    /\ crashes = 0 /\ faults = 0
    /\ published = << >> /\ confirmed = {} /\ consumed = {}
----------------------------------------------------------------------------
At(t, op, pc) == call[t].op = op /\ call[t].pc = pc

Goto(t, pc) == call' = [call EXCEPT ![t].pc = pc]

Leave(t) == call' = [call EXCEPT ![t] = Idle]

\* Every call but CreateExchange starts with broker.GetExchange.
GetExchange(t, begun) ==
    /\ up /\ call[t] = Idle /\ exchange # 0
    /\ call' = [call EXCEPT ![t] = [begun EXCEPT !.e = exchange]]

Pending(op) == Cardinality({t \in Calls : call[t].op = op})
----------------------------------------------------------------------------
CreateExchange(t) ==
    /\ up /\ call[t] = Idle
    /\ IF exchange = 0
         THEN /\ exchange' = Len(queues) + 1
              /\ queues' = Append(queues, EmptyMap)
         ELSE UNCHANGED <<exchange, queues>>
    /\ call' = [call EXCEPT ![t].op = "CreateExchange", ![t].pc = "SaveExchange"]
    /\ UNCHANGED <<up, objs, database, bounds, history>>

SaveExchange(t) ==
    /\ At(t, "CreateExchange", "SaveExchange")
    /\ exRow' = TRUE
    /\ Leave(t)
    /\ UNCHANGED <<up, memory, qRows, dRows, bounds, history>>

DeleteExchange(t) ==
    /\ Len(queues) + Pending("DeleteExchange") < ExchangeBound
    /\ GetExchange(t, [Idle EXCEPT !.op = "DeleteExchange", !.pc = "HasActiveConsumers"])
    /\ UNCHANGED <<up, memory, database, bounds, history>>

\* HasActiveConsumers copies the pointers under the exchange's lock and
\* asks the queues one by one after it.
HasActiveConsumers(t) ==
    /\ At(t, "DeleteExchange", "HasActiveConsumers")
    /\ call' = [call EXCEPT ![t].pc = "AskQueues", ![t].asked = Range(queues[call[t].e])]
    /\ UNCHANGED <<up, memory, database, bounds, history>>

\* Defect: the first queue decides.
AskFirstQueue(t, q) ==
    /\ At(t, "DeleteExchange", "AskQueues")
    /\ q \in call[t].asked
    /\ IF HasConsumers(objs[q]) THEN Leave(t) ELSE call' = [call EXCEPT ![t].asked = {}]
    /\ UNCHANGED <<up, memory, database, bounds, history>>

AskQueue(t, q) ==
    /\ At(t, "DeleteExchange", "AskQueues")
    /\ q \in call[t].asked
    /\ IF HasConsumers(objs[q])
         THEN Leave(t)
         ELSE call' = [call EXCEPT ![t].asked = @ \ {q}]
    /\ UNCHANGED <<up, memory, database, bounds, history>>

\* Broker.DeleteExchange removes what the name stands for now.
RemoveExchange(t) ==
    /\ At(t, "DeleteExchange", "AskQueues")
    /\ call[t].asked = {}
    /\ IF exchange = 0 THEN Leave(t) ELSE Goto(t, "DeleteExchangeRow")
    /\ exchange' = 0
    /\ UNCHANGED <<up, queues, objs, database, bounds, history>>

\* Defect: the table queues has no foreign key to exchanges.
DeleteExchangeRowAlone(t) ==
    /\ At(t, "DeleteExchange", "DeleteExchangeRow")
    /\ exRow' = FALSE
    /\ Leave(t)
    /\ UNCHANGED <<up, memory, qRows, dRows, bounds, history>>

\* DELETE FROM exchanges, with the cascades of the foreign keys.
DeleteExchangeRow(t) ==
    /\ At(t, "DeleteExchange", "DeleteExchangeRow")
    /\ exRow' = FALSE /\ qRows' = EmptyMap /\ dRows' = {}
    /\ Leave(t)
    /\ UNCHANGED <<up, memory, bounds, history>>
----------------------------------------------------------------------------
\* The checks of Exchange.RegisterQueue on a new queue.
Accepted(r) ==
    /\ ~(r.IsDurable /\ r.IsAutoDelete)
    /\ r.MaxAttempts >= 0
    /\ validFilters(r.Filters)

SameParameters(q, r) ==
    /\ q.IsDurable = r.IsDurable
    /\ q.IsAutoDelete = r.IsAutoDelete
    /\ q.MaxAttempts = r.MaxAttempts
    /\ equalFilters(q.Filters, r.Filters)

RegisterQueue(t, n, r) ==
    /\ Len(objs) + Pending("RegisterQueue") < QueueBound
    /\ Len(r.Filters) <= MaxQueueFilters
    /\ GetExchange(t, [Idle EXCEPT !.op = "RegisterQueue", !.pc = "RegisterQueue",
                                   !.name = n, !.request = r])
    /\ UNCHANGED <<up, memory, database, bounds, history>>

\* The call holds queue q and goes on to save it, if it is durable.
Registered(t, q, durable) ==
    call' = [call EXCEPT ![t].q = q, ![t].pc = IF durable THEN "SaveQueue" ELSE "Return"]

\* Exchange.RegisterQueue, under the exchange's lock.
RegisterInExchange(t) ==
    LET e == call[t].e
        n == call[t].name
        r == call[t].request
        q == Len(objs) + 1
    IN  /\ At(t, "RegisterQueue", "RegisterQueue")
        /\ \/ /\ n \in DOMAIN queues[e]
              /\ IF SameParameters(objs[queues[e][n]], r)
                   THEN Registered(t, queues[e][n], r.IsDurable)
                   ELSE Leave(t)
              /\ UNCHANGED <<queues, objs>>
           \/ /\ n \notin DOMAIN queues[e] /\ Accepted(r)
              /\ objs' = Append(objs, NewQueueOf(r))
              /\ queues' = [queues EXCEPT ![e] = Put(@, n, q)]
              /\ Registered(t, q, r.IsDurable)
           \/ /\ n \notin DOMAIN queues[e] /\ ~Accepted(r)
              /\ Leave(t)
              /\ UNCHANGED <<queues, objs>>
        /\ UNCHANGED <<up, exchange, database, bounds, history>>

\* Defect: queue_filters is not written.
SavedWithoutFilters(rows, n, q) ==
    Put(rows, n, [IsDurable |-> q.IsDurable, IsAutoDelete |-> q.IsAutoDelete,
                  MaxAttempts |-> q.MaxAttempts, Filters |-> {}])

\* The rows SaveQueue writes: the row of queues stays as it is when there is
\* one, and the filters join those that queue_filters already has.
SavedQueue(rows, n, q) ==
    Put(rows, n, IF n \in DOMAIN rows
                   THEN [rows[n] EXCEPT !.Filters = @ \cup Range(q.Filters)]
                   ELSE [IsDurable |-> q.IsDurable, IsAutoDelete |-> q.IsAutoDelete,
                         MaxAttempts |-> q.MaxAttempts, Filters |-> Range(q.Filters)])

\* The transaction fails when the exchange has no row: foreign key.
SaveQueue(t) ==
    /\ At(t, "RegisterQueue", "SaveQueue")
    /\ IF exRow
         THEN /\ qRows' = SavedQueue(qRows, call[t].name, objs[call[t].q])
              /\ Goto(t, "Return")
         ELSE Leave(t) /\ UNCHANGED qRows
    /\ UNCHANGED <<up, memory, exRow, dRows, bounds, history>>
----------------------------------------------------------------------------
\* The calls that look a queue up by its name and use the pointer later.
LookUp(t, op, n, c) ==
    /\ GetExchange(t, [Idle EXCEPT !.op = op, !.pc = "GetQueue", !.name = n, !.consumer = c])
    /\ UNCHANGED <<up, memory, database, bounds, history>>

GetQueue(t) ==
    /\ call[t].pc = "GetQueue"
    /\ IF call[t].name \in DOMAIN queues[call[t].e]
         THEN call' = [call EXCEPT ![t].pc = call[t].op,
                                   ![t].q = queues[call[t].e][call[t].name]]
         ELSE Leave(t)
    /\ UNCHANGED <<up, memory, database, bounds, history>>

RemoveName(e, n) == queues' = [queues EXCEPT ![e] = Delete(@, {n})]

\* Exchange.DeleteQueue: the queue of that name now, which need not be the
\* one GetQueue found; but that one decides whether a row is deleted.
DeleteQueue(t) ==
    LET e == call[t].e
        n == call[t].name
    IN  /\ At(t, "DeleteQueue", "DeleteQueue")
        /\ IF n \in DOMAIN queues[e] /\ ~HasConsumers(objs[queues[e][n]])
             THEN /\ RemoveName(e, n)
                  /\ IF objs[call[t].q].IsDurable THEN Goto(t, "DeleteQueueRow") ELSE Leave(t)
             ELSE Leave(t) /\ UNCHANGED queues
        /\ UNCHANGED <<up, exchange, objs, database, bounds, history>>

\* Defect: the row stays.
DeleteQueueRowForgotten(t) ==
    /\ At(t, "DeleteQueue", "DeleteQueueRow")
    /\ Leave(t)
    /\ UNCHANGED <<up, memory, database, bounds, history>>

DeleteQueueRow(t) ==
    /\ At(t, "DeleteQueue", "DeleteQueueRow")
    /\ qRows' = Delete(qRows, {call[t].name})
    /\ dRows' = {id \in dRows : id[2] # call[t].name}
    /\ Leave(t)
    /\ UNCHANGED <<up, memory, exRow, bounds, history>>

AddConsumer(t) ==
    LET q == call[t].q
    IN  /\ At(t, "AddConsumer", "AddConsumer")
        /\ objs' = [objs EXCEPT ![q] = WithConsumer(@, call[t].consumer)]
        /\ consumed' = consumed \cup {q}
        /\ Leave(t)
        /\ UNCHANGED <<up, exchange, queues, database, bounds, published, confirmed>>

\* Defect: the queue is asked before the consumer has left it.
DisconnectAfterAsking(t) ==
    LET q == call[t].q
    IN  /\ At(t, "DisconnectConsumer", "DisconnectConsumer")
        /\ objs' = [objs EXCEPT ![q] = Disconnected(@, call[t].consumer, << >>)]
        /\ IF objs[q].IsAutoDelete /\ ~HasConsumers(objs[q])
             THEN Goto(t, "HasConsumers") ELSE Leave(t)
        /\ UNCHANGED <<up, exchange, queues, database, bounds, history>>

DisconnectConsumer(t) ==
    LET q == call[t].q
    IN  /\ At(t, "DisconnectConsumer", "DisconnectConsumer")
        /\ objs' = [objs EXCEPT ![q] = Disconnected(@, call[t].consumer, << >>)]
        /\ IF objs[q].IsAutoDelete THEN Goto(t, "HasConsumers") ELSE Leave(t)
        /\ UNCHANGED <<up, exchange, queues, database, bounds, history>>

\* Defect: the queue is removed although other consumers are left.
DeleteWithoutAsking(t) ==
    /\ At(t, "DisconnectConsumer", "HasConsumers")
    /\ Goto(t, "RemoveQueue")
    /\ UNCHANGED <<up, memory, database, bounds, history>>

\* queue.HasConsumers in Exchange.DisconnectConsumer.
DeleteIfUnused(t) ==
    /\ At(t, "DisconnectConsumer", "HasConsumers")
    /\ IF HasConsumers(objs[call[t].q]) THEN Leave(t) ELSE Goto(t, "RemoveQueue")
    /\ UNCHANGED <<up, memory, database, bounds, history>>

RemoveQueue(t) ==
    /\ At(t, "DisconnectConsumer", "RemoveQueue")
    /\ RemoveName(call[t].e, call[t].name)
    /\ Leave(t)
    /\ UNCHANGED <<up, exchange, objs, database, bounds, history>>
----------------------------------------------------------------------------
Publish(t, key) ==
    /\ Len(published) < PublishBound
    /\ GetExchange(t, [Idle EXCEPT !.op = "Publish", !.pc = "Route", !.key = key,
                                   !.number = Len(published) + 1, !.known = Len(objs)])
    /\ published' = Append(published, key)
    /\ UNCHANGED <<up, memory, database, bounds, confirmed, consumed>>

\* Exchange.Route: the matching queues by name, and which of the queues it
\* saw are durable.
Route(t) ==
    LET m   == queues[call[t].e]
        key == call[t].key
    IN  /\ At(t, "Publish", "Route")
        /\ IF ValidKey(key)
             THEN call' = [call EXCEPT
                    ![t].pc      = "Deliver",
                    ![t].items   = {n \in DOMAIN m : MatchFilters(objs[m[n]].Filters, key)},
                    ![t].durable = {n \in DOMAIN m : objs[m[n]].IsDurable}]
             ELSE Leave(t)
        /\ UNCHANGED <<up, memory, database, bounds, history>>

\* Exchange.EnqueueDelivery: into the queue of that name now.  QueueNotFound
\* ends the call, whatever items are left.
EnqueueDelivery(t, n) ==
    LET m == queues[call[t].e]
        d == NewDelivery(DeliveryID(call[t].number, n))
    IN  /\ IF n \in DOMAIN m
             THEN /\ objs' = [objs EXCEPT ![m[n]] = Enqueued(@, d)]
                  /\ call' = [call EXCEPT ![t].items = @ \ {n}, ![t].saved = {}]
             ELSE Leave(t) /\ UNCHANGED objs
        /\ UNCHANGED <<up, exchange, queues, database, bounds, history>>

\* The next item of the loop, in the order a map was iterated: any order.
NextItem(t, n) ==
    At(t, "Publish", "Deliver") /\ call[t].saved = {} /\ n \in call[t].items

DeliverTransient(t, n) ==
    NextItem(t, n) /\ n \notin call[t].durable /\ EnqueueDelivery(t, n)

\* SaveReadyDelivery; no row of the queue, foreign key, ends the call.
SaveReadyDelivery(t, n) ==
    /\ NextItem(t, n) /\ n \in call[t].durable
    /\ IF n \in DOMAIN qRows
         THEN /\ dRows' = dRows \cup {DeliveryID(call[t].number, n)}
              /\ call' = [call EXCEPT ![t].saved = {n}]
         ELSE Leave(t) /\ UNCHANGED dRows
    /\ UNCHANGED <<up, memory, exRow, qRows, bounds, history>>

DeliverSaved(t, n) ==
    At(t, "Publish", "Deliver") /\ n \in call[t].saved /\ EnqueueDelivery(t, n)

PublishDone(t) ==
    /\ At(t, "Publish", "Deliver") /\ call[t].items = {}
    /\ Goto(t, "Return")
    /\ UNCHANGED <<up, memory, database, bounds, history>>

\* A call returns without an error.
Return(t) ==
    /\ call[t].pc = "Return"
    /\ confirmed' = confirmed \cup ({call[t].q} \ {0})
    /\ Leave(t)
    /\ UNCHANGED <<up, memory, database, bounds, published, consumed>>
----------------------------------------------------------------------------
AtStatement(t) ==
    \/ call[t].pc \in {"SaveExchange", "DeleteExchangeRow", "SaveQueue", "DeleteQueueRow"}
    \/ \E n \in QueueNames : NextItem(t, n) /\ n \in call[t].durable

\* A statement is applied and its answer is lost.  For the statements that end
\* their call anyway, this is what they do themselves.
AnswerLost(t) ==
    /\ faults < FaultBound
    /\ \/ /\ At(t, "RegisterQueue", "SaveQueue") /\ exRow
          /\ qRows' = SavedQueue(qRows, call[t].name, objs[call[t].q])
          /\ UNCHANGED dRows
       \/ \E n \in DOMAIN qRows :
          /\ NextItem(t, n) /\ n \in call[t].durable
          /\ dRows' = dRows \cup {DeliveryID(call[t].number, n)}
          /\ UNCHANGED qRows
    /\ faults' = faults + 1
    /\ Leave(t)
    /\ UNCHANGED <<up, memory, exRow, crashes, history>>

\* A statement returns an error and was not applied.
StatementFails(t) ==
    /\ faults < FaultBound
    /\ AtStatement(t)
    /\ faults' = faults + 1
    /\ Leave(t)
    /\ UNCHANGED <<up, memory, database, crashes, history>>

Crash ==
    /\ up /\ crashes < CrashBound
    /\ crashes' = crashes + 1
    /\ up' = FALSE
    /\ exchange' = 0 /\ queues' = << >> /\ objs' = << >>
    /\ call' = [t \in Calls |-> Idle]
    /\ confirmed' = {} /\ consumed' = {}
    /\ UNCHANGED <<database, faults, published>>

\* loadQueues: the stored parameters, each filter once.
LoadedQueue(n) == [qRows[n] EXCEPT !.Filters = SetToSeq(@)]

\* The deliveries of loadDeliveries that belong to queue n.  They come in the
\* order of created_at, which no property here is about: see DeliveryService.
LoadedDeliveries(n) ==
    LET ids == SetToSeq({id \in dRows : id[2] = n})
    IN  [i \in DOMAIN ids |-> NewDelivery(ids[i])]

\* RestoreReady appends each of them to the queue that was just registered.
RestoredQueue(n) == [NewQueueOf(LoadedQueue(n)) EXCEPT !.Ready = LoadedDeliveries(n)]

\* No step of Restore returns an error.  (One that does ends the process,
\* and the next start meets the same rows.)
StateLoadable ==
    /\ DOMAIN qRows # {} => exRow
    /\ \A n \in DOMAIN qRows : Accepted(LoadedQueue(n))
    /\ \A id \in dRows : id[2] \in DOMAIN qRows

\* Restore runs before the server listens, alone.  Its statements only read,
\* up to MarkReady, which writes columns that are not modelled here.
Restore ==
    LET names == SetToSeq(DOMAIN qRows)
    IN  /\ ~up /\ StateLoadable
        /\ up' = TRUE
        /\ exchange' = IF exRow THEN 1 ELSE 0
        /\ objs' = [q \in DOMAIN names |-> RestoredQueue(names[q])]
        /\ queues' = IF exRow
                       THEN << [n \in DOMAIN qRows |-> CHOOSE q \in DOMAIN names : names[q] = n] >>
                       ELSE << >>
        /\ confirmed' = DOMAIN names
        /\ UNCHANGED <<call, database, bounds, published, consumed>>
----------------------------------------------------------------------------
ExchangeCall(t) ==
    \/ CreateExchange(t) \/ SaveExchange(t)
    \/ DeleteExchange(t) \/ HasActiveConsumers(t)
    \/ \E q \in call[t].asked : AskQueue(t, q)
    \/ RemoveExchange(t) \/ DeleteExchangeRow(t)

QueueCall(t) ==
    \/ \E n \in QueueNames, r \in Requests : RegisterQueue(t, n, r)
    \/ RegisterInExchange(t) \/ SaveQueue(t)
    \/ \E n \in QueueNames : LookUp(t, "DeleteQueue", n, NoConsumer)
    \/ GetQueue(t)
    \/ DeleteQueue(t) \/ DeleteQueueRow(t)

ConsumerCall(t) ==
    \/ \E n \in QueueNames, c \in Consumers :
          LookUp(t, "AddConsumer", n, c) \/ LookUp(t, "DisconnectConsumer", n, c)
    \/ AddConsumer(t)
    \/ DisconnectConsumer(t) \/ DeleteIfUnused(t) \/ RemoveQueue(t)

PublishCall(t) ==
    \/ \E key \in Keys : Publish(t, key)
    \/ Route(t)
    \/ \E n \in QueueNames :
          DeliverTransient(t, n) \/ SaveReadyDelivery(t, n) \/ DeliverSaved(t, n)
    \/ PublishDone(t)

Next ==
    \/ \E t \in Calls : ExchangeCall(t) \/ QueueCall(t) \/ ConsumerCall(t) \/ PublishCall(t)
                           \/ Return(t) \/ StatementFails(t) \/ AnswerLost(t)
    \/ Crash
    \/ Restore

Spec == Init /\ [][Next]_vars
----------------------------------------------------------------------------
\* The empty token stands for all that make a key or a filter invalid.
Tokens == Words \cup {Wildcard, ""}

Request == [ IsDurable: BOOLEAN, IsAutoDelete: BOOLEAN, MaxAttempts: Int,
             Filters: Seq(Seq(Tokens)) ]

ASSUME RegistryAssumption ==
    /\ Requests \subseteq Request
    /\ Keys \subseteq Seq(Tokens)
    /\ NoConsumer \notin Consumers
    /\ {MaxQueueFilters, ExchangeBound, QueueBound, PublishBound, CrashBound,
         FaultBound} \subseteq Nat

\* The maps only hold pointers to objects that exist, every call holds
\* pointers that exist, and the tables hold what their columns allow.
TypeOK ==
    /\ up \in BOOLEAN /\ exRow \in BOOLEAN
    /\ exchange \in 0..Len(queues)
    /\ \A e \in DOMAIN queues :
         DOMAIN queues[e] \subseteq QueueNames /\ Range(queues[e]) \subseteq DOMAIN objs
    /\ \A t \in Calls : call[t].e \in 0..Len(queues) /\ call[t].q \in 0..Len(objs)
    /\ \A q \in DOMAIN objs : objs[q].Consumers \subseteq Consumers
    /\ DOMAIN qRows \subseteq QueueNames
    /\ dRows \subseteq (1..PublishBound) \X QueueNames
    /\ confirmed \cup consumed \subseteq DOMAIN objs

\* The registered queues: those of the exchange that has the name now.
Current == IF exchange = 0 THEN EmptyMap ELSE queues[exchange]

Quiet == up /\ \A t \in Calls : call[t] = Idle

\* Whatever calls ran, failed or were cut off, the tables never hold rows
\* that make Restore return an error and so stop the broker at every start
\* (service/broker.go 369-414, cmd/broker/main.go 47-50).
RestoreSucceeds == StateLoadable

\* When no call is running, an auto-delete queue that has had consumers and
\* has none now is no longer registered, in whatever order the last ones left
\* and others came (exchange.go 187-201).
AutoDeleteDone ==
    Quiet => \A n \in DOMAIN Current :
        LET q == Current[n]
        IN  objs[q].IsAutoDelete /\ q \in consumed => HasConsumers(objs[q])

\* A queue with consumers stays registered in its exchange, unless the
\* process ends: DeleteQueue refuses it with QueueHasConsumers and
\* auto-delete waits for the last consumer (exchange.go 45-59, 195-198).
\* Does not hold: see ConsumerKeepsQueue of RegistryHistory for what does.
ConsumedQueueStays ==
    [][ up' => \A e \in DOMAIN queues : \A n \in DOMAIN queues[e] :
                  HasConsumers(objs[queues[e][n]]) => n \in DOMAIN queues'[e] ]_vars

\* When no call is running, every registered durable queue whose registration
\* was confirmed to a caller, or that was restored, would come back from a
\* restart with the parameters it has (service/broker.go 92-96, 120-124).
\* Does not hold: see SavedUnlessOvertaken of RegistryHistory for what does.
DurableQueuesSaved ==
    Quiet => \A n \in DOMAIN Current :
        LET q == objs[Current[n]]
        IN  Current[n] \in confirmed /\ q.IsDurable
              => /\ n \in DOMAIN qRows
                 /\ SameParameters(q, [qRows[n] EXCEPT !.Filters = q.Filters])
                 /\ qRows[n].Filters = Range(q.Filters)

\* When RegisterQueue returns a queue, that queue has no filter the caller did
\* not ask for, and it has them all if its own list repeats none: equalFilters
\* looks at the lengths and in one direction only (exchange.go 19-24).
RegisteredAsAsked ==
    \A t \in Calls : call[t].op = "RegisterQueue" /\ call[t].pc = "Return" =>
        LET own   == objs[call[t].q].Filters
            asked == call[t].request.Filters
        IN  /\ Range(own) \subseteq Range(asked)
            /\ IsInjective(own) => Range(own) = Range(asked)

\* When Publish returns without an error, every queue that was registered
\* from its beginning to its end and has a filter for the key has got the
\* message (service/broker.go 147-177).
ConfirmedReachesAll ==
    \A t \in Calls : call[t].op = "Publish" /\ call[t].pc = "Return" =>
        LET m == queues[call[t].e]
        IN  \A n \in DOMAIN m :
              m[n] <= call[t].known /\ call[t].key \in DenotedByAny(objs[m[n]].Filters)
                => \E d \in Range(objs[m[n]].Ready) : d.ID = DeliveryID(call[t].number, n)
============================================================================
