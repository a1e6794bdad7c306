------------------------------ MODULE Session ------------------------------
(***************************************************************************)
(* Consumers at work: pkg/brokerclient at one end, the handlers of         *)
(* internal/transport/grpc with the service and core.Queue behind them at  *)
(* the other, and the life of the process (BrokerProcess) under both.      *)
(* There is one exchange, which stays, and one queue name; queues of that  *)
(* name are deleted and registered again while calls hold pointers to the  *)
(* old one (a pointer is the number of its object, and 0 is no queue).     *)
(*                                                                         *)
(* A call is a Fetch, StreamFetch, DisconnectConsumer or Close of the      *)
(* client together with the goroutine that handles it.  pc is its next     *)
(* step; the steps of ClientSide are taken in the client or are requests   *)
(* that have not arrived, those of ServerSide in the handler.  open tells  *)
(* whether anyone still waits for the answer: when it is FALSE the context *)
(* of the handler is done, and the request or its answer may be lost.      *)
(* Publish, Ack, NAck, RegisterQueue and DeleteQueue are single steps      *)
(* here; DeliveryService and Registry cut them at their statements.  So is *)
(* a look at the maps for the queue of a name together with the method     *)
(* called on it (AddConsumer, DisconnectConsumer, FetchOrWait), between    *)
(* which the exchange's lock is released: Registry makes that cut.  An     *)
(* error that changes nothing is not an action.                            *)
(*                                                                         *)
(* The methods of one Client may run at the same time: it has a mutex.     *)
(*                                                                         *)
(* Messages are numbered as they are published.  The queues have no limit  *)
(* of attempts, so attempts are not counted.  Queues with auto-delete are  *)
(* in Registry, not here.                                                  *)
(***************************************************************************)
EXTENDS QueueCore, BrokerProcess

CONSTANTS Clients,       \* values of type *Client
          ConsumerOf,    \* consumerID of each; several may share one
          TokenOf,       \* rootToken of each
          Calls,         \* calls in progress at the same time
          Methods,       \* which of the four kinds of calls applications use
          MessageBound,  \* bound on messages published
          QueueBound     \* bound on Queue objects per process

ASSUME SessionAssumption ==
    /\ DOMAIN ConsumerOf = Clients
    /\ MessageBound \in Nat /\ QueueBound \in Nat \ {0}

VARIABLES objs,          \* the Queue objects of the process
          registered,    \* the one that has the name, 0 if none has
          table,         \* what the database brings back at a restart
          published,     \* number of messages
          call,
          cached,        \* clients with an entry in fetchSubscriptions
          alive,         \* clients neither closed nor dead
          held,          \* per client: messages received and not settled
          suspect,       \* clients whose last Fetch got an answer that makes
                         \* them doubt their registration
          forgotten      \* history: consumers a client has, or may have,
                         \* left registered without knowing it

broker  == <<objs, registered, table, published>>
client  == <<cached, alive, held, suspect>>
vars    == <<lifeVars, broker, call, client, forgotten>>

Consumers == Range(ConsumerOf)

NoCall == [op |-> "none", cl |-> NoConsumer, pc |-> "none", q |-> 0,
           id |-> 0, open |-> FALSE]

ClientSide == {"register", "add", "added", "request", "disconnect", "disconnected", "close"}
ServerSide == {"lookup", "loop", "wait", "mark", "reply", "deferred"}

NoTable == [queue |-> FALSE, ids |-> {}]

Init ==
    /\ InitLife
    /\ objs = << >> /\ registered = 0 /\ table = NoTable /\ published = 0
    /\ call = [k \in Calls |-> NoCall]
    /\ cached = {} /\ alive = Clients /\ suspect = {}
    /\ held = [cl \in Clients |-> {}]
    /\ forgotten = {}
----------------------------------------------------------------------------
\* auth.go: the token of every request is compared with that of main.
authorize(cl) == env["ROOT_TOKEN"] = {TokenOf[cl]}

\* Defect: the interceptor of streams is not installed.
StreamUnguarded(cl) == phase = "serving"

\* The interceptors let a request through to its handler.
Unary(cl)  == phase = "serving" /\ authorize(cl)
Stream(cl) == phase = "serving" /\ authorize(cl)

\* mapError.
mapError(err) ==
    CASE err = "TooManyInFlight" -> "ResourceExhausted"
      [] err \in {"ExchangeNotFound", "QueueNotFound", "DeliveryNotFound",
                  "ConsumerNotFound", "QueueEmpty"} -> "NotFound"
      [] err \in {"QueueHasConsumers", "ExchangeHasConsumers"} -> "FailedPrecondition"
      [] err \in {"ExchangeAlreadyExist", "QueueAlreadyExist"} -> "AlreadyExists"
      [] err = "DeliveryOwnerMismatch" -> "PermissionDenied"
      [] err = "Unauthorized" -> "Unauthenticated"
      [] err \in {"InvalidRoutingKey", "FiltersIncorrect", "MaxAttemptsIncorrect",
                  "MessageTooLarge", "RoutingKeyTooLong", "TooManyQueueFilters",
                  "QueueFlagsConflict", "MessageNotMatch"} -> "InvalidArgument"
      [] OTHER -> "Internal"

Consumer(k) == ConsumerOf[call[k].cl]
At(k, pc)   == call[k].pc = pc
Step(k, pc) == call' = [call EXCEPT ![k].pc = pc]
Ends(k)     == call' = [call EXCEPT ![k] = NoCall]

Current == objs[registered]
Idle(k) == call[k] = NoCall

RegisteredConsumers == IF registered = 0 THEN {} ELSE Current.Consumers

QueueIDs(q) == {d.ID : d \in ToSet(q.Ready)} \cup DOMAIN q.InFlight

Begin(k, cl, op, pc) ==
    /\ Idle(k) /\ cl \in alive /\ op \in Methods
    /\ call' = [call EXCEPT ![k] = [op |-> op, cl |-> cl, pc |-> pc, q |-> 0, id |-> 0,
                                   open |-> TRUE]]
----------------------------------------------------------------------------
\* The handlers that are one step here.
onRegisterQueue(durable) ==
    /\ registered = 0 /\ Len(objs) < QueueBound
    /\ objs' = Append(objs, NewQueue(durable, FALSE, 0, {}))
    /\ registered' = Len(objs) + 1
    /\ UNCHANGED <<table, published>>

onDeleteQueue ==
    /\ registered # 0 /\ ~HasConsumers(Current)
    /\ registered' = 0
    /\ UNCHANGED <<objs, table, published>>

onPublish ==
    /\ registered # 0 /\ published < MessageBound
    /\ published' = published + 1
    /\ objs' = [objs EXCEPT ![registered] = Enqueued(@, NewDelivery(published + 1))]
    /\ UNCHANGED <<registered, table>>

onAck(id, c) ==
    /\ objs' = IF registered # 0 /\ Holds(Current, id, c)
                 THEN [objs EXCEPT ![registered] = Acked(@, id)] ELSE objs
    /\ UNCHANGED <<registered, table, published>>

onNack(id, c) ==
    /\ objs' = IF registered # 0 /\ Holds(Current, id, c)
                 THEN [objs EXCEPT ![registered] = Rejected(@, id)] ELSE objs
    /\ UNCHANGED <<registered, table, published>>

\* The methods of Client and Message that call them.
RegisterQueue(cl, durable) ==
    /\ cl \in alive /\ Unary(cl) /\ onRegisterQueue(durable)
    /\ UNCHANGED <<lifeVars, call, client, forgotten>>

DeleteQueue(cl) ==
    /\ cl \in alive /\ Unary(cl) /\ onDeleteQueue
    /\ UNCHANGED <<lifeVars, call, client, forgotten>>

Publish(cl) ==
    /\ cl \in alive /\ Unary(cl) /\ onPublish
    /\ UNCHANGED <<lifeVars, call, client, forgotten>>

Settled(cl, id) ==
    /\ cl \in alive /\ id \in held[cl]
    /\ held' = [held EXCEPT ![cl] = @ \ {id}]

Ack(cl, id) ==
    /\ Settled(cl, id) /\ Unary(cl) /\ onAck(id, ConsumerOf[cl])
    /\ UNCHANGED <<lifeVars, call, cached, alive, suspect, forgotten>>

NAck(cl, id) ==
    /\ Settled(cl, id) /\ Unary(cl) /\ onNack(id, ConsumerOf[cl])
    /\ UNCHANGED <<lifeVars, call, cached, alive, suspect, forgotten>>
----------------------------------------------------------------------------
\* Client.Fetch begins with a look at the subscriptions: its first request.
ensureFetchSubscription(cl) == IF cl \in cached THEN "request" ELSE "add"

Fetch(k, cl) ==
    /\ Begin(k, cl, "Fetch", ensureFetchSubscription(cl))
    /\ UNCHANGED <<lifeVars, broker, client, forgotten>>

StreamFetch(k, cl) ==
    /\ Begin(k, cl, "Stream", "register")
    /\ UNCHANGED <<lifeVars, broker, client, forgotten>>

DisconnectConsumer(k, cl) ==
    /\ Begin(k, cl, "Disconnect", "disconnect")
    /\ UNCHANGED <<lifeVars, broker, client, forgotten>>

Close(k, cl) ==
    /\ Begin(k, cl, "Close", IF cl \in cached THEN "disconnect" ELSE "close")
    /\ UNCHANGED <<lifeVars, broker, client, forgotten>>

\* The application gives up (not in Close, which takes no context), or the
\* connection breaks.
Cancel(k) ==
    /\ call[k].open
    /\ call' = [call EXCEPT ![k].open = FALSE]
    /\ UNCHANGED <<lifeVars, broker, client, forgotten>>

\* Close ignores the error of its DisconnectConsumer.
AfterDisconnect(k) == IF call[k].op = "Close" THEN Step(k, "close") ELSE Ends(k)

\* The request does not get to its handler: no server, a wrong token, or a
\* broken connection.
Refused(k) ==
    /\ \/ call[k].pc \in {"add", "request"} /\ ~(Unary(call[k].cl) /\ call[k].open) /\ Ends(k)
       \/ At(k, "register") /\ ~(Stream(call[k].cl) /\ call[k].open) /\ Ends(k)
       \/ At(k, "disconnect") /\ ~(Unary(call[k].cl) /\ call[k].open) /\ AfterDisconnect(k)
    /\ UNCHANGED <<lifeVars, broker, client, forgotten>>

\* The answer of a DisconnectConsumer is on its way to the client, which will
\* drop the entry of its subscription, whenever that was made.
Dropping(cl) ==
    \E k \in Calls : At(k, "disconnected") /\ call[k].cl = cl /\ call[k].open

\* BrokerHandler.AddConsumer; QueueNotFound ends the Fetch.
AddConsumer(k) ==
    /\ At(k, "add") /\ Unary(call[k].cl)
    /\ IF registered = 0
         THEN Ends(k) /\ UNCHANGED <<objs, forgotten>>
         ELSE /\ objs' = [objs EXCEPT ![registered] = WithConsumer(@, Consumer(k))]
              /\ forgotten' = IF Dropping(call[k].cl) THEN forgotten \cup {Consumer(k)}
                                                     ELSE forgotten
              /\ Step(k, "added")
    /\ UNCHANGED <<lifeVars, registered, table, published, client>>

\* Client.AddConsumer enters the subscription after the answer.
Added(k) ==
    /\ At(k, "added") /\ call[k].open
    /\ cached' = cached \cup {call[k].cl}
    /\ Step(k, "request")
    /\ UNCHANGED <<lifeVars, broker, alive, held, suspect, forgotten>>

AddedUnheard(k) ==
    /\ At(k, "added") /\ ~call[k].open
    /\ forgotten' = forgotten \cup ({Consumer(k)} \cap RegisteredConsumers)
    /\ Ends(k)
    /\ UNCHANGED <<lifeVars, broker, client>>
----------------------------------------------------------------------------
\* NotFound stands for an empty queue and for a consumer the broker does not
\* know; ResourceExhausted is strange to a client that holds nothing.
Doubtful(cl, code) ==
    code = "NotFound" \/ (code = "ResourceExhausted" /\ held[cl] = {})

\* A handler returns an error: the client of a Fetch sees its code, a stream
\* goes through its deferred function first.
Fail(k, err) ==
    IF call[k].op = "Stream"
      THEN Step(k, "deferred") /\ UNCHANGED suspect
      ELSE /\ Ends(k)
           /\ suspect' = IF call[k].open /\ Doubtful(call[k].cl, mapError(err))
                           THEN suspect \cup {call[k].cl} ELSE suspect

\* BrokerHandler.StreamFetch registers its consumer before it fetches.
StreamRegisters(k) ==
    /\ At(k, "register") /\ Stream(call[k].cl)
    /\ IF registered = 0
         THEN Ends(k) /\ UNCHANGED objs
         ELSE /\ objs' = [objs EXCEPT ![registered] = WithConsumer(@, Consumer(k))]
              /\ Step(k, "lookup")
    /\ UNCHANGED <<lifeVars, registered, table, published, client, forgotten>>

\* BlockingFetch, called by the handler of Fetch or by the loop of a stream,
\* takes the pointer to the queue.
onFetch(k) == At(k, "request") /\ Unary(call[k].cl)

BlockingFetch(k) ==
    /\ At(k, "lookup") \/ onFetch(k)
    /\ IF registered = 0
         THEN Fail(k, "QueueNotFound")
         ELSE /\ call' = [call EXCEPT ![k].pc = "loop", ![k].q = registered]
              /\ UNCHANGED suspect
    /\ UNCHANGED <<lifeVars, broker, cached, alive, held, forgotten>>

\* FetchOrWait goes by the name, to the queue that has it now.
FetchRefused(k) ==
    /\ At(k, "loop")
    /\ \/ registered = 0 /\ Fail(k, "QueueNotFound")
       \/ /\ registered # 0 /\ ~FetchAllowed(Current, Consumer(k), MaxInFlight)
          /\ Fail(k, IF Consumer(k) \in Current.Consumers
                       THEN "TooManyInFlight" ELSE "ConsumerNotFound")
    /\ UNCHANGED <<lifeVars, broker, cached, alive, held, forgotten>>

CanFetch(k) ==
    At(k, "loop") /\ registered # 0 /\ FetchAllowed(Current, Consumer(k), MaxInFlight)

Uncounted(q) ==
    [q EXCEPT !.InFlight = [id \in DOMAIN @ |-> [@[id] EXCEPT !.Attempts = 0]]]

\* The pointer taken before decides whether the row is updated.
FetchReady(k) ==
    /\ CanFetch(k) /\ Current.Ready # << >>
    /\ objs' = [objs EXCEPT ![registered] = Uncounted(Fetched(@, Consumer(k)))]
    /\ call' = [call EXCEPT ![k].id = Head(Current.Ready).ID,
                            ![k].pc = IF objs[call[k].q].IsDurable THEN "mark" ELSE "reply"]
    /\ UNCHANGED <<lifeVars, registered, table, published, client, forgotten>>

\* QueueEmpty, at once for a Fetch with timeout <= 0.
FetchEmpty(k) ==
    /\ CanFetch(k) /\ Current.Ready = << >>
    /\ \/ call[k].op = "Fetch" /\ Fail(k, "QueueEmpty") /\ UNCHANGED objs
       \/ /\ objs' = [objs EXCEPT ![registered] = WaitingOn(@, k)]
          /\ Step(k, "wait") /\ UNCHANGED suspect
    /\ UNCHANGED <<lifeVars, registered, table, published, cached, alive, held, forgotten>>

StopWaiting(k) ==
    objs' = [q \in DOMAIN objs |-> [objs[q] EXCEPT !.readyNotify = @ \ {k}]]

\* The select: the channel of the queue the call has been waiting on, ...
WakeUp(k) ==
    /\ At(k, "wait") /\ \A q \in DOMAIN objs : k \notin objs[q].readyNotify
    /\ Step(k, "loop")
    /\ UNCHANGED <<lifeVars, broker, client, forgotten>>

\* Defect: a stream waits without a timer.
OnlyFetchTimesOut(k) ==
    /\ At(k, "wait") /\ StopWaiting(k)
    /\ call[k].op = "Fetch" /\ Fail(k, "QueueEmpty")
    /\ UNCHANGED <<lifeVars, registered, table, published, cached, alive, held, forgotten>>

\* ... the timer, after which service.StreamFetch calls BlockingFetch again, ...
TimedOut(k) ==
    /\ At(k, "wait") /\ StopWaiting(k)
    /\ \/ call[k].op = "Fetch" /\ Fail(k, "QueueEmpty")
       \/ call[k].op = "Stream" /\ Step(k, "lookup") /\ UNCHANGED suspect
    /\ UNCHANGED <<lifeVars, registered, table, published, cached, alive, held, forgotten>>

\* Defect: the context is not looked at.
ContextIgnored(k) == FALSE /\ At(k, "wait") /\ Step(k, "loop")

\* ... and the context.
ContextDone(k) ==
    /\ At(k, "wait") /\ ~call[k].open /\ StopWaiting(k)
    /\ Fail(k, "context canceled")
    /\ UNCHANGED <<lifeVars, registered, table, published, cached, alive, held, forgotten>>

\* The row of a delivery that is in the queue now; a deleted queue took its
\* rows with it, and so did an Ack.
HasRow(id) == registered # 0 /\ Current.IsDurable /\ id \in QueueIDs(Current)

MarkInFlight(k) ==
    /\ At(k, "mark") /\ HasRow(call[k].id)
    /\ Step(k, "reply")
    /\ UNCHANGED <<lifeVars, broker, client, forgotten>>

\* DeliveryNotFound, or a statement that fails or is cut off by the context.
MarkInFlightFails(k) ==
    /\ At(k, "mark")
    /\ \/ ~HasRow(call[k].id) /\ Fail(k, "DeliveryNotFound")
       \/ HasRow(call[k].id) /\ Fail(k, "statement failed")
    /\ UNCHANGED <<lifeVars, broker, cached, alive, held, forgotten>>

newMessage(cl, id) == held' = [held EXCEPT ![cl] = @ \cup {id}]

\* The delivery reaches the client, ...
Receive(k) ==
    /\ At(k, "reply") /\ call[k].open
    /\ newMessage(call[k].cl, call[k].id)
    /\ IF call[k].op = "Stream"
         THEN call' = [call EXCEPT ![k].pc = "lookup", ![k].id = 0] /\ UNCHANGED suspect
         ELSE Ends(k) /\ suspect' = suspect \ {call[k].cl}
    /\ UNCHANGED <<lifeVars, broker, cached, alive, forgotten>>

\* ... or nobody: the answer of a Fetch is dropped, Send returns an error.
SendFails(k) ==
    /\ At(k, "reply") /\ ~call[k].open
    /\ Fail(k, "transport")
    /\ UNCHANGED <<lifeVars, broker, cached, alive, held, forgotten>>
----------------------------------------------------------------------------
\* service.DisconnectConsumer on the queue that has the name now.
Disconnects(c) ==
    /\ \E order \in ReturnOrders(Current, c) :
          objs' = [objs EXCEPT ![registered] = Disconnected(@, c, order)]
    /\ forgotten' = forgotten \ {c}

\* Defect: the handler returns without its deferred function.
NothingDeferred(k) ==
    /\ At(k, "deferred") /\ Ends(k)
    /\ UNCHANGED <<lifeVars, broker, client, forgotten>>

\* The deferred function of BrokerHandler.StreamFetch.
Deferred(k) ==
    /\ At(k, "deferred") /\ Ends(k)
    /\ IF registered # 0 THEN Disconnects(Consumer(k)) ELSE UNCHANGED <<objs, forgotten>>
    /\ UNCHANGED <<lifeVars, registered, table, published, client>>

\* The handler of Client.DisconnectConsumer and of Close.  The queue has let
\* the consumer go when MarkReady is called for what it returned; an error of
\* that is all the client hears, and its entry stays.
onDisconnectConsumer(k) ==
    /\ At(k, "disconnect") /\ Unary(call[k].cl)
    /\ \/ registered = 0 /\ AfterDisconnect(k) /\ UNCHANGED <<objs, forgotten>>
       \/ registered # 0 /\ Disconnects(Consumer(k)) /\ Step(k, "disconnected")
       \/ /\ registered # 0 /\ Current.IsDurable /\ InFlightOf(Current, Consumer(k)) # {}
          /\ Disconnects(Consumer(k)) /\ AfterDisconnect(k)
    /\ UNCHANGED <<lifeVars, registered, table, published, client>>

\* Defect: the entry of the map stays.
CacheKept(k) ==
    /\ At(k, "disconnected") /\ AfterDisconnect(k)
    /\ UNCHANGED <<lifeVars, broker, client, forgotten>>

CacheDropped(k) ==
    /\ At(k, "disconnected") /\ AfterDisconnect(k)
    /\ \/ /\ call[k].open
          /\ cached' = cached \ {call[k].cl} /\ suspect' = suspect \ {call[k].cl}
       \/ ~call[k].open /\ UNCHANGED <<cached, suspect>>
    /\ UNCHANGED <<lifeVars, broker, alive, held, forgotten>>

\* A client is gone; its consumer may still be registered.
Gone(cl) ==
    /\ alive' = alive \ {cl} /\ cached' = cached \ {cl} /\ suspect' = suspect \ {cl}
    /\ held' = [held EXCEPT ![cl] = {}]
    /\ forgotten' = IF cl \in cached
                      THEN forgotten \cup ({ConsumerOf[cl]} \cap RegisteredConsumers)
                      ELSE forgotten
    /\ UNCHANGED <<lifeVars, broker>>

HungUp(cl) == [k \in Calls |-> IF call[k].cl = cl THEN [call[k] EXCEPT !.open = FALSE] ELSE call[k]]

\* conn.Close at the end of Close.
CloseConn(k) ==
    /\ At(k, "close") /\ Gone(call[k].cl)
    /\ call' = [HungUp(call[k].cl) EXCEPT ![k] = NoCall]

\* The process of a client dies without Close.
ClientDies(cl) == cl \in alive /\ Gone(cl) /\ call' = HungUp(cl)
----------------------------------------------------------------------------
\* A handler is running.
Busy == \E k \in Calls : call[k].pc \in ServerSide

\* The steps of main that leave the memory alone, ...
MainGoesOn ==
    /\ LoadConfig \/ Connected \/ AttemptFails \/ RetryDelay
         \/ Listening \/ GracefulStop \/ Stopped(Busy)
    /\ UNCHANGED <<broker, call, client, forgotten>>

\* ... Restore: every message the tables hold, in the order of publication,
\* and no consumer, ...
RestoredQueue(order) ==
    [NewQueue(TRUE, FALSE, 0, {}) EXCEPT !.Ready = [i \in DOMAIN order |-> NewDelivery(order[i])]]

Restore ==
    /\ Restored
    /\ \E order \in SetToSeqs(table.ids) :
          /\ \A i, j \in DOMAIN order : i < j => order[i] < order[j]
          /\ objs' = IF table.queue THEN <<RestoredQueue(order)>> ELSE << >>
    /\ registered' = IF table.queue THEN 1 ELSE 0
    /\ table' = NoTable
    /\ UNCHANGED <<published, call, client, forgotten>>

\* ... and the ends of the process.  Memory and handlers are gone.
MemoryLost ==
    /\ table' = IF phase \in {"config", "connect", "delay", "restore"} THEN table
                ELSE IF registered # 0 /\ Current.IsDurable
                  THEN [queue |-> TRUE, ids |-> QueueIDs(Current)]
                ELSE NoTable
    /\ objs' = << >> /\ registered' = 0 /\ forgotten' = {}
    /\ call' = [k \in Calls |-> IF call[k].pc \in ServerSide THEN NoCall ELSE call[k]]
    /\ UNCHANGED <<published, client>>

MainEnds ==
    /\ ConfigRefused \/ ConnectFails \/ ConnectCancelled \/ StartFails \/ MainReturns
    /\ MemoryLost

Outside ==
    \/ (Start \/ Signal) /\ UNCHANGED <<broker, call, client, forgotten>>
    \/ Crash /\ MemoryLost
----------------------------------------------------------------------------
Handler(k) ==
    \/ BlockingFetch(k) \/ FetchRefused(k) \/ FetchReady(k) \/ FetchEmpty(k)
    \/ WakeUp(k) \/ ContextDone(k)
    \/ MarkInFlight(k) \/ MarkInFlightFails(k)
    \/ Receive(k) \/ SendFails(k)
    \/ Deferred(k)

Transport(k) ==
    \/ Refused(k) \/ StreamRegisters(k)
    \/ AddConsumer(k) \/ Added(k) \/ AddedUnheard(k)
    \/ onDisconnectConsumer(k) \/ CacheDropped(k) \/ CloseConn(k)

Application ==
    \/ \E cl \in Clients :
          \/ \E durable \in BOOLEAN : RegisterQueue(cl, durable)
          \/ DeleteQueue(cl) \/ Publish(cl) \/ ClientDies(cl)
          \/ \E id \in 1..MessageBound : Ack(cl, id) \/ NAck(cl, id)
          \/ \E k \in Calls : Fetch(k, cl) \/ StreamFetch(k, cl)
                                \/ DisconnectConsumer(k, cl) \/ Close(k, cl)
    \/ \E k \in Calls : Cancel(k)

Next ==
    \/ Application
    \/ \E k \in Calls : Handler(k) \/ TimedOut(k) \/ Transport(k)
    \/ MainGoesOn \/ Restore \/ MainEnds \/ Outside

Spec == Init /\ [][Next]_vars

\* Handlers and requests in transit go on, timers go off, main goes on.  A
\* context that is done wins against a timer of 30 s.
BrokerFairness ==
    /\ \A k \in Calls :
          /\ WF_vars(Handler(k)) /\ WF_vars(TimedOut(k)) /\ WF_vars(Transport(k))
          /\ SF_vars(ContextDone(k))
    /\ WF_vars(MainGoesOn \/ Restore \/ MainEnds)

BrokerSpec == Spec /\ BrokerFairness

\* An application that fetches again and again, settles what it got, and
\* disconnects a client that has come to doubt its registration.
ApplicationFairness ==
    \A cl \in Clients :
        /\ SF_vars(\E k \in Calls : Fetch(k, cl))
        /\ WF_vars(\E id \in 1..MessageBound : Ack(cl, id) \/ NAck(cl, id))
        /\ SF_vars(\E k \in Calls : cl \in suspect /\ DisconnectConsumer(k, cl))

FairSpec == BrokerSpec /\ ApplicationFairness
----------------------------------------------------------------------------
\* The process, the queue objects, the calls and the clients have the types the
\* code gives them; main makes no more attempts to connect than configured.
TypeOK ==
    /\ phase \in {"down", "config", "connect", "delay", "restore", "listen",
                  "serving", "draining", "closed"}
    /\ attempt \in Nat /\ (Load => attempt <= ConnectRetries) /\ signalled \in BOOLEAN
    /\ env \in Environments \cup {NoEnvironment} /\ starts \in 0..StartBound
    /\ registered \in 0..Len(objs) /\ Len(objs) <= QueueBound
    /\ table \in [queue : BOOLEAN, ids : SUBSET (1..published)]
    /\ published \in 0..MessageBound
    /\ call \in [Calls -> {NoCall} \cup
                          [op : {"Fetch", "Stream", "Disconnect", "Close"}, cl : Clients,
                           pc : ClientSide \cup ServerSide, q : 0..Len(objs),
                           id : 0..published, open : BOOLEAN]]
    /\ cached \subseteq alive /\ alive \subseteq Clients /\ suspect \subseteq alive
    /\ held \in [Clients -> SUBSET (1..published)]
    /\ forgotten \subseteq Consumers

Streaming(k) == call[k].op = "Stream" /\ call[k].pc \in ServerSide

\* Whoever is registered with the queue is known to somebody who will take it
\* off again: a stream whose handler runs (its deferred DisconnectConsumer), a
\* client whose fetchSubscriptions have the entry (Close), an answer to
\* AddConsumer under way.  Streams that end by a limit, a cancelled context, a
\* failed MarkInFlight or Send, or a queue that was replaced leave nobody
\* behind, and so do methods of one client that overlap.  The exceptions are
\* consumers whose client never heard the answer of AddConsumer, went away
\* without a successful DisconnectConsumer, or registered between another
\* DisconnectConsumer of its own and the answer to that, which then drops the
\* entry of the new registration (client.go 172-207).
RegistrationKnown ==
    \A c \in RegisteredConsumers \ forgotten :
        \/ \E cl \in cached : ConsumerOf[cl] = c
        \/ \E k \in Calls : (Streaming(k) \/ At(k, "added")) /\ Consumer(k) = c

\* Whatever MAX_IN_FLIGHT was at each start, a broker that serves has a limit
\* (zero would switch the check of FetchOrWait off), and no consumer exceeds
\* it, through Fetch calls or through a stream.
LimitInForce ==
    phase = "serving" =>
        /\ MaxInFlight > 0
        /\ \A c \in RegisteredConsumers :
              Cardinality(InFlightOf(Current, c)) <= MaxInFlight

\* After a restart with another ROOT_TOKEN the clients that have the old one
\* neither run a handler, unary or stream, nor become consumers of the queue
\* that was restored.
OldTokenShutOut ==
    \A cl \in Clients : phase = "serving" /\ ~authorize(cl) =>
        /\ \A k \in Calls : call[k].cl = cl => call[k].pc \notin ServerSide
        /\ ConsumerOf[cl] \in RegisteredConsumers =>
              \E other \in Clients : ConsumerOf[other] = ConsumerOf[cl] /\ authorize(other)

\* Start-up ends: with a server that listens, or with the process, after
\* DB_CONNECT_RETRIES attempts of db.Connect at the latest.
StartupEnds ==
    phase \in {"config", "connect", "delay", "restore", "listen"}
        ~> phase \in {"serving", "down"}

\* GracefulStop returns once no client is connected to a running handler: every
\* handler then notices its context, also one in the endless loop of
\* StreamFetch.  (A client that keeps its stream open keeps main waiting.)
ShutdownCompletes ==
    (phase = "draining" /\ \A k \in Calls : call[k].pc \in ServerSide => ~call[k].open)
        ~> phase # "draining"

\* A stream whose consumer was disconnected behind its back, by another stream
\* of the same consumer id or by DisconnectConsumer, does not wait for ever on
\* the channel of a queue that may not even have the name any more: its timer
\* brings it back to a look at the registry, and it ends with an error.
DroppedStreamEnds ==
    \A k \in Calls :
        (Streaming(k) /\ Consumer(k) \notin RegisteredConsumers)
            ~> (Idle(k) \/ Consumer(k) \in RegisteredConsumers)

\* When the last client of a consumer id is gone, its registration goes, and
\* with it what was in flight: the streams notice and disconnect.
LeftClientsHoldNothing ==
    \A c \in Consumers :
        (/\ c \in RegisteredConsumers \ forgotten
         /\ \A cl \in alive : ConsumerOf[cl] # c)
            ~> (c \notin RegisteredConsumers \ forgotten)

Waiting(id) ==
    /\ phase = "serving" /\ registered # 0
    /\ id \in {d.ID : d \in ToSet(Current.Ready)}

\* If connections break only finitely often, a ready message is handed out
\* while there is a server and a client it lets in: also when subscription
\* caches are stale after a restart or after a stream took the consumer with
\* it, and when the in-flight limit is used up by a delivery that was lost on
\* its way (a failed MarkInFlight, a dropped answer).
Served ==
    (<>[][\A k \in Calls : ~Cancel(k)]_vars) =>
        \A id \in 1..MessageBound : Waiting(id) ~> (~Waiting(id) \/ \A cl \in alive : ~authorize(cl))
============================================================================
