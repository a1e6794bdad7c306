-------------------------- MODULE DeliveryService --------------------------
(***************************************************************************)
(* The delivery path of BrokerService over one durable queue that stays    *)
(* registered: the in-memory queue, the deliveries table behind it, calls  *)
(* that run concurrently, statements that fail or lose their answer,       *)
(* crashes of the broker, and Restore.                                     *)
(*                                                                         *)
(* A call is cut where it waits for the database.  Its step on the queue   *)
(* is one action, every repository statement after (for Publish: before)   *)
(* it is another, and between them any other call may run.  todo is the    *)
(* list of statements the call still has to execute; an error ends the     *)
(* call and drops the rest of the list, as the early returns do.           *)
(*                                                                         *)
(* A repository method is one SQL statement, hence atomic.  A statement    *)
(* of a crashed broker was either applied before the crash or never is.    *)
(* Waiting for a message is in Queue; registration is not modelled here.   *)
(***************************************************************************)
EXTENDS QueueCore

CONSTANTS DeliveryIDs,   \* the uuids that can be drawn
          Consumers,     \* consumer ids
          Calls,         \* service calls in progress at the same time
          MaxAttempts,   \* of the queue; 0 is no limit
          MaxInFlight,   \* LimitsConfig.MaxInFlight; 0 is no limit
          AttemptBound,  \* bound: a delivery is handed out this often
          CrashBound,    \* bound on crashes of the broker
          FaultBound     \* bound on statements that return an error

ASSUME ServiceAssumption ==
    /\ IsFiniteSet(DeliveryIDs)
    /\ NoConsumer \notin Consumers
    /\ {MaxAttempts, MaxInFlight, AttemptBound, CrashBound, FaultBound} \subseteq Nat

VARIABLES boot,          \* "down", "restoring" or "up": the broker process
          queue,         \* its core.Queue
          call,          \* its service calls
          restore,       \* the deliveries Restore still has to put back
          rows,          \* table deliveries, by id
          createdAt,     \* ids in the order of the column created_at
          deadLetters,   \* table dead_letters
          crashes, faults,
          confirmed,     \* history: Publish returned without an error
          acked,         \* history: Ack took it out of the queue
          ackConfirmed,  \* history: Ack returned without an error
          rejected,      \* history: NAck decided to dead-letter it
          received,      \* history: <<id, consumer>> pairs Fetch returned
          earlier,       \* history: what was confirmed when Publish began
          serial         \* history: no call began during another

process  == <<boot, queue, call, restore>>
database == <<rows, createdAt, deadLetters>>
bounds   == <<crashes, faults>>
history  == <<confirmed, acked, ackConfirmed, rejected, received, earlier>>
vars     == <<process, database, bounds, history, serial>>

NewDurableQueue == NewQueue(TRUE, FALSE, MaxAttempts, {})

NoCall == [op |-> "none"]

Init ==
    /\ boot = "up"
    /\ queue = NewDurableQueue
    /\ call = [t \in Calls |-> NoCall]
    /\ restore = << >>
    /\ rows = [id \in {} |-> NoConsumer]
    /\ createdAt = << >>
    /\ deadLetters = {}
    /\ crashes = 0 /\ faults = 0
    /\ confirmed = {} /\ acked = {} /\ ackConfirmed = {} /\ rejected = {}
    /\ received = {}
    /\ earlier = [id \in DeliveryIDs |-> {}]
    /\ serial = TRUE
----------------------------------------------------------------------------
\* The statements of repository/postgres.go on table deliveries.
SaveReadyDelivery(tab, id) ==
    Put(tab, id, [status |-> "ready", consumer_id |-> NoConsumer, attempts |-> 0])

Updated(tab, id, row) == IF id \in DOMAIN tab THEN Put(tab, id, row) ELSE tab

\* Defect: INSERT ... ON CONFLICT DO UPDATE in place of UPDATE.
MarkInFlightUpsert(tab, id, c, n) ==
    Put(tab, id, [status |-> "in_flight", consumer_id |-> c, attempts |-> n])

\* Defect: the attempt is counted a second time in the table.
MarkInFlightCountsTwice(tab, id, c, n) ==
    Updated(tab, id, [status |-> "in_flight", consumer_id |-> c, attempts |-> n + 1])

MarkInFlight(tab, id, c, n) ==
    Updated(tab, id, [status |-> "in_flight", consumer_id |-> c, attempts |-> n])

MarkReady(tab, id) ==
    Updated(tab, id, [tab[id] EXCEPT !.status = "ready", !.consumer_id = NoConsumer])

DeleteDelivery(tab, id) == Delete(tab, {id})

\* The results of a SELECT on the rows of a set of ids, ORDER BY created_at.
Before(s, a, b) == \E i, j \in DOMAIN s : i < j /\ s[i] = a /\ s[j] = b

Selected(ids) ==
    {order \in SetToSeqs(ids) :
        \A i, j \in DOMAIN order : i < j => Before(createdAt, order[i], order[j])}

Loaded(id) == [NewDelivery(id) EXCEPT !.Attempts = rows[id].attempts]

\* Defects: a WHERE status = 'ready', a descending order, a forgotten column.
loadReadyDeliveries ==
    {[i \in DOMAIN order |-> Loaded(order[i])] :
        order \in Selected({id \in DOMAIN rows : rows[id].status = "ready"})}

loadNewestFirst ==
    {Reverse([i \in DOMAIN order |-> Loaded(order[i])]) : order \in Selected(DOMAIN rows)}

loadWithoutAttempts ==
    {[i \in DOMAIN order |-> NewDelivery(order[i])] : order \in Selected(DOMAIN rows)}

\* loadDeliveries: every row, whatever its status.
loadDeliveries ==
    {[i \in DOMAIN order |-> Loaded(order[i])] : order \in Selected(DOMAIN rows)}

Statement(name, id) == [name |-> name, id |-> id]

Exec(st) ==
    CASE st.name = "SaveReadyDelivery" ->
           /\ rows' = SaveReadyDelivery(rows, st.id)
           /\ createdAt' = Append(createdAt, st.id)
           /\ UNCHANGED deadLetters
      [] st.name = "MarkInFlight" ->
           /\ rows' = MarkInFlight(rows, st.id, st.consumer, st.attempts)
           /\ UNCHANGED <<createdAt, deadLetters>>
      [] st.name = "MarkReady" ->
           /\ rows' = MarkReady(rows, st.id)
           /\ UNCHANGED <<createdAt, deadLetters>>
      [] st.name = "DeleteDelivery" ->
           /\ rows' = DeleteDelivery(rows, st.id)
           /\ UNCHANGED <<createdAt, deadLetters>>
      [] st.name = "SaveDeadLetter" ->
           /\ deadLetters' = deadLetters \cup {st.id}
           /\ UNCHANGED <<rows, createdAt>>
----------------------------------------------------------------------------
\* A call begins, with the statements it will execute.
Begin(t, op, id, c, statements) ==
    /\ boot = "up"
    /\ call[t] = NoCall
    /\ call' = [call EXCEPT ![t] = [op |-> op, id |-> id, consumer |-> c,
                                    todo |-> statements]]
    /\ serial' = (serial /\ \A u \in Calls : call[u] = NoCall)

\* Defect: the message is enqueued before it is saved.
PublishEnqueuesFirst(t, id) ==
    /\ id \notin ToSet(createdAt)
    /\ \A u \in Calls : call[u].op = "Publish" => call[u].id # id
    /\ Begin(t, "Publish", id, NoConsumer, << Statement("SaveReadyDelivery", id) >>)
    /\ queue' = Enqueued(queue, NewDelivery(id))
    /\ earlier' = [earlier EXCEPT ![id] = confirmed]
    /\ UNCHANGED <<boot, restore, database, bounds,
                   confirmed, acked, ackConfirmed, rejected, received>>

Publish(t, id) ==
    /\ id \notin ToSet(createdAt)
    /\ \A u \in Calls : call[u].op = "Publish" => call[u].id # id
    /\ Begin(t, "Publish", id, NoConsumer, << Statement("SaveReadyDelivery", id) >>)
    /\ earlier' = [earlier EXCEPT ![id] = confirmed]
    /\ UNCHANGED <<boot, queue, restore, database, bounds,
                   confirmed, acked, ackConfirmed, rejected, received>>

BlockingFetch(t, c) ==
    /\ FetchAllowed(queue, c, MaxInFlight)
    /\ queue.Ready # << >>
    /\ Head(queue.Ready).Attempts < AttemptBound
    /\ LET d == FetchedDelivery(queue, c)
       IN  Begin(t, "Fetch", d.ID, c,
                 << [name |-> "MarkInFlight", id |-> d.ID, consumer |-> c,
                     attempts |-> d.Attempts] >>)
    /\ queue' = Fetched(queue, c)
    /\ UNCHANGED <<boot, restore, database, bounds, history>>

\* A caller can only name a delivery id that was returned to it.
Ack(t, id, c) ==
    /\ <<id, c>> \in received
    /\ Holds(queue, id, c)
    /\ Begin(t, "Ack", id, c, << Statement("DeleteDelivery", id) >>)
    /\ queue' = Acked(queue, id)
    /\ acked' = acked \cup {id}
    /\ UNCHANGED <<boot, restore, database, bounds,
                   confirmed, ackConfirmed, rejected, received, earlier>>

DeadLettering(id) ==
    << Statement("DeleteDelivery", id), Statement("SaveDeadLetter", id) >>

NAck(t, id, c) ==
    /\ <<id, c>> \in received
    /\ Holds(queue, id, c)
    /\ IF ShouldDeadLetter(queue, queue.InFlight[id])
         THEN /\ Begin(t, "NAck", id, c, DeadLettering(id))
              /\ rejected' = rejected \cup {id}
         ELSE /\ Begin(t, "NAck", id, c, << Statement("MarkReady", id) >>)
              /\ UNCHANGED rejected
    /\ queue' = Rejected(queue, id)
    /\ UNCHANGED <<boot, restore, database, bounds,
                   confirmed, acked, ackConfirmed, received, earlier>>

AddConsumer(c) ==
    /\ boot = "up"
    /\ queue' = WithConsumer(queue, c)
    /\ UNCHANGED <<boot, call, restore, database, bounds, history, serial>>

\* Defect: the returned deliveries are not written.
DisconnectWithoutSave(t, c) ==
    /\ Begin(t, "Disconnect", NoConsumer, c, << >>)
    /\ \E order \in ReturnOrders(queue, c) : queue' = Disconnected(queue, c, order)
    /\ UNCHANGED <<boot, restore, database, bounds, history>>

\* Defect: the rows of the returned deliveries are deleted.
DisconnectDeletes(t, c) ==
    /\ \E order \in ReturnOrders(queue, c) :
          /\ Begin(t, "Disconnect", NoConsumer, c,
                   [i \in DOMAIN order |-> Statement("DeleteDelivery", order[i])])
          /\ queue' = Disconnected(queue, c, order)
    /\ UNCHANGED <<boot, restore, database, bounds, history>>

DisconnectConsumer(t, c) ==
    /\ \E order \in ReturnOrders(queue, c) :
          /\ Begin(t, "Disconnect", NoConsumer, c,
                   [i \in DOMAIN order |-> Statement("MarkReady", order[i])])
          /\ queue' = Disconnected(queue, c, order)
    /\ UNCHANGED <<boot, restore, database, bounds, history>>
----------------------------------------------------------------------------
\* The next statement of a call.  MarkInFlight reports DeliveryNotFound when
\* it updates no row, and the call ends with that error.
StatementDone(t) ==
    /\ call[t] # NoCall /\ call[t].todo # << >>
    /\ LET st == Head(call[t].todo)
       IN  /\ Exec(st)
           /\ call' = IF st.name = "MarkInFlight" /\ st.id \notin DOMAIN rows
                        THEN [call EXCEPT ![t] = NoCall]
                        ELSE [call EXCEPT ![t].todo = Tail(@)]
    /\ UNCHANGED <<boot, queue, restore, bounds, history, serial>>

\* Defect: the error of a statement is logged and the call goes on.
StatementErrorIgnored(t) ==
    /\ faults < FaultBound
    /\ faults' = faults + 1
    /\ call[t] # NoCall /\ call[t].todo # << >>
    /\ call' = [call EXCEPT ![t].todo = Tail(@)]
    /\ \/ Exec(Head(call[t].todo))
       \/ UNCHANGED database
    /\ UNCHANGED <<boot, queue, restore, crashes, history, serial>>

\* The statement returns an error: it was not applied, or it was and the
\* answer is lost (the connection breaks, the caller's context ends).
StatementFails(t) ==
    /\ faults < FaultBound
    /\ faults' = faults + 1
    /\ call[t] # NoCall /\ call[t].todo # << >>
    /\ call' = [call EXCEPT ![t] = NoCall]
    /\ \/ Exec(Head(call[t].todo))
       \/ UNCHANGED database
    /\ UNCHANGED <<boot, queue, restore, crashes, history, serial>>

\* What a call does after its last statement.
Return(t) ==
    /\ call[t] # NoCall /\ call[t].todo = << >>
    /\ call' = [call EXCEPT ![t] = NoCall]
    /\ LET id == call[t].id
       IN  /\ IF call[t].op = "Publish"
                THEN /\ queue' = Enqueued(queue, NewDelivery(id))
                     /\ confirmed' = confirmed \cup {id}
                ELSE UNCHANGED <<queue, confirmed>>
           /\ received' = IF call[t].op = "Fetch"
                            THEN received \cup {<<id, call[t].consumer>>} ELSE received
           /\ ackConfirmed' = IF call[t].op = "Ack"
                                THEN ackConfirmed \cup {id} ELSE ackConfirmed
    /\ UNCHANGED <<boot, restore, database, bounds, acked, rejected, earlier, serial>>
----------------------------------------------------------------------------
\* The process ends and its memory is gone; the tables and the clients stay.
Exit ==
    /\ boot' = "down"
    /\ queue' = NewDurableQueue
    /\ call' = [t \in Calls |-> NoCall]
    /\ restore' = << >>
    /\ UNCHANGED <<database, history, serial>>

Crash ==
    /\ boot # "down"
    /\ crashes < CrashBound
    /\ crashes' = crashes + 1
    /\ Exit
    /\ UNCHANGED faults

\* Restore: LoadState and the registration of the queue, ...
StartRestore ==
    /\ boot = "down"
    /\ boot' = "restoring"
    /\ restore' \in loadDeliveries
    /\ UNCHANGED <<queue, call, database, bounds, history, serial>>

\* ... then RestoreReady and MarkReady for each delivery, ...
RestoreDelivery ==
    /\ boot = "restoring" /\ restore # << >>
    /\ queue' = RestoredReady(queue, Head(restore))
    /\ rows' = MarkReady(rows, Head(restore).ID)
    /\ restore' = Tail(restore)
    /\ UNCHANGED <<boot, call, createdAt, deadLetters, bounds, history, serial>>

\* ... where an error ends the process, ...
RestoreFails ==
    /\ boot = "restoring"
    /\ faults < FaultBound
    /\ faults' = faults + 1
    /\ Exit
    /\ UNCHANGED crashes

\* ... and the server starts after the last one.
Serve ==
    /\ boot = "restoring" /\ restore = << >>
    /\ boot' = "up"
    /\ UNCHANGED <<queue, call, restore, database, bounds, history, serial>>
----------------------------------------------------------------------------
Next ==
    \/ \E t \in Calls :
          \/ \E id \in DeliveryIDs : Publish(t, id)
          \/ \E c \in Consumers : BlockingFetch(t, c) \/ DisconnectConsumer(t, c)
          \/ \E id \in DeliveryIDs, c \in Consumers : Ack(t, id, c) \/ NAck(t, id, c)
          \/ StatementDone(t)
          \/ StatementFails(t)
          \/ Return(t)
    \/ \E c \in Consumers : AddConsumer(c)
    \/ Crash
    \/ StartRestore \/ RestoreDelivery \/ RestoreFails \/ Serve

Spec == Init /\ [][Next]_vars
----------------------------------------------------------------------------
ReadyIDs    == {queue.Ready[i].ID : i \in DOMAIN queue.Ready}
InFlightIDs == DOMAIN queue.InFlight
Quiescent   == boot = "up" /\ \A t \in Calls : call[t] = NoCall

Row == [status : {"ready", "in_flight"}, consumer_id : Consumers \cup {NoConsumer},
        attempts : 0..AttemptBound]

\* The process, its calls and the tables have the types the code gives them.
TypeOK ==
    /\ boot \in {"down", "restoring", "up"}
    /\ queue.IsDurable /\ queue.Consumers \subseteq Consumers
    /\ ReadyIDs \cup InFlightIDs \subseteq DeliveryIDs
    /\ \A t \in Calls : call[t] # NoCall =>
          call[t].op \in {"Publish", "Fetch", "Ack", "NAck", "Disconnect"}
    /\ DOMAIN rows \subseteq ToSet(createdAt)
    /\ \A id \in DOMAIN rows : rows[id] \in Row
    /\ deadLetters \subseteq DeliveryIDs

\* Whatever a consumer can be handed has its row: Publish saves before it
\* enqueues, and the row goes only after the delivery has left the queue.
MemoryIsPersisted == ReadyIDs \cup InFlightIDs \subseteq DOMAIN rows

\* A confirmed message that was neither acked nor given up keeps its row
\* through every failure and crash, so that a restart brings it back.
UnsettledKept == confirmed \ (acked \cup rejected) \subseteq DOMAIN rows

\* Once Ack has returned, the delivery never comes back: not from a late
\* MarkInFlight or MarkReady of another call, not from a restart.
AckedNeverBack ==
    ackConfirmed \cap (DOMAIN rows \cup ReadyIDs \cup InFlightIDs) = {}

MemoryAttempts(id) ==
    IF id \in InFlightIDs THEN queue.InFlight[id].Attempts
    ELSE queue.Ready[CHOOSE i \in DOMAIN queue.Ready : queue.Ready[i].ID = id].Attempts

\* The table never charges a delivery with more attempts than the queue
\* does, however late MarkInFlight comes: no restart brings a delivery
\* closer to its MaxAttempts than the hand-outs that took place.
AttemptsNotOvercounted ==
    \A id \in ReadyIDs \cup InFlightIDs : rows[id].attempts <= MemoryAttempts(id)

\* Of two messages never handed out, one whose Publish began after the
\* other's was confirmed is behind it, also after a restart.
PublishOrderKept ==
    \A i, j \in DOMAIN queue.Ready :
        /\ queue.Ready[i].Attempts = 0 /\ queue.Ready[j].Attempts = 0
        /\ queue.Ready[i].ID \in earlier[queue.Ready[j].ID]
        => i < j

\* When the server starts after a restart, even one that was interrupted
\* before, Ready holds every row of the table once, unowned, with the
\* attempts the table knows.
RestoredExactly ==
    [][boot = "restoring" /\ boot' = "up" =>
          /\ ReadyIDs = DOMAIN rows /\ InFlightIDs = {}
          /\ Len(queue.Ready) = Cardinality(DOMAIN rows)
          /\ \A i \in DOMAIN queue.Ready :
                queue.Ready[i] = [NewDelivery(queue.Ready[i].ID) EXCEPT
                                    !.Attempts = rows[queue.Ready[i].ID].attempts]]_vars

\* As long as calls come one at a time and no statement fails, the table
\* mirrors the queue between calls, also after crashes: the same deliveries,
\* in the same state, with the same holder and attempts, so that a restart at
\* this point continues the count.  (Of two calls at a time, the MarkInFlight
\* of one fetch can overwrite that of a later one.)
QuiescentAgreement ==
    Quiescent /\ serial /\ faults = 0 =>
        /\ DOMAIN rows = ReadyIDs \cup InFlightIDs
        /\ \A id \in DOMAIN rows :
              /\ rows[id].attempts = MemoryAttempts(id)
              /\ IF id \in InFlightIDs
                   THEN /\ rows[id].status = "in_flight"
                        /\ rows[id].consumer_id = queue.InFlight[id].ConsumerID
                   ELSE rows[id].status = "ready" /\ rows[id].consumer_id = NoConsumer

\* With no call in progress, a confirmed message that was not acked is in
\* one of the two tables.
UnackedNeverLost ==
    Quiescent => confirmed \ acked \subseteq DOMAIN rows \cup deadLetters
============================================================================
