-------------------------- MODULE RegistryHistory --------------------------
(***************************************************************************)
(* Registry with two histories, which tell how far the promises about      *)
(* consumers, rows and filters go when calls overlap and statements fail.  *)
(* Nothing of Registry depends on them.                                    *)
(*                                                                         *)
(* stayed[t]: the registrations of consumers that are as old as call t.    *)
(*                                                                         *)
(* overtaken: the names for which the steps in memory and the statements   *)
(* of different calls came in different orders, or a statement failed, so  *)
(* that a row was written or deleted, or a message saved or enqueued, for  *)
(* another queue of that name than the one that has it.  exOvertaken says  *)
(* that of the name of the exchange.  Neither is ever taken back, not even *)
(* by a restart: the tables have kept what was written.                    *)
(***************************************************************************)
EXTENDS Registry

VARIABLES stayed, overtaken, exOvertaken

hvars == <<vars, stayed, overtaken, exOvertaken>>

\* Consumers of Queue objects.
Registrations == UNION { {<<q, c>> : c \in objs[q].Consumers} : q \in DOMAIN objs }

HInit ==
    /\ Init
    /\ stayed = [t \in Calls |-> {}]
    /\ overtaken = {} /\ exOvertaken = FALSE
----------------------------------------------------------------------------
\* The statement of this step returns an error.
Fails == faults' # faults

\* The queue of name n that the call looked up, or registered, is the one that
\* has the name.
Has(n, q) == n \in DOMAIN Current /\ Current[n] = q

\* A queue is registered while the row of another one is still, or again, there.
RowLeft(t, n) ==
    /\ At(t, "RegisterQueue", "RegisterQueue") /\ call[t].name = n
    /\ n \notin DOMAIN queues[call[t].e] /\ Accepted(call[t].request)
    /\ n \in DOMAIN qRows

\* A queue is saved that does not have its name any more.
SavedLate(t, n) ==
    At(t, "RegisterQueue", "SaveQueue") /\ call[t].name = n /\ ~Has(n, call[t].q)

\* The queue that is removed is not the one that was looked up.
OtherRemoved(t, n) ==
    /\ At(t, "DeleteQueue", "DeleteQueue") \/ At(t, "DisconnectConsumer", "RemoveQueue")
    /\ call[t].name = n /\ n \in DOMAIN queues[call[t].e]
    /\ queues[call[t].e][n] # call[t].q

\* A row is deleted when the name has a queue again, or stays.
DeletedLate(t, n) ==
    /\ At(t, "DeleteQueue", "DeleteQueueRow") /\ call[t].name = n
    /\ n \in DOMAIN Current \/ Fails

\* The rows of an exchange are deleted when the name has one again, or stay.
ExchangeDeletedLate(t) ==
    At(t, "DeleteExchange", "DeleteExchangeRow") /\ (exchange # 0 \/ Fails)

\* A message is saved or enqueued for a queue that is younger than the Publish,
\* or does not exist any more.
RoutedLate(t, n) ==
    /\ At(t, "Publish", "Deliver")
    /\ \/ DeliveryID(call[t].number, n) \in dRows' \ dRows
       \/ call'[t] # Idle /\ n \in call[t].items \ call'[t].items
    /\ ~(n \in DOMAIN Current /\ Current[n] <= call[t].known)

Overtakes(t, n) ==
    \/ RowLeft(t, n) \/ SavedLate(t, n) \/ OtherRemoved(t, n) \/ DeletedLate(t, n)
    \/ ExchangeDeletedLate(t) \/ RoutedLate(t, n)

\* An exchange is saved that was deleted in between, or is not saved.
ExchangeSavedLate(t) ==
    At(t, "CreateExchange", "SaveExchange") /\ (exchange = 0 \/ Fails)

Moves(t) == up' /\ call'[t] # call[t]

Histories ==
    /\ stayed' = [t \in Calls |-> IF call'[t] = Idle THEN Registrations'
                                  ELSE stayed[t] \cap Registrations']
    /\ overtaken' = overtaken \cup
          {n \in QueueNames : \E t \in Calls : Moves(t) /\ Overtakes(t, n)}
    /\ exOvertaken' =
          (exOvertaken \/ \E t \in Calls :
              Moves(t) /\ (ExchangeSavedLate(t) \/ ExchangeDeletedLate(t)))

HNext == Next /\ Histories

HSpec == HInit /\ [][HNext]_hvars
----------------------------------------------------------------------------
\* A consumer that was registered with a queue when a call began, and has been
\* ever since, keeps the queue: that call, be it DeleteQueue or the auto-delete
\* of DisconnectConsumer, does not take the queue from its exchange.  Only
\* consumers that come while it runs are not seen (exchange.go 45-59, 187-201).
ConsumerKeepsQueue ==
    [][ \A t \in Calls : Moves(t) =>
          \A e \in DOMAIN queues : \A n \in DOMAIN queues[e] \ DOMAIN queues'[e] :
             \A c \in Consumers : <<queues[e][n], c>> \notin stayed[t] ]_hvars

\* The same of DeleteExchange, which asks the queues one after the other and
\* removes what has the name then: not an exchange with a queue that had a
\* consumer all the time (service/broker.go 51-69, exchange.go 155-168).
ConsumerKeepsExchange ==
    [][ \A t \in Calls : Moves(t) /\ exchange' # exchange =>
          \A n \in DOMAIN Current : \A c \in Consumers :
             <<Current[n], c>> \notin stayed[t] ]_hvars

\* When no call is running, every registered durable queue whose registration
\* was confirmed to a caller, or that was restored, would come back from a
\* restart with the parameters it has, unless its name was overtaken
\* (service/broker.go 92-96, 120-124).
SavedUnlessOvertaken ==
    Quiet => \A n \in DOMAIN Current \ overtaken :
        LET q == objs[Current[n]]
        IN  Current[n] \in confirmed /\ q.IsDurable
              => /\ n \in DOMAIN qRows
                 /\ SameParameters(q, [qRows[n] EXCEPT !.Filters = q.Filters])
                 /\ qRows[n].Filters = Range(q.Filters)

\* When no call is running, a restart brings back no exchange and no queue that
\* was deleted, unless its name was overtaken (service/broker.go 51-69, 104-127).
DeletedUnlessOvertaken ==
    Quiet => /\ exOvertaken \/ (exRow <=> exchange # 0)
             /\ \A n \in DOMAIN qRows \ overtaken :
                   n \in DOMAIN Current /\ objs[Current[n]].IsDurable

\* A registered queue only holds messages whose key one of its filters stands
\* for, also after restarts, unless its name was overtaken (exchange.go 86-117).
MatchUnlessOvertaken ==
    \A n \in DOMAIN Current \ overtaken : \A i \in DOMAIN objs[Current[n]].Ready :
        published[objs[Current[n]].Ready[i].ID[1]] \in DenotedByAny(objs[Current[n]].Filters)
============================================================================
