----------------------- MODULE RegistryHistoryProofs -----------------------
(***************************************************************************)
(* How far the promises about consumers, rows and filters go, for any sets *)
(* of queue names, requests, keys, consumers and calls, with any calls at  *)
(* the same time and any number of crashes and failing statements.         *)
(***************************************************************************)
EXTENDS RegistryHistory, RegistryProofs

\* The queues of the exchange that has the name.
Map(ex, qs) == IF ex = 0 THEN EmptyMap ELSE qs[ex]
----------------------------------------------------------------------------
(***************************************************************************)
(* Steps.                                                                  *)
(***************************************************************************)
\* The exchange the name stands for, and its queues.
LEMMA CurrentMap ==
  ASSUME IInv
  PROVE  /\ exchange # 0 => exchange \in DOMAIN queues /\ Map(exchange, queues) = queues[exchange]
         /\ exchange = 0 => DOMAIN Map(exchange, queues) = {}
         /\ Current = Map(exchange, queues)
         /\ \A n \in DOMAIN Map(exchange, queues) :
               n \in QueueNames /\ Map(exchange, queues)[n] \in DOMAIN objs
  <1>1. exchange \in 0..Len(queues) /\ DOMAIN queues = 1..Len(queues) /\ Len(queues) \in Nat
    BY Pointers DEF IInv, Memory
  <1>2. \A e \in DOMAIN queues : \A n \in DOMAIN queues[e] :
           n \in QueueNames /\ queues[e][n] \in DOMAIN objs
    BY Pointers
  <1>3. DOMAIN EmptyMap = {}
    BY DEF EmptyMap
  <1> QED
    BY <1>1, <1>2, <1>3 DEF Map, Current

\* What has the name of the exchange changes by these steps only.
LEMMA ExchangeChanges ==
  ASSUME IInv, NEW t \in Calls, Step(t)
  PROVE  \/ exchange' = exchange
         \/ RemoveExchange(t) /\ exchange' = 0
         \/ CreateExchange(t) /\ exchange = 0 /\ exchange' \notin DOMAIN queues /\ exchange' # 0
  <1>1. \/ exchange' = exchange
        \/ CreateExchange(t) \/ RemoveExchange(t)
    BY Zenon DEF Step, ExchangeCall, QueueCall, ConsumerCall, PublishCall, SaveExchange,
       DeleteExchange, HasActiveConsumers, AskQueue, DeleteExchangeRow, RegisterInExchange,
       RegisterQueue, SaveQueue, LookUp, GetQueue, DeleteQueueRow, DeleteIfUnused, Publish,
       DeleteQueue, RemoveQueue, Route, SaveReadyDelivery, DeliverTransient, DeliverSaved,
       EnqueueDelivery, AddConsumer, DisconnectConsumer, PublishDone, Return,
       StatementFails, AnswerLost, memory
  <1>2. CASE CreateExchange(t)
    <2>1. Len(queues) \in Nat /\ DOMAIN queues = 1..Len(queues)
      BY Pointers
    <2>2. exchange' = exchange \/ (exchange = 0 /\ exchange' = Len(queues) + 1)
      BY <1>2 DEF CreateExchange
    <2> QED
      BY <1>2, <2>1, <2>2
  <1>3. CASE RemoveExchange(t)
    BY <1>3 DEF RemoveExchange
  <1> QED
    BY <1>1, <1>2, <1>3

\* The exchange that has the name had it before, or has no queue yet that was
\* there before.
LEMMA MapChanges ==
  ASSUME IInv, NEW t \in Calls, Step(t), Frame, NEW n \in DOMAIN Map(exchange', queues'),
         Map(exchange', queues')[n] # Len(objs) + 1
  PROVE  /\ exchange' = exchange /\ exchange # 0
         /\ n \in DOMAIN Map(exchange, queues)
         /\ Map(exchange', queues')[n] = Map(exchange, queues)[n]
  <1>1. IInv'
    BY NextInv DEF Next, Step
  <1>2. exchange' # 0 /\ exchange' \in DOMAIN queues'
    <2>1. DOMAIN EmptyMap = {}
      BY DEF EmptyMap
    <2>2. exchange' \in 0..Len(queues') /\ queues' \in Seq(Maps)
      BY <1>1 DEF IInv, Memory
    <2>3. exchange' # 0
      BY <2>1 DEF Map
    <2> QED
      BY <2>2, <2>3, LenProperties
  <1>3. /\ exchange' \in DOMAIN queues /\ n \in DOMAIN queues[exchange']
        /\ queues'[exchange'][n] = queues[exchange'][n]
    BY <1>2 DEF Frame, Map
  <1>4. exchange' = exchange
    BY <1>2, <1>3, ExchangeChanges
  <1> QED
    BY <1>2, <1>3, <1>4 DEF Map

\* The steps on the way to the removal of an exchange.
LEMMA DeletingOnly ==
  ASSUME IInv, NEW t \in Calls, Step(t), call'[t].op = "DeleteExchange"
  PROVE  \/ DeleteExchange(t) \/ HasActiveConsumers(t) \/ RemoveExchange(t)
         \/ \E q \in call[t].asked : AskQueue(t, q)
  <1>1. Leave(t) => call'[t].op = "none"
    BY LeftCall, IdleFields
  <1>2. ~QueueCall(t)
    <2>1. ASSUME NEW n \in QueueNames, NEW r \in Requests, RegisterQueue(t, n, r) PROVE FALSE
      BY <2>1, BegunFields
    <2>2. ASSUME NEW n \in QueueNames, LookUp(t, "DeleteQueue", n, NoConsumer) PROVE FALSE
      BY <2>2, BegunFields
    <2>3. ~GetQueue(t)
      BY FoundCall, IdleFields
    <2>4. ~DeleteQueue(t) /\ ~SaveQueue(t)
      BY <1>1, GotoCall DEF DeleteQueue, SaveQueue, At
    <2>5. ~DeleteQueueRow(t)
      BY <1>1 DEF DeleteQueueRow
    <2>6. ~RegisterInExchange(t)
      <3>1. ASSUME RegisterInExchange(t) PROVE FALSE
        <4>1. call[t].op = "RegisterQueue" /\ (Leave(t) \/ \E q, d : Registered(t, q, d))
          BY <3>1 DEF RegisterInExchange, At
        <4> QED
          BY <1>1, <4>1, RegisteredCall
      <3> QED
        BY <3>1
    <2> QED
      BY <2>1, <2>2, <2>3, <2>4, <2>5, <2>6 DEF QueueCall
  <1>3. ~CreateExchange(t)
    BY CreateCall
  <1>4. ~SaveExchange(t) /\ ~DeleteExchangeRow(t)
    BY <1>1 DEF SaveExchange, DeleteExchangeRow
  <1>5. ExchangeCall(t)
    BY <1>2, Ops, IdleFields DEF Step
  <1> QED
    BY <1>3, <1>4, <1>5 DEF ExchangeCall

\* The steps on the way to the removal of an unused queue.
LEMMA LeavingOnly ==
  ASSUME IInv, NEW t \in Calls, Step(t), call'[t].op = "DisconnectConsumer"
  PROVE  \/ call'[t].pc = "GetQueue"
         \/ GetQueue(t) \/ DisconnectConsumer(t) \/ DeleteIfUnused(t)
  <1>1. Leave(t) => call'[t].op = "none"
    BY LeftCall, IdleFields
  <1>2. CASE QueueCall(t)
    <2>1. ASSUME NEW n \in QueueNames, NEW r \in Requests, RegisterQueue(t, n, r) PROVE FALSE
      BY <2>1, BegunFields
    <2>2. ASSUME NEW n \in QueueNames, LookUp(t, "DeleteQueue", n, NoConsumer) PROVE FALSE
      BY <2>2, BegunFields
    <2>4. ~DeleteQueue(t) /\ ~SaveQueue(t)
      BY <1>1, GotoCall DEF DeleteQueue, SaveQueue, At
    <2>5. ~DeleteQueueRow(t)
      BY <1>1 DEF DeleteQueueRow
    <2>6. ~RegisterInExchange(t)
      <3>1. ASSUME RegisterInExchange(t) PROVE FALSE
        <4>1. call[t].op = "RegisterQueue" /\ (Leave(t) \/ \E q, d : Registered(t, q, d))
          BY <3>1 DEF RegisterInExchange, At
        <4> QED
          BY <1>1, <4>1, RegisteredCall
      <3> QED
        BY <3>1
    <2> QED
      BY <1>2, <2>1, <2>2, <2>4, <2>5, <2>6 DEF QueueCall
  <1>3. CASE ConsumerCall(t)
    <2>1. ASSUME NEW n \in QueueNames, NEW c \in Consumers,
                 LookUp(t, "AddConsumer", n, c) \/ LookUp(t, "DisconnectConsumer", n, c)
          PROVE  call'[t].pc = "GetQueue"
      BY <2>1, BegunFields
    <2>2. ~AddConsumer(t) /\ ~RemoveQueue(t)
      BY <1>1 DEF AddConsumer, RemoveQueue
    <2> QED
      BY <1>3, <2>1, <2>2 DEF ConsumerCall
  <1> QED
    BY <1>2, <1>3, Ops, IdleFields DEF Step
----------------------------------------------------------------------------
(***************************************************************************)
(* Consumers that were there when a call began.  A call that is about to   *)
(* remove a queue, or an exchange, has asked every queue it might remove   *)
(* that is as old as the call: the others had no consumer then.            *)
(***************************************************************************)
Spared(k, st, ex, qs) ==
    /\ k.op = "DisconnectConsumer" /\ k.pc # "GetQueue" =>
          \A c \in Consumers :
             /\ k.name \in DOMAIN qs[k.e] /\ qs[k.e][k.name] # k.q
                  => <<qs[k.e][k.name], c>> \notin st
             /\ k.pc = "RemoveQueue" => <<k.q, c>> \notin st
    /\ k.op = "DeleteExchange" /\ k.pc \in {"HasActiveConsumers", "AskQueues"} =>
          \A n \in DOMAIN Map(ex, qs) : \A c \in Consumers :
             <<Map(ex, qs)[n], c>> \in st =>
                k.e = ex /\ (k.pc = "AskQueues" => Map(ex, qs)[n] \in k.asked)

StayedInv ==
    \A t \in Calls : /\ stayed[t] \subseteq Registrations
                     /\ Spared(call[t], stayed[t], exchange, queues)

\* What a registration is.
LEMMA RegistrationOf ==
  ASSUME NEW q, NEW c
  PROVE  <<q, c>> \in Registrations <=> q \in DOMAIN objs /\ c \in objs[q].Consumers
  BY DEF Registrations

\* A call remembers less and less, and what it remembers is still so.
LEMMA StayedShrinks ==
  ASSUME StayedInv, Histories, NEW t \in Calls
  PROVE  /\ stayed'[t] \subseteq Registrations'
         /\ call'[t] # Idle => stayed'[t] \subseteq stayed[t] /\ stayed'[t] \subseteq Registrations
  <1>1. stayed'[t] = IF call'[t] = Idle THEN Registrations' ELSE stayed[t] \cap Registrations'
    BY DEF Histories
  <1> QED
    BY <1>1 DEF StayedInv

\* The call does not move, or moves without a new promise.
LEMMA SparedStays ==
  ASSUME IInv, StayedInv, Histories, NEW t \in Calls, Step(t), NEW u \in Calls,
         NEW k, Spared(k, stayed[u], exchange, queues), call'[u] # Idle,
         k.op = "DisconnectConsumer" => k.e \in DOMAIN queues,
         k.op = "DeleteExchange" => k.e \in DOMAIN queues
  PROVE  Spared(k, stayed'[u], exchange', queues')
  <1>1. Frame
    BY Effect
  <1>2. stayed'[u] \subseteq stayed[u] /\ stayed'[u] \subseteq Registrations
    BY StayedShrinks
  <1>3. \A q, c : <<q, c>> \in stayed'[u] => q \in DOMAIN objs /\ q # Len(objs) + 1
    <2>1. Len(objs) + 1 \notin DOMAIN objs
      BY Pointers
    <2> QED
      BY <1>2, <2>1, RegistrationOf
  <1>4. ASSUME k.op = "DisconnectConsumer", k.pc # "GetQueue", NEW c \in Consumers
        PROVE  /\ k.name \in DOMAIN queues'[k.e] /\ queues'[k.e][k.name] # k.q
                    => <<queues'[k.e][k.name], c>> \notin stayed'[u]
               /\ k.pc = "RemoveQueue" => <<k.q, c>> \notin stayed'[u]
    <2>1. k.pc = "RemoveQueue" => <<k.q, c>> \notin stayed'[u]
      BY <1>2, <1>4 DEF Spared
    <2>2. ASSUME k.name \in DOMAIN queues'[k.e], queues'[k.e][k.name] # k.q,
                 <<queues'[k.e][k.name], c>> \in stayed'[u]
          PROVE  FALSE
      <3>1. k.e \in DOMAIN queues'
        BY <1>1, <1>4 DEF Frame
      <3>2. k.name \in DOMAIN queues[k.e] /\ queues'[k.e][k.name] = queues[k.e][k.name]
        BY <1>1, <1>3, <2>2, <3>1 DEF Frame
      <3> QED
        BY <1>2, <1>4, <2>2, <3>2 DEF Spared
    <2> QED
      BY <2>1, <2>2
  <1>5. ASSUME k.op = "DeleteExchange", k.pc \in {"HasActiveConsumers", "AskQueues"},
               NEW n \in DOMAIN Map(exchange', queues'), NEW c \in Consumers,
               <<Map(exchange', queues')[n], c>> \in stayed'[u]
        PROVE  /\ k.e = exchange'
               /\ k.pc = "AskQueues" => Map(exchange', queues')[n] \in k.asked
    <2>1. Map(exchange', queues')[n] # Len(objs) + 1
      BY <1>3, <1>5
    <2>2. /\ exchange' = exchange /\ n \in DOMAIN Map(exchange, queues)
          /\ Map(exchange', queues')[n] = Map(exchange, queues)[n]
      BY <1>1, <2>1, MapChanges
    <2>3. <<Map(exchange, queues)[n], c>> \in stayed[u]
      BY <1>2, <1>5, <2>2
    <2> HIDE DEF Map
    <2> QED
      BY <1>5, <2>2, <2>3 DEF Spared
  <1> QED
    BY <1>4, <1>5, Zenon DEF Spared

\* No call, no promise.
LEMMA SparedIdle ==
  ASSUME NEW st, NEW ex, NEW qs
  PROVE  Spared(Idle, st, ex, qs)
  BY IdleFields DEF Spared

\* The call that moves.
LEMMA SparedOwn ==
  ASSUME IInv, StayedInv, Histories, NEW t \in Calls, Step(t)
  PROVE  Spared(call'[t], stayed'[t], exchange', queues')
  <1> DEFINE k == call[t]
             m == call'[t]
  <1>1. CASE m = Idle
    BY <1>1, SparedIdle
  <1>2. CASE m # Idle
    <2>1. /\ stayed'[t] \subseteq stayed[t] /\ stayed'[t] \subseteq Registrations
          /\ Spared(k, stayed[t], exchange, queues)
      BY <1>2, StayedShrinks DEF StayedInv
    <2>2. ASSUME m.op = "DisconnectConsumer", m.pc # "GetQueue", NEW c \in Consumers
          PROVE  /\ m.name \in DOMAIN queues'[m.e] /\ queues'[m.e][m.name] # m.q
                      => <<queues'[m.e][m.name], c>> \notin stayed'[t]
                 /\ m.pc = "RemoveQueue" => <<m.q, c>> \notin stayed'[t]
      <3>1. GetQueue(t) \/ DisconnectConsumer(t) \/ DeleteIfUnused(t)
        BY <2>2, LeavingOnly
      <3>2. queues' = queues
        BY <3>1 DEF GetQueue, DisconnectConsumer, DeleteIfUnused, memory
      <3>3. CASE GetQueue(t)
        BY <1>2, <2>2, <3>2, <3>3, FoundCall
      <3>4. CASE DisconnectConsumer(t) \/ DeleteIfUnused(t)
        <4>1. /\ k.op = "DisconnectConsumer" /\ k.pc \in {"DisconnectConsumer", "HasConsumers"}
              /\ \/ Goto(t, "HasConsumers")
                 \/ Goto(t, "RemoveQueue") /\ ~HasConsumers(objs[k.q])
          BY <1>2, <3>4, LeftCall DEF DisconnectConsumer, DeleteIfUnused, At
        <4>2. m.e = k.e /\ m.name = k.name /\ m.q = k.q
          BY <4>1, GotoCall
        <4>3. m.pc = "RemoveQueue" => ~HasConsumers(objs[k.q])
          BY <4>1, GotoCall
        <4>4. m.pc = "RemoveQueue" => <<k.q, c>> \notin stayed'[t]
          BY <2>1, <4>3, RegistrationOf DEF HasConsumers
        <4> HIDE DEF k, m
        <4> QED
          BY <2>1, <3>2, <4>1, <4>2, <4>4 DEF Spared
      <3> QED
        BY <3>1, <3>3, <3>4
    <2>3. ASSUME m.op = "DeleteExchange", m.pc \in {"HasActiveConsumers", "AskQueues"},
                 NEW n \in DOMAIN Map(exchange', queues'), NEW c \in Consumers,
                 <<Map(exchange', queues')[n], c>> \in stayed'[t]
          PROVE  /\ m.e = exchange'
                 /\ m.pc = "AskQueues" => Map(exchange', queues')[n] \in m.asked
      <3>1. ~RemoveExchange(t)
        BY <1>2, <2>3, LeftCall, GotoCall DEF RemoveExchange
      <3>2. \/ DeleteExchange(t) \/ HasActiveConsumers(t)
            \/ \E q \in call[t].asked : AskQueue(t, q)
        BY <2>3, <3>1, DeletingOnly
      <3>3. exchange' = exchange /\ queues' = queues
        BY <3>2 DEF DeleteExchange, HasActiveConsumers, AskQueue, memory
      <3>4. <<Map(exchange, queues)[n], c>> \in stayed[t]
        BY <2>1, <2>3, <3>3
      <3>5. n \in DOMAIN Map(exchange, queues)
        BY <2>3, <3>3
      <3>6. CASE DeleteExchange(t)
        BY <3>3, <3>6, BegunFields
      <3>7. CASE HasActiveConsumers(t)
        <4>1. k.op = "DeleteExchange" /\ k.pc = "HasActiveConsumers"
          BY <3>7 DEF HasActiveConsumers, At
        <4>2. k.e = exchange
          BY <3>4, <3>5, <4>1, <2>1 DEF Spared
        <4>3. m.e = k.e /\ m.asked = Range(queues[k.e])
          BY <3>7, CopiedCall
        <4>4. exchange # 0
          BY <3>5, CurrentMap
        <4> QED
          BY <3>3, <3>5, <4>2, <4>3, <4>4 DEF Map, Range
      <3>8. ASSUME NEW q \in k.asked, AskQueue(t, q)
            PROVE  m.e = exchange /\ Map(exchange, queues)[n] \in m.asked
        <4>1. k.op = "DeleteExchange" /\ k.pc = "AskQueues"
          BY <3>8 DEF AskQueue, At
        <4>2. m.e = k.e /\ m.asked = k.asked \ {q} /\ ~HasConsumers(objs[q])
          BY <1>2, <3>8, AskedCall
        <4>3. k.e = exchange /\ Map(exchange, queues)[n] \in k.asked
          BY <3>4, <3>5, <4>1, <2>1 DEF Spared
        <4>4. Map(exchange, queues)[n] # q
          BY <2>1, <2>3, <3>3, <4>2, RegistrationOf DEF HasConsumers
        <4> QED
          BY <4>2, <4>3, <4>4
      <3> QED
        BY <3>2, <3>3, <3>6, <3>7, <3>8
    <2> HIDE DEF m
    <2> QED
      BY <2>2, <2>3, Zenon DEF Spared, m
  <1> QED
    BY <1>1, <1>2

\* Every step preserves it.
LEMMA StayedNext ==
  ASSUME IInv, StayedInv, [HNext]_hvars
  PROVE  StayedInv'
  <1>1. CASE UNCHANGED hvars
    <2>1. UNCHANGED <<objs, queues, exchange, call, stayed>>
      BY <1>1 DEF hvars, vars, memory
    <2>2. UNCHANGED Registrations
      BY <2>1 DEF Registrations
    <2> QED
      BY <2>1, <2>2 DEF StayedInv
  <1>2. CASE HNext
    <2> SUFFICES ASSUME NEW u \in Calls
                 PROVE  /\ stayed'[u] \subseteq Registrations'
                        /\ Spared(call'[u], stayed'[u], exchange', queues')
      BY DEF StayedInv
    <2>1. Next /\ Histories
      BY <1>2 DEF HNext
    <2>2. stayed'[u] \subseteq Registrations'
      BY <2>1, StayedShrinks
    <2>3. CASE call'[u] = Idle
      BY <2>2, <2>3, SparedIdle
    <2>4. ASSUME NEW t \in Calls, Step(t), call'[u] # Idle
          PROVE  Spared(call'[u], stayed'[u], exchange', queues')
      <3>1. CASE u = t
        BY <2>1, <2>4, <3>1, SparedOwn
      <3>2. CASE u # t
        <4>1. call'[u] = call[u]
          BY <2>4, <3>2, OthersStay
        <4>2. Spared(call[u], stayed[u], exchange, queues)
          BY DEF StayedInv
        <4>3. call[u].op \in {"DisconnectConsumer", "DeleteExchange"} => call[u].e \in DOMAIN queues
          BY Argued
        <4> QED
          BY <2>1, <2>4, <4>1, <4>2, <4>3, SparedStays
      <3> QED
        BY <3>1, <3>2
    <2>5. Crash \/ Restore => call'[u] = Idle
      BY DEF Crash, Restore, IInv, Down
    <2> QED
      BY <2>1, <2>2, <2>3, <2>4, <2>5 DEF Next, Step
  <1> QED
    BY <1>1, <1>2

\* The behaviours of Registry, and the histories.
LEMMA Lifted == HSpec => Spec
  <1>1. HInit => Init
    BY DEF HInit
  <1>2. [HNext]_hvars => [Next]_vars
    BY DEF HNext, hvars
  <1> QED
    BY <1>1, <1>2, PTL DEF HSpec, Spec

\* The invariant of the consumers.
LEMMA StayedAlways == HSpec => []StayedInv
  <1>1. HInit => StayedInv
    BY SparedIdle DEF HInit, Init, StayedInv
  <1>2. IInv /\ StayedInv /\ [HNext]_hvars => StayedInv'
    BY StayedNext
  <1> QED
    BY <1>1, <1>2, Lifted, Inductive, PTL DEF HSpec
----------------------------------------------------------------------------
\* Which steps take a name out of the map of an exchange object.
LEMMA NamesLeave ==
  ASSUME IInv, NEW t \in Calls, Step(t), NEW e \in DOMAIN queues,
         NEW n \in DOMAIN queues[e], n \notin DOMAIN queues'[e]
  PROVE  DeleteQueue(t) \/ RemoveQueue(t)
  <1> DEFINE k == call[t]
  <1>1. CASE UNCHANGED queues
    BY <1>1
  <1>2. CASE CreateExchange(t)
    <2>1. queues' = Append(queues, EmptyMap) \/ UNCHANGED queues
      BY <1>2 DEF CreateExchange
    <2>2. queues \in Seq(Maps) /\ DOMAIN queues = 1..Len(queues) /\ Len(queues) \in Nat
      BY Pointers
    <2>3. queues'[e] = queues[e]
      BY <2>1, <2>2
    <2> QED
      BY <2>3
  <1>3. CASE RegisterInExchange(t)
    <2> DEFINE f == k.e
               x == k.name
               r == k.request
    <2>1. k.op = "RegisterQueue" /\ exchange' = exchange
      BY <1>3 DEF RegisterInExchange, At
    <2>2. f \in DOMAIN queues /\ x \in QueueNames /\ r \in Requests
      BY <2>1, Argued
    <2>3. \/ UNCHANGED queues
          \/ /\ Accepted(r) /\ objs' = Append(objs, NewQueueOf(r))
             /\ queues' = [queues EXCEPT ![f] = Put(@, x, Len(objs) + 1)]
      BY <1>3 DEF RegisterInExchange
    <2> HIDE DEF f, x, r, k
    <2>4. CASE /\ Accepted(r) /\ objs' = Append(objs, NewQueueOf(r))
               /\ queues' = [queues EXCEPT ![f] = Put(@, x, Len(objs) + 1)]
      <3>1. /\ \A g \in DOMAIN queues \ {f} : queues'[g] = queues[g]
            /\ DOMAIN queues'[f] = DOMAIN queues[f] \cup {x}
        BY <2>1, <2>2, <2>4, NewRegistration, Zenon
      <3> QED
        BY <3>1
    <2> QED
      BY <1>1, <2>3, <2>4
  <1>4. \/ UNCHANGED queues
        \/ CreateExchange(t) \/ RegisterInExchange(t) \/ DeleteQueue(t) \/ RemoveQueue(t)
    BY Zenon DEF Step, ExchangeCall, QueueCall, ConsumerCall, PublishCall, SaveExchange,
       DeleteExchange, HasActiveConsumers, AskQueue, RemoveExchange, DeleteExchangeRow,
       RegisterQueue, SaveQueue, LookUp, GetQueue, DeleteQueueRow, DeleteIfUnused, Publish,
       Route, SaveReadyDelivery, DeliverTransient, DeliverSaved, EnqueueDelivery, AddConsumer,
       DisconnectConsumer, PublishDone, Return, StatementFails, AnswerLost, memory
  <1> QED
    BY <1>1, <1>2, <1>3, <1>4

\* Which call moves.
LEMMA Mover ==
  ASSUME IInv, HNext, NEW t \in Calls, Moves(t)
  PROVE  Step(t)
  <1>1. ~Crash
    BY DEF Crash, Moves
  <1>2. ~Restore
    BY DEF Restore, Moves
  <1>3. ASSUME NEW u \in Calls, Step(u) PROVE Step(t)
    BY <1>3, OthersStay DEF Moves
  <1> QED
    BY <1>1, <1>2, <1>3 DEF HNext, Next, Step

\* A call does not take a queue from its exchange that has a consumer which was
\* registered when the call began and has been ever since, whatever else runs
\* (exchange.go 45-59, 187-201).
THEOREM QueuesWithConsumersStay == HSpec => ConsumerKeepsQueue
  <1> DEFINE A == \A t \in Calls : Moves(t) =>
                    \A e \in DOMAIN queues : \A n \in DOMAIN queues[e] \ DOMAIN queues'[e] :
                       \A c \in Consumers : <<queues[e][n], c>> \notin stayed[t]
  <1>1. IInv /\ StayedInv /\ [HNext]_hvars => [A]_hvars
    <2> SUFFICES ASSUME IInv, StayedInv, HNext, NEW t \in Calls, Moves(t), NEW e \in DOMAIN queues,
                        NEW n \in DOMAIN queues[e], n \notin DOMAIN queues'[e],
                        NEW c \in Consumers, <<queues[e][n], c>> \in stayed[t]
                 PROVE  FALSE
      OBVIOUS
    <2> DEFINE k == call[t]
    <2>1. Step(t)
      BY Mover
    <2>2. DeleteQueue(t) \/ RemoveQueue(t)
      BY <2>1, NamesLeave
    <2>3. /\ k.op \in {"DeleteQueue", "DisconnectConsumer"} /\ RemoveName(k.e, k.name)
          /\ UNCHANGED <<exchange, objs>>
      BY <2>2 DEF DeleteQueue, RemoveQueue, At
    <2>4. k.e \in DOMAIN queues
      BY <2>3, Argued
    <2>5. e = k.e /\ n = k.name
      BY <2>3, <2>4, NameRemoved
    <2>6. c \in objs[queues[e][n]].Consumers
      BY RegistrationOf DEF StayedInv
    <2>7. CASE DeleteQueue(t)
      BY <2>5, <2>6, <2>7 DEF DeleteQueue, HasConsumers
    <2>8. CASE RemoveQueue(t)
      <3>1. k.op = "DisconnectConsumer" /\ k.pc = "RemoveQueue"
        BY <2>8 DEF RemoveQueue, At
      <3>2. Spared(k, stayed[t], exchange, queues)
        BY DEF StayedInv
      <3> QED
        BY <2>5, <3>1, <3>2 DEF Spared
    <2> QED
      BY <2>2, <2>7, <2>8
  <1>2. HSpec => [][A]_hvars
    BY <1>1, Lifted, Inductive, StayedAlways, PTL DEF HSpec
  <1> QED
    BY <1>2 DEF ConsumerKeepsQueue

\* DeleteExchange does not remove an exchange with a queue that has a consumer
\* which was registered when the call began and has been ever since
\* (service/broker.go 51-69, exchange.go 155-168).
THEOREM ExchangesWithConsumersStay == HSpec => ConsumerKeepsExchange
  <1> DEFINE A == \A t \in Calls : Moves(t) /\ exchange' # exchange =>
                    \A n \in DOMAIN Current : \A c \in Consumers :
                       <<Current[n], c>> \notin stayed[t]
  <1>1. IInv /\ StayedInv /\ [HNext]_hvars => [A]_hvars
    <2> SUFFICES ASSUME IInv, StayedInv, HNext, NEW t \in Calls, Moves(t), exchange' # exchange,
                        NEW n \in DOMAIN Current, NEW c \in Consumers,
                        <<Current[n], c>> \in stayed[t]
                 PROVE  FALSE
      OBVIOUS
    <2>1. Current = Map(exchange, queues) /\ exchange # 0
      BY CurrentMap
    <2>2. RemoveExchange(t)
      BY <2>1, Mover, ExchangeChanges
    <2>3. call[t].op = "DeleteExchange" /\ call[t].pc = "AskQueues" /\ call[t].asked = {}
      BY <2>2 DEF RemoveExchange, At
    <2>4. Spared(call[t], stayed[t], exchange, queues)
      BY DEF StayedInv
    <2> QED
      BY <2>1, <2>3, <2>4 DEF Spared
  <1>2. HSpec => [][A]_hvars
    BY <1>1, Lifted, Inductive, StayedAlways, PTL DEF HSpec
  <1> QED
    BY <1>2 DEF ConsumerKeepsExchange
----------------------------------------------------------------------------
(***************************************************************************)
(* The rows.  Unless its name was overtaken, a row is that of the durable  *)
(* queue that has the name, or of no queue while the call runs that        *)
(* deletes it; and a queue that was promised to a caller has its row.      *)
(***************************************************************************)
RowOf(row, q) ==
    /\ q.IsDurable
    /\ row.IsDurable = q.IsDurable /\ row.IsAutoDelete = q.IsAutoDelete
    /\ row.MaxAttempts = q.MaxAttempts /\ row.Filters = Range(q.Filters)

\* The queues that calls hold.
Held(k, ob) ==
    /\ k.op = "RegisterQueue" /\ k.pc = "SaveQueue" => ob[k.q].IsDurable
    /\ k.op = "DisconnectConsumer" /\ k.pc \in {"HasConsumers", "RemoveQueue"}
         => ob[k.q].IsAutoDelete
    /\ k.op = "Publish" => k.q = 0

DurableRows(qr) == \A n \in DOMAIN qr : qr[n].IsDurable

\* The call is about to delete the row of the exchange, of queue n.
ExchangeDoomed(k) == k.op = "DeleteExchange" /\ k.pc = "DeleteExchangeRow"

Doomed(k, n) ==
    ExchangeDoomed(k) \/ (k.op = "DeleteQueue" /\ k.pc = "DeleteQueueRow" /\ k.name = n)

\* The call is about to return queue q.
Returns(k, q) == k.op = "RegisterQueue" /\ k.pc = "Return" /\ k.q = q

RowFits(n, m, ob, qr, cl) ==
    n \in DOMAIN qr => \/ n \in DOMAIN m /\ RowOf(qr[n], ob[m[n]])
                       \/ n \notin DOMAIN m /\ \E t \in Calls : Doomed(cl[t], n)

RowThere(n, m, ob, qr, cl, cf) ==
    /\ n \in DOMAIN m /\ ob[m[n]].IsDurable
    /\ m[n] \in cf \/ \E t \in Calls : Returns(cl[t], m[n])
    => n \in DOMAIN qr

ExchangeFits(ex, er, cl) ==
    /\ er => ex # 0 \/ \E t \in Calls : ExchangeDoomed(cl[t])
    /\ ex # 0 => er \/ \E t \in Calls : cl[t].op = "CreateExchange"

RowsInv ==
    /\ faults \in Nat
    /\ DurableRows(qRows)
    /\ \A t \in Calls : Held(call[t], objs)
    /\ up => \A n \in QueueNames \ overtaken :
          /\ RowFits(n, Map(exchange, queues), objs, qRows, call)
          /\ RowThere(n, Map(exchange, queues), objs, qRows, call, confirmed)
    /\ up /\ ~exOvertaken => ExchangeFits(exchange, exRow, call)
----------------------------------------------------------------------------
\* What Route leaves in the call.
LEMMA RouteCall ==
  ASSUME IInv, NEW t \in Calls, Route(t)
  PROVE  LET k == call[t]
             k1 == call'[t]
         IN  \/ k1 = Idle
             \/ /\ ValidKey(k.key)
                /\ k1.op = k.op /\ k1.pc = "Deliver" /\ k1.e = k.e /\ k1.q = k.q
                /\ k1.key = k.key /\ k1.number = k.number /\ k1.saved = k.saved
                /\ k1.known = k.known
                /\ k1.items = {n \in DOMAIN queues[k.e] :
                                 MatchFilters(objs[queues[k.e][n]].Filters, k.key)}
  <1> DEFINE k == call[t]
             k1 == call'[t]
             I == {n \in DOMAIN queues[k.e] : MatchFilters(objs[queues[k.e][n]].Filters, k.key)}
             J == {n \in DOMAIN queues[k.e] : objs[queues[k.e][n]].IsDurable}
             k0 == [k EXCEPT !.pc = "Deliver", !.items = I, !.durable = J]
             V == ValidKey(k.key)
  <1>1. k \in CallRec /\ call \in [Calls -> CallRec]
    BY Running
  <1>2. (V /\ call' = [call EXCEPT ![t] = k0]) \/ Leave(t)
    BY ZenonT(30) DEF Route
  <1>3. (V /\ k1 = k0) \/ k1 = Idle
    BY <1>1, <1>2, LeftCall
  <1> HIDE DEF I, J, k, k1, V
  <1>4. /\ k0.op = k.op /\ k0.pc = "Deliver" /\ k0.e = k.e /\ k0.q = k.q /\ k0.key = k.key
        /\ k0.number = k.number /\ k0.saved = k.saved /\ k0.items = I /\ k0.known = k.known
    BY <1>1, Zenon DEF CallRec
  <1>5. \/ k1 = Idle
        \/ /\ V /\ k1.op = k.op /\ k1.pc = "Deliver" /\ k1.e = k.e /\ k1.q = k.q
           /\ k1.key = k.key /\ k1.number = k.number /\ k1.saved = k.saved /\ k1.items = I
           /\ k1.known = k.known
    BY <1>3, <1>4
  <1> QED
    BY <1>5 DEF I, k, k1, V

\* What a step of the loop of Publish leaves in the call.
LEMMA DeliverCall ==
  ASSUME IInv, NEW t \in Calls, NEW n,
         DeliverTransient(t, n) \/ SaveReadyDelivery(t, n) \/ DeliverSaved(t, n)
  PROVE  LET k == call[t]
             k1 == call'[t]
         IN  /\ k.op = "Publish" /\ k.pc = "Deliver"
             /\ \/ k1 = Idle
                \/ /\ k1.op = k.op /\ k1.pc = k.pc /\ k1.e = k.e /\ k1.q = k.q
                   /\ k1.key = k.key /\ k1.number = k.number /\ k1.known = k.known
                   /\ \/ k1.items = k.items \ {n} /\ k1.saved = {}
                      \/ k1.items = k.items /\ k1.saved = {n} /\ n \in k.items
  <1> DEFINE k == call[t]
             k1 == call'[t]
             I == k.items \ {n}
             k2 == [k EXCEPT !.items = I, !.saved = {}]
             k3 == [k EXCEPT !.saved = {n}]
  <1>1. k \in CallRec /\ call \in [Calls -> CallRec] /\ k.op = "Publish" /\ k.pc = "Deliver"
    BY Running DEF DeliverTransient, SaveReadyDelivery, DeliverSaved, NextItem, At
  <1>2. \/ call' = [call EXCEPT ![t] = k2]
        \/ call' = [call EXCEPT ![t] = k3] /\ n \in k.items
        \/ Leave(t)
    BY DEF DeliverTransient, SaveReadyDelivery, DeliverSaved, EnqueueDelivery, NextItem
  <1>3. k1 = k2 \/ (k1 = k3 /\ n \in k.items) \/ k1 = Idle
    BY <1>1, <1>2, LeftCall
  <1> HIDE DEF I, k, k1
  <1>4. /\ k2.op = k.op /\ k2.pc = k.pc /\ k2.e = k.e /\ k2.q = k.q /\ k2.key = k.key
        /\ k2.number = k.number /\ k2.saved = {} /\ k2.items = I /\ k2.known = k.known
        /\ k3.op = k.op /\ k3.pc = k.pc /\ k3.e = k.e /\ k3.q = k.q /\ k3.key = k.key
        /\ k3.number = k.number /\ k3.saved = {n} /\ k3.items = k.items /\ k3.known = k.known
    BY <1>1, Zenon DEF CallRec
  <1>5. \/ k1 = Idle
        \/ /\ k1.op = k.op /\ k1.pc = k.pc /\ k1.e = k.e /\ k1.q = k.q
           /\ k1.key = k.key /\ k1.number = k.number /\ k1.known = k.known
           /\ \/ k1.items = I /\ k1.saved = {}
              \/ k1.items = k.items /\ k1.saved = {n} /\ n \in k.items
    BY <1>3, <1>4
  <1> QED
    BY <1>1, <1>5 DEF I, k, k1

\* How a registration ends in the exchange.
LEMMA RegisteredHow ==
  ASSUME IInv, NEW t \in Calls, RegisterInExchange(t), ~Leave(t)
  PROVE  LET k == call[t]
             k1 == call'[t]
             q == k1.q
         IN  /\ k.op = "RegisterQueue" /\ k.pc = "RegisterQueue" /\ k.e \in DOMAIN queues
             /\ k.name \in QueueNames /\ k.request \in Requests
             /\ k1.op = k.op /\ k1.e = k.e /\ k1.name = k.name /\ k1.request = k.request
             /\ k1.pc = (IF k.request.IsDurable THEN "SaveQueue" ELSE "Return")
             /\ objs'[q].IsDurable = k.request.IsDurable
             /\ \/ /\ k.name \in DOMAIN queues[k.e] /\ q = queues[k.e][k.name]
                   /\ UNCHANGED <<queues, objs>>
                \/ /\ k.name \notin DOMAIN queues[k.e] /\ Accepted(k.request)
                   /\ q = Len(objs) + 1 /\ objs' = Append(objs, NewQueueOf(k.request))
                   /\ queues' = [queues EXCEPT ![k.e] = Put(@, k.name, q)]
  <1> DEFINE k == call[t]
             k1 == call'[t]
             e == k.e
             n == k.name
             r == k.request
  <1>1. k.op = "RegisterQueue" /\ k.pc = "RegisterQueue" /\ exchange' = exchange
    BY DEF RegisterInExchange, At
  <1>2. e \in DOMAIN queues /\ n \in QueueNames /\ r \in Requests
    BY <1>1, Argued
  <1>3. \/ /\ n \in DOMAIN queues[e] /\ SameParameters(objs[queues[e][n]], r)
           /\ Registered(t, queues[e][n], r.IsDurable) /\ UNCHANGED <<queues, objs>>
        \/ /\ n \notin DOMAIN queues[e] /\ Accepted(r)
           /\ objs' = Append(objs, NewQueueOf(r))
           /\ queues' = [queues EXCEPT ![e] = Put(@, n, Len(objs) + 1)]
           /\ Registered(t, Len(objs) + 1, r.IsDurable)
    BY DEF RegisterInExchange
  <1>4. CASE /\ n \in DOMAIN queues[e] /\ SameParameters(objs[queues[e][n]], r)
             /\ Registered(t, queues[e][n], r.IsDurable) /\ UNCHANGED <<queues, objs>>
    <2>1. /\ k1.op = k.op /\ k1.e = k.e /\ k1.name = k.name /\ k1.request = k.request
          /\ k1.pc = (IF r.IsDurable THEN "SaveQueue" ELSE "Return") /\ k1.q = queues[e][n]
      BY <1>4, RegisteredCall
    <2>2. objs'[k1.q].IsDurable = r.IsDurable
      BY <1>4, <2>1, Zenon DEF SameParameters
    <2> HIDE DEF k1, k
    <2> QED
      BY <1>1, <1>2, <1>4, <2>1, <2>2 DEF k1, k
  <1>5. CASE /\ n \notin DOMAIN queues[e] /\ Accepted(r)
             /\ objs' = Append(objs, NewQueueOf(r))
             /\ queues' = [queues EXCEPT ![e] = Put(@, n, Len(objs) + 1)]
             /\ Registered(t, Len(objs) + 1, r.IsDurable)
    <2>1. /\ k1.op = k.op /\ k1.e = k.e /\ k1.name = k.name /\ k1.request = k.request
          /\ k1.pc = (IF r.IsDurable THEN "SaveQueue" ELSE "Return") /\ k1.q = Len(objs) + 1
      BY <1>5, RegisteredCall
    <2> HIDE DEF e, n, r, k, k1
    <2>2. objs'[Len(objs) + 1] = NewQueueOf(r)
      BY <1>1, <1>2, <1>5, NewRegistration
    <2>3. objs'[k1.q].IsDurable = r.IsDurable
      BY <1>2, <1>5, <2>1, <2>2, NewObj, RegistryAssumption
    <2> QED
      BY <1>1, <1>2, <1>5, <2>1, <2>3 DEF e, n, r, k, k1
  <1> QED
    BY <1>3, <1>4, <1>5

\* What a step does to the rows of the queues.
LEMMA RowChanges ==
  ASSUME IInv, NEW t \in Calls, Step(t)
  PROVE  \/ UNCHANGED qRows
         \/ /\ At(t, "RegisterQueue", "SaveQueue") /\ exRow
            /\ qRows' = SavedQueue(qRows, call[t].name, objs[call[t].q])
            /\ Goto(t, "Return") \/ Leave(t)
            /\ UNCHANGED <<exchange, queues, objs, exRow, dRows, published, confirmed>>
         \/ DeleteQueueRow(t) \/ DeleteExchangeRow(t)
  <1>1. CASE SaveQueue(t)
    BY <1>1 DEF SaveQueue, memory, history
  <1>2. CASE AnswerLost(t)
    BY <1>2 DEF AnswerLost, memory, history
  <1>3. \/ UNCHANGED qRows \/ SaveQueue(t) \/ AnswerLost(t)
        \/ DeleteQueueRow(t) \/ DeleteExchangeRow(t)
    BY Zenon DEF Step, ExchangeCall, QueueCall, ConsumerCall, PublishCall, CreateExchange,
       SaveExchange, DeleteExchange, HasActiveConsumers, AskQueue, RemoveExchange,
       RegisterInExchange, RegisterQueue, LookUp, GetQueue, DeleteIfUnused, Publish,
       DeleteQueue, RemoveQueue, Route, SaveReadyDelivery, DeliverTransient, DeliverSaved,
       EnqueueDelivery, AddConsumer, DisconnectConsumer, PublishDone, Return,
       StatementFails, database
  <1> QED
    BY <1>1, <1>2, <1>3

\* What a step does to the queue that has name n.
LEMMA NameChanges ==
  ASSUME IInv, NEW t \in Calls, Step(t), NEW n \in QueueNames
  PROVE  LET m == Map(exchange, queues)
             m1 == Map(exchange', queues')
             k == call[t]
         IN  \/ (n \in DOMAIN m1 <=> n \in DOMAIN m) /\ (n \in DOMAIN m => m1[n] = m[n])
             \/ n \in DOMAIN m /\ n \notin DOMAIN m1 /\ RemoveExchange(t) /\ exchange # 0
             \/ /\ n \in DOMAIN m /\ n \notin DOMAIN m1 /\ (DeleteQueue(t) \/ RemoveQueue(t))
                /\ k.name = n /\ n \in DOMAIN queues[k.e] /\ queues[k.e][n] = m[n]
             \/ /\ n \notin DOMAIN m /\ n \in DOMAIN m1 /\ m1[n] = Len(objs) + 1
                /\ RegisterInExchange(t) /\ ~Leave(t) /\ call'[t].q = Len(objs) + 1
                /\ k.name = n /\ n \notin DOMAIN queues[k.e] /\ Accepted(k.request)
  <1> DEFINE m == Map(exchange, queues)
             m1 == Map(exchange', queues')
             k == call[t]
  <1>1. Frame
    BY Effect
  <1>2. IInv'
    BY NextInv DEF Next, Step
  <1>3. CASE n \in DOMAIN m1 /\ m1[n] # Len(objs) + 1
    <2>1. n \in DOMAIN m /\ m1[n] = m[n]
      BY <1>1, <1>3, MapChanges
    <2> QED
      BY <1>3, <2>1
  <1>4. CASE n \in DOMAIN m1 /\ m1[n] = Len(objs) + 1
    <2>1. exchange' # 0 /\ m1 = queues'[exchange']
      BY <1>4 DEF Map, EmptyMap
    <2>2. exchange' \in DOMAIN queues' /\ m1[n] \in DOMAIN objs'
      <3>1. exchange' \in 0..Len(queues') /\ queues' \in Seq(Maps)
        BY <1>2 DEF IInv, Memory
      <3>2. exchange' \in DOMAIN queues'
        BY <2>1, <3>1, LenProperties
      <3>3. \A e \in DOMAIN queues' : \A x \in DOMAIN queues'[e] : queues'[e][x] \in DOMAIN objs'
        BY <1>2 DEF IInv, Memory
      <3> QED
        BY <1>4, <2>1, <3>2, <3>3
    <2>3. Len(objs) + 1 \notin DOMAIN objs /\ Len(objs) \in Nat
      BY Pointers
    <2>4. DOMAIN objs' # DOMAIN objs
      BY <1>4, <2>2, <2>3
    <2>5. RegisterInExchange(t) /\ ~Leave(t)
      <3>1. ~UNCHANGED objs
        BY <2>4
      <3>2. ~AddConsumer(t)
        BY <2>4, Pointers DEF AddConsumer
      <3>3. ~DisconnectConsumer(t)
        BY <2>4, Pointers DEF DisconnectConsumer
      <3>4. \A x : ~EnqueueDelivery(t, x)
        BY <2>4, Pointers DEF EnqueueDelivery
      <3>5. RegisterInExchange(t)
        BY <3>1, <3>2, <3>3, <3>4, Zenon
           DEF Step, ExchangeCall, QueueCall, ConsumerCall, PublishCall, CreateExchange,
           SaveExchange, DeleteExchange, HasActiveConsumers, AskQueue, RemoveExchange,
           DeleteExchangeRow, RegisterQueue, SaveQueue, LookUp, GetQueue, DeleteIfUnused, Publish,
           DeleteQueue, DeleteQueueRow, RemoveQueue, Route, SaveReadyDelivery, DeliverTransient,
           DeliverSaved, PublishDone, Return, StatementFails, AnswerLost, memory
      <3>6. Leave(t) => UNCHANGED objs
        <4>1. SUFFICES ASSUME Leave(t) PROVE \A q, d : ~Registered(t, q, d)
          BY <3>5 DEF RegisterInExchange
        <4>2. call[t].op = "RegisterQueue"
          BY <3>5 DEF RegisterInExchange, At
        <4> QED
          BY <4>1, <4>2, LeftCall, RegisteredCall, IdleFields
      <3> QED
        BY <3>1, <3>5, <3>6
    <2>6. /\ k.name \notin DOMAIN queues[k.e] /\ Accepted(k.request) /\ call'[t].q = Len(objs) + 1
          /\ objs' = Append(objs, NewQueueOf(k.request))
          /\ queues' = [queues EXCEPT ![k.e] = Put(@, k.name, Len(objs) + 1)]
          /\ k.e \in DOMAIN queues /\ k.name \in QueueNames /\ k.request \in Requests
      BY <2>4, <2>5, RegisteredHow
    <2>7. exchange' = exchange
      BY <2>5 DEF RegisterInExchange
    <2>8. /\ \A f \in DOMAIN queues \ {k.e} : queues'[f] = queues[f]
          /\ DOMAIN queues' = DOMAIN queues
          /\ DOMAIN queues'[k.e] = DOMAIN queues[k.e] \cup {k.name}
          /\ \A x \in DOMAIN queues[k.e] \ {k.name} : queues'[k.e][x] = queues[k.e][x]
      BY <2>6, <2>7, NewRegistration, ZenonT(30)
    <2>9. \A e \in DOMAIN queues : \A x \in DOMAIN queues[e] : queues[e][x] # Len(objs) + 1
      BY <2>3, Pointers
    <2> HIDE DEF k
    <2>10. exchange = k.e /\ n = k.name
      <3>1. exchange = k.e
        BY <1>4, <2>1, <2>2, <2>7, <2>8, <2>9
      <3> QED
        BY <1>4, <2>1, <2>2, <2>7, <2>8, <2>9, <3>1
    <2>11. n \notin DOMAIN m
      BY <2>1, <2>6, <2>7, <2>10 DEF Map
    <2> QED
      BY <1>4, <2>5, <2>6, <2>10, <2>11 DEF k
  <1>5. CASE n \notin DOMAIN m1 /\ n \in DOMAIN m
    <2>1. exchange # 0 /\ exchange \in DOMAIN queues /\ m = queues[exchange]
      BY <1>5, CurrentMap
    <2>2. CASE exchange' # exchange
      BY <1>5, <2>1, <2>2, ExchangeChanges
    <2>3. CASE exchange' = exchange
      <3>1. n \notin DOMAIN queues'[exchange]
        BY <1>5, <2>1, <2>3 DEF Map
      <3>2. DeleteQueue(t) \/ RemoveQueue(t)
        BY <1>5, <2>1, <3>1, NamesLeave
      <3>3. /\ k.op \in {"DeleteQueue", "DisconnectConsumer"} /\ UNCHANGED <<exchange, objs>>
            /\ UNCHANGED queues \/ RemoveName(k.e, k.name)
        BY <3>2 DEF DeleteQueue, RemoveQueue, At
      <3>4. RemoveName(k.e, k.name) /\ k.e \in DOMAIN queues
        BY <1>5, <2>1, <3>1, <3>3, Argued
      <3>5. exchange = k.e /\ n = k.name
        BY <1>5, <2>1, <3>1, <3>3, <3>4, NameRemoved
      <3> QED
        BY <1>5, <2>1, <3>2, <3>5
    <2> QED
      BY <2>2, <2>3
  <1> QED
    BY <1>3, <1>4, <1>5

\* A name that is not overtaken was not before, nor by this step.
LEMMA NotOvertaken ==
  ASSUME IInv, Histories, NEW t \in Calls, Step(t), call'[t] # call[t],
         NEW n \in QueueNames, n \notin overtaken'
  PROVE  n \notin overtaken /\ ~Overtakes(t, n)
  <1>1. Moves(t)
    BY StaysUp DEF Moves
  <1>2. overtaken' = overtaken \cup {x \in QueueNames : \E u \in Calls : Moves(u) /\ Overtakes(u, x)}
    BY DEF Histories
  <1> QED
    BY <1>1, <1>2

\* The call that is about to delete a row does that, or fails.
LEMMA DoomedSteps ==
  ASSUME IInv, NEW t \in Calls, Step(t)
  PROVE  /\ ExchangeDoomed(call[t]) => DeleteExchangeRow(t) \/ StatementFails(t)
         /\ call[t].op = "DeleteQueue" /\ call[t].pc = "DeleteQueueRow"
              => DeleteQueueRow(t) \/ StatementFails(t)
         /\ call[t].op = "CreateExchange" => SaveExchange(t) \/ StatementFails(t)
  <1>1. call[t].op # "none" => call[t] # Idle
    BY IdleFields
  <1>2. call[t].op = "CreateExchange" => call[t].pc = "SaveExchange"
    BY IdleFields, Running DEF Placed
  <1>3. SUFFICES ASSUME \/ call[t].op = "DeleteExchange" /\ call[t].pc = "DeleteExchangeRow"
                        \/ call[t].op = "DeleteQueue" /\ call[t].pc = "DeleteQueueRow"
                        \/ call[t].op = "CreateExchange" /\ call[t].pc = "SaveExchange"
                 PROVE  \/ DeleteExchangeRow(t) \/ DeleteQueueRow(t) \/ SaveExchange(t)
                        \/ StatementFails(t)
    BY <1>2 DEF ExchangeDoomed, DeleteExchangeRow, DeleteQueueRow, SaveExchange, At
  <1>4. ExchangeCall(t) => DeleteExchangeRow(t) \/ SaveExchange(t)
    BY <1>1, <1>3 DEF ExchangeCall, CreateExchange, DeleteExchange, GetExchange,
       HasActiveConsumers, AskQueue, RemoveExchange, At
  <1>5. QueueCall(t) => DeleteQueueRow(t)
    BY <1>1, <1>3, Zenon DEF QueueCall, RegisterQueue, RegisterInExchange, SaveQueue, LookUp, GetQueue,
       DeleteQueue, GetExchange, At
  <1>6. ~PublishCall(t)
    BY <1>1, <1>3, ZenonT(30) DEF PublishCall, Publish, Route, DeliverTransient, SaveReadyDelivery,
       DeliverSaved, NextItem, PublishDone, GetExchange, At
  <1>7. ~ConsumerCall(t)
    BY <1>1, <1>3, Zenon DEF ConsumerCall, LookUp, AddConsumer, DisconnectConsumer, DeleteIfUnused,
       RemoveQueue, GetExchange, At
  <1>8. ~Return(t) /\ ~AnswerLost(t)
    BY <1>3 DEF Return, AnswerLost, NextItem, At
  <1> QED
    BY <1>4, <1>5, <1>6, <1>7, <1>8 DEF Step

\* The call that is about to delete the row of n is still there when n was not
\* overtaken and the row is still there.
LEMMA DoomedStays ==
  ASSUME IInv, Histories, faults \in Nat, NEW t \in Calls, Step(t),
         NEW n \in QueueNames, n \notin overtaken', NEW u \in Calls, Doomed(call[u], n), n \in DOMAIN qRows'
  PROVE  Doomed(call'[u], n)
  <1>1. CASE u # t
    BY <1>1, OthersStay
  <1>2. CASE u = t
    <2>1. CASE StatementFails(t)
      <3>1. call'[t] = Idle /\ call[t].op # "none"
        BY <1>2, <2>1, Ops DEF Doomed, ExchangeDoomed
      <3>2. ~Overtakes(t, n)
        BY <3>1, IdleFields, NotOvertaken
      <3>3. faults' # faults
        BY <2>1 DEF StatementFails
      <3> QED
        BY <1>2, <3>2, <3>3 DEF Overtakes, DeletedLate, ExchangeDeletedLate, Fails, At, Doomed,
           ExchangeDoomed
    <2>2. CASE DeleteExchangeRow(t)
      BY <2>2 DEF DeleteExchangeRow, EmptyMap
    <2>3. CASE DeleteQueueRow(t)
      <3>1. qRows' = Delete(qRows, {call[t].name}) /\ call[t].name = n
        BY <1>2, <2>3 DEF DeleteQueueRow, At, Doomed, ExchangeDoomed
      <3> QED
        BY <3>1 DEF Delete, Restrict
    <2> QED
      BY <1>2, <2>1, <2>2, <2>3, DoomedSteps DEF Doomed
  <1> QED
    BY <1>1, <1>2

\* Failing statements are counted.
LEMMA FaultsNext ==
  ASSUME faults \in Nat, [Next]_vars
  PROVE  faults' \in Nat
  <1>1. CASE UNCHANGED vars \/ Crash \/ Restore
    <2>1. UNCHANGED faults
      BY <1>1 DEF vars, bounds, Crash, Restore
    <2> QED
      BY <2>1
  <1>2. ASSUME NEW t \in Calls, Step(t) PROVE faults' \in Nat
    <2>1. UNCHANGED faults \/ faults' = faults + 1
      BY <1>2, Zenon DEF Step, ExchangeCall, QueueCall, ConsumerCall, PublishCall, CreateExchange,
         SaveExchange, DeleteExchange, HasActiveConsumers, AskQueue, RemoveExchange,
         DeleteExchangeRow, RegisterInExchange, RegisterQueue, SaveQueue, LookUp, GetQueue,
         DeleteIfUnused, Publish, DeleteQueue, DeleteQueueRow, RemoveQueue, Route,
         SaveReadyDelivery, DeliverTransient, DeliverSaved, EnqueueDelivery, AddConsumer,
         DisconnectConsumer, PublishDone, Return, StatementFails, AnswerLost, bounds
    <2> QED
      BY <2>1
  <1> QED
    BY <1>1, <1>2 DEF Next, Step

\* The queues that calls hold.
LEMMA HeldNext ==
  ASSUME IInv, \A u \in Calls : Held(call[u], objs), NEW t \in Calls, Step(t), NEW u \in Calls
  PROVE  Held(call'[u], objs')
  <1>1. Frame
    BY Effect
  <1>2. CASE u # t
    <2> DEFINE k == call[u]
    <2>1. call'[u] = k
      BY <1>2, OthersStay
    <2>2. k.op \in {"RegisterQueue", "DisconnectConsumer"} /\ k.pc \in {"SaveQueue", "HasConsumers",
             "RemoveQueue"} => k.q \in DOMAIN objs
      BY Argued
    <2>3. k.q \in DOMAIN objs => /\ objs'[k.q].IsDurable = objs[k.q].IsDurable
                                 /\ objs'[k.q].IsAutoDelete = objs[k.q].IsAutoDelete
      BY <1>1 DEF Frame, Same
    <2>4. Held(k, objs)
      OBVIOUS
    <2> HIDE DEF k
    <2> QED
      BY <2>1, <2>2, <2>3, <2>4 DEF Held
  <1>3. CASE u = t
    <2> DEFINE k == call[t]
               k1 == call'[t]
    <2>1. ASSUME k1.op = "RegisterQueue", k1.pc = "SaveQueue" PROVE objs'[k1.q].IsDurable
      <3>1. CASE SaveQueue(t)
        BY <2>1, <3>1, LeftCall, GotoCall, IdleFields DEF SaveQueue
      <3>2. CASE RegisterInExchange(t)
        <4>1. ~Leave(t)
          BY <2>1, LeftCall, IdleFields
        <4>2. k1.pc = (IF k.request.IsDurable THEN "SaveQueue" ELSE "Return")
              /\ objs'[k1.q].IsDurable = k.request.IsDurable
          BY <3>2, <4>1, RegisteredHow
        <4> QED
          BY <2>1, <4>2
      <3> QED
        BY <2>1, <3>1, <3>2, RegisteringOnly
    <2>2. ASSUME k1.op = "DisconnectConsumer", k1.pc \in {"HasConsumers", "RemoveQueue"}
          PROVE  objs'[k1.q].IsAutoDelete
      <3>1. ~Leave(t)
        BY <2>2, LeftCall, IdleFields
      <3>2. ~GetQueue(t)
        BY <2>2, FoundCall, IdleFields
      <3>3. /\ k.op = "DisconnectConsumer" /\ k.pc \in {"DisconnectConsumer", "HasConsumers"}
            /\ \/ k.pc = "DisconnectConsumer" /\ objs[k.q].IsAutoDelete /\ Goto(t, "HasConsumers")
               \/ k.pc = "HasConsumers" /\ Goto(t, "RemoveQueue")
        BY <2>2, <3>1, <3>2, LeavingOnly DEF DisconnectConsumer, DeleteIfUnused, At
      <3>4. k1.q = k.q /\ objs[k.q].IsAutoDelete
        BY <3>3, GotoCall DEF Held
      <3>5. k.q \in DOMAIN objs
        BY <3>3, Argued
      <3> QED
        BY <1>1, <3>4, <3>5 DEF Frame, Same
    <2>3. ASSUME k1.op = "Publish" PROVE k1.q = 0
      <3>1. PublishCall(t) /\ k1 # Idle
        BY <2>3, NotPublishing, IdleFields DEF Step
      <3>2. k.op = "Publish" => k.q = 0
        BY DEF Held
      <3>3. CASE \E key \in Keys : Publish(t, key)
        BY <3>3, PublishFields
      <3>4. CASE Route(t)
        BY <3>1, <3>2, <3>4, RouteCall, Zenon DEF Route, At
      <3>5. CASE PublishDone(t)
        BY <3>2, <3>5, GotoCall DEF PublishDone, At
      <3>6. CASE \E n \in QueueNames :
                    DeliverTransient(t, n) \/ SaveReadyDelivery(t, n) \/ DeliverSaved(t, n)
        BY <3>1, <3>2, <3>6, DeliverCall
      <3> QED
        BY <3>1, <3>3, <3>4, <3>5, <3>6 DEF PublishCall
    <2> HIDE DEF k1
    <2> QED
      BY <1>3, <2>1, <2>2, <2>3 DEF Held, k1
  <1> QED
    BY <1>2, <1>3

\* The row that SaveQueue leaves is the queue's.
LEMMA SavedRowOf ==
  ASSUME NEW row \in Row, NEW q \in Obj, RowOf(row, q)
  PROVE  RowOf([row EXCEPT !.Filters = @ \cup Range(q.Filters)], q)
  <1> DEFINE F == Range(q.Filters)
             F1 == row.Filters \cup F
             row1 == [row EXCEPT !.Filters = F1]
  <1>1. row.Filters = F
    BY DEF RowOf
  <1>2. F1 = F
    BY <1>1
  <1> HIDE DEF F, F1
  <1>3. /\ row1.IsDurable = row.IsDurable /\ row1.IsAutoDelete = row.IsAutoDelete
        /\ row1.MaxAttempts = row.MaxAttempts /\ row1.Filters = F1
    BY DEF Row
  <1>4. row1 = [row EXCEPT !.Filters = @ \cup F]
    BY DEF F1
  <1> HIDE DEF row1
  <1>5. RowOf(row1, q)
    BY <1>2, <1>3 DEF RowOf, F
  <1> QED
    BY <1>4, <1>5 DEF F

\* What the statement of SaveQueue leaves in the tables.
LEMMA SavedFor ==
  ASSUME IInv, exRow, NEW t \in Calls, At(t, "RegisterQueue", "SaveQueue"), Held(call[t], objs),
         qRows' = SavedQueue(qRows, call[t].name, objs[call[t].q])
  PROVE  LET n == call[t].name
             q == objs[call[t].q]
         IN  /\ n \in QueueNames /\ DOMAIN qRows' = DOMAIN qRows \cup {n}
             /\ \A x \in DOMAIN qRows \ {n} : qRows'[x] = qRows[x]
             /\ (n \in DOMAIN qRows => RowOf(qRows[n], q)) => RowOf(qRows'[n], q)
             /\ n \in DOMAIN qRows => /\ qRows'[n].IsDurable = qRows[n].IsDurable
                                      /\ qRows[n].Filters \subseteq qRows'[n].Filters
             /\ n \notin DOMAIN qRows => qRows'[n].IsDurable
  <1> DEFINE n == call[t].name
             q == objs[call[t].q]
             rows == SavedQueue(qRows, n, q)
  <1>1. call[t].op = "RegisterQueue" /\ call[t].pc = "SaveQueue"
    BY DEF At
  <1>2. n \in QueueNames /\ call[t].q \in DOMAIN objs
    BY <1>1, Argued
  <1>3. q \in Obj /\ SaneObj(q) /\ q.IsDurable
    BY <1>1, <1>2, Pointers DEF Held
  <1>4. Tables(exRow, qRows, dRows) /\ \A x \in DOMAIN qRows : qRows[x] \in Row
    BY DEF IInv, Tables
  <1>5. qRows' = rows
    OBVIOUS
  <1> HIDE DEF n, q
  <1>6. /\ DOMAIN rows = DOMAIN qRows \cup {n}
        /\ \A x \in DOMAIN qRows \ {n} : rows[x] = qRows[x]
    BY <1>2, <1>3, <1>4, SavedRows
  <1>7. CASE n \in DOMAIN qRows
    <2> DEFINE F == qRows[n].Filters \cup Range(q.Filters)
    <2>1. rows[n] = [qRows[n] EXCEPT !.Filters = @ \cup Range(q.Filters)]
      BY <1>2, <1>3, <1>4, <1>7, SavedRows
    <2>2. qRows[n] \in Row /\ qRows[n].Filters \subseteq F
      BY <1>4, <1>7
    <2>3. RowOf(qRows[n], q) => RowOf(rows[n], q)
      BY <1>3, <2>1, <2>2, SavedRowOf
    <2>4. rows[n] = [qRows[n] EXCEPT !.Filters = F]
      BY <2>1
    <2> HIDE DEF F, rows
    <2>5. rows[n].IsDurable = qRows[n].IsDurable /\ rows[n].Filters = F
      BY <2>2, <2>4 DEF Row
    <2> QED
      BY <1>2, <1>5, <1>6, <1>7, <2>2, <2>3, <2>5 DEF n, q
  <1>8. CASE n \notin DOMAIN qRows
    <2>1. rows[n] = [IsDurable |-> q.IsDurable, IsAutoDelete |-> q.IsAutoDelete,
                     MaxAttempts |-> q.MaxAttempts, Filters |-> Range(q.Filters)]
      BY <1>2, <1>3, <1>4, <1>8, SavedRows, ZenonT(60)
    <2> HIDE DEF rows
    <2>2. RowOf(rows[n], q) /\ rows[n].IsDurable
      BY <1>3, <2>1 DEF RowOf
    <2> QED
      BY <1>2, <1>5, <1>6, <1>8, <2>2 DEF n, q
  <1> QED
    BY <1>7, <1>8

\* The rows are durable queues.
LEMMA DurableNext ==
  ASSUME IInv, \A u \in Calls : Held(call[u], objs), DurableRows(qRows), NEW t \in Calls, Step(t)
  PROVE  DurableRows(qRows')
  <1>1. CASE UNCHANGED qRows
    BY <1>1 DEF DurableRows
  <1>2. CASE DeleteExchangeRow(t) \/ DeleteQueueRow(t)
    <2>1. /\ DOMAIN qRows' \subseteq DOMAIN qRows
          /\ \A x \in DOMAIN qRows' : qRows'[x] = qRows[x]
      BY <1>2 DEF DeleteExchangeRow, DeleteQueueRow, EmptyMap, Delete, Restrict
    <2> QED
      BY <2>1 DEF DurableRows
  <1>3. CASE /\ At(t, "RegisterQueue", "SaveQueue") /\ exRow
             /\ qRows' = SavedQueue(qRows, call[t].name, objs[call[t].q])
    <2> DEFINE n == call[t].name
    <2>1. /\ DOMAIN qRows' = DOMAIN qRows \cup {n}
          /\ \A x \in DOMAIN qRows \ {n} : qRows'[x] = qRows[x]
          /\ n \in DOMAIN qRows => qRows'[n].IsDurable = qRows[n].IsDurable
          /\ n \notin DOMAIN qRows => qRows'[n].IsDurable
      BY <1>3, SavedFor
    <2> HIDE DEF n
    <2> QED
      BY <2>1 DEF DurableRows
  <1> QED
    BY <1>1, <1>2, <1>3, RowChanges

\* The row of n is not touched.
LEMMA RowKept ==
  ASSUME IInv, faults \in Nat, \A u \in Calls : Held(call[u], objs), Histories,
         NEW t \in Calls, Step(t), NEW n \in QueueNames, n \notin overtaken',
         RowFits(n, Map(exchange, queues), objs, qRows, call),
         n \in DOMAIN qRows, n \in DOMAIN qRows', qRows'[n] = qRows[n]
  PROVE  RowFits(n, Map(exchange', queues'), objs', qRows', call')
  <1> DEFINE m == Map(exchange, queues)
             m1 == Map(exchange', queues')
             k == call[t]
  <1>1. Frame /\ \A x \in DOMAIN m : m[x] \in DOMAIN objs
    BY Effect, CurrentMap
  <1>2. \/ n \in DOMAIN m /\ RowOf(qRows[n], objs[m[n]])
        \/ n \notin DOMAIN m /\ \E u \in Calls : Doomed(call[u], n)
    BY DEF RowFits
  <1>3. CASE (n \in DOMAIN m1 <=> n \in DOMAIN m) /\ (n \in DOMAIN m => m1[n] = m[n])
    <2>1. CASE n \in DOMAIN m
      <3>1. Same(objs[m[n]], objs'[m[n]]) /\ RowOf(qRows[n], objs[m[n]])
        BY <1>1, <1>2, <2>1 DEF Frame
      <3>2. RowOf(qRows'[n], objs'[m[n]])
        BY <3>1 DEF RowOf, Same
      <3> HIDE DEF m, m1
      <3> QED
        BY <1>3, <2>1, <3>2 DEF RowFits, m1
    <2>2. CASE n \notin DOMAIN m
      <3>1. PICK u \in Calls : Doomed(call[u], n)
        BY <1>2, <2>2
      <3>2. Doomed(call'[u], n)
        BY <3>1, DoomedStays
      <3> HIDE DEF m, m1
      <3> QED
        BY <1>3, <2>2, <3>2 DEF RowFits, m1
    <2> QED
      BY <2>1, <2>2
  <1>4. CASE n \in DOMAIN m /\ n \notin DOMAIN m1 /\ RemoveExchange(t) /\ exchange # 0
    <2>1. Goto(t, "DeleteExchangeRow") /\ k.op = "DeleteExchange"
      BY <1>4 DEF RemoveExchange, At
    <2>2. Doomed(call'[t], n)
      BY <2>1, GotoCall DEF Doomed, ExchangeDoomed
    <2> HIDE DEF m, m1
    <2> QED
      BY <1>4, <2>2 DEF RowFits, m1
  <1>5. CASE /\ n \in DOMAIN m /\ n \notin DOMAIN m1 /\ (DeleteQueue(t) \/ RemoveQueue(t))
             /\ k.name = n /\ n \in DOMAIN queues[k.e] /\ queues[k.e][n] = m[n]
    <2>1. RowOf(qRows[n], objs[m[n]])
      BY <1>2, <1>5
    <2>2. /\ At(t, "DeleteQueue", "DeleteQueue") \/ At(t, "DisconnectConsumer", "RemoveQueue")
          /\ DeleteQueue(t) => k.op = "DeleteQueue" /\ k.pc = "DeleteQueue"
          /\ RemoveQueue(t) => k.op = "DisconnectConsumer" /\ k.pc = "RemoveQueue" /\ Leave(t)
      BY <1>5 DEF DeleteQueue, RemoveQueue, At
    <2>3. DeleteQueue(t) => Leave(t) \/ Goto(t, "DeleteQueueRow")
      BY DEF DeleteQueue
    <2>4. call'[t] # call[t]
      BY <1>5, <2>2, <2>3, LeftCall, GotoCall, IdleFields
    <2>5. ~OtherRemoved(t, n)
      BY <2>4, NotOvertaken DEF Overtakes
    <2>6. m[n] = k.q
      BY <1>5, <2>2, <2>5 DEF OtherRemoved
    <2>7. objs[k.q].IsDurable
      BY <2>1, <2>6 DEF RowOf
    <2>8. CASE DeleteQueue(t)
      <3>1. Goto(t, "DeleteQueueRow")
        <4>1. queues' # queues \/ exchange' # exchange
          BY <1>5
        <4> QED
          BY <2>7, <2>8, <4>1 DEF DeleteQueue
      <3>2. Doomed(call'[t], n)
        BY <1>5, <2>2, <2>8, <3>1, GotoCall DEF Doomed
      <3> HIDE DEF m, m1
      <3> QED
        BY <1>5, <3>2 DEF RowFits, m1
    <2>9. CASE RemoveQueue(t)
      <3>1. objs[k.q].IsAutoDelete
        BY <2>2, <2>9 DEF Held
      <3>2. SaneObj(objs[k.q])
        BY <1>1, <1>5, <2>6, Pointers
      <3> QED
        BY <2>7, <3>1, <3>2 DEF SaneObj
    <2> QED
      BY <1>5, <2>8, <2>9
  <1>6. CASE /\ n \notin DOMAIN m /\ n \in DOMAIN m1 /\ m1[n] = Len(objs) + 1
             /\ RegisterInExchange(t) /\ ~Leave(t) /\ call'[t].q = Len(objs) + 1
             /\ k.name = n /\ n \notin DOMAIN queues[k.e] /\ Accepted(k.request)
    <2>1. At(t, "RegisterQueue", "RegisterQueue")
      BY <1>6 DEF RegisterInExchange
    <2>2. call'[t] # call[t]
      BY <1>6, <2>1, RegisteredHow DEF At
    <2>3. ~RowLeft(t, n)
      BY <2>2, NotOvertaken DEF Overtakes
    <2> QED
      BY <1>6, <2>1, <2>3 DEF RowLeft
  <1> HIDE DEF m, m1, k
  <1>7. \/ (n \in DOMAIN m1 <=> n \in DOMAIN m) /\ (n \in DOMAIN m => m1[n] = m[n])
        \/ n \in DOMAIN m /\ n \notin DOMAIN m1 /\ RemoveExchange(t) /\ exchange # 0
        \/ /\ n \in DOMAIN m /\ n \notin DOMAIN m1 /\ (DeleteQueue(t) \/ RemoveQueue(t))
           /\ k.name = n /\ n \in DOMAIN queues[k.e] /\ queues[k.e][n] = m[n]
        \/ /\ n \notin DOMAIN m /\ n \in DOMAIN m1 /\ m1[n] = Len(objs) + 1
           /\ RegisterInExchange(t) /\ ~Leave(t) /\ call'[t].q = Len(objs) + 1
           /\ k.name = n /\ n \notin DOMAIN queues[k.e] /\ Accepted(k.request)
    BY NameChanges, Zenon DEF m, m1, k
  <1> QED
    BY <1>3, <1>4, <1>5, <1>6, <1>7

\* A row stays that of the queue that has the name.
LEMMA RowFitsNext ==
  ASSUME IInv, faults \in Nat, \A u \in Calls : Held(call[u], objs), Histories,
         NEW t \in Calls, Step(t), NEW n \in QueueNames, n \notin overtaken',
         RowFits(n, Map(exchange, queues), objs, qRows, call)
  PROVE  RowFits(n, Map(exchange', queues'), objs', qRows', call')
  <1>1. SUFFICES ASSUME n \in DOMAIN qRows'
                 PROVE  RowFits(n, Map(exchange', queues'), objs', qRows', call')
    BY DEF RowFits
  <1>2. CASE UNCHANGED qRows
    BY <1>1, <1>2, RowKept
  <1>3. CASE DeleteExchangeRow(t)
    BY <1>1, <1>3 DEF DeleteExchangeRow, EmptyMap
  <1>4. CASE DeleteQueueRow(t)
    <2>1. n \in DOMAIN qRows /\ qRows'[n] = qRows[n]
      BY <1>1, <1>4 DEF DeleteQueueRow, Delete, Restrict
    <2> QED
      BY <1>1, <2>1, RowKept
  <1>5. CASE /\ At(t, "RegisterQueue", "SaveQueue") /\ exRow
             /\ qRows' = SavedQueue(qRows, call[t].name, objs[call[t].q])
             /\ Goto(t, "Return") \/ Leave(t)
             /\ UNCHANGED <<exchange, queues, objs, exRow, dRows, published, confirmed>>
    <2> DEFINE k == call[t]
               q == objs[k.q]
    <2>1. /\ DOMAIN qRows' = DOMAIN qRows \cup {k.name}
          /\ \A x \in DOMAIN qRows \ {k.name} : qRows'[x] = qRows[x]
          /\ (k.name \in DOMAIN qRows => RowOf(qRows[k.name], q)) => RowOf(qRows'[k.name], q)
      BY <1>5, SavedFor
    <2>2. CASE n # k.name
      <3>1. n \in DOMAIN qRows /\ qRows'[n] = qRows[n]
        BY <1>1, <2>1, <2>2
      <3> QED
        BY <1>1, <3>1, RowKept
    <2>3. CASE n = k.name
      <3>1. call'[t] # call[t]
        BY <1>5, LeftCall, GotoCall, IdleFields DEF At
      <3>2. ~SavedLate(t, n)
        BY <3>1, NotOvertaken DEF Overtakes
      <3>3. n \in DOMAIN Map(exchange, queues) /\ Map(exchange, queues)[n] = k.q
        BY <1>5, <2>3, <3>2, CurrentMap DEF SavedLate, Has
      <3>4. n \in DOMAIN qRows => RowOf(qRows[n], q)
        BY <3>3 DEF RowFits
      <3>5. RowOf(qRows'[n], q)
        BY <2>1, <2>3, <3>4
      <3> QED
        BY <1>5, <3>3, <3>5 DEF RowFits
    <2> QED
      BY <2>2, <2>3
  <1> QED
    BY <1>2, <1>3, <1>4, <1>5, RowChanges

\* What a step adds to the registrations that were confirmed.
LEMMA ConfirmedHow ==
  ASSUME IInv, \A u \in Calls : Held(call[u], objs), NEW t \in Calls, Step(t),
         NEW q \in confirmed', q \notin confirmed
  PROVE  Returns(call[t], q)
  <1>1. Return(t)
    BY Zenon DEF Step, ExchangeCall, QueueCall, ConsumerCall, PublishCall, CreateExchange,
       SaveExchange, DeleteExchange, HasActiveConsumers, AskQueue, RemoveExchange,
       DeleteExchangeRow, RegisterInExchange, RegisterQueue, SaveQueue, LookUp, GetQueue,
       DeleteIfUnused, Publish, DeleteQueue, DeleteQueueRow, RemoveQueue, Route,
       SaveReadyDelivery, DeliverTransient, DeliverSaved, EnqueueDelivery, AddConsumer,
       DisconnectConsumer, PublishDone, StatementFails, AnswerLost, history
  <1>2. call[t].pc = "Return" /\ call[t].q = q /\ q # 0
    BY <1>1 DEF Return
  <1>3. call[t].op \in {"RegisterQueue", "Publish"}
    BY <1>2, Running, IdleFields DEF Placed
  <1>4. call[t].op # "Publish"
    BY <1>2 DEF Held
  <1> QED
    BY <1>2, <1>3, <1>4 DEF Returns

\* A durable queue is returned after it was saved.
LEMMA ReturnsHow ==
  ASSUME IInv, UInv, NEW t \in Calls, Step(t), NEW n \in DOMAIN Map(exchange', queues'),
         NEW q, q = Map(exchange', queues')[n], objs'[q].IsDurable, NEW u \in Calls, Returns(call'[u], q)
  PROVE  Returns(call[u], q) \/ n \in DOMAIN qRows'
  <1>1. CASE u # t
    BY <1>1, OthersStay
  <1>2. CASE u = t
    <2>1. call'[t].op = "RegisterQueue" /\ call'[t].pc = "Return" /\ call'[t].q = q
      BY <1>2 DEF Returns
    <2>2. ~Leave(t)
      BY <2>1, LeftCall, IdleFields
    <2>3. ~RegisterInExchange(t)
      <3>1. ASSUME RegisterInExchange(t) PROVE FALSE
        <4>1. /\ call'[t].pc = (IF call[t].request.IsDurable THEN "SaveQueue" ELSE "Return")
              /\ objs'[call'[t].q].IsDurable = call[t].request.IsDurable
          BY <2>2, <3>1, RegisteredHow
        <4> QED
          BY <2>1, <4>1
      <3> QED
        BY <3>1
    <2>4. SaveQueue(t)
      BY <2>1, <2>3, RegisteringOnly
    <2>5. /\ At(t, "RegisterQueue", "SaveQueue") /\ exRow /\ Goto(t, "Return")
          /\ qRows' = SavedQueue(qRows, call[t].name, objs[call[t].q])
          /\ UNCHANGED <<exchange, queues, objs>>
      BY <2>2, <2>4 DEF SaveQueue, memory
    <2>6. call[t].q = q
      BY <2>1, <2>5, GotoCall
    <2>7. n = call[t].name
      <3>1. n \in DOMAIN Map(exchange, queues) /\ q = Map(exchange, queues)[n]
        BY <2>5
      <3>2. exchange \in DOMAIN queues /\ Map(exchange, queues) = queues[exchange]
        BY <3>1, CurrentMap
      <3> QED
        BY <2>6, <3>1, <3>2 DEF UInv, HeldUnder
    <2>8. n \in DOMAIN qRows'
      BY <2>5, <2>7 DEF SavedQueue, Put
    <2> QED
      BY <2>8
  <1> QED
    BY <1>1, <1>2

\* A queue that was promised keeps its row.
LEMMA RowThereNext ==
  ASSUME IInv, UInv, \A u \in Calls : Held(call[u], objs), Histories,
         NEW t \in Calls, Step(t), NEW n \in QueueNames, n \notin overtaken',
         RowThere(n, Map(exchange, queues), objs, qRows, call, confirmed)
  PROVE  RowThere(n, Map(exchange', queues'), objs', qRows', call', confirmed')
  <1> DEFINE m == Map(exchange, queues)
             m1 == Map(exchange', queues')
             q == m1[n]
  <1>1. SUFFICES ASSUME n \in DOMAIN m1, objs'[q].IsDurable, n \notin DOMAIN qRows',
                        q \in confirmed' \/ \E u \in Calls : Returns(call'[u], q)
                 PROVE  FALSE
    BY DEF RowThere
  <1>2. q \in confirmed \/ \E u \in Calls : Returns(call[u], q)
    <2>1. PICK y : y = q
      BY Zenon
    <2>2. CASE q \in confirmed'
      BY <2>2, ConfirmedHow
    <2>3. ASSUME NEW u \in Calls, Returns(call'[u], q) PROVE Returns(call[u], q)
      BY <1>1, <2>1, <2>3, ReturnsHow
    <2> QED
      BY <1>1, <2>2, <2>3
  <1>3. q \in DOMAIN objs
    <2>1. confirmed \subseteq DOMAIN objs
      BY DEF IInv, History
    <2>2. \A u \in Calls : Returns(call[u], q) => q \in DOMAIN objs
      BY Argued DEF Returns
    <2> QED
      BY <1>2, <2>1, <2>2
  <1>4. q # Len(objs) + 1
    BY <1>3, Pointers
  <1>5. exchange # 0 /\ n \in DOMAIN m /\ q = m[n]
    BY <1>1, <1>4, Effect, MapChanges
  <1>6. objs[m[n]].IsDurable
    BY <1>1, <1>3, <1>5, Effect DEF Frame, Same
  <1> HIDE DEF m, m1, q
  <1>7. n \in DOMAIN qRows
    BY <1>2, <1>5, <1>6 DEF RowThere, m
  <1>8. CASE UNCHANGED qRows
    BY <1>1, <1>7, <1>8
  <1>9. CASE DeleteExchangeRow(t)
    <2>1. At(t, "DeleteExchange", "DeleteExchangeRow") /\ Leave(t)
      BY <1>9 DEF DeleteExchangeRow
    <2>2. call'[t] # call[t]
      BY <2>1, LeftCall, IdleFields DEF At
    <2> QED
      BY <1>5, <2>1, <2>2, NotOvertaken DEF Overtakes, ExchangeDeletedLate
  <1>10. CASE DeleteQueueRow(t)
    <2>1. At(t, "DeleteQueue", "DeleteQueueRow") /\ Leave(t)
      BY <1>10 DEF DeleteQueueRow
    <2>2. call'[t] # call[t]
      BY <2>1, LeftCall, IdleFields DEF At
    <2>3. call[t].name = n
      BY <1>1, <1>7, <1>10 DEF DeleteQueueRow, Delete, Restrict
    <2>4. n \in DOMAIN Current
      BY <1>5, CurrentMap DEF m
    <2> QED
      BY <2>1, <2>2, <2>3, <2>4, NotOvertaken DEF Overtakes, DeletedLate
  <1>11. CASE qRows' = SavedQueue(qRows, call[t].name, objs[call[t].q])
    BY <1>1, <1>7, <1>11 DEF SavedQueue, Put
  <1> QED
    BY <1>8, <1>9, <1>10, <1>11, RowChanges

\* The row of the exchange, unless its name was overtaken.
LEMMA ExchangeFitsNext ==
  ASSUME IInv, faults \in Nat, Histories, NEW t \in Calls, Step(t), ~exOvertaken',
         ExchangeFits(exchange, exRow, call)
  PROVE  ExchangeFits(exchange', exRow', call')
  <1>1. Moves(t) => ~ExchangeSavedLate(t) /\ ~ExchangeDeletedLate(t)
    BY DEF Histories
  <1>2. up'
    BY StaysUp
  <1>3. call[t].op # "none" /\ call'[t] = Idle => Moves(t)
    BY <1>2, IdleFields DEF Moves
  <1>4. StatementFails(t) => call'[t] = Idle /\ Fails
    BY Ops DEF StatementFails, Fails
  <1>5. \/ UNCHANGED exRow
        \/ SaveExchange(t) \/ DeleteExchangeRow(t)
    BY Zenon DEF Step, ExchangeCall, QueueCall, ConsumerCall, PublishCall, CreateExchange,
       DeleteExchange, HasActiveConsumers, AskQueue, RemoveExchange, SaveQueue,
       RegisterInExchange, RegisterQueue, LookUp, GetQueue, DeleteIfUnused, Publish,
       DeleteQueue, DeleteQueueRow, RemoveQueue, Route, SaveReadyDelivery, DeliverTransient,
       DeliverSaved, EnqueueDelivery, AddConsumer, DisconnectConsumer, PublishDone, Return,
       StatementFails, AnswerLost, database
  <1>6. CASE SaveExchange(t)
    <2>1. /\ At(t, "CreateExchange", "SaveExchange") /\ Leave(t) /\ exRow' = TRUE
          /\ UNCHANGED exchange
      BY <1>6 DEF SaveExchange, memory
    <2>2. Moves(t)
      BY <1>3, <2>1, LeftCall DEF At
    <2>3. exchange # 0
      BY <1>1, <2>1, <2>2 DEF ExchangeSavedLate
    <2> QED
      BY <2>1, <2>3 DEF ExchangeFits
  <1>7. CASE DeleteExchangeRow(t)
    <2>1. /\ At(t, "DeleteExchange", "DeleteExchangeRow") /\ Leave(t) /\ exRow' = FALSE
          /\ UNCHANGED exchange
      BY <1>7 DEF DeleteExchangeRow, memory
    <2>2. Moves(t)
      BY <1>3, <2>1, LeftCall DEF At
    <2>3. exchange = 0
      BY <1>1, <2>1, <2>2 DEF ExchangeDeletedLate
    <2> QED
      BY <2>1, <2>3 DEF ExchangeFits
  <1>8. CASE UNCHANGED exRow /\ ~SaveExchange(t) /\ ~DeleteExchangeRow(t)
    <2>1. \A u \in Calls : ExchangeDoomed(call[u]) => ExchangeDoomed(call'[u])
      <3>1. SUFFICES ASSUME ExchangeDoomed(call[t]) PROVE FALSE
        BY OthersStay
      <3>2. StatementFails(t)
        BY <1>8, <3>1, DoomedSteps
      <3> QED
        BY <1>1, <1>3, <1>4, <3>1, <3>2 DEF ExchangeDeletedLate, ExchangeDoomed, At
    <2>2. \A u \in Calls : call[u].op = "CreateExchange" => call'[u].op = "CreateExchange"
      <3>1. SUFFICES ASSUME call[t].op = "CreateExchange" PROVE FALSE
        BY OthersStay
      <3>2. StatementFails(t)
        BY <1>8, <3>1, DoomedSteps
      <3>3. call[t].pc = "SaveExchange"
        BY <3>1, Running, IdleFields DEF Placed
      <3> QED
        BY <1>1, <1>3, <1>4, <3>1, <3>2, <3>3 DEF ExchangeSavedLate, At
    <2>3. CASE exchange' = exchange
      BY <1>8, <2>1, <2>2, <2>3 DEF ExchangeFits
    <2>4. CASE RemoveExchange(t) /\ exchange' = 0 /\ exchange # 0
      <3>1. Goto(t, "DeleteExchangeRow") /\ call[t].op = "DeleteExchange"
        BY <2>4 DEF RemoveExchange, At
      <3>2. ExchangeDoomed(call'[t])
        BY <3>1, GotoCall DEF ExchangeDoomed
      <3> QED
        BY <2>4, <3>2 DEF ExchangeFits
    <2>5. CASE CreateExchange(t) /\ exchange' # 0
      <3>1. call'[t].op = "CreateExchange"
        BY <2>5, CreateCall
      <3> QED
        BY <2>5, <3>1 DEF ExchangeFits
    <2> QED
      BY <2>3, <2>4, <2>5, ExchangeChanges
  <1> QED
    BY <1>5, <1>6, <1>7, <1>8

\* The rows follow the maps, also through a restart.
LEMMA RowsNext ==
  ASSUME IInv, UInv, RowsInv, [HNext]_hvars
  PROVE  RowsInv'
  <1>1. CASE UNCHANGED hvars
    <2>1. UNCHANGED <<up, exchange, queues, objs, call, exRow, qRows, confirmed, faults,
                      overtaken, exOvertaken>>
      BY <1>1 DEF hvars, vars, memory, database, history, bounds
    <2> QED
      BY <2>1 DEF RowsInv
  <1>2. ASSUME NEW t \in Calls, Step(t), Histories PROVE RowsInv'
    <2>1. faults' \in Nat
      BY <1>2, FaultsNext DEF RowsInv, Next, Step
    <2>2. DurableRows(qRows') /\ \A u \in Calls : Held(call'[u], objs')
      BY <1>2, DurableNext, HeldNext DEF RowsInv
    <2>3. up /\ up' /\ overtaken \subseteq overtaken' /\ (exOvertaken => exOvertaken')
      BY <1>2, StaysUp DEF Histories
    <2>4. ASSUME NEW n \in QueueNames, n \notin overtaken'
          PROVE  /\ RowFits(n, Map(exchange', queues'), objs', qRows', call')
                 /\ RowThere(n, Map(exchange', queues'), objs', qRows', call', confirmed')
      <3>1. /\ RowFits(n, Map(exchange, queues), objs, qRows, call)
            /\ RowThere(n, Map(exchange, queues), objs, qRows, call, confirmed)
        BY <2>3, <2>4 DEF RowsInv
      <3>2. faults \in Nat /\ \A u \in Calls : Held(call[u], objs)
        BY DEF RowsInv
      <3> QED
        BY <1>2, <2>4, <3>1, <3>2, RowFitsNext, RowThereNext
    <2>5. ~exOvertaken' => ExchangeFits(exchange', exRow', call')
      BY <1>2, <2>3, ExchangeFitsNext DEF RowsInv
    <2> QED
      BY <2>1, <2>2, <2>4, <2>5 DEF RowsInv
  <1>3. ASSUME Crash \/ Restore
        PROVE  /\ faults' \in Nat /\ DurableRows(qRows') /\ UNCHANGED <<exRow, qRows>>
               /\ \A u \in Calls : call'[u] = Idle /\ Held(call'[u], objs')
    <2>1. UNCHANGED <<faults, exRow, qRows>>
      BY <1>3 DEF Crash, Restore, database, bounds
    <2>2. \A u \in Calls : call'[u] = Idle
      BY <1>3 DEF Crash, Restore, IInv, Down
    <2> QED
      BY <2>1, <2>2, IdleFields DEF RowsInv, Held
  <1>4. CASE Crash
    <2>1. ~up'
      BY <1>4 DEF Crash
    <2> QED
      BY <1>3, <1>4, <2>1 DEF RowsInv
  <1>5. CASE Restore
    <2> DEFINE m1 == Map(exchange', queues')
    <2>1. /\ exchange' = (IF exRow THEN 1 ELSE 0)
          /\ exRow => /\ DOMAIN queues'[1] = DOMAIN qRows
                      /\ \A n \in DOMAIN qRows : objs'[queues'[1][n]] = RestoredQueue(n)
      BY <1>5, Rebuilt
    <2>2. UNCHANGED <<exRow, qRows>>
      BY <1>3, <1>5
    <2>3. exRow \in BOOLEAN /\ (DOMAIN qRows # {} => exRow)
      BY DEF IInv, Tables
    <2>4. (exRow => m1 = queues'[1]) /\ (~exRow => DOMAIN m1 = {})
      BY <2>1, <2>3 DEF Map, EmptyMap
    <2>5. ASSUME NEW n \in DOMAIN qRows PROVE RowOf(qRows[n], RestoredQueue(n))
      BY RestoredObj DEF RowOf, RowsInv, DurableRows
    <2> HIDE DEF m1
    <2>6. \A n \in DOMAIN qRows' : n \in DOMAIN m1 /\ RowOf(qRows'[n], objs'[m1[n]])
      BY <2>1, <2>2, <2>3, <2>4, <2>5
    <2>7. DOMAIN m1 \subseteq DOMAIN qRows'
      BY <2>1, <2>2, <2>3, <2>4
    <2>8. ExchangeFits(exchange', exRow', call')
      BY <2>1, <2>2, <2>3 DEF ExchangeFits
    <2>9. \A n \in QueueNames : /\ RowFits(n, m1, objs', qRows', call')
                                /\ RowThere(n, m1, objs', qRows', call', confirmed')
      BY <2>6, <2>7 DEF RowFits, RowThere
    <2> QED
      BY <1>3, <1>5, <2>8, <2>9 DEF RowsInv, m1
  <1> QED
    BY <1>1, <1>2, <1>4, <1>5 DEF HNext, Next, Step

\* From the beginning on.
LEMMA RowsAlways == HSpec => [](IInv /\ UInv /\ RowsInv)
  <1>1. HInit => UInv /\ RowsInv
    <2> SUFFICES ASSUME HInit PROVE UInv /\ RowsInv
      OBVIOUS
    <2>1. UInv
      BY DEF HInit, Init, UInv, Apart, HeldUnder
    <2>2. DOMAIN qRows = {} /\ DOMAIN Map(exchange, queues) = {}
      BY DEF HInit, Init, EmptyMap, Map
    <2>3. ~exRow /\ exchange = 0 /\ faults = 0 /\ \A t \in Calls : call[t] = Idle
      BY DEF HInit, Init
    <2>4. DurableRows(qRows) /\ ExchangeFits(exchange, exRow, call)
      BY <2>2, <2>3 DEF DurableRows, ExchangeFits
    <2>5. \A t \in Calls : Held(call[t], objs)
      BY <2>3, IdleFields DEF Held
    <2>6. ASSUME NEW n \in QueueNames
          PROVE  /\ RowFits(n, Map(exchange, queues), objs, qRows, call)
                 /\ RowThere(n, Map(exchange, queues), objs, qRows, call, confirmed)
      BY <2>2 DEF RowFits, RowThere
    <2> QED
      BY <2>1, <2>3, <2>4, <2>5, <2>6 DEF RowsInv
  <1>2. IInv /\ UInv /\ [Next]_vars => UInv'
    BY UNext
  <1>3. IInv /\ UInv /\ RowsInv /\ [HNext]_hvars => RowsInv'
    BY RowsNext
  <1>4. [HNext]_hvars => [Next]_vars
    BY DEF HNext, hvars
  <1> QED
    BY <1>1, <1>2, <1>3, <1>4, Lifted, Inductive, PTL DEF HSpec

\* Unless statements overtook each other or failed for its name, a confirmed
\* durable queue has the row that brings it back as it is, whatever calls ran
\* and whenever the process crashed (service/broker.go 92-96, 120-124).
THEOREM ConfirmedQueuesSaved == HSpec => []SavedUnlessOvertaken
  <1>1. IInv /\ UInv /\ RowsInv => SavedUnlessOvertaken
    <2> SUFFICES ASSUME IInv, RowsInv, Quiet, NEW n \in DOMAIN Current, n \notin overtaken,
                        Current[n] \in confirmed, objs[Current[n]].IsDurable
                 PROVE  LET q == objs[Current[n]]
                        IN  /\ n \in DOMAIN qRows
                            /\ SameParameters(q, [qRows[n] EXCEPT !.Filters = q.Filters])
                            /\ qRows[n].Filters = Range(q.Filters)
      BY DEF SavedUnlessOvertaken
    <2> DEFINE q == objs[Current[n]]
               row == qRows[n]
               F == q.Filters
               row1 == [row EXCEPT !.Filters = F]
    <2>1. /\ RowFits(n, Current, objs, qRows, call)
          /\ RowThere(n, Current, objs, qRows, call, confirmed)
      BY CurrentMap DEF RowsInv, Quiet
    <2>2. n \in DOMAIN qRows /\ RowOf(row, q)
      BY <2>1 DEF RowFits, RowThere
    <2>3. row \in Row
      BY <2>2 DEF IInv, Tables
    <2>4. SameParameters(q, row1)
      <3>1. equalFilters(F, F)
        BY DEF equalFilters
      <3> HIDE DEF F, row
      <3>2. /\ row1.IsDurable = row.IsDurable /\ row1.IsAutoDelete = row.IsAutoDelete
            /\ row1.MaxAttempts = row.MaxAttempts /\ row1.Filters = F
        BY <2>3 DEF Row
      <3> HIDE DEF row1, q
      <3> QED
        BY <2>2, <3>1, <3>2 DEF RowOf, SameParameters, F
    <2> QED
      BY <2>2, <2>4 DEF RowOf
  <1> QED
    BY <1>1, RowsAlways, PTL

\* Unless statements overtook each other or failed for its name, a restart
\* brings back no exchange and no queue that was deleted
\* (service/broker.go 51-69, 104-127).
THEOREM NothingComesBack == HSpec => []DeletedUnlessOvertaken
  <1>1. IInv /\ UInv /\ RowsInv => DeletedUnlessOvertaken
    <2> SUFFICES ASSUME IInv, RowsInv, Quiet
                 PROVE  /\ exOvertaken \/ (exRow <=> exchange # 0)
                        /\ \A n \in DOMAIN qRows \ overtaken :
                              n \in DOMAIN Current /\ objs[Current[n]].IsDurable
      BY DEF DeletedUnlessOvertaken
    <2>1. up /\ \A t \in Calls : call[t].op = "none"
      BY IdleFields DEF Quiet
    <2>2. ~exOvertaken => ExchangeFits(exchange, exRow, call)
      BY <2>1 DEF RowsInv
    <2>3. exOvertaken \/ (exRow <=> exchange # 0)
      BY <2>1, <2>2 DEF ExchangeFits, ExchangeDoomed
    <2>4. ASSUME NEW n \in DOMAIN qRows, n \notin overtaken
          PROVE  n \in DOMAIN Current /\ objs[Current[n]].IsDurable
      <3>1. n \in QueueNames
        BY DEF IInv, Tables
      <3>2. RowFits(n, Current, objs, qRows, call)
        BY <2>1, <2>4, <3>1, CurrentMap DEF RowsInv
      <3> QED
        BY <2>1, <2>4, <3>2 DEF RowFits, Doomed, ExchangeDoomed, RowOf
    <2> QED
      BY <2>3, <2>4
  <1> QED
    BY <1>1, RowsAlways, PTL
----------------------------------------------------------------------------
(***************************************************************************)
(* Keys and filters.  Unless its name was overtaken, a queue and its rows  *)
(* hold messages with keys its filters stand for only: a Publish delivers  *)
(* to the queue that Route asked.                                          *)
(***************************************************************************)
Denoted(F) == UNION {Denotes(f) : f \in F}

\* The key of a message is one that the filters F stand for.
KeyIn(id, F, pb) == id[1] \in DOMAIN pb /\ pb[id[1]] \in Denoted(F)

KeyedQueue(q, pb) == \A d \in Range(q.Ready) : KeyIn(d.ID, Range(q.Filters), pb)

KeyedRow(id, qr, pb) == KeyIn(id, qr[id[2]].Filters, pb)

\* The queues that are as old as the call are in the exchange it works on.
KeyedCall(k, ex, m, ob, pb) ==
    k.op = "Publish" =>
        /\ k.number \in DOMAIN pb /\ pb[k.number] = k.key
        /\ \A n \in DOMAIN m : m[n] <= k.known =>
              /\ k.e = ex
              /\ k.pc = "Deliver" /\ n \in k.items
                   => KeyIn(<<k.number, n>>, Range(ob[m[n]].Filters), pb)

KeyedInv ==
    /\ \A n \in DOMAIN Map(exchange, queues) \ overtaken :
          KeyedQueue(objs[Map(exchange, queues)[n]], published)
    /\ \A id \in dRows : id[2] \notin overtaken => KeyedRow(id, qRows, published)
    /\ \A t \in Calls : KeyedCall(call[t], exchange, Map(exchange, queues), objs, published)

\* More filters stand for more keys.
LEMMA DenotedGrows ==
  ASSUME NEW F, NEW G, F \subseteq G, NEW id, NEW pb, KeyIn(id, F, pb)
  PROVE  KeyIn(id, G, pb)
  BY DEF KeyIn, Denoted

\* Another message leaves the keys of the earlier ones.
LEMMA KeysStay ==
  ASSUME IInv, NEW t \in Calls, Step(t)
  PROVE  /\ \A i \in DOMAIN published : i \in DOMAIN published' /\ published'[i] = published[i]
         /\ \A id, F : KeyIn(id, F, published) => KeyIn(id, F, published')
  <1>1. UNCHANGED published \/ \E key \in Keys : published' = Append(published, key)
    BY Zenon DEF Step, ExchangeCall, QueueCall, ConsumerCall, PublishCall, CreateExchange,
       SaveExchange, DeleteExchange, HasActiveConsumers, AskQueue, RemoveExchange,
       DeleteExchangeRow, RegisterInExchange, RegisterQueue, SaveQueue, LookUp, GetQueue,
       DeleteIfUnused, Publish, DeleteQueue, DeleteQueueRow, RemoveQueue, Route,
       SaveReadyDelivery, DeliverTransient, DeliverSaved, EnqueueDelivery, AddConsumer,
       DisconnectConsumer, PublishDone, Return, StatementFails, AnswerLost, history
  <1>2. published \in Seq(Keys) /\ DOMAIN published = 1..Len(published) /\ Len(published) \in Nat
    BY LenProperties DEF IInv, History
  <1>3. \A i \in DOMAIN published : i \in DOMAIN published' /\ published'[i] = published[i]
    BY <1>1, <1>2
  <1> QED
    BY <1>3 DEF KeyIn

\* No call, no obligation.
LEMMA KeyedIdle ==
  ASSUME NEW ex, NEW m, NEW ob, NEW pb
  PROVE  KeyedCall(Idle, ex, m, ob, pb)
  BY IdleFields DEF KeyedCall

\* A call that delivers no more than before.
LEMMA KeyedStays ==
  ASSUME IInv, NEW t \in Calls, Step(t), NEW u \in Calls, NEW k, k = call[u], NEW k1,
         KeyedCall(k, exchange, Map(exchange, queues), objs, published),
         k1.op = "Publish" => /\ k.op = "Publish" /\ k1.e = k.e /\ k1.key = k.key
                              /\ k1.number = k.number /\ k1.known = k.known
                              /\ k1.pc = "Deliver" => k.pc = "Deliver" /\ k1.items \subseteq k.items
  PROVE  KeyedCall(k1, exchange', Map(exchange', queues'), objs', published')
  <1> DEFINE m == Map(exchange, queues)
             m1 == Map(exchange', queues')
  <1>1. SUFFICES ASSUME k1.op = "Publish"
                 PROVE  /\ k1.number \in DOMAIN published' /\ published'[k1.number] = k1.key
                        /\ \A n \in DOMAIN m1 : m1[n] <= k1.known =>
                              /\ k1.e = exchange'
                              /\ k1.pc = "Deliver" /\ n \in k1.items
                                   => KeyIn(<<k1.number, n>>, Range(objs'[m1[n]].Filters), published')
    BY DEF KeyedCall
  <1>2. /\ k.op = "Publish" /\ k1.e = k.e /\ k1.key = k.key
        /\ k1.number = k.number /\ k1.known = k.known
        /\ k1.pc = "Deliver" => k.pc = "Deliver" /\ k1.items \subseteq k.items
    BY <1>1
  <1>3. k1.number \in DOMAIN published' /\ published'[k1.number] = k1.key
    BY <1>2, KeysStay DEF KeyedCall
  <1>4. ASSUME NEW n \in DOMAIN m1, m1[n] <= k1.known
        PROVE  /\ k1.e = exchange'
               /\ k1.pc = "Deliver" /\ n \in k1.items
                    => KeyIn(<<k1.number, n>>, Range(objs'[m1[n]].Filters), published')
    <2>1. k.known \in 0..Len(objs) /\ Len(objs) \in Nat
      BY Running, Pointers DEF Bounded
    <2>2. m1[n] # Len(objs) + 1
      BY <1>2, <1>4, <2>1
    <2>3. exchange' = exchange /\ n \in DOMAIN m /\ m1[n] = m[n]
      BY <2>2, Effect, MapChanges
    <2>4. objs'[m[n]].Filters = objs[m[n]].Filters
      BY <2>3, CurrentMap, Effect DEF Frame, Same
    <2> HIDE DEF m, m1
    <2>5. /\ k.e = exchange
          /\ k.pc = "Deliver" /\ n \in k.items
               => KeyIn(<<k.number, n>>, Range(objs[m[n]].Filters), published)
      BY <1>2, <1>4, <2>3 DEF KeyedCall, m
    <2> QED
      BY <1>2, <2>3, <2>4, <2>5, KeysStay
  <1> QED
    BY <1>3, <1>4

\* The call that moves.
LEMMA KeyedOwn ==
  ASSUME IInv, NEW t \in Calls, Step(t),
         KeyedCall(call[t], exchange, Map(exchange, queues), objs, published)
  PROVE  KeyedCall(call'[t], exchange', Map(exchange', queues'), objs', published')
  <1> DEFINE k == call[t]
             k1 == call'[t]
             m == Map(exchange, queues)
             m1 == Map(exchange', queues')
  <1> SUFFICES KeyedCall(k1, exchange', m1, objs', published')
    OBVIOUS
  <1>1. CASE k1.op # "Publish"
    BY <1>1 DEF KeyedCall
  <1>2. CASE k1 = Idle
    BY <1>2, KeyedIdle
  <1>3. ASSUME NEW key \in Keys, Publish(t, key)
        PROVE  KeyedCall(k1, exchange', m1, objs', published')
    <2>1. k1.pc = "Route" /\ k1.key = key /\ k1.number = Len(published) + 1 /\ k1.e = exchange
      BY <1>3, PublishFields
    <2>2. /\ published \in Seq(Keys) /\ published' = Append(published, key)
          /\ UNCHANGED exchange
      BY <1>3 DEF Publish, IInv, History, memory
    <2> HIDE DEF k, k1, m, m1
    <2>3. k1.number \in DOMAIN published' /\ published'[k1.number] = k1.key
      BY <2>1, <2>2
    <2> QED
      BY <2>1, <2>2, <2>3 DEF KeyedCall
  <1>4. CASE Route(t) /\ k1 # Idle
    <2>1. k.op = "Publish" /\ k.pc = "Route" /\ UNCHANGED <<exchange, queues, objs, published>>
      BY <1>4, Zenon DEF Route, At, memory, history
    <2>2. k.e \in DOMAIN queues /\ k.e # 0 /\ k.key \in Keys
      BY <2>1, Argued
    <2>3. /\ ValidKey(k.key) /\ k1.op = k.op /\ k1.pc = "Deliver" /\ k1.e = k.e
          /\ k1.key = k.key /\ k1.number = k.number /\ k1.known = k.known
          /\ k1.items = {n \in DOMAIN queues[k.e] :
                           MatchFilters(objs[queues[k.e][n]].Filters, k.key)}
      BY <1>4, RouteCall
    <2>4. k.number \in DOMAIN published /\ published[k.number] = k.key
      BY <2>1 DEF KeyedCall
    <2>5. k.key \in Seq(Words)
      <3>1. k.key \in Seq(Tokens) /\ Range(k.key) \subseteq Words
        BY <2>2, <2>3, RegistryAssumption DEF ValidKey
      <3> HIDE DEF k
      <3> QED
        BY <3>1 DEF Range
    <2>6. ASSUME NEW n \in DOMAIN m, m[n] <= k.known
          PROVE  /\ k.e = exchange
                 /\ n \in k1.items => KeyIn(<<k.number, n>>, Range(objs[m[n]].Filters), published)
      <3>1. k.e = exchange
        BY <2>1, <2>6 DEF KeyedCall
      <3>2. m = queues[k.e]
        BY <2>2, <3>1 DEF Map
      <3>3. ASSUME n \in k1.items
            PROVE  KeyIn(<<k.number, n>>, Range(objs[m[n]].Filters), published)
        <4>1. MatchFilters(objs[m[n]].Filters, k.key)
          BY <2>3, <3>2, <3>3
        <4>2. m[n] \in DOMAIN objs /\ objs[m[n]] \in Obj
          BY <2>6, CurrentMap, Pointers
        <4>3. objs[m[n]].Filters \in Seq(Seq(Words \cup {Wildcard}))
          BY <4>2 DEF Obj, Filter
        <4> HIDE DEF k, k1, m, m1
        <4>4. k.key \in DenotedByAny(objs[m[n]].Filters)
          BY <2>5, <4>1, <4>3, MatchFiltersIsDenotation
        <4>5. <<k.number, n>>[1] = k.number
          OBVIOUS
        <4> QED
          BY <2>4, <4>4, <4>5 DEF DenotedByAny, Denoted, KeyIn
      <3> QED
        BY <3>1, <3>3
    <2>7. m1 = m
      BY <2>1
    <2> HIDE DEF k, k1, m, m1
    <2> QED
      BY <2>1, <2>3, <2>4, <2>6, <2>7 DEF KeyedCall
  <1>5. CASE /\ k1.op = "Publish" => /\ k.op = "Publish" /\ k1.e = k.e /\ k1.key = k.key
                                     /\ k1.number = k.number /\ k1.known = k.known
                                     /\ k1.pc = "Deliver" => k.pc = "Deliver" /\ k1.items \subseteq k.items
    <2>1. KeyedCall(k, exchange, m, objs, published) /\ k = call[t]
      OBVIOUS
    <2> HIDE DEF k, k1
    <2> QED
      BY <1>5, <2>1, KeyedStays
  <1>6. ASSUME NEW n \in QueueNames, k1 # Idle,
               DeliverTransient(t, n) \/ SaveReadyDelivery(t, n) \/ DeliverSaved(t, n)
        PROVE  KeyedCall(k1, exchange', m1, objs', published')
    <2>1. /\ k.op = "Publish" /\ k.pc = "Deliver" /\ k1.e = k.e /\ k1.key = k.key
          /\ k1.number = k.number /\ k1.known = k.known
          /\ k1.items = k.items \ {n} \/ k1.items = k.items
      BY <1>6, DeliverCall
    <2>2. k1.items \subseteq k.items
      BY <2>1
    <2> HIDE DEF k, k1, m1
    <2> QED
      BY <1>5, <2>1, <2>2
  <1>7. CASE PublishDone(t)
    <2>1. k.op = "Publish" /\ Goto(t, "Return")
      BY <1>7 DEF PublishDone, At
    <2>2. k1.pc = "Return" /\ k1.e = k.e /\ k1.key = k.key /\ k1.number = k.number /\ k1.known = k.known
      BY <2>1, GotoCall
    <2> HIDE DEF k, k1
    <2> QED
      BY <1>5, <2>1, <2>2
  <1>8. PublishCall(t) \/ k1.op # "Publish"
    BY NotPublishing DEF Step
  <1> HIDE DEF k1, m1
  <1> QED
    BY <1>1, <1>2, <1>3, <1>4, <1>6, <1>7, <1>8 DEF PublishCall, k1, m1

\* A queue that a message is saved or enqueued for, in time, has a filter for it.
LEMMA RoutedInTime ==
  ASSUME IInv, Histories, KeyedInv, NEW t \in Calls, Step(t), NEW n \in QueueNames,
         n \notin overtaken', call'[t] # call[t],
         At(t, "Publish", "Deliver"), n \in call[t].items,
         \/ DeliveryID(call[t].number, n) \in dRows' \ dRows
         \/ call'[t] # Idle /\ n \in call[t].items \ call'[t].items
  PROVE  LET m == Map(exchange, queues)
         IN  /\ n \in DOMAIN m
             /\ KeyIn(<<call[t].number, n>>, Range(objs[m[n]].Filters), published)
  <1> DEFINE m == Map(exchange, queues)
             k == call[t]
  <1>1. ~RoutedLate(t, n)
    BY NotOvertaken DEF Overtakes
  <1>2. n \in DOMAIN m /\ m[n] <= k.known
    BY <1>1, CurrentMap DEF RoutedLate
  <1>3. KeyedCall(k, exchange, m, objs, published)
    BY DEF KeyedInv
  <1> HIDE DEF m
  <1> QED
    BY <1>2, <1>3 DEF KeyedCall, At, m

\* What a step does to the deliveries that are saved.
LEMMA SavedHow ==
  ASSUME IInv, NEW t \in Calls, Step(t), NEW id \in dRows', id \notin dRows
  PROVE  \E n \in DOMAIN qRows :
            /\ NextItem(t, n) /\ id = DeliveryID(call[t].number, n)
            /\ UNCHANGED qRows /\ call'[t] # call[t]
  <1> DEFINE k == call[t]
  <1>1. \/ \E n \in QueueNames : SaveReadyDelivery(t, n)
        \/ AnswerLost(t)
    BY Zenon DEF Step, ExchangeCall, QueueCall, ConsumerCall, PublishCall, CreateExchange,
       SaveExchange, DeleteExchange, HasActiveConsumers, AskQueue, RemoveExchange,
       DeleteExchangeRow, RegisterInExchange, RegisterQueue, SaveQueue, LookUp, GetQueue,
       DeleteIfUnused, Publish, DeleteQueue, DeleteQueueRow, RemoveQueue, Route,
       DeliverTransient, DeliverSaved, EnqueueDelivery, AddConsumer,
       DisconnectConsumer, PublishDone, Return, StatementFails, database
  <1>2. ASSUME NEW n \in QueueNames, SaveReadyDelivery(t, n)
        PROVE  \E x \in DOMAIN qRows :
                  /\ NextItem(t, x) /\ id = DeliveryID(call[t].number, x)
                  /\ UNCHANGED qRows /\ call'[t] # call[t]
    <2>1. /\ NextItem(t, n) /\ n \in DOMAIN qRows /\ id = DeliveryID(k.number, n) /\ UNCHANGED qRows
          /\ call' = [call EXCEPT ![t].saved = {n}]
      BY <1>2 DEF SaveReadyDelivery
    <2>2. k \in CallRec /\ call \in [Calls -> CallRec] /\ k.saved = {}
      BY <2>1, Running DEF NextItem
    <2>3. call'[t].saved = {n}
      BY <2>1, <2>2, Zenon DEF CallRec
    <2> QED
      BY <2>1, <2>2, <2>3
  <1>3. CASE AnswerLost(t)
    <2>1. Leave(t) /\ \E n \in DOMAIN qRows : NextItem(t, n) /\ id = DeliveryID(k.number, n) /\ UNCHANGED qRows
      BY <1>3 DEF AnswerLost
    <2> QED
      BY <2>1, LeftCall, IdleFields DEF NextItem, At
  <1> QED
    BY <1>1, <1>2, <1>3

\* The tables.
LEMMA KeyedTables ==
  ASSUME IInv, RowsInv, KeyedInv, Histories, NEW t \in Calls, Step(t),
         NEW id \in dRows', id[2] \notin overtaken'
  PROVE  KeyedRow(id, qRows', published')
  <1> DEFINE k == call[t]
             n == id[2]
  <1>1. n \notin overtaken /\ up /\ \A u \in Calls : Held(call[u], objs)
    BY StaysUp DEF Histories, RowsInv
  <1>2. \A x \in dRows : x \in IDSet /\ x[2] \in DOMAIN qRows
    BY DEF IInv, Tables
  <1>3. CASE id \notin dRows
    <2>1. PICK x \in DOMAIN qRows : /\ NextItem(t, x) /\ id = DeliveryID(k.number, x)
                                    /\ UNCHANGED qRows /\ call'[t] # call[t]
      BY <1>3, SavedHow
    <2>2. x \in QueueNames /\ n = x /\ At(t, "Publish", "Deliver") /\ x \in k.items
      BY <2>1 DEF NextItem, DeliveryID, IInv, Tables
    <2>3. /\ x \in DOMAIN Map(exchange, queues)
          /\ KeyIn(<<k.number, x>>, Range(objs[Map(exchange, queues)[x]].Filters), published)
      BY <1>3, <2>1, <2>2, RoutedInTime
    <2>4. RowFits(x, Map(exchange, queues), objs, qRows, call)
      BY <1>1, <2>2 DEF RowsInv
    <2>5. qRows[x].Filters = Range(objs[Map(exchange, queues)[x]].Filters)
      BY <2>3, <2>4 DEF RowFits, RowOf
    <2>6. KeyIn(id, qRows[n].Filters, published)
      BY <2>1, <2>2, <2>3, <2>5 DEF DeliveryID
    <2> QED
      BY <2>1, <2>6, KeysStay DEF KeyedRow
  <1>4. CASE id \in dRows
    <2>1. n \in DOMAIN qRows /\ KeyIn(id, qRows[n].Filters, published)
      BY <1>1, <1>2, <1>4 DEF KeyedInv, KeyedRow
    <2>2. KeyIn(id, qRows[n].Filters, published')
      BY <2>1, KeysStay
    <2>3. CASE UNCHANGED qRows
      BY <2>2, <2>3 DEF KeyedRow
    <2>4. CASE DeleteExchangeRow(t)
      BY <2>4 DEF DeleteExchangeRow
    <2>5. CASE DeleteQueueRow(t)
      <3>1. n # k.name /\ qRows'[n] = qRows[n]
        BY <2>1, <2>5 DEF DeleteQueueRow, Delete, Restrict
      <3> QED
        BY <2>2, <3>1 DEF KeyedRow
    <2>6. CASE /\ At(t, "RegisterQueue", "SaveQueue") /\ exRow
               /\ qRows' = SavedQueue(qRows, k.name, objs[k.q])
      <3>1. /\ \A x \in DOMAIN qRows \ {k.name} : qRows'[x] = qRows[x]
            /\ k.name \in DOMAIN qRows => qRows[k.name].Filters \subseteq qRows'[k.name].Filters
        BY <1>1, <2>6, SavedFor
      <3>2. qRows[n].Filters \subseteq qRows'[n].Filters
        BY <2>1, <3>1
      <3> QED
        BY <2>2, <3>2, DenotedGrows DEF KeyedRow
    <2> QED
      BY <2>3, <2>4, <2>5, <2>6, RowChanges
  <1> QED
    BY <1>3, <1>4

\* What a step does to the deliveries of a queue in memory.
LEMMA ReadyChanges ==
  ASSUME IInv, NEW t \in Calls, Step(t), NEW q \in DOMAIN objs
  PROVE  \/ objs'[q].Ready = objs[q].Ready
         \/ \E n \in QueueNames :
               /\ DeliverTransient(t, n) \/ DeliverSaved(t, n)
               /\ n \in DOMAIN queues[call[t].e] /\ queues[call[t].e][n] = q
               /\ call' = [call EXCEPT ![t].items = @ \ {n}, ![t].saved = {}]
               /\ \A d \in Range(objs'[q].Ready) :
                     d \in Range(objs[q].Ready) \/ d.ID = <<call[t].number, n>>
  <1> DEFINE k == call[t]
  <1>1. CASE UNCHANGED objs
    BY <1>1
  <1>2. ASSUME NEW c \in DOMAIN objs, NEW r, Same(objs[c], r), objs' = [objs EXCEPT ![c] = r],
               UNCHANGED <<exchange, queues>>
        PROVE  objs'[c] = r /\ (q # c => objs'[q].Ready = objs[q].Ready)
    BY <1>2, ObjChanges
  <1>3. CASE RegisterInExchange(t)
    <2>1. CASE Leave(t)
      <3>1. call[t].op = "RegisterQueue" /\ call'[t].op = "none"
        BY <1>3, <2>1, LeftCall, IdleFields DEF RegisterInExchange, At
      <3>2. \A x, y : ~Registered(t, x, y)
        BY <3>1, RegisteredCall
      <3> QED
        BY <1>1, <1>3, <3>2 DEF RegisterInExchange
    <2>2. CASE ~Leave(t)
      <3>1. UNCHANGED objs \/ objs' = Append(objs, NewQueueOf(k.request))
        BY <1>3, <2>2, RegisteredHow
      <3>2. objs \in Seq(Obj) /\ DOMAIN objs = 1..Len(objs) /\ Len(objs) \in Nat
        BY Pointers
      <3> HIDE DEF k
      <3>3. objs'[q] = objs[q]
        BY <3>1, <3>2
      <3> QED
        BY <3>3
    <2> QED
      BY <2>1, <2>2
  <1>4. CASE AddConsumer(t)
    <2> DEFINE c == k.q
               r == WithConsumer(objs[c], k.consumer)
    <2>1. /\ k.op = "AddConsumer" /\ k.pc = "AddConsumer" /\ objs' = [objs EXCEPT ![c] = r]
          /\ UNCHANGED <<exchange, queues>>
      BY <1>4 DEF AddConsumer, At
    <2>2. c \in DOMAIN objs /\ k.consumer \in Consumers
      BY <2>1, Argued
    <2>3. Same(objs[c], r) /\ r.Ready = objs[c].Ready
      BY <2>2, Pointers, WithConsumerObj
    <2> HIDE DEF c, r, k
    <2> QED
      BY <1>2, <2>1, <2>2, <2>3
  <1>5. CASE DisconnectConsumer(t)
    <2> DEFINE c == k.q
               r == Disconnected(objs[c], k.consumer, << >>)
    <2>1. /\ k.op = "DisconnectConsumer" /\ k.pc = "DisconnectConsumer"
          /\ objs' = [objs EXCEPT ![c] = r] /\ UNCHANGED <<exchange, queues>>
      BY <1>5 DEF DisconnectConsumer, At
    <2>2. c \in DOMAIN objs
      BY <2>1, Argued
    <2>3. Same(objs[c], r) /\ r.Ready = objs[c].Ready
      BY <2>2, Pointers, DisconnectedObj
    <2> HIDE DEF c, r, k
    <2> QED
      BY <1>2, <2>1, <2>2, <2>3
  <1>6. ASSUME NEW n \in QueueNames, DeliverTransient(t, n) \/ DeliverSaved(t, n), ~UNCHANGED objs,
               objs'[q].Ready # objs[q].Ready
        PROVE  /\ n \in DOMAIN queues[call[t].e] /\ queues[call[t].e][n] = q
               /\ call' = [call EXCEPT ![t].items = @ \ {n}, ![t].saved = {}]
               /\ \A d \in Range(objs'[q].Ready) :
                     d \in Range(objs[q].Ready) \/ d.ID = <<call[t].number, n>>
    <2> DEFINE id == <<k.number, n>>
               d == NewDelivery(id)
               c == queues[k.e][n]
               r == Enqueued(objs[c], d)
    <2>1. k.op = "Publish" /\ EnqueueDelivery(t, n)
      BY <1>6 DEF DeliverTransient, DeliverSaved, NextItem, At
    <2>2. /\ n \in DOMAIN queues[k.e] /\ objs' = [objs EXCEPT ![c] = r]
          /\ UNCHANGED <<exchange, queues>>
          /\ call' = [call EXCEPT ![t].items = @ \ {n}, ![t].saved = {}]
      BY <1>6, <2>1 DEF EnqueueDelivery, DeliveryID
    <2>3. k.e \in DOMAIN queues /\ k.number \in 1..PublishBound
      BY <2>1, Argued
    <2>4. c \in DOMAIN objs /\ objs[c] \in Obj
      BY <2>2, <2>3, Pointers
    <2>5. d \in Deliveries(IDSet, Consumers) /\ d.ID = id
      BY <2>3 DEF NewDelivery, Deliveries, IDSet
    <2>6. Same(objs[c], r) /\ r.Ready = Append(objs[c].Ready, d)
      BY <2>4, <2>5, EnqueuedObj
    <2> HIDE DEF k, id, d, c, r
    <2>7. c = q /\ objs'[q] = r
      BY <1>2, <1>6, <2>2, <2>4, <2>6
    <2> DEFINE s == objs[c].Ready
    <2>8. s \in Seq(Deliveries(IDSet, Consumers))
      BY <2>4 DEF Obj
    <2> HIDE DEF s
    <2>9. Range(Append(s, d)) \subseteq Range(s) \cup {d}
      BY <2>5, <2>8 DEF Range
    <2>10. \A x \in Range(objs'[q].Ready) : x \in Range(objs[q].Ready) \/ x = d
      BY <2>6, <2>7, <2>9, Zenon DEF s
    <2> QED
      BY <2>2, <2>5, <2>7, <2>10 DEF k, id, c
  <1>7. \/ UNCHANGED objs
        \/ RegisterInExchange(t) \/ AddConsumer(t) \/ DisconnectConsumer(t)
        \/ \E n \in QueueNames : DeliverTransient(t, n) \/ DeliverSaved(t, n)
    BY Zenon DEF Step, ExchangeCall, QueueCall, ConsumerCall, PublishCall, CreateExchange,
       SaveExchange, DeleteExchange, HasActiveConsumers, AskQueue, RemoveExchange,
       DeleteExchangeRow, RegisterQueue, SaveQueue, LookUp, GetQueue, DeleteIfUnused, Publish,
       DeleteQueue, DeleteQueueRow, RemoveQueue, Route, SaveReadyDelivery, PublishDone, Return,
       StatementFails, AnswerLost, memory
  <1> QED
    BY <1>1, <1>3, <1>4, <1>5, <1>6, <1>7

\* The queues in memory.
LEMMA KeyedObjects ==
  ASSUME IInv, UInv, PInv, KeyedInv, Histories, NEW t \in Calls, Step(t),
         NEW n \in DOMAIN Map(exchange', queues'), n \notin overtaken'
  PROVE  KeyedQueue(objs'[Map(exchange', queues')[n]], published')
  <1> DEFINE m == Map(exchange, queues)
             q == Map(exchange', queues')[n]
             k == call[t]
             k1 == call'[t]
  <1>1. Frame /\ n \notin overtaken
    BY Effect DEF Histories
  <1>2. CASE q = Len(objs) + 1
    <2>1. q \in DOMAIN objs' /\ q \notin DOMAIN objs
      <3>1. IInv'
        BY NextInv DEF Next, Step
      <3>2. /\ exchange' \in 0..Len(queues') /\ queues' \in Seq(Maps)
            /\ \A e \in DOMAIN queues' : \A x \in DOMAIN queues'[e] : queues'[e][x] \in DOMAIN objs'
        BY <3>1 DEF IInv, Memory
      <3>3. exchange' # 0 /\ q = queues'[exchange'][n] /\ n \in DOMAIN queues'[exchange']
        BY DEF Map, EmptyMap
      <3>4. exchange' \in DOMAIN queues'
        BY <3>2, <3>3, LenProperties
      <3> QED
        BY <1>2, <3>2, <3>3, <3>4, Pointers
    <2>2. PICK r \in Requests : Accepted(r) /\ objs'[q] = NewQueueOf(r)
      BY <1>1, <2>1 DEF Frame
    <2>3. objs'[q].Ready = << >>
      BY <2>2, NewObj, RegistryAssumption
    <2> QED
      BY <2>3 DEF KeyedQueue, Range
  <1>3. CASE q # Len(objs) + 1
    <2>1. exchange # 0 /\ n \in DOMAIN m /\ q = m[n]
      BY <1>1, <1>3, MapChanges
    <2>2. /\ q \in DOMAIN objs /\ n \in QueueNames /\ KeyedQueue(objs[q], published)
          /\ exchange \in DOMAIN queues /\ m = queues[exchange]
      BY <1>1, <2>1, CurrentMap DEF KeyedInv
    <2>3. objs'[q].Filters = objs[q].Filters
      BY <1>1, <2>2 DEF Frame, Same
    <2>4. CASE objs'[q].Ready = objs[q].Ready
      <3> HIDE DEF q
      <3> QED
        BY <2>2, <2>3, <2>4, KeysStay DEF KeyedQueue, q
    <2>5. ASSUME NEW x \in QueueNames,
                 /\ DeliverTransient(t, x) \/ DeliverSaved(t, x)
                 /\ x \in DOMAIN queues[k.e] /\ queues[k.e][x] = q
                 /\ call' = [call EXCEPT ![t].items = @ \ {x}, ![t].saved = {}],
                 \A d \in Range(objs'[q].Ready) :
                     d \in Range(objs[q].Ready) \/ d.ID = <<k.number, x>>
          PROVE  KeyedQueue(objs'[q], published')
      <3>1. At(t, "Publish", "Deliver") /\ (x \in k.items \/ x \in k.saved)
        BY <2>5 DEF DeliverTransient, DeliverSaved, NextItem
      <3>2. k.op = "Publish" /\ k.pc = "Deliver" /\ k.e \in DOMAIN queues
        BY <3>1, Argued DEF At
      <3>3. k.e = exchange /\ x = n
        BY <2>1, <2>2, <2>5, <3>2 DEF UInv, Apart
      <3>4. n \in k.items
        BY <3>1, <3>2, <3>3 DEF PInv, Reaches
      <3>5. k1.items = k.items \ {n} /\ k1.op = "Publish"
        <4>1. k \in CallRec /\ call \in [Calls -> CallRec]
          BY Running
        <4> DEFINE I == k.items \ {n}
                   k2 == [k EXCEPT !.items = I, !.saved = {}]
        <4>2. k1 = k2
          BY <2>5, <3>3, <4>1
        <4> HIDE DEF I, k, k1
        <4>3. k2.items = I /\ k2.op = k.op
          BY <4>1, Zenon DEF CallRec
        <4> QED
          BY <3>2, <4>2, <4>3 DEF I
      <3>6. k1 # Idle /\ k1 # k
        BY <3>4, <3>5, IdleFields
      <3>7. KeyIn(<<k.number, n>>, Range(objs[m[n]].Filters), published)
        BY <2>2, <3>1, <3>4, <3>5, <3>6, RoutedInTime
      <3> HIDE DEF q, m, k
      <3>8. ASSUME NEW d \in Range(objs'[q].Ready) PROVE KeyIn(d.ID, Range(objs'[q].Filters), published')
        BY <2>1, <2>2, <2>3, <2>5, <3>3, <3>7, <3>8, KeysStay DEF KeyedQueue
      <3> QED
        BY <3>8 DEF KeyedQueue
    <2> HIDE DEF q, k
    <2> QED
      BY <2>2, <2>4, <2>5, ReadyChanges DEF q, k
  <1> QED
    BY <1>2, <1>3

\* The keys stay within the filters, also through a restart.
LEMMA KeyedNext ==
  ASSUME IInv, UInv, PInv, RowsInv, KeyedInv, [HNext]_hvars
  PROVE  KeyedInv'
  <1>1. CASE UNCHANGED hvars
    <2>1. UNCHANGED <<exchange, queues, objs, call, qRows, dRows, published, overtaken>>
      BY <1>1 DEF hvars, vars, memory, database, history
    <2> QED
      BY <2>1 DEF KeyedInv
  <1>2. ASSUME NEW t \in Calls, Step(t), Histories PROVE KeyedInv'
    <2>1. \A id \in dRows' : id[2] \notin overtaken' => KeyedRow(id, qRows', published')
      BY <1>2, KeyedTables
    <2>2. \A n \in DOMAIN Map(exchange', queues') \ overtaken' :
             KeyedQueue(objs'[Map(exchange', queues')[n]], published')
      BY <1>2, KeyedObjects
    <2>3. ASSUME NEW u \in Calls
          PROVE  KeyedCall(call'[u], exchange', Map(exchange', queues'), objs', published')
      <3>1. KeyedCall(call[u], exchange, Map(exchange, queues), objs, published)
        BY DEF KeyedInv
      <3>2. CASE u = t
        BY <1>2, <3>1, <3>2, KeyedOwn
      <3>3. CASE u # t
        <4>1. call'[u] = call[u]
          BY <1>2, <3>3, OthersStay
        <4>2. KeyedCall(call[u], exchange', Map(exchange', queues'), objs', published')
          BY <1>2, <3>1, KeyedStays
        <4> QED
          BY <4>1, <4>2
      <3> QED
        BY <3>2, <3>3
    <2> QED
      BY <2>1, <2>2, <2>3 DEF KeyedInv
  <1>3. ASSUME Crash \/ Restore, Histories
        PROVE  /\ \A id \in dRows' : id[2] \notin overtaken' => KeyedRow(id, qRows', published')
               /\ \A u \in Calls : KeyedCall(call'[u], exchange', Map(exchange', queues'), objs', published')
    <2>1. UNCHANGED <<qRows, dRows, published>> /\ overtaken \subseteq overtaken'
      BY <1>3 DEF Crash, Restore, database, Histories
    <2>2. \A u \in Calls : call'[u] = Idle
      BY <1>3 DEF Crash, Restore, IInv, Down
    <2> QED
      BY <2>1, <2>2, KeyedIdle DEF KeyedInv
  <1>4. CASE Crash /\ Histories
    <2>1. DOMAIN Map(exchange', queues') = {}
      BY <1>4 DEF Crash, Map, EmptyMap
    <2> QED
      BY <1>3, <1>4, <2>1 DEF KeyedInv
  <1>5. CASE Restore /\ Histories
    <2> DEFINE m1 == Map(exchange', queues')
    <2>1. UNCHANGED published /\ overtaken \subseteq overtaken'
      BY <1>5 DEF Restore, Histories
    <2>2. /\ exchange' = (IF exRow THEN 1 ELSE 0)
          /\ exRow => /\ DOMAIN queues'[1] = DOMAIN qRows
                      /\ \A n \in DOMAIN qRows : objs'[queues'[1][n]] = RestoredQueue(n)
      BY <1>5, Rebuilt
    <2>3. \A n \in DOMAIN m1 : n \in DOMAIN qRows /\ objs'[m1[n]] = RestoredQueue(n)
      BY <2>2 DEF Map, EmptyMap
    <2>4. ASSUME NEW n \in DOMAIN qRows, n \notin overtaken PROVE KeyedQueue(RestoredQueue(n), published)
      <3>1. /\ Range(RestoredQueue(n).Filters) = qRows[n].Filters
            /\ \A i \in DOMAIN RestoredQueue(n).Ready :
                 RestoredQueue(n).Ready[i].ID \in dRows /\ RestoredQueue(n).Ready[i].ID[2] = n
        BY RestoredObj
      <3>2. \A d \in Range(RestoredQueue(n).Ready) : d.ID \in dRows /\ d.ID[2] = n
        BY <3>1 DEF Range
      <3> QED
        BY <2>4, <3>1, <3>2 DEF KeyedQueue, KeyedInv, KeyedRow
    <2> HIDE DEF m1
    <2>5. \A n \in DOMAIN m1 \ overtaken' : KeyedQueue(objs'[m1[n]], published')
      BY <2>1, <2>3, <2>4
    <2> QED
      BY <1>3, <1>5, <2>5 DEF KeyedInv, m1
  <1> QED
    BY <1>1, <1>2, <1>4, <1>5 DEF HNext, Next, Step

\* Unless its name was overtaken, a registered queue only holds messages its
\* filters stand for, also after restarts, whatever calls ran
\* (exchange.go 86-117).
THEOREM OnlyMatching == HSpec => []MatchUnlessOvertaken
  <1>1. HInit => PInv /\ KeyedInv
    <2> SUFFICES ASSUME HInit PROVE PInv /\ KeyedInv
      OBVIOUS
    <2>1. DOMAIN Map(exchange, queues) = {} /\ dRows = {} /\ \A t \in Calls : call[t] = Idle
      BY DEF HInit, Init, EmptyMap, Map
    <2> QED
      BY <2>1, KeyedIdle, IdleFields DEF PInv, Reaches, KeyedInv
  <1>2. IInv /\ PInv /\ [Next]_vars => PInv'
    BY PNext
  <1>3. IInv /\ UInv /\ PInv /\ RowsInv /\ KeyedInv /\ [HNext]_hvars => KeyedInv'
    BY KeyedNext
  <1>4. [HNext]_hvars => [Next]_vars
    BY DEF HNext, hvars
  <1>5. IInv /\ KeyedInv => MatchUnlessOvertaken
    <2> SUFFICES ASSUME IInv, KeyedInv, NEW n \in DOMAIN Current, n \notin overtaken,
                        NEW i \in DOMAIN objs[Current[n]].Ready
                 PROVE  published[objs[Current[n]].Ready[i].ID[1]]
                          \in DenotedByAny(objs[Current[n]].Filters)
      BY DEF MatchUnlessOvertaken
    <2> DEFINE q == objs[Current[n]]
               d == q.Ready[i]
    <2>1. KeyedQueue(q, published) /\ d \in Range(q.Ready)
      BY CurrentMap DEF KeyedInv, Range
    <2> HIDE DEF d, q
    <2>2. KeyIn(d.ID, Range(q.Filters), published)
      BY <2>1 DEF KeyedQueue
    <2>3. published[d.ID[1]] \in DenotedByAny(q.Filters)
      BY <2>2 DEF KeyIn, Denoted, DenotedByAny
    <2> QED
      BY <2>3 DEF d, q
  <1> QED
    BY <1>1, <1>2, <1>3, <1>4, <1>5, RowsAlways, PTL DEF HSpec
============================================================================
