--------------------------- MODULE RegistryProofs ---------------------------
(***************************************************************************)
(* Safety of Registry for any sets of queue names, requests, keys,         *)
(* consumers and calls and any number of crashes and failing statements.   *)
(***************************************************************************)
EXTENDS Registry, RoutingProofs, QueueCoreProofs

Filter == Seq(Words \cup {Wildcard})

IDSet == (1..PublishBound) \X QueueNames

Maps == UNION {[S -> Nat] : S \in SUBSET QueueNames}

Obj == [ IsDurable : BOOLEAN, IsAutoDelete : BOOLEAN, MaxAttempts : Nat,
         Filters : Seq(Filter),
         Ready : Seq(Deliveries(IDSet, Consumers)),
         InFlight : InFlightMaps(IDSet, Consumers),
         Consumers : SUBSET Consumers, readyNotify : SUBSET {} ]

Row == [ IsDurable : BOOLEAN, IsAutoDelete : BOOLEAN, MaxAttempts : Nat,
         Filters : SUBSET Filter ]

CallRec ==
    [ op : {"none", "CreateExchange", "DeleteExchange", "RegisterQueue", "DeleteQueue",
            "AddConsumer", "DisconnectConsumer", "Publish"},
      pc : {"none", "SaveExchange", "HasActiveConsumers", "AskQueues", "DeleteExchangeRow",
            "RegisterQueue", "SaveQueue", "GetQueue", "DeleteQueue", "DeleteQueueRow",
            "AddConsumer", "DisconnectConsumer", "HasConsumers", "RemoveQueue",
            "Route", "Deliver", "Return"},
      e : Nat, q : Nat, name : QueueNames \cup {""}, consumer : Consumers \cup {NoConsumer},
      request : Requests \cup {EmptyMap}, asked : SUBSET Nat,
      key : Keys \cup {<< >>}, number : Nat, known : Nat,
      items : SUBSET QueueNames, durable : SUBSET QueueNames, saved : SUBSET QueueNames ]
----------------------------------------------------------------------------
(***************************************************************************)
(* The parts of the inductive invariant, as operators on values: ex, qs    *)
(* and ob are the map entry, the exchange objects and the queue objects,   *)
(* cl the calls, er, qr and dr the tables.                                 *)
(***************************************************************************)
\* What Accepted leaves of the queues, and the table of its rows.
SaneObj(q) == ~(q.IsDurable /\ q.IsAutoDelete) /\ << >> \notin Range(q.Filters)

SaneRow(r) ==
    /\ ~(r.IsDurable /\ r.IsAutoDelete)
    /\ << >> \notin r.Filters
    /\ IsFiniteSet(r.Filters)

Memory(ex, qs, ob) ==
    /\ qs \in Seq(Maps) /\ ob \in Seq(Obj)
    /\ ex \in 0..Len(qs)
    /\ \A q \in DOMAIN ob : SaneObj(ob[q])
    /\ \A e \in DOMAIN qs : \A n \in DOMAIN qs[e] : qs[e][n] \in DOMAIN ob

Tables(er, qr, dr) ==
    /\ er \in BOOLEAN
    /\ DOMAIN qr \subseteq QueueNames /\ IsFiniteSet(DOMAIN qr)
    /\ \A n \in DOMAIN qr : qr[n] \in Row /\ SaneRow(qr[n])
    /\ DOMAIN qr # {} => er
    /\ dr \subseteq IDSet /\ IsFiniteSet(dr)
    /\ \A id \in dr : id[2] \in DOMAIN qr

\* The steps of the calls of each kind, and what a call has found before it
\* gets to them.
Placed(k) ==
    \/ k = Idle
    \/ k.op = "CreateExchange" /\ k.pc = "SaveExchange"
    \/ /\ k.op = "DeleteExchange" /\ k.e # 0
       /\ k.pc \in {"HasActiveConsumers", "AskQueues", "DeleteExchangeRow"}
    \/ /\ k.op = "RegisterQueue" /\ k.e # 0
       /\ k.pc \in {"RegisterQueue", "SaveQueue", "Return"}
       /\ k.name \in QueueNames /\ k.request \in Requests
       /\ k.pc # "RegisterQueue" => k.q # 0
    \/ /\ k.op = "DeleteQueue" /\ k.e # 0
       /\ k.pc \in {"GetQueue", "DeleteQueue", "DeleteQueueRow"}
       /\ k.name \in QueueNames
       /\ k.pc # "GetQueue" => k.q # 0
    \/ /\ k.op = "AddConsumer" /\ k.e # 0
       /\ k.pc \in {"GetQueue", "AddConsumer"}
       /\ k.name \in QueueNames /\ k.consumer \in Consumers
       /\ k.pc # "GetQueue" => k.q # 0
    \/ /\ k.op = "DisconnectConsumer" /\ k.e # 0
       /\ k.pc \in {"GetQueue", "DisconnectConsumer", "HasConsumers", "RemoveQueue"}
       /\ k.name \in QueueNames
       /\ k.pc # "GetQueue" => k.q # 0
    \/ /\ k.op = "Publish" /\ k.e # 0
       /\ k.pc \in {"Route", "Deliver", "Return"}
       /\ k.key \in Keys /\ k.number \in 1..PublishBound

Bounded(k, qs, ob) ==
    /\ k.e \in 0..Len(qs) /\ k.q \in 0..Len(ob) /\ k.known \in 0..Len(ob)
    /\ k.asked \subseteq DOMAIN ob

CallsOK(cl, qs, ob) ==
    /\ cl \in [Calls -> CallRec]
    /\ \A t \in Calls : Placed(cl[t]) /\ Bounded(cl[t], qs, ob)

History(pb, cf, cs, ob) ==
    /\ pb \in Seq(Keys) /\ Len(pb) <= PublishBound
    /\ cf \cup cs \subseteq DOMAIN ob

Down(u, ex, qs, ob, cl) ==
    /\ u \in BOOLEAN
    /\ ~u => ex = 0 /\ qs = << >> /\ ob = << >> /\ \A t \in Calls : cl[t] = Idle

IInv ==
    /\ Memory(exchange, queues, objs)
    /\ Tables(exRow, qRows, dRows)
    /\ CallsOK(call, queues, objs)
    /\ History(published, confirmed, consumed, objs)
    /\ Down(up, exchange, queues, objs, call)
----------------------------------------------------------------------------
(***************************************************************************)
(* The records of the calls.                                               *)
(***************************************************************************)
\* No call.
LEMMA IdleCall ==
  ASSUME NEW qs, NEW ob, Len(qs) \in Nat, Len(ob) \in Nat
  PROVE  Idle \in CallRec /\ Placed(Idle) /\ Bounded(Idle, qs, ob)
  BY DEF Idle, CallRec, Placed, Bounded

\* What EXCEPT leaves of a record.
LEMMA GotoFields ==
  ASSUME NEW k \in CallRec, NEW p
  PROVE  LET m == [k EXCEPT !.pc = p]
         IN  /\ m.pc = p /\ m.op = k.op /\ m.e = k.e /\ m.q = k.q /\ m.name = k.name
             /\ m.consumer = k.consumer /\ m.request = k.request /\ m.asked = k.asked
             /\ m.key = k.key /\ m.number = k.number /\ m.known = k.known
             /\ m.items = k.items /\ m.durable = k.durable /\ m.saved = k.saved
             /\ p \in {"DeleteExchangeRow", "DeleteQueueRow", "HasConsumers", "RemoveQueue",
                       "Return"} => m \in CallRec
  BY ZenonT(60) DEF CallRec
----------------------------------------------------------------------------
(***************************************************************************)
(* The parts of the invariant.                                             *)
(***************************************************************************)
\* The objects the pointers name exist.
LEMMA Pointers ==
  ASSUME IInv
  PROVE  /\ queues \in Seq(Maps) /\ Len(queues) \in Nat /\ DOMAIN queues = 1..Len(queues)
         /\ objs \in Seq(Obj) /\ Len(objs) \in Nat /\ DOMAIN objs = 1..Len(objs)
         /\ exchange \in 0..Len(queues)
         /\ \A e \in DOMAIN queues :
               /\ DOMAIN queues[e] \subseteq QueueNames
               /\ \A n \in DOMAIN queues[e] : queues[e][n] \in DOMAIN objs
         /\ \A q \in DOMAIN objs : objs[q] \in Obj /\ SaneObj(objs[q])
  <1>1. queues \in Seq(Maps) /\ objs \in Seq(Obj)
    BY DEF IInv, Memory
  <1>2. /\ Len(queues) \in Nat /\ DOMAIN queues = 1..Len(queues)
        /\ Len(objs) \in Nat /\ DOMAIN objs = 1..Len(objs)
    BY <1>1, LenProperties
  <1>3. \A e \in DOMAIN queues : DOMAIN queues[e] \subseteq QueueNames
    <2>1. \A m \in Maps : DOMAIN m \subseteq QueueNames
      BY DEF Maps
    <2> QED
      BY <1>1, <1>2, <2>1, ElementOfSeq
  <1>4. \A q \in DOMAIN objs : objs[q] \in Obj
    BY <1>1, <1>2, ElementOfSeq
  <1> QED
    BY <1>1, <1>2, <1>3, <1>4 DEF IInv, Memory

\* A call that runs runs in a process that serves, and its pointers are good.
LEMMA Running ==
  ASSUME IInv, NEW t \in Calls
  PROVE  /\ call \in [Calls -> CallRec]
         /\ call[t] \in CallRec /\ Placed(call[t]) /\ Bounded(call[t], queues, objs)
         /\ call[t].op # "none" => up
         /\ call[t].e # 0 => call[t].e \in DOMAIN queues
         /\ call[t].q # 0 => call[t].q \in DOMAIN objs
  <1>1. /\ call \in [Calls -> CallRec]
        /\ Placed(call[t]) /\ Bounded(call[t], queues, objs)
    BY DEF IInv, CallsOK
  <1>2. call[t].op # "none" => up
    <2>1. Idle.op = "none"
      BY DEF Idle
    <2>2. ~up => call[t] = Idle
      BY DEF IInv, Down
    <2> QED
      BY <2>1, <2>2
  <1>3. /\ call[t].e # 0 => call[t].e \in DOMAIN queues
        /\ call[t].q # 0 => call[t].q \in DOMAIN objs
    BY <1>1, Pointers DEF Bounded
  <1> QED
    BY <1>1, <1>2, <1>3

\* What the place of a call says of its record.
LEMMA Argued ==
  ASSUME IInv, NEW t \in Calls
  PROVE  /\ call[t].op \notin {"none", "CreateExchange"} =>
              call[t].e # 0 /\ call[t].e \in DOMAIN queues
         /\ call[t].op \in {"RegisterQueue", "DeleteQueue", "AddConsumer", "DisconnectConsumer"}
              => call[t].name \in QueueNames
         /\ call[t].op \in {"RegisterQueue", "DeleteQueue", "AddConsumer", "DisconnectConsumer"}
              => \/ call[t].pc \in {"RegisterQueue", "GetQueue"}
                 \/ call[t].q # 0 /\ call[t].q \in DOMAIN objs
         /\ call[t].op = "RegisterQueue" => call[t].request \in Requests
         /\ call[t].op = "AddConsumer" => call[t].consumer \in Consumers
         /\ call[t].op = "Publish" => call[t].key \in Keys /\ call[t].number \in 1..PublishBound
  <1>1. Idle.op = "none"
    BY DEF Idle
  <1>2. Placed(call[t]) /\ call[t] \in CallRec
    BY Running
  <1>3. /\ call[t].op \notin {"none", "CreateExchange"} => call[t].e # 0
        /\ call[t].op \in {"RegisterQueue", "DeleteQueue", "AddConsumer", "DisconnectConsumer"}
              => call[t].name \in QueueNames
    BY <1>1, <1>2 DEF Placed
  <1>4. call[t].op \in {"RegisterQueue", "DeleteQueue", "AddConsumer", "DisconnectConsumer"}
              => call[t].pc \in {"RegisterQueue", "GetQueue"} \/ call[t].q # 0
    BY <1>1, <1>2 DEF Placed
  <1>5. /\ call[t].op = "RegisterQueue" => call[t].request \in Requests
        /\ call[t].op = "AddConsumer" => call[t].consumer \in Consumers
        /\ call[t].op = "Publish" => call[t].key \in Keys /\ call[t].number \in 1..PublishBound
    BY <1>1, <1>2 DEF Placed
  <1> QED
    BY <1>3, <1>4, <1>5, Running

\* One call changes, and the memory only grows.
LEMMA OneCall ==
  ASSUME IInv, NEW t \in Calls, NEW k \in CallRec, call' = [call EXCEPT ![t] = k],
         Len(queues') \in Nat, Len(objs') \in Nat, DOMAIN objs' = 1..Len(objs'),
         Len(queues) <= Len(queues'), Len(objs) <= Len(objs'),
         Placed(k), Bounded(k, queues', objs')
  PROVE  CallsOK(call', queues', objs')
  <1>1. /\ call \in [Calls -> CallRec]
        /\ \A u \in Calls : Placed(call[u]) /\ Bounded(call[u], queues, objs)
    BY DEF IInv, CallsOK
  <1>2. Len(queues) \in Nat /\ Len(objs) \in Nat /\ DOMAIN objs = 1..Len(objs)
    BY Pointers
  <1>3. \A u \in Calls : Bounded(call[u], queues', objs')
    BY <1>1, <1>2 DEF Bounded
  <1>4. call' \in [Calls -> CallRec]
    BY <1>1
  <1>5. \A u \in Calls : call'[u] = k \/ call'[u] = call[u]
    BY <1>1
  <1> QED
    BY <1>1, <1>3, <1>4, <1>5 DEF CallsOK

\* A step that changes nothing but its call.
LEMMA CallOnly ==
  ASSUME IInv, up, NEW t \in Calls, NEW k \in CallRec, call' = [call EXCEPT ![t] = k],
         Placed(k), Bounded(k, queues, objs),
         UNCHANGED <<up, memory, database>>, History(published', confirmed', consumed', objs)
  PROVE  IInv'
  <1>1. UNCHANGED <<up, exchange, queues, objs, exRow, qRows, dRows>>
    BY DEF memory, database
  <1>2. CallsOK(call', queues', objs')
    <2>1. /\ Len(queues') \in Nat /\ Len(objs') \in Nat /\ DOMAIN objs' = 1..Len(objs')
          /\ Len(queues) <= Len(queues') /\ Len(objs) <= Len(objs')
      BY <1>1, Pointers
    <2>2. Bounded(k, queues', objs')
      BY <1>1
    <2> QED
      BY <2>1, <2>2, OneCall
  <1> QED
    BY <1>1, <1>2 DEF IInv, Down

\* A step of a call, in general.
LEMMA CallStep ==
  ASSUME IInv, up, up' = up, NEW t \in Calls, NEW k \in CallRec, call' = [call EXCEPT ![t] = k],
         Placed(k), Bounded(k, queues', objs'),
         Memory(exchange', queues', objs'),
         Len(queues) <= Len(queues'), Len(objs) <= Len(objs'),
         Tables(exRow', qRows', dRows'), History(published', confirmed', consumed', objs')
  PROVE  IInv'
  <1>1. Len(queues') \in Nat /\ Len(objs') \in Nat /\ DOMAIN objs' = 1..Len(objs')
    BY LenProperties DEF Memory
  <1>2. CallsOK(call', queues', objs')
    BY <1>1, OneCall
  <1> QED
    BY <1>2 DEF IInv, Down

\* A call ends and leaves everything else as it is.
LEMMA LeaveOnly ==
  ASSUME IInv, NEW t \in Calls, call[t].op # "none", Leave(t),
         UNCHANGED <<up, memory, database>>, History(published', confirmed', consumed', objs)
  PROVE  IInv'
  <1>1. call' = [call EXCEPT ![t] = Idle]
    BY DEF Leave
  <1>2. Idle \in CallRec /\ Placed(Idle) /\ Bounded(Idle, queues, objs)
    BY Pointers, IdleCall
  <1> QED
    BY <1>1, <1>2, Running, CallOnly

\* A call goes on to a later step of its own.
LEMMA GotoOnly ==
  ASSUME IInv, NEW t \in Calls, call[t].op # "none", NEW p, Goto(t, p),
         p \in {"DeleteExchangeRow", "DeleteQueueRow", "HasConsumers", "RemoveQueue", "Return"},
         Placed([call[t] EXCEPT !.pc = p]),
         UNCHANGED <<up, memory, database>>, History(published', confirmed', consumed', objs)
  PROVE  IInv'
  <1> DEFINE k == [call[t] EXCEPT !.pc = p]
  <1>1. call' = [call EXCEPT ![t] = k]
    BY DEF Goto
  <1>2. call[t] \in CallRec /\ Bounded(call[t], queues, objs) /\ up
    BY Running
  <1>3. /\ k \in CallRec /\ k.e = call[t].e /\ k.q = call[t].q /\ k.known = call[t].known
        /\ k.asked = call[t].asked
    BY <1>2, GotoFields
  <1>4. Placed(k)
    OBVIOUS
  <1> HIDE DEF k
  <1>5. Bounded(k, queues, objs)
    BY <1>2, <1>3 DEF Bounded
  <1> QED
    BY <1>1, <1>2, <1>3, <1>4, <1>5, CallOnly

\* The history stays.
LEMMA SameHistory ==
  ASSUME IInv, UNCHANGED history
  PROVE  History(published', confirmed', consumed', objs)
  BY DEF history, IInv
----------------------------------------------------------------------------
(***************************************************************************)
(* The actions.                                                            *)
(***************************************************************************)
\* A call that starts with broker.GetExchange.
LEMMA Begins ==
  ASSUME IInv, NEW t \in Calls, NEW b, GetExchange(t, b),
         NEW k, k = [b EXCEPT !.e = exchange],
         k \in CallRec, k.q = 0, k.asked = {}, k.known \in 0..Len(objs), k.e = exchange,
         exchange # 0 => Placed(k),
         UNCHANGED <<up, memory, database>>, History(published', confirmed', consumed', objs)
  PROVE  IInv'
  <1>1. up /\ exchange # 0 /\ call' = [call EXCEPT ![t] = k]
    BY DEF GetExchange
  <1>2. Bounded(k, queues, objs)
    BY Pointers DEF Bounded
  <1> QED
    BY <1>1, <1>2, CallOnly

\* CreateExchange.
LEMMA CreateExchangeStep ==
  ASSUME IInv, NEW t \in Calls, CreateExchange(t)
  PROVE  IInv'
  <1> DEFINE k == [Idle EXCEPT !.op = "CreateExchange", !.pc = "SaveExchange"]
  <1>1. /\ up /\ call[t] = Idle
        /\ UNCHANGED <<up, objs, exRow, qRows, dRows, published, confirmed, consumed>>
    BY DEF CreateExchange, database, history
  <1>2. call' = [call EXCEPT ![t] = k]
    BY <1>1 DEF CreateExchange
  <1>3. /\ k \in CallRec /\ k.op = "CreateExchange" /\ k.pc = "SaveExchange"
        /\ k.e = 0 /\ k.q = 0 /\ k.known = 0 /\ k.asked = {}
    BY DEF Idle, CallRec
  <1> HIDE DEF k
  <1>4. Placed(k)
    BY <1>3 DEF Placed
  <1>5. EmptyMap \in Maps /\ DOMAIN EmptyMap = {}
    BY DEF EmptyMap, Maps
  <1>6. /\ Memory(exchange', queues', objs') /\ Len(queues') \in Nat
        /\ Len(queues) <= Len(queues')
    <2>1. CASE exchange # 0
      BY <1>1, <2>1, Pointers DEF CreateExchange, IInv
    <2>2. CASE exchange = 0
      <3>1. exchange' = Len(queues) + 1 /\ queues' = Append(queues, EmptyMap)
        BY <2>2 DEF CreateExchange
      <3>2. /\ queues' \in Seq(Maps) /\ Len(queues') = Len(queues) + 1
            /\ DOMAIN queues' = 1..(Len(queues) + 1)
            /\ \A e \in DOMAIN queues : queues'[e] = queues[e]
            /\ queues'[Len(queues) + 1] = EmptyMap
        BY <1>5, <3>1, Pointers, AppendProperties, LenProperties
      <3>3. Len(queues) \in Nat /\ DOMAIN queues = 1..Len(queues)
        BY Pointers
      <3>4. \A e \in DOMAIN queues' : e \in DOMAIN queues \/ e = Len(queues) + 1
        BY <3>2, <3>3
      <3>5. \A e \in DOMAIN queues' : \A n \in DOMAIN queues'[e] : queues'[e][n] \in DOMAIN objs
        <4>1. \A e \in DOMAIN queues : \A n \in DOMAIN queues[e] : queues[e][n] \in DOMAIN objs
          BY Pointers
        <4>2. \A n \in DOMAIN EmptyMap : FALSE
          BY <1>5
        <4> QED
          BY <3>2, <3>4, <4>1, <4>2
      <3> QED
        BY <1>1, <3>1, <3>2, <3>3, <3>5, Pointers DEF Memory
    <2> QED
      BY <2>1, <2>2
  <1>7. CallsOK(call', queues', objs')
    <2>1. /\ Len(objs') \in Nat /\ DOMAIN objs' = 1..Len(objs') /\ Len(objs) <= Len(objs')
      BY <1>1, Pointers
    <2>2. Bounded(k, queues', objs')
      BY <1>3, <1>6, <2>1 DEF Bounded
    <2> QED
      BY <1>2, <1>3, <1>4, <1>6, <2>1, <2>2, OneCall
  <1> QED
    BY <1>1, <1>6, <1>7 DEF IInv, Down

\* SaveExchange.
LEMMA SaveExchangeStep ==
  ASSUME IInv, NEW t \in Calls, SaveExchange(t)
  PROVE  IInv'
  <1>1. /\ call[t].op = "CreateExchange" /\ call' = [call EXCEPT ![t] = Idle] /\ exRow' = TRUE
        /\ UNCHANGED <<up, exchange, queues, objs, qRows, dRows, published, confirmed, consumed>>
    BY DEF SaveExchange, At, Leave, memory, history
  <1>2. up
    BY <1>1, Running
  <1>3. CallsOK(call', queues', objs')
    <2>1. /\ Len(queues') \in Nat /\ Len(objs') \in Nat /\ DOMAIN objs' = 1..Len(objs')
          /\ Len(queues) <= Len(queues') /\ Len(objs) <= Len(objs')
      BY <1>1, Pointers
    <2>2. Idle \in CallRec /\ Placed(Idle) /\ Bounded(Idle, queues', objs')
      BY <2>1, IdleCall
    <2> QED
      BY <1>1, <2>1, <2>2, OneCall
  <1>4. Tables(exRow', qRows', dRows')
    BY <1>1 DEF IInv, Tables
  <1> QED
    BY <1>1, <1>2, <1>3, <1>4 DEF IInv, Down

\* DeleteExchange.
LEMMA DeleteExchangeStep ==
  ASSUME IInv, NEW t \in Calls, DeleteExchange(t)
  PROVE  IInv'
  <1> DEFINE b == [Idle EXCEPT !.op = "DeleteExchange", !.pc = "HasActiveConsumers"]
             k == [b EXCEPT !.e = exchange]
  <1>1. /\ GetExchange(t, b)
        /\ UNCHANGED <<up, memory, database>> /\ UNCHANGED history
    BY DEF DeleteExchange
  <1>2. exchange \in Nat
    BY Pointers
  <1>3. /\ k \in CallRec /\ k.op = "DeleteExchange" /\ k.pc = "HasActiveConsumers"
        /\ k.e = exchange /\ k.q = 0 /\ k.known = 0 /\ k.asked = {}
    BY <1>2 DEF Idle, CallRec
  <1>4. k = [b EXCEPT !.e = exchange]
    OBVIOUS
  <1> HIDE DEF k, b
  <1>5. exchange # 0 => Placed(k)
    BY <1>3 DEF Placed
  <1>6. k.known \in 0..Len(objs)
    BY <1>3, Pointers
  <1> QED
    BY <1>1, <1>3, <1>4, <1>5, <1>6, SameHistory, Begins

\* HasActiveConsumers.
LEMMA HasActiveConsumersStep ==
  ASSUME IInv, NEW t \in Calls, HasActiveConsumers(t)
  PROVE  IInv'
  <1> DEFINE S == Range(queues[call[t].e])
             k == [call[t] EXCEPT !.pc = "AskQueues", !.asked = S]
  <1>1. /\ call[t].op = "DeleteExchange" /\ call[t].pc = "HasActiveConsumers"
        /\ call' = [call EXCEPT ![t] = k]
        /\ UNCHANGED <<up, memory, database>> /\ UNCHANGED history
    <2>1. call' = [call EXCEPT ![t].pc = "AskQueues", ![t].asked = Range(queues[call[t].e])]
      BY DEF HasActiveConsumers
    <2> QED
      BY <2>1 DEF HasActiveConsumers, At
  <1>2. /\ call[t] \in CallRec /\ Bounded(call[t], queues, objs) /\ up
    BY <1>1, Running
  <1>3. call[t].e # 0
    BY <1>1, Argued
  <1>4. call[t].e \in DOMAIN queues
    BY <1>3, Running
  <1>5. S \subseteq DOMAIN objs /\ S \subseteq Nat
    BY <1>4, Pointers DEF Range
  <1> HIDE DEF S
  <1>6. /\ k \in CallRec /\ k.op = call[t].op /\ k.pc = "AskQueues" /\ k.e = call[t].e
        /\ k.q = call[t].q /\ k.known = call[t].known /\ k.asked = S
    BY <1>2, <1>5, ZenonT(60) DEF CallRec
  <1> HIDE DEF k
  <1>7. Placed(k) /\ Bounded(k, queues, objs)
    BY <1>1, <1>2, <1>3, <1>5, <1>6 DEF Placed, Bounded
  <1> QED
    BY <1>1, <1>2, <1>6, <1>7, SameHistory, CallOnly

\* AskQueue.
LEMMA AskQueueStep ==
  ASSUME IInv, NEW t \in Calls, NEW q \in call[t].asked, AskQueue(t, q)
  PROVE  IInv'
  <1>1. /\ call[t].op = "DeleteExchange" /\ call[t].pc = "AskQueues"
        /\ UNCHANGED <<up, memory, database>> /\ UNCHANGED history
    BY DEF AskQueue, At
  <1>2. CASE HasConsumers(objs[q])
    <2>1. Leave(t)
      BY <1>2 DEF AskQueue
    <2> QED
      BY <1>1, <2>1, SameHistory, LeaveOnly
  <1>3. CASE ~HasConsumers(objs[q])
    <2> DEFINE S == call[t].asked \ {q}
               k == [call[t] EXCEPT !.asked = S]
    <2>1. call' = [call EXCEPT ![t] = k]
      BY <1>3 DEF AskQueue
    <2>2. /\ call[t] \in CallRec /\ Bounded(call[t], queues, objs) /\ up
      BY <1>1, Running
    <2>3. call[t].e # 0
      BY <1>1, Argued
    <2>4. S \subseteq DOMAIN objs /\ S \subseteq Nat
      BY <2>2, Pointers DEF Bounded
    <2> HIDE DEF S
    <2>5. /\ k \in CallRec /\ k.op = call[t].op /\ k.pc = call[t].pc /\ k.e = call[t].e
          /\ k.q = call[t].q /\ k.known = call[t].known /\ k.asked = S
      BY <2>2, <2>4 DEF CallRec
    <2> HIDE DEF k
    <2>6. Placed(k) /\ Bounded(k, queues, objs)
      BY <1>1, <2>2, <2>3, <2>4, <2>5 DEF Placed, Bounded
    <2> QED
      BY <1>1, <2>1, <2>2, <2>5, <2>6, SameHistory, CallOnly
  <1> QED
    BY <1>2, <1>3
----------------------------------------------------------------------------
(***************************************************************************)
(* The queue objects.                                                      *)
(***************************************************************************)
\* r is q after a method of core.Queue.
Same(q, r) ==
    /\ r \in Obj
    /\ r.IsDurable = q.IsDurable /\ r.IsAutoDelete = q.IsAutoDelete
    /\ r.MaxAttempts = q.MaxAttempts /\ r.Filters = q.Filters

\* The queues of the value lemmas are the objects.
LEMMA AsQueue ==
  ASSUME NEW q \in Obj
  PROVE  /\ q \in Queues(q, IDSet, Consumers, {})
         /\ \A r \in Queues(q, IDSet, Consumers, {}) : Same(q, r)
  BY DEF Obj, Queues, Same

\* EnqueueDelivery.
LEMMA EnqueuedObj ==
  ASSUME NEW q \in Obj, NEW d \in Deliveries(IDSet, Consumers)
  PROVE  /\ Same(q, Enqueued(q, d))
         /\ Enqueued(q, d).Ready = Append(q.Ready, d)
         /\ Enqueued(q, d).Consumers = q.Consumers
  <1>1. q \in Queues(q, IDSet, Consumers, {})
    BY AsQueue
  <1>2. /\ Enqueued(q, d).Ready = Append(q.Ready, d)
        /\ Enqueued(q, d).Consumers = q.Consumers
        /\ Enqueued(q, d) \in Queues(q, IDSet, Consumers, {})
    BY <1>1, EnqueuedFields
  <1> QED
    BY <1>2, AsQueue

\* AddConsumer.
LEMMA WithConsumerObj ==
  ASSUME NEW q \in Obj, NEW c \in Consumers
  PROVE  /\ Same(q, WithConsumer(q, c))
         /\ WithConsumer(q, c).Ready = q.Ready
         /\ WithConsumer(q, c).Consumers = q.Consumers \cup {c}
  BY DEF WithConsumer, Obj, Same

\* DisconnectConsumer when the consumer holds nothing.
LEMMA DisconnectedObj ==
  ASSUME NEW q \in Obj, NEW c
  PROVE  /\ Same(q, Disconnected(q, c, << >>))
         /\ Disconnected(q, c, << >>).Ready = q.Ready
         /\ Disconnected(q, c, << >>).Consumers = q.Consumers \ {c}
  <1>1. q \in Queues(q, IDSet, Consumers, {}) /\ q.Ready \in Seq(Deliveries(IDSet, Consumers))
    BY AsQueue DEF Obj
  <1>2. Returned(q, << >>) = << >>
    BY DEF Returned
  <1>3. Returned(q, << >>) \in Seq(Deliveries(IDSet, Consumers))
    BY <1>2, EmptySeq
  <1> DEFINE I == IDSet
             C == Consumers
             order == << >>
             D == Disconnected(q, c, order)
  <1> HIDE DEF I, C, order
  <1>4. q \in Queues(q, I, C, {}) /\ Returned(q, order) \in Seq(Deliveries(I, C))
    BY <1>1, <1>3 DEF I, C, order
  <1>5. /\ D \in Queues(q, I, C, {})
        /\ D.Ready = q.Ready \o Returned(q, order)
        /\ D.Consumers = q.Consumers \ {c}
    BY ONLY <1>4, DisconnectedFields
  <1>6. q.Ready \o Returned(q, order) = q.Ready
    BY <1>1, <1>2, ConcatEmptySeq DEF order
  <1> HIDE DEF D
  <1>7. Same(q, D) /\ D.Ready = q.Ready /\ D.Consumers = q.Consumers \ {c}
    BY <1>5, <1>6, AsQueue DEF I, C
  <1> QED
    BY <1>7 DEF D, order

\* RegisterQueue makes a sane queue out of what Accepted lets through.
LEMMA NewObj ==
  ASSUME NEW r \in Request, Accepted(r)
  PROVE  /\ NewQueueOf(r) \in Obj /\ SaneObj(NewQueueOf(r))
         /\ NewQueueOf(r).Filters = r.Filters /\ NewQueueOf(r).Ready = << >>
         /\ NewQueueOf(r).IsDurable = r.IsDurable /\ NewQueueOf(r).IsAutoDelete = r.IsAutoDelete
         /\ NewQueueOf(r).MaxAttempts = r.MaxAttempts /\ NewQueueOf(r).Consumers = {}
  <1> DEFINE q == NewQueueOf(r)
             e == [id \in {} |-> NoConsumer]
  <1>1. e \in InFlightMaps(IDSet, Consumers)
    BY InFlightMap
  <1> HIDE DEF e
  <1>2. q = [ IsDurable |-> r.IsDurable, IsAutoDelete |-> r.IsAutoDelete,
              MaxAttempts |-> r.MaxAttempts, Filters |-> r.Filters, Ready |-> << >>,
              InFlight |-> e, Consumers |-> {}, readyNotify |-> {} ]
    BY DEF NewQueueOf, NewQueue, e
  <1>3. /\ r.IsDurable \in BOOLEAN /\ r.IsAutoDelete \in BOOLEAN /\ r.MaxAttempts \in Nat
        /\ r.Filters \in Seq(Seq(Tokens))
    BY DEF Request, Accepted
  <1>4. r.Filters \in Seq(Filter)
    <2>1. ASSUME NEW i \in DOMAIN r.Filters PROVE r.Filters[i] \in Filter
      <3> DEFINE f == r.Filters[i]
      <3>1. f \in Seq(Tokens)
        BY <1>3, ElementOfSeq, LenProperties
      <3>2. Range(f) \subseteq Words \cup {Wildcard}
        BY DEF Accepted, validFilters, ValidFilter, Range
      <3> HIDE DEF f
      <3>3. f \in [1..Len(f) -> Words \cup {Wildcard}] /\ Len(f) \in Nat
        BY <3>1, <3>2, LenProperties DEF Range
      <3>4. f \in Seq(Words \cup {Wildcard})
        BY <3>3
      <3> QED
        BY <3>4 DEF Filter, f
    <2>2. r.Filters \in [1..Len(r.Filters) -> Filter] /\ Len(r.Filters) \in Nat
      BY <1>3, <2>1, LenProperties
    <2> QED
      BY <2>2
  <1>5. << >> \in Seq(Deliveries(IDSet, Consumers))
    OBVIOUS
  <1>6. << >> \notin Range(r.Filters) /\ ~(r.IsDurable /\ r.IsAutoDelete)
    BY DEF Accepted, validFilters, ValidFilter
  <1>7. /\ q.Filters = r.Filters /\ q.Ready = << >> /\ q.IsDurable = r.IsDurable
        /\ q.IsAutoDelete = r.IsAutoDelete /\ q.MaxAttempts = r.MaxAttempts /\ q.Consumers = {}
    BY <1>2
  <1>8. q \in Obj
    BY <1>1, <1>2, <1>3, <1>4, <1>5 DEF Obj
  <1> HIDE DEF q
  <1>9. SaneObj(q)
    BY <1>6, <1>7 DEF SaneObj
  <1> QED
    BY <1>7, <1>8, <1>9 DEF q
----------------------------------------------------------------------------
(***************************************************************************)
(* The steps that change more than their call.                             *)
(***************************************************************************)
\* What a step leaves of memory, tables and history.
Fine ==
    /\ up' = up
    /\ Memory(exchange', queues', objs') /\ Len(queues) <= Len(queues') /\ Len(objs) <= Len(objs')
    /\ Tables(exRow', qRows', dRows')
    /\ History(published', confirmed', consumed', objs')

\* A pointer stays good while the memory grows.
LEMMA StillBounded ==
  ASSUME NEW k, Bounded(k, queues, objs), IInv, Fine
  PROVE  Bounded(k, queues', objs')
  <1>1. /\ Len(queues') \in Nat /\ Len(objs') \in Nat /\ DOMAIN objs' = 1..Len(objs')
        /\ Len(queues) <= Len(queues') /\ Len(objs) <= Len(objs')
    BY LenProperties DEF Memory, Fine
  <1> QED
    BY <1>1, Pointers DEF Bounded

\* A call ends.
LEMMA LeaveStep ==
  ASSUME IInv, NEW t \in Calls, call[t].op # "none", Leave(t), Fine
  PROVE  IInv'
  <1>1. call' = [call EXCEPT ![t] = Idle]
    BY DEF Leave
  <1>2. Len(queues') \in Nat /\ Len(objs') \in Nat
    BY LenProperties DEF Memory, Fine
  <1>3. Idle \in CallRec /\ Placed(Idle) /\ Bounded(Idle, queues', objs')
    BY <1>2, IdleCall
  <1>4. up
    BY Running
  <1> QED
    BY <1>1, <1>3, <1>4, CallStep DEF Fine

\* A call goes on.
LEMMA GotoStep ==
  ASSUME IInv, NEW t \in Calls, call[t].op # "none", NEW p, Goto(t, p),
         p \in {"DeleteExchangeRow", "DeleteQueueRow", "HasConsumers", "RemoveQueue", "Return"},
         Placed([call[t] EXCEPT !.pc = p]), Fine
  PROVE  IInv'
  <1> DEFINE k == [call[t] EXCEPT !.pc = p]
  <1>1. call' = [call EXCEPT ![t] = k]
    BY DEF Goto
  <1>2. call[t] \in CallRec /\ Bounded(call[t], queues, objs) /\ up
    BY Running
  <1>3. /\ k \in CallRec /\ k.e = call[t].e /\ k.q = call[t].q /\ k.known = call[t].known
        /\ k.asked = call[t].asked
    BY <1>2, GotoFields
  <1>4. Placed(k)
    OBVIOUS
  <1> HIDE DEF k
  <1>5. Bounded(k, queues, objs)
    BY <1>2, <1>3 DEF Bounded
  <1>6. Bounded(k, queues', objs')
    BY <1>5, StillBounded
  <1> QED
    BY <1>1, <1>2, <1>3, <1>4, <1>6, CallStep DEF Fine

\* Nothing changes but the call.
LEMMA SameIsFine ==
  ASSUME IInv, UNCHANGED <<up, memory, database, history>>
  PROVE  Fine
  BY Pointers DEF IInv, Fine, memory, database, history

\* RemoveExchange.
LEMMA RemoveExchangeStep ==
  ASSUME IInv, NEW t \in Calls, RemoveExchange(t)
  PROVE  IInv'
  <1>1. /\ call[t].op = "DeleteExchange"
        /\ exchange' = 0
        /\ UNCHANGED <<up, queues, objs, exRow, qRows, dRows, published, confirmed, consumed>>
    BY DEF RemoveExchange, At, database, history
  <1>2. Fine
    BY <1>1, Pointers DEF IInv, Memory, Fine
  <1>3. CASE Leave(t)
    BY <1>1, <1>2, <1>3, LeaveStep
  <1>4. CASE Goto(t, "DeleteExchangeRow")
    <2> DEFINE k == [call[t] EXCEPT !.pc = "DeleteExchangeRow"]
    <2>1. k.pc = "DeleteExchangeRow" /\ k.op = call[t].op /\ k.e = call[t].e /\ call[t].e # 0
      BY <1>1, Running, GotoFields, Argued
    <2> HIDE DEF k
    <2>2. Placed(k)
      BY <1>1, <2>1 DEF Placed
    <2> QED
      BY <1>1, <1>2, <1>4, <2>2, GotoStep DEF k
  <1> QED
    BY <1>3, <1>4 DEF RemoveExchange

\* DeleteExchangeRow.
LEMMA DeleteExchangeRowStep ==
  ASSUME IInv, NEW t \in Calls, DeleteExchangeRow(t)
  PROVE  IInv'
  <1>1. /\ call[t].op = "DeleteExchange" /\ Leave(t)
        /\ exRow' = FALSE /\ qRows' = EmptyMap /\ dRows' = {}
        /\ UNCHANGED <<up, exchange, queues, objs, published, confirmed, consumed>>
    BY DEF DeleteExchangeRow, At, memory, history
  <1>2. Tables(exRow', qRows', dRows')
    <2>1. DOMAIN qRows' = {} /\ IsFiniteSet({}) /\ ~exRow' /\ exRow' \in BOOLEAN
      BY <1>1, FS_EmptySet DEF EmptyMap
    <2> QED
      BY <1>1, <2>1 DEF Tables
  <1>3. Fine
    BY <1>1, <1>2, Pointers DEF IInv, Fine
  <1> QED
    BY <1>1, <1>3, LeaveStep

\* RegisterQueue.
LEMMA RegisterQueueStep ==
  ASSUME IInv, NEW t \in Calls, NEW n \in QueueNames, NEW r \in Requests, RegisterQueue(t, n, r)
  PROVE  IInv'
  <1> DEFINE b == [Idle EXCEPT !.op = "RegisterQueue", !.pc = "RegisterQueue",
                               !.name = n, !.request = r]
             k == [b EXCEPT !.e = exchange]
  <1>1. /\ GetExchange(t, b)
        /\ UNCHANGED <<up, memory, database>> /\ UNCHANGED history
    BY DEF RegisterQueue
  <1>2. exchange \in Nat
    BY Pointers
  <1>3. /\ k \in CallRec /\ k.op = "RegisterQueue" /\ k.pc = "RegisterQueue"
        /\ k.name = n /\ k.request = r
        /\ k.e = exchange /\ k.q = 0 /\ k.known = 0 /\ k.asked = {}
    BY <1>2 DEF Idle, CallRec
  <1>4. k = [b EXCEPT !.e = exchange]
    OBVIOUS
  <1> HIDE DEF k, b
  <1>5. exchange # 0 => Placed(k)
    BY <1>3 DEF Placed
  <1>6. k.known \in 0..Len(objs)
    BY <1>3, Pointers
  <1> QED
    BY <1>1, <1>3, <1>4, <1>5, <1>6, SameHistory, Begins

\* DeleteQueue, AddConsumer and DisconnectConsumer.
LEMMA LookUpStep ==
  ASSUME IInv, NEW t \in Calls, NEW op, NEW n \in QueueNames, NEW c, LookUp(t, op, n, c),
         \/ op = "DeleteQueue" /\ c = NoConsumer
         \/ op \in {"AddConsumer", "DisconnectConsumer"} /\ c \in Consumers
  PROVE  IInv'
  <1> DEFINE b == [Idle EXCEPT !.op = op, !.pc = "GetQueue", !.name = n, !.consumer = c]
             k == [b EXCEPT !.e = exchange]
  <1>1. /\ GetExchange(t, b)
        /\ UNCHANGED <<up, memory, database>> /\ UNCHANGED history
    BY DEF LookUp
  <1>2. exchange \in Nat
    BY Pointers
  <1>3. /\ k \in CallRec /\ k.op = op /\ k.pc = "GetQueue" /\ k.name = n /\ k.consumer = c
        /\ k.e = exchange /\ k.q = 0 /\ k.known = 0 /\ k.asked = {}
    BY <1>2 DEF Idle, CallRec
  <1>4. k = [b EXCEPT !.e = exchange]
    OBVIOUS
  <1> HIDE DEF k, b
  <1>5. exchange # 0 => Placed(k)
    BY <1>3 DEF Placed
  <1>6. k.known \in 0..Len(objs)
    BY <1>3, Pointers
  <1> QED
    BY <1>1, <1>3, <1>4, <1>5, <1>6, SameHistory, Begins

\* Publish.
LEMMA PublishStep ==
  ASSUME IInv, NEW t \in Calls, NEW key \in Keys, Publish(t, key)
  PROVE  IInv'
  <1> DEFINE i == Len(published) + 1
             j == Len(objs)
             b == [Idle EXCEPT !.op = "Publish", !.pc = "Route", !.key = key,
                               !.number = i, !.known = j]
             k == [b EXCEPT !.e = exchange]
  <1>1. /\ GetExchange(t, b) /\ Len(published) < PublishBound
        /\ UNCHANGED <<up, memory, database>> /\ published' = Append(published, key)
        /\ UNCHANGED <<confirmed, consumed>>
    BY DEF Publish
  <1>2. exchange \in Nat /\ Len(objs) \in Nat
    BY Pointers
  <1>3. published \in Seq(Keys) /\ confirmed \cup consumed \subseteq DOMAIN objs
    BY DEF IInv, History
  <1>4. Len(published) \in Nat
    BY <1>3, LenProperties
  <1>5. /\ k \in CallRec /\ k.op = "Publish" /\ k.pc = "Route" /\ k.key = key
        /\ k.number = Len(published) + 1 /\ k.known = Len(objs)
        /\ k.e = exchange /\ k.q = 0 /\ k.asked = {}
    <2>1. i \in Nat /\ j \in Nat
      BY <1>2, <1>4
    <2> HIDE DEF i, j
    <2> DEFINE b1 == [Idle EXCEPT !.op = "Publish", !.pc = "Route", !.key = key]
               b2 == [b1 EXCEPT !.number = i, !.known = j]
    <2>2. b1 \in CallRec /\ b1.op = "Publish" /\ b1.pc = "Route" /\ b1.key = key
          /\ b1.q = 0 /\ b1.asked = {}
      BY DEF Idle, CallRec
    <2>3. b = b2
      OBVIOUS
    <2> HIDE DEF b1, b
    <2>4. k \in CallRec /\ k.op = "Publish" /\ k.pc = "Route" /\ k.key = key
          /\ k.number = i /\ k.known = j /\ k.e = exchange /\ k.q = 0 /\ k.asked = {}
      BY <1>2, <2>1, <2>2, <2>3 DEF CallRec
    <2> QED
      BY <2>4 DEF i, j
  <1>6. k = [b EXCEPT !.e = exchange]
    OBVIOUS
  <1> HIDE DEF k, b
  <1>7. k.number \in 1..PublishBound
    BY <1>1, <1>4, <1>5, RegistryAssumption
  <1>8. exchange # 0 => Placed(k)
    BY <1>5, <1>7 DEF Placed
  <1>9. k.known \in 0..Len(objs)
    BY <1>2, <1>5
  <1>10. published' \in Seq(Keys) /\ Len(published') = Len(published) + 1
    BY <1>1, <1>3, AppendProperties
  <1>11. History(published', confirmed', consumed', objs)
    BY <1>1, <1>3, <1>4, <1>10, RegistryAssumption DEF History
  <1> QED
    BY <1>1, <1>5, <1>6, <1>8, <1>9, <1>11, Begins

\* GetQueue.
LEMMA GetQueueStep ==
  ASSUME IInv, NEW t \in Calls, GetQueue(t)
  PROVE  IInv'
  <1> DEFINE e == call[t].e
             n == call[t].name
             q == queues[e][n]
  <1>1. /\ call[t].pc = "GetQueue" /\ UNCHANGED <<up, memory, database, history>>
        /\ UNCHANGED <<up, memory, database>> /\ UNCHANGED history
    BY DEF GetQueue
  <1>2. /\ call[t] \in CallRec /\ Placed(call[t]) /\ Bounded(call[t], queues, objs)
    BY Running
  <1>3. /\ call[t].op \in {"DeleteQueue", "AddConsumer", "DisconnectConsumer"}
        /\ call[t].op = "AddConsumer" => call[t].consumer \in Consumers
        /\ call[t].e # 0 /\ call[t].name \in QueueNames
    <2>1. Idle.pc = "none"
      BY DEF Idle
    <2> QED
      BY <1>1, <1>2, <2>1 DEF Placed
  <1>4. up /\ e \in DOMAIN queues
    BY <1>3, Running
  <1>5. CASE n \in DOMAIN queues[e]
    <2> DEFINE k == [call[t] EXCEPT !.pc = call[t].op, !.q = q]
    <2>1. call' = [call EXCEPT ![t] = k]
      BY <1>5 DEF GetQueue
    <2>2. q \in DOMAIN objs /\ q \in 1..Len(objs) /\ Len(objs) \in Nat
      BY <1>4, <1>5, Pointers
    <2> HIDE DEF q
    <2>3. /\ k \in CallRec /\ k.op = call[t].op /\ k.pc = call[t].op /\ k.q = q /\ k.e = call[t].e
          /\ k.name = call[t].name /\ k.consumer = call[t].consumer
          /\ k.known = call[t].known /\ k.asked = call[t].asked
      <3>1. q \in Nat
        BY <2>2
      <3> DEFINE o == call[t].op
                 c == call[t]
      <3>2. o \in {"DeleteQueue", "AddConsumer", "DisconnectConsumer"} /\ c \in CallRec
        BY <1>2, <1>3
      <3>3. k = [c EXCEPT !.pc = o, !.q = q] /\ o = c.op
        OBVIOUS
      <3> HIDE DEF o, c, k
      <3>4. /\ k \in CallRec /\ k.op = o /\ k.pc = o /\ k.q = q /\ k.e = c.e
            /\ k.name = c.name /\ k.consumer = c.consumer
            /\ k.known = c.known /\ k.asked = c.asked
        BY <3>1, <3>2, <3>3, ZenonT(60) DEF CallRec
      <3> QED
        BY <3>4 DEF o, c
    <2> HIDE DEF k
    <2>4. Placed(k)
      BY <1>3, <2>2, <2>3 DEF Placed
    <2>5. Bounded(k, queues, objs)
      BY <1>2, <2>2, <2>3 DEF Bounded
    <2> QED
      BY <1>1, <1>4, <2>1, <2>3, <2>4, <2>5, SameHistory, CallOnly
  <1>6. CASE n \notin DOMAIN queues[e]
    <2>1. Leave(t)
      BY <1>6 DEF GetQueue
    <2> QED
      BY <1>1, <1>3, <2>1, SameHistory, LeaveOnly
  <1> QED
    BY <1>5, <1>6

\* HasConsumers in DisconnectConsumer.
LEMMA DeleteIfUnusedStep ==
  ASSUME IInv, NEW t \in Calls, DeleteIfUnused(t)
  PROVE  IInv'
  <1>1. /\ call[t].op = "DisconnectConsumer" /\ call[t].pc = "HasConsumers"
        /\ UNCHANGED <<up, memory, database, history>>
    BY DEF DeleteIfUnused, At
  <1>2. Fine
    BY <1>1, SameIsFine
  <1>3. CASE Leave(t)
    BY <1>1, <1>2, <1>3, LeaveStep
  <1>4. CASE Goto(t, "RemoveQueue")
    <2> DEFINE k == [call[t] EXCEPT !.pc = "RemoveQueue"]
    <2>1. /\ k.pc = "RemoveQueue" /\ k.op = call[t].op /\ k.e = call[t].e
          /\ k.name = call[t].name /\ k.q = call[t].q
      BY Running, GotoFields
    <2> HIDE DEF k
    <2>2. k.e # 0 /\ k.name \in QueueNames /\ k.q # 0
      BY <1>1, <2>1, Argued
    <2>3. Placed(k)
      BY <1>1, <2>1, <2>2 DEF Placed
    <2> QED
      BY <1>1, <1>2, <1>4, <2>3, GotoStep DEF k
  <1> QED
    BY <1>3, <1>4 DEF DeleteIfUnused

\* Route.
LEMMA RouteStep ==
  ASSUME IInv, NEW t \in Calls, Route(t)
  PROVE  IInv'
  <1> DEFINE m == queues[call[t].e]
             I == {n \in DOMAIN m : MatchFilters(objs[m[n]].Filters, call[t].key)}
             J == {n \in DOMAIN m : objs[m[n]].IsDurable}
             k == [call[t] EXCEPT !.pc = "Deliver", !.items = I, !.durable = J]
  <1>1. /\ call[t].op = "Publish" /\ call[t].pc = "Route"
        /\ UNCHANGED <<up, memory, database>> /\ UNCHANGED history
    BY DEF Route, At
  <1>2. CASE ValidKey(call[t].key)
    <2>1. call' = [call EXCEPT ![t] = k]
      BY <1>2 DEF Route
    <2>2. I \subseteq QueueNames /\ J \subseteq QueueNames
      BY <1>1, Argued, Pointers
    <2>3. /\ call[t] \in CallRec /\ Bounded(call[t], queues, objs) /\ up
      BY <1>1, Running
    <2> HIDE DEF I, J
    <2>4. /\ k \in CallRec /\ k.op = call[t].op /\ k.pc = "Deliver" /\ k.e = call[t].e
          /\ k.q = call[t].q /\ k.known = call[t].known /\ k.asked = call[t].asked
          /\ k.key = call[t].key /\ k.number = call[t].number
      BY <2>2, <2>3, ZenonT(60) DEF CallRec
    <2> HIDE DEF k
    <2>5. Placed(k)
      BY <1>1, <2>4, Argued DEF Placed
    <2>6. Bounded(k, queues, objs)
      BY <2>3, <2>4 DEF Bounded
    <2> QED
      BY <1>1, <2>1, <2>3, <2>4, <2>5, <2>6, SameHistory, CallOnly
  <1>3. CASE ~ValidKey(call[t].key)
    <2>1. Leave(t)
      BY <1>3 DEF Route
    <2> QED
      BY <1>1, <2>1, SameHistory, LeaveOnly
  <1> QED
    BY <1>2, <1>3

\* PublishDone.
LEMMA PublishDoneStep ==
  ASSUME IInv, NEW t \in Calls, PublishDone(t)
  PROVE  IInv'
  <1>1. /\ call[t].op = "Publish" /\ Goto(t, "Return")
        /\ UNCHANGED <<up, memory, database, history>>
    BY DEF PublishDone, At
  <1>2. Fine
    BY <1>1, SameIsFine
  <1> DEFINE k == [call[t] EXCEPT !.pc = "Return"]
  <1>3. /\ k.pc = "Return" /\ k.op = call[t].op /\ k.e = call[t].e
        /\ k.key = call[t].key /\ k.number = call[t].number
    BY Running, GotoFields
  <1> HIDE DEF k
  <1>4. Placed(k)
    BY <1>1, <1>3, Argued DEF Placed
  <1> QED
    BY <1>1, <1>2, <1>4, GotoStep DEF k

\* Return.
LEMMA ReturnStep ==
  ASSUME IInv, NEW t \in Calls, Return(t)
  PROVE  IInv'
  <1>1. /\ call[t].pc = "Return" /\ Leave(t) /\ confirmed' = confirmed \cup ({call[t].q} \ {0})
        /\ UNCHANGED <<up, exchange, queues, objs, exRow, qRows, dRows, published, consumed>>
    BY DEF Return, memory, database
  <1>2. call[t].op # "none"
    <2>1. Idle.pc = "none"
      BY DEF Idle
    <2> QED
      BY <1>1, <2>1, Running DEF Placed
  <1>3. Fine
    <2>1. History(published', confirmed', consumed', objs')
      BY <1>1, Running DEF IInv, History
    <2> QED
      BY <1>1, <2>1, Pointers DEF IInv, Fine
  <1> QED
    BY <1>1, <1>2, <1>3, LeaveStep

\* StatementFails.
LEMMA StatementFailsStep ==
  ASSUME IInv, NEW t \in Calls, StatementFails(t)
  PROVE  IInv'
  <1>1. /\ AtStatement(t) /\ Leave(t)
        /\ UNCHANGED <<up, memory, database, history>>
    BY DEF StatementFails
  <1>2. call[t].op # "none"
    <2>1. Idle.pc = "none" /\ Idle.op = "none"
      BY DEF Idle
    <2>2. call[t].pc # "none"
      BY <1>1 DEF AtStatement, NextItem, At
    <2> QED
      BY <2>1, <2>2, Running DEF Placed
  <1> QED
    BY <1>1, <1>2, SameIsFine, LeaveStep

\* Crash.
LEMMA CrashStep ==
  ASSUME IInv, Crash
  PROVE  IInv'
  <1>1. /\ up' = FALSE /\ exchange' = 0 /\ queues' = << >> /\ objs' = << >>
        /\ call' = [t \in Calls |-> Idle] /\ confirmed' = {} /\ consumed' = {}
        /\ UNCHANGED <<exRow, qRows, dRows, published>>
    BY DEF Crash, database
  <1>2. Memory(exchange', queues', objs')
    BY <1>1, EmptySeq DEF Memory
  <1>3. Idle \in CallRec /\ Placed(Idle) /\ Bounded(Idle, queues', objs')
    BY <1>1, IdleCall
  <1>4. CallsOK(call', queues', objs')
    BY <1>1, <1>3 DEF CallsOK
  <1>5. History(published', confirmed', consumed', objs')
    BY <1>1 DEF IInv, History
  <1>6. Down(up', exchange', queues', objs', call')
    BY <1>1 DEF Down
  <1> QED
    BY <1>1, <1>2, <1>4, <1>5, <1>6 DEF IInv

\* A map of queues stays one when a name is given a queue.
LEMMA PutMap ==
  ASSUME NEW m \in Maps, NEW n \in QueueNames, NEW q \in Nat
  PROVE  /\ Put(m, n, q) \in Maps /\ DOMAIN Put(m, n, q) = DOMAIN m \cup {n}
         /\ Put(m, n, q)[n] = q
         /\ \A x \in DOMAIN m \ {n} : Put(m, n, q)[x] = m[x]
  <1>1. PICK S \in SUBSET QueueNames : m \in [S -> Nat]
    BY DEF Maps
  <1>2. /\ Put(m, n, q) \in [S \cup {n} -> Nat] /\ DOMAIN Put(m, n, q) = DOMAIN m \cup {n}
        /\ Put(m, n, q)[n] = q
        /\ \A x \in DOMAIN m \ {n} : Put(m, n, q)[x] = m[x]
    BY <1>1 DEF Put
  <1>3. S \cup {n} \in SUBSET QueueNames
    OBVIOUS
  <1> QED
    BY <1>2, <1>3 DEF Maps

\* And when a name is taken out.
LEMMA DeleteMap ==
  ASSUME NEW m \in Maps, NEW n
  PROVE  /\ Delete(m, {n}) \in Maps /\ DOMAIN Delete(m, {n}) = DOMAIN m \ {n}
         /\ \A x \in DOMAIN m \ {n} : Delete(m, {n})[x] = m[x]
  <1>1. PICK S \in SUBSET QueueNames : m \in [S -> Nat]
    BY DEF Maps
  <1>2. /\ Delete(m, {n}) \in [S \ {n} -> Nat] /\ DOMAIN Delete(m, {n}) = DOMAIN m \ {n}
        /\ \A x \in DOMAIN m \ {n} : Delete(m, {n})[x] = m[x]
    BY <1>1 DEF Delete, Restrict
  <1>3. S \ {n} \in SUBSET QueueNames
    OBVIOUS
  <1> QED
    BY <1>2, <1>3 DEF Maps

\* A step that changes one queue object.
LEMMA ObjChanges ==
  ASSUME IInv, NEW q \in DOMAIN objs, NEW r, Same(objs[q], r), objs' = [objs EXCEPT ![q] = r],
         UNCHANGED <<exchange, queues>>
  PROVE  /\ Memory(exchange', queues', objs') /\ Len(objs') = Len(objs)
         /\ DOMAIN objs' = DOMAIN objs
         /\ objs'[q] = r /\ \A x \in DOMAIN objs \ {q} : objs'[x] = objs[x]
         /\ Len(queues) <= Len(queues') /\ Len(objs) <= Len(objs')
  <1>1. r \in Obj /\ SaneObj(r)
    BY Pointers DEF Same, SaneObj
  <1>2. /\ objs \in Seq(Obj) /\ Len(objs) \in Nat /\ DOMAIN objs = 1..Len(objs)
        /\ queues \in Seq(Maps) /\ Len(queues) \in Nat
    BY Pointers
  <1>3. /\ objs' \in Seq(Obj) /\ Len(objs') = Len(objs) /\ DOMAIN objs' = DOMAIN objs
        /\ objs'[q] = r /\ \A x \in DOMAIN objs \ {q} : objs'[x] = objs[x]
    BY <1>1, <1>2, ExceptSeq
  <1>4. \A x \in DOMAIN objs' : SaneObj(objs'[x])
    BY <1>1, <1>3, Pointers
  <1>5. Memory(exchange', queues', objs')
    BY <1>3, <1>4, Pointers DEF Memory
  <1> QED
    BY <1>2, <1>3, <1>5

\* AddConsumer.
LEMMA AddConsumerStep ==
  ASSUME IInv, NEW t \in Calls, AddConsumer(t)
  PROVE  IInv'
  <1> DEFINE q == call[t].q
             r == WithConsumer(objs[q], call[t].consumer)
  <1>1. /\ call[t].op = "AddConsumer" /\ call[t].pc = "AddConsumer" /\ Leave(t)
        /\ objs' = [objs EXCEPT ![q] = r] /\ consumed' = consumed \cup {q}
        /\ UNCHANGED <<up, exchange, queues, exRow, qRows, dRows, published, confirmed>>
    BY DEF AddConsumer, At, database
  <1>2. q \in DOMAIN objs /\ call[t].consumer \in Consumers
    BY <1>1, Argued
  <1>3. Same(objs[q], r)
    BY <1>2, Pointers, WithConsumerObj
  <1> HIDE DEF r, q
  <1>4. /\ Memory(exchange', queues', objs') /\ DOMAIN objs' = DOMAIN objs
        /\ Len(queues) <= Len(queues') /\ Len(objs) <= Len(objs')
    BY <1>1, <1>2, <1>3, ObjChanges
  <1>5. History(published', confirmed', consumed', objs')
    BY <1>1, <1>2, <1>4 DEF IInv, History
  <1>6. Fine
    BY <1>1, <1>4, <1>5 DEF IInv, Fine
  <1> QED
    BY <1>1, <1>6, LeaveStep

\* DisconnectConsumer.
LEMMA DisconnectConsumerStep ==
  ASSUME IInv, NEW t \in Calls, DisconnectConsumer(t)
  PROVE  IInv'
  <1> DEFINE q == call[t].q
             r == Disconnected(objs[q], call[t].consumer, << >>)
  <1>1. /\ call[t].op = "DisconnectConsumer" /\ call[t].pc = "DisconnectConsumer"
        /\ objs' = [objs EXCEPT ![q] = r]
        /\ UNCHANGED <<up, exchange, queues, exRow, qRows, dRows, published, confirmed, consumed>>
        /\ Leave(t) \/ Goto(t, "HasConsumers")
    BY DEF DisconnectConsumer, At, database, history
  <1>2. q \in DOMAIN objs
    BY <1>1, Argued
  <1>3. Same(objs[q], r)
    BY <1>2, Pointers, DisconnectedObj
  <1> HIDE DEF r, q
  <1>4. /\ Memory(exchange', queues', objs') /\ DOMAIN objs' = DOMAIN objs
        /\ Len(queues) <= Len(queues') /\ Len(objs) <= Len(objs')
    BY <1>1, <1>2, <1>3, ObjChanges
  <1>5. History(published', confirmed', consumed', objs')
    BY <1>1, <1>4 DEF IInv, History
  <1>6. Fine
    BY <1>1, <1>4, <1>5 DEF IInv, Fine
  <1>7. CASE Leave(t)
    BY <1>1, <1>6, <1>7, LeaveStep
  <1>8. CASE Goto(t, "HasConsumers")
    <2> DEFINE k == [call[t] EXCEPT !.pc = "HasConsumers"]
    <2>1. /\ k.pc = "HasConsumers" /\ k.op = call[t].op /\ k.e = call[t].e
          /\ k.name = call[t].name /\ k.q = call[t].q
      BY Running, GotoFields
    <2> HIDE DEF k
    <2>2. k.e # 0 /\ k.name \in QueueNames /\ k.q # 0
      BY <1>1, <2>1, Argued
    <2>3. Placed(k)
      BY <1>1, <2>1, <2>2 DEF Placed
    <2> QED
      BY <1>1, <1>6, <1>8, <2>3, GotoStep DEF k
  <1> QED
    BY <1>1, <1>7, <1>8

\* A step that takes a name out of an exchange object.
LEMMA NameRemoved ==
  ASSUME IInv, NEW e \in DOMAIN queues, NEW n, RemoveName(e, n), UNCHANGED <<exchange, objs>>
  PROVE  /\ Memory(exchange', queues', objs') /\ Len(queues') = Len(queues)
         /\ DOMAIN queues' = DOMAIN queues
         /\ \A f \in DOMAIN queues \ {e} : queues'[f] = queues[f]
         /\ DOMAIN queues'[e] = DOMAIN queues[e] \ {n}
         /\ \A x \in DOMAIN queues[e] \ {n} : queues'[e][x] = queues[e][x]
         /\ Len(queues) <= Len(queues') /\ Len(objs) <= Len(objs')
  <1> DEFINE m == Delete(queues[e], {n})
  <1>1. /\ objs \in Seq(Obj) /\ Len(objs) \in Nat
        /\ queues \in Seq(Maps) /\ Len(queues) \in Nat /\ DOMAIN queues = 1..Len(queues)
    BY Pointers
  <1>2. queues[e] \in Maps
    BY <1>1, ElementOfSeq
  <1>3. /\ m \in Maps /\ DOMAIN m = DOMAIN queues[e] \ {n}
        /\ \A x \in DOMAIN queues[e] \ {n} : m[x] = queues[e][x]
    BY <1>2, DeleteMap
  <1>4. queues' = [queues EXCEPT ![e] = m]
    BY DEF RemoveName
  <1> HIDE DEF m
  <1>5. /\ queues' \in Seq(Maps) /\ Len(queues') = Len(queues) /\ DOMAIN queues' = DOMAIN queues
        /\ queues'[e] = m /\ \A f \in DOMAIN queues \ {e} : queues'[f] = queues[f]
    BY <1>1, <1>3, <1>4, ExceptSeq
  <1>6. \A f \in DOMAIN queues' : \A x \in DOMAIN queues'[f] : queues'[f][x] \in DOMAIN objs
    <2> TAKE f \in DOMAIN queues'
    <2> TAKE x \in DOMAIN queues'[f]
    <2>1. CASE f = e
      BY <1>3, <1>5, <2>1, Pointers
    <2>2. CASE f # e
      BY <1>5, <2>2, Pointers
    <2> QED
      BY <2>1, <2>2
  <1>7. Memory(exchange', queues', objs')
    BY <1>5, <1>6, Pointers DEF Memory
  <1> QED
    BY <1>1, <1>3, <1>5, <1>7

\* RemoveQueue.
LEMMA RemoveQueueStep ==
  ASSUME IInv, NEW t \in Calls, RemoveQueue(t)
  PROVE  IInv'
  <1>1. /\ call[t].op = "DisconnectConsumer" /\ RemoveName(call[t].e, call[t].name) /\ Leave(t)
        /\ UNCHANGED <<up, exchange, objs, exRow, qRows, dRows, published, confirmed, consumed>>
    BY DEF RemoveQueue, At, database, history
  <1>2. call[t].e \in DOMAIN queues
    BY <1>1, Argued
  <1>3. /\ Memory(exchange', queues', objs')
        /\ Len(queues) <= Len(queues') /\ Len(objs) <= Len(objs')
    BY <1>1, <1>2, NameRemoved
  <1>4. Fine
    BY <1>1, <1>3 DEF IInv, Fine
  <1> QED
    BY <1>1, <1>4, LeaveStep

\* DeleteQueue.
LEMMA DeleteQueueStep ==
  ASSUME IInv, NEW t \in Calls, DeleteQueue(t)
  PROVE  IInv'
  <1>1. /\ call[t].op = "DeleteQueue" /\ call[t].pc = "DeleteQueue"
        /\ UNCHANGED <<up, exchange, objs, exRow, qRows, dRows, published, confirmed, consumed>>
        /\ RemoveName(call[t].e, call[t].name) \/ UNCHANGED queues
        /\ Goto(t, "DeleteQueueRow") \/ Leave(t)
    BY DEF DeleteQueue, At, database, history
  <1>2. call[t].e \in DOMAIN queues
    BY <1>1, Argued
  <1>3. /\ Memory(exchange', queues', objs')
        /\ Len(queues) <= Len(queues') /\ Len(objs) <= Len(objs')
    <2>1. CASE RemoveName(call[t].e, call[t].name)
      BY <1>1, <1>2, <2>1, NameRemoved
    <2>2. CASE UNCHANGED queues
      BY <1>1, <2>2, Pointers DEF IInv
    <2> QED
      BY <1>1, <2>1, <2>2
  <1>4. Fine
    BY <1>1, <1>3 DEF IInv, Fine
  <1>5. CASE Goto(t, "DeleteQueueRow")
    <2> DEFINE k == [call[t] EXCEPT !.pc = "DeleteQueueRow"]
    <2>1. /\ k.pc = "DeleteQueueRow" /\ k.op = call[t].op /\ k.e = call[t].e
          /\ k.name = call[t].name /\ k.q = call[t].q
      BY Running, GotoFields
    <2> HIDE DEF k
    <2>2. k.e # 0 /\ k.name \in QueueNames /\ k.q # 0
      BY <1>1, <2>1, Argued
    <2>3. Placed(k)
      BY <1>1, <2>1, <2>2 DEF Placed
    <2> QED
      BY <1>1, <1>4, <1>5, <2>3, GotoStep DEF k
  <1>6. CASE Leave(t)
    BY <1>1, <1>4, <1>6, LeaveStep
  <1> QED
    BY <1>1, <1>5, <1>6

\* The call holds the queue it has registered or found.
LEMMA RegisteredStep ==
  ASSUME IInv, NEW t \in Calls, call[t].op = "RegisterQueue", call[t].pc = "RegisterQueue",
         NEW q, q \in DOMAIN objs', q # 0, NEW d, Registered(t, q, d), Fine
  PROVE  IInv'
  <1> DEFINE p == IF d THEN "SaveQueue" ELSE "Return"
             c == call[t]
             k == [c EXCEPT !.q = q, !.pc = p]
  <1>1. call' = [call EXCEPT ![t] = k]
    BY DEF Registered
  <1>2. c \in CallRec /\ Bounded(c, queues, objs) /\ up
    BY Running
  <1>3. c.op = "RegisterQueue" /\ c.e # 0 /\ c.name \in QueueNames /\ c.request \in Requests
    BY Argued
  <1>4. p \in {"SaveQueue", "Return"}
    OBVIOUS
  <1>5. DOMAIN objs' = 1..Len(objs') /\ Len(objs') \in Nat
    BY LenProperties DEF Fine, Memory
  <1>6. q \in Nat /\ q \in 0..Len(objs')
    BY <1>5
  <1> HIDE DEF p, c
  <1>7. /\ k \in CallRec /\ k.op = c.op /\ k.pc = p /\ k.q = q /\ k.e = c.e /\ k.name = c.name
        /\ k.request = c.request /\ k.known = c.known /\ k.asked = c.asked
    BY <1>2, <1>4, <1>6, ZenonT(60) DEF CallRec
  <1> HIDE DEF k
  <1>8. Placed(k)
    BY <1>3, <1>4, <1>7 DEF Placed
  <1>9. Bounded(k, queues', objs')
    <2>1. Bounded(c, queues', objs')
      BY <1>2, StillBounded
    <2> QED
      BY <1>6, <1>7, <2>1 DEF Bounded
  <1> QED
    BY <1>1, <1>2, <1>7, <1>8, <1>9, CallStep DEF Fine

\* RegisterInExchange makes a new object.
LEMMA NewRegistration ==
  ASSUME IInv, NEW e \in DOMAIN queues, NEW n \in QueueNames, NEW r \in Requests, Accepted(r),
         objs' = Append(objs, NewQueueOf(r)),
         queues' = [queues EXCEPT ![e] = Put(@, n, Len(objs) + 1)],
         exchange' = exchange
  PROVE  /\ Memory(exchange', queues', objs')
         /\ Len(queues') = Len(queues) /\ DOMAIN queues' = DOMAIN queues
         /\ Len(objs') = Len(objs) + 1 /\ DOMAIN objs' = DOMAIN objs \cup {Len(objs) + 1}
         /\ objs'[Len(objs) + 1] = NewQueueOf(r)
         /\ \A x \in DOMAIN objs : objs'[x] = objs[x]
         /\ \A f \in DOMAIN queues \ {e} : queues'[f] = queues[f]
         /\ DOMAIN queues'[e] = DOMAIN queues[e] \cup {n} /\ queues'[e][n] = Len(objs) + 1
         /\ \A x \in DOMAIN queues[e] \ {n} : queues'[e][x] = queues[e][x]
         /\ Len(queues) <= Len(queues') /\ Len(objs) <= Len(objs')
  <1> DEFINE q == Len(objs) + 1
             m == Put(queues[e], n, q)
             o == NewQueueOf(r)
  <1>1. /\ objs \in Seq(Obj) /\ Len(objs) \in Nat /\ DOMAIN objs = 1..Len(objs)
        /\ queues \in Seq(Maps) /\ Len(queues) \in Nat /\ DOMAIN queues = 1..Len(queues)
    BY Pointers
  <1>2. queues[e] \in Maps /\ q \in Nat
    BY <1>1, ElementOfSeq
  <1>3. /\ m \in Maps /\ DOMAIN m = DOMAIN queues[e] \cup {n} /\ m[n] = q
        /\ \A x \in DOMAIN queues[e] \ {n} : m[x] = queues[e][x]
    BY <1>2, PutMap, ZenonT(60)
  <1>4. queues' = [queues EXCEPT ![e] = m]
    OBVIOUS
  <1>5. o \in Obj /\ SaneObj(o)
    BY NewObj, RegistryAssumption
  <1> HIDE DEF m, o
  <1>6. /\ queues' \in Seq(Maps) /\ Len(queues') = Len(queues) /\ DOMAIN queues' = DOMAIN queues
        /\ queues'[e] = m /\ \A f \in DOMAIN queues \ {e} : queues'[f] = queues[f]
    BY <1>1, <1>3, <1>4, ExceptSeq
  <1>7. objs' = Append(objs, o)
    BY DEF o
  <1>8. /\ objs' \in Seq(Obj) /\ Len(objs') = Len(objs) + 1 /\ objs'[Len(objs) + 1] = o
        /\ \A x \in 1..Len(objs) : objs'[x] = objs[x]
    BY <1>1, <1>5, <1>7, AppendProperties
  <1>9. DOMAIN objs' = DOMAIN objs \cup {q}
    BY <1>1, <1>8, LenProperties
  <1>10. \A x \in DOMAIN objs' : SaneObj(objs'[x])
    BY <1>1, <1>5, <1>8, <1>9, Pointers
  <1>11. \A f \in DOMAIN queues' : \A x \in DOMAIN queues'[f] : queues'[f][x] \in DOMAIN objs'
    <2> TAKE f \in DOMAIN queues'
    <2> TAKE x \in DOMAIN queues'[f]
    <2>1. CASE f = e /\ x = n
      BY <1>3, <1>6, <1>9, <2>1
    <2>2. CASE f = e /\ x # n
      <3>1. x \in DOMAIN queues[e] \ {n} /\ queues'[f][x] = queues[e][x]
        BY <1>3, <1>6, <2>2
      <3> QED
        BY <1>9, <3>1, Pointers
    <2>3. CASE f # e
      BY <1>6, <1>9, <2>3, Pointers
    <2> QED
      BY <2>1, <2>2, <2>3
  <1>12. exchange' \in 0..Len(queues')
    BY <1>6, Pointers
  <1>13. Memory(exchange', queues', objs')
    BY <1>6, <1>8, <1>10, <1>11, <1>12 DEF Memory
  <1> QED
    BY <1>1, <1>3, <1>6, <1>8, <1>9, <1>13 DEF o

\* RegisterInExchange.
LEMMA RegisterInExchangeStep ==
  ASSUME IInv, NEW t \in Calls, RegisterInExchange(t)
  PROVE  IInv'
  <1> DEFINE e == call[t].e
             n == call[t].name
             r == call[t].request
  <1>1. /\ call[t].op = "RegisterQueue" /\ call[t].pc = "RegisterQueue"
        /\ UNCHANGED <<up, exchange, exRow, qRows, dRows, published, confirmed, consumed>>
    BY DEF RegisterInExchange, At, database, history
  <1>2. e \in DOMAIN queues /\ n \in QueueNames /\ r \in Requests
    BY <1>1, Argued
  <1>3. CASE UNCHANGED <<queues, objs>> /\ Leave(t)
    <2>1. Fine
      BY <1>1, <1>3, Pointers DEF IInv, Fine
    <2> QED
      BY <1>1, <1>3, <2>1, LeaveStep
  <1>4. CASE /\ UNCHANGED <<queues, objs>> /\ n \in DOMAIN queues[e]
             /\ Registered(t, queues[e][n], r.IsDurable)
    <2>1. Fine
      BY <1>1, <1>4, Pointers DEF IInv, Fine
    <2>2. queues[e][n] \in DOMAIN objs' /\ queues[e][n] # 0
      BY <1>2, <1>4, Pointers
    <2> QED
      BY <1>1, <1>4, <2>1, <2>2, RegisteredStep
  <1>5. CASE /\ Accepted(r) /\ objs' = Append(objs, NewQueueOf(r))
             /\ queues' = [queues EXCEPT ![e] = Put(@, n, Len(objs) + 1)]
             /\ Registered(t, Len(objs) + 1, r.IsDurable)
    <2> HIDE DEF e, n, r
    <2>1. /\ Memory(exchange', queues', objs') /\ DOMAIN objs' = DOMAIN objs \cup {Len(objs) + 1}
          /\ Len(queues) <= Len(queues') /\ Len(objs) <= Len(objs')
      BY <1>1, <1>2, <1>5, NewRegistration
    <2>2. History(published', confirmed', consumed', objs')
      BY <1>1, <2>1 DEF IInv, History
    <2>3. Fine
      BY <1>1, <2>1, <2>2 DEF IInv, Fine
    <2>4. Len(objs) + 1 \in DOMAIN objs' /\ Len(objs) + 1 # 0
      BY <2>1, Pointers
    <2> QED
      BY <1>1, <1>5, <2>3, <2>4, RegisteredStep
  <1>6. \/ UNCHANGED <<queues, objs>> /\ Leave(t)
        \/ /\ UNCHANGED <<queues, objs>> /\ n \in DOMAIN queues[e]
           /\ Registered(t, queues[e][n], r.IsDurable)
        \/ /\ Accepted(r) /\ objs' = Append(objs, NewQueueOf(r))
           /\ queues' = [queues EXCEPT ![e] = Put(@, n, Len(objs) + 1)]
           /\ Registered(t, Len(objs) + 1, r.IsDurable)
    BY DEF RegisterInExchange
  <1> QED
    BY <1>3, <1>4, <1>5, <1>6

\* What SaveQueue writes is a row that Restore accepts.
LEMMA SavedRows ==
  ASSUME NEW er, er, Tables(er, qRows, dRows), NEW n \in QueueNames, NEW q \in Obj, SaneObj(q)
  PROVE  /\ Tables(er, SavedQueue(qRows, n, q), dRows)
         /\ DOMAIN SavedQueue(qRows, n, q) = DOMAIN qRows \cup {n}
         /\ \A x \in DOMAIN qRows \ {n} : SavedQueue(qRows, n, q)[x] = qRows[x]
         /\ n \in DOMAIN qRows => SavedQueue(qRows, n, q)[n] =
              [qRows[n] EXCEPT !.Filters = @ \cup Range(q.Filters)]
         /\ n \notin DOMAIN qRows => SavedQueue(qRows, n, q)[n] =
              [IsDurable |-> q.IsDurable, IsAutoDelete |-> q.IsAutoDelete,
               MaxAttempts |-> q.MaxAttempts, Filters |-> Range(q.Filters)]
  <1> DEFINE F == Range(q.Filters)
             old == [qRows[n] EXCEPT !.Filters = @ \cup F]
             new == [IsDurable |-> q.IsDurable, IsAutoDelete |-> q.IsAutoDelete,
                     MaxAttempts |-> q.MaxAttempts, Filters |-> F]
             row == IF n \in DOMAIN qRows THEN old ELSE new
             rows == SavedQueue(qRows, n, q)
  <1>1. /\ q.IsDurable \in BOOLEAN /\ q.IsAutoDelete \in BOOLEAN /\ q.MaxAttempts \in Nat
        /\ q.Filters \in Seq(Filter)
    BY DEF Obj
  <1>2. F \subseteq Filter /\ IsFiniteSet(F) /\ << >> \notin F
    <2>1. IsFiniteSet(F)
      BY <1>1, DifferentElements
    <2>2. F \subseteq Filter
      BY <1>1, ElementOfSeq, LenProperties DEF Range
    <2> QED
      BY <2>1, <2>2 DEF SaneObj
  <1> HIDE DEF F
  <1>3. new \in Row /\ SaneRow(new)
    BY <1>1, <1>2 DEF Row, SaneRow, SaneObj
  <1>4. n \in DOMAIN qRows => old \in Row /\ SaneRow(old)
    <2> HAVE n \in DOMAIN qRows
    <2> DEFINE s == qRows[n]
               G == s.Filters \cup F
    <2>1. s \in Row /\ SaneRow(s)
      BY DEF Tables
    <2> HIDE DEF s
    <2>2. G \subseteq Filter /\ IsFiniteSet(G) /\ << >> \notin G
      BY <1>2, <2>1, FS_Union DEF Row, SaneRow
    <2>3. old = [s EXCEPT !.Filters = G]
      BY DEF s
    <2> HIDE DEF G, old
    <2>4. /\ old \in Row /\ old.IsDurable = s.IsDurable /\ old.IsAutoDelete = s.IsAutoDelete
          /\ old.Filters = G
      BY <2>1, <2>2, <2>3 DEF Row
    <2> QED
      BY <2>1, <2>2, <2>4 DEF SaneRow
  <1>5. row \in Row /\ SaneRow(row)
    BY <1>3, <1>4
  <1>6. rows = Put(qRows, n, row)
    BY DEF SavedQueue, F
  <1> HIDE DEF old, new, rows
  <1>7. /\ n \in DOMAIN qRows => row = old
        /\ n \notin DOMAIN qRows => row = new
    OBVIOUS
  <1> HIDE DEF row
  <1>8. /\ DOMAIN rows = DOMAIN qRows \cup {n} /\ rows[n] = row
        /\ \A x \in DOMAIN qRows \ {n} : rows[x] = qRows[x]
    BY <1>6 DEF Put
  <1>9. IsFiniteSet(DOMAIN qRows \cup {n})
    BY FS_AddElement DEF Tables
  <1>10. \A x \in DOMAIN rows : rows[x] \in Row /\ SaneRow(rows[x])
    BY <1>5, <1>8 DEF Tables
  <1>11. Tables(er, rows, dRows)
    BY <1>8, <1>9, <1>10 DEF Tables
  <1> QED
    BY <1>7, <1>8, <1>11 DEF rows, old, new, F

\* SaveQueue.
LEMMA SaveQueueStep ==
  ASSUME IInv, NEW t \in Calls, SaveQueue(t)
  PROVE  IInv'
  <1>1. /\ call[t].op = "RegisterQueue" /\ call[t].pc = "SaveQueue"
        /\ UNCHANGED <<up, exchange, queues, objs, exRow, dRows, published, confirmed, consumed>>
    BY DEF SaveQueue, At, memory, history
  <1>2. /\ call[t].e # 0 /\ call[t].name \in QueueNames /\ call[t].request \in Requests
        /\ call[t].q # 0 /\ call[t].q \in DOMAIN objs
    BY <1>1, Argued
  <1>3. CASE exRow
    <2>1. qRows' = SavedQueue(qRows, call[t].name, objs[call[t].q]) /\ Goto(t, "Return")
      BY <1>3 DEF SaveQueue
    <2>2. Tables(exRow, qRows, dRows)
      BY DEF IInv
    <2>3. Tables(exRow, qRows', dRows)
      BY <1>2, <1>3, <2>1, <2>2, Pointers, SavedRows
    <2>4. Fine
      BY <1>1, <2>3, Pointers DEF IInv, Fine
    <2> DEFINE k == [call[t] EXCEPT !.pc = "Return"]
    <2>5. /\ k.pc = "Return" /\ k.op = call[t].op /\ k.e = call[t].e
          /\ k.name = call[t].name /\ k.q = call[t].q /\ k.request = call[t].request
      BY Running, GotoFields
    <2> HIDE DEF k
    <2>6. Placed(k)
      BY <1>1, <1>2, <2>5 DEF Placed
    <2> QED
      BY <1>1, <2>1, <2>4, <2>6, GotoStep DEF k
  <1>4. CASE ~exRow
    <2>1. Leave(t) /\ UNCHANGED <<up, memory, database, history>>
      BY <1>1, <1>4 DEF SaveQueue, memory, database, history
    <2> QED
      BY <1>1, <2>1, SameIsFine, LeaveStep
  <1> QED
    BY <1>3, <1>4

\* DeleteQueueRow.
LEMMA DeleteQueueRowStep ==
  ASSUME IInv, NEW t \in Calls, DeleteQueueRow(t)
  PROVE  IInv'
  <1> DEFINE n == call[t].name
  <1>1. /\ call[t].op = "DeleteQueue" /\ Leave(t)
        /\ qRows' = Delete(qRows, {n}) /\ dRows' = {id \in dRows : id[2] # n}
        /\ UNCHANGED <<up, exchange, queues, objs, exRow, published, confirmed, consumed>>
    BY DEF DeleteQueueRow, At, memory, history
  <1> HIDE DEF n
  <1>2. /\ DOMAIN qRows' = DOMAIN qRows \ {n}
        /\ \A x \in DOMAIN qRows \ {n} : qRows'[x] = qRows[x]
    BY <1>1 DEF Delete, Restrict
  <1>3. IsFiniteSet(DOMAIN qRows') /\ IsFiniteSet(dRows')
    BY <1>1, <1>2, FS_Subset DEF IInv, Tables
  <1>4. Tables(exRow', qRows', dRows')
    BY <1>1, <1>2, <1>3 DEF IInv, Tables
  <1>5. Fine
    BY <1>1, <1>4, Pointers DEF IInv, Fine
  <1> QED
    BY <1>1, <1>5, LeaveStep

\* EnqueueDelivery.
LEMMA EnqueueDeliveryStep ==
  ASSUME IInv, NEW t \in Calls, call[t].op = "Publish", call[t].pc = "Deliver",
         NEW n \in QueueNames, EnqueueDelivery(t, n)
  PROVE  IInv'
  <1> DEFINE e == call[t].e
             m == queues[e]
             d == NewDelivery(DeliveryID(call[t].number, n))
             q == m[n]
             r == Enqueued(objs[q], d)
  <1>1. UNCHANGED <<up, exchange, queues, exRow, qRows, dRows, published, confirmed, consumed>>
    BY DEF EnqueueDelivery, database, history
  <1>2. e \in DOMAIN queues /\ call[t].number \in 1..PublishBound /\ call[t].e # 0
        /\ call[t].key \in Keys
    BY Argued
  <1>3. CASE n \in DOMAIN m
    <2> DEFINE c == call[t]
               I == c.items \ {n}
               k == [c EXCEPT !.items = I, !.saved = {}]
    <2>1. objs' = [objs EXCEPT ![q] = r] /\ call' = [call EXCEPT ![t] = k]
      BY <1>3 DEF EnqueueDelivery
    <2>2. q \in DOMAIN objs /\ objs[q] \in Obj
      BY <1>2, <1>3, Pointers
    <2>3. d \in Deliveries(IDSet, Consumers)
      BY <1>2 DEF NewDelivery, Deliveries, DeliveryID, IDSet
    <2>4. Same(objs[q], r)
      BY <2>2, <2>3, EnqueuedObj
    <2> HIDE DEF r, q
    <2>5. /\ Memory(exchange', queues', objs') /\ DOMAIN objs' = DOMAIN objs
          /\ Len(queues) <= Len(queues') /\ Len(objs) <= Len(objs')
      BY <1>1, <2>1, <2>2, <2>4, ObjChanges
    <2>6. Fine
      <3>1. History(published', confirmed', consumed', objs')
        BY <1>1, <2>5 DEF IInv, History
      <3> QED
        BY <1>1, <2>5, <3>1 DEF IInv, Fine
    <2>7. c \in CallRec /\ Bounded(c, queues, objs) /\ up
      BY Running
    <2>8. I \subseteq QueueNames
      BY <2>7 DEF CallRec
    <2> HIDE DEF c, I
    <2>9. /\ k \in CallRec /\ k.op = c.op /\ k.pc = c.pc /\ k.q = c.q /\ k.e = c.e
          /\ k.key = c.key /\ k.number = c.number /\ k.known = c.known /\ k.asked = c.asked
      BY <2>7, <2>8 DEF CallRec
    <2> HIDE DEF k
    <2>10. Placed(k)
      BY <1>2, <2>9 DEF Placed, c
    <2>11. Bounded(k, queues', objs')
      <3>1. Bounded(c, queues', objs')
        BY <2>6, <2>7, StillBounded
      <3> QED
        BY <2>9, <3>1 DEF Bounded
    <2> QED
      BY <2>1, <2>6, <2>7, <2>9, <2>10, <2>11, CallStep DEF Fine
  <1>4. CASE n \notin DOMAIN m
    <2>1. Leave(t) /\ UNCHANGED <<up, memory, database, history>>
      BY <1>1, <1>4 DEF EnqueueDelivery, memory, database, history
    <2> QED
      BY <2>1, SameIsFine, LeaveStep
  <1> QED
    BY <1>3, <1>4

\* SaveReadyDelivery.
LEMMA SaveReadyDeliveryStep ==
  ASSUME IInv, NEW t \in Calls, NEW n \in QueueNames, SaveReadyDelivery(t, n)
  PROVE  IInv'
  <1>1. /\ call[t].op = "Publish" /\ call[t].pc = "Deliver"
        /\ UNCHANGED <<up, exchange, queues, objs, exRow, qRows, published, confirmed, consumed>>
    BY DEF SaveReadyDelivery, NextItem, At, memory, history
  <1>2. call[t].number \in 1..PublishBound /\ call[t].e # 0 /\ call[t].key \in Keys
    BY <1>1, Argued
  <1>3. CASE n \in DOMAIN qRows
    <2> DEFINE c == call[t]
               k == [c EXCEPT !.saved = {n}]
               id == DeliveryID(c.number, n)
    <2>1. dRows' = dRows \cup {id} /\ call' = [call EXCEPT ![t] = k]
      BY <1>3 DEF SaveReadyDelivery
    <2>2. id \in IDSet /\ id[2] = n
      BY <1>2 DEF DeliveryID, IDSet
    <2>3. IsFiniteSet(dRows')
      BY <2>1, FS_AddElement DEF IInv, Tables
    <2> HIDE DEF id
    <2>4. Tables(exRow', qRows', dRows')
      BY <1>1, <1>3, <2>1, <2>2, <2>3 DEF IInv, Tables
    <2>5. Fine
      BY <1>1, <2>4, Pointers DEF IInv, Fine
    <2>6. c \in CallRec /\ Bounded(c, queues, objs) /\ up
      BY <1>1, Running
    <2> HIDE DEF c
    <2>7. /\ k \in CallRec /\ k.op = c.op /\ k.pc = c.pc /\ k.q = c.q /\ k.e = c.e
          /\ k.key = c.key /\ k.number = c.number /\ k.known = c.known /\ k.asked = c.asked
      BY <2>6, ZenonT(60) DEF CallRec
    <2> HIDE DEF k
    <2>8. Placed(k)
      BY <1>1, <1>2, <2>7 DEF Placed, c
    <2>9. Bounded(k, queues', objs')
      <3>1. Bounded(c, queues', objs')
        BY <2>5, <2>6, StillBounded
      <3> QED
        BY <2>7, <3>1 DEF Bounded
    <2> QED
      BY <2>1, <2>5, <2>6, <2>7, <2>8, <2>9, CallStep DEF Fine
  <1>4. CASE n \notin DOMAIN qRows
    <2>1. Leave(t) /\ UNCHANGED <<up, memory, database, history>>
      BY <1>1, <1>4 DEF SaveReadyDelivery, memory, database, history
    <2> QED
      BY <1>1, <2>1, SameIsFine, LeaveStep
  <1> QED
    BY <1>3, <1>4

\* AnswerLost.
LEMMA AnswerLostStep ==
  ASSUME IInv, NEW t \in Calls, AnswerLost(t)
  PROVE  IInv'
  <1>1. /\ Leave(t)
        /\ UNCHANGED <<up, exchange, queues, objs, exRow, published, confirmed, consumed>>
    BY DEF AnswerLost, memory, history
  <1>2. Tables(exRow, qRows, dRows)
    BY DEF IInv
  <1>3. CASE /\ At(t, "RegisterQueue", "SaveQueue") /\ exRow
             /\ qRows' = SavedQueue(qRows, call[t].name, objs[call[t].q])
             /\ UNCHANGED dRows
    <2>1. /\ call[t].op = "RegisterQueue" /\ call[t].name \in QueueNames
          /\ call[t].q \in DOMAIN objs
      BY <1>3, Argued DEF At
    <2>2. Tables(exRow, qRows', dRows)
      BY <1>2, <1>3, <2>1, Pointers, SavedRows
    <2>3. Tables(exRow', qRows', dRows')
      BY <1>1, <1>3, <2>2
    <2>4. Fine
      BY <1>1, <2>3, Pointers DEF IInv, Fine
    <2> QED
      BY <1>1, <2>1, <2>4, LeaveStep
  <1>4. ASSUME NEW n \in DOMAIN qRows, NextItem(t, n),
               dRows' = dRows \cup {DeliveryID(call[t].number, n)}, UNCHANGED qRows
        PROVE  IInv'
    <2> DEFINE id == DeliveryID(call[t].number, n)
    <2>1. call[t].op = "Publish" /\ call[t].number \in 1..PublishBound /\ n \in QueueNames
      BY <1>2, <1>4, Argued DEF NextItem, At, Tables
    <2>2. id \in IDSet /\ id[2] = n
      BY <2>1 DEF DeliveryID, IDSet
    <2>3. IsFiniteSet(dRows')
      BY <1>4, FS_AddElement DEF IInv, Tables
    <2>4. dRows' = dRows \cup {id}
      BY <1>4
    <2> HIDE DEF id
    <2>5. Tables(exRow', qRows', dRows')
      BY <1>1, <1>2, <1>4, <2>2, <2>3, <2>4 DEF Tables
    <2>6. Fine
      BY <1>1, <2>5, Pointers DEF IInv, Fine
    <2> QED
      BY <1>1, <2>1, <2>6, LeaveStep
  <1> QED
    BY <1>3, <1>4 DEF AnswerLost
----------------------------------------------------------------------------
(***************************************************************************)
(* Restore.                                                                *)
(***************************************************************************)
\* SetToSeq lists every element of a finite set once.
LEMMA Listing ==
  ASSUME NEW S, IsFiniteSet(S)
  PROVE  /\ SetToSeq(S) \in Seq(S) /\ Len(SetToSeq(S)) = Cardinality(S)
         /\ Range(SetToSeq(S)) = S
         /\ \A i, j \in DOMAIN SetToSeq(S) : SetToSeq(S)[i] = SetToSeq(S)[j] => i = j
  <1> DEFINE n == Cardinality(S)
             s == SetToSeq(S)
  <1>1. n \in Nat
    BY FS_CardinalityType
  <1>2. ExistsBijection(1..n, S)
    BY FS_NatBijection, FS_CountingElements
  <1>3. PICK f : f \in Bijection(1..n, S)
    BY <1>2 DEF ExistsBijection
  <1>4. f \in [1..n -> S] /\ IsInjective(f)
    BY <1>3 DEF Bijection, Injection, IsInjective
  <1>5. s \in [1..n -> S] /\ IsInjective(s)
    BY <1>4 DEF SetToSeq
  <1> HIDE DEF s, n
  <1>6. \A i, j \in 1..n : s[i] = s[j] => i = j
    BY <1>5 DEF IsInjective
  <1>7. s \in Injection(1..n, S)
    BY <1>5, <1>6 DEF Injection, IsInjective
  <1>8. Cardinality(1..n) = n /\ IsFiniteSet(1..n)
    BY <1>1, FS_Interval
  <1>9. s \in Surjection(1..n, S)
    BY <1>7, <1>8, FS_Injection DEF n
  <1>10. \A x \in S : \E i \in 1..n : s[i] = x
    BY <1>9 DEF Surjection
  <1>11. s \in Seq(S) /\ DOMAIN s = 1..n /\ Len(s) = n
    BY <1>1, <1>5
  <1>12. Range(s) = S
    BY <1>5, <1>10, <1>11 DEF Range
  <1> QED
    BY <1>6, <1>11, <1>12 DEF s, n

\* What Restore makes of the row of a queue and its deliveries.
LEMMA RestoredObj ==
  ASSUME IInv, NEW n \in DOMAIN qRows
  PROVE  /\ Accepted(LoadedQueue(n))
         /\ RestoredQueue(n) \in Obj /\ SaneObj(RestoredQueue(n))
         /\ RestoredQueue(n).IsDurable = qRows[n].IsDurable
         /\ RestoredQueue(n).IsAutoDelete = qRows[n].IsAutoDelete
         /\ RestoredQueue(n).MaxAttempts = qRows[n].MaxAttempts
         /\ Range(RestoredQueue(n).Filters) = qRows[n].Filters
         /\ IsInjective(RestoredQueue(n).Filters)
         /\ RestoredQueue(n).Ready \in Seq(Deliveries(IDSet, Consumers))
         /\ \A i \in DOMAIN RestoredQueue(n).Ready :
               RestoredQueue(n).Ready[i].ID \in dRows /\ RestoredQueue(n).Ready[i].ID[2] = n
         /\ RestoredQueue(n).Consumers = {}
  <1> DEFINE row == qRows[n]
             F == SetToSeq(row.Filters)
             r == LoadedQueue(n)
             S == {id \in dRows : id[2] = n}
             ids == SetToSeq(S)
             ds == [i \in DOMAIN ids |-> NewDelivery(ids[i])]
             new == NewQueueOf(r)
             q == RestoredQueue(n)
  <1>1. row \in Row /\ SaneRow(row) /\ dRows \subseteq IDSet /\ IsFiniteSet(dRows)
    BY DEF IInv, Tables
  <1>2. r = [row EXCEPT !.Filters = F]
    BY DEF LoadedQueue
  <1>3. q = [new EXCEPT !.Ready = ds]
    BY DEF RestoredQueue, LoadedDeliveries
  <1> HIDE DEF row, r, q
  <1>4. row.Filters \subseteq Filter /\ << >> \notin row.Filters /\ IsFiniteSet(row.Filters)
    BY <1>1 DEF Row, SaneRow
  <1>5. /\ F \in Seq(row.Filters) /\ Range(F) = row.Filters
        /\ \A i, j \in DOMAIN F : F[i] = F[j] => i = j
    BY <1>4, Listing
  <1> HIDE DEF F
  <1>6. F \in Seq(Filter)
    <2>1. F \in [1..Len(F) -> Filter] /\ Len(F) \in Nat
      BY <1>4, <1>5, LenProperties, ElementOfSeq
    <2> QED
      BY <2>1
  <1>7. /\ r.IsDurable = row.IsDurable /\ r.IsAutoDelete = row.IsAutoDelete
        /\ r.MaxAttempts = row.MaxAttempts /\ r.Filters = F
        /\ r = [IsDurable |-> row.IsDurable, IsAutoDelete |-> row.IsAutoDelete,
                MaxAttempts |-> row.MaxAttempts, Filters |-> F]
    BY <1>1, <1>2 DEF Row
  <1>8. F \in Seq(Seq(Tokens))
    <2>1. Filter \subseteq Seq(Tokens)
      <3>1. ASSUME NEW f \in Filter PROVE f \in Seq(Tokens)
        <4>1. f \in [1..Len(f) -> Tokens] /\ Len(f) \in Nat
          <5> DEFINE W == Words \cup {Wildcard}
          <5>1. f \in Seq(W) /\ W \subseteq Tokens
            BY DEF Filter, Tokens
          <5> HIDE DEF W
          <5> QED
            BY <5>1, LenProperties, ElementOfSeq
        <4> QED
          BY <4>1
      <3> QED
        BY <3>1
    <2>2. F \in [1..Len(F) -> Seq(Tokens)] /\ Len(F) \in Nat
      BY <1>6, <2>1, LenProperties, ElementOfSeq
    <2> QED
      BY <2>2
  <1>9. r \in Request
    BY <1>1, <1>7, <1>8 DEF Request, Row
  <1>10. Accepted(r)
    <2>1. ASSUME NEW f \in Range(F) PROVE ValidFilter(f)
      <3>1. f \in Filter /\ f # << >>
        BY <1>4, <1>5
      <3>2. Range(f) \subseteq Words \cup {Wildcard}
        BY <3>1, ElementOfSeq, LenProperties DEF Range, Filter
      <3> QED
        BY <3>1, <3>2 DEF ValidFilter
    <2>2. row.MaxAttempts >= 0 /\ ~(row.IsDurable /\ row.IsAutoDelete)
      BY <1>1 DEF Row, SaneRow
    <2> QED
      BY <1>7, <2>1, <2>2 DEF Accepted, validFilters
  <1>11. /\ new \in Obj /\ SaneObj(new) /\ new.Filters = F /\ new.IsDurable = row.IsDurable
         /\ new.IsAutoDelete = row.IsAutoDelete /\ new.MaxAttempts = row.MaxAttempts
         /\ new.Consumers = {}
    BY <1>7, <1>9, <1>10, NewObj
  <1>12. IsFiniteSet(S) /\ S \subseteq IDSet /\ S \subseteq dRows /\ \A id \in S : id[2] = n
    BY <1>1, FS_Subset
  <1> HIDE DEF S, new
  <1>13. ids \in Seq(S)
    BY <1>12, Listing
  <1> HIDE DEF ids
  <1>14. /\ ds \in Seq(Deliveries(IDSet, Consumers))
         /\ \A i \in DOMAIN ds : ds[i].ID \in S
    <2>1. Len(ids) \in Nat /\ DOMAIN ids = 1..Len(ids) /\ \A i \in DOMAIN ids : ids[i] \in S
      BY <1>13, LenProperties, ElementOfSeq
    <2>2. \A i \in DOMAIN ids : /\ NewDelivery(ids[i]) \in Deliveries(IDSet, Consumers)
                                /\ NewDelivery(ids[i]).ID \in S
      BY <1>12, <2>1 DEF NewDelivery, Deliveries
    <2>3. ds \in [1..Len(ids) -> Deliveries(IDSet, Consumers)]
      BY <2>1, <2>2
    <2> QED
      BY <2>1, <2>2, <2>3
  <1> HIDE DEF ds
  <1>15. /\ q \in Obj /\ q.Ready = ds /\ q.IsDurable = row.IsDurable
         /\ q.IsAutoDelete = row.IsAutoDelete /\ q.MaxAttempts = row.MaxAttempts
         /\ q.Filters = F /\ q.Consumers = {}
    BY <1>3, <1>11, <1>14 DEF Obj
  <1>16. SaneObj(q)
    BY <1>11, <1>15 DEF SaneObj
  <1>17. IsInjective(q.Filters)
    BY <1>5, <1>15 DEF IsInjective
  <1>18. \A i \in DOMAIN q.Ready : q.Ready[i].ID \in dRows /\ q.Ready[i].ID[2] = n
    BY <1>12, <1>14, <1>15
  <1>19. Range(q.Filters) = row.Filters /\ q.Ready \in Seq(Deliveries(IDSet, Consumers))
    BY <1>5, <1>14, <1>15
  <1> QED
    BY <1>10, <1>15, <1>16, <1>17, <1>18, <1>19 DEF r, q, row

\* The memory Restore builds: one object per row, under its name.
LEMMA Rebuilt ==
  ASSUME IInv, Restore
  PROVE  /\ up' = TRUE
         /\ Memory(exchange', queues', objs')
         /\ exchange' = (IF exRow THEN 1 ELSE 0)
         /\ Len(queues') = exchange' /\ DOMAIN queues' = 1..exchange'
         /\ exRow => /\ DOMAIN queues'[1] = DOMAIN qRows
                     /\ \A n \in DOMAIN qRows : /\ queues'[1][n] \in DOMAIN objs'
                                                /\ objs'[queues'[1][n]] = RestoredQueue(n)
                     /\ \A n, m \in DOMAIN qRows : queues'[1][n] = queues'[1][m] => n = m
         /\ \A q \in DOMAIN objs' : \E n \in DOMAIN qRows : objs'[q] = RestoredQueue(n)
         /\ confirmed' = DOMAIN objs'
  <1> DEFINE names == SetToSeq(DOMAIN qRows)
             m == [n \in DOMAIN qRows |-> CHOOSE q \in DOMAIN names : names[q] = n]
  <1>1. /\ up' = TRUE /\ exchange' = (IF exRow THEN 1 ELSE 0)
        /\ objs' = [q \in DOMAIN names |-> RestoredQueue(names[q])]
        /\ queues' = IF exRow THEN << m >> ELSE << >>
        /\ confirmed' = DOMAIN names
    BY DEF Restore
  <1>2. DOMAIN qRows \subseteq QueueNames /\ IsFiniteSet(DOMAIN qRows) /\ (DOMAIN qRows # {} => exRow)
    BY DEF IInv, Tables
  <1>3. /\ names \in Seq(DOMAIN qRows) /\ Range(names) = DOMAIN qRows
        /\ \A i, j \in DOMAIN names : names[i] = names[j] => i = j
    BY <1>2, Listing
  <1> HIDE DEF names
  <1>4. /\ Len(names) \in Nat /\ DOMAIN names = 1..Len(names)
        /\ \A i \in DOMAIN names : names[i] \in DOMAIN qRows
    BY <1>3, LenProperties, ElementOfSeq
  <1>5. /\ objs' \in Seq(Obj) /\ DOMAIN objs' = DOMAIN names
        /\ \A q \in DOMAIN names : objs'[q] = RestoredQueue(names[q])
        /\ \A q \in DOMAIN names : SaneObj(objs'[q])
    <2>1. \A q \in DOMAIN names : RestoredQueue(names[q]) \in Obj /\ SaneObj(RestoredQueue(names[q]))
      BY <1>4, RestoredObj
    <2>2. objs' \in [1..Len(names) -> Obj]
      BY <1>1, <1>4, <2>1
    <2>3. objs' \in Seq(Obj)
      BY <1>4, <2>2
    <2> QED
      BY <1>1, <2>1, <2>3
  <1>6. ASSUME NEW n \in DOMAIN qRows PROVE m[n] \in DOMAIN names /\ names[m[n]] = n
    <2>1. \E q \in DOMAIN names : names[q] = n
      BY <1>3 DEF Range
    <2> QED
      BY <2>1
  <1>7. DOMAIN m = DOMAIN qRows
    OBVIOUS
  <1>8. m \in Maps
    <2>1. m \in [DOMAIN qRows -> Nat]
      <3>1. \A n \in DOMAIN qRows : m[n] \in Nat
        BY <1>4, <1>6
      <3> HIDE DEF m
      <3>2. m = [n \in DOMAIN qRows |-> m[n]]
        BY DEF m
      <3> QED
        BY <3>1, <3>2
    <2> QED
      BY <1>2, <2>1 DEF Maps
  <1> HIDE DEF m
  <1>9. \A q \in DOMAIN objs' : \E n \in DOMAIN qRows : objs'[q] = RestoredQueue(n)
    BY <1>4, <1>5
  <1>10. CASE exRow
    <2>1. queues' = << m >> /\ exchange' = 1
      BY <1>1, <1>10
    <2>2. queues' \in Seq(Maps) /\ Len(queues') = 1 /\ DOMAIN queues' = 1..1 /\ queues'[1] = m
      BY <1>8, <2>1
    <2>3. \A e \in DOMAIN queues' : e = 1
      BY <2>2
    <2>4. Memory(exchange', queues', objs')
      BY <1>5, <1>6, <1>7, <2>1, <2>2, <2>3 DEF Memory
    <2>5. \A n \in DOMAIN qRows : m[n] \in DOMAIN objs' /\ objs'[m[n]] = RestoredQueue(n)
      BY <1>5, <1>6
    <2>6. \A x, y \in DOMAIN qRows : m[x] = m[y] => x = y
      BY <1>6
    <2> QED
      BY <1>1, <1>5, <1>7, <1>9, <2>1, <2>2, <2>4, <2>5, <2>6
  <1>11. CASE ~exRow
    <2>1. queues' = << >> /\ exchange' = 0
      BY <1>1, <1>11
    <2>2. queues' \in Seq(Maps) /\ Len(queues') = 0 /\ DOMAIN queues' = 1..0
      BY <2>1, EmptySeq
    <2>3. Memory(exchange', queues', objs')
      BY <1>5, <2>1, <2>2 DEF Memory
    <2> QED
      BY <1>1, <1>5, <1>9, <1>11, <2>1, <2>2, <2>3
  <1> QED
    BY <1>10, <1>11

\* Restore.
LEMMA RestoreStep ==
  ASSUME IInv, Restore
  PROVE  IInv'
  <1>1. /\ ~up /\ UNCHANGED <<call, exRow, qRows, dRows, published, consumed>>
    BY DEF Restore, database
  <1>2. /\ up' = TRUE /\ Memory(exchange', queues', objs') /\ confirmed' = DOMAIN objs'
    BY Rebuilt
  <1>3. Len(queues') \in Nat /\ Len(objs') \in Nat
    BY <1>2, LenProperties DEF Memory
  <1>4. Idle \in CallRec /\ Placed(Idle) /\ Bounded(Idle, queues', objs')
    BY <1>3, IdleCall
  <1>5. CallsOK(call', queues', objs')
    BY <1>1, <1>4 DEF IInv, Down, CallsOK
  <1>6. consumed = {}
    <2>1. objs = << >> /\ consumed \subseteq DOMAIN objs
      BY <1>1 DEF IInv, Down, History
    <2> QED
      BY <2>1
  <1>7. History(published', confirmed', consumed', objs')
    BY <1>1, <1>2, <1>6 DEF IInv, History
  <1>8. Down(up', exchange', queues', objs', call')
    BY <1>2 DEF Down
  <1> QED
    BY <1>1, <1>2, <1>5, <1>7, <1>8 DEF IInv
----------------------------------------------------------------------------
(***************************************************************************)
(* The invariant.                                                          *)
(***************************************************************************)
\* The first start.
LEMMA InitInv == Init => IInv
  <1> SUFFICES ASSUME Init PROVE IInv
    OBVIOUS
  <1> USE DEF Init
  <1>1. Memory(exchange, queues, objs)
    BY EmptySeq DEF Memory
  <1>2. Tables(exRow, qRows, dRows)
    <2>1. DOMAIN qRows = {} /\ IsFiniteSet({}) /\ exRow \in BOOLEAN
      BY FS_EmptySet DEF EmptyMap
    <2> QED
      BY <2>1 DEF Tables
  <1>3. Idle \in CallRec /\ Placed(Idle) /\ Bounded(Idle, queues, objs)
    BY IdleCall
  <1>4. CallsOK(call, queues, objs)
    BY <1>3 DEF CallsOK
  <1>5. History(published, confirmed, consumed, objs)
    BY EmptySeq, RegistryAssumption DEF History
  <1>6. Down(up, exchange, queues, objs, call)
    BY DEF Down
  <1> QED
    BY <1>1, <1>2, <1>4, <1>5, <1>6 DEF IInv

\* Every step of every call, a crash and a restart preserve it.
LEMMA NextInv ==
  ASSUME IInv, [Next]_vars
  PROVE  IInv'
  <1>1. CASE UNCHANGED vars
    <2>1. UNCHANGED <<up, exchange, queues, objs, call, exRow, qRows, dRows, published, confirmed,
                      consumed>>
      BY <1>1 DEF vars, memory, database, history
    <2> QED
      BY <2>1 DEF IInv
  <1>2. ASSUME NEW t \in Calls, ExchangeCall(t) PROVE IInv'
    BY <1>2, CreateExchangeStep, SaveExchangeStep, DeleteExchangeStep, HasActiveConsumersStep,
       AskQueueStep, RemoveExchangeStep, DeleteExchangeRowStep DEF ExchangeCall
  <1>3. ASSUME NEW t \in Calls, QueueCall(t) PROVE IInv'
    BY <1>3, RegisterQueueStep, RegisterInExchangeStep, SaveQueueStep, LookUpStep, GetQueueStep,
       DeleteQueueStep, DeleteQueueRowStep DEF QueueCall
  <1>4. ASSUME NEW t \in Calls, ConsumerCall(t) PROVE IInv'
    BY <1>4, LookUpStep, AddConsumerStep, DisconnectConsumerStep, DeleteIfUnusedStep,
       RemoveQueueStep DEF ConsumerCall
  <1>5. ASSUME NEW t \in Calls, PublishCall(t) PROVE IInv'
    <2>1. ASSUME NEW n \in QueueNames, DeliverTransient(t, n) \/ DeliverSaved(t, n) PROVE IInv'
      <3>1. call[t].op = "Publish" /\ call[t].pc = "Deliver" /\ EnqueueDelivery(t, n)
        BY <2>1 DEF DeliverTransient, DeliverSaved, NextItem, At
      <3> QED
        BY <3>1, EnqueueDeliveryStep
    <2> QED
      BY <1>5, <2>1, PublishStep, RouteStep, SaveReadyDeliveryStep, PublishDoneStep DEF PublishCall
  <1> QED
    BY <1>1, <1>2, <1>3, <1>4, <1>5, ReturnStep, StatementFailsStep, AnswerLostStep, CrashStep,
       RestoreStep DEF Next

\* The inductive invariant.
LEMMA Inductive == Spec => []IInv
  <1>1. IInv /\ [Next]_vars => IInv'
    BY NextInv
  <1> QED
    BY <1>1, InitInv, PTL DEF Spec

\* The pointers of maps and calls stay good, and the tables hold what their
\* columns allow (core/broker.go, core/exchange.go, repository/postgres.go).
THEOREM RegistryTypes == Spec => []TypeOK
  <1>1. IInv => TypeOK
    <2> SUFFICES ASSUME IInv PROVE TypeOK
      OBVIOUS
    <2>1. /\ up \in BOOLEAN /\ exRow \in BOOLEAN /\ exchange \in 0..Len(queues)
          /\ DOMAIN qRows \subseteq QueueNames /\ dRows \subseteq (1..PublishBound) \X QueueNames
          /\ confirmed \cup consumed \subseteq DOMAIN objs
      BY DEF IInv, Down, Tables, Memory, History, IDSet
    <2>2. \A e \in DOMAIN queues :
             DOMAIN queues[e] \subseteq QueueNames /\ Range(queues[e]) \subseteq DOMAIN objs
      BY Pointers DEF Range
    <2>3. \A t \in Calls : call[t].e \in 0..Len(queues) /\ call[t].q \in 0..Len(objs)
      BY DEF IInv, CallsOK, Bounded
    <2>4. \A q \in DOMAIN objs : objs[q].Consumers \subseteq Consumers
      BY Pointers DEF Obj
    <2> QED
      BY <2>1, <2>2, <2>3, <2>4 DEF TypeOK
  <1> QED
    BY <1>1, Inductive, PTL

\* Whatever calls ran, failed or were cut off, no step of Restore meets rows it
\* refuses (service/broker.go 369-414).
THEOREM RestoreAlwaysSucceeds == Spec => []RestoreSucceeds
  <1>1. IInv => RestoreSucceeds
    BY RestoredObj DEF RestoreSucceeds, StateLoadable, IInv, Tables
  <1> QED
    BY <1>1, Inductive, PTL
----------------------------------------------------------------------------
(***************************************************************************)
(* What becomes of the record of a call.                                   *)
(***************************************************************************)
\* The record of no call.
LEMMA IdleFields ==
  /\ Idle.op = "none" /\ Idle.pc = "none" /\ Idle.e = 0 /\ Idle.q = 0
  /\ Idle.asked = {} /\ Idle.items = {} /\ Idle.saved = {}
  BY DEF Idle

\* An early return.
LEMMA LeftCall ==
  ASSUME IInv, NEW t \in Calls, Leave(t)
  PROVE  call'[t] = Idle
  BY Running DEF Leave

\* The next step.
LEMMA GotoCall ==
  ASSUME IInv, NEW t \in Calls, NEW p, Goto(t, p)
  PROVE  LET m == call'[t]
             k == call[t]
         IN  /\ m.pc = p /\ m.op = k.op /\ m.e = k.e /\ m.q = k.q /\ m.name = k.name
             /\ m.consumer = k.consumer /\ m.request = k.request /\ m.asked = k.asked
             /\ m.key = k.key /\ m.number = k.number /\ m.known = k.known
             /\ m.items = k.items /\ m.durable = k.durable /\ m.saved = k.saved
  <1>1. call[t] \in CallRec /\ call \in [Calls -> CallRec]
    BY Running
  <1>2. call'[t] = [call[t] EXCEPT !.pc = p]
    BY <1>1 DEF Goto
  <1> QED
    BY <1>1, <1>2, GotoFields

\* The record of a call that begins.
LEMMA BegunCall ==
  ASSUME IInv, NEW t \in Calls, NEW b \in CallRec, GetExchange(t, b)
  PROVE  LET m == call'[t]
         IN  /\ call[t] = Idle /\ exchange # 0 /\ up
             /\ m.e = exchange /\ m.op = b.op /\ m.pc = b.pc /\ m.q = b.q /\ m.name = b.name
             /\ m.consumer = b.consumer /\ m.request = b.request /\ m.asked = b.asked
             /\ m.key = b.key /\ m.number = b.number /\ m.known = b.known
             /\ m.items = b.items /\ m.durable = b.durable /\ m.saved = b.saved
  <1>1. call \in [Calls -> CallRec]
    BY Running
  <1>2. call'[t] = [b EXCEPT !.e = exchange] /\ call[t] = Idle /\ exchange # 0 /\ up
    BY <1>1 DEF GetExchange
  <1> DEFINE m == call'[t]
  <1>3. m = [b EXCEPT !.e = exchange]
    BY <1>2
  <1> HIDE DEF m
  <1>4. /\ m.e = exchange /\ m.op = b.op /\ m.pc = b.pc /\ m.q = b.q /\ m.name = b.name
        /\ m.consumer = b.consumer /\ m.request = b.request /\ m.asked = b.asked
        /\ m.key = b.key /\ m.number = b.number /\ m.known = b.known
        /\ m.items = b.items /\ m.durable = b.durable /\ m.saved = b.saved
    BY <1>3 DEF CallRec
  <1> QED
    BY <1>2, <1>4 DEF m

\* Exchange.RegisterQueue found or made queue q.
LEMMA RegisteredCall ==
  ASSUME IInv, NEW t \in Calls, NEW q, NEW d, Registered(t, q, d)
  PROVE  LET m == call'[t]
             k == call[t]
         IN  /\ m.pc = (IF d THEN "SaveQueue" ELSE "Return") /\ m.q = q
             /\ m.op = k.op /\ m.e = k.e /\ m.name = k.name /\ m.request = k.request
  <1> DEFINE p == IF d THEN "SaveQueue" ELSE "Return"
             k == call[t]
             m == call'[t]
  <1>1. k \in CallRec /\ call \in [Calls -> CallRec]
    BY Running
  <1>2. m = [k EXCEPT !.q = q, !.pc = p]
    BY <1>1 DEF Registered
  <1> HIDE DEF p, k, m
  <1>3. m.pc = p /\ m.q = q /\ m.op = k.op /\ m.e = k.e /\ m.name = k.name /\ m.request = k.request
    BY <1>1, <1>2 DEF CallRec
  <1> QED
    BY <1>3 DEF m, k, p

\* CreateExchange.
LEMMA CreateCall ==
  ASSUME IInv, NEW t \in Calls, CreateExchange(t)
  PROVE  /\ call'[t].op = "CreateExchange" /\ call'[t].pc = "SaveExchange" /\ call'[t].q = 0
         /\ call[t] = Idle
  <1> DEFINE k == [Idle EXCEPT !.op = "CreateExchange", !.pc = "SaveExchange"]
  <1>1. call \in [Calls -> CallRec] /\ call[t] = Idle
    BY Running DEF CreateExchange
  <1>2. call' = [call EXCEPT ![t] = k]
    BY <1>1 DEF CreateExchange
  <1>3. call'[t] = k
    BY <1>1, <1>2
  <1>4. k.op = "CreateExchange" /\ k.pc = "SaveExchange" /\ k.q = 0
    BY DEF Idle
  <1> QED
    BY <1>1, <1>3, <1>4

\* HasActiveConsumers.
LEMMA CopiedCall ==
  ASSUME IInv, NEW t \in Calls, HasActiveConsumers(t)
  PROVE  /\ call'[t].op = "DeleteExchange" /\ call'[t].pc = "AskQueues" /\ call'[t].q = call[t].q
         /\ call'[t].asked = Range(queues[call[t].e]) /\ call'[t].e = call[t].e
         /\ call'[t].name = call[t].name
  <1> DEFINE S == Range(queues[call[t].e])
             c == call[t]
             k == [c EXCEPT !.pc = "AskQueues", !.asked = S]
  <1>1. call \in [Calls -> CallRec] /\ c \in CallRec /\ c.op = "DeleteExchange"
    BY Running DEF HasActiveConsumers, At
  <1>2. call'[t] = k
    BY <1>1 DEF HasActiveConsumers
  <1> HIDE DEF S, c
  <1>3. k.op = c.op /\ k.pc = "AskQueues" /\ k.q = c.q /\ k.asked = S /\ k.e = c.e /\ k.name = c.name
    BY <1>1 DEF CallRec
  <1> QED
    BY <1>1, <1>2, <1>3 DEF S, c

\* AskQueue.
LEMMA AskedCall ==
  ASSUME IInv, NEW t \in Calls, NEW q, AskQueue(t, q)
  PROVE  \/ call'[t] = Idle
         \/ /\ call'[t].op = "DeleteExchange" /\ call'[t].pc = "AskQueues"
            /\ call'[t].q = call[t].q /\ call'[t].e = call[t].e /\ call'[t].name = call[t].name
            /\ call'[t].asked = call[t].asked \ {q} /\ ~HasConsumers(objs[q])
  <1> DEFINE c == call[t]
             S == c.asked \ {q}
             k == [c EXCEPT !.asked = S]
  <1>1. call \in [Calls -> CallRec] /\ c \in CallRec /\ c.op = "DeleteExchange" /\ c.pc = "AskQueues"
    BY Running DEF AskQueue, At
  <1>2. call'[t] = Idle \/ (call'[t] = k /\ ~HasConsumers(objs[q]))
    BY <1>1 DEF AskQueue, Leave
  <1> HIDE DEF S, c
  <1>3. k.op = c.op /\ k.pc = c.pc /\ k.q = c.q /\ k.asked = S /\ k.e = c.e /\ k.name = c.name
    BY <1>1 DEF CallRec
  <1> QED
    BY <1>1, <1>2, <1>3 DEF S, c

\* GetQueue.
LEMMA FoundCall ==
  ASSUME IInv, NEW t \in Calls, GetQueue(t)
  PROVE  /\ call[t].op \in {"DeleteQueue", "AddConsumer", "DisconnectConsumer"}
         /\ \/ call'[t] = Idle
            \/ /\ call[t].name \in DOMAIN queues[call[t].e]
               /\ call'[t].op = call[t].op /\ call'[t].pc = call[t].op
               /\ call'[t].e = call[t].e /\ call'[t].name = call[t].name
               /\ call'[t].q = queues[call[t].e][call[t].name]
  <1> DEFINE c == call[t]
             q == queues[c.e][c.name]
             o == c.op
             k == [c EXCEPT !.pc = o, !.q = q]
  <1>1. call \in [Calls -> CallRec] /\ c \in CallRec
    BY Running
  <1>2. c.op \in {"DeleteQueue", "AddConsumer", "DisconnectConsumer"}
    <2>1. Idle.pc = "none" /\ call[t].pc = "GetQueue"
      BY DEF Idle, GetQueue
    <2> QED
      BY <2>1, Running DEF Placed
  <1>3. call'[t] = Idle \/ (call'[t] = k /\ c.name \in DOMAIN queues[c.e])
    BY <1>1 DEF GetQueue, Leave
  <1> HIDE DEF c, q, o
  <1>4. k.op = c.op /\ k.pc = o /\ k.e = c.e /\ k.name = c.name /\ k.q = q
    BY <1>1 DEF CallRec
  <1> QED
    BY <1>2, <1>3, <1>4 DEF c, q, o
----------------------------------------------------------------------------
(***************************************************************************)
(* What a step of a call may do to the rest.                               *)
(***************************************************************************)
Step(t) ==
    \/ ExchangeCall(t) \/ QueueCall(t) \/ ConsumerCall(t) \/ PublishCall(t)
    \/ Return(t) \/ StatementFails(t) \/ AnswerLost(t)

\* Exchange objects and queue objects stay, a name only comes to stand for a
\* queue that is made now, and no queue loses a parameter or a delivery.
Frame ==
    /\ DOMAIN queues \subseteq DOMAIN queues'
    /\ DOMAIN objs \subseteq DOMAIN objs'
    /\ \A q \in DOMAIN objs :
          Same(objs[q], objs'[q]) /\ Range(objs[q].Ready) \subseteq Range(objs'[q].Ready)
    /\ \A e \in DOMAIN queues' : \A n \in DOMAIN queues'[e] :
          \/ e \in DOMAIN queues /\ n \in DOMAIN queues[e] /\ queues'[e][n] = queues[e][n]
          \/ queues'[e][n] = Len(objs) + 1
    /\ \A e, f \in DOMAIN queues' : \A n \in DOMAIN queues'[e], m \in DOMAIN queues'[f] :
          queues'[e][n] = Len(objs) + 1 /\ queues'[f][m] = Len(objs) + 1 => e = f /\ n = m
    /\ \A q \in DOMAIN objs' :
          q \in DOMAIN objs \/ \E r \in Requests : Accepted(r) /\ objs'[q] = NewQueueOf(r)

\* No consumer comes or goes.
SameConsumers ==
    /\ consumed' = consumed
    /\ \A q \in DOMAIN objs : objs'[q].Consumers = objs[q].Consumers

\* No memory is touched.
LEMMA NoMove ==
  ASSUME IInv, UNCHANGED <<queues, objs>>
  PROVE  Frame /\ (UNCHANGED consumed => SameConsumers)
  <1>1. /\ \A e \in DOMAIN queues : \A n \in DOMAIN queues[e] : queues[e][n] \in DOMAIN objs
        /\ Len(objs) \in Nat /\ DOMAIN objs = 1..Len(objs)
        /\ \A q \in DOMAIN objs : objs[q] \in Obj
    BY Pointers
  <1>2. Len(objs) + 1 \notin DOMAIN objs
    BY <1>1
  <1>3. \A e \in DOMAIN queues : \A n \in DOMAIN queues[e] : queues[e][n] # Len(objs) + 1
    BY <1>1, <1>2
  <1>4. \A q \in DOMAIN objs : Same(objs[q], objs[q])
    BY <1>1 DEF Same
  <1>5. Frame
    BY <1>3, <1>4 DEF Frame
  <1>6. UNCHANGED consumed => SameConsumers
    BY DEF SameConsumers
  <1> QED
    BY <1>5, <1>6

\* One queue object is changed.
LEMMA ObjMove ==
  ASSUME IInv, NEW q \in DOMAIN objs, NEW r, Same(objs[q], r),
         Range(objs[q].Ready) \subseteq Range(r.Ready),
         objs' = [objs EXCEPT ![q] = r], UNCHANGED <<exchange, queues>>
  PROVE  Frame /\ (r.Consumers = objs[q].Consumers /\ UNCHANGED consumed => SameConsumers)
  <1>1. /\ DOMAIN objs' = DOMAIN objs
        /\ objs'[q] = r /\ \A x \in DOMAIN objs \ {q} : objs'[x] = objs[x]
    BY ObjChanges
  <1>2. /\ \A e \in DOMAIN queues : \A n \in DOMAIN queues[e] : queues[e][n] \in DOMAIN objs
        /\ Len(objs) \in Nat /\ DOMAIN objs = 1..Len(objs)
        /\ \A x \in DOMAIN objs : objs[x] \in Obj
    BY Pointers
  <1>3. \A e \in DOMAIN queues : \A n \in DOMAIN queues[e] : queues[e][n] # Len(objs) + 1
    <2>1. Len(objs) + 1 \notin DOMAIN objs
      BY <1>2
    <2> QED
      BY <1>2, <2>1
  <1>4. \A x \in DOMAIN objs :
           Same(objs[x], objs'[x]) /\ Range(objs[x].Ready) \subseteq Range(objs'[x].Ready)
    <2>1. \A x \in DOMAIN objs : Same(objs[x], objs[x])
      BY <1>2 DEF Same
    <2> QED
      BY <1>1, <2>1
  <1>5. Frame
    BY <1>1, <1>3, <1>4 DEF Frame
  <1>6. r.Consumers = objs[q].Consumers /\ UNCHANGED consumed => SameConsumers
    BY <1>1 DEF SameConsumers
  <1> QED
    BY <1>5, <1>6

\* A name is taken out.
LEMMA NameMove ==
  ASSUME IInv, NEW e \in DOMAIN queues, NEW n, RemoveName(e, n), UNCHANGED <<exchange, objs>>
  PROVE  Frame /\ (UNCHANGED consumed => SameConsumers)
  <1>1. /\ DOMAIN queues' = DOMAIN queues
        /\ \A f \in DOMAIN queues \ {e} : queues'[f] = queues[f]
        /\ DOMAIN queues'[e] = DOMAIN queues[e] \ {n}
        /\ \A x \in DOMAIN queues[e] \ {n} : queues'[e][x] = queues[e][x]
    BY NameRemoved
  <1>2. /\ \A f \in DOMAIN queues : \A x \in DOMAIN queues[f] : queues[f][x] \in DOMAIN objs
        /\ Len(objs) \in Nat /\ DOMAIN objs = 1..Len(objs)
        /\ \A x \in DOMAIN objs : objs[x] \in Obj
    BY Pointers
  <1>3. Len(objs) + 1 \notin DOMAIN objs
    BY <1>2
  <1>4. \A f \in DOMAIN queues' : \A x \in DOMAIN queues'[f] :
           f \in DOMAIN queues /\ x \in DOMAIN queues[f] /\ queues'[f][x] = queues[f][x]
    <2> TAKE f \in DOMAIN queues'
    <2> TAKE x \in DOMAIN queues'[f]
    <2>1. CASE f = e
      BY <1>1, <2>1
    <2>2. CASE f # e
      BY <1>1, <2>2
    <2> QED
      BY <2>1, <2>2
  <1>5. \A f \in DOMAIN queues' : \A x \in DOMAIN queues'[f] : queues'[f][x] # Len(objs) + 1
    BY <1>2, <1>3, <1>4
  <1>6. \A x \in DOMAIN objs : Same(objs[x], objs[x])
    BY <1>2 DEF Same
  <1>7. Frame
    BY <1>1, <1>4, <1>5, <1>6 DEF Frame
  <1>8. UNCHANGED consumed => SameConsumers
    BY DEF SameConsumers
  <1> QED
    BY <1>7, <1>8

\* A queue is registered.
LEMMA NewMove ==
  ASSUME IInv, NEW e \in DOMAIN queues, NEW n \in QueueNames, NEW r \in Requests, Accepted(r),
         n \notin DOMAIN queues[e],
         objs' = Append(objs, NewQueueOf(r)),
         queues' = [queues EXCEPT ![e] = Put(@, n, Len(objs) + 1)],
         exchange' = exchange
  PROVE  Frame /\ (UNCHANGED consumed => SameConsumers)
  <1> DEFINE q == Len(objs) + 1
  <1>1. /\ DOMAIN queues' = DOMAIN queues
        /\ DOMAIN objs' = DOMAIN objs \cup {q}
        /\ \A x \in DOMAIN objs : objs'[x] = objs[x]
        /\ \A f \in DOMAIN queues \ {e} : queues'[f] = queues[f]
        /\ DOMAIN queues'[e] = DOMAIN queues[e] \cup {n} /\ queues'[e][n] = q
        /\ \A x \in DOMAIN queues[e] \ {n} : queues'[e][x] = queues[e][x]
    BY NewRegistration
  <1>2. /\ \A f \in DOMAIN queues : \A x \in DOMAIN queues[f] : queues[f][x] \in DOMAIN objs
        /\ Len(objs) \in Nat /\ DOMAIN objs = 1..Len(objs)
        /\ \A x \in DOMAIN objs : objs[x] \in Obj
    BY Pointers
  <1>3. q \notin DOMAIN objs
    BY <1>2
  <1> HIDE DEF q
  <1>4. \A f \in DOMAIN queues' : \A x \in DOMAIN queues'[f] :
           \/ f \in DOMAIN queues /\ x \in DOMAIN queues[f] /\ queues'[f][x] = queues[f][x]
           \/ f = e /\ x = n /\ queues'[f][x] = q
    <2> TAKE f \in DOMAIN queues'
    <2> TAKE x \in DOMAIN queues'[f]
    <2>1. CASE f = e /\ x = n
      BY <1>1, <2>1
    <2>2. CASE f = e /\ x # n
      BY <1>1, <2>2
    <2>3. CASE f # e
      BY <1>1, <2>3
    <2> QED
      BY <2>1, <2>2, <2>3
  <1>5. \A f \in DOMAIN queues' : \A x \in DOMAIN queues'[f] :
           queues'[f][x] = q => f = e /\ x = n
    BY <1>2, <1>3, <1>4
  <1>6. \A x \in DOMAIN objs : Same(objs[x], objs[x])
    BY <1>2 DEF Same
  <1>7. objs'[q] = NewQueueOf(r)
    BY NewRegistration DEF q
  <1>8. Frame
    BY <1>1, <1>4, <1>5, <1>6, <1>7 DEF Frame, q
  <1>9. UNCHANGED consumed => SameConsumers
    BY <1>1 DEF SameConsumers
  <1> QED
    BY <1>8, <1>9

\* An exchange is made.
LEMMA ExchangeMove ==
  ASSUME IInv, queues' = Append(queues, EmptyMap), UNCHANGED objs
  PROVE  Frame /\ (UNCHANGED consumed => SameConsumers)
  <1>1. /\ queues \in Seq(Maps) /\ Len(queues) \in Nat /\ DOMAIN queues = 1..Len(queues)
        /\ \A f \in DOMAIN queues : \A x \in DOMAIN queues[f] : queues[f][x] \in DOMAIN objs
        /\ Len(objs) \in Nat /\ DOMAIN objs = 1..Len(objs)
        /\ \A x \in DOMAIN objs : objs[x] \in Obj
    BY Pointers
  <1>2. EmptyMap \in Maps /\ DOMAIN EmptyMap = {}
    BY DEF EmptyMap, Maps
  <1>3. /\ queues' \in Seq(Maps) /\ Len(queues') = Len(queues) + 1
        /\ \A f \in DOMAIN queues : queues'[f] = queues[f]
        /\ queues'[Len(queues) + 1] = EmptyMap
    BY <1>1, <1>2, AppendProperties
  <1>4. DOMAIN queues' = DOMAIN queues \cup {Len(queues) + 1}
    BY <1>1, <1>3, LenProperties
  <1>5. \A f \in DOMAIN queues' : \A x \in DOMAIN queues'[f] :
           f \in DOMAIN queues /\ x \in DOMAIN queues[f] /\ queues'[f][x] = queues[f][x]
    BY <1>2, <1>3, <1>4
  <1>6. Len(objs) + 1 \notin DOMAIN objs
    BY <1>1
  <1>7. \A f \in DOMAIN queues' : \A x \in DOMAIN queues'[f] : queues'[f][x] # Len(objs) + 1
    BY <1>1, <1>5, <1>6
  <1>8. \A x \in DOMAIN objs : Same(objs[x], objs[x])
    BY <1>1 DEF Same
  <1>9. Frame
    BY <1>4, <1>5, <1>7, <1>8 DEF Frame
  <1>10. UNCHANGED consumed => SameConsumers
    BY DEF SameConsumers
  <1> QED
    BY <1>9, <1>10

\* A call that is in progress runs while the process serves.
LEMMA Serving ==
  ASSUME IInv, NEW t \in Calls, call[t].pc # "none" \/ call[t].op # "none"
  PROVE  up
  <1>1. Idle.pc = "none" /\ Idle.op = "none"
    BY DEF Idle
  <1>2. ~up => call[t] = Idle
    BY DEF IInv, Down
  <1> QED
    BY <1>1, <1>2

\* The other calls stay where they are.
LEMMA OthersStay ==
  ASSUME IInv, NEW t \in Calls, Step(t), NEW u \in Calls \ {t}
  PROVE  call'[u] = call[u]
  <1> USE DEF Leave, Goto, GetExchange, Registered
  <1>1. call \in [Calls -> CallRec]
    BY Running
  <1>2. CASE ExchangeCall(t)
    <2>1. CASE CreateExchange(t) \/ SaveExchange(t) \/ DeleteExchange(t) \/ HasActiveConsumers(t)
      BY <1>1, <2>1 DEF CreateExchange, SaveExchange, DeleteExchange, HasActiveConsumers
    <2>2. CASE \E q \in call[t].asked : AskQueue(t, q)
      BY <1>1, <2>2 DEF AskQueue
    <2>3. CASE RemoveExchange(t) \/ DeleteExchangeRow(t)
      BY <1>1, <2>3 DEF RemoveExchange, DeleteExchangeRow
    <2> QED
      BY <1>2, <2>1, <2>2, <2>3 DEF ExchangeCall
  <1>3. CASE QueueCall(t)
    <2>1. CASE \E n \in QueueNames, r \in Requests : RegisterQueue(t, n, r)
      BY <1>1, <2>1 DEF RegisterQueue
    <2>2. CASE RegisterInExchange(t)
      BY <1>1, <2>2 DEF RegisterInExchange
    <2>3. CASE SaveQueue(t) \/ GetQueue(t) \/ DeleteQueue(t) \/ DeleteQueueRow(t)
      BY <1>1, <2>3 DEF SaveQueue, GetQueue, DeleteQueue, DeleteQueueRow
    <2>4. CASE \E n \in QueueNames : LookUp(t, "DeleteQueue", n, NoConsumer)
      BY <1>1, <2>4, Zenon DEF LookUp
    <2> QED
      BY <1>3, <2>1, <2>2, <2>3, <2>4 DEF QueueCall
  <1>4. CASE ConsumerCall(t)
    BY <1>1, <1>4 DEF ConsumerCall, LookUp, AddConsumer, DisconnectConsumer, DeleteIfUnused,
                      RemoveQueue
  <1>5. CASE PublishCall(t)
    <2>1. CASE \E key \in Keys : Publish(t, key)
      BY <1>1, <2>1, Zenon DEF Publish
    <2>2. CASE Route(t) \/ PublishDone(t)
      BY <1>1, <2>2, Zenon DEF Route, PublishDone
    <2>3. CASE \E n \in QueueNames :
                  DeliverTransient(t, n) \/ SaveReadyDelivery(t, n) \/ DeliverSaved(t, n)
      BY <1>1, <2>3 DEF DeliverTransient, SaveReadyDelivery, DeliverSaved, EnqueueDelivery
    <2> QED
      BY <1>5, <2>1, <2>2, <2>3 DEF PublishCall
  <1>6. CASE Return(t) \/ StatementFails(t) \/ AnswerLost(t)
    BY <1>1, <1>6 DEF Return, StatementFails, AnswerLost
  <1> QED
    BY <1>2, <1>3, <1>4, <1>5, <1>6 DEF Step

\* The process goes on serving.
LEMMA StaysUp ==
  ASSUME IInv, NEW t \in Calls, Step(t)
  PROVE  up /\ up'
  <1>1. up' = up
    BY Zenon
       DEF Step, ExchangeCall, QueueCall, ConsumerCall, PublishCall, CreateExchange, SaveExchange,
       DeleteExchange, HasActiveConsumers, AskQueue, RemoveExchange, DeleteExchangeRow,
       RegisterQueue, RegisterInExchange, SaveQueue, LookUp, GetQueue, DeleteQueue,
       DeleteQueueRow, AddConsumer, DisconnectConsumer, DeleteIfUnused, RemoveQueue, Publish,
       Route, EnqueueDelivery, DeliverTransient, SaveReadyDelivery, DeliverSaved, PublishDone,
       Return, StatementFails, AnswerLost
  <1>2. CASE \/ call[t].pc # "none"
             \/ call[t].op # "none"
    BY <1>1, <1>2, Serving
  <1>3. \/ up
        \/ call[t].pc # "none"
        \/ call[t].op # "none"
    <2>1. CASE ExchangeCall(t)
      BY <2>1, Zenon DEF ExchangeCall, CreateExchange, SaveExchange, DeleteExchange, GetExchange,
         HasActiveConsumers, AskQueue, RemoveExchange, DeleteExchangeRow, At
    <2>2. CASE QueueCall(t)
      BY <2>2, Zenon DEF QueueCall, RegisterQueue, RegisterInExchange, SaveQueue, LookUp, GetQueue,
         DeleteQueue, DeleteQueueRow, GetExchange, At
    <2>3. CASE ConsumerCall(t)
      BY <2>3, Zenon DEF ConsumerCall, LookUp, AddConsumer, DisconnectConsumer, DeleteIfUnused,
         RemoveQueue, GetExchange, At
    <2>4. CASE PublishCall(t)
      BY <2>4, Zenon
         DEF PublishCall, Publish, Route, DeliverTransient, SaveReadyDelivery, DeliverSaved,
         NextItem, PublishDone, GetExchange, At
    <2>5. CASE Return(t) \/ StatementFails(t) \/ AnswerLost(t)
      BY <2>5 DEF Return, StatementFails, AnswerLost, AtStatement, NextItem, At
    <2> QED
      BY <2>1, <2>2, <2>3, <2>4, <2>5 DEF Step
  <1> QED
    BY <1>1, <1>2, <1>3, Zenon

\* EnqueueDelivery appends to one queue or ends the call.
LEMMA EnqueueMove ==
  ASSUME IInv, NEW t \in Calls, call[t].op = "Publish", NEW n, n \in QueueNames,
         EnqueueDelivery(t, n)
  PROVE  Frame /\ SameConsumers
  <1> DEFINE e == call[t].e
             m == queues[e]
             d == NewDelivery(DeliveryID(call[t].number, n))
             q == m[n]
             r == Enqueued(objs[q], d)
  <1>1. UNCHANGED <<exchange, queues, consumed>>
    BY DEF EnqueueDelivery, history
  <1>2. e \in DOMAIN queues /\ call[t].number \in 1..PublishBound
    BY Argued
  <1>3. CASE n \in DOMAIN m
    <2>1. objs' = [objs EXCEPT ![q] = r]
      BY <1>3 DEF EnqueueDelivery
    <2>2. q \in DOMAIN objs /\ objs[q] \in Obj
      BY <1>2, <1>3, Pointers
    <2>3. d \in Deliveries(IDSet, Consumers)
      BY <1>2 DEF NewDelivery, Deliveries, DeliveryID, IDSet
    <2>4. Same(objs[q], r) /\ r.Consumers = objs[q].Consumers /\ r.Ready = Append(objs[q].Ready, d)
      BY <2>2, <2>3, EnqueuedObj
    <2> HIDE DEF r, q, d
    <2>5. Range(objs[q].Ready) \subseteq Range(r.Ready)
      <3> DEFINE s == objs[q].Ready
      <3>1. s \in Seq(Deliveries(IDSet, Consumers))
        BY <2>2 DEF Obj
      <3> HIDE DEF s
      <3>2. Range(s) \subseteq Range(Append(s, d))
        BY <2>3, <3>1 DEF Range
      <3> QED
        BY <2>4, <3>2 DEF s
    <2> QED
      BY <1>1, <2>1, <2>2, <2>4, <2>5, ObjMove
  <1>4. CASE n \notin DOMAIN m
    <2>1. UNCHANGED objs
      BY <1>4 DEF EnqueueDelivery
    <2> QED
      BY <1>1, <2>1, NoMove
  <1> QED
    BY <1>3, <1>4

\* What a step does to the memory.
LEMMA Effect ==
  ASSUME IInv, NEW t \in Calls, Step(t)
  PROVE  /\ Frame
         /\ SameConsumers \/ AddConsumer(t) \/ DisconnectConsumer(t)
  <1>1. CASE UNCHANGED <<queues, objs, consumed>>
    BY <1>1, NoMove
  <1>2. CASE CreateExchange(t)
    <2>1. UNCHANGED objs /\ UNCHANGED consumed
      BY <1>2 DEF CreateExchange, history
    <2>2. queues' = Append(queues, EmptyMap) \/ UNCHANGED queues
      BY <1>2 DEF CreateExchange
    <2> QED
      BY <2>1, <2>2, ExchangeMove, NoMove
  <1>3. CASE RegisterInExchange(t)
    <2>1. /\ call[t].op = "RegisterQueue" /\ exchange' = exchange /\ UNCHANGED consumed
      BY <1>3 DEF RegisterInExchange, At, history
    <2> DEFINE e == call[t].e
               n == call[t].name
               r == call[t].request
    <2>2. e \in DOMAIN queues /\ n \in QueueNames /\ r \in Requests
      BY <2>1, Argued
    <2>3. \/ UNCHANGED <<queues, objs>>
          \/ /\ Accepted(r) /\ n \notin DOMAIN queues[e] /\ objs' = Append(objs, NewQueueOf(r))
             /\ queues' = [queues EXCEPT ![e] = Put(@, n, Len(objs) + 1)]
      BY <1>3 DEF RegisterInExchange
    <2> HIDE DEF e, n, r
    <2> QED
      BY <2>1, <2>2, <2>3, NewMove, NoMove
  <1>4. CASE DeleteQueue(t) \/ RemoveQueue(t)
    <2>1. /\ call[t].op \in {"DeleteQueue", "DisconnectConsumer"}
          /\ UNCHANGED <<exchange, objs>> /\ UNCHANGED consumed
          /\ RemoveName(call[t].e, call[t].name) \/ UNCHANGED queues
      BY <1>4 DEF DeleteQueue, RemoveQueue, At, history
    <2>2. call[t].e \in DOMAIN queues
      BY <2>1, Argued
    <2> QED
      BY <2>1, <2>2, NameMove, NoMove
  <1>5. CASE AddConsumer(t)
    <2> DEFINE q == call[t].q
               r == WithConsumer(objs[q], call[t].consumer)
    <2>1. /\ call[t].op = "AddConsumer" /\ call[t].pc = "AddConsumer"
          /\ objs' = [objs EXCEPT ![q] = r] /\ UNCHANGED <<exchange, queues>>
      BY <1>5 DEF AddConsumer, At
    <2>2. q \in DOMAIN objs /\ call[t].consumer \in Consumers
      BY <2>1, Argued
    <2>3. Same(objs[q], r) /\ r.Ready = objs[q].Ready
      BY <2>2, Pointers, WithConsumerObj
    <2> HIDE DEF q, r
    <2> QED
      BY <1>5, <2>1, <2>2, <2>3, ObjMove
  <1>6. CASE DisconnectConsumer(t)
    <2> DEFINE q == call[t].q
               r == Disconnected(objs[q], call[t].consumer, << >>)
    <2>1. /\ call[t].op = "DisconnectConsumer" /\ call[t].pc = "DisconnectConsumer"
          /\ objs' = [objs EXCEPT ![q] = r] /\ UNCHANGED <<exchange, queues>>
      BY <1>6 DEF DisconnectConsumer, At
    <2>2. q \in DOMAIN objs
      BY <2>1, Argued
    <2>3. Same(objs[q], r) /\ r.Ready = objs[q].Ready
      BY <2>2, Pointers, DisconnectedObj
    <2> HIDE DEF q, r
    <2> QED
      BY <1>6, <2>1, <2>2, <2>3, ObjMove
  <1>7. ASSUME NEW n \in QueueNames, DeliverTransient(t, n) \/ DeliverSaved(t, n)
        PROVE  Frame /\ SameConsumers
    <2>1. call[t].op = "Publish" /\ EnqueueDelivery(t, n)
      BY <1>7, Zenon DEF DeliverTransient, DeliverSaved, NextItem, At
    <2> QED
      BY <2>1, EnqueueMove
  <1>8. \/ UNCHANGED <<queues, objs, consumed>>
        \/ CreateExchange(t) \/ RegisterInExchange(t) \/ DeleteQueue(t) \/ RemoveQueue(t)
        \/ AddConsumer(t) \/ DisconnectConsumer(t)
        \/ \E n \in QueueNames : DeliverTransient(t, n) \/ DeliverSaved(t, n)
    BY Zenon DEF Step, ExchangeCall, QueueCall, ConsumerCall, PublishCall, SaveExchange,
       DeleteExchange, HasActiveConsumers, AskQueue, RemoveExchange, DeleteExchangeRow,
       RegisterQueue, SaveQueue, LookUp, GetQueue, DeleteQueueRow, DeleteIfUnused, Publish,
       Route, SaveReadyDelivery, PublishDone, Return, StatementFails, AnswerLost, memory,
       history
  <1> QED
    BY <1>1, <1>2, <1>3, <1>4, <1>5, <1>6, <1>7, <1>8
----------------------------------------------------------------------------
(***************************************************************************)
(* A confirmed message reaches every queue.  While Publish runs, a queue   *)
(* that was registered when it began, is registered now and has a filter   *)
(* for the key is still among the items or has the message.                *)
(***************************************************************************)
\* Queue n of exchange object k.e has the message of call k.
Got(k, qs, ob, n) == \E d \in Range(ob[qs[k.e][n]].Ready) : d.ID = DeliveryID(k.number, n)

Reaches(k, qs, ob) ==
    /\ k.op = "Publish" /\ k.pc = "Route" => k.saved = {}
    /\ k.op = "Publish" /\ k.pc \in {"Deliver", "Return"} =>
        /\ ValidKey(k.key)
        /\ k.saved \subseteq k.items
        /\ k.pc = "Return" => k.items = {}
        /\ \A n \in DOMAIN qs[k.e] :
              qs[k.e][n] <= k.known /\ MatchFilters(ob[qs[k.e][n]].Filters, k.key)
                => n \in k.items \/ Got(k, qs, ob, n)

PInv == \A t \in Calls : Reaches(call[t], queues, objs)

\* No step takes it back from a call that stays where it is.
LEMMA ReachesStays ==
  ASSUME IInv, Frame, NEW k, Reaches(k, queues, objs), Bounded(k, queues, objs),
         k.op = "Publish" => k.e # 0
  PROVE  Reaches(k, queues', objs')
  <1> SUFFICES ASSUME k.op = "Publish", k.pc \in {"Deliver", "Return"}
               PROVE  Reaches(k, queues', objs')
    BY DEF Reaches
  <1>1. /\ k.e \in DOMAIN queues /\ k.e \in DOMAIN queues' /\ k.known \in 0..Len(objs)
        /\ Len(objs) \in Nat
    BY Pointers DEF Bounded, Frame
  <1>2. ASSUME NEW n \in DOMAIN queues'[k.e], queues'[k.e][n] <= k.known,
               MatchFilters(objs'[queues'[k.e][n]].Filters, k.key)
        PROVE  n \in k.items \/ Got(k, queues', objs', n)
    <2>1. n \in DOMAIN queues[k.e] /\ queues'[k.e][n] = queues[k.e][n]
      <3>1. queues'[k.e][n] # Len(objs) + 1
        BY <1>1, <1>2
      <3> QED
        BY <1>1, <3>1 DEF Frame
    <2> DEFINE q == queues[k.e][n]
    <2>2. q \in DOMAIN objs
      BY <1>1, <2>1, Pointers
    <2>3. objs'[q].Filters = objs[q].Filters /\ Range(objs[q].Ready) \subseteq Range(objs'[q].Ready)
      BY <2>2 DEF Frame, Same
    <2>4. q <= k.known /\ MatchFilters(objs[q].Filters, k.key)
      BY <1>2, <2>1, <2>3
    <2>5. n \in k.items \/ Got(k, queues, objs, n)
      BY <2>1, <2>4 DEF Reaches
    <2>6. Got(k, queues, objs, n) => Got(k, queues', objs', n)
      BY <2>1, <2>3 DEF Got
    <2> QED
      BY <2>5, <2>6
  <1> QED
    BY <1>2 DEF Reaches

\* Route finds every queue that matches.
LEMMA RouteReaches ==
  ASSUME IInv, NEW t \in Calls, Route(t), Reaches(call[t], queues, objs)
  PROVE  Reaches(call'[t], queues', objs')
  <1> DEFINE c == call[t]
             m == queues[c.e]
             I == {n \in DOMAIN m : MatchFilters(objs[m[n]].Filters, c.key)}
             J == {n \in DOMAIN m : objs[m[n]].IsDurable}
             k == [c EXCEPT !.pc = "Deliver", !.items = I, !.durable = J]
  <1>1. c \in CallRec /\ call \in [Calls -> CallRec]
    BY Running
  <1>2. UNCHANGED <<queues, objs>>
    BY DEF Route, memory
  <1>3. CASE ValidKey(c.key)
    <2>1. call' = [call EXCEPT ![t] = k]
      BY <1>3 DEF Route
    <2>2. call'[t] = k
      BY <1>1, <2>1
    <2> HIDE DEF I, J, c
    <2>3. /\ k.op = c.op /\ k.pc = "Deliver" /\ k.e = c.e /\ k.key = c.key /\ k.known = c.known
          /\ k.number = c.number /\ k.items = I /\ k.saved = c.saved
      BY <1>1 DEF CallRec
    <2> HIDE DEF k
    <2>4. \A n \in DOMAIN m : MatchFilters(objs[m[n]].Filters, c.key) => n \in I
      BY DEF I
    <2>5. c.saved = {}
      BY DEF Reaches, Route, At, c
    <2> QED
      BY <1>2, <1>3, <2>2, <2>3, <2>4, <2>5, Zenon DEF Reaches
  <1>4. CASE ~ValidKey(c.key)
    <2>1. call'[t] = Idle
      BY <1>1, <1>4 DEF Route, Leave
    <2> QED
      BY <2>1, IdleFields DEF Reaches
  <1> QED
    BY <1>3, <1>4

\* EnqueueDelivery puts the message where an item stood.
LEMMA EnqueueReaches ==
  ASSUME IInv, NEW t \in Calls, call[t].op = "Publish", call[t].pc = "Deliver",
         NEW n \in QueueNames, n \in call[t].items, EnqueueDelivery(t, n),
         Reaches(call[t], queues, objs), Frame
  PROVE  Reaches(call'[t], queues', objs')
  <1> DEFINE c == call[t]
             m == queues[c.e]
             d == NewDelivery(DeliveryID(c.number, n))
             q == m[n]
             r == Enqueued(objs[q], d)
             I == c.items \ {n}
             k == [c EXCEPT !.items = I, !.saved = {}]
  <1>1. c \in CallRec /\ call \in [Calls -> CallRec] /\ Bounded(c, queues, objs)
    BY Running
  <1>2. c.e \in DOMAIN queues /\ c.number \in 1..PublishBound /\ c.e # 0
    BY Argued
  <1>3. CASE n \in DOMAIN m
    <2>1. /\ objs' = [objs EXCEPT ![q] = r] /\ call' = [call EXCEPT ![t] = k]
          /\ UNCHANGED <<exchange, queues>>
      BY <1>3 DEF EnqueueDelivery
    <2>2. q \in DOMAIN objs /\ objs[q] \in Obj /\ objs \in Seq(Obj)
      BY <1>2, <1>3, Pointers
    <2>3. d \in Deliveries(IDSet, Consumers) /\ d.ID = DeliveryID(c.number, n)
      BY <1>2 DEF NewDelivery, Deliveries, DeliveryID, IDSet
    <2>4. Same(objs[q], r) /\ r.Ready = Append(objs[q].Ready, d)
      BY <2>2, <2>3, EnqueuedObj
    <2>5. objs'[q] = r
      BY <2>1, <2>2
    <2>6. call'[t] = k
      BY <1>1, <2>1
    <2>7. Reaches(c, queues', objs')
      BY <1>1, <1>2, ReachesStays
    <2> HIDE DEF r, d, I, c
    <2>8. /\ k.op = c.op /\ k.pc = c.pc /\ k.e = c.e /\ k.key = c.key /\ k.known = c.known
          /\ k.number = c.number /\ k.items = I /\ k.saved = {}
      BY <1>1 DEF CallRec
    <2> HIDE DEF k
    <2>9. Got(k, queues', objs', n)
      <3>1. d \in Range(r.Ready)
        <4> DEFINE s == objs[q].Ready
        <4>1. s \in Seq(Deliveries(IDSet, Consumers))
          BY <2>2 DEF Obj
        <4> HIDE DEF s
        <4>2. /\ Len(Append(s, d)) = Len(s) + 1 /\ Append(s, d)[Len(s) + 1] = d
              /\ Append(s, d) \in Seq(Deliveries(IDSet, Consumers)) /\ Len(s) \in Nat
          BY <2>3, <4>1, AppendProperties, LenProperties
        <4>3. Len(s) + 1 \in DOMAIN Append(s, d)
          BY <4>2, LenProperties
        <4>4. d \in Range(Append(s, d))
          BY <4>2, <4>3 DEF Range
        <4> QED
          BY <2>4, <4>4 DEF s
      <3>2. queues'[k.e][n] = q
        BY <2>1, <2>8
      <3> QED
        BY <2>3, <2>5, <2>8, <3>1, <3>2 DEF Got
    <2>10. \A x : Got(c, queues', objs', x) => Got(k, queues', objs', x)
      BY <2>8 DEF Got
    <2>11. \A x : x \in c.items => x \in I \/ x = n
      BY DEF I
    <2>12. c.op = "Publish" /\ c.pc = "Deliver"
      BY DEF c
    <2> QED
      BY <2>6, <2>7, <2>8, <2>9, <2>10, <2>11, <2>12 DEF Reaches
  <1>4. CASE n \notin DOMAIN m
    <2>1. call'[t] = Idle
      BY <1>1, <1>4 DEF EnqueueDelivery, Leave
    <2> QED
      BY <2>1, IdleFields DEF Reaches
  <1> QED
    BY <1>3, <1>4

\* SaveReadyDelivery and PublishDone leave what has been reached.
LEMMA OtherReaches ==
  ASSUME IInv, NEW t \in Calls, Reaches(call[t], queues, objs), Frame, UNCHANGED <<queues, objs>>,
         PublishDone(t) \/ \E n \in QueueNames : SaveReadyDelivery(t, n)
  PROVE  Reaches(call'[t], queues', objs')
  <1> DEFINE c == call[t]
  <1>1. c \in CallRec /\ call \in [Calls -> CallRec]
    BY Running
  <1>2. CASE PublishDone(t)
    <2> DEFINE k == [c EXCEPT !.pc = "Return"]
    <2>1. c.op = "Publish" /\ c.pc = "Deliver" /\ c.items = {} /\ call'[t] = k
      BY <1>1, <1>2 DEF PublishDone, At, Goto
    <2> HIDE DEF c
    <2>2. /\ k.op = c.op /\ k.pc = "Return" /\ k.e = c.e /\ k.key = c.key /\ k.known = c.known
          /\ k.number = c.number /\ k.items = c.items /\ k.saved = c.saved
      BY <1>1 DEF CallRec
    <2> HIDE DEF k
    <2>3. \A x : Got(c, queues, objs, x) => Got(k, queues, objs, x)
      BY <2>2 DEF Got
    <2>4. Reaches(c, queues, objs)
      BY DEF c
    <2> QED
      BY <2>1, <2>2, <2>3, <2>4 DEF Reaches
  <1>3. ASSUME NEW n \in QueueNames, SaveReadyDelivery(t, n)
        PROVE  Reaches(call'[t], queues', objs')
    <2> DEFINE k == [c EXCEPT !.saved = {n}]
    <2>1. c.op = "Publish" /\ c.pc = "Deliver" /\ n \in c.items
      BY <1>3 DEF SaveReadyDelivery, NextItem, At
    <2>2. call'[t] = k \/ call'[t] = Idle
      <3>1. call' = [call EXCEPT ![t] = k] \/ Leave(t)
        BY <1>3 DEF SaveReadyDelivery
      <3> QED
        BY <1>1, <3>1, LeftCall
    <2>3. CASE call'[t] = Idle
      BY <2>3, IdleFields DEF Reaches
    <2>4. CASE call'[t] = k
      <3> HIDE DEF c
      <3>1. /\ k.op = c.op /\ k.pc = c.pc /\ k.e = c.e /\ k.key = c.key /\ k.known = c.known
            /\ k.number = c.number /\ k.items = c.items /\ k.saved = {n}
        BY <1>1 DEF CallRec
      <3> HIDE DEF k
      <3>2. \A x : Got(c, queues, objs, x) => Got(k, queues, objs, x)
        BY <3>1 DEF Got
      <3>3. Reaches(c, queues, objs)
        BY DEF c
      <3> QED
        BY <2>1, <2>4, <3>1, <3>2, <3>3 DEF Reaches
    <2> QED
      BY <2>2, <2>3, <2>4
  <1> QED
    BY <1>2, <1>3

\* The calls that begin with broker.GetExchange.
LEMMA BegunFields ==
  ASSUME IInv, NEW t \in Calls
  PROVE  /\ DeleteExchange(t) =>
              /\ call'[t].op = "DeleteExchange" /\ call'[t].pc = "HasActiveConsumers"
              /\ call'[t].q = 0 /\ call'[t].e = exchange /\ call[t] = Idle
         /\ \A n \in QueueNames, r \in Requests : RegisterQueue(t, n, r) =>
              /\ call'[t].op = "RegisterQueue" /\ call'[t].pc = "RegisterQueue"
              /\ call'[t].q = 0 /\ call'[t].e = exchange /\ call[t] = Idle
         /\ \A n \in QueueNames : LookUp(t, "DeleteQueue", n, NoConsumer) =>
              /\ call'[t].op = "DeleteQueue" /\ call'[t].pc = "GetQueue"
              /\ call'[t].q = 0 /\ call'[t].e = exchange /\ call[t] = Idle
         /\ \A n \in QueueNames, c \in Consumers : LookUp(t, "AddConsumer", n, c) =>
              /\ call'[t].op = "AddConsumer" /\ call'[t].pc = "GetQueue"
              /\ call'[t].q = 0 /\ call'[t].e = exchange /\ call[t] = Idle
         /\ \A n \in QueueNames, c \in Consumers : LookUp(t, "DisconnectConsumer", n, c) =>
              /\ call'[t].op = "DisconnectConsumer" /\ call'[t].pc = "GetQueue"
              /\ call'[t].q = 0 /\ call'[t].e = exchange /\ call[t] = Idle
  <1>1. ASSUME DeleteExchange(t)
        PROVE  /\ call'[t].op = "DeleteExchange" /\ call'[t].pc = "HasActiveConsumers"
               /\ call'[t].q = 0 /\ call'[t].e = exchange /\ call[t] = Idle
    <2> DEFINE b == [Idle EXCEPT !.op = "DeleteExchange", !.pc = "HasActiveConsumers"]
    <2>1. b \in CallRec /\ b.op = "DeleteExchange" /\ b.pc = "HasActiveConsumers" /\ b.q = 0
      BY DEF Idle, CallRec
    <2>2. GetExchange(t, b)
      BY <1>1 DEF DeleteExchange
    <2> HIDE DEF b
    <2> QED
      BY <2>1, <2>2, BegunCall
  <1>2. ASSUME NEW n \in QueueNames, NEW r \in Requests, RegisterQueue(t, n, r)
        PROVE  /\ call'[t].op = "RegisterQueue" /\ call'[t].pc = "RegisterQueue"
               /\ call'[t].q = 0 /\ call'[t].e = exchange /\ call[t] = Idle
    <2> DEFINE b == [Idle EXCEPT !.op = "RegisterQueue", !.pc = "RegisterQueue",
                                 !.name = n, !.request = r]
    <2>1. b \in CallRec /\ b.op = "RegisterQueue" /\ b.pc = "RegisterQueue" /\ b.q = 0
      BY DEF Idle, CallRec
    <2>2. GetExchange(t, b)
      BY <1>2 DEF RegisterQueue
    <2> HIDE DEF b
    <2> QED
      BY <2>1, <2>2, BegunCall
  <1>3. ASSUME NEW n \in QueueNames, NEW o, NEW c, LookUp(t, o, n, c),
               o \in {"DeleteQueue", "AddConsumer", "DisconnectConsumer"},
               c \in Consumers \cup {NoConsumer}
        PROVE  /\ call'[t].op = o /\ call'[t].pc = "GetQueue"
               /\ call'[t].q = 0 /\ call'[t].e = exchange /\ call[t] = Idle
    <2> DEFINE b == [Idle EXCEPT !.op = o, !.pc = "GetQueue", !.name = n, !.consumer = c]
    <2>1. b \in CallRec /\ b.op = o /\ b.pc = "GetQueue" /\ b.q = 0
      BY <1>3 DEF Idle, CallRec
    <2>2. GetExchange(t, b)
      BY <1>3 DEF LookUp
    <2> HIDE DEF b
    <2> QED
      BY <2>1, <2>2, BegunCall
  <1> QED
    BY <1>1, <1>2, <1>3

\* Publish.
LEMMA PublishFields ==
  ASSUME IInv, NEW t \in Calls, NEW key \in Keys, Publish(t, key)
  PROVE  /\ call'[t].op = "Publish" /\ call'[t].pc = "Route" /\ call'[t].q = 0
         /\ call'[t].e = exchange /\ call'[t].saved = {} /\ call'[t].key = key
         /\ call'[t].number = Len(published) + 1 /\ call'[t].known = Len(objs)
         /\ call[t] = Idle
  <1> DEFINE i == Len(published) + 1
             j == Len(objs)
             b1 == [Idle EXCEPT !.op = "Publish", !.pc = "Route", !.key = key]
             b == [Idle EXCEPT !.op = "Publish", !.pc = "Route", !.key = key,
                               !.number = i, !.known = j]
             b2 == [b1 EXCEPT !.number = i, !.known = j]
  <1>1. i \in Nat /\ j \in Nat
    BY Pointers, LenProperties DEF IInv, History
  <1>2. GetExchange(t, b)
    BY DEF Publish
  <1> HIDE DEF i, j
  <1>3. /\ b1 \in CallRec /\ b1.op = "Publish" /\ b1.pc = "Route" /\ b1.key = key
        /\ b1.q = 0 /\ b1.saved = {}
    BY DEF Idle, CallRec
  <1>4. b = b2
    OBVIOUS
  <1> HIDE DEF b1, b
  <1>5. /\ b \in CallRec /\ b.op = "Publish" /\ b.pc = "Route" /\ b.key = key /\ b.number = i
        /\ b.q = 0 /\ b.saved = {} /\ b.known = j
    BY <1>1, <1>3, <1>4 DEF CallRec
  <1> QED
    BY <1>2, <1>5, BegunCall DEF i, j

\* No other step makes a call a Publish that is under way.
LEMMA NotPublishing ==
  ASSUME IInv, NEW t \in Calls,
         \/ ExchangeCall(t) \/ QueueCall(t) \/ ConsumerCall(t)
         \/ Return(t) \/ StatementFails(t) \/ AnswerLost(t)
  PROVE  call'[t].op # "Publish"
  <1>1. CASE Leave(t)
    BY <1>1, LeftCall, IdleFields
  <1>2. ASSUME NEW p, Goto(t, p), call[t].op # "Publish" PROVE call'[t].op # "Publish"
    BY <1>2, GotoCall
  <1>3. CASE CreateExchange(t)
    BY <1>3, CreateCall
  <1>4. CASE DeleteExchange(t)
    BY <1>4, BegunFields
  <1>5. CASE HasActiveConsumers(t)
    BY <1>5, CopiedCall
  <1>6. ASSUME NEW q, AskQueue(t, q) PROVE call'[t].op # "Publish"
    BY <1>6, AskedCall, IdleFields
  <1>7. CASE RemoveExchange(t)
    BY <1>1, <1>2, <1>7 DEF RemoveExchange, At
  <1>8. ASSUME NEW n \in QueueNames, NEW r \in Requests, RegisterQueue(t, n, r)
        PROVE  call'[t].op # "Publish"
    BY <1>8, BegunFields
  <1>9. CASE RegisterInExchange(t)
    <2>1. call[t].op = "RegisterQueue"
      BY <1>9 DEF RegisterInExchange, At
    <2>2. Leave(t) \/ \E q, d : Registered(t, q, d)
      BY <1>9 DEF RegisterInExchange
    <2> QED
      BY <1>1, <2>1, <2>2, RegisteredCall
  <1>10. CASE SaveQueue(t)
    BY <1>1, <1>2, <1>10 DEF SaveQueue, At
  <1>11. CASE GetQueue(t)
    BY <1>11, FoundCall, IdleFields
  <1>12. CASE DeleteQueue(t)
    BY <1>1, <1>2, <1>12 DEF DeleteQueue, At
  <1>13. CASE DisconnectConsumer(t) \/ DeleteIfUnused(t)
    BY <1>1, <1>2, <1>13 DEF DisconnectConsumer, DeleteIfUnused, At
  <1>14. CASE \/ SaveExchange(t) \/ DeleteExchangeRow(t) \/ DeleteQueueRow(t) \/ AddConsumer(t)
              \/ RemoveQueue(t) \/ Return(t) \/ StatementFails(t) \/ AnswerLost(t)
    BY <1>1, <1>14 DEF SaveExchange, DeleteExchangeRow, DeleteQueueRow, AddConsumer, RemoveQueue,
                       Return, StatementFails, AnswerLost
  <1>15. ASSUME NEW n \in QueueNames, NEW c \in Consumers,
                LookUp(t, "AddConsumer", n, c) \/ LookUp(t, "DisconnectConsumer", n, c)
         PROVE  call'[t].op # "Publish"
    BY <1>15, BegunFields
  <1>16. ASSUME NEW n \in QueueNames, LookUp(t, "DeleteQueue", n, NoConsumer)
         PROVE  call'[t].op # "Publish"
    BY <1>16, BegunFields
  <1>17. CASE ExchangeCall(t)
    BY <1>3, <1>4, <1>5, <1>6, <1>7, <1>14, <1>17 DEF ExchangeCall
  <1>18. CASE QueueCall(t)
    BY <1>8, <1>9, <1>10, <1>11, <1>12, <1>14, <1>16, <1>18 DEF QueueCall
  <1>19. CASE ConsumerCall(t)
    BY <1>13, <1>14, <1>15, <1>19 DEF ConsumerCall
  <1> QED
    BY <1>14, <1>17, <1>18, <1>19

\* Every step keeps what the Publish calls have reached.
LEMMA PNext ==
  ASSUME IInv, PInv, [Next]_vars
  PROVE  PInv'
  <1>1. CASE UNCHANGED vars
    <2>1. UNCHANGED <<queues, objs, call>>
      BY <1>1 DEF vars, memory
    <2> QED
      BY <2>1 DEF PInv
  <1>2. ASSUME NEW t \in Calls, Step(t) PROVE PInv'
    <2>1. Frame
      BY <1>2, Effect
    <2>2. ASSUME NEW u \in Calls, u # t PROVE Reaches(call'[u], queues', objs')
      <3>1. call'[u] = call[u]
        BY <1>2, <2>2, OthersStay
      <3>2. /\ Bounded(call[u], queues, objs) /\ (call[u].op = "Publish" => call[u].e # 0)
            /\ Reaches(call[u], queues, objs)
        BY Running, Argued DEF PInv
      <3> QED
        BY <2>1, <3>1, <3>2, ReachesStays
    <2>3. Reaches(call[t], queues, objs)
      BY DEF PInv
    <2>4. Reaches(call'[t], queues', objs')
      <3>1. CASE call'[t].op # "Publish"
        BY <3>1 DEF Reaches
      <3>2. ASSUME NEW key \in Keys, Publish(t, key) PROVE Reaches(call'[t], queues', objs')
        BY <3>2, PublishFields DEF Reaches
      <3>3. CASE Route(t)
        BY <2>3, <3>3, RouteReaches
      <3>4. ASSUME NEW n \in QueueNames, DeliverTransient(t, n) \/ DeliverSaved(t, n)
            PROVE  Reaches(call'[t], queues', objs')
        <4>1. call[t].op = "Publish" /\ call[t].pc = "Deliver" /\ EnqueueDelivery(t, n)
          BY <3>4 DEF DeliverTransient, DeliverSaved, NextItem, At
        <4>2. n \in call[t].items
          BY <2>3, <3>4, <4>1 DEF DeliverTransient, DeliverSaved, NextItem, Reaches
        <4> QED
          BY <2>1, <2>3, <4>1, <4>2, EnqueueReaches
      <3>5. CASE PublishDone(t) \/ \E n \in QueueNames : SaveReadyDelivery(t, n)
        <4>1. UNCHANGED <<queues, objs>>
          BY <3>5 DEF PublishDone, SaveReadyDelivery, memory
        <4> QED
          BY <2>1, <2>3, <3>5, <4>1, OtherReaches
      <3>6. CASE PublishCall(t)
        BY <3>2, <3>3, <3>4, <3>5, <3>6 DEF PublishCall
      <3>7. CASE ~PublishCall(t)
        BY <1>2, <3>1, <3>7, NotPublishing DEF Step
      <3> QED
        BY <3>6, <3>7
    <2> QED
      BY <2>2, <2>4 DEF PInv
  <1>3. CASE Crash \/ Restore
    <2>1. \A t \in Calls : call'[t] = Idle
      BY <1>3 DEF Crash, Restore, IInv, Down
    <2> QED
      BY <2>1, IdleFields DEF PInv, Reaches
  <1> QED
    BY <1>1, <1>2, <1>3 DEF Next, Step

\* When Publish returns without an error, every queue that was registered from
\* its beginning to its end and has a filter for the key has got the message,
\* whatever other calls registered, deleted or restarted meanwhile
\* (service/broker.go 147-177).
THEOREM PublishReachesAll == Spec => []ConfirmedReachesAll
  <1>1. Init => PInv
    BY IdleFields DEF Init, PInv, Reaches
  <1>2. IInv /\ PInv => ConfirmedReachesAll
    <2> SUFFICES ASSUME IInv, PInv, NEW t \in Calls, call[t].op = "Publish", call[t].pc = "Return",
                        NEW n \in DOMAIN queues[call[t].e],
                        queues[call[t].e][n] <= call[t].known,
                        call[t].key \in DenotedByAny(objs[queues[call[t].e][n]].Filters)
                 PROVE  \E d \in Range(objs[queues[call[t].e][n]].Ready) :
                           d.ID = DeliveryID(call[t].number, n)
      BY DEF ConfirmedReachesAll
    <2> DEFINE q == queues[call[t].e][n]
    <2>1. call[t].e \in DOMAIN queues /\ call[t].key \in Keys
      BY Argued
    <2>2. q \in DOMAIN objs /\ objs[q] \in Obj
      BY <2>1, Pointers
    <2>3. /\ ValidKey(call[t].key) /\ call[t].items = {}
          /\ MatchFilters(objs[q].Filters, call[t].key) => n \in call[t].items \/ Got(call[t], queues, objs, n)
      BY DEF PInv, Reaches
    <2>4. call[t].key \in Seq(Words)
      <3> DEFINE k == call[t].key
      <3>1. k \in Seq(Tokens) /\ Range(k) \subseteq Words
        BY <2>1, <2>3, RegistryAssumption DEF ValidKey
      <3> HIDE DEF k
      <3>2. k \in [1..Len(k) -> Words] /\ Len(k) \in Nat
        BY <3>1, LenProperties DEF Range
      <3>3. k \in Seq(Words)
        BY <3>2
      <3> QED
        BY <3>3 DEF k
    <2>5. objs[q].Filters \in Seq(Seq(Words \cup {Wildcard}))
      BY <2>2 DEF Obj, Filter
    <2>6. MatchFilters(objs[q].Filters, call[t].key)
      BY <2>4, <2>5, MatchFiltersIsDenotation
    <2> QED
      BY <2>3, <2>6 DEF Got
  <1>3. IInv /\ PInv /\ [Next]_vars => PInv'
    BY PNext
  <1> QED
    BY <1>1, <1>2, <1>3, Inductive, PTL DEF Spec
----------------------------------------------------------------------------
(***************************************************************************)
(* What a registration gives its caller.                                   *)
(***************************************************************************)
\* A queue with filters a is given to a caller who asked for b.
Given(a, b) == Range(a) \subseteq Range(b) /\ (IsInjective(a) => Range(a) = Range(b))

AskedFor(k, ob) ==
    k.op = "RegisterQueue" /\ k.pc \in {"SaveQueue", "Return"}
        => Given(ob[k.q].Filters, k.request.Filters)

RInv == \A t \in Calls : AskedFor(call[t], objs)

\* What kind of call a step leaves.
LEMMA Ops ==
  ASSUME IInv, NEW t \in Calls
  PROVE  /\ ExchangeCall(t) => call'[t].op \in {"none", "CreateExchange", "DeleteExchange"}
         /\ ConsumerCall(t) => call'[t].op \in {"none", "AddConsumer", "DisconnectConsumer"}
         /\ PublishCall(t) => call'[t].op \in {"none", "Publish"}
         /\ Return(t) \/ StatementFails(t) \/ AnswerLost(t) => call'[t] = Idle
  <1>1. Leave(t) => call'[t] = Idle /\ call'[t].op = "none"
    BY LeftCall, IdleFields
  <1>2. \A p : Goto(t, p) => call'[t].op = call[t].op
    BY GotoCall
  <1>3. ASSUME ExchangeCall(t)
        PROVE  call'[t].op \in {"none", "CreateExchange", "DeleteExchange"}
    <2>1. CASE CreateExchange(t)
      BY <2>1, CreateCall
    <2>2. CASE DeleteExchange(t)
      BY <2>2, BegunFields
    <2>3. CASE HasActiveConsumers(t)
      BY <2>3, CopiedCall
    <2>4. ASSUME NEW q, AskQueue(t, q) PROVE call'[t].op \in {"none", "DeleteExchange"}
      BY <2>4, AskedCall, IdleFields
    <2>5. CASE RemoveExchange(t)
      BY <1>1, <1>2, <2>5 DEF RemoveExchange, At
    <2>6. CASE SaveExchange(t) \/ DeleteExchangeRow(t)
      BY <1>1, <2>6 DEF SaveExchange, DeleteExchangeRow
    <2> QED
      BY <1>3, <2>1, <2>2, <2>3, <2>4, <2>5, <2>6 DEF ExchangeCall
  <1>4. ASSUME ConsumerCall(t)
        PROVE  call'[t].op \in {"none", "AddConsumer", "DisconnectConsumer"}
    <2>1. CASE DisconnectConsumer(t) \/ DeleteIfUnused(t)
      BY <1>1, <1>2, <2>1 DEF DisconnectConsumer, DeleteIfUnused, At
    <2>2. CASE AddConsumer(t) \/ RemoveQueue(t)
      BY <1>1, <2>2 DEF AddConsumer, RemoveQueue
    <2>3. ASSUME NEW n \in QueueNames, NEW c \in Consumers,
                LookUp(t, "AddConsumer", n, c) \/ LookUp(t, "DisconnectConsumer", n, c)
         PROVE  call'[t].op \in {"AddConsumer", "DisconnectConsumer"}
      BY <2>3, BegunFields
    <2> QED
      BY <1>4, <2>1, <2>2, <2>3 DEF ConsumerCall
  <1>5. ASSUME PublishCall(t) PROVE call'[t].op \in {"none", "Publish"}
    <2>1. ASSUME NEW key \in Keys, Publish(t, key) PROVE call'[t].op = "Publish"
      BY <2>1, PublishFields
    <2>2. CASE PublishDone(t)
      BY <1>2, <2>2 DEF PublishDone, At
    <2> DEFINE c == call[t]
    <2>3. c \in CallRec /\ call \in [Calls -> CallRec]
      BY Running
    <2>4. CASE Route(t)
      <3> DEFINE m == queues[c.e]
                 I == {n \in DOMAIN m : MatchFilters(objs[m[n]].Filters, c.key)}
                 J == {n \in DOMAIN m : objs[m[n]].IsDurable}
                 k == [c EXCEPT !.pc = "Deliver", !.items = I, !.durable = J]
      <3>1. c.op = "Publish" /\ (call' = [call EXCEPT ![t] = k] \/ Leave(t))
        BY <2>4, Zenon DEF Route, At
      <3>2. call'[t] = k \/ Leave(t)
        BY <2>3, <3>1
      <3> HIDE DEF I, J, c
      <3>3. k.op = c.op
        BY <2>3 DEF CallRec
      <3> QED
        BY <1>1, <3>1, <3>2, <3>3 DEF c
    <2>5. ASSUME NEW n \in QueueNames,
                 DeliverTransient(t, n) \/ SaveReadyDelivery(t, n) \/ DeliverSaved(t, n)
          PROVE  call'[t].op \in {"none", "Publish"}
      <3> DEFINE I == c.items \ {n}
                 k1 == [c EXCEPT !.items = I, !.saved = {}]
                 k2 == [c EXCEPT !.saved = {n}]
      <3>1. /\ c.op = "Publish"
            /\ \/ call' = [call EXCEPT ![t] = k1]
               \/ call' = [call EXCEPT ![t] = k2]
               \/ Leave(t)
        BY <2>5 DEF DeliverTransient, SaveReadyDelivery, DeliverSaved, EnqueueDelivery, NextItem, At
      <3>2. call'[t] = k1 \/ call'[t] = k2 \/ Leave(t)
        BY <2>3, <3>1
      <3> HIDE DEF I, c
      <3>3. k1.op = c.op /\ k2.op = c.op
        BY <2>3 DEF CallRec
      <3> QED
        BY <1>1, <3>1, <3>2, <3>3 DEF c
    <2> QED
      BY <1>5, <2>1, <2>2, <2>4, <2>5 DEF PublishCall
  <1>6. ASSUME Return(t) \/ StatementFails(t) \/ AnswerLost(t) PROVE call'[t] = Idle
    BY <1>1, <1>6 DEF Return, StatementFails, AnswerLost
  <1> QED
    BY <1>3, <1>4, <1>5, <1>6

\* A registration gets to its later steps by RegisterInExchange and SaveQueue.
LEMMA RegisteringOnly ==
  ASSUME IInv, NEW t \in Calls, Step(t),
         call'[t].op = "RegisterQueue", call'[t].pc \in {"SaveQueue", "Return"}
  PROVE  RegisterInExchange(t) \/ SaveQueue(t)
  <1>1. QueueCall(t)
    BY Ops, IdleFields DEF Step
  <1>2. ASSUME NEW n \in QueueNames, NEW r \in Requests, RegisterQueue(t, n, r) PROVE FALSE
    BY <1>2, BegunFields
  <1>3. ASSUME NEW n \in QueueNames, LookUp(t, "DeleteQueue", n, NoConsumer) PROVE FALSE
    BY <1>3, BegunFields
  <1>4. CASE GetQueue(t)
    BY <1>4, FoundCall, IdleFields
  <1>5. Leave(t) => call'[t].op = "none"
    BY LeftCall, IdleFields
  <1>6. CASE DeleteQueue(t)
    <2>1. call[t].op = "DeleteQueue" /\ (Leave(t) \/ Goto(t, "DeleteQueueRow"))
      BY <1>6 DEF DeleteQueue, At
    <2> QED
      BY <1>5, <2>1, GotoCall
  <1>7. CASE DeleteQueueRow(t)
    BY <1>5, <1>7 DEF DeleteQueueRow
  <1> QED
    BY <1>1, <1>2, <1>3, <1>4, <1>6, <1>7 DEF QueueCall

\* The tokens of a filter are tokens.
LEMMA FilterTokens == Filter \subseteq Seq(Tokens)
  <1>1. ASSUME NEW f \in Filter PROVE f \in Seq(Tokens)
    <2> DEFINE W == Words \cup {Wildcard}
    <2>1. f \in Seq(W) /\ W \subseteq Tokens
      BY DEF Filter, Tokens
    <2> HIDE DEF W
    <2>2. f \in [1..Len(f) -> Tokens] /\ Len(f) \in Nat
      BY <2>1, LenProperties, ElementOfSeq
    <2> QED
      BY <2>2
  <1> QED
    BY <1>1

\* equalFilters on the filters of a queue and of a request.
LEMMA EqualAsAsked ==
  ASSUME NEW q \in Obj, NEW r \in Requests, SameParameters(q, r)
  PROVE  Given(q.Filters, r.Filters)
  <1> DEFINE a == q.Filters
             b == r.Filters
  <1>1. a \in Seq(Filter) /\ b \in Seq(Seq(Tokens)) /\ equalFilters(a, b)
    BY RegistryAssumption DEF Obj, Request, SameParameters
  <1> HIDE DEF a, b
  <1>2. a \in Seq(Seq(Tokens))
    <2>1. a \in [1..Len(a) -> Seq(Tokens)] /\ Len(a) \in Nat
      BY <1>1, FilterTokens, LenProperties, ElementOfSeq
    <2> QED
      BY <2>1
  <1>3. IsInjective(a) => Range(a) = Range(b)
    BY <1>1, <1>2, EqualFiltersExact
  <1>4. Range(a) \subseteq Range(b)
    BY <1>1 DEF equalFilters
  <1> QED
    BY <1>3, <1>4 DEF a, b, Given

\* Every step keeps what registrations have been given.
LEMMA RNext ==
  ASSUME IInv, RInv, [Next]_vars
  PROVE  RInv'
  <1>1. CASE UNCHANGED vars
    <2>1. UNCHANGED <<objs, call>>
      BY <1>1 DEF vars, memory
    <2> QED
      BY <2>1 DEF RInv
  <1>2. ASSUME NEW t \in Calls, Step(t) PROVE RInv'
    <2>1. Frame
      BY <1>2, Effect
    <2>3. ASSUME NEW u \in Calls, u # t PROVE AskedFor(call'[u], objs')
      <3>1. call'[u] = call[u]
        BY <1>2, <2>3, OthersStay
      <3>2. SUFFICES ASSUME call[u].op = "RegisterQueue", call[u].pc \in {"SaveQueue", "Return"}
                     PROVE  Given(objs'[call[u].q].Filters, call[u].request.Filters)
        BY <3>1 DEF AskedFor
      <3>3. call[u].q \in DOMAIN objs
        BY <3>2, Argued
      <3>4. objs'[call[u].q].Filters = objs[call[u].q].Filters
        BY <2>1, <3>3 DEF Frame, Same
      <3> QED
        BY <3>2, <3>4 DEF RInv, AskedFor
    <2>4. AskedFor(call'[t], objs')
      <3> SUFFICES ASSUME call'[t].op = "RegisterQueue", call'[t].pc \in {"SaveQueue", "Return"}
                   PROVE  Given(objs'[call'[t].q].Filters, call'[t].request.Filters)
        BY DEF AskedFor
      <3>1. CASE SaveQueue(t)
        <4>1. call[t].op = "RegisterQueue" /\ call[t].pc = "SaveQueue" /\ UNCHANGED objs
          BY <3>1 DEF SaveQueue, At, memory
        <4>2. Goto(t, "Return")
          BY <3>1, LeftCall, IdleFields DEF SaveQueue
        <4>3. call'[t].q = call[t].q /\ call'[t].request = call[t].request
          BY <4>2, GotoCall
        <4> QED
          BY <4>1, <4>3 DEF RInv, AskedFor
      <3>2. CASE RegisterInExchange(t)
        <4> DEFINE e == call[t].e
                   n == call[t].name
                   r == call[t].request
        <4>1. call[t].op = "RegisterQueue" /\ call[t].pc = "RegisterQueue" /\ exchange' = exchange
          BY <3>2 DEF RegisterInExchange, At
        <4>2. e \in DOMAIN queues /\ n \in QueueNames /\ r \in Requests
          BY <4>1, Argued
        <4>3. ~Leave(t)
          BY LeftCall, IdleFields
        <4>4. CASE /\ n \in DOMAIN queues[e] /\ SameParameters(objs[queues[e][n]], r)
                   /\ Registered(t, queues[e][n], r.IsDurable) /\ UNCHANGED objs
          <5> DEFINE q == queues[e][n]
          <5>1. q \in DOMAIN objs /\ objs[q] \in Obj
            BY <4>2, <4>4, Pointers
          <5>2. call'[t].q = q /\ call'[t].request = r
            BY <4>4, RegisteredCall
          <5>3. Given(objs[q].Filters, r.Filters)
            BY <4>2, <4>4, <5>1, EqualAsAsked
          <5> QED
            BY <4>4, <5>2, <5>3
        <4>5. CASE /\ Accepted(r) /\ objs' = Append(objs, NewQueueOf(r))
                   /\ queues' = [queues EXCEPT ![e] = Put(@, n, Len(objs) + 1)]
                   /\ Registered(t, Len(objs) + 1, r.IsDurable)
          <5>1. call'[t].q = Len(objs) + 1 /\ call'[t].request = r
            BY <4>5, RegisteredCall
          <5> HIDE DEF e, n, r
          <5>2. objs'[Len(objs) + 1] = NewQueueOf(r)
            BY <4>1, <4>2, <4>5, NewRegistration
          <5>3. NewQueueOf(r).Filters = r.Filters
            BY <4>2, <4>5, NewObj, RegistryAssumption
          <5> QED
            BY <5>1, <5>2, <5>3 DEF Given
        <4>6. \/ /\ n \in DOMAIN queues[e] /\ SameParameters(objs[queues[e][n]], r)
                 /\ Registered(t, queues[e][n], r.IsDurable) /\ UNCHANGED objs
              \/ /\ Accepted(r) /\ objs' = Append(objs, NewQueueOf(r))
                 /\ queues' = [queues EXCEPT ![e] = Put(@, n, Len(objs) + 1)]
                 /\ Registered(t, Len(objs) + 1, r.IsDurable)
          BY <3>2, <4>3 DEF RegisterInExchange
        <4> QED
          BY <4>4, <4>5, <4>6
      <3> QED
        BY <1>2, <3>1, <3>2, RegisteringOnly
    <2> QED
      BY <2>3, <2>4 DEF RInv
  <1>3. CASE Crash
    <2>1. objs' = << >> /\ \A t \in Calls : call'[t] = Idle
      BY <1>3 DEF Crash
    <2> QED
      BY <2>1, IdleFields DEF RInv, AskedFor
  <1>4. CASE Restore
    <2>1. \A t \in Calls : call'[t] = Idle
      BY <1>4 DEF Restore, IInv, Down
    <2> QED
      BY <2>1, IdleFields DEF RInv, AskedFor
  <1> QED
    BY <1>1, <1>2, <1>3, <1>4 DEF Next, Step

\* Whatever else runs, a caller gets a queue without a filter that was not asked
\* for, and with all of them if the queue's list repeats none (exchange.go 19-24,
\* 221-238).
THEOREM FiltersAsAsked == Spec => []RegisteredAsAsked
  <1>1. Init => RInv
    BY IdleFields DEF Init, RInv, AskedFor
  <1>2. RInv => RegisteredAsAsked
    BY DEF RInv, AskedFor, Given, RegisteredAsAsked
  <1>3. IInv /\ RInv /\ [Next]_vars => RInv'
    BY RNext
  <1> QED
    BY <1>1, <1>2, <1>3, Inductive, PTL DEF Spec
----------------------------------------------------------------------------
(***************************************************************************)
(* Auto-delete.  A queue object is registered under one name of one        *)
(* exchange object at most, and a call that holds it holds it under that   *)
(* name; while an unused auto-delete queue is registered, the call that is *)
(* going to remove it runs.                                                *)
(***************************************************************************)
Apart(qs) ==
    \A e, f \in DOMAIN qs : \A n \in DOMAIN qs[e], m \in DOMAIN qs[f] :
        qs[e][n] = qs[f][m] => e = f /\ n = m

HeldUnder(k, qs) ==
    \A e \in DOMAIN qs : \A n \in DOMAIN qs[e] : qs[e][n] = k.q => e = k.e /\ n = k.name

Unused(ob, cs, q) == ob[q].IsAutoDelete /\ q \in cs /\ ob[q].Consumers = {}

\* Call k is about to take queue q out of the map under name n.
Removes(k, e, n, q) ==
    /\ k.op = "DisconnectConsumer" /\ k.e = e /\ k.name = n
    /\ \/ k.pc = "HasConsumers" /\ k.q = q
       \/ k.pc = "RemoveQueue"

UInv == Apart(queues) /\ \A t \in Calls : HeldUnder(call[t], queues)

AInv ==
    \A e \in DOMAIN queues : \A n \in DOMAIN queues[e] :
        Unused(objs, consumed, queues[e][n])
            => \E t \in Calls : Removes(call[t], e, n, queues[e][n])

\* Objects stay apart.
LEMMA ApartStays ==
  ASSUME IInv, Frame, Apart(queues)
  PROVE  Apart(queues')
  <1> SUFFICES ASSUME NEW e \in DOMAIN queues', NEW f \in DOMAIN queues',
                      NEW n \in DOMAIN queues'[e], NEW m \in DOMAIN queues'[f],
                      queues'[e][n] = queues'[f][m]
               PROVE  e = f /\ n = m
    BY DEF Apart
  <1>1. Len(objs) + 1 \notin DOMAIN objs
    BY Pointers
  <1>2. \/ e \in DOMAIN queues /\ n \in DOMAIN queues[e] /\ queues'[e][n] = queues[e][n]
        \/ queues'[e][n] = Len(objs) + 1
    BY DEF Frame
  <1>3. \/ f \in DOMAIN queues /\ m \in DOMAIN queues[f] /\ queues'[f][m] = queues[f][m]
        \/ queues'[f][m] = Len(objs) + 1
    BY DEF Frame
  <1>4. CASE queues'[e][n] = Len(objs) + 1
    <2>1. \A e1, f1 \in DOMAIN queues' : \A n1 \in DOMAIN queues'[e1], m1 \in DOMAIN queues'[f1] :
            queues'[e1][n1] = Len(objs) + 1 /\ queues'[f1][m1] = Len(objs) + 1 => e1 = f1 /\ n1 = m1
      BY DEF Frame
    <2>2. queues'[f][m] = Len(objs) + 1
      BY <1>4
    <2> QED
      BY <1>4, <2>1, <2>2
  <1>5. CASE queues'[e][n] # Len(objs) + 1
    BY <1>2, <1>3, <1>5 DEF Apart
  <1> QED
    BY <1>4, <1>5

\* A call that stays holds its queue under the same name.
LEMMA HeldStays ==
  ASSUME IInv, Frame, NEW k, k.q \in 0..Len(objs), HeldUnder(k, queues)
  PROVE  HeldUnder(k, queues')
  <1> SUFFICES ASSUME NEW e \in DOMAIN queues', NEW n \in DOMAIN queues'[e], queues'[e][n] = k.q
               PROVE  e = k.e /\ n = k.name
    BY DEF HeldUnder
  <1>1. queues'[e][n] # Len(objs) + 1
    BY Pointers
  <1>2. e \in DOMAIN queues /\ n \in DOMAIN queues[e] /\ queues'[e][n] = queues[e][n]
    BY <1>1 DEF Frame
  <1> QED
    BY <1>2 DEF HeldUnder

\* Where the queue that a call holds comes from.
LEMMA HoldMoves ==
  ASSUME IInv, NEW t \in Calls, Step(t)
  PROVE  LET m == call'[t]
             k == call[t]
         IN  \/ m.q = 0
             \/ m.q = k.q /\ m.e = k.e /\ m.name = k.name
             \/ /\ m.e \in DOMAIN queues' /\ m.name \in DOMAIN queues'[m.e]
                /\ m.q = queues'[m.e][m.name]
  <1> DEFINE m == call'[t]
             k == call[t]
             Held == m.q = k.q /\ m.e = k.e /\ m.name = k.name
             There == /\ m.e \in DOMAIN queues' /\ m.name \in DOMAIN queues'[m.e]
                      /\ m.q = queues'[m.e][m.name]
  <1>1. Leave(t) => m.q = 0
    BY LeftCall, IdleFields
  <1>2. \A p : Goto(t, p) => Held
    BY GotoCall
  <1>3. CASE ExchangeCall(t)
    <2>1. CASE CreateExchange(t)
      BY <2>1, CreateCall
    <2>2. CASE DeleteExchange(t)
      BY <2>2, BegunFields
    <2>3. CASE HasActiveConsumers(t)
      BY <2>3, CopiedCall
    <2>4. ASSUME NEW q, AskQueue(t, q) PROVE m.q = 0 \/ Held
      BY <2>4, AskedCall, IdleFields
    <2>5. CASE RemoveExchange(t)
      BY <1>1, <1>2, <2>5 DEF RemoveExchange
    <2>6. CASE SaveExchange(t) \/ DeleteExchangeRow(t)
      BY <1>1, <2>6 DEF SaveExchange, DeleteExchangeRow
    <2> HIDE DEF m, k
    <2> QED
      BY <1>3, <2>1, <2>2, <2>3, <2>4, <2>5, <2>6 DEF ExchangeCall, m, k
  <1>4. CASE QueueCall(t)
    <2>1. ASSUME NEW n \in QueueNames, NEW r \in Requests, RegisterQueue(t, n, r) PROVE m.q = 0
      BY <2>1, BegunFields
    <2>2. ASSUME NEW n \in QueueNames, LookUp(t, "DeleteQueue", n, NoConsumer) PROVE m.q = 0
      BY <2>2, BegunFields
    <2>3. CASE GetQueue(t)
      <3>1. UNCHANGED queues
        BY <2>3 DEF GetQueue, memory
      <3>2. \/ m = Idle
            \/ /\ k.name \in DOMAIN queues[k.e] /\ m.e = k.e /\ m.name = k.name
               /\ m.q = queues[k.e][k.name]
        BY <2>3, FoundCall
      <3>3. k.e \in DOMAIN queues
        BY <2>3, FoundCall, Argued
      <3> QED
        BY <3>1, <3>2, <3>3, IdleFields
    <2>4. CASE DeleteQueue(t)
      BY <1>1, <1>2, <2>4 DEF DeleteQueue
    <2>5. CASE DeleteQueueRow(t)
      BY <1>1, <2>5 DEF DeleteQueueRow
    <2>6. CASE SaveQueue(t)
      BY <1>1, <1>2, <2>6 DEF SaveQueue
    <2>7. CASE RegisterInExchange(t)
      <3> DEFINE e == k.e
                 n == k.name
                 r == k.request
      <3>1. k.op = "RegisterQueue" /\ exchange' = exchange
        BY <2>7 DEF RegisterInExchange, At
      <3>2. e \in DOMAIN queues /\ n \in QueueNames /\ r \in Requests
        BY <3>1, Argued
      <3>3. \/ Leave(t)
            \/ /\ n \in DOMAIN queues[e] /\ Registered(t, queues[e][n], r.IsDurable)
               /\ UNCHANGED queues
            \/ /\ Accepted(r) /\ objs' = Append(objs, NewQueueOf(r))
               /\ queues' = [queues EXCEPT ![e] = Put(@, n, Len(objs) + 1)]
               /\ Registered(t, Len(objs) + 1, r.IsDurable)
        BY <2>7 DEF RegisterInExchange
      <3>4. CASE /\ n \in DOMAIN queues[e] /\ Registered(t, queues[e][n], r.IsDurable)
                 /\ UNCHANGED queues
        <4>1. m.q = queues[e][n] /\ m.e = e /\ m.name = n
          BY <3>4, RegisteredCall
        <4> QED
          BY <3>2, <3>4, <4>1
      <3>5. CASE /\ Accepted(r) /\ objs' = Append(objs, NewQueueOf(r))
                 /\ queues' = [queues EXCEPT ![e] = Put(@, n, Len(objs) + 1)]
                 /\ Registered(t, Len(objs) + 1, r.IsDurable)
        <4>1. m.q = Len(objs) + 1 /\ m.e = e /\ m.name = n
          BY <3>5, RegisteredCall
        <4>2. /\ DOMAIN queues' = DOMAIN queues /\ n \in DOMAIN queues'[e]
              /\ queues'[e][n] = Len(objs) + 1
          <5> HIDE DEF m, e, n, r, k, Held, There
          <5>1. /\ Accepted(r) /\ objs' = Append(objs, NewQueueOf(r)) /\ exchange' = exchange
                /\ queues' = [queues EXCEPT ![e] = Put(@, n, Len(objs) + 1)]
            BY <3>1, <3>5
          <5>2. /\ DOMAIN queues' = DOMAIN queues
                /\ DOMAIN queues'[e] = DOMAIN queues[e] \cup {n} /\ queues'[e][n] = Len(objs) + 1
            BY <3>2, <5>1, NewRegistration
          <5> QED
            BY <5>2
        <4>3. There
          BY <3>2, <4>1, <4>2
        <4> QED
          BY <4>3 DEF m
      <3> QED
        BY <1>1, <3>3, <3>4, <3>5
    <2> HIDE DEF m, k
    <2> QED
      BY <1>4, <2>1, <2>2, <2>3, <2>4, <2>5, <2>6, <2>7 DEF QueueCall, m, k
  <1>5. CASE ConsumerCall(t)
    <2>1. CASE DisconnectConsumer(t) \/ DeleteIfUnused(t)
      BY <1>1, <1>2, <2>1 DEF DisconnectConsumer, DeleteIfUnused
    <2>2. CASE AddConsumer(t) \/ RemoveQueue(t)
      BY <1>1, <2>2 DEF AddConsumer, RemoveQueue
    <2>3. ASSUME NEW n \in QueueNames, NEW c \in Consumers,
                LookUp(t, "AddConsumer", n, c) \/ LookUp(t, "DisconnectConsumer", n, c)
         PROVE  m.q = 0
      BY <2>3, BegunFields
    <2> QED
      BY <1>5, <2>1, <2>2, <2>3 DEF ConsumerCall
  <1>6. CASE PublishCall(t)
    <2>1. ASSUME NEW key \in Keys, Publish(t, key) PROVE m.q = 0
      BY <2>1, PublishFields
    <2>2. CASE PublishDone(t)
      BY <1>2, <2>2 DEF PublishDone
    <2>3. k \in CallRec /\ call \in [Calls -> CallRec]
      BY Running
    <2>4. CASE Route(t)
      <3> DEFINE I == {n \in DOMAIN queues[k.e] : MatchFilters(objs[queues[k.e][n]].Filters, k.key)}
                 J == {n \in DOMAIN queues[k.e] : objs[queues[k.e][n]].IsDurable}
                 k0 == [k EXCEPT !.pc = "Deliver", !.items = I, !.durable = J]
      <3>1. call' = [call EXCEPT ![t] = k0] \/ Leave(t)
        BY <2>4, Zenon DEF Route
      <3>2. m = k0 \/ Leave(t)
        BY <2>3, <3>1
      <3> HIDE DEF I, J, k, m
      <3>3. k0.q = k.q /\ k0.e = k.e /\ k0.name = k.name
        BY <2>3 DEF CallRec
      <3>4. m.q = 0 \/ Held
        BY <1>1, <3>2, <3>3
      <3> QED
        BY <3>4, Zenon DEF m, k
    <2>5. ASSUME NEW n \in QueueNames,
                 DeliverTransient(t, n) \/ SaveReadyDelivery(t, n) \/ DeliverSaved(t, n)
          PROVE  m.q = 0 \/ Held
      <3> DEFINE I == k.items \ {n}
                 k1 == [k EXCEPT !.items = I, !.saved = {}]
                 k2 == [k EXCEPT !.saved = {n}]
      <3>1. \/ call' = [call EXCEPT ![t] = k1]
            \/ call' = [call EXCEPT ![t] = k2]
            \/ Leave(t)
        BY <2>5 DEF DeliverTransient, SaveReadyDelivery, DeliverSaved, EnqueueDelivery
      <3>2. m = k1 \/ m = k2 \/ Leave(t)
        BY <2>3, <3>1
      <3> HIDE DEF I, k, m
      <3>3. /\ k1.q = k.q /\ k1.e = k.e /\ k1.name = k.name
            /\ k2.q = k.q /\ k2.e = k.e /\ k2.name = k.name
        BY <2>3 DEF CallRec
      <3> QED
        BY <1>1, <3>2, <3>3
    <2> QED
      BY <1>6, <2>1, <2>2, <2>4, <2>5 DEF PublishCall
  <1>7. CASE Return(t) \/ StatementFails(t) \/ AnswerLost(t)
    BY <1>7, Ops, IdleFields
  <1> QED
    BY <1>3, <1>4, <1>5, <1>6, <1>7 DEF Step

\* Pointers stay unique.
LEMMA UNext ==
  ASSUME IInv, UInv, [Next]_vars
  PROVE  UInv'
  <1>1. CASE UNCHANGED vars
    <2>1. UNCHANGED <<queues, call>>
      BY <1>1 DEF vars, memory
    <2> QED
      BY <2>1 DEF UInv
  <1>2. ASSUME NEW t \in Calls, Step(t) PROVE UInv'
    <2>1. Frame
      BY <1>2, Effect
    <2>2. Apart(queues')
      BY <2>1, ApartStays DEF UInv
    <2>3. ASSUME NEW u \in Calls, u # t PROVE HeldUnder(call'[u], queues')
      <3>1. call'[u] = call[u]
        BY <1>2, <2>3, OthersStay
      <3>2. call[u].q \in 0..Len(objs) /\ HeldUnder(call[u], queues)
        BY Running DEF UInv, Bounded
      <3> QED
        BY <2>1, <3>1, <3>2, HeldStays
    <2>4. HeldUnder(call'[t], queues')
      <3> DEFINE m == call'[t]
                 k == call[t]
      <3>1. k.q \in 0..Len(objs) /\ HeldUnder(k, queues)
        BY Running DEF UInv, Bounded
      <3>2. HeldUnder(k, queues')
        BY <2>1, <3>1, HeldStays
      <3>3. \/ m.q = 0
            \/ m.q = k.q /\ m.e = k.e /\ m.name = k.name
            \/ /\ m.e \in DOMAIN queues' /\ m.name \in DOMAIN queues'[m.e]
               /\ m.q = queues'[m.e][m.name]
        BY <1>2, HoldMoves
      <3> HIDE DEF m, k
      <3>4. CASE m.q = 0
        <4>1. IInv'
          BY <1>2, NextInv DEF Next, Step
        <4>2. \A e \in DOMAIN queues' : \A n \in DOMAIN queues'[e] : queues'[e][n] # 0
          <5>1. \A e \in DOMAIN queues' : \A n \in DOMAIN queues'[e] : queues'[e][n] \in DOMAIN objs'
            BY <4>1 DEF IInv, Memory
          <5>2. 0 \notin DOMAIN objs'
            BY <4>1, LenProperties DEF IInv, Memory
          <5> QED
            BY <5>1, <5>2
        <4> QED
          BY <3>4, <4>2 DEF HeldUnder, m
      <3>5. CASE m.q = k.q /\ m.e = k.e /\ m.name = k.name
        BY <3>2, <3>5 DEF HeldUnder, m
      <3>6. CASE /\ m.e \in DOMAIN queues' /\ m.name \in DOMAIN queues'[m.e]
                 /\ m.q = queues'[m.e][m.name]
        BY <2>2, <3>6 DEF Apart, HeldUnder, m
      <3> QED
        BY <3>3, <3>4, <3>5, <3>6
    <2> QED
      BY <2>2, <2>3, <2>4 DEF UInv
  <1>3. CASE Crash
    <2>1. queues' = << >>
      BY <1>3 DEF Crash
    <2> QED
      BY <2>1 DEF UInv, Apart, HeldUnder
  <1>4. CASE Restore
    <2>1. /\ DOMAIN queues' = 1..exchange' /\ exchange' = (IF exRow THEN 1 ELSE 0)
          /\ Memory(exchange', queues', objs')
          /\ exRow => /\ DOMAIN queues'[1] = DOMAIN qRows
                      /\ \A n, m \in DOMAIN qRows : queues'[1][n] = queues'[1][m] => n = m
      BY <1>4, Rebuilt
    <2>2. \A e \in DOMAIN queues' : e = 1 /\ exRow
      BY <2>1
    <2>3. Apart(queues')
      BY <2>1, <2>2 DEF Apart
    <2>4. \A t \in Calls : call'[t].q = 0
      BY <1>4, IdleFields DEF Restore, IInv, Down
    <2>5. \A e \in DOMAIN queues' : \A n \in DOMAIN queues'[e] : queues'[e][n] # 0
      <3>1. \A e \in DOMAIN queues' : \A n \in DOMAIN queues'[e] : queues'[e][n] \in DOMAIN objs'
        BY <2>1 DEF Memory
      <3>2. 0 \notin DOMAIN objs'
        BY <2>1, LenProperties DEF Memory
      <3> QED
        BY <3>1, <3>2
    <2> QED
      BY <2>3, <2>4, <2>5 DEF UInv, HeldUnder
  <1> QED
    BY <1>1, <1>2, <1>3, <1>4 DEF Next, Step

\* A call that is about to remove its queue does that and nothing else.
LEMMA AtRemoval ==
  ASSUME IInv, NEW t \in Calls, Step(t), call[t].op = "DisconnectConsumer",
         call[t].pc \in {"HasConsumers", "RemoveQueue"}
  PROVE  DeleteIfUnused(t) \/ RemoveQueue(t)
  <1>1. call[t] # Idle
    BY IdleFields
  <1>2. ~ExchangeCall(t)
    BY <1>1 DEF ExchangeCall, CreateExchange, SaveExchange, DeleteExchange, GetExchange,
       HasActiveConsumers, AskQueue, RemoveExchange, DeleteExchangeRow, At
  <1>3. ~QueueCall(t)
    BY <1>1 DEF QueueCall, RegisterQueue, RegisterInExchange, SaveQueue, LookUp, GetQueue,
       DeleteQueue, DeleteQueueRow, GetExchange, At
  <1>4. ~PublishCall(t)
    BY <1>1 DEF PublishCall, Publish, Route, DeliverTransient, SaveReadyDelivery, DeliverSaved,
       NextItem, PublishDone, GetExchange, At
  <1>5. ~(Return(t) \/ StatementFails(t) \/ AnswerLost(t))
    BY Zenon DEF Return, StatementFails, AnswerLost, AtStatement, NextItem, At
  <1>6. ConsumerCall(t) => DeleteIfUnused(t) \/ RemoveQueue(t)
    BY <1>1 DEF ConsumerCall, LookUp, AddConsumer, DisconnectConsumer, GetExchange, At
  <1> QED
    BY <1>2, <1>3, <1>4, <1>5, <1>6 DEF Step

\* An unused queue does not lose the call that removes it.
LEMMA ANext ==
  ASSUME IInv, UInv, AInv, [Next]_vars
  PROVE  AInv'
  <1>1. CASE UNCHANGED vars
    <2>1. UNCHANGED <<queues, objs, call, consumed>>
      BY <1>1 DEF vars, memory, history
    <2> QED
      BY <2>1 DEF AInv
  <1>2. ASSUME NEW t \in Calls, Step(t) PROVE AInv'
    <2> SUFFICES ASSUME NEW e \in DOMAIN queues', NEW n \in DOMAIN queues'[e],
                        Unused(objs', consumed', queues'[e][n])
                 PROVE  \E u \in Calls : Removes(call'[u], e, n, queues'[e][n])
      BY DEF AInv
    <2> DEFINE q == queues'[e][n]
               c == call[t].q
    <2>1. Frame /\ (SameConsumers \/ AddConsumer(t) \/ DisconnectConsumer(t))
      BY <1>2, Effect
    <2>2. AddConsumer(t) \/ DisconnectConsumer(t) => c \in DOMAIN objs
      BY Argued DEF AddConsumer, DisconnectConsumer, At
    <2>3. consumed' \subseteq DOMAIN objs
      <3>1. consumed \subseteq DOMAIN objs
        BY DEF IInv, History
      <3>2. consumed' \subseteq consumed \cup {c} /\ (~AddConsumer(t) => consumed' = consumed)
        BY <2>1 DEF SameConsumers, AddConsumer, DisconnectConsumer, history
      <3> QED
        BY <2>1, <2>2, <3>1, <3>2
    <2>4. q \in consumed' /\ objs'[q].IsAutoDelete /\ objs'[q].Consumers = {}
      BY DEF Unused
    <2>5. q \in DOMAIN objs /\ q # Len(objs) + 1
      BY <2>3, <2>4, Pointers
    <2>6. e \in DOMAIN queues /\ n \in DOMAIN queues[e] /\ q = queues[e][n]
      BY <2>1, <2>5 DEF Frame
    <2>7. objs[q].IsAutoDelete /\ objs[q] \in Obj
      BY <2>1, <2>4, <2>5, Pointers DEF Frame, Same
    <2>8. ASSUME Unused(objs, consumed, q),
                 call[t].op = "DisconnectConsumer"
                    => call[t].pc \in {"HasConsumers", "RemoveQueue"}
          PROVE  \E u \in Calls : Removes(call'[u], e, n, q)
      <3>1. PICK u \in Calls : Removes(call[u], e, n, q)
        BY <2>6, <2>8 DEF AInv
      <3>2. CASE u # t
        <4>1. call'[u] = call[u]
          BY <1>2, <3>2, OthersStay
        <4> QED
          BY <3>1, <4>1
      <3>3. CASE u = t
        <4> DEFINE k == call[t]
                   m == call'[t]
        <4>1. /\ k.op = "DisconnectConsumer" /\ k.e = e /\ k.name = n
              /\ (k.pc = "HasConsumers" /\ k.q = q) \/ k.pc = "RemoveQueue"
          BY <3>1, <3>3 DEF Removes
        <4>2. CASE DeleteIfUnused(t)
          <5>1. k.pc = "HasConsumers" /\ k.q = q
            BY <4>1, <4>2 DEF DeleteIfUnused, At
          <5>2. ~HasConsumers(objs[q])
            BY <2>8 DEF Unused, HasConsumers
          <5>3. Goto(t, "RemoveQueue")
            BY <4>2, <5>1, <5>2 DEF DeleteIfUnused
          <5>4. m.op = k.op /\ m.e = k.e /\ m.name = k.name /\ m.pc = "RemoveQueue"
            BY <5>3, GotoCall
          <5> QED
            BY <4>1, <5>4 DEF Removes
        <4>3. CASE RemoveQueue(t)
          <5>1. RemoveName(e, n) /\ UNCHANGED <<exchange, objs>>
            BY <4>1, <4>3 DEF RemoveQueue
          <5>2. n \notin DOMAIN queues'[e]
            BY <2>6, <5>1, NameRemoved
          <5> QED
            BY <5>2
        <4> QED
          BY <1>2, <4>1, <4>2, <4>3, AtRemoval
      <3> QED
        BY <3>2, <3>3
    <2>9. CASE SameConsumers
      <3>1. Unused(objs, consumed, q)
        BY <2>4, <2>5, <2>7, <2>9 DEF SameConsumers, Unused
      <3>2. CASE /\ call[t].op = "DisconnectConsumer"
                 /\ call[t].pc \notin {"HasConsumers", "RemoveQueue"}
        <4>1. PICK u \in Calls : Removes(call[u], e, n, q)
          BY <2>6, <3>1 DEF AInv
        <4>2. u # t
          BY <3>2, <4>1 DEF Removes
        <4>3. call'[u] = call[u]
          BY <1>2, <4>2, OthersStay
        <4> QED
          BY <4>1, <4>3
      <3> QED
        BY <2>8, <3>1, <3>2
    <2>10. CASE AddConsumer(t)
      <3> DEFINE r == WithConsumer(objs[c], call[t].consumer)
      <3>1. /\ call[t].op = "AddConsumer" /\ objs' = [objs EXCEPT ![c] = r]
            /\ UNCHANGED <<exchange, queues>> /\ consumed' = consumed \cup {c}
        BY <2>10 DEF AddConsumer, At
      <3>2. c \in DOMAIN objs /\ objs[c] \in Obj /\ call[t].consumer \in Consumers
        BY <2>2, <2>10, <3>1, Argued, Pointers
      <3>3. Same(objs[c], r) /\ r.Consumers = objs[c].Consumers \cup {call[t].consumer}
        BY <3>2, WithConsumerObj
      <3> HIDE DEF r, c
      <3>4. objs'[c] = r /\ \A x \in DOMAIN objs \ {c} : objs'[x] = objs[x]
        BY <3>1, <3>2, <3>3, ObjChanges
      <3> HIDE DEF q
      <3>5. q # c
        BY <2>4, <3>3, <3>4
      <3>6. objs'[q] = objs[q] /\ q \in consumed
        BY <2>4, <2>5, <3>1, <3>4, <3>5
      <3>7. Unused(objs, consumed, q)
        BY <2>4, <3>6 DEF Unused
      <3> QED
        BY <2>8, <3>1, <3>7 DEF q
    <2>11. CASE DisconnectConsumer(t)
      <3> DEFINE r == Disconnected(objs[c], call[t].consumer, << >>)
      <3>1. /\ call[t].op = "DisconnectConsumer" /\ call[t].pc = "DisconnectConsumer"
            /\ objs' = [objs EXCEPT ![c] = r] /\ UNCHANGED <<exchange, queues>>
            /\ consumed' = consumed
            /\ objs[c].IsAutoDelete => Goto(t, "HasConsumers")
        BY <2>11 DEF DisconnectConsumer, At, history
      <3>2. c \in DOMAIN objs /\ objs[c] \in Obj
        BY <2>2, <2>11, Pointers
      <3>3. Same(objs[c], r)
        BY <3>2, DisconnectedObj
      <3> HIDE DEF r, c
      <3>4. objs'[c] = r /\ \A x \in DOMAIN objs \ {c} : objs'[x] = objs[x]
        BY <3>1, <3>2, <3>3, ObjChanges
      <3> HIDE DEF q
      <3>5. CASE q # c
        <4>1. objs'[q] = objs[q]
          BY <2>5, <3>4, <3>5
        <4>2. Unused(objs, consumed, q)
          BY <2>4, <3>1, <4>1 DEF Unused
        <4>3. PICK u \in Calls : Removes(call[u], e, n, q)
          BY <2>6, <4>2 DEF AInv
        <4>4. u # t
          BY <3>1, <4>3 DEF Removes
        <4>5. call'[u] = call[u]
          BY <1>2, <4>4, OthersStay
        <4> QED
          BY <4>3, <4>5 DEF q
      <3>6. CASE q = c
        <4>1. e = call[t].e /\ n = call[t].name
          BY <2>6, <3>6, ZenonT(60) DEF UInv, HeldUnder, c
        <4>2. Goto(t, "HasConsumers")
          BY <2>7, <3>1, <3>6
        <4>3. /\ call'[t].op = "DisconnectConsumer" /\ call'[t].e = e /\ call'[t].name = n
              /\ call'[t].pc = "HasConsumers" /\ call'[t].q = q
          BY <3>1, <3>6, <4>1, <4>2, GotoCall DEF c
        <4>4. Removes(call'[t], e, n, q)
          BY <4>3 DEF Removes
        <4> QED
          BY <4>4 DEF q
      <3> QED
        BY <3>5, <3>6
    <2> QED
      BY <2>1, <2>9, <2>10, <2>11
  <1>3. CASE Crash
    <2>1. consumed' = {}
      BY <1>3 DEF Crash
    <2> QED
      BY <2>1 DEF AInv, Unused
  <1>4. CASE Restore
    <2>1. consumed' = consumed /\ consumed = {}
      <3>1. ~up /\ consumed' = consumed
        BY <1>4 DEF Restore
      <3>2. consumed \subseteq DOMAIN objs /\ objs = << >>
        BY <3>1 DEF IInv, History, Down
      <3> QED
        BY <3>1, <3>2
    <2> QED
      BY <2>1 DEF AInv, Unused
  <1> QED
    BY <1>1, <1>2, <1>3, <1>4 DEF Next, Step

\* When no call runs, an auto-delete queue that lost its last consumer is gone,
\* in whatever order consumers came and went (exchange.go 187-201).
THEOREM UnusedQueuesGo == Spec => []AutoDeleteDone
  <1>1. Init => UInv /\ AInv
    BY DEF Init, UInv, AInv, Apart, HeldUnder
  <1>2. IInv /\ UInv /\ AInv => AutoDeleteDone
    <2> SUFFICES ASSUME IInv, UInv, AInv, Quiet, NEW n \in DOMAIN Current,
                        objs[Current[n]].IsAutoDelete, Current[n] \in consumed,
                        ~HasConsumers(objs[Current[n]])
                 PROVE  FALSE
      BY DEF AutoDeleteDone
    <2>1. CASE exchange = 0
      BY <2>1 DEF Current, EmptyMap
    <2>2. CASE exchange # 0
      <3>1. exchange \in DOMAIN queues /\ Current = queues[exchange]
        BY <2>2, Pointers DEF Current, IInv, Memory
      <3>2. PICK t \in Calls : Removes(call[t], exchange, n, queues[exchange][n])
        BY <3>1 DEF AInv, Unused, HasConsumers
      <3>3. call[t] = Idle
        BY DEF Quiet
      <3> QED
        BY <3>2, <3>3, IdleFields DEF Removes
    <2> QED
      BY <2>1, <2>2
  <1>3. IInv /\ UInv /\ [Next]_vars => UInv'
    BY UNext
  <1>4. IInv /\ UInv /\ AInv /\ [Next]_vars => AInv'
    BY ANext
  <1> QED
    BY <1>1, <1>2, <1>3, <1>4, Inductive, PTL DEF Spec
============================================================================
