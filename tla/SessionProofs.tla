---------------------------- MODULE SessionProofs ----------------------------
(***************************************************************************)
(* Safety of Session for any clients, consumers, tokens and calls, any     *)
(* environments and any bounds.                                            *)
(***************************************************************************)
EXTENDS Session, QueueCoreProofs

Phases == {"down", "config", "connect", "delay", "restore", "listen",
           "serving", "draining", "closed"}

\* The phases before brokerService.Restore has returned.
Booting == {"down", "config", "connect", "delay", "restore"}

\* main: from db.Connect on the configuration has been accepted, and no attempt
\* to connect goes beyond the configured number.
ProcessInv ==
    /\ phase \in Phases /\ attempt \in Nat /\ signalled \in BOOLEAN
    /\ env \in Environments \cup {NoEnvironment} /\ starts \in 0..StartBound
    /\ phase \in {"down", "config"} => attempt = 0
    /\ phase \notin {"down", "config"} => Load /\ attempt <= ConnectRetries
    /\ phase = "delay" => attempt < ConnectRetries

\* Queue objects with messages of 1..n that are in one place each, are in flight
\* with registered consumers only, and with none of them more than lim.
GoodQueues(n, lim) ==
    {q \in UNION {Queues(NewQueue(durable, FALSE, 0, {}), 1..n, Consumers, Calls) :
                     durable \in BOOLEAN} :
        Sound(q) /\ \A c \in Consumers : Cardinality(InFlightOf(q, c)) <= lim}

MemoryInv ==
    /\ published \in 0..MessageBound
    /\ table \in [queue : BOOLEAN, ids : SUBSET (1..published)]
    /\ objs \in Seq(GoodQueues(published, MaxInFlight)) /\ Len(objs) <= QueueBound
    /\ registered \in 0..Len(objs)
    /\ phase \in Booting => objs = << >>

CallType(m, n) ==
    [op : {"Fetch", "Stream", "Disconnect", "Close"}, cl : Clients,
     pc : ClientSide \cup ServerSide, q : 0..m, id : 0..n, open : BOOLEAN]

\* The shape of a call: m is the number of queue objects, n of messages, al
\* the clients that are alive, up whether there is a server for its handler.
Shape(c, m, n, al, up) ==
    \/ c = NoCall
    \/ /\ c \in CallType(m, n)
       /\ c.pc \in ClientSide => c.q = 0 /\ c.id = 0
       /\ c.pc \in ServerSide => up
       /\ c.pc \in {"mark", "reply"} => c.id # 0
       /\ c.pc \in {"add", "added", "disconnect", "disconnected"} => c.op # "Stream"
       /\ c.pc = "register" => c.op = "Stream"
       /\ c.open => c.cl \in al

Up == phase \in {"serving", "draining"}

CallInv ==
    /\ call \in [Calls -> {NoCall} \cup CallType(Len(objs), published)]
    /\ \A k \in Calls : Shape(call[k], Len(objs), published, alive, Up)

ClientInv ==
    /\ cached \subseteq alive /\ alive \subseteq Clients /\ suspect \subseteq alive
    /\ held \in [Clients -> SUBSET (1..published)]
    /\ forgotten \subseteq Consumers

IInv == ProcessInv /\ MemoryInv /\ CallInv /\ ClientInv

\* Handlers run for, and the queue has, consumers of clients with the token
\* the process was started with.
TokenInv ==
    /\ \A k \in Calls : call[k].pc \in ServerSide => authorize(call[k].cl)
    /\ \A c \in RegisteredConsumers :
          \E cl \in Clients : ConsumerOf[cl] = c /\ authorize(cl)

\* A stream, or an answer to AddConsumer whose entry no other answer will drop.
Witness(k) == Streaming(k) \/ (At(k, "added") /\ ~Dropping(call[k].cl))

\* RegistrationKnown by an entry that is not about to go.
Known(c) ==
    \/ \E cl \in cached : ConsumerOf[cl] = c /\ ~Dropping(cl)
    \/ \E k \in Calls : Witness(k) /\ Consumer(k) = c

KnownInv == \A c \in RegisteredConsumers \ forgotten : Known(c)
----------------------------------------------------------------------------
(***************************************************************************)
(* One queue object.                                                       *)
(***************************************************************************)
Object(durable, n) == Queues(NewQueue(durable, FALSE, 0, {}), 1..n, Consumers, Calls)

\* The message numbers are finitely many.
LEMMA Numbers ==
  ASSUME NEW n \in Nat
  PROVE  IsFiniteSet(1..n)
  BY FS_Interval

\* A good queue, in a form the lemmas about queue values can use.
LEMMA GoodQueue ==
  ASSUME NEW n, NEW lim, NEW q \in GoodQueues(n, lim)
  PROVE  /\ Sound(q)
         /\ \A c \in Consumers : Cardinality(InFlightOf(q, c)) <= lim
         /\ \E durable \in BOOLEAN : q \in Object(durable, n)
  BY DEF GoodQueues, Object

\* The converse of GoodQueue.
LEMMA QueueGood ==
  ASSUME NEW n, NEW lim, NEW durable \in BOOLEAN, NEW q \in Object(durable, n),
         Sound(q), \A c \in Consumers : Cardinality(InFlightOf(q, c)) <= lim
  PROVE  q \in GoodQueues(n, lim)
  BY DEF GoodQueues, Object

\* Its lemmas hold for some parameters k, whose values do not matter.
LEMMA ObjectParameters ==
  ASSUME NEW n, NEW durable, NEW q \in Object(durable, n)
  PROVE  \E k : Object(durable, n) = Queues(k, 1..n, Consumers, Calls)
                /\ q \in Queues(k, 1..n, Consumers, Calls)
  BY DEF Object

\* A method after which nobody holds more.
LEMMA StillGood ==
  ASSUME NEW n \in Nat, NEW lim \in Int, NEW q \in GoodQueues(n, lim),
         NEW durable \in BOOLEAN, q \in Object(durable, n),
         NEW r \in Object(durable, n), Sound(r), NoMoreInFlight(q, r)
  PROVE  r \in GoodQueues(n, lim)
  <1>1. ASSUME NEW c \in Consumers
        PROVE  Cardinality(InFlightOf(r, c)) <= lim
    <2>1. /\ IsFiniteSet(InFlightOf(q, c)) /\ Cardinality(InFlightOf(q, c)) \in Nat
          /\ Cardinality(InFlightOf(r, c)) \in Nat
      BY Numbers, InFlightFinite DEF Object
    <2>2. InFlightOf(r, c) \in SUBSET InFlightOf(q, c)
      BY DEF NoMoreInFlight
    <2>3. Cardinality(InFlightOf(r, c)) <= Cardinality(InFlightOf(q, c))
      BY <2>1, <2>2, FS_Subset
    <2> QED
      BY <2>1, <2>3, GoodQueue
  <1> QED
    BY <1>1, QueueGood

\* What one queue becomes: it stays good, and its consumers are C.
Becomes(r, n, lim, C) == r \in GoodQueues(n, lim) /\ r.Consumers = C

\* exchange.RegisterQueue.
LEMMA NewGood ==
  ASSUME NEW n \in Nat, NEW lim \in Nat, NEW durable \in BOOLEAN
  PROVE  Becomes(NewQueue(durable, FALSE, 0, {}), n, lim, {})
  <1> DEFINE q == NewQueue(durable, FALSE, 0, {})
  <1>1. q \in Object(durable, n)
    BY NewQueueIn DEF Object
  <1>2. /\ q.Ready = << >> /\ q.InFlight = [id \in {} |-> NoConsumer]
        /\ q.Consumers = {}
    BY DEF NewQueue
  <1> HIDE DEF q
  <1>3. Sound(q)
    BY <1>2 DEF Sound, Distinct, Free, SeqIDs
  <1>4. \A c : InFlightOf(q, c) = {}
    BY <1>2 DEF InFlightOf
  <1>5. \A c \in Consumers : Cardinality(InFlightOf(q, c)) <= lim
    BY <1>4, FS_EmptySet
  <1>6. Becomes(q, n, lim, {})
    BY <1>1, <1>2, <1>3, <1>5, QueueGood DEF Becomes
  <1> QED
    BY <1>6 DEF q

\* Restore.
LEMMA RestoredGood ==
  ASSUME NEW n \in Nat, NEW lim \in Nat, NEW ids \in SUBSET (1..n),
         NEW order \in SetToSeqs(ids)
  PROVE  Becomes(RestoredQueue(order), n, lim, {})
  <1> DEFINE m == Cardinality(ids)
             s == [i \in DOMAIN order |-> NewDelivery(order[i])]
             e == NewQueue(TRUE, FALSE, 0, {})
             q == [e EXCEPT !.Ready = s]
  <1>1. m \in Nat
    BY Numbers, FS_Subset, FS_CardinalityType
  <1> HIDE DEF m
  <1>2. order \in [1..m -> ids] /\ \A i, j \in 1..m : i # j => order[i] # order[j]
    BY DEF SetToSeqs, m
  <1>3. /\ s \in [1..m -> Deliveries(1..n, Consumers)] /\ DOMAIN s = 1..m
        /\ \A i \in 1..m : s[i].ID = order[i] /\ s[i].ConsumerID = NoConsumer
    BY <1>2 DEF NewDelivery, Deliveries
  <1>4. s \in Seq(Deliveries(1..n, Consumers))
    BY <1>1, <1>3
  <1>5. e \in Object(TRUE, n) /\ e.InFlight = [id \in {} |-> NoConsumer] /\ e.Consumers = {}
    BY NewQueueIn DEF Object, NewQueue
  <1>6. Distinct(s) /\ Free(s)
    BY <1>2, <1>3 DEF Distinct, Free
  <1> HIDE DEF s, e
  <1>7. q \in Object(TRUE, n) /\ q.Ready = s /\ q.InFlight = [id \in {} |-> NoConsumer]
        /\ q.Consumers = {}
    BY <1>4, <1>5 DEF Object, Queues
  <1> HIDE DEF q
  <1>8. Sound(q)
    BY <1>6, <1>7 DEF Sound
  <1>9. \A c : InFlightOf(q, c) = {}
    BY <1>7 DEF InFlightOf
  <1>10. \A c \in Consumers : Cardinality(InFlightOf(q, c)) <= lim
    BY <1>9, FS_EmptySet
  <1>11. Becomes(q, n, lim, {})
    BY <1>7, <1>8, <1>10, QueueGood DEF Becomes
  <1> QED
    BY <1>11 DEF q, e, s, RestoredQueue

\* A queue that does not get the message that has just been published.
LEMMA OneMoreNumber ==
  ASSUME NEW n \in Nat, NEW lim
  PROVE  GoodQueues(n, lim) \subseteq GoodQueues(n + 1, lim)
  <1> SUFFICES ASSUME NEW q \in GoodQueues(n, lim)
               PROVE  q \in GoodQueues(n + 1, lim)
    OBVIOUS
  <1>1. PICK durable \in BOOLEAN : q \in Object(durable, n)
    BY GoodQueue
  <1>2. Deliveries(1..n, Consumers) \subseteq Deliveries(1..(n + 1), Consumers)
    BY DEF Deliveries
  <1>3. q.Ready \in Seq(Deliveries(1..(n + 1), Consumers))
    BY <1>1, <1>2, SeqMonotonic DEF Object, Queues
  <1>4. q.InFlight \in InFlightMaps(1..(n + 1), Consumers)
    <2>1. q.InFlight \in InFlightMaps(1..n, Consumers)
      BY <1>1 DEF Object, Queues
    <2>2. DOMAIN q.InFlight \subseteq 1..n
          /\ q.InFlight \in [DOMAIN q.InFlight -> Deliveries(1..n, Consumers)]
      BY <2>1, InFlightMap
    <2>3. q.InFlight \in [DOMAIN q.InFlight -> Deliveries(1..(n + 1), Consumers)]
      BY <1>2, <2>2
    <2>4. DOMAIN q.InFlight \subseteq 1..(n + 1)
      BY <2>2
    <2> QED
      BY <2>3, <2>4, InFlightMap
  <1>5. q \in Object(durable, n + 1)
    BY <1>1, <1>3, <1>4 DEF Object, Queues
  <1> QED
    BY <1>5, GoodQueue, QueueGood

\* Publish.
LEMMA PublishedGood ==
  ASSUME NEW n \in Nat, NEW lim \in Int, NEW q \in GoodQueues(n, lim)
  PROVE  Becomes(Enqueued(q, NewDelivery(n + 1)), n + 1, lim, q.Consumers)
  <1> DEFINE d == NewDelivery(n + 1)
             r == Enqueued(q, d)
  <1>1. PICK old \in BOOLEAN : q \in Object(old, n)
    BY GoodQueue
  <1>2. n + 1 \notin IDs(q)
    <2>1. SeqIDs(q.Ready) \subseteq 1..n
      <3>1. q.Ready \in Seq(Deliveries(1..n, Consumers))
        BY <1>1 DEF Object, Queues
      <3>2. \A i \in DOMAIN q.Ready : q.Ready[i] \in Deliveries(1..n, Consumers)
        BY <3>1
      <3> QED
        BY <3>2 DEF SeqIDs, Deliveries
    <2>2. DOMAIN q.InFlight \subseteq 1..n
      BY <1>1, InFlightDelivery DEF Object
    <2> QED
      BY <2>1, <2>2 DEF IDs
  <1>3. q \in GoodQueues(n + 1, lim)
    BY OneMoreNumber
  <1>4. PICK durable \in BOOLEAN : q \in Object(durable, n + 1)
    BY <1>3, GoodQueue
  <1>5. /\ d \in Deliveries(1..(n + 1), Consumers)
        /\ d.ID = n + 1 /\ d.ConsumerID = NoConsumer
    BY DEF NewDelivery, Deliveries
  <1> HIDE DEF d
  <1>6. Sound(q)
    BY GoodQueue
  <1>7. r \in Object(durable, n + 1) /\ r.Consumers = q.Consumers
    <2>1. PICK k : Object(durable, n + 1) = Queues(k, 1..(n + 1), Consumers, Calls)
      BY <1>4, ObjectParameters
    <2> QED
      BY <1>4, <1>5, <2>1, EnqueuedFields
  <1>8. Sound(r) /\ NoMoreInFlight(q, r)
    BY <1>2, <1>4, <1>5, <1>6, EnqueuedSound DEF Object
  <1> HIDE DEF r
  <1>9. r \in GoodQueues(n + 1, lim)
    BY <1>3, <1>4, <1>7, <1>8, StillGood
  <1>10. Becomes(r, n + 1, lim, q.Consumers)
    BY <1>7, <1>9 DEF Becomes
  <1> QED
    BY <1>10 DEF r, d

\* Ack.
LEMMA AckedGood ==
  ASSUME NEW n \in Nat, NEW lim \in Int, NEW q \in GoodQueues(n, lim),
         NEW id \in DOMAIN q.InFlight
  PROVE  Becomes(Acked(q, id), n, lim, q.Consumers)
  <1> DEFINE r == Acked(q, id)
  <1>1. PICK durable \in BOOLEAN : q \in Object(durable, n)
    BY GoodQueue
  <1>2. r \in Object(durable, n)
    BY <1>1, AckedFields DEF Object
  <1>3. r.Consumers = q.Consumers
    BY <1>1 DEF Acked, Object, Queues
  <1>4. Sound(r) /\ NoMoreInFlight(q, r)
    BY <1>1, GoodQueue, AckedSound DEF Object
  <1> QED
    BY <1>1, <1>2, <1>3, <1>4, StillGood DEF Becomes

\* Reject.
LEMMA RejectedGood ==
  ASSUME NEW n \in Nat, NEW lim \in Int, NEW q \in GoodQueues(n, lim),
         NEW id \in DOMAIN q.InFlight
  PROVE  Becomes(Rejected(q, id), n, lim, q.Consumers)
  <1> DEFINE r == Rejected(q, id)
  <1>1. PICK durable \in BOOLEAN : q \in Object(durable, n)
    BY GoodQueue
  <1>2. Sound(q)
    BY GoodQueue
  <1>3. r \in Object(durable, n) /\ Sound(r) /\ NoMoreInFlight(q, r)
    BY <1>1, <1>2, RejectedSound DEF Object
  <1>4. r.Consumers = q.Consumers
    <2>1. PICK k : q \in Queues(k, 1..n, Consumers, Calls)
      BY <1>1, ObjectParameters
    <2>2. CASE ShouldDeadLetter(q, q.InFlight[id])
      <3>1. Acked(q, id).Consumers = q.Consumers
        BY <1>1 DEF Acked, Object, Queues
      <3> QED
        BY <2>2, <3>1 DEF Rejected
    <2>3. CASE ~ShouldDeadLetter(q, q.InFlight[id])
      BY <1>2, <2>1, <2>3, RejectedGivesBack, ZenonT(60)
    <2> QED
      BY <2>2, <2>3
  <1> QED
    BY <1>1, <1>3, <1>4, StillGood DEF Becomes

\* AddConsumer.
LEMMA WithConsumerGood ==
  ASSUME NEW n \in Nat, NEW lim \in Int, NEW q \in GoodQueues(n, lim),
         NEW c \in Consumers
  PROVE  Becomes(WithConsumer(q, c), n, lim, q.Consumers \cup {c})
  <1> DEFINE r == WithConsumer(q, c)
  <1>1. PICK durable \in BOOLEAN : q \in Object(durable, n)
    BY GoodQueue
  <1>2. r \in Object(durable, n) /\ Sound(r) /\ NoMoreInFlight(q, r)
    BY <1>1, GoodQueue, WithConsumerSound DEF Object
  <1>3. r.Consumers = q.Consumers \cup {c}
    BY <1>1 DEF WithConsumer, Object, Queues
  <1> QED
    BY <1>1, <1>2, <1>3, StillGood DEF Becomes

\* DisconnectConsumer.
LEMMA DisconnectedGood ==
  ASSUME NEW n \in Nat, NEW lim \in Int, NEW q \in GoodQueues(n, lim),
         NEW c, NEW order \in ReturnOrders(q, c)
  PROVE  Becomes(Disconnected(q, c, order), n, lim, q.Consumers \ {c})
  <1> DEFINE r == Disconnected(q, c, order)
  <1>1. PICK durable \in BOOLEAN : q \in Object(durable, n)
    BY GoodQueue
  <1>2. Sound(q) /\ IsFiniteSet(1..n)
    BY GoodQueue, Numbers
  <1>3. r \in Object(durable, n) /\ Sound(r) /\ NoMoreInFlight(q, r)
    BY <1>1, <1>2, DisconnectedSound DEF Object
  <1>4. r.Consumers = q.Consumers \ {c}
    <2>1. PICK k : q \in Queues(k, 1..n, Consumers, Calls)
      BY <1>1, ObjectParameters
    <2> QED
      BY <1>2, <2>1, DisconnectedGivesBack
  <1> QED
    BY <1>1, <1>3, <1>4, StillGood DEF Becomes

\* A call starts or stops waiting.
LEMMA WaitersGood ==
  ASSUME NEW n \in Nat, NEW lim \in Int, NEW q \in GoodQueues(n, lim),
         NEW w \in SUBSET Calls
  PROVE  Becomes([q EXCEPT !.readyNotify = w], n, lim, q.Consumers)
  <1> DEFINE r == [q EXCEPT !.readyNotify = w]
  <1>1. PICK durable \in BOOLEAN : q \in Object(durable, n)
    BY GoodQueue
  <1>2. r \in Object(durable, n) /\ Sound(r) /\ NoMoreInFlight(q, r)
    BY <1>1, GoodQueue, WaitersOnly DEF Object
  <1>3. r.Consumers = q.Consumers
    BY <1>1 DEF Object, Queues
  <1> QED
    BY <1>1, <1>2, <1>3, StillGood DEF Becomes

\* Attempts are not counted.
LEMMA UncountedSame ==
  ASSUME NEW n \in Nat, NEW durable \in BOOLEAN, NEW q \in Object(durable, n), Sound(q)
  PROVE  /\ Uncounted(q) \in Object(durable, n) /\ Sound(Uncounted(q))
         /\ Uncounted(q).Consumers = q.Consumers
         /\ \A c : InFlightOf(Uncounted(q), c) = InFlightOf(q, c)
  <1> DEFINE m == [id \in DOMAIN q.InFlight |-> [q.InFlight[id] EXCEPT !.Attempts = 0]]
             r == [q EXCEPT !.InFlight = m]
             D == Deliveries(1..n, Consumers)
  <1>1. DOMAIN q.InFlight \subseteq 1..n /\ \A id \in DOMAIN q.InFlight : q.InFlight[id] \in D
    BY InFlightDelivery DEF Object
  <1>2. /\ DOMAIN m = DOMAIN q.InFlight
        /\ \A id \in DOMAIN m : /\ m[id] \in D
                                /\ m[id].ID = q.InFlight[id].ID
                                /\ m[id].ConsumerID = q.InFlight[id].ConsumerID
    BY <1>1 DEF Deliveries
  <1>3. m \in [DOMAIN m -> D]
    BY <1>2
  <1>4. Uncounted(q) = r
    BY DEF Uncounted
  <1> HIDE DEF m
  <1>5. m \in InFlightMaps(1..n, Consumers)
    BY <1>1, <1>2, <1>3, InFlightMap
  <1>6. /\ r \in Object(durable, n) /\ r.Ready = q.Ready /\ r.InFlight = m
        /\ r.Consumers = q.Consumers
    BY <1>5 DEF Object, Queues
  <1> HIDE DEF r, D
  <1>7. Sound(r)
    BY <1>2, <1>6 DEF Sound
  <1>8. \A c : InFlightOf(r, c) = InFlightOf(q, c)
    BY <1>2, <1>6 DEF InFlightOf
  <1> QED
    BY <1>4, <1>6, <1>7, <1>8

\* FetchOrWait hands out the head of Ready, within the limit.
LEMMA FetchedGood ==
  ASSUME NEW n \in Nat, NEW lim \in Nat \ {0}, NEW q \in GoodQueues(n, lim),
         NEW c \in Consumers, FetchAllowed(q, c, lim), q.Ready # << >>
  PROVE  /\ Becomes(Uncounted(Fetched(q, c)), n, lim, q.Consumers)
         /\ Head(q.Ready).ID \in 1..n
  <1> DEFINE r == Fetched(q, c)
             u == Uncounted(r)
             h == Head(q.Ready).ID
  <1>1. PICK durable \in BOOLEAN : q \in Object(durable, n)
    BY GoodQueue
  <1>2. Sound(q) /\ c \in q.Consumers
    BY GoodQueue DEF FetchAllowed
  <1>3. /\ r \in Object(durable, n) /\ Sound(r)
        /\ InFlightOf(r, c) = InFlightOf(q, c) \cup {h}
        /\ \A b : b # c => InFlightOf(r, b) \subseteq InFlightOf(q, b)
    <2>1. PICK k : Object(durable, n) = Queues(k, 1..n, Consumers, Calls)
      BY <1>1, ObjectParameters
    <2> QED
      BY <1>1, <1>2, <2>1, FetchedSound
  <1>4. h \in 1..n
    <2>1. q.Ready \in Seq(Deliveries(1..n, Consumers))
      BY <1>1 DEF Object, Queues
    <2>2. Head(q.Ready) \in Deliveries(1..n, Consumers)
      BY <2>1, HeadTailProperties
    <2> QED
      BY <2>2 DEF Deliveries
  <1>5. r.Consumers = q.Consumers
    BY <1>1 DEF Fetched, Object, Queues
  <1> HIDE DEF r
  <1>6. /\ u \in Object(durable, n) /\ Sound(u) /\ u.Consumers = q.Consumers
        /\ \A b : InFlightOf(u, b) = InFlightOf(r, b)
    BY <1>3, <1>5, UncountedSame
  <1> HIDE DEF u
  <1>7. ASSUME NEW b \in Consumers
        PROVE  Cardinality(InFlightOf(u, b)) <= lim
    <2>1. /\ IsFiniteSet(InFlightOf(q, b)) /\ Cardinality(InFlightOf(q, b)) \in Nat
          /\ Cardinality(InFlightOf(u, b)) \in Nat
      BY <1>1, <1>6, Numbers, InFlightFinite DEF Object
    <2>2. CASE b = c
      <3>1. Cardinality(InFlightOf(q, c)) < lim
        BY DEF FetchAllowed
      <3>2. Cardinality(InFlightOf(q, c) \cup {h}) =
               IF h \in InFlightOf(q, c) THEN Cardinality(InFlightOf(q, c))
                                         ELSE Cardinality(InFlightOf(q, c)) + 1
        BY <2>1, <2>2, FS_AddElement
      <3>3. Cardinality(InFlightOf(u, b)) = Cardinality(InFlightOf(q, c) \cup {h})
        BY <1>3, <1>6, <2>2
      <3> QED
        BY <2>1, <2>2, <3>1, <3>2, <3>3
    <2>3. CASE b # c
      <3>1. InFlightOf(u, b) \in SUBSET InFlightOf(q, b)
        BY <1>3, <1>6, <2>3
      <3>2. Cardinality(InFlightOf(u, b)) <= Cardinality(InFlightOf(q, b))
        BY <2>1, <3>1, FS_Subset
      <3>3. Cardinality(InFlightOf(q, b)) <= lim
        BY GoodQueue
      <3> QED
        BY <2>1, <3>2, <3>3
    <2> QED
      BY <2>2, <2>3
  <1>8. Becomes(u, n, lim, q.Consumers)
    BY <1>6, <1>7, QueueGood DEF Becomes
  <1> QED
    BY <1>4, <1>8 DEF u, r, h
----------------------------------------------------------------------------
(***************************************************************************)
(* The process.                                                            *)
(***************************************************************************)
\* getPositiveIntEnv returns a positive integer when it returns no error.
LEMMA PositiveInt ==
  ASSUME env \in Environments \cup {NoEnvironment},
         NEW key \in {"DB_CONNECT_RETRIES", "MAX_IN_FLIGHT"}, AcceptsInt(key)
  PROVE  getPositiveIntEnv(key) \in Nat \ {0}
  <1>1. Fallback[key] \in Nat \ {0} /\ key \in DOMAIN Fallback
    BY DEF Fallback
  <1>2. CASE env[key] = {}
    BY <1>1, <1>2 DEF getPositiveIntEnv
  <1>3. CASE env[key] # {}
    <2>1. getPositiveIntEnv(key) \in env[key]
      BY <1>3 DEF getPositiveIntEnv
    <2>2. env \in Environments
      BY <1>1, <1>3 DEF NoEnvironment
    <2>3. \A v \in env[key] : v \in Int /\ v > 0
      BY <1>1, <2>2, ProcessAssumption DEF AcceptsInt
    <2> QED
      BY <2>1, <2>3
  <1> QED
    BY <1>2, <1>3

\* What getPositiveIntEnv returns once Load has returned no error.
LEMMA Configured ==
  ASSUME env \in Environments \cup {NoEnvironment}, Load
  PROVE  ConnectRetries \in Nat \ {0} /\ MaxInFlight \in Nat \ {0}
  BY PositiveInt DEF Load, loadDBConfig, loadLimitsConfig, ConnectRetries, MaxInFlight

\* The process has not been started.
LEMMA InitProcess ==
  ASSUME InitLife
  PROVE  ProcessInv
  <1>1. phase = "down" /\ attempt = 0 /\ signalled = FALSE /\ env = NoEnvironment /\ starts = 0
    BY DEF InitLife
  <1>2. attempt \in Nat /\ starts \in 0..StartBound
    BY <1>1, ProcessAssumption
  <1> QED
    BY <1>1, <1>2 DEF ProcessInv, Phases

\* What does not depend on the environment's variable stays with it.
LEMMA SameEnvironment ==
  ASSUME env' = env
  PROVE  /\ Load' = Load /\ ConnectRetries' = ConnectRetries /\ MaxInFlight' = MaxInFlight
         /\ \A cl : authorize(cl)' <=> authorize(cl)
  BY DEF Load, loadDBConfig, loadAuthConfig, loadLimitsConfig, AcceptsInt, ConnectRetries,
         MaxInFlight, getPositiveIntEnv, authorize


\* The steps of main that do not end it.
LEMMA MainStep ==
  ASSUME ProcessInv,
         \/ LoadConfig \/ Connected \/ AttemptFails \/ RetryDelay
         \/ Listening \/ GracefulStop \/ (\E busy : Stopped(busy)) \/ Restored \/ Signal
  PROVE  /\ ProcessInv' /\ env' = env
         /\ phase \notin Booting => phase' \notin Booting
  <1> DEFINE R == ConnectRetries
  <1>1. /\ phase \in Phases /\ attempt \in Nat /\ signalled \in BOOLEAN
        /\ env \in Environments \cup {NoEnvironment} /\ starts \in 0..StartBound
        /\ phase \in {"down", "config"} => attempt = 0
        /\ phase \notin {"down", "config"} => Load /\ attempt <= R
        /\ phase = "delay" => attempt < R
    BY DEF ProcessInv
  <1>2. env' = env /\ starts' = starts
    BY DEF LoadConfig, Connected, AttemptFails, RetryDelay, Listening, GracefulStop, Stopped,
           Restored, Signal, Goto
  <1>3. Load' = Load /\ R' = R
    BY <1>2, SameEnvironment
  <1>4. Load => R \in Nat \ {0}
    BY <1>1, Configured
  <1> HIDE DEF R
  <1>5. ASSUME NEW p \in Phases \ {"down", "config", "delay"}, Goto(p),
               phase \in Phases \ {"down", "config"}
        PROVE  ProcessInv' /\ (phase \notin Booting => phase' = p)
    <2>1. phase' = p /\ attempt' = attempt /\ signalled' = signalled
      BY <1>5 DEF Goto
    <2> QED
      BY <1>1, <1>2, <1>3, <1>5, <2>1 DEF ProcessInv, R, Phases
  <1>6. CASE LoadConfig
    <2>1. phase = "config" /\ Load /\ phase' = "connect" /\ attempt' = 1 /\ signalled' = signalled
      BY <1>6 DEF LoadConfig
    <2>2. attempt' \in Nat /\ attempt' <= R
      BY <1>4, <2>1
    <2> QED
      BY <1>1, <1>2, <1>3, <2>1, <2>2 DEF ProcessInv, R, Phases, Booting
  <1>7. CASE Connected
    BY <1>2, <1>5, <1>7 DEF Connected, Booting, Phases
  <1>8. CASE AttemptFails
    <2>1. phase = "connect" /\ attempt < R /\ phase' = "delay" /\ attempt' = attempt
          /\ signalled' = signalled
      BY <1>8 DEF AttemptFails, Goto, R
    <2> QED
      BY <1>1, <1>2, <1>3, <2>1 DEF ProcessInv, R, Phases, Booting
  <1>9. CASE RetryDelay
    <2>1. phase = "delay" /\ phase' = "connect" /\ attempt' = attempt + 1
          /\ signalled' = signalled
      BY <1>9 DEF RetryDelay
    <2>2. attempt' \in Nat /\ attempt' <= R
      BY <1>1, <1>4, <2>1
    <2> QED
      BY <1>1, <1>2, <1>3, <2>1, <2>2 DEF ProcessInv, R, Phases, Booting
  <1>10. CASE Listening
    BY <1>2, <1>5, <1>10 DEF Listening, Booting, Phases
  <1>11. CASE GracefulStop
    BY <1>2, <1>5, <1>11 DEF GracefulStop, Booting, Phases
  <1>12. CASE \E busy : Stopped(busy)
    BY <1>2, <1>5, <1>12 DEF Stopped, Booting, Phases
  <1>13. CASE Restored
    BY <1>2, <1>5, <1>13 DEF Restored, Booting, Phases
  <1>14. CASE Signal
    <2>1. phase' = phase /\ attempt' = attempt /\ signalled' = TRUE
      BY <1>14 DEF Signal
    <2> QED
      BY <1>1, <1>2, <1>3, <2>1 DEF ProcessInv, R
  <1> QED
    BY <1>6, <1>7, <1>8, <1>9, <1>10, <1>11, <1>12, <1>13, <1>14

\* os.Exit, the end of main or a crash.
LEMMA EndStep ==
  ASSUME ProcessInv, ProcessEnds
  PROVE  ProcessInv' /\ phase' = "down"
  <1>1. /\ phase' = "down" /\ attempt' = 0 /\ signalled' = FALSE
        /\ env' = NoEnvironment /\ starts' = starts
    BY DEF ProcessEnds
  <1> QED
    BY <1>1 DEF ProcessInv, Phases

\* A start, perhaps in another environment.
LEMMA StartStep ==
  ASSUME ProcessInv, Start
  PROVE  ProcessInv' /\ phase = "down" /\ phase' = "config"
  <1>1. /\ phase = "down" /\ phase' = "config" /\ env' \in Environments
        /\ attempt' = attempt /\ signalled' = signalled
        /\ starts < StartBound /\ starts' = starts + 1
    BY DEF Start
  <1>2. starts' \in 0..StartBound
    BY <1>1, ProcessAssumption DEF ProcessInv
  <1> QED
    BY <1>1, <1>2 DEF ProcessInv, Phases
----------------------------------------------------------------------------
(***************************************************************************)
(* Calls and queue objects.                                                *)
(***************************************************************************)
Only(k) == call' = [call EXCEPT ![k] = call'[k]]

\* A step that replaces one call.
LEMMA OneCall ==
  ASSUME CallInv, NEW k \in Calls, NEW c, call' = [call EXCEPT ![k] = c]
  PROVE  Only(k) /\ call'[k] = c
  BY DEF Only, CallInv

\* It leaves the others alone.
LEMMA OtherCalls ==
  ASSUME CallInv, NEW k \in Calls, Only(k)
  PROVE  DOMAIN call' = Calls /\ \A j \in Calls \ {k} : call'[j] = call[j]
  BY DEF Only, CallInv

\* An idle call, field by field.
LEMMA NoCallFields ==
  /\ NoCall.op = "none" /\ NoCall.pc = "none" /\ NoCall.cl = NoConsumer
  /\ NoCall.q = 0 /\ NoCall.id = 0 /\ NoCall.open = FALSE
  BY DEF NoCall

\* A call in progress.
LEMMA Progress ==
  ASSUME CallInv, NEW k \in Calls, call[k].pc # "none"
  PROVE  /\ call[k] \in CallType(Len(objs), published)
         /\ call[k].pc \in ClientSide => call[k].q = 0 /\ call[k].id = 0
         /\ call[k].pc \in ServerSide => Up
         /\ call[k].pc \in {"mark", "reply"} => call[k].id # 0
         /\ call[k].pc \in {"add", "added", "disconnect", "disconnected"} =>
               call[k].op # "Stream"
         /\ call[k].pc = "register" => call[k].op = "Stream"
         /\ call[k].open => call[k].cl \in alive
         /\ call[k].cl \in Clients /\ Consumer(k) \in Consumers
  <1>1. call[k] # NoCall
    BY NoCallFields
  <1>2. Shape(call[k], Len(objs), published, alive, Up)
    BY DEF CallInv
  <1>3. call[k].cl \in Clients
    BY <1>1, <1>2 DEF Shape, CallType
  <1>4. Consumer(k) \in Consumers
    BY <1>3, SessionAssumption DEF Consumer, Consumers, Range
  <1> QED
    BY <1>1, <1>2, <1>3, <1>4, Zenon DEF Shape

\* More queue objects, more messages: a call keeps its shape.
LEMMA ShapeKept ==
  ASSUME NEW m \in Nat, NEW n \in Nat, NEW m2 \in Nat, NEW n2 \in Nat, m <= m2, n <= n2,
         NEW al, NEW up, NEW c, Shape(c, m, n, al, up)
  PROVE  Shape(c, m2, n2, al, up)
  <1>1. CallType(m, n) \subseteq CallType(m2, n2)
    <2>1. 0..m \subseteq 0..m2 /\ 0..n \subseteq 0..n2
      OBVIOUS
    <2> QED
      BY <2>1 DEF CallType
  <1> QED
    BY <1>1, Zenon DEF Shape

\* The numbers of queue objects and of messages are numbers.
LEMMA Bounds ==
  ASSUME MemoryInv
  PROVE  published \in Nat /\ Len(objs) \in Nat /\ registered \in Nat
  BY LenProperties, SessionAssumption DEF MemoryInv

\* One call changes, in a state in which the objects and messages have not
\* become fewer.
LEMMA CallsKept ==
  ASSUME MemoryInv, MemoryInv', CallInv, NEW k \in Calls, Only(k),
         Shape(call'[k], Len(objs'), published', alive', Up'),
         Len(objs) <= Len(objs'), published <= published', alive' = alive, Up' = Up
  PROVE  CallInv'
  <1>1. DOMAIN call' = Calls /\ \A j \in Calls \ {k} : call'[j] = call[j]
    BY OtherCalls
  <1>2. \A j \in Calls : Shape(call[j], Len(objs), published, alive, Up)
    BY DEF CallInv
  <1>3. \A j \in Calls : Shape(call[j], Len(objs'), published', alive', Up')
    <2>1. published \in Nat /\ Len(objs) \in Nat
      BY Bounds
    <2>2. published' \in Nat /\ Len(objs') \in Nat
      BY LenProperties, SessionAssumption DEF MemoryInv
    <2> QED
      BY <1>2, <2>1, <2>2, ShapeKept
  <1>4. \A j \in Calls : Shape(call'[j], Len(objs'), published', alive', Up')
    BY <1>1, <1>3
  <1>5. \A j \in Calls : call'[j] \in {NoCall} \cup CallType(Len(objs'), published')
    BY <1>4 DEF Shape
  <1>6. call' = [j \in Calls |-> call'[j]]
    BY DEF Only, CallInv
  <1>7. call' \in [Calls -> {NoCall} \cup CallType(Len(objs'), published')]
    BY <1>5, <1>6
  <1> QED
    BY <1>4, <1>7 DEF CallInv

\* The queue that has the name.
LEMMA Registered ==
  ASSUME ProcessInv, MemoryInv, registered # 0
  PROVE  /\ Current \in GoodQueues(published, MaxInFlight)
         /\ MaxInFlight \in Nat \ {0} /\ registered \in 1..Len(objs)
         /\ phase \notin Booting /\ RegisteredConsumers = Current.Consumers
  <1>1. Len(objs) \in Nat /\ registered \in 1..Len(objs)
    BY Bounds DEF MemoryInv
  <1>2. Current \in GoodQueues(published, MaxInFlight)
    BY <1>1, ElementOfSeq DEF MemoryInv, Current
  <1>3. phase \notin Booting
    BY <1>1 DEF MemoryInv
  <1>4. MaxInFlight \in Nat \ {0}
    BY <1>3, Configured DEF ProcessInv, Booting
  <1> QED
    BY <1>1, <1>2, <1>3, <1>4 DEF RegisteredConsumers

\* A method on it.
LEMMA Replaced ==
  ASSUME ProcessInv, MemoryInv, registered # 0, NEW C,
         NEW r, Becomes(r, published, MaxInFlight, C),
         objs' = [objs EXCEPT ![registered] = r], UNCHANGED <<lifeVars, registered, published, table>>
  PROVE  MemoryInv' /\ Len(objs') = Len(objs) /\ RegisteredConsumers' = C
  <1>1. registered \in 1..Len(objs)
    BY Registered
  <1>2. env' = env /\ phase' = phase
    BY DEF lifeVars
  <1>3. /\ objs' \in Seq(GoodQueues(published, MaxInFlight)) /\ Len(objs') = Len(objs)
        /\ objs'[registered] = r
    BY <1>1, ExceptSeq DEF MemoryInv, Becomes
  <1>4. MaxInFlight' = MaxInFlight
    BY <1>2, SameEnvironment
  <1>5. phase' \notin Booting
    BY <1>2, Registered
  <1>6. MemoryInv'
    BY <1>3, <1>4, <1>5 DEF MemoryInv
  <1>7. RegisteredConsumers' = C
    BY <1>3 DEF RegisteredConsumers, Current, Becomes
  <1> QED
    BY <1>3, <1>6, <1>7
----------------------------------------------------------------------------
(***************************************************************************)
(* The handlers.  Each step of one leaves its call in the handler, with    *)
(* the same client, or ends it, a stream only through its deferred         *)
(* function; and the consumers of the queue are the same.                  *)
(***************************************************************************)
Serves(k) ==
    /\ Only(k)
    /\ \/ call'[k] = NoCall /\ call[k].op # "Stream"
       \/ /\ call'[k] \in CallType(Len(objs), published)
          /\ call'[k].op = call[k].op /\ call'[k].cl = call[k].cl
          /\ call'[k].open = call[k].open
          /\ call'[k].pc \in ServerSide
          /\ call'[k].pc \in {"mark", "reply"} => call'[k].id # 0

\* A call that is in its handler, or whose request is let in now.
Handling(k) ==
    /\ call[k].pc # "none" /\ phase \in {"serving", "draining"}
    /\ call[k].pc \in ServerSide \/ (At(k, "request") /\ authorize(call[k].cl))

Handled(k) ==
    /\ Handling(k) /\ Serves(k)
    /\ MemoryInv' /\ Len(objs') = Len(objs) /\ RegisteredConsumers' = RegisteredConsumers
    /\ suspect' \subseteq alive /\ held' \in [Clients -> SUBSET (1..published)]
    /\ UNCHANGED <<lifeVars, published, cached, alive, forgotten>>

\* A handler that runs has a server.
LEMMA Serving ==
  ASSUME CallInv, NEW k \in Calls, call[k].pc \in ServerSide
  PROVE  Handling(k)
  BY Progress DEF Handling, ServerSide, Up

\* A handler that goes to its next statement.
LEMMA StepServes ==
  ASSUME CallInv, NEW k \in Calls, call[k].pc # "none",
         NEW p \in ServerSide \ {"mark", "reply"}, Step(k, p)
  PROVE  Serves(k)
  <1>1. Only(k) /\ call'[k] = [call[k] EXCEPT !.pc = p]
    BY OneCall DEF Step
  <1>2. call[k] \in CallType(Len(objs), published)
    BY Progress
  <1>3. p \in ClientSide \cup ServerSide
    OBVIOUS
  <1>4. /\ call'[k] \in CallType(Len(objs), published) /\ call'[k].pc = p
        /\ call'[k].op = call[k].op /\ call'[k].cl = call[k].cl
        /\ call'[k].open = call[k].open
    BY <1>1, <1>2, <1>3, Zenon DEF CallType
  <1> QED
    BY <1>1, <1>4, Zenon DEF Serves

\* A handler returns an error.
LEMMA Failing ==
  ASSUME CallInv, ClientInv, NEW k \in Calls, call[k].pc # "none", NEW err, Fail(k, err)
  PROVE  Serves(k) /\ suspect' \subseteq alive
  <1>1. CASE call[k].op = "Stream"
    <2>1. Step(k, "deferred") /\ suspect' = suspect
      BY <1>1 DEF Fail
    <2> QED
      BY <2>1, StepServes DEF ServerSide, ClientInv
  <1>2. CASE call[k].op # "Stream"
    <2>1. Ends(k) /\ (suspect' = suspect \/ (call[k].open /\ suspect' = suspect \cup {call[k].cl}))
      BY <1>2 DEF Fail
    <2>2. Only(k) /\ call'[k] = NoCall
      BY <2>1, OneCall DEF Ends
    <2>3. call[k].open => call[k].cl \in alive
      BY Progress
    <2> QED
      BY <1>2, <2>1, <2>2, <2>3 DEF Serves, ClientInv
  <1> QED
    BY <1>1, <1>2

\* The memory is as it was.
LEMMA MemoryKept ==
  ASSUME MemoryInv, UNCHANGED <<lifeVars, broker>>
  PROVE  MemoryInv' /\ Len(objs') = Len(objs) /\ RegisteredConsumers' = RegisteredConsumers
  <1>1. env' = env /\ phase' = phase /\ UNCHANGED <<objs, registered, table, published>>
    BY DEF lifeVars, broker
  <1>2. MaxInFlight' = MaxInFlight
    BY <1>1, SameEnvironment
  <1> QED
    BY <1>1, <1>2 DEF MemoryInv, RegisteredConsumers, Current

\* A call stops waiting.
LEMMA StopsWaiting ==
  ASSUME ProcessInv, MemoryInv, NEW k \in Calls, StopWaiting(k),
         UNCHANGED <<lifeVars, registered, table, published>>
  PROVE  MemoryInv' /\ Len(objs') = Len(objs) /\ RegisteredConsumers' = RegisteredConsumers
  <1> DEFINE G == GoodQueues(published, MaxInFlight)
             E(q) == [objs[q] EXCEPT !.readyNotify = objs[q].readyNotify \ {k}]
  <1>1. env' = env /\ phase' = phase /\ MaxInFlight' = MaxInFlight
    BY SameEnvironment DEF lifeVars
  <1>2. objs \in Seq(G) /\ Len(objs) \in Nat /\ DOMAIN objs = 1..Len(objs)
    BY Bounds DEF MemoryInv
  <1>3. objs' = [q \in 1..Len(objs) |-> E(q)]
    BY <1>2 DEF StopWaiting
  <1>4. CASE objs = << >>
    <2>1. objs' = << >>
      BY <1>2, <1>3, <1>4
    <2> QED
      BY <1>1, <1>4, <2>1 DEF MemoryInv, RegisteredConsumers, Current
  <1>5. CASE objs # << >>
    <2>1. MaxInFlight \in Nat \ {0}
      BY <1>5, Configured DEF MemoryInv, ProcessInv, Booting
    <2>2. \A q \in 1..Len(objs) : E(q) \in G /\ E(q).Consumers = objs[q].Consumers
      <3> SUFFICES ASSUME NEW q \in 1..Len(objs)
                   PROVE  E(q) \in G /\ E(q).Consumers = objs[q].Consumers
        OBVIOUS
      <3>1. objs[q] \in G
        BY <1>2, ElementOfSeq
      <3>2. objs[q].readyNotify \ {k} \in SUBSET Calls
        <4>1. PICK durable \in BOOLEAN : objs[q] \in Object(durable, published)
          BY <3>1, GoodQueue
        <4>2. objs[q].readyNotify \in SUBSET Calls
          BY <4>1 DEF Object, Queues
        <4> QED
          BY <4>2
      <3>3. published \in Nat /\ MaxInFlight \in Int
        BY <2>1, Bounds
      <3> HIDE DEF G
      <3>4. Becomes(E(q), published, MaxInFlight, objs[q].Consumers)
        BY <3>1, <3>2, <3>3, WaitersGood DEF G
      <3> QED
        BY <3>4 DEF Becomes, G
    <2> HIDE DEF E, G
    <2>3. objs' \in [1..Len(objs) -> G]
      BY <1>3, <2>2
    <2>4. objs' \in Seq(G) /\ Len(objs') = Len(objs)
      BY <1>2, <2>3
    <2>5. MemoryInv'
      BY <1>1, <1>5, <2>4 DEF MemoryInv, G
    <2>6. registered # 0 => objs'[registered].Consumers = objs[registered].Consumers
      BY <1>3, <2>2, Registered
    <2> QED
      BY <2>4, <2>5, <2>6 DEF RegisteredConsumers, Current
  <1> QED
    BY <1>4, <1>5

\* Held messages, as they are after a step that leaves them alone.
LEMMA Untouched ==
  ASSUME ClientInv
  PROVE  held \in [Clients -> SUBSET (1..published)] /\ suspect \subseteq alive
  BY DEF ClientInv

\* One lemma for each step of a handler: BlockingFetch looks the queue up, ...
LEMMA BlockingFetchHandled ==
  ASSUME IInv, NEW k \in Calls, BlockingFetch(k)
  PROVE  Handled(k)
  <1>1. /\ UNCHANGED <<lifeVars, broker>>
        /\ published' = published /\ cached' = cached /\ alive' = alive /\ held' = held
        /\ forgotten' = forgotten
    BY DEF BlockingFetch, broker
  <1>2. Handling(k)
    BY Serving DEF IInv, BlockingFetch, onFetch, Unary, Handling, At, ServerSide
  <1>3. call[k].pc # "none"
    BY <1>2 DEF Handling
  <1>4. Serves(k) /\ suspect' \subseteq alive
    <2>1. CASE registered = 0
      BY <1>3, <2>1, Failing DEF BlockingFetch, IInv
    <2>2. CASE registered # 0
      <3> DEFINE c == [call[k] EXCEPT !.pc = "loop"]
                 d == [c EXCEPT !.q = registered]
      <3>1. call' = [call EXCEPT ![k] = d] /\ suspect' = suspect
        BY <2>2 DEF BlockingFetch, IInv, CallInv
      <3>2. Only(k) /\ call'[k] = d
        BY <3>1, OneCall DEF IInv
      <3>3. call[k] \in CallType(Len(objs), published)
        BY <1>3, Progress DEF IInv
      <3>4. "loop" \in ClientSide \cup ServerSide /\ "loop" \in ServerSide
            /\ "loop" \notin {"mark", "reply"}
        BY DEF ServerSide
      <3>5. /\ c \in CallType(Len(objs), published) /\ c.pc = "loop"
            /\ c.op = call[k].op /\ c.cl = call[k].cl /\ c.open = call[k].open
        BY <3>3, <3>4, Zenon DEF CallType
      <3> HIDE DEF c
      <3>6. registered \in 0..Len(objs)
        BY DEF IInv, MemoryInv
      <3>7. /\ d \in CallType(Len(objs), published) /\ d.pc = "loop"
            /\ d.op = call[k].op /\ d.cl = call[k].cl /\ d.open = call[k].open
        BY <3>5, <3>6, Zenon DEF CallType
      <3> HIDE DEF d
      <3> QED
        BY <3>1, <3>2, <3>4, <3>7, Untouched, Zenon DEF Serves, IInv
    <2> QED
      BY <2>1, <2>2
  <1>5. MemoryInv' /\ Len(objs') = Len(objs) /\ RegisteredConsumers' = RegisteredConsumers
    BY <1>1, MemoryKept DEF IInv
  <1> QED
    BY <1>1, <1>2, <1>4, <1>5, Untouched DEF Handled, IInv

\* ... FetchOrWait refuses, ...
LEMMA FetchRefusedHandled ==
  ASSUME IInv, NEW k \in Calls, FetchRefused(k)
  PROVE  Handled(k)
  <1>1. /\ UNCHANGED <<lifeVars, broker>>
        /\ published' = published /\ cached' = cached /\ alive' = alive /\ held' = held
        /\ forgotten' = forgotten
    BY DEF FetchRefused, broker
  <1>2. Handling(k) /\ call[k].pc # "none"
    BY Serving DEF IInv, FetchRefused, Handling, At, ServerSide
  <1>3. Serves(k) /\ suspect' \subseteq alive
    BY <1>2, Failing DEF FetchRefused, IInv
  <1>4. MemoryInv' /\ Len(objs') = Len(objs) /\ RegisteredConsumers' = RegisteredConsumers
    BY <1>1, MemoryKept DEF IInv
  <1> QED
    BY <1>1, <1>2, <1>3, <1>4, Untouched DEF Handled, IInv

\* ... hands out a message, ...
LEMMA FetchReadyHandled ==
  ASSUME IInv, NEW k \in Calls, FetchReady(k)
  PROVE  Handled(k)
  <1> DEFINE h == Head(Current.Ready).ID
             p == IF objs[call[k].q].IsDurable THEN "mark" ELSE "reply"
             c == [call[k] EXCEPT !.id = h]
             d == [c EXCEPT !.pc = p]
             r == Uncounted(Fetched(Current, Consumer(k)))
  <1>1. /\ At(k, "loop") /\ registered # 0 /\ Current.Ready # << >>
        /\ FetchAllowed(Current, Consumer(k), MaxInFlight)
        /\ UNCHANGED <<lifeVars, registered, table, published>>
        /\ cached' = cached /\ alive' = alive /\ held' = held /\ suspect' = suspect
        /\ forgotten' = forgotten
    BY DEF FetchReady, CanFetch, client
  <1>2. call' = [call EXCEPT ![k] = d]
    BY DEF FetchReady, IInv, CallInv
  <1>3. objs' = [objs EXCEPT ![registered] = r]
    BY DEF FetchReady, Current
  <1>4. Handling(k) /\ call[k].pc # "none"
    BY <1>1, Serving DEF IInv, Handling, At, ServerSide
  <1>5. call[k] \in CallType(Len(objs), published) /\ Consumer(k) \in Consumers
    BY <1>4, Progress DEF IInv
  <1>6. Becomes(r, published, MaxInFlight, Current.Consumers) /\ h \in 1..published
    BY <1>1, <1>5, Registered, Bounds, FetchedGood DEF IInv
  <1>7. MemoryInv' /\ Len(objs') = Len(objs) /\ RegisteredConsumers' = RegisteredConsumers
    BY <1>1, <1>3, <1>6, Registered, Replaced DEF IInv
  <1>8. h \in 0..published /\ h # 0
    BY <1>6
  <1>9. p \in {"mark", "reply"} /\ p \in ServerSide /\ p \in ClientSide \cup ServerSide
    BY DEF ServerSide
  <1>10. Only(k) /\ call'[k] = d
    BY <1>2, OneCall DEF IInv
  <1> HIDE DEF h, p, r
  <1>11. /\ c \in CallType(Len(objs), published) /\ c.id = h
         /\ c.op = call[k].op /\ c.cl = call[k].cl /\ c.open = call[k].open
    BY <1>5, <1>8, Zenon DEF CallType
  <1> HIDE DEF c
  <1>12. /\ d \in CallType(Len(objs), published) /\ d.id = h /\ d.pc = p
         /\ d.op = call[k].op /\ d.cl = call[k].cl /\ d.open = call[k].open
    BY <1>9, <1>11, Zenon DEF CallType
  <1> HIDE DEF d
  <1>13. Serves(k)
    BY <1>8, <1>9, <1>10, <1>12, Zenon DEF Serves
  <1> QED
    BY <1>1, <1>4, <1>7, <1>13, Untouched DEF Handled, IInv

\* ... or finds none; ...
LEMMA FetchEmptyHandled ==
  ASSUME IInv, NEW k \in Calls, FetchEmpty(k)
  PROVE  Handled(k)
  <1> DEFINE w == Current.readyNotify \cup {k}
             r == [Current EXCEPT !.readyNotify = w]
  <1>1. /\ At(k, "loop") /\ registered # 0
        /\ UNCHANGED <<lifeVars, registered, table, published>>
        /\ cached' = cached /\ alive' = alive /\ held' = held /\ forgotten' = forgotten
    BY DEF FetchEmpty, CanFetch
  <1>2. Handling(k) /\ call[k].pc # "none"
    BY <1>1, Serving DEF IInv, Handling, At, ServerSide
  <1>3. CASE Fail(k, "QueueEmpty") /\ UNCHANGED objs
    <2>1. Serves(k) /\ suspect' \subseteq alive
      BY <1>2, <1>3, Failing DEF IInv
    <2>2. MemoryInv' /\ Len(objs') = Len(objs) /\ RegisteredConsumers' = RegisteredConsumers
      BY <1>1, <1>3, MemoryKept DEF IInv, broker
    <2> QED
      BY <1>1, <1>2, <2>1, <2>2, Untouched DEF Handled, IInv
  <1>4. CASE /\ objs' = [objs EXCEPT ![registered] = WaitingOn(objs[registered], k)]
             /\ Step(k, "wait") /\ suspect' = suspect
    <2>1. Serves(k)
      BY <1>2, <1>4, StepServes DEF IInv, ServerSide
    <2>2. objs' = [objs EXCEPT ![registered] = r]
      BY <1>4 DEF WaitingOn, Current
    <2>3. w \in SUBSET Calls
      <3>1. PICK durable \in BOOLEAN : Current \in Object(durable, published)
        BY <1>1, Registered, GoodQueue DEF IInv
      <3>2. Current.readyNotify \in SUBSET Calls
        BY <3>1 DEF Object, Queues
      <3> QED
        BY <3>2
    <2>4. Becomes(r, published, MaxInFlight, Current.Consumers)
      <3>1. /\ Current \in GoodQueues(published, MaxInFlight)
            /\ published \in Nat /\ MaxInFlight \in Int
        BY <1>1, Registered, Bounds DEF IInv
      <3> HIDE DEF w
      <3> QED
        BY <2>3, <3>1, WaitersGood
    <2>5. MemoryInv' /\ Len(objs') = Len(objs) /\ RegisteredConsumers' = RegisteredConsumers
      BY <1>1, <2>2, <2>4, Registered, Replaced DEF IInv
    <2> QED
      BY <1>1, <1>2, <1>4, <2>1, <2>5, Untouched DEF Handled, IInv
  <1> QED
    BY <1>3, <1>4 DEF FetchEmpty

\* ... the select ends by the channel, ...
LEMMA WakeUpHandled ==
  ASSUME IInv, NEW k \in Calls, WakeUp(k)
  PROVE  Handled(k)
  <1>1. /\ At(k, "wait") /\ Step(k, "loop") /\ UNCHANGED <<lifeVars, broker>>
        /\ published' = published /\ cached' = cached /\ alive' = alive /\ held' = held
        /\ forgotten' = forgotten /\ suspect' = suspect
    BY DEF WakeUp, broker, client
  <1>2. Handling(k) /\ call[k].pc # "none"
    BY <1>1, Serving DEF IInv, Handling, At, ServerSide
  <1>3. Serves(k)
    BY <1>1, <1>2, StepServes DEF IInv, ServerSide
  <1>4. MemoryInv' /\ Len(objs') = Len(objs) /\ RegisteredConsumers' = RegisteredConsumers
    BY <1>1, MemoryKept DEF IInv
  <1> QED
    BY <1>1, <1>2, <1>3, <1>4, Untouched DEF Handled, IInv

\* ... by the timer, ...
LEMMA TimedOutHandled ==
  ASSUME IInv, NEW k \in Calls, TimedOut(k)
  PROVE  Handled(k)
  <1>1. /\ At(k, "wait") /\ StopWaiting(k)
        /\ UNCHANGED <<lifeVars, registered, table, published>>
        /\ cached' = cached /\ alive' = alive /\ held' = held /\ forgotten' = forgotten
    BY DEF TimedOut
  <1>2. Handling(k) /\ call[k].pc # "none"
    BY <1>1, Serving DEF IInv, Handling, At, ServerSide
  <1>3. Serves(k) /\ suspect' \subseteq alive
    <2>1. CASE Fail(k, "QueueEmpty")
      BY <1>2, <2>1, Failing DEF IInv
    <2>2. CASE Step(k, "lookup") /\ UNCHANGED suspect
      BY <1>2, <2>2, StepServes, Untouched DEF IInv, ServerSide
    <2> QED
      BY <2>1, <2>2 DEF TimedOut
  <1>4. MemoryInv' /\ Len(objs') = Len(objs) /\ RegisteredConsumers' = RegisteredConsumers
    BY <1>1, StopsWaiting DEF IInv
  <1> QED
    BY <1>1, <1>2, <1>3, <1>4, Untouched DEF Handled, IInv

\* ... or by the context; ...
LEMMA ContextDoneHandled ==
  ASSUME IInv, NEW k \in Calls, ContextDone(k)
  PROVE  Handled(k)
  <1>1. /\ At(k, "wait") /\ StopWaiting(k) /\ Fail(k, "context canceled")
        /\ UNCHANGED <<lifeVars, registered, table, published>>
        /\ cached' = cached /\ alive' = alive /\ held' = held /\ forgotten' = forgotten
    BY DEF ContextDone
  <1>2. Handling(k) /\ call[k].pc # "none"
    BY <1>1, Serving DEF IInv, Handling, At, ServerSide
  <1>3. Serves(k) /\ suspect' \subseteq alive
    BY <1>1, <1>2, Failing DEF IInv
  <1>4. MemoryInv' /\ Len(objs') = Len(objs) /\ RegisteredConsumers' = RegisteredConsumers
    BY <1>1, StopsWaiting DEF IInv
  <1> QED
    BY <1>1, <1>2, <1>3, <1>4, Untouched DEF Handled, IInv

\* MarkInFlight, whether it succeeds or not.
LEMMA MarkHandled ==
  ASSUME IInv, NEW k \in Calls, MarkInFlight(k) \/ MarkInFlightFails(k)
  PROVE  Handled(k)
  <1>1. /\ At(k, "mark") /\ UNCHANGED <<lifeVars, broker>>
        /\ published' = published /\ cached' = cached /\ alive' = alive /\ held' = held
        /\ forgotten' = forgotten
    BY DEF MarkInFlight, MarkInFlightFails, broker, client
  <1>2. Handling(k) /\ call[k].pc # "none"
    BY <1>1, Serving DEF IInv, Handling, At, ServerSide
  <1>3. Serves(k) /\ suspect' \subseteq alive
    <2>1. CASE MarkInFlight(k)
      <3>1. Step(k, "reply") /\ suspect' = suspect
        BY <2>1 DEF MarkInFlight, client
      <3>2. Only(k) /\ call'[k] = [call[k] EXCEPT !.pc = "reply"]
        BY <3>1, OneCall DEF Step, IInv
      <3>3. call[k] \in CallType(Len(objs), published) /\ call[k].id # 0
        BY <1>1, <1>2, Progress DEF IInv, At
      <3>4. "reply" \in ServerSide
        BY DEF ServerSide
      <3>5. /\ call'[k] \in CallType(Len(objs), published)
            /\ call'[k].pc = "reply" /\ call'[k].id = call[k].id
            /\ call'[k].op = call[k].op /\ call'[k].cl = call[k].cl
            /\ call'[k].open = call[k].open
        BY <3>2, <3>3, <3>4, Zenon DEF CallType
      <3>6. Serves(k)
        BY <3>2, <3>3, <3>4, <3>5, Zenon DEF Serves
      <3> QED
        BY <3>1, <3>6, Untouched DEF IInv
    <2>2. CASE MarkInFlightFails(k)
      BY <1>2, <2>2, Failing DEF IInv, MarkInFlightFails
    <2> QED
      BY <2>1, <2>2
  <1>4. MemoryInv' /\ Len(objs') = Len(objs) /\ RegisteredConsumers' = RegisteredConsumers
    BY <1>1, MemoryKept DEF IInv
  <1> QED
    BY <1>1, <1>2, <1>3, <1>4, Untouched DEF Handled, IInv

\* ... the answer arrives, ...
LEMMA ReceiveHandled ==
  ASSUME IInv, NEW k \in Calls, Receive(k)
  PROVE  Handled(k)
  <1>1. /\ At(k, "reply") /\ newMessage(call[k].cl, call[k].id) /\ UNCHANGED <<lifeVars, broker>>
        /\ published' = published /\ cached' = cached /\ alive' = alive
        /\ forgotten' = forgotten
    BY DEF Receive, broker
  <1>2. Handling(k) /\ call[k].pc # "none"
    BY <1>1, Serving DEF IInv, Handling, At, ServerSide
  <1>3. /\ call[k] \in CallType(Len(objs), published) /\ call[k].id # 0
        /\ call[k].cl \in Clients
    BY <1>1, <1>2, Progress DEF IInv, At
  <1>4. call[k].id \in 1..published
    <2>1. call[k].id \in 0..published /\ published \in Nat
      BY <1>3, Bounds DEF CallType, IInv
    <2> QED
      BY <1>3, <2>1
  <1>5. held' \in [Clients -> SUBSET (1..published)]
    <2>1. held \in [Clients -> SUBSET (1..published)]
      BY Untouched DEF IInv
    <2> QED
      BY <1>1, <1>3, <1>4, <2>1 DEF newMessage
  <1>6. Serves(k) /\ suspect' \subseteq alive
    <2>1. CASE call[k].op = "Stream"
      <3> DEFINE c == [call[k] EXCEPT !.pc = "lookup"]
                 d == [c EXCEPT !.id = 0]
      <3>1. call' = [call EXCEPT ![k] = d] /\ suspect' = suspect
        BY <2>1 DEF Receive, IInv, CallInv
      <3>2. Only(k) /\ call'[k] = d
        BY <3>1, OneCall DEF IInv
      <3>3. "lookup" \in ServerSide /\ "lookup" \notin {"mark", "reply"}
        BY DEF ServerSide
      <3>4. /\ c \in CallType(Len(objs), published) /\ c.pc = "lookup"
            /\ c.op = call[k].op /\ c.cl = call[k].cl /\ c.open = call[k].open
        BY <1>3, <3>3, Zenon DEF CallType
      <3>5. 0 \in 0..published
        BY Bounds DEF IInv
      <3> HIDE DEF c
      <3>6. /\ d \in CallType(Len(objs), published) /\ d.pc = "lookup"
            /\ d.op = call[k].op /\ d.cl = call[k].cl /\ d.open = call[k].open
        BY <3>4, <3>5, Zenon DEF CallType
      <3> HIDE DEF d
      <3> QED
        BY <3>1, <3>2, <3>3, <3>6, Untouched, Zenon DEF Serves, IInv
    <2>2. CASE call[k].op # "Stream"
      <3>1. Ends(k) /\ suspect' = suspect \ {call[k].cl}
        BY <2>2 DEF Receive
      <3>2. Only(k) /\ call'[k] = NoCall
        BY <3>1, OneCall DEF Ends, IInv
      <3> QED
        BY <2>2, <3>1, <3>2, Untouched DEF Serves, IInv
    <2> QED
      BY <2>1, <2>2
  <1>7. MemoryInv' /\ Len(objs') = Len(objs) /\ RegisteredConsumers' = RegisteredConsumers
    BY <1>1, MemoryKept DEF IInv
  <1> QED
    BY <1>1, <1>2, <1>5, <1>6, <1>7 DEF Handled

\* ... or does not.
LEMMA SendFailsHandled ==
  ASSUME IInv, NEW k \in Calls, SendFails(k)
  PROVE  Handled(k)
  <1>1. /\ At(k, "reply") /\ Fail(k, "transport") /\ UNCHANGED <<lifeVars, broker>>
        /\ published' = published /\ cached' = cached /\ alive' = alive /\ held' = held
        /\ forgotten' = forgotten
    BY DEF SendFails, broker
  <1>2. Handling(k) /\ call[k].pc # "none"
    BY <1>1, Serving DEF IInv, Handling, At, ServerSide
  <1>3. Serves(k) /\ suspect' \subseteq alive
    BY <1>1, <1>2, Failing DEF IInv
  <1>4. MemoryInv' /\ Len(objs') = Len(objs) /\ RegisteredConsumers' = RegisteredConsumers
    BY <1>1, MemoryKept DEF IInv
  <1> QED
    BY <1>1, <1>2, <1>3, <1>4, Untouched DEF Handled, IInv
----------------------------------------------------------------------------
(***************************************************************************)
(* What such a step keeps.                                                 *)
(***************************************************************************)
\* A step of a call or of a client does not touch the process.
LEMMA ProcessKept ==
  ASSUME ProcessInv, UNCHANGED lifeVars
  PROVE  ProcessInv' /\ env' = env /\ phase' = phase /\ Up' = Up
  <1>1. /\ phase' = phase /\ attempt' = attempt /\ signalled' = signalled /\ env' = env
        /\ starts' = starts
    BY DEF lifeVars
  <1>2. Load' = Load /\ ConnectRetries' = ConnectRetries
    BY <1>1, SameEnvironment
  <1> QED
    BY <1>1, <1>2 DEF ProcessInv, Up

\* A handler's step keeps IInv, ...
LEMMA HandledTypes ==
  ASSUME IInv, NEW k \in Calls, Handled(k)
  PROVE  IInv'
  <1>1. ProcessInv' /\ Up' = Up
    BY ProcessKept DEF IInv, Handled
  <1>2. /\ Only(k) /\ MemoryInv' /\ Len(objs') = Len(objs) /\ published' = published
        /\ alive' = alive
    BY DEF Handled, Serves
  <1>3. Shape(call'[k], Len(objs'), published', alive', Up')
    <2>1. CASE call'[k] = NoCall
      BY <2>1 DEF Shape
    <2>2. CASE call'[k] # NoCall
      <3>1. /\ call'[k] \in CallType(Len(objs), published)
            /\ call'[k].cl = call[k].cl /\ call'[k].open = call[k].open
            /\ call'[k].pc \in ServerSide
            /\ call'[k].pc \in {"mark", "reply"} => call'[k].id # 0
        BY <2>2 DEF Handled, Serves
      <3>2. Up /\ call[k].pc # "none"
        BY DEF Handled, Handling, Up
      <3>3. call[k].open => call[k].cl \in alive
        BY <3>2, Progress DEF IInv
      <3>4. /\ call'[k].pc \notin ClientSide /\ call'[k].pc # "register"
            /\ call'[k].pc \notin {"add", "added", "disconnect", "disconnected"}
        BY <3>1 DEF ClientSide, ServerSide
      <3> QED
        BY <1>1, <1>2, <3>1, <3>2, <3>3, <3>4, Zenon DEF Shape
    <2> QED
      BY <2>1, <2>2
  <1>4. CallInv'
    <2>1. Len(objs) <= Len(objs') /\ published <= published'
      BY <1>2, Bounds DEF IInv
    <2> QED
      BY <1>1, <1>2, <1>3, <2>1, CallsKept DEF IInv
  <1>5. ClientInv'
    BY DEF Handled, IInv, ClientInv
  <1> QED
    BY <1>1, <1>2, <1>4, <1>5 DEF IInv

\* ... it goes on for a client that was let in, ...
LEMMA HandledToken ==
  ASSUME IInv, TokenInv, NEW k \in Calls, Handled(k)
  PROVE  TokenInv'
  <1>1. \A cl : authorize(cl)' <=> authorize(cl)
    BY ProcessKept, SameEnvironment DEF Handled, IInv
  <1>2. \A j \in Calls \ {k} : call'[j] = call[j]
    BY OtherCalls DEF Handled, Serves, IInv
  <1>3. authorize(call[k].cl)
    BY DEF Handled, Handling, TokenInv
  <1>4. call'[k] = NoCall \/ call'[k].cl = call[k].cl
    BY DEF Handled, Serves
  <1>5. NoCall.pc \notin ServerSide
    BY NoCallFields DEF ServerSide
  <1>6. RegisteredConsumers' = RegisteredConsumers
    BY DEF Handled
  <1>7. ASSUME NEW j \in Calls, call'[j].pc \in ServerSide
        PROVE  authorize(call[j].cl)'
    BY <1>1, <1>2, <1>3, <1>4, <1>5, <1>7 DEF TokenInv
  <1>8. \A c \in RegisteredConsumers' :
           \E cl \in Clients : ConsumerOf[cl] = c /\ authorize(cl)'
    BY <1>1, <1>6 DEF TokenInv
  <1> QED
    BY <1>7, <1>8 DEF TokenInv

\* What a step has to respect so that KnownInv stays.
LEMMA KnownKept ==
  ASSUME KnownInv,
         \A cl \in cached :
            ~Dropping(cl) /\ ConsumerOf[cl] \in RegisteredConsumers' \ forgotten'
              => cl \in cached' /\ ~Dropping(cl)',
         \A c \in RegisteredConsumers' \ forgotten' :
            \/ Known(c)'
            \/ /\ c \in RegisteredConsumers \ forgotten
               /\ \A j \in Calls : Witness(j) /\ Consumer(j) = c
                                     => Witness(j)' /\ Consumer(j)' = c
  PROVE  KnownInv'
  <1>1. ASSUME NEW c \in RegisteredConsumers' \ forgotten'
        PROVE  Known(c)'
    <2>1. CASE Known(c)'
      BY <2>1
    <2>2. CASE ~Known(c)'
      <3>1. /\ c \in RegisteredConsumers \ forgotten
            /\ \A j \in Calls : Witness(j) /\ Consumer(j) = c
                                  => Witness(j)' /\ Consumer(j)' = c
        BY <1>1, <2>2
      <3>2. Known(c)
        BY <3>1 DEF KnownInv
      <3>3. CASE \E cl \in cached : ConsumerOf[cl] = c /\ ~Dropping(cl)
        <4>1. PICK cl \in cached : ConsumerOf[cl] = c /\ ~Dropping(cl)
          BY <3>3
        <4>2. cl \in cached' /\ ~Dropping(cl)'
          BY <1>1, <4>1
        <4> QED
          BY <4>1, <4>2 DEF Known
      <3>4. CASE \E j \in Calls : Witness(j) /\ Consumer(j) = c
        <4>1. PICK j \in Calls : Witness(j) /\ Consumer(j) = c
          BY <3>4
        <4>2. Witness(j)' /\ Consumer(j)' = c
          BY <3>1, <4>1
        <4> QED
          BY <4>2 DEF Known
      <3> QED
        BY <3>2, <3>3, <3>4 DEF Known
    <2> QED
      BY <2>1, <2>2
  <1> QED
    BY <1>1 DEF KnownInv

\* A call that is not concerned.
LEMMA SameCall ==
  ASSUME NEW j \in Calls, call'[j] = call[j],
         \A cl : Dropping(cl)' => Dropping(cl)
  PROVE  /\ Witness(j) => Witness(j)'
         /\ Consumer(j)' = Consumer(j)
  <1>1. PICK cl : cl = call[j].cl
    BY Zenon
  <1>2. ~Dropping(cl) => ~Dropping(cl)'
    OBVIOUS
  <1>3. (Dropping(call[j].cl) <=> Dropping(cl)) /\ (Dropping(call[j].cl)' <=> Dropping(cl)')
    BY <1>1 DEF Dropping, At
  <1> QED
    BY <1>1, <1>2, <1>3 DEF Witness, Streaming, At, Consumer

\* ... and a stream stays the witness of its consumer.
LEMMA HandledKnown ==
  ASSUME IInv, KnownInv, NEW k \in Calls, Handled(k)
  PROVE  KnownInv'
  <1>1. \A j \in Calls \ {k} : call'[j] = call[j]
    BY OtherCalls DEF Handled, Serves, IInv
  <1>2. \/ call'[k] = NoCall /\ call[k].op # "Stream"
        \/ /\ call'[k].op = call[k].op /\ call'[k].cl = call[k].cl
           /\ call'[k].open = call[k].open /\ call'[k].pc \in ServerSide
    BY DEF Handled, Serves
  <1>3. ~At(k, "added")
    BY DEF Handled, Handling, At, ServerSide
  <1>4. /\ cached' = cached /\ forgotten' = forgotten
        /\ RegisteredConsumers' = RegisteredConsumers
    BY DEF Handled
  <1>5. \A cl : Dropping(cl)' => Dropping(cl)
    <2>1. call'[k].pc # "disconnected"
      BY <1>2, NoCallFields DEF ServerSide
    <2> QED
      BY <1>1, <2>1 DEF Dropping, At
  <1>6. ASSUME NEW j \in Calls, Witness(j)
        PROVE  Witness(j)' /\ Consumer(j)' = Consumer(j)
    <2>1. CASE j = k
      BY <1>2, <1>3, <1>6, <2>1 DEF Witness, Streaming, At, Consumer
    <2>2. CASE j # k
      BY <1>1, <1>5, <1>6, <2>2, SameCall
    <2> QED
      BY <2>1, <2>2
  <1> QED
    BY <1>4, <1>5, <1>6, KnownKept
----------------------------------------------------------------------------
(***************************************************************************)
(* The client's side.                                                      *)
(***************************************************************************)
Keeps == IInv' /\ (TokenInv => TokenInv') /\ (KnownInv => KnownInv')

\* A step of one call that adds no queue object and no message keeps IInv.
LEMMA TypesKept ==
  ASSUME IInv, NEW k \in Calls, Only(k), UNCHANGED lifeVars,
         Shape(call'[k], Len(objs), published, alive, Up),
         MemoryInv', Len(objs') = Len(objs), published' = published, alive' = alive, ClientInv'
  PROVE  IInv'
  <1>1. ProcessInv' /\ Up' = Up
    BY ProcessKept DEF IInv
  <1>2. Len(objs) <= Len(objs') /\ published <= published'
    BY Bounds DEF IInv
  <1>3. CallInv'
    BY <1>1, <1>2, CallsKept DEF IInv
  <1> QED
    BY <1>1, <1>3 DEF IInv

\* Whoever gets into a handler or a queue was let in.
LEMMA TokenKept ==
  ASSUME IInv, TokenInv, NEW k \in Calls, Only(k), UNCHANGED lifeVars,
         call'[k].pc \in ServerSide => call'[k].cl = call[k].cl /\ authorize(call[k].cl),
         \A c \in RegisteredConsumers' :
            c \in RegisteredConsumers \/ \E cl \in Clients : ConsumerOf[cl] = c /\ authorize(cl)
  PROVE  TokenInv'
  <1>1. \A cl : authorize(cl)' <=> authorize(cl)
    BY ProcessKept, SameEnvironment DEF IInv
  <1>2. \A j \in Calls \ {k} : call'[j] = call[j]
    BY OtherCalls DEF IInv
  <1>3. ASSUME NEW j \in Calls, call'[j].pc \in ServerSide
        PROVE  authorize(call[j].cl)'
    BY <1>1, <1>2, <1>3 DEF TokenInv
  <1>4. \A c \in RegisteredConsumers' :
           \E cl \in Clients : ConsumerOf[cl] = c /\ authorize(cl)'
    BY <1>1 DEF TokenInv
  <1> QED
    BY <1>3, <1>4 DEF TokenInv

\* A call that only goes to its next statement.
LEMMA Stepped ==
  ASSUME CallInv, NEW k \in Calls, call[k].pc # "none",
         NEW p \in ClientSide \cup ServerSide, Step(k, p)
  PROVE  /\ Only(k) /\ call'[k] \in CallType(Len(objs), published) /\ call'[k].pc = p
         /\ call'[k].op = call[k].op /\ call'[k].cl = call[k].cl
         /\ call'[k].q = call[k].q /\ call'[k].id = call[k].id
         /\ call'[k].open = call[k].open
  <1>1. Only(k) /\ call'[k] = [call[k] EXCEPT !.pc = p]
    BY OneCall DEF Step
  <1>2. call[k] \in CallType(Len(objs), published)
    BY Progress
  <1> QED
    BY <1>1, <1>2, Zenon DEF CallType

\* A call goes to another step on the client's side.
LEMMA ClientSteps ==
  ASSUME CallInv, NEW k \in Calls,
         call[k].pc \in {"add", "added", "disconnect", "disconnected"},
         NEW p \in {"added", "request", "disconnected", "close"}, Step(k, p)
  PROVE  /\ Only(k) /\ Shape(call'[k], Len(objs), published, alive, Up)
         /\ call'[k].pc = p /\ call'[k].cl = call[k].cl /\ call'[k].op = call[k].op
         /\ call'[k].open = call[k].open /\ call[k].op # "Stream"
  <1>1. call[k].pc # "none" /\ call[k].pc \in ClientSide /\ p \in ClientSide \cup ServerSide
        /\ p \notin ServerSide /\ p \notin {"mark", "reply"} /\ p # "register"
    BY DEF ClientSide, ServerSide
  <1>2. /\ Only(k) /\ call'[k] \in CallType(Len(objs), published) /\ call'[k].pc = p
        /\ call'[k].op = call[k].op /\ call'[k].cl = call[k].cl
        /\ call'[k].q = call[k].q /\ call'[k].id = call[k].id
        /\ call'[k].open = call[k].open
    BY <1>1, Stepped
  <1>3. /\ call[k].q = 0 /\ call[k].id = 0 /\ call[k].op # "Stream"
        /\ call[k].open => call[k].cl \in alive
    BY <1>1, Progress
  <1> QED
    BY <1>1, <1>2, <1>3, Zenon DEF Shape

\* A call ends, or goes on to the closing of the connection.
Leaves(k) ==
    /\ Only(k) /\ Shape(call'[k], Len(objs), published, alive, Up)
    /\ call'[k].pc \in {"none", "close"}

\* A call that ends leaves, ...
LEMMA EndsLeaves ==
  ASSUME CallInv, NEW k \in Calls, Ends(k)
  PROVE  Leaves(k)
  <1>1. Only(k) /\ call'[k] = NoCall
    BY OneCall DEF Ends
  <1>2. NoCall.pc = "none"
    BY NoCallFields
  <1> QED
    BY <1>1, <1>2 DEF Leaves, Shape

\* ... and so does a Close that goes on to conn.Close.
LEMMA AfterDisconnectLeaves ==
  ASSUME CallInv, NEW k \in Calls, call[k].pc \in {"disconnect", "disconnected"},
         AfterDisconnect(k)
  PROVE  Leaves(k)
  <1>1. CASE Ends(k)
    BY <1>1, EndsLeaves
  <1>2. CASE Step(k, "close")
    <2>1. /\ Only(k) /\ Shape(call'[k], Len(objs), published, alive, Up)
          /\ call'[k].pc = "close"
      BY <1>2, ClientSteps
    <2> QED
      BY <2>1 DEF Leaves
  <1> QED
    BY <1>1, <1>2 DEF AfterDisconnect

\* Dropping and the witnesses are what they were, but for call k.
LEMMA LeavesKnown ==
  ASSUME IInv, KnownInv, NEW k \in Calls, Leaves(k),
         \A cl \in cached : ~Dropping(cl) => cl \in cached',
         RegisteredConsumers' \ forgotten' \subseteq RegisteredConsumers \ forgotten,
         Witness(k) => Consumer(k) \notin RegisteredConsumers' \ forgotten'
  PROVE  KnownInv'
  <1>1. \A j \in Calls \ {k} : call'[j] = call[j]
    BY OtherCalls DEF Leaves, IInv
  <1>2. \A cl : Dropping(cl)' => Dropping(cl)
    BY <1>1 DEF Leaves, Dropping, At
  <1>3. ASSUME NEW c \in RegisteredConsumers' \ forgotten', NEW j \in Calls,
               Witness(j), Consumer(j) = c
        PROVE  Witness(j)' /\ Consumer(j)' = c
    <2>1. j # k
      BY <1>3
    <2> QED
      BY <1>1, <1>2, <1>3, <2>1, SameCall
  <1> QED
    BY <1>2, <1>3, KnownKept

\* Nobody is let in by leaving.
LEMMA LeavesToken ==
  ASSUME IInv, TokenInv, NEW k \in Calls, Leaves(k), UNCHANGED lifeVars,
         RegisteredConsumers' \subseteq RegisteredConsumers
  PROVE  TokenInv'
  BY TokenKept DEF Leaves, ServerSide

\* A call that leaves while its client's part of the state and the memory
\* stay as they are.
LEMMA LeavesKeeps ==
  ASSUME IInv, NEW k \in Calls, Leaves(k), ~Witness(k) \/ RegisteredConsumers = {},
         UNCHANGED <<lifeVars, broker, client, forgotten>>
  PROVE  Keeps
  <1>1. MemoryInv' /\ Len(objs') = Len(objs) /\ RegisteredConsumers' = RegisteredConsumers
    BY MemoryKept DEF IInv
  <1>2. /\ published' = published /\ alive' = alive /\ cached' = cached /\ held' = held
        /\ suspect' = suspect /\ forgotten' = forgotten
    BY DEF broker, client
  <1>3. ClientInv'
    BY <1>2 DEF IInv, ClientInv
  <1>4. IInv'
    BY <1>1, <1>2, <1>3, TypesKept DEF Leaves
  <1>5. TokenInv => TokenInv'
    BY <1>1, LeavesToken
  <1>6. KnownInv => KnownInv'
    BY <1>1, <1>2, LeavesKnown
  <1> QED
    BY <1>4, <1>5, <1>6 DEF Keeps

\* The request does not arrive.
LEMMA RefusedStep ==
  ASSUME IInv, NEW k \in Calls, Refused(k)
  PROVE  Keeps
  <1>1. UNCHANGED <<lifeVars, broker, client, forgotten>>
    BY DEF Refused
  <1>2. call[k].pc \in {"add", "request", "register", "disconnect"}
        /\ (Ends(k) \/ (At(k, "disconnect") /\ AfterDisconnect(k)))
    BY DEF Refused, At
  <1>3. Leaves(k)
    BY <1>2, EndsLeaves, AfterDisconnectLeaves DEF IInv, At
  <1>4. ~Witness(k)
    BY <1>2 DEF Witness, Streaming, At, ServerSide
  <1> QED
    BY <1>1, <1>3, <1>4, LeavesKeeps

\* An empty registry has no consumers.
LEMMA Unregistered ==
  ASSUME registered = 0
  PROVE  RegisteredConsumers = {}
  BY DEF RegisteredConsumers

\* WithConsumer on the queue that has the name.
LEMMA Joins ==
  ASSUME IInv, NEW k \in Calls, call[k].pc # "none", registered # 0,
         objs' = [objs EXCEPT ![registered] = WithConsumer(objs[registered], Consumer(k))],
         UNCHANGED <<lifeVars, registered, table, published>>
  PROVE  /\ MemoryInv' /\ Len(objs') = Len(objs)
         /\ RegisteredConsumers' = RegisteredConsumers \cup {Consumer(k)}
  <1>1. Consumer(k) \in Consumers
    BY Progress DEF IInv
  <1>2. /\ Current \in GoodQueues(published, MaxInFlight) /\ MaxInFlight \in Nat \ {0}
        /\ RegisteredConsumers = Current.Consumers /\ published \in Nat
    BY Registered, Bounds DEF IInv
  <1>3. Becomes(WithConsumer(Current, Consumer(k)), published, MaxInFlight,
                Current.Consumers \cup {Consumer(k)})
    BY <1>1, <1>2, WithConsumerGood
  <1> QED
    BY <1>2, <1>3, Replaced DEF IInv, Current

\* The client's part is left alone.
LEMMA ClientKept ==
  ASSUME IInv, UNCHANGED <<client, forgotten, published>>
  PROVE  ClientInv' /\ alive' = alive /\ cached' = cached /\ forgotten' = forgotten
  BY DEF IInv, ClientInv, client

\* The handler of AddConsumer: its answer, under way, is the new witness.
LEMMA AddConsumerStep ==
  ASSUME IInv, NEW k \in Calls, AddConsumer(k)
  PROVE  Keeps
  <1>1. /\ At(k, "add") /\ Unary(call[k].cl)
        /\ UNCHANGED <<lifeVars, registered, table, published, client>>
    BY DEF AddConsumer
  <1>2. CASE registered = 0
    <2>1. Ends(k) /\ UNCHANGED <<lifeVars, broker, client, forgotten>>
      BY <1>1, <1>2 DEF AddConsumer, broker
    <2> QED
      BY <1>2, <2>1, Unregistered, EndsLeaves, LeavesKeeps DEF IInv
  <1>3. CASE registered # 0
    <2>1. /\ objs' = [objs EXCEPT ![registered] = WithConsumer(objs[registered], Consumer(k))]
          /\ Step(k, "added")
          /\ forgotten' = IF Dropping(call[k].cl) THEN forgotten \cup {Consumer(k)}
                                                 ELSE forgotten
      BY <1>3 DEF AddConsumer
    <2>2. call[k].pc # "none" /\ call[k].cl \in Clients
      BY <1>1, Progress DEF At, IInv
    <2>3. /\ MemoryInv' /\ Len(objs') = Len(objs)
          /\ RegisteredConsumers' = RegisteredConsumers \cup {Consumer(k)}
      BY <1>1, <1>3, <2>1, <2>2, Joins
    <2>4. /\ Only(k) /\ Shape(call'[k], Len(objs), published, alive, Up)
          /\ call'[k].pc = "added" /\ call'[k].cl = call[k].cl /\ call'[k].op = call[k].op
          /\ call'[k].open = call[k].open
      BY <1>1, <2>1, ClientSteps DEF IInv, At
    <2>5. ClientInv' /\ alive' = alive /\ cached' = cached
      <3>1. Consumer(k) \in Consumers
        BY <1>1, Progress DEF IInv, At
      <3> QED
        BY <1>1, <2>1, <3>1 DEF IInv, ClientInv, client
    <2>6. IInv'
      BY <1>1, <2>3, <2>4, <2>5, TypesKept
    <2>7. TokenInv => TokenInv'
      <3>1. ConsumerOf[call[k].cl] = Consumer(k) /\ authorize(call[k].cl)
        BY <1>1 DEF Consumer, Unary
      <3> QED
        BY <1>1, <2>2, <2>3, <2>4, <3>1, TokenKept DEF ServerSide
    <2>8. ASSUME KnownInv PROVE KnownInv'
      <3>1. \A j \in Calls \ {k} : call'[j] = call[j]
        BY <2>4, OtherCalls DEF IInv
      <3>2. \A cl : Dropping(cl)' => Dropping(cl)
        BY <2>4, <3>1 DEF Dropping, At
      <3>3. ASSUME NEW c, c = Consumer(k), c \notin forgotten'
            PROVE  Known(c)'
        <4>1. PICK cl : cl = call[k].cl
          BY Zenon
        <4>2. ~Dropping(cl)
          BY <2>1, <3>3, <4>1
        <4>3. ~Dropping(cl)'
          BY <3>2, <4>2
        <4>4. ~Dropping(call[k].cl)'
          BY <2>4, <4>1, <4>3 DEF Dropping, At
        <4>5. Witness(k)' /\ Consumer(k)' = c
          BY <2>4, <3>3, <4>4 DEF Witness, At, Consumer
        <4> QED
          BY <4>5 DEF Known
      <3>4. ASSUME NEW c \in RegisteredConsumers' \ forgotten', c # Consumer(k)
            PROVE  /\ c \in RegisteredConsumers \ forgotten
                   /\ \A j \in Calls : Witness(j) /\ Consumer(j) = c
                                         => Witness(j)' /\ Consumer(j)' = c
        BY <2>1, <2>3, <3>1, <3>2, <3>4, SameCall
      <3> QED
        BY <2>5, <2>8, <3>2, <3>3, <3>4, KnownKept
    <2> QED
      BY <2>6, <2>7, <2>8 DEF Keeps
  <1> QED
    BY <1>2, <1>3

\* The handler of StreamFetch registers: it is the witness from now on.
LEMMA StreamRegistersStep ==
  ASSUME IInv, NEW k \in Calls, StreamRegisters(k)
  PROVE  Keeps
  <1>1. /\ At(k, "register") /\ Stream(call[k].cl)
        /\ UNCHANGED <<lifeVars, registered, table, published, client, forgotten>>
    BY DEF StreamRegisters
  <1>2. CASE registered = 0
    <2>1. Ends(k) /\ UNCHANGED <<lifeVars, broker, client, forgotten>>
      BY <1>1, <1>2 DEF StreamRegisters, broker
    <2> QED
      BY <1>2, <2>1, Unregistered, EndsLeaves, LeavesKeeps DEF IInv
  <1>3. CASE registered # 0
    <2>1. /\ objs' = [objs EXCEPT ![registered] = WithConsumer(objs[registered], Consumer(k))]
          /\ Step(k, "lookup")
      BY <1>3 DEF StreamRegisters
    <2>2. /\ call[k].pc # "none" /\ call[k].cl \in Clients /\ call[k].op = "Stream"
          /\ call[k].open => call[k].cl \in alive
      BY <1>1, Progress DEF At, IInv
    <2>3. /\ MemoryInv' /\ Len(objs') = Len(objs)
          /\ RegisteredConsumers' = RegisteredConsumers \cup {Consumer(k)}
      BY <1>1, <1>3, <2>1, <2>2, Joins
    <2>4. /\ "lookup" \in ServerSide /\ "lookup" \notin ClientSide /\ "lookup" # "register"
          /\ "lookup" \notin {"mark", "reply"}
          /\ "lookup" \notin {"add", "added", "disconnect", "disconnected"}
      BY DEF ServerSide, ClientSide
    <2>5. /\ Only(k) /\ call'[k] \in CallType(Len(objs), published) /\ call'[k].pc = "lookup"
          /\ call'[k].op = call[k].op /\ call'[k].cl = call[k].cl
          /\ call'[k].open = call[k].open
      BY <2>1, <2>2, <2>4, Stepped DEF IInv
    <2>6. Up
      BY <1>1 DEF Stream, Up
    <2>7. Shape(call'[k], Len(objs), published, alive, Up)
      BY <2>2, <2>4, <2>5, <2>6, Zenon DEF Shape
    <2>8. ClientInv' /\ alive' = alive /\ cached' = cached /\ forgotten' = forgotten
      BY <1>1, ClientKept
    <2>9. IInv'
      BY <1>1, <2>3, <2>5, <2>7, <2>8, TypesKept
    <2>10. TokenInv => TokenInv'
      <3>1. ConsumerOf[call[k].cl] = Consumer(k) /\ authorize(call[k].cl)
        BY <1>1 DEF Consumer, Stream
      <3> QED
        BY <1>1, <2>2, <2>3, <2>5, <3>1, TokenKept
    <2>11. ASSUME KnownInv PROVE KnownInv'
      <3>1. \A j \in Calls \ {k} : call'[j] = call[j]
        BY <2>5, OtherCalls DEF IInv
      <3>2. \A cl : Dropping(cl)' => Dropping(cl)
        BY <2>5, <3>1 DEF Dropping, At
      <3>3. Witness(k)' /\ Consumer(k)' = Consumer(k)
        BY <2>2, <2>4, <2>5 DEF Witness, Streaming, Consumer
      <3>4. Known(Consumer(k))'
        BY <3>3 DEF Known
      <3>5. ASSUME NEW c \in RegisteredConsumers' \ forgotten', c # Consumer(k)
            PROVE  /\ c \in RegisteredConsumers \ forgotten
                   /\ \A j \in Calls : Witness(j) /\ Consumer(j) = c
                                         => Witness(j)' /\ Consumer(j)' = c
        BY <2>3, <2>8, <3>1, <3>2, <3>5, SameCall
      <3> QED
        BY <2>8, <2>11, <3>2, <3>3, <3>4, <3>5, KnownKept
    <2> QED
      BY <2>9, <2>10, <2>11 DEF Keeps
  <1> QED
    BY <1>2, <1>3

\* The entry of the map takes over from the answer.
LEMMA AddedStep ==
  ASSUME IInv, NEW k \in Calls, Added(k)
  PROVE  Keeps
  <1>1. /\ At(k, "added") /\ call[k].open /\ cached' = cached \cup {call[k].cl}
        /\ Step(k, "request")
        /\ UNCHANGED <<lifeVars, broker, alive, held, suspect, forgotten>>
    BY DEF Added
  <1>2. MemoryInv' /\ Len(objs') = Len(objs) /\ RegisteredConsumers' = RegisteredConsumers
    BY <1>1, MemoryKept DEF IInv
  <1>3. /\ Only(k) /\ Shape(call'[k], Len(objs), published, alive, Up)
        /\ call'[k].pc = "request" /\ call'[k].cl = call[k].cl /\ call'[k].op = call[k].op
        /\ call'[k].open = call[k].open /\ call[k].op # "Stream"
    BY <1>1, ClientSteps DEF IInv, At
  <1>4. call[k].cl \in alive
    BY <1>1, Progress DEF IInv, At
  <1>5. published' = published /\ ClientInv'
    BY <1>1, <1>4 DEF IInv, ClientInv, broker
  <1>6. IInv'
    BY <1>1, <1>2, <1>3, <1>5, TypesKept
  <1>7. TokenInv => TokenInv'
    BY <1>1, <1>2, <1>3, TokenKept DEF ServerSide
  <1>8. ASSUME KnownInv PROVE KnownInv'
    <2>1. \A j \in Calls \ {k} : call'[j] = call[j]
      BY <1>3, OtherCalls DEF IInv
    <2>2. \A cl : Dropping(cl)' => Dropping(cl)
      BY <1>3, <2>1 DEF Dropping, At
    <2>3. ASSUME NEW c, c = Consumer(k), Witness(k)
          PROVE  Known(c)'
      <3>1. PICK cl : cl = call[k].cl
        BY Zenon
      <3>2. ~Dropping(cl)
        BY <1>1, <1>3, <2>3, <3>1 DEF Witness, Streaming
      <3>3. cl \in cached' /\ ConsumerOf[cl] = c /\ ~Dropping(cl)'
        BY <1>1, <2>2, <2>3, <3>1, <3>2 DEF Consumer
      <3> QED
        BY <3>3 DEF Known
    <2>4. ASSUME NEW c \in RegisteredConsumers' \ forgotten', c # Consumer(k) \/ ~Witness(k)
          PROVE  /\ c \in RegisteredConsumers \ forgotten
                 /\ \A j \in Calls : Witness(j) /\ Consumer(j) = c
                                       => Witness(j)' /\ Consumer(j)' = c
      BY <1>1, <1>2, <2>1, <2>2, <2>4, SameCall
    <2> QED
      BY <1>1, <1>8, <2>2, <2>3, <2>4, KnownKept
  <1> QED
    BY <1>6, <1>7, <1>8 DEF Keeps

\* The answer is lost, and the registration with it.
LEMMA AddedUnheardStep ==
  ASSUME IInv, NEW k \in Calls, AddedUnheard(k)
  PROVE  Keeps
  <1>1. /\ At(k, "added") /\ Ends(k) /\ UNCHANGED <<lifeVars, broker, client>>
        /\ forgotten' = forgotten \cup ({Consumer(k)} \cap RegisteredConsumers)
    BY DEF AddedUnheard
  <1>2. MemoryInv' /\ Len(objs') = Len(objs) /\ RegisteredConsumers' = RegisteredConsumers
    BY <1>1, MemoryKept DEF IInv
  <1>3. Leaves(k)
    BY <1>1, EndsLeaves DEF IInv
  <1>4. Consumer(k) \in Consumers
    BY <1>1, Progress DEF IInv, At
  <1>5. /\ published' = published /\ alive' = alive /\ cached' = cached
        /\ held' = held /\ suspect' = suspect
    BY <1>1 DEF broker, client
  <1>6. ClientInv'
    BY <1>1, <1>4, <1>5 DEF IInv, ClientInv
  <1>7. IInv'
    BY <1>1, <1>2, <1>3, <1>5, <1>6, TypesKept DEF Leaves
  <1>8. TokenInv => TokenInv'
    BY <1>1, <1>2, <1>3, LeavesToken
  <1>9. KnownInv => KnownInv'
    BY <1>1, <1>2, <1>3, <1>5, LeavesKnown
  <1> QED
    BY <1>7, <1>8, <1>9 DEF Keeps

\* DisconnectConsumer on the queue that has the name.
LEMMA DisconnectsOne ==
  ASSUME IInv, registered # 0, NEW c, Disconnects(c),
         UNCHANGED <<lifeVars, registered, table, published, client>>
  PROVE  /\ MemoryInv' /\ Len(objs') = Len(objs)
         /\ RegisteredConsumers' = RegisteredConsumers \ {c}
         /\ forgotten' = forgotten \ {c} /\ ClientInv'
         /\ alive' = alive /\ cached' = cached
  <1>1. PICK order \in ReturnOrders(Current, c) :
           objs' = [objs EXCEPT ![registered] = Disconnected(objs[registered], c, order)]
    BY DEF Disconnects
  <1>2. /\ Current \in GoodQueues(published, MaxInFlight) /\ MaxInFlight \in Int
        /\ RegisteredConsumers = Current.Consumers /\ published \in Nat
    BY Registered, Bounds DEF IInv
  <1>3. Becomes(Disconnected(Current, c, order), published, MaxInFlight, Current.Consumers \ {c})
    BY <1>2, DisconnectedGood
  <1>4. /\ MemoryInv' /\ Len(objs') = Len(objs)
        /\ RegisteredConsumers' = RegisteredConsumers \ {c}
    BY <1>1, <1>2, <1>3, Replaced DEF IInv, Current
  <1>5. forgotten' = forgotten \ {c} /\ ClientInv' /\ alive' = alive /\ cached' = cached
    BY DEF Disconnects, IInv, ClientInv, client
  <1> QED
    BY <1>4, <1>5

\* The deferred DisconnectConsumer takes the consumer off with its witness.
LEMMA DeferredStep ==
  ASSUME IInv, NEW k \in Calls, Deferred(k)
  PROVE  Keeps
  <1>1. Ends(k) /\ UNCHANGED <<lifeVars, registered, table, published, client>>
    BY DEF Deferred
  <1>2. Leaves(k)
    BY <1>1, EndsLeaves DEF IInv
  <1>3. CASE registered = 0
    <2>1. UNCHANGED <<lifeVars, broker, client, forgotten>>
      BY <1>1, <1>3 DEF Deferred, broker
    <2> QED
      BY <1>2, <1>3, <2>1, Unregistered, LeavesKeeps
  <1>4. CASE registered # 0
    <2>1. /\ MemoryInv' /\ Len(objs') = Len(objs)
          /\ RegisteredConsumers' = RegisteredConsumers \ {Consumer(k)}
          /\ forgotten' = forgotten \ {Consumer(k)} /\ ClientInv'
          /\ alive' = alive /\ cached' = cached
      BY <1>1, <1>4, DisconnectsOne DEF Deferred
    <2>2. IInv'
      BY <1>1, <1>2, <2>1, TypesKept DEF Leaves
    <2>3. TokenInv => TokenInv'
      BY <1>1, <1>2, <2>1, LeavesToken
    <2>4. KnownInv => KnownInv'
      BY <1>2, <2>1, LeavesKnown
    <2> QED
      BY <2>2, <2>3, <2>4 DEF Keeps
  <1> QED
    BY <1>3, <1>4

\* DisconnectConsumer: the consumer is off before the entry of the map is dropped.
LEMMA onDisconnectConsumerStep ==
  ASSUME IInv, NEW k \in Calls, onDisconnectConsumer(k)
  PROVE  Keeps
  <1>1. /\ At(k, "disconnect")
        /\ UNCHANGED <<lifeVars, registered, table, published, client>>
    BY DEF onDisconnectConsumer
  <1>2. CASE registered = 0
    <2>1. AfterDisconnect(k) /\ UNCHANGED <<lifeVars, broker, client, forgotten>>
      BY <1>1, <1>2 DEF onDisconnectConsumer, broker
    <2>2. Leaves(k)
      BY <1>1, <2>1, AfterDisconnectLeaves DEF IInv, At
    <2> QED
      BY <1>2, <2>1, <2>2, Unregistered, LeavesKeeps
  <1>3. CASE registered # 0 /\ Step(k, "disconnected")
    <2>1. /\ MemoryInv' /\ Len(objs') = Len(objs)
          /\ RegisteredConsumers' = RegisteredConsumers \ {Consumer(k)}
          /\ forgotten' = forgotten \ {Consumer(k)} /\ ClientInv'
          /\ alive' = alive /\ cached' = cached
      BY <1>1, <1>3, DisconnectsOne DEF onDisconnectConsumer
    <2>2. /\ Only(k) /\ Shape(call'[k], Len(objs), published, alive, Up)
          /\ call'[k].pc = "disconnected" /\ call'[k].cl = call[k].cl
          /\ call'[k].op = call[k].op /\ call'[k].open = call[k].open
      BY <1>1, <1>3, ClientSteps DEF IInv, At
    <2>3. IInv'
      BY <1>1, <2>1, <2>2, TypesKept
    <2>4. TokenInv => TokenInv'
      BY <1>1, <2>1, <2>2, TokenKept DEF ServerSide
    <2>5. ASSUME KnownInv PROVE KnownInv'
      <3>1. \A j \in Calls \ {k} : call'[j] = call[j]
        BY <2>2, OtherCalls DEF IInv
      <3>2. \A cl : cl # call[k].cl /\ Dropping(cl)' => Dropping(cl)
        BY <2>2, <3>1 DEF Dropping, At
      <3>3. \A cl : ConsumerOf[cl] \in RegisteredConsumers' => cl # call[k].cl
        BY <2>1 DEF Consumer
      <3>4. ASSUME NEW c \in RegisteredConsumers', NEW j \in Calls, Witness(j), Consumer(j) = c
            PROVE  Witness(j)' /\ Consumer(j)' = c
        <4>1. j # k
          BY <1>1, <3>4 DEF Witness, Streaming, At, ServerSide
        <4>2. PICK cl : cl = call[j].cl
          BY Zenon
        <4>3. cl # call[k].cl
          BY <3>3, <3>4, <4>2 DEF Consumer
        <4>4. ~Dropping(cl) => ~Dropping(cl)'
          BY <3>2, <4>3
        <4>5. /\ Dropping(call[j].cl) <=> Dropping(cl)
              /\ Dropping(call[j].cl)' <=> Dropping(cl)'
          BY <3>1, <4>1, <4>2 DEF Dropping, At
        <4> QED
          BY <3>1, <3>4, <4>1, <4>4, <4>5 DEF Witness, Streaming, At, Consumer
      <3>5. RegisteredConsumers' \ forgotten' \subseteq RegisteredConsumers \ forgotten
        BY <2>1
      <3> QED
        BY <2>1, <2>5, <3>2, <3>3, <3>4, <3>5, KnownKept
    <2> QED
      BY <2>3, <2>4, <2>5 DEF Keeps
  <1>4. CASE registered # 0 /\ AfterDisconnect(k)
    <2>1. /\ MemoryInv' /\ Len(objs') = Len(objs)
          /\ RegisteredConsumers' = RegisteredConsumers \ {Consumer(k)}
          /\ forgotten' = forgotten \ {Consumer(k)} /\ ClientInv'
          /\ alive' = alive /\ cached' = cached
      BY <1>1, <1>4, DisconnectsOne DEF onDisconnectConsumer
    <2>2. Leaves(k)
      BY <1>1, <1>4, AfterDisconnectLeaves DEF IInv, At
    <2>3. IInv'
      BY <1>1, <2>1, <2>2, TypesKept DEF Leaves
    <2>4. TokenInv => TokenInv'
      BY <1>1, <2>1, <2>2, LeavesToken
    <2>5. KnownInv => KnownInv'
      BY <2>1, <2>2, LeavesKnown
    <2> QED
      BY <2>3, <2>4, <2>5 DEF Keeps
  <1> QED
    BY <1>2, <1>3, <1>4 DEF onDisconnectConsumer

\* The entry goes; nobody counted on it, by Dropping.
LEMMA CacheDroppedStep ==
  ASSUME IInv, NEW k \in Calls, CacheDropped(k)
  PROVE  Keeps
  <1>1. /\ At(k, "disconnected") /\ AfterDisconnect(k)
        /\ UNCHANGED <<lifeVars, broker, alive, held, forgotten>>
        /\ cached' = cached \/ (call[k].open /\ cached' = cached \ {call[k].cl})
        /\ suspect' \subseteq suspect
    BY DEF CacheDropped
  <1>2. MemoryInv' /\ Len(objs') = Len(objs) /\ RegisteredConsumers' = RegisteredConsumers
    BY <1>1, MemoryKept DEF IInv
  <1>3. Leaves(k)
    BY <1>1, AfterDisconnectLeaves DEF IInv, At
  <1>4. published' = published /\ ClientInv'
    BY <1>1 DEF IInv, ClientInv, broker
  <1>5. IInv'
    BY <1>1, <1>2, <1>3, <1>4, TypesKept DEF Leaves
  <1>6. TokenInv => TokenInv'
    BY <1>1, <1>2, <1>3, LeavesToken
  <1>7. \A cl \in cached : ~Dropping(cl) => cl \in cached'
    BY <1>1 DEF Dropping
  <1>8. ~Witness(k)
    BY <1>1 DEF Witness, Streaming, At, ServerSide
  <1>9. KnownInv => KnownInv'
    BY <1>1, <1>2, <1>3, <1>7, <1>8, LeavesKnown
  <1> QED
    BY <1>5, <1>6, <1>9 DEF Keeps

\* The context of a call is done.
LEMMA Unheard ==
  ASSUME CallInv, NEW k \in Calls, call[k] # NoCall, NEW al,
         NEW d, d = [call[k] EXCEPT !.open = FALSE]
  PROVE  /\ Shape(d, Len(objs), published, al, Up)
         /\ d.op = call[k].op /\ d.cl = call[k].cl /\ d.pc = call[k].pc /\ d.open = FALSE
  <1>1. Shape(call[k], Len(objs), published, alive, Up)
    BY DEF CallInv
  <1>2. call[k] \in CallType(Len(objs), published)
    BY <1>1 DEF Shape
  <1>3. /\ d \in CallType(Len(objs), published)
        /\ d.op = call[k].op /\ d.cl = call[k].cl /\ d.pc = call[k].pc
        /\ d.q = call[k].q /\ d.id = call[k].id /\ d.open = FALSE
    BY <1>2, Zenon DEF CallType
  <1> QED
    BY <1>1, <1>3, Zenon DEF Shape

\* A call that keeps its place, or ends where it was of no account.
Stays(j) ==
    \/ /\ call'[j].op = call[j].op /\ call'[j].cl = call[j].cl
       /\ call'[j].pc = call[j].pc /\ (call'[j].open => call[j].open)
    \/ call'[j] = NoCall /\ ~Witness(j)

\* A step that cancels or ends calls that are no witnesses.
LEMMA StaysKnown ==
  ASSUME KnownInv, \A j \in Calls : Stays(j),
         \A cl \in cached :
            cl \in cached' \/ ConsumerOf[cl] \notin RegisteredConsumers' \ forgotten',
         RegisteredConsumers' \ forgotten' \subseteq RegisteredConsumers \ forgotten
  PROVE  KnownInv'
  <1>1. \A cl : Dropping(cl)' => Dropping(cl)
    BY NoCallFields DEF Dropping, At, Stays
  <1>2. ASSUME NEW j \in Calls, Witness(j)
        PROVE  Witness(j)' /\ Consumer(j)' = Consumer(j)
    <2>1. call'[j].op = call[j].op /\ call'[j].cl = call[j].cl /\ call'[j].pc = call[j].pc
      BY <1>2 DEF Stays
    <2>2. PICK cl : cl = call[j].cl
      BY Zenon
    <2>3. ~Dropping(cl) => ~Dropping(cl)'
      BY <1>1
    <2>4. (Dropping(call[j].cl) <=> Dropping(cl)) /\ (Dropping(call[j].cl)' <=> Dropping(cl)')
      BY <2>1, <2>2 DEF Dropping, At
    <2> QED
      BY <1>2, <2>1, <2>3, <2>4 DEF Witness, Streaming, At, Consumer
  <1> QED
    BY <1>1, <1>2, KnownKept

\* A context is cancelled or a connection breaks.
LEMMA CancelStep ==
  ASSUME IInv, NEW k \in Calls, Cancel(k)
  PROVE  Keeps
  <1>1. call[k].open /\ UNCHANGED <<lifeVars, broker, client, forgotten>>
    BY DEF Cancel
  <1>2. Only(k) /\ call'[k] = [call[k] EXCEPT !.open = FALSE]
    BY OneCall DEF Cancel, IInv
  <1>3. Shape(call[k], Len(objs), published, alive, Up) /\ call[k] # NoCall
    BY <1>1, NoCallFields DEF IInv, CallInv
  <1>4. /\ Shape(call'[k], Len(objs), published, alive, Up)
        /\ call'[k].op = call[k].op /\ call'[k].cl = call[k].cl /\ call'[k].pc = call[k].pc
        /\ call'[k].open = FALSE
    BY <1>2, <1>3, Unheard DEF IInv
  <1>5. MemoryInv' /\ Len(objs') = Len(objs) /\ RegisteredConsumers' = RegisteredConsumers
    BY <1>1, MemoryKept DEF IInv
  <1>6. /\ ClientInv' /\ alive' = alive /\ cached' = cached /\ forgotten' = forgotten
        /\ published' = published
    BY <1>1, ClientKept DEF broker
  <1>7. IInv'
    BY <1>1, <1>2, <1>4, <1>5, <1>6, TypesKept
  <1>8. TokenInv => TokenInv'
    BY <1>1, <1>2, <1>4, <1>5, TokenKept DEF TokenInv
  <1>9. KnownInv => KnownInv'
    <2>1. \A j \in Calls \ {k} : call'[j] = call[j]
      BY <1>2, OtherCalls DEF IInv
    <2>2. \A j \in Calls : Stays(j)
      BY <1>4, <2>1, Zenon DEF Stays
    <2> QED
      BY <1>5, <1>6, <2>2, StaysKnown
  <1> QED
    BY <1>7, <1>8, <1>9 DEF Keeps

\* The four methods of Client begin.
LEMMA BeginStep ==
  ASSUME IInv, NEW k \in Calls, NEW cl \in Clients,
         NEW op \in {"Fetch", "Stream", "Disconnect", "Close"},
         NEW pc \in {"request", "add", "register", "disconnect", "close"},
         pc = "register" <=> op = "Stream",
         Begin(k, cl, op, pc), UNCHANGED <<lifeVars, broker, client, forgotten>>
  PROVE  Keeps
  <1> DEFINE c == [op |-> op, cl |-> cl, pc |-> pc, q |-> 0, id |-> 0, open |-> TRUE]
  <1>1. cl \in alive /\ call[k] = NoCall /\ call' = [call EXCEPT ![k] = c]
    BY DEF Begin, Idle
  <1>2. c.op = op /\ c.cl = cl /\ c.pc = pc /\ c.q = 0 /\ c.id = 0 /\ c.open = TRUE
    OBVIOUS
  <1>3. 0 \in 0..Len(objs) /\ 0 \in 0..published /\ pc \in ClientSide \cup ServerSide
        /\ pc \notin ServerSide /\ TRUE \in BOOLEAN
    BY Bounds DEF IInv, ClientSide, ServerSide
  <1>4. c \in CallType(Len(objs), published)
    BY <1>3, Zenon DEF CallType
  <1> HIDE DEF c
  <1>5. Shape(c, Len(objs), published, alive, Up)
    <2>1. pc \notin {"mark", "reply"}
          /\ (pc \in {"add", "added", "disconnect", "disconnected"} => op # "Stream")
      OBVIOUS
    <2> QED
      BY <1>1, <1>2, <1>3, <1>4, <2>1, Zenon DEF Shape
  <1>6. Only(k) /\ call'[k] = c
    BY <1>1, OneCall DEF IInv
  <1>7. MemoryInv' /\ Len(objs') = Len(objs) /\ RegisteredConsumers' = RegisteredConsumers
    BY MemoryKept DEF IInv
  <1>8. /\ ClientInv' /\ alive' = alive /\ cached' = cached /\ forgotten' = forgotten
        /\ published' = published
    BY ClientKept DEF broker
  <1>9. IInv'
    BY <1>5, <1>6, <1>7, <1>8, TypesKept
  <1>10. TokenInv => TokenInv'
    BY <1>2, <1>3, <1>6, <1>7, TokenKept
  <1>11. ASSUME KnownInv PROVE KnownInv'
    <2>1. \A j \in Calls \ {k} : call'[j] = call[j]
      BY <1>6, OtherCalls DEF IInv
    <2>2. \A d : Dropping(d)' => Dropping(d)
      BY <1>2, <1>6, <2>1 DEF Dropping, At
    <2>3. ~Witness(k)
      BY <1>1, NoCallFields DEF Witness, Streaming, At, ServerSide
    <2>4. \A j \in Calls : Witness(j) => Witness(j)' /\ Consumer(j)' = Consumer(j)
      BY <2>1, <2>2, <2>3, SameCall
    <2> QED
      BY <1>7, <1>8, <1>11, <2>2, <2>4, KnownKept
  <1> QED
    BY <1>9, <1>10, <1>11 DEF Keeps

\* The client and its connection are gone.
LEMMA Hangs ==
  ASSUME IInv, NEW cl \in Clients, NEW j \in Calls, call'[j] = HungUp(cl)[j],
         alive' = alive \ {cl}
  PROVE  /\ Shape(call'[j], Len(objs), published, alive', Up)
         /\ call'[j].op = call[j].op /\ call'[j].cl = call[j].cl
         /\ call'[j].pc = call[j].pc /\ (call'[j].open => call[j].open)
  <1>1. call'[j] = IF call[j].cl = cl THEN [call[j] EXCEPT !.open = FALSE] ELSE call[j]
    BY DEF HungUp
  <1>2. Shape(call[j], Len(objs), published, alive, Up)
    BY DEF IInv, CallInv
  <1>3. CASE call[j] = NoCall
    <2>1. [NoCall EXCEPT !.open = FALSE] = NoCall
      <3> DEFINE T == [op : {"none"}, cl : {NoConsumer}, pc : {"none"}, q : {0}, id : {0},
                       open : BOOLEAN]
      <3>1. \A r \in T : r.open = FALSE => [r EXCEPT !.open = FALSE] = r
        OBVIOUS
      <3>2. NoCall \in T /\ NoCall.open = FALSE
        BY DEF NoCall
      <3> QED
        BY <3>1, <3>2
    <2>2. call'[j] = NoCall
      BY <1>1, <1>3, <2>1
    <2> QED
      BY <1>3, <2>2 DEF Shape
  <1>4. CASE call[j] # NoCall /\ call[j].cl = cl
    <2>1. call'[j] = [call[j] EXCEPT !.open = FALSE]
      BY <1>1, <1>4
    <2>2. /\ Shape(call'[j], Len(objs), published, alive', Up)
          /\ call'[j].op = call[j].op /\ call'[j].cl = call[j].cl
          /\ call'[j].pc = call[j].pc /\ call'[j].open = FALSE
      BY <1>4, <2>1, Unheard DEF IInv
    <2> QED
      BY <2>2
  <1>5. CASE call[j] # NoCall /\ call[j].cl # cl
    <2>1. call'[j] = call[j] /\ (call[j].cl \in alive => call[j].cl \in alive')
      BY <1>1, <1>5
    <2>2. Shape(call[j], Len(objs), published, alive', Up)
      BY <1>2, <1>5, <2>1, Zenon DEF Shape
    <2> QED
      BY <2>1, <2>2
  <1> QED
    BY <1>3, <1>4, <1>5

\* A client goes; what it knew is forgotten.
LEMMA GoneKeeps ==
  ASSUME IInv, NEW cl \in Clients, Gone(cl), call' = [j \in Calls |-> call'[j]],
         \A j \in Calls : call'[j] = HungUp(cl)[j] \/ (call'[j] = NoCall /\ ~Witness(j))
  PROVE  Keeps
  <1>1. /\ alive' = alive \ {cl} /\ cached' = cached \ {cl} /\ suspect' = suspect \ {cl}
        /\ held' = [held EXCEPT ![cl] = {}]
        /\ forgotten' = (IF cl \in cached
                           THEN forgotten \cup ({ConsumerOf[cl]} \cap RegisteredConsumers)
                           ELSE forgotten)
        /\ UNCHANGED <<lifeVars, broker>>
    BY DEF Gone
  <1>2. MemoryInv' /\ Len(objs') = Len(objs) /\ RegisteredConsumers' = RegisteredConsumers
        /\ published' = published
    BY <1>1, MemoryKept DEF IInv, broker
  <1>3. ProcessInv' /\ Up' = Up /\ env' = env
    BY <1>1, ProcessKept DEF IInv
  <1>4. ClientInv'
    <2>1. held' \in [Clients -> SUBSET (1..published)]
      BY <1>1 DEF IInv, ClientInv
    <2>2. ConsumerOf[cl] \in Consumers
      BY SessionAssumption DEF Consumers, Range
    <2> QED
      BY <1>1, <1>2, <2>1, <2>2 DEF IInv, ClientInv
  <1>5. \A j \in Calls : Stays(j) /\ Shape(call'[j], Len(objs), published, alive', Up)
    <2> SUFFICES ASSUME NEW j \in Calls
                 PROVE  Stays(j) /\ Shape(call'[j], Len(objs), published, alive', Up)
      OBVIOUS
    <2>1. CASE call'[j] = HungUp(cl)[j]
      BY <1>1, <2>1, Hangs DEF Stays
    <2>2. CASE call'[j] = NoCall /\ ~Witness(j)
      BY <2>2 DEF Stays, Shape
    <2> QED
      BY <2>1, <2>2
  <1>6. CallInv'
    <2>1. \A j \in Calls : call'[j] \in {NoCall} \cup CallType(Len(objs), published)
      BY <1>5 DEF Shape
    <2>2. call' \in [Calls -> {NoCall} \cup CallType(Len(objs), published)]
      BY <2>1
    <2> QED
      BY <1>2, <1>3, <1>5, <2>2 DEF CallInv
  <1>7. ASSUME TokenInv PROVE TokenInv'
    <2>1. \A d : authorize(d)' <=> authorize(d)
      BY <1>3, SameEnvironment
    <2>2. ASSUME NEW j \in Calls, call'[j].pc \in ServerSide
          PROVE  authorize(call[j].cl)'
      <3>1. call'[j].cl = call[j].cl /\ call'[j].pc = call[j].pc
        BY <1>5, <2>2, NoCallFields DEF Stays, ServerSide
      <3> QED
        BY <1>7, <2>1, <2>2, <3>1 DEF TokenInv
    <2>3. \A c \in RegisteredConsumers' :
             \E d \in Clients : ConsumerOf[d] = c /\ authorize(d)'
      BY <1>2, <1>7, <2>1 DEF TokenInv
    <2> QED
      BY <2>2, <2>3 DEF TokenInv
  <1>8. KnownInv => KnownInv'
    <2>1. \A d \in cached :
             d \in cached' \/ ConsumerOf[d] \notin RegisteredConsumers' \ forgotten'
      BY <1>1, <1>2
    <2>2. RegisteredConsumers' \ forgotten' \subseteq RegisteredConsumers \ forgotten
      BY <1>1, <1>2
    <2> QED
      BY <1>5, <2>1, <2>2, StaysKnown
  <1> QED
    BY <1>2, <1>3, <1>4, <1>6, <1>7, <1>8 DEF Keeps, IInv

\* conn.Close.
LEMMA CloseConnStep ==
  ASSUME IInv, NEW k \in Calls, CloseConn(k)
  PROVE  Keeps
  <1>1. PICK cl : cl = call[k].cl
    OBVIOUS
  <1>2. /\ At(k, "close") /\ Gone(cl) /\ call' = [HungUp(cl) EXCEPT ![k] = NoCall]
    BY <1>1 DEF CloseConn
  <1>3. cl \in Clients
    BY <1>1, <1>2, Progress DEF IInv, At
  <1>4. ~Witness(k)
    BY <1>2 DEF Witness, Streaming, At, ServerSide
  <1>5. call' = [j \in Calls |-> call'[j]]
        /\ \A j \in Calls : call'[j] = HungUp(cl)[j] \/ (call'[j] = NoCall /\ ~Witness(j))
    BY <1>2, <1>4 DEF HungUp
  <1> QED
    BY <1>2, <1>3, <1>5, GoneKeeps

\* A client dies.
LEMMA ClientDiesStep ==
  ASSUME IInv, NEW cl \in Clients, ClientDies(cl)
  PROVE  Keeps
  <1>1. Gone(cl) /\ call' = HungUp(cl)
    BY DEF ClientDies
  <1>2. call' = [j \in Calls |-> call'[j]] /\ \A j \in Calls : call'[j] = HungUp(cl)[j]
    BY <1>1 DEF HungUp
  <1> QED
    BY <1>1, <1>2, GoneKeeps
----------------------------------------------------------------------------
(***************************************************************************)
(* The handlers that are one step.                                         *)
(***************************************************************************)
\* A step that touches the broker or what clients hold, and no call.
LEMMA SingleStep ==
  ASSUME IInv, UNCHANGED <<lifeVars, call, cached, alive, forgotten>>,
         MemoryInv', ClientInv', Len(objs) <= Len(objs'), published <= published',
         RegisteredConsumers' \subseteq RegisteredConsumers
  PROVE  Keeps
  <1>1. ProcessInv' /\ Up' = Up /\ env' = env
    BY ProcessKept DEF IInv
  <1>2. CallInv'
    <2>1. \A j \in Calls : Shape(call[j], Len(objs), published, alive, Up)
      BY DEF IInv, CallInv
    <2>2. published \in Nat /\ Len(objs) \in Nat
      BY Bounds DEF IInv
    <2>3. published' \in Nat /\ Len(objs') \in Nat
      BY LenProperties, SessionAssumption DEF MemoryInv
    <2>4. \A j \in Calls : Shape(call[j], Len(objs'), published', alive', Up')
      BY <1>1, <2>1, <2>2, <2>3, ShapeKept
    <2>5. \A j \in Calls : call[j] \in {NoCall} \cup CallType(Len(objs'), published')
      BY <2>4 DEF Shape
    <2>6. call' \in [Calls -> {NoCall} \cup CallType(Len(objs'), published')]
      BY <2>5 DEF IInv, CallInv
    <2> QED
      BY <2>4, <2>6 DEF CallInv
  <1>3. ASSUME TokenInv PROVE TokenInv'
    <2>1. \A d : authorize(d)' <=> authorize(d)
      BY <1>1, SameEnvironment
    <2>2. ASSUME NEW j \in Calls, call'[j].pc \in ServerSide
          PROVE  authorize(call[j].cl)'
      BY <1>3, <2>1, <2>2 DEF TokenInv
    <2>3. \A c \in RegisteredConsumers' :
             \E d \in Clients : ConsumerOf[d] = c /\ authorize(d)'
      BY <1>3, <2>1 DEF TokenInv
    <2> QED
      BY <2>2, <2>3 DEF TokenInv
  <1>4. KnownInv => KnownInv'
    <2>1. \A j \in Calls : Stays(j)
      BY DEF Stays
    <2> QED
      BY <2>1, StaysKnown
  <1> QED
    BY <1>1, <1>2, <1>3, <1>4 DEF Keeps, IInv

\* RegisterQueue: a new object without consumers.
LEMMA RegisterQueueStep ==
  ASSUME IInv, NEW cl \in Clients, NEW durable \in BOOLEAN, RegisterQueue(cl, durable)
  PROVE  Keeps
  <1> DEFINE q == NewQueue(durable, FALSE, 0, {})
  <1>1. /\ phase = "serving" /\ registered = 0 /\ Len(objs) < QueueBound
        /\ objs' = Append(objs, q) /\ registered' = Len(objs) + 1
        /\ UNCHANGED <<table, published, lifeVars, call, client, forgotten>>
    BY DEF RegisterQueue, onRegisterQueue, Unary
  <1>2. published \in Nat /\ Len(objs) \in Nat
    BY Bounds DEF IInv
  <1>3. MaxInFlight \in Nat \ {0}
    BY <1>1, Configured DEF IInv, ProcessInv
  <1>4. q \in GoodQueues(published, MaxInFlight) /\ q.Consumers = {}
    BY <1>2, <1>3, NewGood DEF Becomes
  <1> HIDE DEF q
  <1>5. objs' \in Seq(GoodQueues(published, MaxInFlight)) /\ Len(objs') = Len(objs) + 1
        /\ objs'[Len(objs) + 1] = q
    BY <1>1, <1>4, AppendProperties DEF IInv, MemoryInv
  <1>6. MaxInFlight' = MaxInFlight /\ phase' \notin Booting
    BY <1>1, SameEnvironment DEF lifeVars, Booting
  <1>7. MemoryInv'
    BY <1>1, <1>2, <1>5, <1>6, SessionAssumption DEF IInv, MemoryInv
  <1>8. RegisteredConsumers' = {}
    BY <1>1, <1>4, <1>5 DEF RegisteredConsumers, Current
  <1>9. ClientInv' /\ alive' = alive /\ cached' = cached
    BY <1>1, ClientKept
  <1> QED
    BY <1>1, <1>2, <1>5, <1>7, <1>8, <1>9, SingleStep

\* DeleteQueue: the old object keeps no name.
LEMMA DeleteQueueStep ==
  ASSUME IInv, NEW cl \in Clients, DeleteQueue(cl)
  PROVE  Keeps
  <1>1. registered' = 0 /\ UNCHANGED <<objs, table, published, lifeVars, call, client, forgotten>>
    BY DEF DeleteQueue, onDeleteQueue
  <1>2. published \in Nat /\ Len(objs) \in Nat
    BY Bounds DEF IInv
  <1>3. MaxInFlight' = MaxInFlight /\ phase' = phase
    BY <1>1, SameEnvironment DEF lifeVars
  <1>4. MemoryInv'
    BY <1>1, <1>2, <1>3 DEF IInv, MemoryInv
  <1>5. RegisteredConsumers' = {}
    BY <1>1 DEF RegisteredConsumers
  <1>6. ClientInv' /\ alive' = alive /\ cached' = cached
    BY <1>1, ClientKept
  <1> QED
    BY <1>1, <1>2, <1>4, <1>5, <1>6, SingleStep

\* Publish, with the next number.
LEMMA PublishStep ==
  ASSUME IInv, NEW cl \in Clients, Publish(cl)
  PROVE  Keeps
  <1> DEFINE r == Enqueued(Current, NewDelivery(published + 1))
  <1>1. /\ registered # 0 /\ published < MessageBound /\ published' = published + 1
        /\ objs' = [objs EXCEPT ![registered] = r]
        /\ UNCHANGED <<registered, table, lifeVars, call, client, forgotten>>
    BY DEF Publish, onPublish, Current
  <1>2. published \in Nat /\ Len(objs) \in Nat
    BY Bounds DEF IInv
  <1>3. /\ Current \in GoodQueues(published, MaxInFlight) /\ MaxInFlight \in Nat \ {0}
        /\ registered \in 1..Len(objs) /\ phase \notin Booting
        /\ RegisteredConsumers = Current.Consumers
    BY <1>1, Registered DEF IInv
  <1>4. Becomes(r, published + 1, MaxInFlight, Current.Consumers)
    BY <1>2, <1>3, PublishedGood
  <1> HIDE DEF r
  <1>5. objs \in Seq(GoodQueues(published + 1, MaxInFlight))
    BY <1>2, OneMoreNumber, SeqMonotonic DEF IInv, MemoryInv
  <1>6. /\ objs' \in Seq(GoodQueues(published + 1, MaxInFlight)) /\ Len(objs') = Len(objs)
        /\ objs'[registered] = r
    BY <1>1, <1>3, <1>4, <1>5, ExceptSeq DEF Becomes
  <1>7. MaxInFlight' = MaxInFlight /\ phase' \notin Booting
    BY <1>1, <1>3, SameEnvironment DEF lifeVars
  <1>8. 1..published \subseteq 1..published' /\ published' \in 0..MessageBound
    BY <1>1, <1>2, SessionAssumption
  <1>9. table' \in [queue : BOOLEAN, ids : SUBSET (1..published')]
    BY <1>1, <1>8 DEF IInv, MemoryInv
  <1>10. MemoryInv'
    BY <1>1, <1>2, <1>6, <1>7, <1>8, <1>9 DEF IInv, MemoryInv
  <1>11. RegisteredConsumers' = RegisteredConsumers
    BY <1>1, <1>3, <1>4, <1>6 DEF RegisteredConsumers, Current, Becomes
  <1>12. ClientInv' /\ alive' = alive /\ cached' = cached
    BY <1>1, <1>8 DEF IInv, ClientInv, client
  <1> QED
    BY <1>1, <1>2, <1>6, <1>10, <1>11, <1>12, SingleStep

\* Ack and NAck.
LEMMA SettleStep ==
  ASSUME IInv, NEW cl \in Clients, NEW id, Ack(cl, id) \/ NAck(cl, id)
  PROVE  Keeps
  <1>1. /\ held' = [held EXCEPT ![cl] = @ \ {id}]
        /\ UNCHANGED <<registered, table, published, lifeVars, call, cached, alive, suspect, forgotten>>
    BY DEF Ack, NAck, Settled, onAck, onNack
  <1>2. \/ objs' = objs
        \/ /\ registered # 0 /\ id \in DOMAIN Current.InFlight
           /\ \/ objs' = [objs EXCEPT ![registered] = Acked(Current, id)]
              \/ objs' = [objs EXCEPT ![registered] = Rejected(Current, id)]
    BY DEF Ack, NAck, onAck, onNack, Holds, Current
  <1>3. published \in Nat /\ Len(objs) \in Nat
    BY Bounds DEF IInv
  <1>4. MemoryInv' /\ Len(objs') = Len(objs) /\ RegisteredConsumers' = RegisteredConsumers
    <2>1. CASE objs' = objs
      BY <1>1, <2>1, MemoryKept DEF IInv, broker
    <2>2. CASE objs' # objs
      <3>1. /\ registered # 0 /\ id \in DOMAIN Current.InFlight
            /\ \/ objs' = [objs EXCEPT ![registered] = Acked(Current, id)]
               \/ objs' = [objs EXCEPT ![registered] = Rejected(Current, id)]
        BY <1>2, <2>2
      <3>2. /\ Current \in GoodQueues(published, MaxInFlight) /\ MaxInFlight \in Int
            /\ RegisteredConsumers = Current.Consumers
        BY <3>1, Registered DEF IInv
      <3>3. /\ Becomes(Acked(Current, id), published, MaxInFlight, Current.Consumers)
            /\ Becomes(Rejected(Current, id), published, MaxInFlight, Current.Consumers)
        BY <1>3, <3>1, <3>2, AckedGood, RejectedGood
      <3> QED
        BY <1>1, <3>1, <3>2, <3>3, Replaced DEF IInv
    <2> QED
      BY <2>1, <2>2
  <1>5. ClientInv'
    BY <1>1 DEF IInv, ClientInv
  <1> QED
    BY <1>1, <1>3, <1>4, <1>5, SingleStep
----------------------------------------------------------------------------
(***************************************************************************)
(* The steps of the process.                                               *)
(***************************************************************************)
\* Without a server nobody is served, and before Restore nobody is registered.
LEMMA NotUp ==
  ASSUME IInv, ~Up
  PROVE  \A j \in Calls : call[j].pc \notin ServerSide
  <1> SUFFICES ASSUME NEW j \in Calls, call[j].pc \in ServerSide
               PROVE  FALSE
    OBVIOUS
  <1>1. call[j].pc # "none"
    BY DEF ServerSide
  <1> QED
    BY <1>1, Progress DEF IInv

\* Before Restore there is no queue and no handler.
LEMMA BootingEmpty ==
  ASSUME IInv, phase \in Booting
  PROVE  objs = << >> /\ registered = 0 /\ RegisteredConsumers = {} /\ ~Up
  <1>1. objs = << >> /\ registered \in 0..Len(objs)
    BY DEF IInv, MemoryInv
  <1>2. registered = 0
    BY <1>1
  <1> QED
    BY <1>1, <1>2, Unregistered DEF Up, Booting

\* A process in which the handlers that run may run on.
LEMMA CallsSurvive ==
  ASSUME IInv, call' = call, published' = published, alive' = alive,
         Len(objs') \in Nat, Len(objs) <= Len(objs'),
         \A j \in Calls : call[j].pc \in ServerSide => Up'
  PROVE  CallInv'
  <1>1. published \in Nat /\ Len(objs) \in Nat
    BY Bounds DEF IInv
  <1>2. ASSUME NEW j \in Calls
        PROVE  Shape(call[j], Len(objs'), published', alive', Up')
    <2>1. Shape(call[j], Len(objs), published, alive, Up)
      BY DEF IInv, CallInv
    <2>2. Shape(call[j], Len(objs), published, alive, Up')
      BY <2>1, Zenon DEF Shape
    <2> QED
      BY <1>1, <2>2, ShapeKept
  <1>3. \A j \in Calls : call[j] \in {NoCall} \cup CallType(Len(objs'), published')
    BY <1>2 DEF Shape
  <1>4. call' \in [Calls -> {NoCall} \cup CallType(Len(objs'), published')]
    BY <1>3 DEF IInv, CallInv
  <1> QED
    BY <1>2, <1>4 DEF CallInv

\* A step of main that leaves registrations and calls alone, or drops registrations.
LEMMA SameCallsKnown ==
  ASSUME IInv, KnownInv, UNCHANGED <<call, cached, forgotten>>,
         RegisteredConsumers' \subseteq RegisteredConsumers
  PROVE  KnownInv'
  <1>1. \A j \in Calls : Stays(j)
    BY DEF Stays
  <1> QED
    BY <1>1, StaysKnown

\* main goes on, or gets its signal.
LEMMA MainGoesOnStep ==
  ASSUME IInv,
         \/ LoadConfig \/ Connected \/ AttemptFails \/ RetryDelay
         \/ Listening \/ GracefulStop \/ Stopped(Busy) \/ Signal,
         UNCHANGED <<broker, call, client, forgotten>>
  PROVE  Keeps
  <1>1. /\ ProcessInv' /\ env' = env /\ (phase \notin Booting => phase' \notin Booting)
    BY MainStep DEF IInv
  <1>2. UNCHANGED <<objs, registered, table, published>>
    BY DEF broker
  <1>3. MaxInFlight' = MaxInFlight /\ \A cl : authorize(cl)' <=> authorize(cl)
    BY <1>1, SameEnvironment
  <1>4. MemoryInv'
    BY <1>1, <1>2, <1>3 DEF IInv, MemoryInv
  <1>5. /\ ClientInv' /\ alive' = alive /\ cached' = cached /\ forgotten' = forgotten
    BY <1>2, ClientKept
  <1>6. \A j \in Calls : call[j].pc \in ServerSide => Up'
    <2>1. CASE ~Up
      BY <2>1, NotUp
    <2>2. CASE Up /\ ~Stopped(Busy)
      BY <2>2 DEF Up, LoadConfig, Connected, AttemptFails, RetryDelay, Listening, GracefulStop,
                  Signal, Goto
    <2>3. CASE Stopped(Busy)
      BY <2>3 DEF Stopped, Busy
    <2> QED
      BY <2>1, <2>2, <2>3
  <1>7. Len(objs') \in Nat /\ Len(objs) <= Len(objs')
    BY <1>2, Bounds DEF IInv
  <1>8. CallInv'
    BY <1>2, <1>5, <1>6, <1>7, CallsSurvive
  <1>9. RegisteredConsumers' = RegisteredConsumers
    BY <1>2 DEF RegisteredConsumers, Current
  <1>10. TokenInv => TokenInv'
    BY <1>3, <1>9 DEF TokenInv, authorize
  <1>11. KnownInv => KnownInv'
    BY <1>5, <1>9, SameCallsKnown
  <1> QED
    BY <1>1, <1>4, <1>5, <1>8, <1>10, <1>11 DEF Keeps, IInv

\* Restore: no consumer comes back.
LEMMA RestoreStep ==
  ASSUME IInv, Restore
  PROVE  Keeps
  <1>1. /\ Restored /\ table' = NoTable /\ registered' = (IF table.queue THEN 1 ELSE 0)
        /\ UNCHANGED <<published, call, client, forgotten>>
    BY DEF Restore
  <1>2. PICK order \in SetToSeqs(table.ids) :
           objs' = IF table.queue THEN <<RestoredQueue(order)>> ELSE << >>
    BY DEF Restore
  <1>3. phase = "restore" /\ phase' = "listen"
    BY <1>1 DEF Restored, Goto
  <1>4. ProcessInv' /\ env' = env
    BY <1>1, MainStep DEF IInv
  <1>5. MaxInFlight \in Nat \ {0} /\ MaxInFlight' = MaxInFlight
    BY <1>3, <1>4, Configured, SameEnvironment DEF IInv, ProcessInv
  <1>6. published \in Nat /\ table.ids \in SUBSET (1..published)
    BY Bounds DEF IInv, MemoryInv
  <1>7. Becomes(RestoredQueue(order), published, MaxInFlight, {})
    BY <1>5, <1>6, RestoredGood
  <1> DEFINE r == RestoredQueue(order)
             G == GoodQueues(published, MaxInFlight)
  <1>8. r \in G /\ r.Consumers = {}
    BY <1>7 DEF Becomes
  <1> HIDE DEF r, G
  <1>9. objs' \in Seq(G) /\ Len(objs') = (IF table.queue THEN 1 ELSE 0)
        /\ (table.queue => objs'[1] = r)
    BY <1>2, <1>8 DEF r
  <1>10. NoTable \in [queue : BOOLEAN, ids : SUBSET (1..published)]
    BY DEF NoTable
  <1>11. MemoryInv'
    <2>1. Len(objs') <= QueueBound /\ registered' \in 0..Len(objs')
      BY <1>1, <1>9, SessionAssumption
    <2>2. published' \in 0..MessageBound
      BY <1>1 DEF IInv, MemoryInv
    <2>3. phase' \notin Booting
      BY <1>3 DEF Booting
    <2> QED
      BY <1>1, <1>5, <1>9, <1>10, <2>1, <2>2, <2>3 DEF MemoryInv, G
  <1>12. /\ ClientInv' /\ alive' = alive /\ cached' = cached /\ forgotten' = forgotten
    BY <1>1, ClientKept
  <1>13. objs = << >> /\ RegisteredConsumers = {} /\ ~Up
    BY <1>3, BootingEmpty DEF Booting
  <1>14. \A j \in Calls : call[j].pc \notin ServerSide
    BY <1>13, NotUp
  <1>15. CallInv'
    BY <1>1, <1>9, <1>12, <1>13, <1>14, CallsSurvive
  <1>16. RegisteredConsumers' = {}
    BY <1>1, <1>8, <1>9 DEF RegisteredConsumers, Current
  <1>17. TokenInv'
    BY <1>1, <1>14, <1>16 DEF TokenInv
  <1>18. KnownInv => KnownInv'
    BY <1>1, <1>12, <1>16, SameCallsKnown
  <1> QED
    BY <1>4, <1>11, <1>12, <1>15, <1>17, <1>18 DEF Keeps, IInv

\* A start: the token and the limits may be other ones, but nobody is inside.
LEMMA StartsStep ==
  ASSUME IInv, Start, UNCHANGED <<broker, call, client, forgotten>>
  PROVE  Keeps
  <1>1. ProcessInv' /\ phase = "down" /\ phase' = "config"
    BY StartStep DEF IInv
  <1>2. UNCHANGED <<objs, registered, table, published>>
    BY DEF broker
  <1>3. objs = << >> /\ registered = 0 /\ ~Up
    BY <1>1, BootingEmpty DEF Booting
  <1>4. MemoryInv'
    <2>1. << >> \in Seq(GoodQueues(published', MaxInFlight'))
      BY EmptySeq
    <2> QED
      BY <1>2, <1>3, <2>1 DEF IInv, MemoryInv
  <1>5. /\ ClientInv' /\ alive' = alive /\ cached' = cached /\ forgotten' = forgotten
    BY <1>2, ClientKept
  <1>6. \A j \in Calls : call[j].pc \notin ServerSide
    BY <1>3, NotUp
  <1>7. Len(objs') \in Nat /\ Len(objs) <= Len(objs')
    BY <1>2, Bounds DEF IInv
  <1>8. CallInv'
    BY <1>2, <1>5, <1>6, <1>7, CallsSurvive
  <1>9. RegisteredConsumers' = {}
    BY <1>2, <1>3 DEF RegisteredConsumers
  <1>10. TokenInv'
    BY <1>6, <1>9 DEF TokenInv
  <1>11. KnownInv => KnownInv'
    BY <1>5, <1>9, SameCallsKnown
  <1> QED
    BY <1>1, <1>4, <1>5, <1>8, <1>10, <1>11 DEF Keeps, IInv

\* The ids of a queue object are ids of messages.
LEMMA QueueIDsType ==
  ASSUME NEW n, NEW lim, NEW q \in GoodQueues(n, lim)
  PROVE  QueueIDs(q) \in SUBSET (1..n)
  <1>1. PICK durable \in BOOLEAN : q \in Object(durable, n)
    BY GoodQueue
  <1>2. q.Ready \in Seq(Deliveries(1..n, Consumers))
    BY <1>1 DEF Object, Queues
  <1>3. \A i \in DOMAIN q.Ready : q.Ready[i].ID \in 1..n
    <2>1. \A i \in DOMAIN q.Ready : q.Ready[i] \in Deliveries(1..n, Consumers)
      BY <1>2
    <2> QED
      BY <2>1 DEF Deliveries
  <1>4. DOMAIN q.InFlight \subseteq 1..n
    BY <1>1, InFlightDelivery DEF Object
  <1> QED
    BY <1>3, <1>4 DEF QueueIDs, ToSet

\* The process ends, wherever it was.
LEMMA EndsStep ==
  ASSUME IInv, ProcessEnds, MemoryLost
  PROVE  Keeps
  <1>1. ProcessInv' /\ phase' = "down"
    BY EndStep DEF IInv
  <1>2. /\ objs' = << >> /\ registered' = 0 /\ forgotten' = {}
        /\ call' = [j \in Calls |-> IF call[j].pc \in ServerSide THEN NoCall ELSE call[j]]
        /\ UNCHANGED <<published, client>>
    BY DEF MemoryLost
  <1>3. table' \in [queue : BOOLEAN, ids : SUBSET (1..published)]
    <2>1. NoTable \in [queue : BOOLEAN, ids : SUBSET (1..published)]
      BY DEF NoTable
    <2>2. CASE table' = table
      BY <2>2 DEF IInv, MemoryInv
    <2>3. CASE registered # 0 /\ table' = [queue |-> TRUE, ids |-> QueueIDs(Current)]
      BY <2>3, Registered, QueueIDsType DEF IInv
    <2> QED
      BY <2>1, <2>2, <2>3 DEF MemoryLost
  <1>4. MemoryInv'
    <2>1. << >> \in Seq(GoodQueues(published', MaxInFlight')) /\ Len(<< >>) = 0
      BY EmptySeq
    <2> QED
      BY <1>2, <1>3, <2>1, SessionAssumption DEF IInv, MemoryInv
  <1>5. ClientInv' /\ alive' = alive /\ cached' = cached
    BY <1>2 DEF IInv, ClientInv, client
  <1>6. ASSUME NEW j \in Calls
        PROVE  Shape(call'[j], 0, published, alive, Up') /\ call'[j].pc \notin ServerSide
    <2>1. CASE call[j].pc \in ServerSide
      BY <1>2, <2>1, NoCallFields DEF Shape, ServerSide
    <2>2. CASE call[j] = NoCall
      BY <1>2, <2>2, NoCallFields DEF Shape, ServerSide
    <2>3. CASE call[j] # NoCall /\ call[j].pc \notin ServerSide
      <3>1. Shape(call[j], Len(objs), published, alive, Up) /\ call'[j] = call[j]
        BY <1>2, <2>3 DEF IInv, CallInv
      <3>2. call[j] \in CallType(Len(objs), published) /\ call[j].pc \in ClientSide
        BY <2>3, <3>1 DEF Shape, CallType
      <3>3. call[j].q = 0
        BY <2>3, <3>1, <3>2 DEF Shape
      <3>4. call[j] \in CallType(0, published)
        BY <3>2, <3>3 DEF CallType
      <3> QED
        BY <2>3, <3>1, <3>4, Zenon DEF Shape
    <2> QED
      BY <2>1, <2>2, <2>3
  <1>7. CallInv'
    <2>1. \A j \in Calls : call'[j] \in {NoCall} \cup CallType(0, published)
      BY <1>6 DEF Shape
    <2>2. call' \in [Calls -> {NoCall} \cup CallType(0, published)]
      BY <1>2, <2>1
    <2>3. Len(objs') = 0 /\ published' = published
      BY <1>2
    <2> QED
      BY <1>5, <1>6, <2>2, <2>3 DEF CallInv
  <1>8. RegisteredConsumers' = {}
    BY <1>2 DEF RegisteredConsumers
  <1>9. TokenInv'
    BY <1>6, <1>8 DEF TokenInv
  <1>10. KnownInv'
    BY <1>8 DEF KnownInv
  <1> QED
    BY <1>1, <1>4, <1>5, <1>7, <1>9, <1>10 DEF Keeps, IInv
----------------------------------------------------------------------------
(***************************************************************************)
(* The invariants, and the theorems.                                       *)
(***************************************************************************)
\* The initial states.
LEMMA InitTypes ==
  ASSUME Init
  PROVE  IInv
  <1>1. ProcessInv
    BY InitProcess DEF Init
  <1>2. /\ phase = "down" /\ objs = << >> /\ registered = 0 /\ table = NoTable
        /\ published = 0 /\ call = [k \in Calls |-> NoCall]
        /\ cached = {} /\ alive = Clients /\ suspect = {}
        /\ held = [cl \in Clients |-> {}] /\ forgotten = {}
    BY DEF Init, InitLife
  <1>3. MemoryInv
    <2>1. << >> \in Seq(GoodQueues(published, MaxInFlight)) /\ Len(<< >>) = 0
      BY EmptySeq
    <2>2. table \in [queue : BOOLEAN, ids : SUBSET (1..published)]
      BY <1>2 DEF NoTable
    <2> QED
      BY <1>2, <2>1, <2>2, SessionAssumption DEF MemoryInv
  <1>4. CallInv
    BY <1>2 DEF CallInv, Shape
  <1>5. ClientInv
    BY <1>2 DEF ClientInv
  <1> QED
    BY <1>1, <1>3, <1>4, <1>5 DEF IInv

\* Nobody is registered and no call under way.
LEMMA InitTokenKnown ==
  ASSUME Init
  PROVE  TokenInv /\ KnownInv
  <1>1. RegisteredConsumers = {}
    BY DEF Init, RegisteredConsumers
  <1>2. \A k \in Calls : call[k] = NoCall
    BY DEF Init
  <1>3. \A k \in Calls : call[k].pc \notin ServerSide
    BY <1>2, NoCallFields DEF ServerSide
  <1> QED
    BY <1>1, <1>3 DEF TokenInv, KnownInv

\* The three lemmas about a handler's step together.
LEMMA HandledStep ==
  ASSUME IInv, NEW k \in Calls, Handled(k)
  PROVE  Keeps
  BY HandledTypes, HandledToken, HandledKnown DEF Keeps

\* One lemma per disjunct of Next: handlers and timers, ...
LEMMA HandlerStep ==
  ASSUME IInv, NEW k \in Calls, Handler(k) \/ TimedOut(k)
  PROVE  Keeps
  <1>1. CASE Deferred(k)
    BY <1>1, DeferredStep
  <1>2. CASE ~Deferred(k)
    <2>1. Handled(k)
      BY <1>2, BlockingFetchHandled, FetchRefusedHandled, FetchReadyHandled,
         FetchEmptyHandled, WakeUpHandled, ContextDoneHandled, MarkHandled,
         ReceiveHandled, SendFailsHandled, TimedOutHandled, Zenon DEF Handler
    <2> QED
      BY <2>1, HandledStep
  <1> QED
    BY <1>1, <1>2

\* ... requests and answers, ...
LEMMA TransportStep ==
  ASSUME IInv, NEW k \in Calls, Transport(k)
  PROVE  Keeps
  BY RefusedStep, StreamRegistersStep, AddConsumerStep, AddedStep, AddedUnheardStep,
     onDisconnectConsumerStep, CacheDroppedStep, CloseConnStep, Zenon DEF Transport

\* The application begins a call.
LEMMA MethodStep ==
  ASSUME IInv, NEW k \in Calls, NEW cl \in Clients,
         Fetch(k, cl) \/ StreamFetch(k, cl) \/ DisconnectConsumer(k, cl) \/ Close(k, cl)
  PROVE  Keeps
  <1>1. CASE Fetch(k, cl)
    <2>1. PICK pc \in {"request", "add"} : pc = ensureFetchSubscription(cl)
      BY DEF ensureFetchSubscription
    <2> QED
      BY <1>1, <2>1, BeginStep DEF Fetch
  <1>2. CASE StreamFetch(k, cl)
    BY <1>2, BeginStep DEF StreamFetch
  <1>3. CASE DisconnectConsumer(k, cl)
    BY <1>3, BeginStep DEF DisconnectConsumer
  <1>4. CASE Close(k, cl)
    <2>1. PICK pc \in {"disconnect", "close"} : pc = (IF cl \in cached THEN "disconnect" ELSE "close")
      OBVIOUS
    <2> QED
      BY <1>4, <2>1, BeginStep DEF Close
  <1> QED
    BY <1>1, <1>2, <1>3, <1>4

\* ... the applications, ...
LEMMA ApplicationStep ==
  ASSUME IInv, Application
  PROVE  Keeps
  <1>1. CASE \E k \in Calls : Cancel(k)
    BY <1>1, CancelStep
  <1>2. ASSUME NEW cl \in Clients,
               \/ \E durable \in BOOLEAN : RegisterQueue(cl, durable)
               \/ DeleteQueue(cl) \/ Publish(cl) \/ ClientDies(cl)
        PROVE  Keeps
    BY <1>2, RegisterQueueStep, DeleteQueueStep, PublishStep, ClientDiesStep, Zenon
  <1>3. ASSUME NEW cl \in Clients, NEW id \in 1..MessageBound, Ack(cl, id) \/ NAck(cl, id)
        PROVE  Keeps
    BY <1>3, SettleStep
  <1> QED
    BY <1>1, <1>2, <1>3, MethodStep, Zenon DEF Application

\* ... main and its surroundings, ...
LEMMA MainStepKeeps ==
  ASSUME IInv, MainGoesOn \/ Restore \/ MainEnds \/ Outside
  PROVE  Keeps
  <1>1. CASE MainGoesOn
    BY <1>1, MainGoesOnStep DEF MainGoesOn
  <1>2. CASE Restore
    BY <1>2, RestoreStep
  <1>3. CASE MainEnds
    <2>1. ProcessEnds /\ MemoryLost
      BY <1>3 DEF MainEnds, ConfigRefused, ConnectFails, ConnectCancelled, StartFails, MainReturns
    <2> QED
      BY <2>1, EndsStep
  <1>4. CASE Crash /\ MemoryLost
    BY <1>4, EndsStep DEF Crash
  <1>5. CASE Signal /\ UNCHANGED <<broker, call, client, forgotten>>
    BY <1>5, MainGoesOnStep
  <1>6. CASE Start /\ UNCHANGED <<broker, call, client, forgotten>>
    BY <1>6, StartsStep
  <1> QED
    BY <1>1, <1>2, <1>3, <1>4, <1>5, <1>6 DEF Outside

\* ... and stuttering.
LEMMA StutterKeeps ==
  ASSUME IInv, UNCHANGED vars
  PROVE  Keeps
  <1>1. UNCHANGED <<lifeVars, broker, call, client, forgotten>>
    BY DEF vars
  <1>2. UNCHANGED <<lifeVars, call, cached, alive, forgotten>> /\ published' = published
    BY <1>1 DEF client, broker
  <1>3. MemoryInv' /\ Len(objs') = Len(objs) /\ RegisteredConsumers' = RegisteredConsumers
    BY <1>1, MemoryKept DEF IInv
  <1>4. ClientInv'
    BY <1>1, <1>2, ClientKept
  <1>5. Len(objs) \in Nat /\ published \in Nat
    BY DEF IInv, MemoryInv
  <1> QED
    BY <1>2, <1>3, <1>4, <1>5, SingleStep

\* Every step keeps the three invariants.
LEMMA StepKeeps ==
  ASSUME IInv, [Next]_vars
  PROVE  Keeps
  BY ApplicationStep, HandlerStep, TransportStep, MainStepKeeps, StutterKeeps, Zenon DEF Next

\* What the invariants say of a state.
LEMMA TypesHold ==
  ASSUME IInv
  PROVE  TypeOK
  <1>1. Load => attempt <= ConnectRetries
    <2>1. CASE phase \in {"down", "config"}
      BY <2>1, Configured DEF IInv, ProcessInv
    <2>2. CASE phase \notin {"down", "config"}
      BY <2>2 DEF IInv, ProcessInv
    <2> QED
      BY <2>1, <2>2
  <1>2. /\ phase \in {"down", "config", "connect", "delay", "restore", "listen",
                      "serving", "draining", "closed"}
        /\ attempt \in Nat /\ signalled \in BOOLEAN
        /\ env \in Environments \cup {NoEnvironment} /\ starts \in 0..StartBound
    BY DEF IInv, ProcessInv, Phases
  <1>3. /\ registered \in 0..Len(objs) /\ Len(objs) <= QueueBound
        /\ table \in [queue : BOOLEAN, ids : SUBSET (1..published)]
        /\ published \in 0..MessageBound
    BY DEF IInv, MemoryInv
  <1>4. call \in [Calls -> {NoCall} \cup
                          [op : {"Fetch", "Stream", "Disconnect", "Close"}, cl : Clients,
                           pc : ClientSide \cup ServerSide, q : 0..Len(objs),
                           id : 0..published, open : BOOLEAN]]
    BY DEF IInv, CallInv, CallType
  <1> QED
    BY <1>1, <1>2, <1>3, <1>4 DEF TypeOK, IInv, ClientInv

\* The limit in force is the one the queue objects respect.
LEMMA LimitHolds ==
  ASSUME IInv
  PROVE  LimitInForce
  <1> SUFFICES ASSUME phase = "serving"
               PROVE  /\ MaxInFlight > 0
                      /\ \A c \in RegisteredConsumers :
                            Cardinality(InFlightOf(Current, c)) <= MaxInFlight
    BY DEF LimitInForce
  <1>1. MaxInFlight \in Nat \ {0}
    BY Configured DEF IInv, ProcessInv
  <1>2. ASSUME NEW c \in RegisteredConsumers
        PROVE  Cardinality(InFlightOf(Current, c)) <= MaxInFlight
    <2>1. registered # 0
      BY <1>2 DEF RegisteredConsumers
    <2>2. Current \in GoodQueues(published, MaxInFlight)
      BY <2>1, Registered DEF IInv
    <2>3. c \in Consumers
      <3>1. PICK durable \in BOOLEAN : Current \in Object(durable, published)
        BY <2>2, GoodQueue
      <3>2. Current.Consumers \in SUBSET Consumers
        BY <3>1 DEF Object, Queues
      <3> QED
        BY <1>2, <2>1, <3>2 DEF RegisteredConsumers
    <2> QED
      BY <2>2, <2>3, GoodQueue
  <1> QED
    BY <1>1, <1>2

\* The token of this start.
LEMMA TokenHolds ==
  ASSUME TokenInv
  PROVE  OldTokenShutOut
  BY DEF TokenInv, OldTokenShutOut

\* An entry that is not about to go is an entry.
LEMMA KnownHolds ==
  ASSUME KnownInv
  PROVE  RegistrationKnown
  BY DEF KnownInv, Known, Witness, RegistrationKnown

\* The inductive invariant.
LEMMA SessionInvariants ==
  Spec => [](IInv /\ TokenInv /\ KnownInv)
  <1>1. Init => IInv /\ TokenInv /\ KnownInv
    BY InitTypes, InitTokenKnown
  <1>2. IInv /\ TokenInv /\ KnownInv /\ [Next]_vars
          => (IInv /\ TokenInv /\ KnownInv)'
    BY StepKeeps DEF Keeps
  <1> QED
    BY <1>1, <1>2, PTL DEF Spec

\* Type correctness, for any clients, environments and bounds: of the process
\* (no more attempts of db.Connect than DB_CONNECT_RETRIES, in every start), of
\* the pointers calls keep to queue objects, of what the tables bring back at a
\* restart, and of the clients' subscriptions and messages.
THEOREM SessionTypes == Spec => []TypeOK
  <1>1. IInv => TypeOK
    BY TypesHold
  <1> QED
    BY <1>1, SessionInvariants, PTL

\* A broker that serves has a positive limit of messages in flight, and no
\* consumer is beyond it, whatever MAX_IN_FLIGHT was at earlier starts: the
\* check of FetchOrWait is made on the queue it takes the message from, not on
\* the queue BlockingFetch looked up.
THEOREM LimitAlwaysInForce == Spec => []LimitInForce
  <1>1. IInv => LimitInForce
    BY LimitHolds
  <1> QED
    BY <1>1, SessionInvariants, PTL

\* A client whose token is not the ROOT_TOKEN of this start of the process runs
\* no handler and becomes no consumer, also when requests of it were under way
\* while the process ended and began again.
THEOREM OldTokenNeverIn == Spec => []OldTokenShutOut
  <1>1. TokenInv => OldTokenShutOut
    BY TokenHolds
  <1> QED
    BY <1>1, SessionInvariants, PTL

\* Every registration has somebody who will take it off again, or is one its
\* client has lost or may have lost: streams, in any number and also for the same
\* consumer, do not take that from each other, and neither do Fetch,
\* DisconnectConsumer and Close of one client that run at the same time, but for
\* a registration made while the answer to a DisconnectConsumer is under way.
THEOREM NoRegistrationUnknown == Spec => []RegistrationKnown
  <1>1. KnownInv => RegistrationKnown
    BY KnownHolds
  <1> QED
    BY <1>1, SessionInvariants, PTL
============================================================================
