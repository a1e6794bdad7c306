---------------------------- MODULE QueueProofs ----------------------------
(***************************************************************************)
(* Safety of Queue for any sets of deliveries, consumers and fetch calls   *)
(* and any limits.                                                         *)
(***************************************************************************)
EXTENDS Queue, QueueCoreProofs

Empty == NewQueue(FALSE, FALSE, MaxAttempts, {})

QueueType == Queues(Empty, DeliveryIDs, Consumers, Fetchers)

USE DEF QueueType, Delivery

\* The bound on Attempts changes the count of the head of Ready, and nothing
\* else.
LEMMA CountingFields ==
  ASSUME NEW q \in QueueType, q.Ready # << >>
  PROVE  LET p == Counting(q)
             h == Head(q.Ready)
             g == Head(p.Ready)
         IN  /\ p \in QueueType /\ p.Ready # << >>
             /\ p.InFlight = q.InFlight /\ p.Consumers = q.Consumers
             /\ p.readyNotify = q.readyNotify
             /\ DOMAIN p.Ready = DOMAIN q.Ready /\ Tail(p.Ready) = Tail(q.Ready)
             /\ \A i \in DOMAIN q.Ready : /\ p.Ready[i].ID = q.Ready[i].ID
                                         /\ p.Ready[i].ConsumerID = q.Ready[i].ConsumerID
             /\ g.ID = h.ID
             /\ g.Attempts = IF h.Attempts < AttemptBound THEN h.Attempts ELSE AttemptBound - 1
  <1> DEFINE p == Counting(q)
             s == q.Ready
             h == s[1]
             a == IF h.Attempts < AttemptBound THEN h.Attempts ELSE AttemptBound - 1
             g == [h EXCEPT !.Attempts = a]
             r == [s EXCEPT ![1] = g]
  <1>1. s \in Seq(Delivery)
    BY DEF Queues
  <1>2. Len(s) \in Nat \ {0} /\ DOMAIN s = 1..Len(s)
    BY <1>1, EmptySeq, LenProperties
  <1>3. h \in Delivery /\ Head(s) = h
    BY <1>1, <1>2, ElementOfSeq
  <1>4. a \in Nat
    BY <1>3, QueueAssumption DEF Deliveries
  <1>5. g \in Delivery /\ g.ID = h.ID /\ g.ConsumerID = h.ConsumerID /\ g.Attempts = a
    BY <1>3, <1>4 DEF Deliveries
  <1>6. p = [q EXCEPT !.Ready = r]
    BY DEF Counting
  <1> HIDE DEF g, h, a
  <1>7. /\ r \in Seq(Delivery) /\ Len(r) = Len(s) /\ DOMAIN r = DOMAIN s
        /\ r[1] = g /\ \A i \in DOMAIN s : i # 1 => r[i] = s[i]
    BY <1>1, <1>2, <1>5, ExceptSeq
  <1> HIDE DEF r
  <1>8. /\ p \in QueueType /\ p.Ready = r
        /\ p.InFlight = q.InFlight /\ p.Consumers = q.Consumers
        /\ p.readyNotify = q.readyNotify
    BY <1>6, <1>7 DEF Queues
  <1> HIDE DEF p
  <1>9. Head(r) = g /\ r # << >>
    BY <1>2, <1>7, EmptySeq
  <1>10. Tail(r) = Tail(s)
    <2>1. /\ Tail(r) \in Seq(Delivery) /\ Tail(s) \in Seq(Delivery)
          /\ Len(Tail(r)) = Len(r) - 1 /\ Len(Tail(s)) = Len(s) - 1
          /\ \A i \in 1..Len(Tail(r)) : Tail(r)[i] = r[i + 1]
          /\ \A i \in 1..Len(Tail(s)) : Tail(s)[i] = s[i + 1]
      BY <1>1, <1>7, <1>9, HeadTailProperties
    <2>2. \A i \in 1..Len(Tail(s)) : Tail(r)[i] = Tail(s)[i]
      BY <1>2, <1>7, <2>1
    <2> QED
      BY <1>7, <2>1, <2>2, SeqEqual
  <1>11. \A i \in DOMAIN s : r[i].ID = s[i].ID /\ r[i].ConsumerID = s[i].ConsumerID
    BY <1>5, <1>7 DEF h
  <1> QED
    BY <1>3, <1>5, <1>7, <1>8, <1>9, <1>10, <1>11 DEF a, p

\* So it moves no delivery.
LEMMA CountingSame ==
  ASSUME NEW q \in QueueType, Sound(q), q.Ready # << >>
  PROVE  LET p == Counting(q)
         IN  /\ Sound(p) /\ IDs(p) = IDs(q) /\ SeqIDs(p.Ready) = SeqIDs(q.Ready)
             /\ \A c : InFlightOf(p, c) = InFlightOf(q, c)
  <1> DEFINE p == Counting(q)
  <1>1. /\ p.InFlight = q.InFlight /\ p.Consumers = q.Consumers
        /\ DOMAIN p.Ready = DOMAIN q.Ready
        /\ \A i \in DOMAIN q.Ready : /\ p.Ready[i].ID = q.Ready[i].ID
                                    /\ p.Ready[i].ConsumerID = q.Ready[i].ConsumerID
    BY CountingFields
  <1> HIDE DEF p
  <1>2. SeqIDs(p.Ready) = SeqIDs(q.Ready)
    BY <1>1 DEF SeqIDs
  <1>3. Sound(p)
    BY <1>1, <1>2 DEF Sound, Distinct, Free
  <1>4. \A c : InFlightOf(p, c) = InFlightOf(q, c)
    BY <1>1 DEF InFlightOf
  <1> QED
    BY <1>1, <1>2, <1>3, <1>4 DEF IDs, p

\* The type invariant of the queue, as membership in a set of records.
LEMMA QueueFields ==
  ASSUME NEW q
  PROVE  IsQueue(q) <=> q \in QueueType
  <1>1. IsQueue(q) <=>
            /\ q = [IsDurable |-> FALSE, IsAutoDelete |-> FALSE,
                    MaxAttempts |-> MaxAttempts, Filters |-> {},
                    Ready |-> q.Ready, InFlight |-> q.InFlight,
                    Consumers |-> q.Consumers, readyNotify |-> q.readyNotify]
            /\ q.Ready \in Seq(Delivery)
            /\ q.InFlight \in InFlightMaps(DeliveryIDs, Consumers)
            /\ q.Consumers \subseteq Consumers
            /\ q.readyNotify \subseteq Fetchers
    BY InFlightMap DEF IsQueue
  <1>2. q \in QueueType <=>
            /\ q = [IsDurable |-> q.IsDurable, IsAutoDelete |-> q.IsAutoDelete,
                    MaxAttempts |-> q.MaxAttempts, Filters |-> q.Filters,
                    Ready |-> q.Ready, InFlight |-> q.InFlight,
                    Consumers |-> q.Consumers, readyNotify |-> q.readyNotify]
            /\ q.IsDurable = FALSE /\ q.IsAutoDelete = FALSE
            /\ q.MaxAttempts = MaxAttempts /\ q.Filters = {}
            /\ q.Ready \in Seq(Delivery)
            /\ q.InFlight \in InFlightMaps(DeliveryIDs, Consumers)
            /\ q.Consumers \subseteq Consumers
            /\ q.readyNotify \subseteq Fetchers
    BY DEF Queues, Empty, NewQueue
  <1>3. ASSUME IsQueue(q)
        PROVE  /\ q.IsDurable = FALSE /\ q.IsAutoDelete = FALSE
               /\ q.MaxAttempts = MaxAttempts /\ q.Filters = {}
    BY <1>1, <1>3
  <1>4. IsQueue(q) => q \in QueueType
    BY <1>1, <1>2, <1>3
  <1>5. q \in QueueType => IsQueue(q)
    BY <1>1, <1>2
  <1> QED
    BY <1>4, <1>5

\* The initial state is well typed.
LEMMA InitType == Init => TypeOK
  <1>1. Idle \in FetchCall
    BY DEF Idle, FetchCall
  <1>2. Empty \in QueueType
    BY NewQueueIn DEF Empty
  <1>3. IsQueue(Empty)
    BY <1>2, QueueFields
  <1> QED
    BY <1>1, <1>3, EmptySeq DEF Init, TypeOK, Empty

----------------------------------------------------------------------------
(***************************************************************************)
(* The inductive invariant: the conjunction of the invariants TLC checks.  *)
(* None of the parts stands alone: the moves of ExactlyOnePlace need that  *)
(* an in-flight record carries its own key, NoLostWakeup needs the type of *)
(* Ready, and the count of InFlightWithinLimit needs finite sets.          *)
(***************************************************************************)
IInv == /\ TypeOK
        /\ ExactlyOnePlace
        /\ HeldByRegistered
        /\ NoLostWakeup
        /\ InFlightWithinLimit

\* The same formula as an operator on values, so that the lemmas above apply
\* to the state before and to the state after a step.
Settled(q, cr, ak, dd) ==
    /\ IDs(q) \cap IDsOf(ak \cup dd) = {}
    /\ IDsOf(ak) \cap IDsOf(dd) = {}
    /\ ToSet(cr) = IDs(q) \cup IDsOf(ak \cup dd)

Waiting(q, fe) ==
    \A f \in Fetchers :
        f \in q.readyNotify => fe[f].pc = "wait" /\ q.Ready = << >>

Within(q) ==
    MaxInFlight > 0 => \A c \in Consumers :
                          Cardinality(InFlightOf(q, c)) <= MaxInFlight

Histories(cr, ak, dd) ==
    cr \in Seq(DeliveryIDs) /\ ak \subseteq Delivery /\ dd \subseteq Delivery

Inv(q, fe, cr, ak, dd) ==
    /\ q \in QueueType
    /\ fe \in [Fetchers -> FetchCall]
    /\ Histories(cr, ak, dd)
    /\ Sound(q)
    /\ Settled(q, cr, ak, dd)
    /\ Waiting(q, fe)
    /\ Within(q)

\* Inv is IInv in the current state, ...
LEMMA InvNow == IInv <=> Inv(queue, fetch, created, acked, dead)
  BY QueueFields
     DEF IInv, Inv, TypeOK, ExactlyOnePlace, HeldByRegistered, NoLostWakeup,
         InFlightWithinLimit, Histories, Sound, Settled, Waiting, Within, IDs,
         SeqIDs, Distinct, Free, ReadyIDs, InFlightIDs

\* ... and in the next one.
LEMMA InvNext == IInv' <=> Inv(queue', fetch', created', acked', dead')
  BY QueueFields
     DEF IInv, Inv, TypeOK, ExactlyOnePlace, HeldByRegistered, NoLostWakeup,
         InFlightWithinLimit, Histories, Sound, Settled, Waiting, Within, IDs,
         SeqIDs, Distinct, Free, ReadyIDs, InFlightIDs

\* A step that gives no consumer a new delivery keeps the limit.
LEMMA WithinKept ==
  ASSUME NEW q \in QueueType, NEW r \in QueueType, Within(q), NoMoreInFlight(q, r)
  PROVE  Within(r)
  <1> SUFFICES ASSUME MaxInFlight > 0, NEW c \in Consumers
               PROVE  Cardinality(InFlightOf(r, c)) <= MaxInFlight
    BY DEF Within
  <1> DEFINE m == Cardinality(InFlightOf(q, c))
             n == Cardinality(InFlightOf(r, c))
  <1>1. m <= MaxInFlight
    BY DEF Within
  <1>2. n <= m
    BY InFlightFinite, FS_Subset, QueueAssumption DEF NoMoreInFlight
  <1>3. m \in Nat /\ n \in Nat
    BY InFlightFinite, QueueAssumption
  <1> QED
    BY <1>1, <1>2, <1>3, QueueAssumption

\* A step that wakes the waiting calls where it must loses no wake-up.
LEMMA WaitingKept ==
  ASSUME NEW q, NEW r, NEW fe, NEW fe2, Waiting(q, fe), Wakes(q, r),
         \A f \in Fetchers : fe[f].pc = "wait" => fe2[f].pc = "wait"
  PROVE  Waiting(r, fe2)
  BY DEF Waiting, Wakes
----------------------------------------------------------------------------
\* The invariant holds in the initial state.
LEMMA InitInv == Init => IInv
  <1> SUFFICES ASSUME Init PROVE IInv
    OBVIOUS
  <1> DEFINE q == NewQueue(FALSE, FALSE, MaxAttempts, {})
  <1>1. TypeOK
    BY InitType
  <1>2. /\ queue = q
        /\ q.Ready = << >>
        /\ DOMAIN q.InFlight = {}
        /\ q.readyNotify = {}
    BY DEF Init, NewQueue
  <1> HIDE DEF q
  <1>3. DOMAIN queue.Ready = {} /\ ReadyIDs = {} /\ InFlightIDs = {}
    BY <1>2 DEF ReadyIDs, InFlightIDs
  <1>4. ExactlyOnePlace /\ HeldByRegistered
    <2>1. /\ IDsOf(acked) = {} /\ IDsOf(dead) = {} /\ IDsOf(acked \cup dead) = {}
          /\ ToSet(created) = {}
      BY DEF Init, IDsOf, ToSet
    <2> QED
      BY <1>3, <2>1 DEF ExactlyOnePlace, HeldByRegistered
  <1>5. NoLostWakeup
    BY <1>2 DEF NoLostWakeup
  <1>6. InFlightWithinLimit
    <2>1. \A c : InFlightOf(queue, c) = {}
      BY <1>2 DEF InFlightOf
    <2> QED
      BY <2>1, FS_EmptySet, QueueAssumption DEF InFlightWithinLimit
  <1> QED
    BY <1>1, <1>4, <1>5, <1>6 DEF IInv

\* A step changes nothing that the invariant is about except what one queue
\* method does; each action cites the lemma of its method.
LEMMA NextInv == IInv /\ [Next]_vars => IInv'
  <1> SUFFICES ASSUME IInv, [Next]_vars PROVE IInv'
    OBVIOUS
  <1>1. Inv(queue, fetch, created, acked, dead)
    BY InvNow
  <1>2. /\ queue \in QueueType
        /\ fetch \in [Fetchers -> FetchCall]
        /\ Histories(created, acked, dead)
        /\ Sound(queue)
        /\ Settled(queue, created, acked, dead)
        /\ Waiting(queue, fetch)
        /\ Within(queue)
    BY <1>1 DEF Inv
  <1> SUFFICES Inv(queue', fetch', created', acked', dead')
    BY InvNext
  <1>3. Idle \in FetchCall /\ Idle.pc = "idle"
    BY DEF Idle, FetchCall
  <1>4. ASSUME NEW id \in DeliveryIDs, EnqueueDelivery(id)
        PROVE  Inv(queue', fetch', created', acked', dead')
    <2> DEFINE d == NewDelivery(id)
    <2>1. d \in Delivery /\ d.ID = id /\ d.ConsumerID = NoConsumer
      BY DEF NewDelivery, Deliveries
    <2>2. id \notin IDs(queue) \cup IDsOf(acked \cup dead)
      BY <1>2, <1>4 DEF EnqueueDelivery, Settled
    <2>3. /\ queue' = Enqueued(queue, d)
          /\ created' = Append(created, id)
          /\ UNCHANGED <<fetch, acked, dead>>
      BY <1>4 DEF EnqueueDelivery
    <2> HIDE DEF d
    <2>4. /\ queue' \in QueueType
          /\ Sound(queue')
          /\ IDs(queue') = IDs(queue) \cup {id}
          /\ Wakes(queue, queue')
          /\ NoMoreInFlight(queue, queue')
      BY <1>2, <2>1, <2>2, <2>3, EnqueuedFields, EnqueuedSound
    <2>5. Histories(created', acked', dead')
          /\ ToSet(created') = ToSet(created) \cup {id}
      <3>1. created \in Seq(DeliveryIDs)
        BY <1>2 DEF Histories
      <3>2. /\ created' \in Seq(DeliveryIDs)
            /\ Len(created') = Len(created) + 1
            /\ \A i \in 1..Len(created) : created'[i] = created[i]
            /\ created'[Len(created) + 1] = id
        BY <2>3, <3>1, AppendProperties
      <3>3. /\ DOMAIN created = 1..Len(created)
            /\ DOMAIN created' = 1..(Len(created) + 1)
            /\ Len(created) \in Nat
        BY <3>1, <3>2, LenProperties
      <3> QED
        BY <1>2, <2>3, <3>2, <3>3 DEF Histories, ToSet
    <2>6. Settled(queue', created', acked', dead')
      BY <1>2, <2>2, <2>3, <2>4, <2>5 DEF Settled
    <2>7. Waiting(queue', fetch')
      BY <1>2, <2>3, <2>4, WaitingKept
    <2>8. Within(queue')
      BY <1>2, <2>4, WithinKept
    <2> QED
      BY <1>2, <2>3, <2>4, <2>5, <2>6, <2>7, <2>8 DEF Inv
  <1>5. ASSUME NEW c \in Consumers, AddConsumer(c)
        PROVE  Inv(queue', fetch', created', acked', dead')
    <2>1. queue' = WithConsumer(queue, c) /\ UNCHANGED <<fetch, created, acked, dead>>
      BY <1>5 DEF AddConsumer
    <2>2. /\ queue' \in QueueType
          /\ Sound(queue')
          /\ IDs(queue') = IDs(queue)
          /\ Wakes(queue, queue')
          /\ NoMoreInFlight(queue, queue')
      BY <1>2, <2>1, WithConsumerSound
    <2>3. Waiting(queue', fetch') /\ Within(queue')
      BY <1>2, <2>1, <2>2, WaitingKept, WithinKept
    <2> QED
      BY <1>2, <2>1, <2>2, <2>3 DEF Inv, Settled
  <1>6. ASSUME NEW c \in Consumers, DisconnectConsumer(c)
        PROVE  Inv(queue', fetch', created', acked', dead')
    <2>1. PICK order \in ReturnOrders(queue, c) : queue' = Disconnected(queue, c, order)
      BY <1>6 DEF DisconnectConsumer
    <2>2. UNCHANGED <<fetch, created, acked, dead>>
      BY <1>6 DEF DisconnectConsumer
    <2>3. /\ queue' \in QueueType
          /\ Sound(queue')
          /\ IDs(queue') = IDs(queue)
          /\ Wakes(queue, queue')
          /\ NoMoreInFlight(queue, queue')
      BY <1>2, <2>1, DisconnectedSound, QueueAssumption
    <2>4. Waiting(queue', fetch') /\ Within(queue')
      BY <1>2, <2>2, <2>3, WaitingKept, WithinKept
    <2> QED
      BY <1>2, <2>2, <2>3, <2>4 DEF Inv, Settled
  <1>7. ASSUME NEW id \in DeliveryIDs, NEW c \in Consumers, Ack(id, c)
        PROVE  Inv(queue', fetch', created', acked', dead')
    <2> DEFINE d == queue.InFlight[id]
    <2>1. /\ id \in DOMAIN queue.InFlight
          /\ queue' = Acked(queue, id)
          /\ acked' = acked \cup {d}
          /\ UNCHANGED <<fetch, created, dead>>
      BY <1>7 DEF Ack, Holds
    <2>2. d \in Delivery /\ d.ID = id
      BY <1>2, <2>1, InFlightDelivery DEF Sound
    <2> HIDE DEF d
    <2>3. /\ queue' \in QueueType
          /\ Sound(queue')
          /\ IDs(queue') = IDs(queue) \ {id}
          /\ Wakes(queue, queue')
          /\ NoMoreInFlight(queue, queue')
      <3>1. queue' \in QueueType
        BY <1>2, <2>1, AckedFields
      <3> QED
        BY <1>2, <2>1, <3>1, AckedSound
    <2>4. id \in IDs(queue)
      BY <2>1 DEF IDs
    <2>5. IDsOf(acked') = IDsOf(acked) \cup {id}
          /\ IDsOf(acked' \cup dead') = IDsOf(acked \cup dead) \cup {id}
      BY <2>1, <2>2 DEF IDsOf
    <2>6. Settled(queue', created', acked', dead')
      <3>1. IDsOf(dead) \subseteq IDsOf(acked \cup dead)
        BY DEF IDsOf
      <3> QED
        BY <1>2, <2>1, <2>3, <2>4, <2>5, <3>1, ZenonT(60) DEF Settled
    <2>7. Waiting(queue', fetch') /\ Within(queue')
      BY <1>2, <2>1, <2>3, WaitingKept, WithinKept
    <2> QED
      BY <1>2, <2>1, <2>2, <2>3, <2>6, <2>7 DEF Inv, Histories
  <1>8. ASSUME NEW id \in DeliveryIDs, NEW c \in Consumers, NAck(id, c)
        PROVE  Inv(queue', fetch', created', acked', dead')
    <2> DEFINE d == queue.InFlight[id]
               toDead == ShouldDeadLetter(queue, d)
    <2>1. /\ id \in DOMAIN queue.InFlight
          /\ queue' = Rejected(queue, id)
          /\ dead' = IF toDead THEN dead \cup {d} ELSE dead
          /\ UNCHANGED <<fetch, created, acked>>
      BY <1>8 DEF NAck, Holds
    <2>2. d \in Delivery /\ d.ID = id
      BY <1>2, <2>1, InFlightDelivery DEF Sound
    <2>3. /\ queue' \in QueueType
          /\ Sound(queue')
          /\ IDs(queue') = IF toDead THEN IDs(queue) \ {id} ELSE IDs(queue)
          /\ Wakes(queue, queue')
          /\ NoMoreInFlight(queue, queue')
      BY <1>2, <2>1, RejectedSound
    <2> HIDE DEF d, toDead
    <2>4. id \in IDs(queue)
      BY <2>1 DEF IDs
    <2>5. Settled(queue', created', acked', dead')
      <3>1. IDsOf(acked) \subseteq IDsOf(acked \cup dead)
        BY DEF IDsOf
      <3>2. CASE toDead
        <4>1. IDsOf(dead') = IDsOf(dead) \cup {id}
              /\ IDsOf(acked' \cup dead') = IDsOf(acked \cup dead) \cup {id}
          BY <2>1, <2>2, <3>2 DEF IDsOf
        <4> QED
          BY <1>2, <2>1, <2>3, <2>4, <3>1, <3>2, <4>1, SMTT(60) DEF Settled
      <3>3. CASE ~toDead
        BY <1>2, <2>1, <2>3, <3>3 DEF Settled
      <3> QED
        BY <3>2, <3>3
    <2>6. Waiting(queue', fetch') /\ Within(queue')
      BY <1>2, <2>1, <2>3, WaitingKept, WithinKept
    <2> QED
      BY <1>2, <2>1, <2>2, <2>3, <2>5, <2>6 DEF Inv, Histories
  <1>9. ASSUME UNCHANGED <<queue, created, acked, dead>>,
               fetch' \in [Fetchers -> FetchCall],
               \A g \in Fetchers : g \in queue.readyNotify => fetch'[g].pc = "wait"
        PROVE  Inv(queue', fetch', created', acked', dead')
    BY <1>2, <1>9 DEF Inv, Waiting
  <1>10. ASSUME NEW f \in Fetchers, NEW c \in Consumers,
                NEW timer \in {"none", "armed"}, StartFetch(f, c, timer)
         PROVE  Inv(queue', fetch', created', acked', dead')
    <2> DEFINE call == [pc |-> "loop", consumer |-> c, timer |-> timer]
    <2>1. call \in FetchCall
      BY DEF FetchCall
    <2>2. /\ fetch[f].pc = "idle"
          /\ fetch' = [fetch EXCEPT ![f] = call]
          /\ UNCHANGED <<queue, created, acked, dead>>
      BY <1>10 DEF StartFetch
    <2> HIDE DEF call
    <2>3. f \notin queue.readyNotify
      BY <1>2, <2>2 DEF Waiting
    <2> QED
      BY <1>2, <1>9, <2>1, <2>2, <2>3 DEF Waiting
  <1>11. ASSUME NEW f \in Fetchers, fetch[f].pc # "wait",
                fetch' = [fetch EXCEPT ![f] = Idle],
                UNCHANGED <<queue, created, acked, dead>>
         PROVE  Inv(queue', fetch', created', acked', dead')
    BY <1>2, <1>3, <1>9, <1>11 DEF Waiting
  <1>12. ASSUME NEW f \in Fetchers, FetchReady(f)
         PROVE  Inv(queue', fetch', created', acked', dead')
    <2> DEFINE c == fetch[f].consumer
               h == Head(queue.Ready).ID
    <2>1. /\ fetch[f].pc = "loop"
          /\ c \in queue.Consumers
          /\ MaxInFlight > 0 => Cardinality(InFlightOf(queue, c)) < MaxInFlight
          /\ queue.Ready # << >>
          /\ queue' = Fetched(Counting(queue), c)
          /\ fetch' = [fetch EXCEPT ![f] = Idle]
          /\ UNCHANGED <<created, acked, dead>>
      BY <1>12 DEF FetchReady, FetchAllowed
    <2> HIDE DEF c
    <2>2. c \in Consumers
      BY <1>2, <2>1 DEF Queues
    <2>3. /\ queue' \in QueueType
          /\ Sound(queue')
          /\ IDs(queue') = IDs(queue)
          /\ Wakes(queue, queue')
          /\ InFlightOf(queue', c) = InFlightOf(queue, c) \cup {h}
          /\ \A b : b # c => InFlightOf(queue', b) \subseteq InFlightOf(queue, b)
      <3> DEFINE p == Counting(queue)
      <3>1. /\ p \in QueueType /\ p.Ready # << >> /\ p.Consumers = queue.Consumers
            /\ p.readyNotify = queue.readyNotify /\ Head(p.Ready).ID = h
        BY <1>2, <2>1, CountingFields
      <3>2. Sound(p) /\ IDs(p) = IDs(queue) /\ \A b : InFlightOf(p, b) = InFlightOf(queue, b)
        BY <1>2, <2>1, CountingSame
      <3> HIDE DEF p, h
      <3>3. /\ queue' \in QueueType
            /\ Sound(queue')
            /\ IDs(queue') = IDs(p)
            /\ Wakes(p, queue')
            /\ InFlightOf(queue', c) = InFlightOf(p, c) \cup {h}
            /\ \A b : b # c => InFlightOf(queue', b) \subseteq InFlightOf(p, b)
        BY <2>1, <2>2, <3>1, <3>2, FetchedSound DEF p
      <3>4. Wakes(queue, queue')
        BY <2>1, <3>1, <3>3 DEF Wakes
      <3> QED
        BY <3>2, <3>3, <3>4
    <2> HIDE DEF h
    <2>4. Within(queue')
      <3> SUFFICES ASSUME MaxInFlight > 0, NEW b \in Consumers
                   PROVE  Cardinality(InFlightOf(queue', b)) <= MaxInFlight
        BY DEF Within
      <3> DEFINE S == InFlightOf(queue, b)
      <3>1. IsFiniteSet(S) /\ Cardinality(S) \in Nat /\ Cardinality(S) <= MaxInFlight
        BY <1>2, InFlightFinite, QueueAssumption DEF Within
      <3> HIDE DEF S
      <3>2. CASE b = c
        <4>1. Cardinality(S \cup {h}) <= Cardinality(S) + 1
          BY <3>1, FS_AddElement
        <4>2. Cardinality(S) < MaxInFlight /\ InFlightOf(queue', b) = S \cup {h}
          BY <2>1, <2>3, <3>2 DEF S
        <4>3. Cardinality(InFlightOf(queue', b)) \in Nat
          BY <2>3, InFlightFinite, QueueAssumption
        <4> QED
          BY <3>1, <4>1, <4>2, <4>3, QueueAssumption
      <3>3. CASE b # c
        <4>1. InFlightOf(queue', b) \in SUBSET S
          BY <2>3, <3>3 DEF S
        <4>2. Cardinality(InFlightOf(queue', b)) <= Cardinality(S)
          BY <3>1, <4>1, FS_Subset
        <4>3. Cardinality(InFlightOf(queue', b)) \in Nat
          BY <2>3, InFlightFinite, QueueAssumption
        <4> QED
          BY <3>1, <4>2, <4>3, QueueAssumption
      <3> QED
        BY <3>2, <3>3
    <2>5. fetch' \in [Fetchers -> FetchCall]
      BY <1>2, <1>3, <2>1
    <2>6. Waiting(queue', fetch')
      <3>1. \A g \in Fetchers : fetch[g].pc = "wait" => fetch'[g].pc = "wait"
        BY <1>2, <2>1
      <3> QED
        BY <1>2, <2>3, <3>1, WaitingKept
    <2> QED
      BY <1>2, <2>1, <2>3, <2>4, <2>5, <2>6 DEF Inv, Settled
  <1>13. ASSUME NEW f \in Fetchers, FetchRefused(f)
         PROVE  Inv(queue', fetch', created', acked', dead')
    BY <1>11, <1>13 DEF FetchRefused
  <1>14. ASSUME NEW w \in SUBSET Fetchers,
                queue' = [queue EXCEPT !.readyNotify = w],
                fetch' \in [Fetchers -> FetchCall],
                UNCHANGED <<created, acked, dead>>,
                \A g \in w : fetch'[g].pc = "wait" /\ queue.Ready = << >>
         PROVE  Inv(queue', fetch', created', acked', dead')
    <2>1. /\ queue' \in QueueType
          /\ Sound(queue')
          /\ IDs(queue') = IDs(queue)
          /\ queue'.Ready = queue.Ready
          /\ queue'.readyNotify = w
          /\ NoMoreInFlight(queue, queue')
      <3> DEFINE r == [queue EXCEPT !.readyNotify = w]
      <3>1. /\ r \in QueueType /\ Sound(r) /\ IDs(r) = IDs(queue)
            /\ r.Ready = queue.Ready /\ r.readyNotify = w
            /\ NoMoreInFlight(queue, r)
        BY <1>2, WaitersOnly
      <3>2. queue' = r
        BY <1>14
      <3> HIDE DEF r
      <3> QED
        BY <3>1, <3>2
    <2>2. Waiting(queue', fetch')
      BY <1>14, <2>1 DEF Waiting
    <2>3. Within(queue')
      BY <1>2, <2>1, WithinKept
    <2> QED
      BY <1>2, <1>14, <2>1, <2>2, <2>3 DEF Inv, Settled
  <1>15. queue.readyNotify \subseteq Fetchers
    BY <1>2 DEF Queues
  <1>16. ASSUME NEW f \in Fetchers, FetchEmpty(f)
         PROVE  Inv(queue', fetch', created', acked', dead')
    <2>1. CASE fetch[f].timer = "none"
      BY <1>11, <1>16, <2>1 DEF FetchEmpty
    <2>2. CASE fetch[f].timer # "none"
      <3> DEFINE w == queue.readyNotify \cup {f}
      <3>1. /\ queue.Ready = << >>
            /\ queue' = [queue EXCEPT !.readyNotify = w]
            /\ fetch' = [fetch EXCEPT ![f].pc = "wait"]
            /\ UNCHANGED <<created, acked, dead>>
        BY <1>16, <2>2 DEF FetchEmpty, WaitingOn
      <3>2. fetch' \in [Fetchers -> FetchCall] /\ fetch'[f].pc = "wait"
        BY <1>2, <3>1 DEF FetchCall
      <3>3. w \in SUBSET Fetchers
        BY <1>15
      <3>4. \A g \in w : fetch'[g].pc = "wait"
        BY <1>2, <1>15, <3>1, <3>2 DEF Waiting
      <3> HIDE DEF w
      <3> QED
        BY <1>14, <3>1, <3>2, <3>3, <3>4
    <2> QED
      BY <2>1, <2>2
  <1>17. ASSUME NEW f \in Fetchers, WakeUp(f)
         PROVE  Inv(queue', fetch', created', acked', dead')
    <2>1. fetch' \in [Fetchers -> FetchCall]
      BY <1>2, <1>17 DEF WakeUp, FetchCall
    <2> QED
      BY <1>2, <1>9, <1>17, <2>1 DEF WakeUp, Waiting
  <1>18. ASSUME NEW f \in Fetchers, StopWaiting(f)
         PROVE  Inv(queue', fetch', created', acked', dead')
    <2> DEFINE w == queue.readyNotify \ {f}
    <2>1. /\ queue' = [queue EXCEPT !.readyNotify = w]
          /\ fetch' = [fetch EXCEPT ![f] = Idle]
          /\ UNCHANGED <<created, acked, dead>>
      BY <1>18 DEF StopWaiting
    <2>2. fetch' \in [Fetchers -> FetchCall]
      BY <1>2, <1>3, <2>1
    <2>3. /\ w \in SUBSET Fetchers
          /\ \A g \in w : fetch'[g].pc = "wait" /\ queue.Ready = << >>
      BY <1>2, <1>15, <2>1 DEF Waiting
    <2> HIDE DEF w
    <2> QED
      BY <1>14, <2>1, <2>2, <2>3
  <1>19. ASSUME NEW f \in Fetchers, TimerFires(f)
         PROVE  Inv(queue', fetch', created', acked', dead')
    <2>1. fetch' \in [Fetchers -> FetchCall]
      BY <1>2, <1>19 DEF TimerFires, FetchCall
    <2>2. \A g \in Fetchers : fetch'[g].pc = fetch[g].pc
      BY <1>2, <1>19 DEF TimerFires, FetchCall
    <2> QED
      BY <1>2, <1>9, <1>19, <2>1, <2>2 DEF TimerFires, Waiting
  <1>20. CASE UNCHANGED vars
    BY <1>2, <1>20 DEF vars, Inv
  <1> QED
    BY <1>4, <1>5, <1>6, <1>7, <1>8, <1>10, <1>12, <1>13, <1>16, <1>17, <1>18,
       <1>19, <1>20 DEF Next, FetchOrWait, FetchTimeout, FetchCancelled

\* The invariant holds in every reachable state.
LEMMA Inductive == Spec => []IInv
  BY InitInv, NextInv, PTL DEF Spec

\* The fields of the queue and the fetch calls keep their types.
THEOREM TypeCorrect == Spec => []TypeOK
  <1>1. IInv => TypeOK
    BY DEF IInv
  <1> QED
    BY <1>1, Inductive, PTL

\* No sequence of calls loses or doubles a delivery.
THEOREM NothingLost == Spec => []ExactlyOnePlace
  <1>1. IInv => ExactlyOnePlace
    BY DEF IInv
  <1> QED
    BY <1>1, Inductive, PTL

\* No delivery is stranded with a consumer that has left.
THEOREM NoStrandedDelivery == Spec => []HeldByRegistered
  <1>1. IInv => HeldByRegistered
    BY DEF IInv
  <1> QED
    BY <1>1, Inductive, PTL

\* No fetch call is left waiting on the open channel of a non-empty queue.
THEOREM WakeupsKept == Spec => []NoLostWakeup
  <1>1. IInv => NoLostWakeup
    BY DEF IInv
  <1> QED
    BY <1>1, Inductive, PTL

\* Concurrent fetch calls of one consumer together respect MaxInFlight.
THEOREM LimitRespected == Spec => []InFlightWithinLimit
  <1>1. IInv => InFlightWithinLimit
    BY DEF IInv
  <1> QED
    BY <1>1, Inductive, PTL
----------------------------------------------------------------------------
(***************************************************************************)
(* First hand-outs follow the order of publication.                        *)
(*                                                                         *)
(* FirstFetchInOrder alone is not inductive: which delivery a fetch takes  *)
(* depends on where it stands in Ready.  The strengthening says that the   *)
(* never-fetched deliveries stand in Ready in the order of their creation, *)
(* that no id is created twice, and that whatever is in flight has been    *)
(* handed out before, so that a delivery Reject or DisconnectConsumer      *)
(* appends behind the others is none of the never-fetched ones.            *)
(***************************************************************************)
Fresh(s, id) == \E r \in DOMAIN s : s[r].ID = id /\ s[r].Attempts = 0

Once(cr) == \A i, j \in DOMAIN cr : cr[i] = cr[j] => i = j

InOrder(s, cr) ==
    \A i, j \in DOMAIN cr : \A r, t \in DOMAIN s :
        /\ i < j
        /\ cr[i] = s[r].ID /\ s[r].Attempts = 0
        /\ cr[j] = s[t].ID /\ s[t].Attempts = 0
        => r < t

LaterToo(s, cr) ==
    \A i, j \in DOMAIN cr : i < j /\ Fresh(s, cr[i]) => Fresh(s, cr[j])

HandedOut(q) == \A id \in DOMAIN q.InFlight : q.InFlight[id].Attempts # 0

Ordered(q, cr) ==
    Once(cr) /\ InOrder(q.Ready, cr) /\ LaterToo(q.Ready, cr) /\ HandedOut(q)

\* Ready grows by deliveries that were fetched before, or not at all.
Requeued(s, t) ==
    /\ \A i \in DOMAIN s : i \in DOMAIN t /\ t[i] = s[i]
    /\ \A i \in DOMAIN t : i \in DOMAIN s \/ t[i].Attempts # 0

\* Such a step leaves the never-fetched deliveries where they are.
LEMMA RequeuedOrdered ==
  ASSUME NEW s, NEW t, NEW cr, Requeued(s, t), InOrder(s, cr), LaterToo(s, cr)
  PROVE  InOrder(t, cr) /\ LaterToo(t, cr)
  <1>1. \A i \in DOMAIN t : t[i].Attempts = 0 => i \in DOMAIN s /\ s[i] = t[i]
    BY DEF Requeued
  <1>2. \A id : Fresh(t, id) <=> Fresh(s, id)
    BY <1>1 DEF Fresh, Requeued
  <1>3. LaterToo(t, cr)
    BY <1>2 DEF LaterToo
  <1>4. InOrder(t, cr)
    BY <1>1 DEF InOrder
  <1> QED
    BY <1>3, <1>4

\* EnqueueDelivery: the newest delivery goes behind all the others.
LEMMA AppendedOrdered ==
  ASSUME NEW s \in Seq(Delivery), NEW cr \in Seq(DeliveryIDs),
         NEW d \in Delivery, d.Attempts = 0,
         d.ID \notin ToSet(cr), SeqIDs(s) \subseteq ToSet(cr),
         Once(cr), InOrder(s, cr), LaterToo(s, cr)
  PROVE  /\ Once(Append(cr, d.ID))
         /\ InOrder(Append(s, d), Append(cr, d.ID))
         /\ LaterToo(Append(s, d), Append(cr, d.ID))
  <1> DEFINE t == Append(s, d)
             cs == Append(cr, d.ID)
             m == Len(s) + 1
             n == Len(cr) + 1
  <1>0. d.ID \in DeliveryIDs
    BY DEF Deliveries
  <1>1. /\ Len(t) = Len(s) + 1
        /\ \A i \in 1..Len(s) : t[i] = s[i]
        /\ t[Len(s) + 1] = d
        /\ DOMAIN t = 1..(Len(s) + 1)
        /\ DOMAIN s = 1..Len(s)
        /\ Len(s) \in Nat
    BY AppendProperties, LenProperties
  <1>2. /\ Len(cs) = Len(cr) + 1
        /\ \A i \in 1..Len(cr) : cs[i] = cr[i]
        /\ cs[Len(cr) + 1] = d.ID
        /\ DOMAIN cs = 1..(Len(cr) + 1)
        /\ DOMAIN cr = 1..Len(cr)
        /\ Len(cr) \in Nat
    BY <1>0, AppendProperties, LenProperties
  <1> HIDE DEF t, cs
  <1>3. /\ \A i \in DOMAIN t : (i \in DOMAIN s /\ t[i] = s[i] /\ i < m) \/ i = m
        /\ \A i \in DOMAIN s : i \in DOMAIN t /\ t[i] = s[i]
        /\ m \in DOMAIN t /\ t[m] = d
    BY <1>1
  <1>4. /\ \A i \in DOMAIN cs : (i \in DOMAIN cr /\ cs[i] = cr[i] /\ i < n) \/ i = n
        /\ cs[n] = d.ID
        /\ \A i \in DOMAIN cs : i \in Int
        /\ \A i \in DOMAIN cs : ~(n < i)
    BY <1>2
  <1>5. \A i \in DOMAIN cr : cr[i] # d.ID
    BY DEF ToSet
  <1>6. \A r \in DOMAIN s : s[r].ID # d.ID
    BY DEF SeqIDs
  <1> HIDE DEF m, n
  <1>7. Once(cs)
    BY <1>4, <1>5 DEF Once
  <1>8. \A id : id # d.ID => (Fresh(t, id) <=> Fresh(s, id))
    BY <1>3 DEF Fresh
  <1>9. Fresh(t, d.ID)
    BY <1>3 DEF Fresh
  <1>11. LaterToo(t, cs)
    <2> SUFFICES ASSUME NEW i \in DOMAIN cs, NEW j \in DOMAIN cs,
                        i < j, Fresh(t, cs[i])
                 PROVE  Fresh(t, cs[j])
      BY DEF LaterToo
    <2>1. CASE j = n
      BY <1>4, <1>9, <2>1
    <2>2. CASE j # n
      <3>1. i # n
        BY <1>4
      <3>2. i \in DOMAIN cr /\ cs[i] = cr[i] /\ j \in DOMAIN cr /\ cs[j] = cr[j]
        BY <1>4, <2>2, <3>1
      <3> QED
        BY <1>5, <1>8, <3>2 DEF LaterToo
    <2> QED
      BY <2>1, <2>2
  <1>12. InOrder(t, cs)
    <2> SUFFICES ASSUME NEW i \in DOMAIN cs, NEW j \in DOMAIN cs,
                        NEW r \in DOMAIN t, NEW k \in DOMAIN t, i < j,
                        cs[i] = t[r].ID, t[r].Attempts = 0,
                        cs[j] = t[k].ID, t[k].Attempts = 0
                 PROVE  r < k
      BY DEF InOrder
    <2>1. i \in DOMAIN cr /\ cs[i] = cr[i]
      BY <1>4
    <2>2. r \in DOMAIN s /\ t[r] = s[r] /\ r < m
      BY <1>3, <1>5, <2>1
    <2>3. CASE j = n
      BY <1>3, <1>4, <1>6, <2>2, <2>3
    <2>4. CASE j # n
      <3>1. j \in DOMAIN cr /\ cs[j] = cr[j]
        BY <1>4, <2>4
      <3>2. k \in DOMAIN s /\ t[k] = s[k]
        BY <1>3, <1>5, <3>1
      <3> QED
        BY <2>1, <2>2, <3>1, <3>2 DEF InOrder
    <2> QED
      BY <2>3, <2>4
  <1> QED
    BY <1>7, <1>11, <1>12 DEF t, cs

\* FetchOrWait takes the head: if that was never fetched, it is the oldest
\* of the never-fetched deliveries.
LEMMA TakenOrdered ==
  ASSUME NEW s \in Seq(Delivery), s # << >>,
         NEW cr, InOrder(s, cr), LaterToo(s, cr)
  PROVE  InOrder(Tail(s), cr) /\ LaterToo(Tail(s), cr)
  <1> DEFINE t == Tail(s)
  <1>1. /\ t \in Seq(Delivery)
        /\ Len(t) = Len(s) - 1
        /\ \A i \in 1..Len(t) : t[i] = s[i + 1]
    BY HeadTailProperties
  <1>2. /\ Len(s) \in Nat \ {0}
        /\ DOMAIN s = 1..Len(s)
        /\ DOMAIN t = 1..(Len(s) - 1)
    BY <1>1, LenProperties, EmptySeq
  <1> HIDE DEF t
  <1>3. \A i \in DOMAIN t : i \in Int /\ i + 1 \in DOMAIN s /\ t[i] = s[i + 1]
    BY <1>1, <1>2
  <1>4. \A i \in DOMAIN s \ {1} : i - 1 \in DOMAIN t /\ t[i - 1] = s[i]
    BY <1>1, <1>2
  <1>5. 1 \in DOMAIN s /\ \A i \in DOMAIN s : ~(i < 1)
    BY <1>2
  <1>6. InOrder(t, cr)
    <2> SUFFICES ASSUME NEW i \in DOMAIN cr, NEW j \in DOMAIN cr,
                        NEW r \in DOMAIN t, NEW k \in DOMAIN t, i < j,
                        cr[i] = t[r].ID, t[r].Attempts = 0,
                        cr[j] = t[k].ID, t[k].Attempts = 0
                 PROVE  r < k
      BY DEF InOrder
    <2>1. r + 1 < k + 1
      BY <1>3 DEF InOrder
    <2> QED
      BY <1>3, <2>1
  <1>7. LaterToo(t, cr)
    <2> SUFFICES ASSUME NEW i \in DOMAIN cr, NEW j \in DOMAIN cr,
                        i < j, Fresh(t, cr[i])
                 PROVE  Fresh(t, cr[j])
      BY DEF LaterToo
    <2>1. PICK r \in DOMAIN t : t[r].ID = cr[i] /\ t[r].Attempts = 0
      BY DEF Fresh
    <2>2. r + 1 \in DOMAIN s /\ s[r + 1].ID = cr[i] /\ s[r + 1].Attempts = 0
      BY <1>3, <2>1
    <2>3. Fresh(s, cr[i])
      BY <2>2 DEF Fresh
    <2>4. Fresh(s, cr[j])
      BY <2>3 DEF LaterToo
    <2>5. PICK k \in DOMAIN s : s[k].ID = cr[j] /\ s[k].Attempts = 0
      BY <2>4 DEF Fresh
    <2>6. k # 1
      BY <1>5, <2>2, <2>5 DEF InOrder
    <2> QED
      BY <1>4, <2>5, <2>6 DEF Fresh
  <1> QED
    BY <1>6, <1>7 DEF t

\* Whatever Reject or DisconnectConsumer gives back has been handed out.
LEMMA GivenBackKept ==
  ASSUME NEW q, NEW r, NEW S, S \subseteq DOMAIN q.InFlight, GivenBack(q, r, S),
         NEW cr, Ordered(q, cr)
  PROVE  Ordered(r, cr)
  <1>1. Requeued(q.Ready, r.Ready)
    BY DEF GivenBack, Requeued, Ordered, HandedOut
  <1>2. HandedOut(r)
    BY DEF GivenBack, Kept, Ordered, HandedOut
  <1> QED
    BY <1>1, <1>2, RequeuedOrdered DEF Ordered

\* Taking a delivery out of InFlight keeps the order too.
LEMMA AckedKept ==
  ASSUME NEW q \in QueueType, NEW id, NEW cr, Ordered(q, cr)
  PROVE  Ordered(Acked(q, id), cr)
  <1>1. Acked(q, id).Ready = q.Ready /\ Kept(q.InFlight, Acked(q, id).InFlight)
    BY AckedMoves
  <1> QED
    BY <1>1 DEF Kept, Ordered, HandedOut

\* FetchOrWait: what it puts in flight is handed out by that.
LEMMA FetchedKept ==
  ASSUME NEW q \in QueueType, Sound(q), NEW c \in Consumers, q.Ready # << >>,
         NEW cr, Ordered(q, cr)
  PROVE  Ordered(Fetched(Counting(q), c), cr)
  <1> DEFINE p == Counting(q)
             r == Fetched(p, c)
             h == Head(p.Ready)
  <1>0. /\ p \in QueueType /\ p.Ready # << >> /\ Sound(p)
        /\ Tail(p.Ready) = Tail(q.Ready) /\ p.InFlight = q.InFlight
    BY CountingFields, CountingSame
  <1> HIDE DEF p
  <1>1. /\ h \in Delivery
        /\ r.Ready = Tail(q.Ready)
        /\ DOMAIN r.InFlight = DOMAIN q.InFlight \cup {h.ID}
        /\ \A x \in DOMAIN q.InFlight : r.InFlight[x] = q.InFlight[x]
        /\ r.InFlight[h.ID].Attempts = h.Attempts + 1
    BY <1>0, FetchedMoves
  <1>2. q.Ready \in Seq(Delivery)
    BY DEF Queues
  <1> HIDE DEF r, h
  <1>3. h.Attempts + 1 # 0
    BY <1>1 DEF Deliveries
  <1>4. HandedOut(r)
    BY <1>1, <1>3 DEF Ordered, HandedOut
  <1>5. InOrder(r.Ready, cr) /\ LaterToo(r.Ready, cr)
    BY <1>1, <1>2, TakenOrdered DEF Ordered
  <1> QED
    BY <1>4, <1>5 DEF Ordered, r, p
----------------------------------------------------------------------------
\* The order holds before anything is published, ...
LEMMA InitOrdered == Init => Ordered(queue, created)
  <1> SUFFICES ASSUME Init PROVE Ordered(queue, created)
    OBVIOUS
  <1>1. queue.Ready = << >> /\ DOMAIN queue.InFlight = {} /\ created = << >>
    BY DEF Init, NewQueue
  <1> QED
    BY <1>1 DEF Ordered, Once, InOrder, LaterToo, HandedOut

\* ... and every action keeps it, given the invariant of QueueProofs.
LEMMA NextOrdered ==
  IInv /\ Ordered(queue, created) /\ [Next]_vars => Ordered(queue, created)'
  <1> SUFFICES ASSUME IInv, Ordered(queue, created), [Next]_vars
               PROVE  Ordered(queue', created')
    BY DEF Ordered, Once, InOrder, LaterToo, HandedOut, Fresh
  <1>1. /\ queue \in QueueType
        /\ fetch \in [Fetchers -> FetchCall]
        /\ Histories(created, acked, dead)
        /\ Sound(queue)
        /\ Settled(queue, created, acked, dead)
    BY InvNow DEF Inv
  <1>2. ASSUME queue'.Ready = queue.Ready, queue'.InFlight = queue.InFlight,
               created' = created
        PROVE  Ordered(queue', created')
    BY <1>2 DEF Ordered, HandedOut
  <1>3. ASSUME NEW id \in DeliveryIDs, EnqueueDelivery(id)
        PROVE  Ordered(queue', created')
    <2> DEFINE d == NewDelivery(id)
    <2>1. d \in Delivery /\ d.ID = id /\ d.Attempts = 0
      BY DEF NewDelivery, Deliveries
    <2>2. /\ queue' = Enqueued(queue, d)
          /\ created' = Append(created, id)
          /\ id \notin ToSet(created)
      BY <1>3 DEF EnqueueDelivery
    <2> HIDE DEF d
    <2>3. /\ queue'.Ready = Append(queue.Ready, d)
          /\ queue'.InFlight = queue.InFlight
      BY <1>1, <2>1, <2>2, EnqueuedFields
    <2>4. queue.Ready \in Seq(Delivery) /\ created \in Seq(DeliveryIDs)
      BY <1>1 DEF Queues, Histories
    <2>5. SeqIDs(queue.Ready) \subseteq ToSet(created)
      BY <1>1 DEF Settled, IDs
    <2>6. /\ Once(created')
          /\ InOrder(queue'.Ready, created')
          /\ LaterToo(queue'.Ready, created')
      BY <2>1, <2>2, <2>3, <2>4, <2>5, AppendedOrdered DEF Ordered
    <2> QED
      BY <2>3, <2>6 DEF Ordered, HandedOut
  <1>4. ASSUME NEW c \in Consumers, AddConsumer(c)
        PROVE  Ordered(queue', created')
    <2>1. queue'.Ready = queue.Ready /\ queue'.InFlight = queue.InFlight
      BY <1>1, <1>4 DEF AddConsumer, WithConsumer, Queues
    <2> QED
      BY <1>2, <1>4, <2>1 DEF AddConsumer
  <1>5. ASSUME NEW c \in Consumers, DisconnectConsumer(c)
        PROVE  Ordered(queue', created')
    <2>1. PICK order \in ReturnOrders(queue, c) : queue' = Disconnected(queue, c, order)
      BY <1>5 DEF DisconnectConsumer
    <2>2. GivenBack(queue, queue', InFlightOf(queue, c))
      BY <1>1, <2>1, DisconnectedGivesBack, QueueAssumption
    <2>3. InFlightOf(queue, c) \subseteq DOMAIN queue.InFlight
      BY DEF InFlightOf
    <2> QED
      BY <1>5, <2>2, <2>3, GivenBackKept DEF DisconnectConsumer
  <1>6. ASSUME NEW id \in DeliveryIDs, NEW c \in Consumers, Ack(id, c)
        PROVE  Ordered(queue', created')
    BY <1>1, <1>6, AckedKept DEF Ack
  <1>7. ASSUME NEW id \in DeliveryIDs, NEW c \in Consumers, NAck(id, c)
        PROVE  Ordered(queue', created')
    <2>1. id \in DOMAIN queue.InFlight /\ queue' = Rejected(queue, id) /\ created' = created
      BY <1>7 DEF NAck, Holds
    <2>2. CASE ShouldDeadLetter(queue, queue.InFlight[id])
      BY <1>1, <2>1, <2>2, AckedKept DEF Rejected
    <2>3. CASE ~ShouldDeadLetter(queue, queue.InFlight[id])
      <3>1. GivenBack(queue, queue', {id})
        BY <1>1, <2>1, <2>3, RejectedGivesBack
      <3> QED
        BY <2>1, <3>1, GivenBackKept
    <2> QED
      BY <2>2, <2>3
  <1>8. ASSUME NEW f \in Fetchers, FetchReady(f)
        PROVE  Ordered(queue', created')
    <2> DEFINE c == fetch[f].consumer
    <2>1. /\ c \in queue.Consumers
          /\ queue.Ready # << >>
          /\ queue' = Fetched(Counting(queue), c)
          /\ created' = created
      BY <1>8 DEF FetchReady, FetchAllowed
    <2> HIDE DEF c
    <2>2. c \in Consumers
      BY <1>1, <2>1 DEF Queues
    <2> QED
      BY <1>1, <2>1, <2>2, FetchedKept
  <1>9. ASSUME NEW w, queue' = [queue EXCEPT !.readyNotify = w], created' = created
        PROVE  Ordered(queue', created')
    BY <1>1, <1>2, <1>9 DEF Queues
  <1>10. ASSUME NEW f \in Fetchers, FetchEmpty(f)
         PROVE  Ordered(queue', created')
    <2>1. CASE UNCHANGED queue
      BY <1>2, <1>10, <2>1 DEF FetchEmpty
    <2>2. CASE queue' = WaitingOn(queue, f)
      BY <1>9, <1>10, <2>2 DEF FetchEmpty, WaitingOn
    <2> QED
      BY <1>10, <2>1, <2>2 DEF FetchEmpty
  <1>11. ASSUME NEW f \in Fetchers, StopWaiting(f)
         PROVE  Ordered(queue', created')
    BY <1>9, <1>11 DEF StopWaiting
  <1>12. ASSUME UNCHANGED <<queue, created>>
         PROVE  Ordered(queue', created')
    BY <1>2, <1>12
  <1> QED
    BY <1>3, <1>4, <1>5, <1>6, <1>7, <1>8, <1>10, <1>11, <1>12
       DEF Next, vars, FetchOrWait, FetchTimeout, FetchCancelled, StartFetch,
           FetchRefused, WakeUp, TimerFires

\* First hand-outs follow the order of publication, whatever Reject and
\* DisconnectConsumer put back meanwhile.
THEOREM PublicationOrder == Spec => []FirstFetchInOrder
  <1>1. Ordered(queue, created) => FirstFetchInOrder
    BY DEF Ordered, LaterToo, Fresh, FirstFetchInOrder, NeverFetched
  <1>2. Spec => []Ordered(queue, created)
    BY Inductive, InitOrdered, NextOrdered, PTL DEF Spec
  <1> QED
    BY <1>1, <1>2, PTL
============================================================================
