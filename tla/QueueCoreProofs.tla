--------------------------- MODULE QueueCoreProofs ---------------------------
(***************************************************************************)
(* What each method of core.Queue does to a queue value: its fields, where *)
(* its deliveries are, whom it wakes and what the consumers hold.  The     *)
(* lemmas are about values, not about a specification, so that every       *)
(* module that keeps a queue in a variable can use them.                   *)
(***************************************************************************)
EXTENDS QueueCore, FiniteSetTheorems, SequenceTheorems, TLAPS

InFlightMaps(I, C) == UNION {[S -> Deliveries(I, C)] : S \in SUBSET I}

\* The queues with the fixed parameters of k, delivery ids of I, consumers of
\* C and waiting calls of W.
Queues(k, I, C, W) ==
    [IsDurable : {k.IsDurable}, IsAutoDelete : {k.IsAutoDelete},
     MaxAttempts : {k.MaxAttempts}, Filters : {k.Filters},
     Ready : Seq(Deliveries(I, C)),
     InFlight : InFlightMaps(I, C),
     Consumers : SUBSET C,
     readyNotify : SUBSET W]

\* The type of the map InFlight, in a form the provers can use.
LEMMA InFlightMap ==
  ASSUME NEW I, NEW C, NEW m
  PROVE  m \in InFlightMaps(I, C) <=>
            DOMAIN m \subseteq I /\ m \in [DOMAIN m -> Deliveries(I, C)]
  BY DEF InFlightMaps

\* NewQueue makes a queue with the parameters it is given.
LEMMA NewQueueIn ==
  ASSUME NEW durable, NEW autoDelete, NEW max, NEW filters, NEW I, NEW C, NEW W
  PROVE  LET q == NewQueue(durable, autoDelete, max, filters)
         IN  q \in Queues(q, I, C, W)
  <1> DEFINE e == [id \in {} |-> NoConsumer]
  <1>1. e \in InFlightMaps(I, C)
    BY InFlightMap
  <1> QED
    BY <1>1, EmptySeq DEF Queues, NewQueue

\* notifyReadyLocked touches the waiting calls and nothing else.
LEMMA NotifyFields ==
  ASSUME NEW k, NEW I, NEW C, NEW W, NEW q \in Queues(k, I, C, W)
  PROVE  /\ notifyReadyLocked(q).Ready = q.Ready
         /\ notifyReadyLocked(q).InFlight = q.InFlight
         /\ notifyReadyLocked(q).Consumers = q.Consumers
         /\ notifyReadyLocked(q).MaxAttempts = q.MaxAttempts
         /\ notifyReadyLocked(q).readyNotify = {}
         /\ notifyReadyLocked(q) \in Queues(k, I, C, W)
  BY DEF Queues, notifyReadyLocked

\* What EnqueueDelivery does to each field.
LEMMA EnqueuedFields ==
  ASSUME NEW k, NEW I, NEW C, NEW W, NEW q \in Queues(k, I, C, W),
         NEW d \in Deliveries(I, C)
  PROVE  /\ Enqueued(q, d).Ready = Append(q.Ready, d)
         /\ Enqueued(q, d).InFlight = q.InFlight
         /\ Enqueued(q, d).Consumers = q.Consumers
         /\ Enqueued(q, d).readyNotify = {}
         /\ Enqueued(q, d) \in Queues(k, I, C, W)
  <1> DEFINE r == [q EXCEPT !.Ready = Append(q.Ready, d)]
  <1>1. /\ r \in Queues(k, I, C, W)
        /\ r.Ready = Append(q.Ready, d)
        /\ r.InFlight = q.InFlight
        /\ r.Consumers = q.Consumers
    <2>1. q.Ready \in Seq(Deliveries(I, C))
      BY DEF Queues
    <2>2. Append(q.Ready, d) \in Seq(Deliveries(I, C))
      BY <2>1, AppendProperties
    <2> DEFINE s == Append(q.Ready, d)
    <2> HIDE DEF s
    <2> QED
      BY <2>2 DEF Queues, s
  <1>2. Enqueued(q, d) = notifyReadyLocked(r)
    BY DEF Enqueued
  <1> HIDE DEF r
  <1> QED
    BY <1>1, <1>2, NotifyFields

\* Removing deliveries from InFlight (Ack, Reject, DisconnectConsumer).
LEMMA DeleteType ==
  ASSUME NEW I, NEW C, NEW m \in InFlightMaps(I, C), NEW ks
  PROVE  /\ Delete(m, ks) \in InFlightMaps(I, C)
         /\ DOMAIN Delete(m, ks) = DOMAIN m \ ks
         /\ \A id \in DOMAIN m \ ks : Delete(m, ks)[id] = m[id]
  <1>1. m \in [DOMAIN m -> Deliveries(I, C)] /\ DOMAIN m \subseteq I
    BY InFlightMap
  <1>2. Delete(m, ks) = [x \in DOMAIN m \ ks |-> m[x]]
    BY DEF Delete, Restrict
  <1> QED
    BY <1>1, <1>2, InFlightMap

\* Adding one delivery under its id (FetchOrWait).
LEMMA PutType ==
  ASSUME NEW I, NEW C, NEW m \in InFlightMaps(I, C),
         NEW k \in I, NEW d \in Deliveries(I, C)
  PROVE  /\ Put(m, k, d) \in InFlightMaps(I, C)
         /\ DOMAIN Put(m, k, d) = DOMAIN m \cup {k}
         /\ Put(m, k, d)[k] = d
         /\ \A id \in DOMAIN m \ {k} : Put(m, k, d)[id] = m[id]
  <1>1. m \in [DOMAIN m -> Deliveries(I, C)] /\ DOMAIN m \subseteq I
    BY InFlightMap
  <1> QED
    BY <1>1, InFlightMap DEF Put

\* What taking a delivery out of InFlight does to each field.
LEMMA AckedFields ==
  ASSUME NEW k, NEW I, NEW C, NEW W, NEW q \in Queues(k, I, C, W),
         NEW id
  PROVE  /\ Acked(q, id) \in Queues(k, I, C, W)
         /\ Acked(q, id).Ready = q.Ready
         /\ Acked(q, id).InFlight = Delete(q.InFlight, {id})
         /\ Acked(q, id).Consumers = q.Consumers
         /\ Acked(q, id).readyNotify = q.readyNotify
  <1>1. q.InFlight \in InFlightMaps(I, C)
    BY DEF Queues
  <1>2. Delete(q.InFlight, {id}) \in InFlightMaps(I, C)
    BY <1>1, DeleteType
  <1> QED
    BY <1>2 DEF Acked, Queues

\* A returned delivery loses its holder and keeps its attempts.
LEMMA UnownedType ==
  ASSUME NEW I, NEW C, NEW d \in Deliveries(I, C)
  PROVE  /\ Unowned(d) \in Deliveries(I, C)
         /\ Unowned(d).ID = d.ID
         /\ Unowned(d).ConsumerID = NoConsumer
         /\ Unowned(d).Attempts = d.Attempts
  BY DEF Unowned, Deliveries

\* What handing out the head of Ready does to each field.
LEMMA FetchedFields ==
  ASSUME NEW k, NEW I, NEW C, NEW W, NEW q \in Queues(k, I, C, W),
         NEW c \in C, q.Ready # << >>
  PROVE  LET d == FetchedDelivery(q, c)
         IN  /\ d \in Deliveries(I, C)
             /\ d.ID = Head(q.Ready).ID
             /\ d.ConsumerID = c
             /\ d.Attempts = Head(q.Ready).Attempts + 1
             /\ Fetched(q, c) \in Queues(k, I, C, W)
             /\ Fetched(q, c).Ready = Tail(q.Ready)
             /\ Fetched(q, c).InFlight = Put(q.InFlight, d.ID, d)
             /\ Fetched(q, c).Consumers = q.Consumers
             /\ Fetched(q, c).readyNotify = q.readyNotify
  <1> DEFINE d == FetchedDelivery(q, c)
  <1>1. q.Ready \in Seq(Deliveries(I, C)) /\ q.InFlight \in InFlightMaps(I, C)
    BY DEF Queues
  <1>2. Head(q.Ready) \in Deliveries(I, C) /\ Tail(q.Ready) \in Seq(Deliveries(I, C))
    BY <1>1, HeadTailProperties
  <1>3. /\ d \in Deliveries(I, C)
        /\ d.ID = Head(q.Ready).ID
        /\ d.ConsumerID = c
        /\ d.Attempts = Head(q.Ready).Attempts + 1
    <2> DEFINE h == Head(q.Ready)
               g == [h EXCEPT !.ConsumerID = c]
    <2>1. d = [g EXCEPT !.Attempts = h.Attempts + 1]
      BY DEF FetchedDelivery
    <2> HIDE DEF h, d
    <2>2. h \in Deliveries(I, C)
      BY <1>2 DEF h
    <2>3. g \in Deliveries(I, C) /\ g.ID = h.ID /\ g.ConsumerID = c
      BY <2>2 DEF Deliveries
    <2> HIDE DEF g
    <2>4. /\ d \in Deliveries(I, C)
          /\ d.ID = h.ID
          /\ d.ConsumerID = c
          /\ d.Attempts = h.Attempts + 1
      BY <2>1, <2>2, <2>3 DEF Deliveries
    <2> QED
      BY <2>4 DEF h, d
  <1>4. d.ID \in I
    BY <1>3 DEF Deliveries
  <1> HIDE DEF d
  <1>5. Put(q.InFlight, d.ID, d) \in InFlightMaps(I, C)
    BY <1>1, <1>3, <1>4, PutType
  <1>6. Fetched(q, c) = [q EXCEPT !.InFlight = Put(q.InFlight, d.ID, d),
                                  !.Ready = Tail(q.Ready)]
    BY DEF Fetched, d
  <1>7. /\ Fetched(q, c) \in Queues(k, I, C, W)
        /\ Fetched(q, c).Ready = Tail(q.Ready)
        /\ Fetched(q, c).InFlight = Put(q.InFlight, d.ID, d)
        /\ Fetched(q, c).Consumers = q.Consumers
        /\ Fetched(q, c).readyNotify = q.readyNotify
    BY <1>2, <1>5, <1>6 DEF Queues
  <1> QED
    BY <1>3, <1>7 DEF d
----------------------------------------------------------------------------
(***************************************************************************)
(* The parts of ExactlyOnePlace and HeldByRegistered that are about the    *)
(* sequence Ready, and what the three ways of changing it do to them.      *)
(***************************************************************************)
SeqIDs(s)   == {s[i].ID : i \in DOMAIN s}
Distinct(s) == \A i, j \in DOMAIN s : s[i].ID = s[j].ID => i = j
Free(s)     == \A i \in DOMAIN s : s[i].ConsumerID = NoConsumer

\* A delivery appended to Ready (EnqueueDelivery, Reject).
LEMMA AppendReady ==
  ASSUME NEW I, NEW C, NEW s \in Seq(Deliveries(I, C)),
         NEW d \in Deliveries(I, C),
         Distinct(s), Free(s), d.ID \notin SeqIDs(s), d.ConsumerID = NoConsumer
  PROVE  /\ SeqIDs(Append(s, d)) = SeqIDs(s) \cup {d.ID}
         /\ Distinct(Append(s, d))
         /\ Free(Append(s, d))
  <1> DEFINE t == Append(s, d)
  <1>1. /\ t \in Seq(Deliveries(I, C))
        /\ Len(t) = Len(s) + 1
        /\ \A i \in 1..Len(s) : t[i] = s[i]
        /\ t[Len(s) + 1] = d
    BY AppendProperties
  <1>2. DOMAIN s = 1..Len(s) /\ DOMAIN t = 1..(Len(s) + 1) /\ Len(s) \in Nat
    BY <1>1, LenProperties
  <1> HIDE DEF t
  <1>3. \A i \in DOMAIN t : (i \in DOMAIN s /\ t[i] = s[i]) \/ i = Len(s) + 1
    BY <1>1, <1>2
  <1>4. SeqIDs(t) = SeqIDs(s) \cup {d.ID}
    BY <1>1, <1>2, <1>3 DEF SeqIDs
  <1>5. Distinct(t)
    BY <1>1, <1>2, <1>3 DEF Distinct, SeqIDs
  <1>6. Free(t)
    BY <1>1, <1>2, <1>3 DEF Free
  <1> QED
    BY <1>4, <1>5, <1>6 DEF t

\* The head of Ready handed out (FetchOrWait).
LEMMA TailReady ==
  ASSUME NEW I, NEW C, NEW s \in Seq(Deliveries(I, C)),
         s # << >>, Distinct(s), Free(s)
  PROVE  /\ Head(s).ID \in SeqIDs(s)
         /\ SeqIDs(Tail(s)) = SeqIDs(s) \ {Head(s).ID}
         /\ Distinct(Tail(s))
         /\ Free(Tail(s))
  <1> DEFINE t == Tail(s)
  <1>1. /\ t \in Seq(Deliveries(I, C))
        /\ Len(t) = Len(s) - 1
        /\ \A i \in 1..Len(t) : t[i] = s[i + 1]
    BY HeadTailProperties
  <1>2. Head(s) = s[1]
    OBVIOUS
  <1>3. /\ Len(s) \in Nat \ {0}
        /\ DOMAIN s = 1..Len(s)
        /\ DOMAIN t = 1..(Len(s) - 1)
    BY <1>1, LenProperties, EmptySeq
  <1> HIDE DEF t
  <1>4. \A i \in DOMAIN t : i + 1 \in DOMAIN s /\ t[i] = s[i + 1]
    BY <1>1, <1>3
  <1>5. \A i \in DOMAIN s \ {1} : i - 1 \in DOMAIN t /\ t[i - 1] = s[i]
    BY <1>1, <1>3
  <1>6. 1 \in DOMAIN s /\ \A i \in DOMAIN t : i + 1 # 1
    BY <1>3
  <1>7. SeqIDs(t) = SeqIDs(s) \ {s[1].ID}
    <2>1. \A x \in SeqIDs(t) : x \in SeqIDs(s) /\ x # s[1].ID
      BY <1>4, <1>6 DEF SeqIDs, Distinct
    <2>2. \A x \in SeqIDs(s) \ {s[1].ID} : x \in SeqIDs(t)
      BY <1>5, <1>6 DEF SeqIDs
    <2> QED
      BY <2>1, <2>2
  <1>8. Distinct(t)
    BY <1>3, <1>4 DEF Distinct
  <1>9. Free(t)
    BY <1>4 DEF Free
  <1> QED
    BY <1>2, <1>6, <1>7, <1>8, <1>9 DEF t, SeqIDs

\* The deliveries of a leaving consumer appended to Ready.
LEMMA ConcatReady ==
  ASSUME NEW I, NEW C, NEW s \in Seq(Deliveries(I, C)),
         NEW u \in Seq(Deliveries(I, C)),
         Distinct(s), Free(s), Distinct(u), Free(u),
         SeqIDs(s) \cap SeqIDs(u) = {}
  PROVE  /\ s \o u \in Seq(Deliveries(I, C))
         /\ SeqIDs(s \o u) = SeqIDs(s) \cup SeqIDs(u)
         /\ Distinct(s \o u)
         /\ Free(s \o u)
  <1> DEFINE t == s \o u
  <1>1. /\ t \in Seq(Deliveries(I, C))
        /\ Len(t) = Len(s) + Len(u)
        /\ \A i \in 1..(Len(s) + Len(u)) :
              t[i] = IF i <= Len(s) THEN s[i] ELSE u[i - Len(s)]
    BY ConcatProperties
  <1>2. /\ Len(s) \in Nat /\ Len(u) \in Nat
        /\ DOMAIN s = 1..Len(s) /\ DOMAIN u = 1..Len(u)
        /\ DOMAIN t = 1..(Len(s) + Len(u))
    BY <1>1, LenProperties
  <1> HIDE DEF t
  <1>3. \A i \in DOMAIN t : \/ i \in DOMAIN s /\ t[i] = s[i]
                            \/ i - Len(s) \in DOMAIN u /\ t[i] = u[i - Len(s)]
    BY <1>1, <1>2
  <1>4. \A i \in DOMAIN s : i \in DOMAIN t /\ t[i] = s[i]
    BY <1>1, <1>2
  <1>5. \A i \in DOMAIN u : i + Len(s) \in DOMAIN t /\ t[i + Len(s)] = u[i]
    BY <1>1, <1>2
  <1>6. SeqIDs(t) = SeqIDs(s) \cup SeqIDs(u)
    BY <1>3, <1>4, <1>5 DEF SeqIDs
  <1>7. Distinct(t)
    <2> SUFFICES ASSUME NEW i \in DOMAIN t, NEW j \in DOMAIN t, t[i].ID = t[j].ID
                 PROVE  i = j
      BY DEF Distinct
    <2>1. \A m \in DOMAIN s, n \in DOMAIN u : s[m].ID # u[n].ID
      BY DEF SeqIDs
    <2>2. i \in Int /\ j \in Int
      BY <1>2
    <2> QED
      BY <1>2, <1>3, <2>1, <2>2 DEF Distinct
  <1>8. Free(t)
    BY <1>3 DEF Free
  <1> QED
    BY <1>1, <1>6, <1>7, <1>8 DEF t

\* Whatever order the map iteration of DisconnectConsumer takes, it returns
\* each delivery of the consumer once.
LEMMA ReturnedSeq ==
  ASSUME NEW k, NEW I, NEW C, NEW W, NEW q \in Queues(k, I, C, W),
         IsFiniteSet(I), NEW c, NEW order \in ReturnOrders(q, c),
         \A id \in DOMAIN q.InFlight : q.InFlight[id].ID = id
  PROVE  /\ Len(order) \in Nat
         /\ \A i \in 1..Len(order) : order[i] \in InFlightOf(q, c)
         /\ Returned(q, order) \in Seq(Deliveries(I, C))
         /\ Len(Returned(q, order)) = Len(order)
         /\ SeqIDs(Returned(q, order)) = InFlightOf(q, c)
         /\ Distinct(Returned(q, order))
         /\ Free(Returned(q, order))
  <1> DEFINE S == InFlightOf(q, c)
             n == Cardinality(S)
             u == Returned(q, order)
  <1>1. /\ DOMAIN q.InFlight \subseteq I
        /\ \A id \in DOMAIN q.InFlight : q.InFlight[id] \in Deliveries(I, C)
    <2>1. q.InFlight \in InFlightMaps(I, C)
      BY DEF Queues
    <2> QED
      BY <2>1, InFlightMap
  <1>2. S \subseteq DOMAIN q.InFlight /\ S \in SUBSET I
    BY <1>1 DEF InFlightOf
  <1>3. IsFiniteSet(S)
    BY <1>2, FS_Subset
  <1>4. n \in Nat
    BY <1>3, FS_CardinalityType
  <1> HIDE DEF n, S, u
  <1>5. order \in [1..n -> S] /\ \A i, j \in 1..n : i # j => order[i] # order[j]
    BY DEF ReturnOrders, SetToSeqs, S, n
  <1>6. order \in Injection(1..n, S)
    BY <1>5 DEF Injection, IsInjective
  <1>7. Cardinality(1..n) = n
    BY <1>4, FS_Interval
  <1>8. order \in Surjection(1..n, S)
    BY <1>3, <1>6, <1>7, FS_Injection DEF n
  <1>9. \A x \in S : \E i \in 1..n : order[i] = x
    BY <1>8 DEF Surjection
  <1>10. order \in Seq(S) /\ Len(order) = n
    BY <1>4, <1>5
  <1>11. /\ u = [i \in 1..n |-> Unowned(q.InFlight[order[i]])]
         /\ \A i \in 1..n : u[i] \in Deliveries(I, C) /\ u[i].ID = order[i]
                              /\ u[i].ConsumerID = NoConsumer
    <2>1. u = [i \in 1..n |-> Unowned(q.InFlight[order[i]])]
      BY <1>10 DEF u, Returned
    <2>2. \A i \in 1..n : /\ q.InFlight[order[i]] \in Deliveries(I, C)
                          /\ q.InFlight[order[i]].ID = order[i]
                          /\ u[i] = Unowned(q.InFlight[order[i]])
      BY <1>1, <1>2, <1>5, <2>1
    <2> QED
      BY <2>1, <2>2, UnownedType
  <1>12. u \in [1..n -> Deliveries(I, C)] /\ DOMAIN u = 1..n
    BY <1>11
  <1>13. u \in Seq(Deliveries(I, C)) /\ Len(u) = n
    BY <1>4, <1>12
  <1>14. SeqIDs(u) = S
    BY <1>5, <1>9, <1>11, <1>12 DEF SeqIDs
  <1>15. Distinct(u) /\ Free(u)
    BY <1>5, <1>11, <1>12 DEF Distinct, Free
  <1> QED
    BY <1>4, <1>5, <1>10, <1>13, <1>14, <1>15 DEF u, S
----------------------------------------------------------------------------
(***************************************************************************)
(* The invariant for one queue value, and that every method of the queue   *)
(* keeps it.  Unchanged or closed: a method leaves the waiting calls alone *)
(* only when it does not make an empty Ready non-empty.                    *)
(***************************************************************************)
Sound(q) ==
    /\ Distinct(q.Ready)
    /\ Free(q.Ready)
    /\ SeqIDs(q.Ready) \cap DOMAIN q.InFlight = {}
    /\ \A id \in DOMAIN q.InFlight : /\ q.InFlight[id].ID = id
                                     /\ q.InFlight[id].ConsumerID \in q.Consumers

IDs(q) == SeqIDs(q.Ready) \cup DOMAIN q.InFlight

Wakes(q, r) ==
    \/ r.readyNotify = {}
    \/ /\ r.readyNotify = q.readyNotify
       /\ q.Ready = << >> => r.Ready = << >>

NoMoreInFlight(q, r) == \A c : InFlightOf(r, c) \subseteq InFlightOf(q, c)

\* EnqueueDelivery, and the requeueing half of Reject.
LEMMA EnqueuedSound ==
  ASSUME NEW k, NEW I, NEW C, NEW W, NEW q \in Queues(k, I, C, W),
         Sound(q),
         NEW d \in Deliveries(I, C), d.ID \notin IDs(q), d.ConsumerID = NoConsumer
  PROVE  /\ Sound(Enqueued(q, d))
         /\ IDs(Enqueued(q, d)) = IDs(q) \cup {d.ID}
         /\ Wakes(q, Enqueued(q, d))
         /\ NoMoreInFlight(q, Enqueued(q, d))
  <1> DEFINE r == Enqueued(q, d)
  <1>1. q.Ready \in Seq(Deliveries(I, C))
    BY DEF Queues
  <1>2. /\ r.Ready = Append(q.Ready, d)
        /\ r.InFlight = q.InFlight
        /\ r.Consumers = q.Consumers
        /\ r.readyNotify = {}
    BY EnqueuedFields
  <1> HIDE DEF r
  <1>3. /\ SeqIDs(r.Ready) = SeqIDs(q.Ready) \cup {d.ID}
        /\ Distinct(r.Ready)
        /\ Free(r.Ready)
    BY <1>1, <1>2, AppendReady DEF Sound, IDs
  <1>4. Sound(r) /\ IDs(r) = IDs(q) \cup {d.ID}
    BY <1>2, <1>3 DEF Sound, IDs
  <1>5. Wakes(q, r) /\ NoMoreInFlight(q, r)
    BY <1>2 DEF Wakes, NoMoreInFlight, InFlightOf
  <1> QED
    BY <1>4, <1>5 DEF r

\* Ack, and the removing half of Reject.
LEMMA AckedSound ==
  ASSUME NEW k, NEW I, NEW C, NEW W, NEW q \in Queues(k, I, C, W),
         Sound(q), NEW id \in DOMAIN q.InFlight
  PROVE  /\ Sound(Acked(q, id))
         /\ IDs(Acked(q, id)) = IDs(q) \ {id}
         /\ Wakes(q, Acked(q, id))
         /\ NoMoreInFlight(q, Acked(q, id))
  <1> DEFINE r == Acked(q, id)
             m == Delete(q.InFlight, {id})
  <1>1. q.InFlight \in InFlightMaps(I, C)
    BY DEF Queues
  <1>2. /\ DOMAIN m = DOMAIN q.InFlight \ {id}
        /\ \A x \in DOMAIN q.InFlight \ {id} : m[x] = q.InFlight[x]
    BY DEF Delete, Restrict
  <1>3. /\ r.Ready = q.Ready
        /\ r.InFlight = m
        /\ r.Consumers = q.Consumers
        /\ r.readyNotify = q.readyNotify
    BY AckedFields
  <1> HIDE DEF r, m
  <1>4. Sound(r) /\ IDs(r) = IDs(q) \ {id}
    BY <1>2, <1>3 DEF Sound, IDs
  <1>5. Wakes(q, r) /\ NoMoreInFlight(q, r)
    BY <1>2, <1>3 DEF Wakes, NoMoreInFlight, InFlightOf
  <1> QED
    BY <1>4, <1>5 DEF r

\* Every entry of InFlight is a delivery under a known id.
LEMMA InFlightDelivery ==
  ASSUME NEW k, NEW I, NEW C, NEW W, NEW q \in Queues(k, I, C, W),
         NEW id \in DOMAIN q.InFlight
  PROVE  id \in I /\ q.InFlight[id] \in Deliveries(I, C)
  <1>1. q.InFlight \in InFlightMaps(I, C)
    BY DEF Queues
  <1> QED
    BY <1>1, InFlightMap

\* Reject, dead-lettering or not.
LEMMA RejectedSound ==
  ASSUME NEW k, NEW I, NEW C, NEW W, NEW q \in Queues(k, I, C, W),
         Sound(q), NEW id \in DOMAIN q.InFlight
  PROVE  /\ Rejected(q, id) \in Queues(k, I, C, W)
         /\ Sound(Rejected(q, id))
         /\ IDs(Rejected(q, id)) =
               IF ShouldDeadLetter(q, q.InFlight[id]) THEN IDs(q) \ {id} ELSE IDs(q)
         /\ Wakes(q, Rejected(q, id))
         /\ NoMoreInFlight(q, Rejected(q, id))
  <1> DEFINE a == Acked(q, id)
             d == Unowned(q.InFlight[id])
  <1>1. /\ a \in Queues(k, I, C, W)
        /\ Sound(a)
        /\ IDs(a) = IDs(q) \ {id}
        /\ Wakes(q, a)
        /\ NoMoreInFlight(q, a)
    <2>1. a \in Queues(k, I, C, W)
      BY AckedFields
    <2>2. Sound(a) /\ IDs(a) = IDs(q) \ {id} /\ Wakes(q, a) /\ NoMoreInFlight(q, a)
      BY AckedSound
    <2> QED
      BY <2>1, <2>2
  <1>2. CASE ShouldDeadLetter(q, q.InFlight[id])
    BY <1>1, <1>2 DEF Rejected
  <1>3. CASE ~ShouldDeadLetter(q, q.InFlight[id])
    <2>1. d \in Deliveries(I, C) /\ d.ID = id /\ d.ConsumerID = NoConsumer
      BY InFlightDelivery, UnownedType DEF Sound
    <2>2. Rejected(q, id) = Enqueued(a, d)
      BY <1>3 DEF Rejected
    <2> DEFINE r == Enqueued(a, d)
    <2> HIDE DEF a, d
    <2>3. /\ r \in Queues(k, I, C, W)
          /\ Sound(r)
          /\ IDs(r) = IDs(a) \cup {id}
          /\ NoMoreInFlight(a, r)
          /\ r.readyNotify = {}
      BY <1>1, <2>1, EnqueuedFields, EnqueuedSound
    <2> HIDE DEF r
    <2>4. IDs(r) = IDs(q)
      BY <1>1, <2>3 DEF IDs
    <2> QED
      BY <1>1, <1>3, <2>2, <2>3, <2>4 DEF Wakes, NoMoreInFlight, r
  <1> QED
    BY <1>2, <1>3

\* What the departure of a consumer does to each field.
LEMMA DisconnectedFields ==
  ASSUME NEW k, NEW I, NEW C, NEW W, NEW q \in Queues(k, I, C, W),
         NEW c, NEW order, Returned(q, order) \in Seq(Deliveries(I, C))
  PROVE  LET D == Disconnected(q, c, order)
         IN  /\ D \in Queues(k, I, C, W)
             /\ D.Ready = q.Ready \o Returned(q, order)
             /\ D.InFlight = Delete(q.InFlight, InFlightOf(q, c))
             /\ D.Consumers = q.Consumers \ {c}
             /\ D.readyNotify = IF Len(order) > 0 THEN {} ELSE q.readyNotify
  <1> DEFINE m == Delete(q.InFlight, InFlightOf(q, c))
             v == q.Ready \o Returned(q, order)
             q1 == [q EXCEPT !.InFlight = m]
             q2 == [q1 EXCEPT !.Ready = v]
             r == [q2 EXCEPT !.Consumers = q.Consumers \ {c}]
             D == Disconnected(q, c, order)
  <1>1. D = IF Len(order) > 0 THEN notifyReadyLocked(r) ELSE r
    BY DEF Disconnected
  <1> HIDE DEF D
  <1>2. /\ q.InFlight \in InFlightMaps(I, C)
        /\ q.Ready \in Seq(Deliveries(I, C))
        /\ q.Consumers \subseteq C
    BY DEF Queues
  <1>3. m \in InFlightMaps(I, C)
    BY <1>2, DeleteType
  <1>4. v \in Seq(Deliveries(I, C))
    BY <1>2, ConcatProperties
  <1> HIDE DEF m, v
  <1>5. /\ q1 \in Queues(k, I, C, W)
        /\ q1.Ready = q.Ready
        /\ q1.InFlight = m
        /\ q1.Consumers = q.Consumers
        /\ q1.readyNotify = q.readyNotify
    BY <1>3 DEF Queues
  <1> HIDE DEF q1
  <1>6. /\ q2 \in Queues(k, I, C, W)
        /\ q2.Ready = v
        /\ q2.InFlight = m
        /\ q2.Consumers = q.Consumers
        /\ q2.readyNotify = q.readyNotify
    BY <1>4, <1>5 DEF Queues
  <1> HIDE DEF q2
  <1>7. /\ r \in Queues(k, I, C, W)
        /\ r.Ready = v
        /\ r.InFlight = m
        /\ r.Consumers = q.Consumers \ {c}
        /\ r.readyNotify = q.readyNotify
    BY <1>2, <1>6 DEF Queues
  <1> HIDE DEF r
  <1>8. /\ D \in Queues(k, I, C, W)
        /\ D.Ready = v
        /\ D.InFlight = m
        /\ D.Consumers = q.Consumers \ {c}
        /\ D.readyNotify = IF Len(order) > 0 THEN {} ELSE q.readyNotify
    <2>1. CASE Len(order) > 0
      <3>1. D = notifyReadyLocked(r)
        BY <1>1, <2>1
      <3>2. /\ D \in Queues(k, I, C, W)
            /\ D.Ready = r.Ready
            /\ D.InFlight = r.InFlight
            /\ D.Consumers = r.Consumers
            /\ D.readyNotify = {}
        BY <1>7, <3>1, NotifyFields
      <3> QED
        BY <1>7, <2>1, <3>2
    <2>2. CASE ~(Len(order) > 0)
      BY <1>1, <1>7, <2>2
    <2> QED
      BY <2>1, <2>2
  <1> QED
    BY <1>8 DEF D, m, v

\* DisconnectConsumer: the leaving consumer's deliveries move, none is lost,
\* and what remains in flight belongs to the consumers that stay.
LEMMA DisconnectedSound ==
  ASSUME NEW k, NEW I, NEW C, NEW W, NEW q \in Queues(k, I, C, W),
         IsFiniteSet(I), Sound(q), NEW c, NEW order \in ReturnOrders(q, c)
  PROVE  /\ Disconnected(q, c, order) \in Queues(k, I, C, W)
         /\ Sound(Disconnected(q, c, order))
         /\ IDs(Disconnected(q, c, order)) = IDs(q)
         /\ Wakes(q, Disconnected(q, c, order))
         /\ NoMoreInFlight(q, Disconnected(q, c, order))
  <1> DEFINE S == InFlightOf(q, c)
             m == Delete(q.InFlight, S)
             u == Returned(q, order)
             D == Disconnected(q, c, order)
  <1>1. /\ q.InFlight \in InFlightMaps(I, C)
        /\ q.Ready \in Seq(Deliveries(I, C))
    BY DEF Queues
  <1>2. /\ DOMAIN m = DOMAIN q.InFlight \ S
        /\ \A id \in DOMAIN q.InFlight \ S : m[id] = q.InFlight[id]
    BY DEF Delete, Restrict
  <1>3. /\ Len(order) \in Nat
        /\ u \in Seq(Deliveries(I, C))
        /\ Len(u) = Len(order)
        /\ SeqIDs(u) = S
        /\ Distinct(u)
        /\ Free(u)
    BY ReturnedSeq DEF Sound
  <1>4. /\ D \in Queues(k, I, C, W)
        /\ D.Ready = q.Ready \o u
        /\ D.InFlight = m
        /\ D.Consumers = q.Consumers \ {c}
        /\ D.readyNotify = IF Len(order) > 0 THEN {} ELSE q.readyNotify
    BY <1>3, DisconnectedFields
  <1>5. S \subseteq DOMAIN q.InFlight
    BY DEF InFlightOf
  <1>6. \A id \in DOMAIN q.InFlight \ S : q.InFlight[id].ConsumerID # c
    BY DEF InFlightOf
  <1> HIDE DEF S, m, u, D
  <1>7. /\ q.Ready \o u \in Seq(Deliveries(I, C))
        /\ SeqIDs(q.Ready \o u) = SeqIDs(q.Ready) \cup S
        /\ Distinct(q.Ready \o u)
        /\ Free(q.Ready \o u)
    BY <1>1, <1>3, <1>5, ConcatReady DEF Sound
  <1>8. Sound(D)
    BY <1>2, <1>4, <1>5, <1>6, <1>7 DEF Sound
  <1>9. IDs(D) = IDs(q)
    BY <1>2, <1>4, <1>5, <1>7 DEF IDs
  <1>10. Wakes(q, D)
    <2>1. CASE Len(order) > 0
      BY <1>4, <2>1 DEF Wakes
    <2>2. CASE ~(Len(order) > 0)
      <3>1. u = << >>
        BY <1>3, <2>2, EmptySeq
      <3>2. q.Ready \o u = q.Ready
        BY <1>1, <3>1, ConcatEmptySeq
      <3> QED
        BY <1>4, <2>2, <3>2 DEF Wakes
    <2> QED
      BY <2>1, <2>2
  <1>11. NoMoreInFlight(q, D)
    BY <1>2, <1>4 DEF NoMoreInFlight, InFlightOf
  <1> QED
    BY <1>4, <1>8, <1>9, <1>10, <1>11 DEF D

\* FetchOrWait with a message: the head of Ready moves to its new holder.
LEMMA FetchedSound ==
  ASSUME NEW k, NEW I, NEW C, NEW W, NEW q \in Queues(k, I, C, W),
         Sound(q), NEW c \in C,
         c \in q.Consumers, q.Ready # << >>
  PROVE  /\ Fetched(q, c) \in Queues(k, I, C, W)
         /\ Sound(Fetched(q, c))
         /\ IDs(Fetched(q, c)) = IDs(q)
         /\ Wakes(q, Fetched(q, c))
         /\ InFlightOf(Fetched(q, c), c) =
               InFlightOf(q, c) \cup {Head(q.Ready).ID}
         /\ \A b : b # c => InFlightOf(Fetched(q, c), b) \subseteq InFlightOf(q, b)
  <1> DEFINE d == FetchedDelivery(q, c)
             r == Fetched(q, c)
             h == Head(q.Ready).ID
  <1>1. /\ d \in Deliveries(I, C)
        /\ d.ID = h
        /\ d.ConsumerID = c
        /\ r \in Queues(k, I, C, W)
        /\ r.Ready = Tail(q.Ready)
        /\ r.InFlight = Put(q.InFlight, h, d)
        /\ r.Consumers = q.Consumers
        /\ r.readyNotify = q.readyNotify
    BY FetchedFields
  <1>2. q.InFlight \in InFlightMaps(I, C) /\ q.Ready \in Seq(Deliveries(I, C))
    BY DEF Queues
  <1>3. /\ h \in SeqIDs(q.Ready)
        /\ SeqIDs(Tail(q.Ready)) = SeqIDs(q.Ready) \ {h}
        /\ Distinct(Tail(q.Ready))
        /\ Free(Tail(q.Ready))
    BY <1>2, TailReady DEF Sound
  <1> HIDE DEF r, d, h
  <1>4. h \in I
    BY <1>1 DEF Deliveries
  <1>5. /\ DOMAIN r.InFlight = DOMAIN q.InFlight \cup {h}
        /\ r.InFlight[h] = d
        /\ \A id \in DOMAIN q.InFlight \ {h} : r.InFlight[id] = q.InFlight[id]
    <2> DEFINE m == Put(q.InFlight, h, d)
    <2>1. /\ DOMAIN m = DOMAIN q.InFlight \cup {h}
          /\ m[h] = d
          /\ \A id \in DOMAIN q.InFlight \ {h} : m[id] = q.InFlight[id]
      BY DEF Put
    <2>2. r.InFlight = m
      BY <1>1
    <2> HIDE DEF m
    <2> QED
      BY <2>1, <2>2
  <1>6. h \notin DOMAIN q.InFlight
    BY <1>3 DEF Sound
  <1>7. Sound(r)
    BY <1>1, <1>3, <1>5, <1>6 DEF Sound
  <1>8. IDs(r) = IDs(q)
    BY <1>1, <1>3, <1>5 DEF IDs
  <1>9. Wakes(q, r)
    BY <1>1 DEF Wakes
  <1>10. InFlightOf(r, c) = InFlightOf(q, c) \cup {h}
    BY <1>1, <1>5, <1>6 DEF InFlightOf
  <1>11. \A b : b # c => InFlightOf(r, b) \subseteq InFlightOf(q, b)
    BY <1>1, <1>5, <1>6 DEF InFlightOf
  <1> QED
    BY <1>1, <1>7, <1>8, <1>9, <1>10, <1>11 DEF r, h

\* AddConsumer, and the calls that only touch the waiting set.
LEMMA WithConsumerSound ==
  ASSUME NEW k, NEW I, NEW C, NEW W, NEW q \in Queues(k, I, C, W),
         Sound(q), NEW c \in C
  PROVE  /\ WithConsumer(q, c) \in Queues(k, I, C, W)
         /\ Sound(WithConsumer(q, c))
         /\ IDs(WithConsumer(q, c)) = IDs(q)
         /\ Wakes(q, WithConsumer(q, c))
         /\ NoMoreInFlight(q, WithConsumer(q, c))
  <1> DEFINE r == WithConsumer(q, c)
  <1>1. /\ r \in Queues(k, I, C, W)
        /\ r.Ready = q.Ready
        /\ r.InFlight = q.InFlight
        /\ r.Consumers = q.Consumers \cup {c}
        /\ r.readyNotify = q.readyNotify
    BY DEF WithConsumer, Queues
  <1> HIDE DEF r
  <1> QED
    BY <1>1 DEF Sound, IDs, Wakes, NoMoreInFlight, InFlightOf, r

\* A call that starts or stops waiting changes the waiting set only.
LEMMA WaitersOnly ==
  ASSUME NEW k, NEW I, NEW C, NEW W, NEW q \in Queues(k, I, C, W),
         Sound(q), NEW w \in SUBSET W
  PROVE  LET r == [q EXCEPT !.readyNotify = w]
         IN  /\ r \in Queues(k, I, C, W)
             /\ Sound(r)
             /\ IDs(r) = IDs(q)
             /\ r.Ready = q.Ready
             /\ r.readyNotify = w
             /\ NoMoreInFlight(q, r)
  <1> DEFINE r == [q EXCEPT !.readyNotify = w]
  <1>1. /\ r \in Queues(k, I, C, W)
        /\ r.Ready = q.Ready
        /\ r.InFlight = q.InFlight
        /\ r.Consumers = q.Consumers
        /\ r.readyNotify = w
    BY DEF Queues
  <1> HIDE DEF r
  <1>2. Sound(r) /\ IDs(r) = IDs(q) /\ NoMoreInFlight(q, r)
    BY <1>1 DEF Sound, IDs, NoMoreInFlight, InFlightOf
  <1> QED
    BY <1>1, <1>2 DEF r
----------------------------------------------------------------------------
\* A consumer holds finitely many deliveries, so they can be counted.
LEMMA InFlightFinite ==
  ASSUME NEW k, NEW I, NEW C, NEW W, NEW q \in Queues(k, I, C, W),
         IsFiniteSet(I), NEW c
  PROVE  IsFiniteSet(InFlightOf(q, c)) /\ Cardinality(InFlightOf(q, c)) \in Nat
  <1>1. InFlightOf(q, c) \in SUBSET I
    BY InFlightDelivery DEF InFlightOf
  <1>2. IsFiniteSet(InFlightOf(q, c))
    BY <1>1, FS_Subset
  <1> QED
    BY <1>2, FS_CardinalityType
----------------------------------------------------------------------------
(***************************************************************************)
(* Where the deliveries go.  GivenBack is what Reject (when it requeues)   *)
(* and DisconnectConsumer have in common: the deliveries of S leave        *)
(* InFlight for the end of Ready with the attempts they have, and nothing  *)
(* else moves.                                                             *)
(***************************************************************************)
Kept(m, n) == \A x \in DOMAIN n : x \in DOMAIN m /\ n[x] = m[x]

GivenBack(q, r, S) ==
    /\ SeqIDs(r.Ready) = SeqIDs(q.Ready) \cup S
    /\ DOMAIN r.InFlight = DOMAIN q.InFlight \ S
    /\ Kept(q.InFlight, r.InFlight)
    /\ \A i \in DOMAIN q.Ready : i \in DOMAIN r.Ready /\ r.Ready[i] = q.Ready[i]
    /\ \A i \in DOMAIN r.Ready \ DOMAIN q.Ready :
          /\ r.Ready[i].ID \in S
          /\ r.Ready[i].Attempts = q.InFlight[r.Ready[i].ID].Attempts

\* Deleting from a map leaves the other entries as they are.
LEMMA DeleteKeeps ==
  ASSUME NEW m, NEW ks, NEW n, n = Delete(m, ks)
  PROVE  DOMAIN n = DOMAIN m \ ks /\ Kept(m, n)
  <1>1. /\ DOMAIN n = DOMAIN m \ ks
        /\ \A x \in DOMAIN m \ ks : n[x] = m[x]
    BY DEF Delete, Restrict
  <1> QED
    BY <1>1 DEF Kept

\* Ack, and Reject when it dead-letters: one delivery leaves InFlight.
LEMMA AckedMoves ==
  ASSUME NEW k, NEW I, NEW C, NEW W, NEW q \in Queues(k, I, C, W), NEW id
  PROVE  /\ Acked(q, id).Ready = q.Ready
         /\ DOMAIN Acked(q, id).InFlight = DOMAIN q.InFlight \ {id}
         /\ Kept(q.InFlight, Acked(q, id).InFlight)
         /\ Acked(q, id).Consumers = q.Consumers
  <1>1. /\ Acked(q, id).Ready = q.Ready
        /\ Acked(q, id).InFlight = Delete(q.InFlight, {id})
        /\ Acked(q, id).Consumers = q.Consumers
    BY AckedFields
  <1> QED
    BY <1>1, DeleteKeeps

\* Reject when it requeues.
LEMMA RejectedGivesBack ==
  ASSUME NEW k, NEW I, NEW C, NEW W, NEW q \in Queues(k, I, C, W),
         Sound(q), NEW id \in DOMAIN q.InFlight,
         ~ShouldDeadLetter(q, q.InFlight[id])
  PROVE  /\ GivenBack(q, Rejected(q, id), {id})
         /\ Rejected(q, id).Consumers = q.Consumers
  <1> DEFINE a == Acked(q, id)
             d == Unowned(q.InFlight[id])
             r == Rejected(q, id)
             s == q.Ready
             t == Append(s, d)
  <1>1. /\ d \in Deliveries(I, C)
        /\ d.ID = id
        /\ d.Attempts = q.InFlight[id].Attempts
    BY InFlightDelivery, UnownedType DEF Sound
  <1>2. /\ a \in Queues(k, I, C, W)
        /\ a.Ready = s
        /\ a.Consumers = q.Consumers
        /\ DOMAIN a.InFlight = DOMAIN q.InFlight \ {id}
        /\ Kept(q.InFlight, a.InFlight)
    <2>1. a \in Queues(k, I, C, W)
      BY AckedFields
    <2> QED
      BY <2>1, AckedMoves
  <1>3. r = Enqueued(a, d)
    BY DEF Rejected
  <1>4. s \in Seq(Deliveries(I, C))
    BY DEF Queues
  <1> HIDE DEF a, d, r, s
  <1>5. /\ r.Ready = t
        /\ r.InFlight = a.InFlight
        /\ r.Consumers = q.Consumers
    BY <1>1, <1>2, <1>3, EnqueuedFields
  <1>6. /\ Len(s) \in Nat
        /\ DOMAIN s = 1..Len(s)
        /\ DOMAIN t = 1..(Len(s) + 1)
        /\ \A i \in 1..Len(s) : t[i] = s[i]
        /\ t[Len(s) + 1] = d
    BY <1>1, <1>4, AppendProperties, LenProperties
  <1> HIDE DEF t
  <1>7. SeqIDs(t) = SeqIDs(s) \cup {id}
    BY <1>1, <1>6 DEF SeqIDs
  <1>8. \A i \in DOMAIN s : i \in DOMAIN t /\ t[i] = s[i]
    BY <1>6
  <1>9. \A i \in DOMAIN t \ DOMAIN s : t[i] = d
    BY <1>6
  <1>10. GivenBack(q, r, {id})
    BY <1>1, <1>2, <1>5, <1>7, <1>8, <1>9 DEF GivenBack, s
  <1> QED
    BY <1>5, <1>10 DEF r

\* DisconnectConsumer.
LEMMA DisconnectedGivesBack ==
  ASSUME NEW k, NEW I, NEW C, NEW W, NEW q \in Queues(k, I, C, W),
         IsFiniteSet(I), Sound(q), NEW c, NEW order \in ReturnOrders(q, c)
  PROVE  /\ GivenBack(q, Disconnected(q, c, order), InFlightOf(q, c))
         /\ Disconnected(q, c, order).Consumers = q.Consumers \ {c}
  <1> DEFINE D == Disconnected(q, c, order)
             s == q.Ready
             u == Returned(q, order)
             t == s \o u
             S == InFlightOf(q, c)
  <1>1. s \in Seq(Deliveries(I, C))
    BY DEF Queues
  <1>2. /\ u \in Seq(Deliveries(I, C)) /\ Len(u) = Len(order)
        /\ \A i \in 1..Len(order) : order[i] \in S
        /\ SeqIDs(u) = S
    BY ReturnedSeq DEF Sound
  <1>3. /\ D.Ready = t
        /\ D.InFlight = Delete(q.InFlight, S)
        /\ D.Consumers = q.Consumers \ {c}
    BY <1>2, DisconnectedFields
  <1>4. DOMAIN D.InFlight = DOMAIN q.InFlight \ S /\ Kept(q.InFlight, D.InFlight)
    BY <1>3, DeleteKeeps
  <1>5. \A i \in DOMAIN u : /\ u[i].ID \in S
                            /\ u[i].Attempts = q.InFlight[u[i].ID].Attempts
    <2> SUFFICES ASSUME NEW i \in DOMAIN u
                 PROVE  /\ u[i].ID \in S
                        /\ u[i].Attempts = q.InFlight[u[i].ID].Attempts
      OBVIOUS
    <2>1. i \in 1..Len(order) /\ u[i] = Unowned(q.InFlight[order[i]])
      BY <1>2 DEF Returned
    <2>2. order[i] \in S /\ order[i] \in DOMAIN q.InFlight
      BY <1>2, <2>1 DEF InFlightOf
    <2>3. q.InFlight[order[i]] \in Deliveries(I, C) /\ q.InFlight[order[i]].ID = order[i]
      BY <2>2, InFlightDelivery DEF Sound
    <2> QED
      BY <2>1, <2>2, <2>3, UnownedType
  <1> HIDE DEF D, s, u, S
  <1>6. /\ t \in Seq(Deliveries(I, C))
        /\ Len(t) = Len(s) + Len(u)
        /\ \A i \in 1..(Len(s) + Len(u)) :
              t[i] = IF i <= Len(s) THEN s[i] ELSE u[i - Len(s)]
    BY <1>1, <1>2, ConcatProperties
  <1>7. /\ Len(s) \in Nat /\ Len(u) \in Nat
        /\ DOMAIN s = 1..Len(s) /\ DOMAIN u = 1..Len(u)
        /\ DOMAIN t = 1..(Len(s) + Len(u))
    BY <1>1, <1>2, <1>6, LenProperties
  <1> HIDE DEF t
  <1>8. \A i \in DOMAIN s : i \in DOMAIN t /\ t[i] = s[i]
    BY <1>6, <1>7
  <1>9. \A i \in DOMAIN t \ DOMAIN s : i - Len(s) \in DOMAIN u /\ t[i] = u[i - Len(s)]
    BY <1>6, <1>7
  <1>10. \A i \in DOMAIN u : i + Len(s) \in DOMAIN t /\ t[i + Len(s)] = u[i]
    BY <1>6, <1>7
  <1>11. SeqIDs(t) = SeqIDs(s) \cup S
    <2>1. SeqIDs(t) = SeqIDs(s) \cup SeqIDs(u)
      BY <1>8, <1>9, <1>10 DEF SeqIDs
    <2> QED
      BY <1>2, <2>1
  <1>12. \A i \in DOMAIN t \ DOMAIN s : /\ t[i].ID \in S
                                        /\ t[i].Attempts = q.InFlight[t[i].ID].Attempts
    BY <1>5, <1>9
  <1>13. GivenBack(q, D, S)
    BY <1>3, <1>4, <1>8, <1>11, <1>12 DEF GivenBack, s
  <1> QED
    BY <1>3, <1>13 DEF D, S

\* FetchOrWait with a message: the head of Ready is in flight with one more
\* attempt, and nothing else moves.
LEMMA FetchedMoves ==
  ASSUME NEW k, NEW I, NEW C, NEW W, NEW q \in Queues(k, I, C, W),
         Sound(q), NEW c \in C, q.Ready # << >>
  PROVE  LET r == Fetched(q, c)
             h == Head(q.Ready)
         IN  /\ h \in Deliveries(I, C)
             /\ h.ID \in SeqIDs(q.Ready)
             /\ r.Ready = Tail(q.Ready)
             /\ SeqIDs(r.Ready) = SeqIDs(q.Ready) \ {h.ID}
             /\ DOMAIN r.InFlight = DOMAIN q.InFlight \cup {h.ID}
             /\ \A x \in DOMAIN q.InFlight : r.InFlight[x] = q.InFlight[x]
             /\ r.InFlight[h.ID].ConsumerID = c
             /\ r.InFlight[h.ID].Attempts = h.Attempts + 1
             /\ r.Consumers = q.Consumers
  <1> DEFINE d == FetchedDelivery(q, c)
             r == Fetched(q, c)
             h == Head(q.Ready)
             m == Put(q.InFlight, h.ID, d)
  <1>1. /\ d \in Deliveries(I, C)
        /\ d.ID = h.ID
        /\ d.ConsumerID = c
        /\ d.Attempts = h.Attempts + 1
        /\ r.Ready = Tail(q.Ready)
        /\ r.InFlight = m
        /\ r.Consumers = q.Consumers
    BY FetchedFields
  <1>2. q.Ready \in Seq(Deliveries(I, C))
    BY DEF Queues
  <1>3. h \in Deliveries(I, C)
    BY <1>2, HeadTailProperties
  <1>4. /\ h.ID \in SeqIDs(q.Ready)
        /\ SeqIDs(Tail(q.Ready)) = SeqIDs(q.Ready) \ {h.ID}
    BY <1>2, TailReady DEF Sound
  <1>5. /\ DOMAIN m = DOMAIN q.InFlight \cup {h.ID}
        /\ m[h.ID] = d
        /\ \A x \in DOMAIN q.InFlight \ {h.ID} : m[x] = q.InFlight[x]
    BY DEF Put
  <1>6. h.ID \notin DOMAIN q.InFlight
    BY <1>4 DEF Sound
  <1> HIDE DEF d, r, h, m
  <1>7. \A x \in DOMAIN q.InFlight : m[x] = q.InFlight[x]
    BY <1>5, <1>6
  <1>8. /\ h \in Deliveries(I, C)
        /\ h.ID \in SeqIDs(q.Ready)
        /\ r.Ready = Tail(q.Ready)
        /\ SeqIDs(r.Ready) = SeqIDs(q.Ready) \ {h.ID}
        /\ DOMAIN r.InFlight = DOMAIN q.InFlight \cup {h.ID}
        /\ \A x \in DOMAIN q.InFlight : r.InFlight[x] = q.InFlight[x]
        /\ r.InFlight[h.ID].ConsumerID = c
        /\ r.InFlight[h.ID].Attempts = h.Attempts + 1
        /\ r.Consumers = q.Consumers
    BY <1>1, <1>3, <1>4, <1>5, <1>7
  <1> QED
    BY <1>8 DEF r, h

\* EnqueueDelivery: the delivery goes behind all others.
LEMMA EnqueuedMoves ==
  ASSUME NEW k, NEW I, NEW C, NEW W, NEW q \in Queues(k, I, C, W),
         NEW d \in Deliveries(I, C)
  PROVE  LET r == Enqueued(q, d)
         IN  /\ SeqIDs(r.Ready) = SeqIDs(q.Ready) \cup {d.ID}
             /\ r.InFlight = q.InFlight
             /\ r.Consumers = q.Consumers
             /\ \A i \in DOMAIN q.Ready : i \in DOMAIN r.Ready /\ r.Ready[i] = q.Ready[i]
             /\ \A i \in DOMAIN r.Ready \ DOMAIN q.Ready :
                   /\ r.Ready[i] = d
                   /\ \A j \in DOMAIN q.Ready : j < i
  <1> DEFINE r == Enqueued(q, d)
             s == q.Ready
             t == Append(s, d)
  <1>1. r.Ready = t /\ r.InFlight = q.InFlight /\ r.Consumers = q.Consumers
    BY EnqueuedFields
  <1>2. s \in Seq(Deliveries(I, C))
    BY DEF Queues
  <1> HIDE DEF r, s
  <1>3. /\ Len(s) \in Nat
        /\ DOMAIN s = 1..Len(s)
        /\ DOMAIN t = 1..(Len(s) + 1)
        /\ \A i \in 1..Len(s) : t[i] = s[i]
        /\ t[Len(s) + 1] = d
    BY <1>2, AppendProperties, LenProperties
  <1> HIDE DEF t
  <1>4. \A i \in DOMAIN s : i \in DOMAIN t /\ t[i] = s[i]
    BY <1>3
  <1>5. \A i \in DOMAIN t \ DOMAIN s : t[i] = d /\ \A j \in DOMAIN s : j < i
    BY <1>3
  <1>6. SeqIDs(t) = SeqIDs(s) \cup {d.ID}
    BY <1>3 DEF SeqIDs
  <1> QED
    BY <1>1, <1>4, <1>5, <1>6 DEF r, s
============================================================================
