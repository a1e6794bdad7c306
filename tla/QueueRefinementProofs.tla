------------------------ MODULE QueueRefinementProofs ------------------------
(***************************************************************************)
(* Queue implements DeliveryLifecycle, for any sets of deliveries,         *)
(* consumers and fetch calls and any limits: the initial state maps to the *)
(* initial state, and each action maps to one step of the life cycle or to *)
(* none.                                                                   *)
(*                                                                         *)
(* The mapping reads the attempts of a delivery off the one record the     *)
(* code keeps of it, wherever that is.  That there is only one, also among *)
(* the settled ones, is the strengthening the proof needs beside IInv.     *)
(***************************************************************************)
EXTENDS QueueProofs

USE DEF QueueType, Delivery

Single(ds) == \A d, e \in ds : d.ID = e.ID => d = e

\* The refinement mapping, as operators on values.
StatusIn(A, D, F, R, id) ==
    CASE id \in A -> "acked"
      [] id \in D -> "dead"
      [] id \in F -> "held"
      [] id \in R -> "ready"
      [] OTHER    -> "none"

Status(q, ak, dd, id) ==
    StatusIn(IDsOf(ak), IDsOf(dd), DOMAIN q.InFlight, SeqIDs(q.Ready), id)

Holder(q, id) ==
    IF id \in DOMAIN q.InFlight THEN q.InFlight[id].ConsumerID ELSE NoConsumer

RecordsIn(q, ak, dd) == ak \cup dd \cup ToSet(q.Ready) \cup Range(q.InFlight)

Count(q, ak, dd, id) ==
    LET ds == RecordsIn(q, ak, dd)
    IN  IF id \in IDsOf(ds) THEN (CHOOSE d \in ds : d.ID = id).Attempts ELSE 0

\* The mapping in the current state, ...
LEMMA MapNow ==
  ASSUME NEW id
  PROVE  /\ StatusOf(id) = Status(queue, acked, dead, id)
         /\ HolderOf(id) = Holder(queue, id)
         /\ AttemptsOf(id) = Count(queue, acked, dead, id)
  BY DEF StatusOf, Status, StatusIn, HolderOf, Holder, AttemptsOf, Count, Records,
         RecordsIn, InFlightIDs, ReadyIDs, SeqIDs

\* ... and in the next one.
LEMMA MapNext ==
  ASSUME NEW id
  PROVE  /\ StatusOf(id)' = Status(queue', acked', dead', id)
         /\ HolderOf(id)' = Holder(queue', id)
         /\ AttemptsOf(id)' = Count(queue', acked', dead', id)
  BY DEF StatusOf, Status, StatusIn, HolderOf, Holder, AttemptsOf, Count, Records,
         RecordsIn, InFlightIDs, ReadyIDs, SeqIDs
----------------------------------------------------------------------------
Placed(q, ak, dd) ==
    /\ \A id \in IDsOf(ak) : Status(q, ak, dd, id) = "acked"
    /\ \A id \in IDsOf(dd) : Status(q, ak, dd, id) = "dead"
    /\ \A id \in DOMAIN q.InFlight : Status(q, ak, dd, id) = "held"
    /\ \A id \in SeqIDs(q.Ready) : Status(q, ak, dd, id) = "ready"
    /\ \A id : id \notin IDs(q) \cup IDsOf(ak \cup dd) => Status(q, ak, dd, id) = "none"

\* The four places of a delivery are disjoint, so that its status tells the
\* place.
LEMMA StatusIs ==
  ASSUME NEW q, NEW cr, NEW ak, NEW dd, Sound(q), Settled(q, cr, ak, dd)
  PROVE  Placed(q, ak, dd)
  <1> DEFINE A == IDsOf(ak)
             D == IDsOf(dd)
             F == DOMAIN q.InFlight
             R == SeqIDs(q.Ready)
  <1>1. IDsOf(ak \cup dd) = A \cup D
    BY DEF IDsOf
  <1>2. R \cap F = {} /\ (R \cup F) \cap (A \cup D) = {} /\ A \cap D = {}
    BY <1>1 DEF Sound, Settled, IDs
  <1>3. \A id : Status(q, ak, dd, id) = StatusIn(A, D, F, R, id)
    BY DEF Status
  <1>4. IDs(q) = R \cup F
    BY DEF IDs
  <1> HIDE DEF A, D, F, R
  <1>5. ASSUME NEW id
        PROVE  /\ id \in A => StatusIn(A, D, F, R, id) = "acked"
               /\ id \in D => StatusIn(A, D, F, R, id) = "dead"
               /\ id \in F => StatusIn(A, D, F, R, id) = "held"
               /\ id \in R => StatusIn(A, D, F, R, id) = "ready"
               /\ id \notin R \cup F \cup A \cup D => StatusIn(A, D, F, R, id) = "none"
    BY <1>2 DEF StatusIn
  <1> QED
    BY <1>1, <1>3, <1>4, <1>5 DEF A, D, F, R, Placed

Counted(q, ak, dd) ==
    /\ \A d \in ak \cup dd : Count(q, ak, dd, d.ID) = d.Attempts
    /\ \A id \in DOMAIN q.InFlight : Count(q, ak, dd, id) = q.InFlight[id].Attempts
    /\ \A i \in DOMAIN q.Ready : Count(q, ak, dd, q.Ready[i].ID) = q.Ready[i].Attempts
    /\ \A id : id \notin IDs(q) \cup IDsOf(ak \cup dd) => Count(q, ak, dd, id) = 0

\* There is one record of each delivery, and the mapping finds it.
LEMMA CountIs ==
  ASSUME NEW q \in QueueType, NEW cr, NEW ak, NEW dd,
         Sound(q), Settled(q, cr, ak, dd), Single(ak \cup dd)
  PROVE  Counted(q, ak, dd)
  <1> DEFINE ds == RecordsIn(q, ak, dd)
  <1>1. \A d : d \in ds <=> \/ d \in ak \cup dd
                            \/ \E i \in DOMAIN q.Ready : d = q.Ready[i]
                            \/ \E x \in DOMAIN q.InFlight : d = q.InFlight[x]
    BY DEF RecordsIn, ToSet, Range
  <1>2. /\ \A d \in ak \cup dd : d.ID \in IDsOf(ak \cup dd)
        /\ \A i \in DOMAIN q.Ready : q.Ready[i].ID \in SeqIDs(q.Ready)
        /\ \A x \in DOMAIN q.InFlight : q.InFlight[x].ID = x
    BY DEF IDsOf, SeqIDs, Sound
  <1> HIDE DEF ds
  <1>3. Single(ds)
    <2> SUFFICES ASSUME NEW d \in ds, NEW e \in ds, d.ID = e.ID PROVE d = e
      BY DEF Single
    <2>1. CASE d.ID \in IDsOf(ak \cup dd)
      <3>1. d.ID \notin SeqIDs(q.Ready) /\ d.ID \notin DOMAIN q.InFlight
        BY <2>1 DEF Settled, IDs
      <3>2. d \in ak \cup dd /\ e \in ak \cup dd
        BY <1>1, <1>2, <3>1
      <3> QED
        BY <3>2 DEF Single
    <2>2. CASE d.ID \in DOMAIN q.InFlight
      <3>1. d.ID \notin SeqIDs(q.Ready) /\ d.ID \notin IDsOf(ak \cup dd)
        BY <2>2 DEF Sound, Settled, IDs
      <3>2. d = q.InFlight[d.ID] /\ e = q.InFlight[d.ID]
        BY <1>1, <1>2, <3>1
      <3> QED
        BY <3>2
    <2>3. CASE d.ID \notin IDsOf(ak \cup dd) /\ d.ID \notin DOMAIN q.InFlight
      <3>1. d \notin ak \cup dd /\ e \notin ak \cup dd
        BY <1>2, <2>3
      <3>2. \A x \in DOMAIN q.InFlight : d # q.InFlight[x] /\ e # q.InFlight[x]
        BY <1>2, <2>3
      <3>3. (\E i \in DOMAIN q.Ready : d = q.Ready[i]) /\ (\E j \in DOMAIN q.Ready : e = q.Ready[j])
        BY <1>1, <3>1, <3>2
      <3>4. PICK i \in DOMAIN q.Ready, j \in DOMAIN q.Ready : d = q.Ready[i] /\ e = q.Ready[j]
        BY <3>3
      <3> QED
        BY <3>4 DEF Sound, Distinct
    <2> QED
      BY <2>1, <2>2, <2>3
  <1>4. \A d \in ds : Count(q, ak, dd, d.ID) = d.Attempts
    <2> SUFFICES ASSUME NEW d \in ds PROVE Count(q, ak, dd, d.ID) = d.Attempts
      OBVIOUS
    <2> DEFINE c == CHOOSE e \in ds : e.ID = d.ID
    <2>1. c \in ds /\ c.ID = d.ID
      OBVIOUS
    <2>2. c = d
      BY <1>3, <2>1 DEF Single
    <2>3. d.ID \in IDsOf(ds)
      BY DEF IDsOf
    <2> QED
      BY <2>2, <2>3 DEF Count, ds
  <1>5. \A id : id \notin IDs(q) \cup IDsOf(ak \cup dd) => id \notin IDsOf(ds)
    BY <1>1, <1>2 DEF IDs, IDsOf
  <1>6. \A id : id \notin IDsOf(ds) => Count(q, ak, dd, id) = 0
    BY DEF Count, ds
  <1> QED
    BY <1>1, <1>2, <1>4, <1>5, <1>6 DEF Counted
----------------------------------------------------------------------------
(***************************************************************************)
(* What the moves of QueueCoreProofs are under the mapping.                *)
(***************************************************************************)
Fine(q, cr, ak, dd) ==
    q \in QueueType /\ Sound(q) /\ Settled(q, cr, ak, dd) /\ Single(ak \cup dd)

\* EnqueueDelivery: a new delivery becomes ready.
LEMMA PublishMap ==
  ASSUME NEW q, NEW r, NEW cr, NEW cr2, NEW ak, NEW dd, NEW d,
         Fine(q, cr, ak, dd), Fine(r, cr2, ak, dd),
         d.ID \notin IDs(q) \cup IDsOf(ak \cup dd), d.Attempts = 0,
         SeqIDs(r.Ready) = SeqIDs(q.Ready) \cup {d.ID},
         r.InFlight = q.InFlight,
         \A i \in DOMAIN q.Ready : i \in DOMAIN r.Ready /\ r.Ready[i] = q.Ready[i],
         \A i \in DOMAIN r.Ready \ DOMAIN q.Ready : r.Ready[i] = d
  PROVE  /\ Status(q, ak, dd, d.ID) = "none"
         /\ \A x : /\ Status(r, ak, dd, x) =
                         IF x = d.ID THEN "ready" ELSE Status(q, ak, dd, x)
                   /\ Holder(r, x) = Holder(q, x)
                   /\ Count(r, ak, dd, x) = Count(q, ak, dd, x)
  <1>0. Placed(q, ak, dd) /\ Placed(r, ak, dd)
    BY StatusIs DEF Fine
  <1>1. Status(q, ak, dd, d.ID) = "none"
    BY <1>0 DEF Placed
  <1>2. ASSUME NEW x
        PROVE  Status(r, ak, dd, x) =
                  IF x = d.ID THEN "ready" ELSE Status(q, ak, dd, x)
    <2>1. CASE x = d.ID
      BY <1>0, <2>1 DEF Placed
    <2>2. CASE x # d.ID
      BY <2>2 DEF Status, StatusIn
    <2> QED
      BY <2>1, <2>2
  <1>3. ASSUME NEW x
        PROVE  Count(r, ak, dd, x) = Count(q, ak, dd, x)
    <2>1. Counted(q, ak, dd) /\ Counted(r, ak, dd)
      BY CountIs DEF Fine
    <2>3. CASE x = d.ID
      <3>1. PICK i \in DOMAIN r.Ready : r.Ready[i].ID = d.ID
        BY DEF SeqIDs
      <3>2. i \notin DOMAIN q.Ready
        BY <3>1 DEF SeqIDs, IDs
      <3>3. Count(r, ak, dd, d.ID) = 0
        BY <2>1, <3>1, <3>2 DEF Counted
      <3> QED
        BY <2>1, <2>3, <3>3 DEF Counted
    <2>4. CASE x # d.ID /\ x \in IDsOf(ak \cup dd)
      BY <2>1, <2>4 DEF Counted, IDsOf
    <2>5. CASE x # d.ID /\ x \in DOMAIN q.InFlight
      BY <2>1, <2>5 DEF Counted
    <2>6. CASE x # d.ID /\ x \in SeqIDs(q.Ready)
      BY <2>1, <2>6 DEF Counted, SeqIDs
    <2>7. CASE x # d.ID /\ x \notin IDs(q) \cup IDsOf(ak \cup dd)
      BY <2>1, <2>7 DEF Counted, IDs
    <2> QED
      BY <2>3, <2>4, <2>5, <2>6, <2>7 DEF IDs
  <1> QED
    BY <1>1, <1>2, <1>3 DEF Holder

\* Reject and DisconnectConsumer: what is given back becomes ready.
LEMMA GivenBackMap ==
  ASSUME NEW q, NEW r, NEW cr, NEW ak, NEW dd, NEW S, S \subseteq DOMAIN q.InFlight,
         Fine(q, cr, ak, dd), Fine(r, cr, ak, dd), GivenBack(q, r, S)
  PROVE  \A x : /\ Status(r, ak, dd, x) = IF x \in S THEN "ready" ELSE Status(q, ak, dd, x)
                /\ Holder(r, x) = IF x \in S THEN NoConsumer ELSE Holder(q, x)
                /\ Count(r, ak, dd, x) = Count(q, ak, dd, x)
  <1> SUFFICES ASSUME NEW x
               PROVE  /\ Status(r, ak, dd, x) =
                            IF x \in S THEN "ready" ELSE Status(q, ak, dd, x)
                      /\ Holder(r, x) = IF x \in S THEN NoConsumer ELSE Holder(q, x)
                      /\ Count(r, ak, dd, x) = Count(q, ak, dd, x)
    OBVIOUS
  <1>1. Status(r, ak, dd, x) = IF x \in S THEN "ready" ELSE Status(q, ak, dd, x)
    <2>1. CASE x \in S
      <3>1. x \in SeqIDs(r.Ready)
        BY <2>1 DEF GivenBack
      <3>2. Placed(r, ak, dd)
        BY StatusIs DEF Fine
      <3> QED
        BY <2>1, <3>1, <3>2 DEF Placed
    <2>2. CASE x \notin S
      BY <2>2 DEF Status, StatusIn, GivenBack
    <2> QED
      BY <2>1, <2>2
  <1>2. Holder(r, x) = IF x \in S THEN NoConsumer ELSE Holder(q, x)
    BY DEF Holder, GivenBack, Kept
  <1>3. Count(r, ak, dd, x) = Count(q, ak, dd, x)
    <2>1. Counted(q, ak, dd) /\ Counted(r, ak, dd)
      BY CountIs DEF Fine
    <2>3. CASE x \in S
      <3>1. PICK i \in DOMAIN r.Ready : r.Ready[i].ID = x
        BY <2>3 DEF GivenBack, SeqIDs
      <3>2. i \notin DOMAIN q.Ready
        <4>1. x \notin SeqIDs(q.Ready)
          BY <2>3 DEF Fine, Sound
        <4> QED
          BY <3>1, <4>1 DEF GivenBack, SeqIDs
      <3>3. r.Ready[i].Attempts = q.InFlight[x].Attempts
        BY <3>1, <3>2 DEF GivenBack
      <3> QED
        BY <2>1, <2>3, <3>1, <3>3 DEF Counted
    <2>4. CASE x \in IDsOf(ak \cup dd)
      BY <2>1, <2>4 DEF Counted, IDsOf
    <2>5. CASE x \notin S /\ x \in DOMAIN q.InFlight
      BY <2>1, <2>5 DEF Counted, GivenBack, Kept
    <2>6. CASE x \in SeqIDs(q.Ready)
      BY <2>1, <2>6 DEF Counted, SeqIDs, GivenBack
    <2>7. CASE x \notin S /\ x \notin IDs(q) \cup IDsOf(ak \cup dd)
      BY <2>1, <2>7 DEF Counted, IDs, GivenBack
    <2> QED
      BY <2>3, <2>4, <2>5, <2>6, <2>7 DEF IDs
  <1> QED
    BY <1>1, <1>2, <1>3

\* Ack, and Reject when it dead-letters: one delivery is settled.
LEMMA SettledMap ==
  ASSUME NEW q, NEW r, NEW cr, NEW ak, NEW dd, NEW ak2, NEW dd2,
         NEW id \in DOMAIN q.InFlight, NEW outcome,
         Fine(q, cr, ak, dd), Fine(r, cr, ak2, dd2),
         r.Ready = q.Ready,
         DOMAIN r.InFlight = DOMAIN q.InFlight \ {id},
         Kept(q.InFlight, r.InFlight),
         \/ outcome = "acked" /\ ak2 = ak \cup {q.InFlight[id]} /\ dd2 = dd
         \/ outcome = "dead" /\ dd2 = dd \cup {q.InFlight[id]} /\ ak2 = ak
  PROVE  \A x : /\ Status(r, ak2, dd2, x) =
                      IF x = id THEN outcome ELSE Status(q, ak, dd, x)
                /\ Holder(r, x) = IF x = id THEN NoConsumer ELSE Holder(q, x)
                /\ Count(r, ak2, dd2, x) = Count(q, ak, dd, x)
  <1> SUFFICES ASSUME NEW x
               PROVE  /\ Status(r, ak2, dd2, x) =
                            IF x = id THEN outcome ELSE Status(q, ak, dd, x)
                      /\ Holder(r, x) = IF x = id THEN NoConsumer ELSE Holder(q, x)
                      /\ Count(r, ak2, dd2, x) = Count(q, ak, dd, x)
    OBVIOUS
  <1> DEFINE d == q.InFlight[id]
  <1>1. d.ID = id
    BY DEF Fine, Sound
  <1>2. \/ outcome = "acked" /\ IDsOf(ak2) = IDsOf(ak) \cup {id} /\ dd2 = dd
        \/ outcome = "dead" /\ IDsOf(dd2) = IDsOf(dd) \cup {id} /\ ak2 = ak
    BY <1>1 DEF IDsOf
  <1>3. Status(r, ak2, dd2, x) = IF x = id THEN outcome ELSE Status(q, ak, dd, x)
    <2>1. CASE x = id
      <3>1. Placed(r, ak2, dd2)
        BY StatusIs DEF Fine
      <3>2. \/ outcome = "acked" /\ x \in IDsOf(ak2)
            \/ outcome = "dead" /\ x \in IDsOf(dd2)
        BY <1>2, <2>1
      <3> QED
        BY <2>1, <3>1, <3>2 DEF Placed
    <2>2. CASE x # id
      BY <1>2, <2>2 DEF Status, StatusIn
    <2> QED
      BY <2>1, <2>2
  <1>4. Holder(r, x) = IF x = id THEN NoConsumer ELSE Holder(q, x)
    BY DEF Holder, Kept
  <1>5. Count(r, ak2, dd2, x) = Count(q, ak, dd, x)
    <2>1. Counted(q, ak, dd) /\ Counted(r, ak2, dd2)
      BY CountIs DEF Fine
    <2>2. ak2 \cup dd2 = ak \cup dd \cup {d}
      OBVIOUS
    <2> HIDE DEF d
    <2>3. CASE x = id
      <3>1. Count(r, ak2, dd2, d.ID) = d.Attempts
        BY <2>1, <2>2 DEF Counted
      <3>2. Count(q, ak, dd, id) = d.Attempts
        BY <2>1 DEF Counted, d
      <3> QED
        BY <1>1, <2>3, <3>1, <3>2
    <2>4. CASE x # id /\ x \in IDsOf(ak \cup dd)
      <3>1. PICK e \in ak \cup dd : e.ID = x
        BY <2>4 DEF IDsOf
      <3> QED
        BY <2>1, <2>2, <3>1 DEF Counted
    <2>5. CASE x # id /\ x \in DOMAIN q.InFlight
      BY <2>1, <2>5 DEF Counted, Kept
    <2>6. CASE x # id /\ x \in SeqIDs(q.Ready)
      BY <2>1, <2>6 DEF Counted, SeqIDs
    <2>7. CASE x # id /\ x \notin IDs(q) \cup IDsOf(ak \cup dd)
      <3>1. x \notin IDs(r) \cup IDsOf(ak2 \cup dd2)
        BY <1>1, <2>2, <2>7 DEF IDs, IDsOf
      <3> QED
        BY <2>1, <2>7, <3>1 DEF Counted
    <2> QED
      BY <2>3, <2>4, <2>5, <2>6, <2>7 DEF IDs
  <1> QED
    BY <1>3, <1>4, <1>5

\* An attempt more, up to the bound.
OneMore(a) == IF a < AttemptBound THEN a + 1 ELSE AttemptBound

\* FetchOrWait with a message: one delivery is handed out.
LEMMA HandOutMap ==
  ASSUME NEW q, NEW r, NEW cr, NEW ak, NEW dd, NEW c \in Consumers,
         Fine(q, cr, ak, dd), Fine(r, cr, ak, dd), q.Ready # << >>, r = Fetched(Counting(q), c)
  PROVE  LET h == Head(q.Ready).ID
         IN  /\ h \in DeliveryIDs
             /\ Status(q, ak, dd, h) = "ready"
             /\ \A x : /\ Status(r, ak, dd, x) =
                             IF x = h THEN "held" ELSE Status(q, ak, dd, x)
                       /\ Holder(r, x) = IF x = h THEN c ELSE Holder(q, x)
                       /\ Count(r, ak, dd, x) =
                             IF x = h THEN OneMore(Count(q, ak, dd, x)) ELSE Count(q, ak, dd, x)
  <1> DEFINE e == Head(q.Ready)
             h == e.ID
             p == Counting(q)
  <1>0. q \in QueueType /\ Sound(q)
    BY DEF Fine
  <1>12. /\ p \in QueueType /\ p.Ready # << >> /\ Sound(p)
         /\ Tail(p.Ready) = Tail(q.Ready) /\ p.InFlight = q.InFlight
         /\ SeqIDs(p.Ready) = SeqIDs(q.Ready) /\ Head(p.Ready).ID = h
         /\ Head(p.Ready).Attempts =
               IF e.Attempts < AttemptBound THEN e.Attempts ELSE AttemptBound - 1
    BY <1>0, CountingFields, CountingSame
  <1> HIDE DEF p
  <1>1. /\ e \in Delivery
        /\ h \in SeqIDs(q.Ready)
        /\ r.Ready = Tail(q.Ready)
        /\ SeqIDs(r.Ready) = SeqIDs(q.Ready) \ {h}
        /\ DOMAIN r.InFlight = DOMAIN q.InFlight \cup {h}
        /\ \A x \in DOMAIN q.InFlight : r.InFlight[x] = q.InFlight[x]
        /\ r.InFlight[h].ConsumerID = c
        /\ r.InFlight[h].Attempts = OneMore(e.Attempts)
    <2>1. e \in Delivery
      BY <1>0, FetchedMoves
    <2>2. /\ h \in SeqIDs(p.Ready)
          /\ r.Ready = Tail(p.Ready)
          /\ SeqIDs(r.Ready) = SeqIDs(p.Ready) \ {h}
          /\ DOMAIN r.InFlight = DOMAIN p.InFlight \cup {h}
          /\ \A x \in DOMAIN p.InFlight : r.InFlight[x] = p.InFlight[x]
          /\ r.InFlight[h].ConsumerID = c
          /\ r.InFlight[h].Attempts = Head(p.Ready).Attempts + 1
      BY <1>12, FetchedMoves DEF p
    <2> HIDE DEF e
    <2>3. Head(p.Ready).Attempts + 1 = OneMore(e.Attempts)
      BY <1>12, <2>1, QueueAssumption DEF OneMore, Deliveries
    <2> QED
      BY <1>12, <2>1, <2>2, <2>3
  <1>2. q.Ready \in Seq(Delivery)
    BY DEF Fine, Queues
  <1>3. 1 \in DOMAIN q.Ready /\ e = q.Ready[1]
    BY <1>2, EmptySeq, LenProperties
  <1>4. \A i \in DOMAIN r.Ready : i + 1 \in DOMAIN q.Ready /\ r.Ready[i] = q.Ready[i + 1]
    BY <1>1, <1>2, HeadTailProperties, LenProperties
  <1> HIDE DEF e
  <1>5. h \in DeliveryIDs
    BY <1>1 DEF Deliveries
  <1> HIDE DEF h
  <1>6. h \notin DOMAIN q.InFlight
    BY <1>1 DEF Fine, Sound
  <1>7. Placed(q, ak, dd) /\ Placed(r, ak, dd)
    BY StatusIs DEF Fine
  <1>11. Status(q, ak, dd, h) = "ready"
    BY <1>1, <1>7 DEF Placed
  <1>8. ASSUME NEW x
        PROVE  Status(r, ak, dd, x) = IF x = h THEN "held" ELSE Status(q, ak, dd, x)
    <2>1. CASE x = h
      BY <1>1, <1>7, <2>1 DEF Placed
    <2>2. CASE x # h
      BY <1>1, <2>2 DEF Status, StatusIn
    <2> QED
      BY <2>1, <2>2
  <1>9. \A x : Holder(r, x) = IF x = h THEN c ELSE Holder(q, x)
    BY <1>1, <1>6 DEF Holder
  <1>10. ASSUME NEW x
         PROVE  Count(r, ak, dd, x) =
                   IF x = h THEN OneMore(Count(q, ak, dd, x)) ELSE Count(q, ak, dd, x)
    <2>1. Counted(q, ak, dd) /\ Counted(r, ak, dd)
      BY CountIs DEF Fine
    <2>2. CASE x = h
      <3>1. Count(r, ak, dd, h) = OneMore(e.Attempts)
        BY <1>1, <2>1 DEF Counted
      <3>2. Count(q, ak, dd, h) = e.Attempts
        BY <1>3, <2>1 DEF Counted, h
      <3> QED
        BY <2>2, <3>1, <3>2
    <2>3. CASE x # h /\ x \in IDsOf(ak \cup dd)
      <3>1. PICK d \in ak \cup dd : d.ID = x
        BY <2>3 DEF IDsOf
      <3> QED
        BY <2>1, <2>3, <3>1 DEF Counted
    <2>4. CASE x # h /\ x \in DOMAIN q.InFlight
      BY <1>1, <2>1, <2>4 DEF Counted
    <2>5. CASE x # h /\ x \in SeqIDs(q.Ready)
      <3>1. x \in SeqIDs(r.Ready)
        BY <1>1, <2>5
      <3>2. PICK i \in DOMAIN r.Ready : r.Ready[i].ID = x
        BY <3>1 DEF SeqIDs
      <3> QED
        BY <1>4, <2>1, <2>5, <3>2 DEF Counted
    <2>6. CASE x # h /\ x \notin IDs(q) \cup IDsOf(ak \cup dd)
      BY <1>1, <2>1, <2>6 DEF Counted, IDs
    <2> QED
      BY <2>2, <2>3, <2>4, <2>5, <2>6 DEF IDs
  <1> QED
    BY <1>5, <1>8, <1>9, <1>10, <1>11 DEF h, e
----------------------------------------------------------------------------
(***************************************************************************)
(* The steps of DeliveryLifecycle, read through the mapping.               *)
(***************************************************************************)
\* What the abstract variables become in a step, delivery by delivery.
Becomes(S(_), H(_), A(_)) ==
    \A x \in DeliveryIDs : /\ Status(queue', acked', dead', x) = S(x)
                            /\ Holder(queue', x) = H(x)
                            /\ Count(queue', acked', dead', x) = A(x)

StatusNow(x) == Status(queue, acked, dead, x)
HolderNow(x) == Holder(queue, x)
CountNow(x)  == Count(queue, acked, dead, x)

\* A step that moves no delivery and leaves the consumers alone is none of
\* the life cycle.
LEMMA StutterStep ==
  ASSUME Becomes(StatusNow, HolderNow, CountNow), queue'.Consumers = queue.Consumers
  PROVE  UNCHANGED Lifecycle!vars
  BY MapNow, MapNext DEF Becomes, StatusNow, HolderNow, CountNow, Lifecycle!vars

\* EnqueueDelivery of an unknown delivery is Publish.
LEMMA PublishStep ==
  ASSUME NEW id \in DeliveryIDs, StatusNow(id) = "none",
         Becomes(LAMBDA x : IF x = id THEN "ready" ELSE StatusNow(x), HolderNow, CountNow),
         queue'.Consumers = queue.Consumers
  PROVE  Lifecycle!Publish(id)
  BY MapNow, MapNext DEF Becomes, StatusNow, HolderNow, CountNow, Lifecycle!Publish

\* AddConsumer is Join.
LEMMA JoinStep ==
  ASSUME NEW c, Becomes(StatusNow, HolderNow, CountNow),
         queue'.Consumers = queue.Consumers \cup {c}
  PROVE  Lifecycle!Join(c)
  BY MapNow, MapNext DEF Becomes, StatusNow, HolderNow, CountNow, Lifecycle!Join

\* The deliveries a consumer holds are its in-flight ones.
LEMMA HeldIs ==
  ASSUME queue \in QueueType, NEW c \in Consumers
  PROVE  Lifecycle!HeldBy(c) = InFlightOf(queue, c)
  <1>1. \A x \in InFlightOf(queue, c) : x \in DeliveryIDs
    BY InFlightDelivery DEF InFlightOf
  <1> QED
    BY <1>1, MapNow, QueueAssumption DEF Lifecycle!HeldBy, Holder, InFlightOf

\* DisconnectConsumer is Leave.
LEMMA LeaveStep ==
  ASSUME queue \in QueueType, NEW c \in Consumers,
         Becomes(LAMBDA x : IF x \in InFlightOf(queue, c) THEN "ready" ELSE StatusNow(x),
                 LAMBDA x : IF x \in InFlightOf(queue, c) THEN NoConsumer ELSE HolderNow(x),
                 CountNow),
         queue'.Consumers = queue.Consumers \ {c}
  PROVE  Lifecycle!Leave(c)
  BY HeldIs, MapNow, MapNext
     DEF Becomes, StatusNow, HolderNow, CountNow, Lifecycle!Leave

\* Ack is Settle, and so is a Reject that dead-letters.
LEMMA SettleStep ==
  ASSUME NEW id \in DeliveryIDs, NEW outcome, StatusNow(id) = "held",
         outcome = "dead" => \/ MaxAttempts > 0 /\ CountNow(id) >= MaxAttempts
                             \/ queue.Consumers = {HolderNow(id)},
         Becomes(LAMBDA x : IF x = id THEN outcome ELSE StatusNow(x),
                 LAMBDA x : IF x = id THEN NoConsumer ELSE HolderNow(x),
                 CountNow),
         queue'.Consumers = queue.Consumers
  PROVE  Lifecycle!Settle(id, outcome)
  BY MapNow, MapNext DEF Becomes, StatusNow, HolderNow, CountNow, Lifecycle!Settle

\* Reject of a delivery that may be tried again is GiveBack.
LEMMA GiveBackStep ==
  ASSUME NEW id \in DeliveryIDs, StatusNow(id) = "held",
         queue.Consumers # {HolderNow(id)},
         MaxAttempts > 0 => CountNow(id) < MaxAttempts,
         Becomes(LAMBDA x : IF x = id THEN "ready" ELSE StatusNow(x),
                 LAMBDA x : IF x = id THEN NoConsumer ELSE HolderNow(x),
                 CountNow),
         queue'.Consumers = queue.Consumers
  PROVE  Lifecycle!GiveBack(id)
  BY MapNow, MapNext DEF Becomes, StatusNow, HolderNow, CountNow, Lifecycle!GiveBack

\* FetchOrWait with a message is HandOut.
LEMMA HandOutStep ==
  ASSUME queue \in QueueType, NEW id \in DeliveryIDs, NEW c \in Consumers,
         StatusNow(id) = "ready", FetchAllowed(queue, c, MaxInFlight),
         Becomes(LAMBDA x : IF x = id THEN "held" ELSE StatusNow(x),
                 LAMBDA x : IF x = id THEN c ELSE HolderNow(x),
                 LAMBDA x : IF x = id THEN OneMore(CountNow(x)) ELSE CountNow(x)),
         queue'.Consumers = queue.Consumers
  PROVE  Lifecycle!HandOut(id, c)
  <1>1. /\ c \in queue.Consumers
        /\ MaxInFlight > 0 => Lifecycle!Cardinality(Lifecycle!HeldBy(c)) < MaxInFlight
    <2>1. ASSUME NEW S PROVE Lifecycle!Cardinality(S) = Cardinality(S)
      BY DEF Lifecycle!Cardinality, Cardinality
    <2> QED
      BY <2>1, HeldIs DEF FetchAllowed
  <1>2. StatusOf(id) = "ready"
    BY MapNow DEF StatusNow
  <1>3. \A x \in DeliveryIDs :
           /\ StatusOf(x)' = IF x = id THEN "held" ELSE StatusOf(x)
           /\ HolderOf(x)' = IF x = id THEN c ELSE HolderOf(x)
           /\ AttemptsOf(x)' = IF x = id THEN OneMore(AttemptsOf(x)) ELSE AttemptsOf(x)
    BY MapNow, MapNext DEF Becomes, StatusNow, HolderNow, CountNow
  <1>4. [x \in DeliveryIDs |-> AttemptsOf(x)]' =
           [[x \in DeliveryIDs |-> AttemptsOf(x)] EXCEPT ![id] = OneMore(AttemptsOf(id))]
    BY <1>3
  <1>5. /\ [x \in DeliveryIDs |-> StatusOf(x)]' =
              [[x \in DeliveryIDs |-> StatusOf(x)] EXCEPT ![id] = "held"]
        /\ [x \in DeliveryIDs |-> HolderOf(x)]' =
              [[x \in DeliveryIDs |-> HolderOf(x)] EXCEPT ![id] = c]
    BY <1>3
  <1> QED
    BY <1>1, <1>2, <1>4, <1>5 DEF Lifecycle!HandOut, OneMore
----------------------------------------------------------------------------
\* The initial state of the queue is that of the life cycle.
LEMMA InitMap == Init => Lifecycle!Init
  <1> SUFFICES ASSUME Init PROVE Lifecycle!Init
    OBVIOUS
  <1> DEFINE q == NewQueue(FALSE, FALSE, MaxAttempts, {})
  <1>1. /\ queue = q /\ q.Ready = << >> /\ DOMAIN q.InFlight = {} /\ q.Consumers = {}
        /\ acked = {} /\ dead = {}
    BY DEF Init, NewQueue
  <1> HIDE DEF q
  <1>2. ASSUME NEW x
        PROVE  StatusOf(x) = "none" /\ HolderOf(x) = NoConsumer /\ AttemptsOf(x) = 0
    <2>1. /\ IDsOf(acked) = {} /\ IDsOf(dead) = {} /\ InFlightIDs = {} /\ ReadyIDs = {}
          /\ IDsOf(Records) = {}
      BY <1>1 DEF IDsOf, InFlightIDs, ReadyIDs, Records, ToSet, Range
    <2> QED
      BY <2>1 DEF StatusOf, HolderOf, AttemptsOf
  <1> QED
    BY <1>1, <1>2 DEF Lifecycle!Init

\* There stays one record of each settled delivery: what Ack and Reject add
\* was in flight, and so not settled before.
LEMMA NextSingle ==
  ASSUME IInv, Single(acked \cup dead), [Next]_vars
  PROVE  Single(acked' \cup dead')
  <1>1. Sound(queue) /\ Settled(queue, created, acked, dead)
    BY InvNow DEF Inv
  <1>2. ASSUME NEW id \in DOMAIN queue.InFlight,
               acked' \cup dead' = acked \cup dead \cup {queue.InFlight[id]}
        PROVE  Single(acked' \cup dead')
    <2>1. queue.InFlight[id].ID = id /\ id \notin IDsOf(acked \cup dead)
      BY <1>1 DEF Sound, Settled, IDs
    <2>2. \A e \in acked \cup dead : e.ID # id
      BY <2>1 DEF IDsOf
    <2> QED
      BY <1>2, <2>1, <2>2 DEF Single
  <1>3. ASSUME NEW id, NEW c, Ack(id, c) \/ NAck(id, c)
        PROVE  \/ UNCHANGED <<acked, dead>>
               \/ \E x \in DOMAIN queue.InFlight :
                     acked' \cup dead' = acked \cup dead \cup {queue.InFlight[x]}
    BY <1>3 DEF Ack, NAck, Holds
  <1>4. \/ UNCHANGED <<acked, dead>>
        \/ \E x \in DOMAIN queue.InFlight :
              acked' \cup dead' = acked \cup dead \cup {queue.InFlight[x]}
    BY <1>3
       DEF Next, vars, EnqueueDelivery, AddConsumer, DisconnectConsumer, StartFetch,
           FetchOrWait, FetchReady, FetchRefused, FetchEmpty, WakeUp, FetchTimeout,
           FetchCancelled, StopWaiting, TimerFires
  <1> QED
    BY <1>2, <1>4

\* Every step of the queue is a step of the life cycle, or none.
LEMMA NextMap ==
  ASSUME IInv, IInv', Single(acked \cup dead), Single(acked' \cup dead'), [Next]_vars
  PROVE  [Lifecycle!Next]_(Lifecycle!vars)
  <1>1. Fine(queue, created, acked, dead) /\ Fine(queue', created', acked', dead')
    BY InvNow, InvNext DEF Inv, Fine
  <1>2. queue \in QueueType /\ Sound(queue) /\ Settled(queue, created, acked, dead)
    BY <1>1 DEF Fine
  <1>3. queue.MaxAttempts = MaxAttempts
    BY <1>2 DEF Queues, Empty, NewQueue
  <1>4. Placed(queue, acked, dead) /\ Counted(queue, acked, dead)
    <2>1. Placed(queue, acked, dead)
      BY <1>2, StatusIs
    <2>2. Counted(queue, acked, dead)
      BY <1>1, CountIs DEF Fine
    <2> QED
      BY <2>1, <2>2
  <1>5. ASSUME NEW id \in DeliveryIDs, EnqueueDelivery(id)
        PROVE  Lifecycle!Publish(id)
    <2> DEFINE d == NewDelivery(id)
    <2>1. d \in Delivery /\ d.ID = id /\ d.Attempts = 0
      BY DEF NewDelivery, Deliveries
    <2>2. id \notin IDs(queue) \cup IDsOf(acked \cup dead)
      BY <1>2, <1>5 DEF EnqueueDelivery, Settled
    <2>3. queue' = Enqueued(queue, d) /\ UNCHANGED <<acked, dead>>
      BY <1>5 DEF EnqueueDelivery
    <2> HIDE DEF d
    <2>4. /\ SeqIDs(queue'.Ready) = SeqIDs(queue.Ready) \cup {d.ID}
          /\ queue'.InFlight = queue.InFlight
          /\ queue'.Consumers = queue.Consumers
          /\ \A i \in DOMAIN queue.Ready :
                i \in DOMAIN queue'.Ready /\ queue'.Ready[i] = queue.Ready[i]
          /\ \A i \in DOMAIN queue'.Ready \ DOMAIN queue.Ready : queue'.Ready[i] = d
      BY <1>2, <2>1, <2>3, EnqueuedMoves
    <2>5. Fine(queue', created', acked, dead)
      BY <1>1, <2>3
    <2>6. StatusNow(id) = "none"
      BY <1>4, <2>2 DEF Placed, StatusNow
    <2>7. \A x : /\ Status(queue', acked, dead, x) =
                         IF x = d.ID THEN "ready" ELSE Status(queue, acked, dead, x)
                 /\ Holder(queue', x) = Holder(queue, x)
                 /\ Count(queue', acked, dead, x) = Count(queue, acked, dead, x)
      BY <1>1, <2>1, <2>2, <2>4, <2>5, PublishMap
    <2>8. Becomes(LAMBDA x : IF x = id THEN "ready" ELSE StatusNow(x), HolderNow, CountNow)
      BY <2>1, <2>3, <2>7 DEF Becomes, StatusNow, HolderNow, CountNow
    <2> QED
      BY <2>4, <2>6, <2>8, PublishStep
  <1>6. ASSUME UNCHANGED <<acked, dead>>,
               queue'.Ready = queue.Ready, queue'.InFlight = queue.InFlight
        PROVE  Becomes(StatusNow, HolderNow, CountNow)
    BY <1>6 DEF Becomes, StatusNow, HolderNow, CountNow, Status, Holder, Count, RecordsIn
  <1>7. ASSUME NEW c \in Consumers, AddConsumer(c)
        PROVE  Lifecycle!Join(c)
    <2>1. UNCHANGED <<acked, dead>> /\ queue' = WithConsumer(queue, c)
      BY <1>7 DEF AddConsumer
    <2>2. /\ queue'.Ready = queue.Ready /\ queue'.InFlight = queue.InFlight
          /\ queue'.Consumers = queue.Consumers \cup {c}
      BY <1>2, <2>1 DEF WithConsumer, Queues
    <2> QED
      BY <1>6, <2>1, <2>2, JoinStep
  <1>8. ASSUME NEW c \in Consumers, DisconnectConsumer(c)
        PROVE  Lifecycle!Leave(c)
    <2> DEFINE S == InFlightOf(queue, c)
    <2>1. PICK order \in ReturnOrders(queue, c) : queue' = Disconnected(queue, c, order)
      BY <1>8 DEF DisconnectConsumer
    <2>2. UNCHANGED <<created, acked, dead>>
      BY <1>8 DEF DisconnectConsumer
    <2>3. GivenBack(queue, queue', S) /\ queue'.Consumers = queue.Consumers \ {c}
      BY <1>2, <2>1, DisconnectedGivesBack, QueueAssumption
    <2>4. S \subseteq DOMAIN queue.InFlight
      BY DEF InFlightOf
    <2> HIDE DEF S
    <2>5. Fine(queue', created, acked, dead)
      BY <1>1, <2>2
    <2>6. \A x : /\ Status(queue', acked, dead, x) =
                         IF x \in S THEN "ready" ELSE Status(queue, acked, dead, x)
                 /\ Holder(queue', x) = IF x \in S THEN NoConsumer ELSE Holder(queue, x)
                 /\ Count(queue', acked, dead, x) = Count(queue, acked, dead, x)
      BY <1>1, <2>3, <2>4, <2>5, GivenBackMap
    <2>7. Becomes(LAMBDA x : IF x \in InFlightOf(queue, c) THEN "ready" ELSE StatusNow(x),
                  LAMBDA x : IF x \in InFlightOf(queue, c) THEN NoConsumer ELSE HolderNow(x),
                  CountNow)
      BY <2>2, <2>6 DEF Becomes, StatusNow, HolderNow, CountNow, S
    <2> QED
      BY <1>2, <2>3, <2>7, LeaveStep
  <1>9. ASSUME NEW id \in DOMAIN queue.InFlight
        PROVE  /\ StatusNow(id) = "held"
               /\ HolderNow(id) = queue.InFlight[id].ConsumerID
               /\ CountNow(id) = queue.InFlight[id].Attempts
    BY <1>4 DEF Placed, Counted, StatusNow, HolderNow, CountNow, Holder
  <1>10. ASSUME NEW id \in DeliveryIDs, NEW outcome, id \in DOMAIN queue.InFlight,
                queue' = Acked(queue, id), UNCHANGED created,
                \/ outcome = "acked" /\ acked' = acked \cup {queue.InFlight[id]}
                                     /\ dead' = dead
                \/ outcome = "dead" /\ dead' = dead \cup {queue.InFlight[id]}
                                    /\ acked' = acked,
                outcome = "dead" => \/ MaxAttempts > 0 /\ CountNow(id) >= MaxAttempts
                                    \/ queue.Consumers = {HolderNow(id)}
         PROVE  Lifecycle!Settle(id, outcome)
    <2>1. /\ queue'.Ready = queue.Ready
          /\ DOMAIN queue'.InFlight = DOMAIN queue.InFlight \ {id}
          /\ Kept(queue.InFlight, queue'.InFlight)
          /\ queue'.Consumers = queue.Consumers
      BY <1>2, <1>10, AckedMoves
    <2>2. Fine(queue', created, acked', dead')
      BY <1>1, <1>10
    <2>3. \A x : /\ Status(queue', acked', dead', x) =
                         IF x = id THEN outcome ELSE Status(queue, acked, dead, x)
                 /\ Holder(queue', x) = IF x = id THEN NoConsumer ELSE Holder(queue, x)
                 /\ Count(queue', acked', dead', x) = Count(queue, acked, dead, x)
      BY <1>1, <1>10, <2>1, <2>2, SettledMap
    <2>4. Becomes(LAMBDA x : IF x = id THEN outcome ELSE StatusNow(x),
                  LAMBDA x : IF x = id THEN NoConsumer ELSE HolderNow(x),
                  CountNow)
      BY <2>3 DEF Becomes, StatusNow, HolderNow, CountNow
    <2>5. StatusNow(id) = "held"
      BY <1>9, <1>10
    <2> QED
      BY <1>10, <2>1, <2>4, <2>5, SettleStep DEF Becomes
  <1>11. ASSUME NEW id \in DeliveryIDs, NEW c \in Consumers, Ack(id, c)
         PROVE  Lifecycle!Settle(id, "acked")
    <2>1. /\ id \in DOMAIN queue.InFlight /\ queue' = Acked(queue, id)
          /\ acked' = acked \cup {queue.InFlight[id]} /\ UNCHANGED <<created, dead>>
      BY <1>11 DEF Ack, Holds
    <2> QED
      BY <1>10, <2>1
  <1>12. ASSUME NEW id \in DeliveryIDs, NEW c \in Consumers, NAck(id, c)
         PROVE  Lifecycle!Settle(id, "dead") \/ Lifecycle!GiveBack(id)
    <2> DEFINE d == queue.InFlight[id]
    <2>1. /\ id \in DOMAIN queue.InFlight /\ queue' = Rejected(queue, id)
          /\ dead' = IF ShouldDeadLetter(queue, d) THEN dead \cup {d} ELSE dead
          /\ UNCHANGED <<created, acked>>
      BY <1>12 DEF NAck, Holds
    <2>2. /\ StatusNow(id) = "held"
          /\ HolderNow(id) = d.ConsumerID
          /\ CountNow(id) = d.Attempts
          /\ d.ConsumerID \in queue.Consumers
          /\ d.Attempts \in Nat
      <3>1. d \in Delivery
        BY <1>2, <2>1, InFlightDelivery
      <3> QED
        BY <1>2, <1>9, <2>1, <3>1 DEF Sound, Deliveries
    <2>3. CASE ShouldDeadLetter(queue, d)
      <3>1. queue' = Acked(queue, id)
        BY <2>1, <2>3 DEF Rejected
      <3>2. \/ MaxAttempts > 0 /\ CountNow(id) >= MaxAttempts
            \/ queue.Consumers = {HolderNow(id)}
        BY <1>3, <2>2, <2>3 DEF ShouldDeadLetter
      <3>3. Lifecycle!Settle(id, "dead")
        BY <1>10, <2>1, <2>3, <3>1, <3>2
      <3> QED
        BY <3>3
    <2>4. CASE ~ShouldDeadLetter(queue, d)
      <3>1. GivenBack(queue, queue', {id}) /\ queue'.Consumers = queue.Consumers
        BY <1>2, <2>1, <2>4, RejectedGivesBack
      <3>2. Fine(queue', created, acked, dead)
        BY <1>1, <2>1, <2>4
      <3>3. \A x : /\ Status(queue', acked, dead, x) =
                           IF x \in {id} THEN "ready" ELSE Status(queue, acked, dead, x)
                   /\ Holder(queue', x) = IF x \in {id} THEN NoConsumer ELSE Holder(queue, x)
                   /\ Count(queue', acked, dead, x) = Count(queue, acked, dead, x)
        BY <1>1, <2>1, <3>1, <3>2, GivenBackMap
      <3>4. Becomes(LAMBDA x : IF x = id THEN "ready" ELSE StatusNow(x),
                    LAMBDA x : IF x = id THEN NoConsumer ELSE HolderNow(x),
                    CountNow)
        BY <2>1, <2>4, <3>3 DEF Becomes, StatusNow, HolderNow, CountNow
      <3>5. queue.Consumers # {HolderNow(id)} /\ (MaxAttempts > 0 => CountNow(id) < MaxAttempts)
        BY <1>3, <2>2, <2>4, QueueAssumption DEF ShouldDeadLetter
      <3>6. Lifecycle!GiveBack(id)
        BY <2>2, <3>1, <3>4, <3>5, GiveBackStep
      <3> QED
        BY <3>6
    <2> QED
      BY <2>3, <2>4
  <1>13. ASSUME NEW f \in Fetchers, FetchReady(f)
         PROVE  \E id \in DeliveryIDs, c \in Consumers : Lifecycle!HandOut(id, c)
    <2> DEFINE c == fetch[f].consumer
               h == Head(queue.Ready).ID
    <2>1. /\ FetchAllowed(queue, c, MaxInFlight) /\ queue.Ready # << >>
          /\ queue' = Fetched(Counting(queue), c) /\ UNCHANGED <<created, acked, dead>>
      BY <1>13 DEF FetchReady
    <2> HIDE DEF c
    <2>2. c \in Consumers
      BY <1>2, <2>1 DEF FetchAllowed, Queues
    <2>3. Fine(queue', created, acked, dead)
      BY <1>1, <2>1
    <2>4. /\ h \in DeliveryIDs
          /\ Status(queue, acked, dead, h) = "ready"
          /\ \A x : /\ Status(queue', acked, dead, x) =
                            IF x = h THEN "held" ELSE Status(queue, acked, dead, x)
                    /\ Holder(queue', x) = IF x = h THEN c ELSE Holder(queue, x)
                    /\ Count(queue', acked, dead, x) =
                            IF x = h THEN OneMore(Count(queue, acked, dead, x))
                                     ELSE Count(queue, acked, dead, x)
      BY <1>1, <2>1, <2>2, <2>3, HandOutMap
    <2>5. queue'.Consumers = queue.Consumers
      <3>1. /\ Counting(queue) \in QueueType /\ Counting(queue).Ready # << >>
            /\ Counting(queue).Consumers = queue.Consumers
        BY <1>2, <2>1, CountingFields
      <3> QED
        BY <2>1, <2>2, <3>1, FetchedFields
    <2> HIDE DEF h
    <2>6. Becomes(LAMBDA x : IF x = h THEN "held" ELSE StatusNow(x),
                  LAMBDA x : IF x = h THEN c ELSE HolderNow(x),
                  LAMBDA x : IF x = h THEN OneMore(CountNow(x)) ELSE CountNow(x))
      BY <2>1, <2>4 DEF Becomes, StatusNow, HolderNow, CountNow
    <2>7. StatusNow(h) = "ready"
      BY <2>4 DEF StatusNow
    <2>8. Lifecycle!HandOut(h, c)
      BY <1>2, <2>1, <2>2, <2>4, <2>5, <2>6, <2>7, HandOutStep
    <2> QED
      BY <2>2, <2>4, <2>8
  <1>14. ASSUME UNCHANGED <<acked, dead>>, queue'.Consumers = queue.Consumers,
                queue'.Ready = queue.Ready, queue'.InFlight = queue.InFlight
         PROVE  UNCHANGED Lifecycle!vars
    BY <1>6, <1>14, StutterStep
  <1>15. ASSUME NEW f \in Fetchers, FetchEmpty(f) \/ FetchTimeout(f) \/ FetchCancelled(f)
         PROVE  UNCHANGED Lifecycle!vars
    <2>1. UNCHANGED <<acked, dead>>
          /\ \/ UNCHANGED queue
             \/ \E w : queue' = [queue EXCEPT !.readyNotify = w]
      BY <1>15 DEF FetchEmpty, FetchTimeout, FetchCancelled, StopWaiting, WaitingOn
    <2>2. /\ queue'.Consumers = queue.Consumers
          /\ queue'.Ready = queue.Ready /\ queue'.InFlight = queue.InFlight
      BY <1>2, <2>1 DEF Queues
    <2> QED
      BY <1>14, <2>1, <2>2
  <1>16. ASSUME NEW f \in Fetchers, FetchRefused(f) \/ WakeUp(f) \/ TimerFires(f)
         PROVE  UNCHANGED Lifecycle!vars
    BY <1>14, <1>16 DEF FetchRefused, WakeUp, TimerFires
  <1>17. ASSUME NEW f \in Fetchers, NEW c, NEW timer, StartFetch(f, c, timer)
         PROVE  UNCHANGED Lifecycle!vars
    BY <1>14, <1>17 DEF StartFetch
  <1>18. CASE UNCHANGED vars
    BY <1>14, <1>18 DEF vars
  <1> QED
    BY <1>5, <1>7, <1>8, <1>11, <1>12, <1>13, <1>15, <1>16, <1>17, <1>18
       DEF Next, FetchOrWait, Lifecycle!Next

\* Every behaviour of the queue is, through the mapping, a behaviour of the
\* abstract life cycle: holders, attempts and settled deliveries change only
\* as DeliveryLifecycle allows.
THEOREM ImplementsLifecycle == Spec => LifecycleSpec
  <1> DEFINE R == Single(acked \cup dead)
  <1>1. Init => R /\ Lifecycle!Init
    BY InitMap DEF Init, Single
  <1>2. IInv /\ R /\ [Next]_vars => R'
    BY NextSingle
  <1>3. IInv /\ IInv' /\ R /\ R' /\ [Next]_vars => [Lifecycle!Next]_(Lifecycle!vars)
    BY NextMap
  <1> HIDE DEF R
  <1> QED
    BY <1>1, <1>2, <1>3, Inductive, PTL DEF Spec, LifecycleSpec, Lifecycle!Spec
============================================================================
