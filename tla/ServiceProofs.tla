---------------------------- MODULE ServiceProofs ----------------------------
(***************************************************************************)
(* Safety of DeliveryService for any sets of deliveries, consumers and     *)
(* calls, any limits, and any number of crashes and failing statements.    *)
(***************************************************************************)
EXTENDS DeliveryService, QueueCoreProofs

QueueType == Queues(NewDurableQueue, DeliveryIDs, Consumers, {})

Delivery == Deliveries(DeliveryIDs, Consumers)

Ops == {"Publish", "Fetch", "Ack", "NAck", "Disconnect"}

Statements ==
    [name : {"SaveReadyDelivery", "MarkReady", "DeleteDelivery", "SaveDeadLetter"},
     id : DeliveryIDs]
    \cup [name : {"MarkInFlight"}, id : DeliveryIDs, consumer : Consumers,
          attempts : 0..AttemptBound]

CallType == [op : Ops, id : DeliveryIDs \cup {NoConsumer},
             consumer : Consumers \cup {NoConsumer}, todo : Seq(Statements)]

CallsType == [Calls -> CallType \cup {NoCall}]

Running(cl) == {t \in Calls : cl[t] # NoCall}

\* The statements the running calls still have to execute.
Pending(cl) == UNION {ToSet(cl[t].todo) : t \in Running(cl)}

\* A Publish before and after its one statement.
Saving(cl) == {t \in Calls : cl[t].op = "Publish" /\ cl[t].todo # << >>}
Saved(cl)  == {t \in Calls : cl[t].op = "Publish" /\ cl[t].todo = << >>}

\* The queue's records of a delivery count at least n attempts.
AtLeast(q, id, n) ==
    /\ \A i \in DOMAIN q.Ready : q.Ready[i].ID = id => n <= q.Ready[i].Attempts
    /\ id \in DOMAIN q.InFlight => n <= q.InFlight[id].Attempts
----------------------------------------------------------------------------
(***************************************************************************)
(* The parts of the inductive invariant, as operators on values: b is the  *)
(* boot state, q the queue, cl the calls, rs what Restore still has to put *)
(* back, tb the rows, ca the ids by created_at, cf the confirmed ids, dn   *)
(* the acked and rejected ones and ea what was confirmed before.           *)
(***************************************************************************)
Types(b, q, cl, rs, tb, ca, ea) ==
    /\ b \in {"down", "restoring", "up"}
    /\ q \in QueueType
    /\ cl \in CallsType
    /\ rs \in Seq(Delivery)
    /\ tb \in [DOMAIN tb -> Row]
    /\ ca \in Seq(DeliveryIDs)
    /\ ea \in [DeliveryIDs -> SUBSET DeliveryIDs]

\* Which statements the calls of each kind have left.
Shapes(cl) ==
    \A t \in Running(cl) :
        /\ cl[t].op = "Publish" =>
              \/ cl[t].todo = << >>
              \/ cl[t].todo = << Statement("SaveReadyDelivery", cl[t].id) >>
        /\ cl[t].op = "Ack" =>
              \/ cl[t].todo = << >>
              \/ cl[t].todo = << Statement("DeleteDelivery", cl[t].id) >>
        /\ cl[t].op # "Publish" =>
              \A st \in ToSet(cl[t].todo) : st.name # "SaveReadyDelivery"

\* Every delivery in memory has its row, and every row its place in the
\* order of created_at.
Stored(q, tb, ca) ==
    /\ IDs(q) \subseteq DOMAIN tb
    /\ DOMAIN tb \subseteq ToSet(ca)
    /\ \A i, j \in DOMAIN ca : ca[i] = ca[j] => i = j

\* A message being published is nobody's but its call's: not in the table
\* before the INSERT, and only there between the INSERT and EnqueueDelivery.
Publishing(q, cl, tb, ca, cf, dn) ==
    /\ \A t, u \in Saving(cl) \cup Saved(cl) : cl[t].id = cl[u].id => t = u
    /\ \A t \in Saving(cl) : cl[t].id \notin ToSet(ca)
    /\ \A t \in Saved(cl) :
          /\ cl[t].id \in DOMAIN tb
          /\ tb[cl[t].id].attempts = 0
          /\ cl[t].id \notin IDs(q) \cup cf \cup dn
          /\ \A st \in Pending(cl) : st.id # cl[t].id

\* What a statement may still name, however late it comes.
Outstanding(q, cl, ca, dn) ==
    \A st \in Pending(cl) :
        /\ st.name # "SaveReadyDelivery" => st.id \in ToSet(ca)
        /\ st.name = "DeleteDelivery" => st.id \in dn \ IDs(q)
        /\ st.name = "MarkInFlight" => AtLeast(q, st.id, st.attempts)

Counted(q, tb) == \A id \in DOMAIN tb : AtLeast(q, id, tb[id].attempts)

Bounded(q) ==
    /\ \A i \in DOMAIN q.Ready : q.Ready[i].Attempts <= AttemptBound
    /\ \A id \in DOMAIN q.InFlight : q.InFlight[id].Attempts \in 1..AttemptBound

Unlost(tb, ca, cf, dn) ==
    /\ cf \cup dn \subseteq ToSet(ca)
    /\ cf \ dn \subseteq DOMAIN tb

AckKept(cl, tb, ak, ac) ==
    /\ ac \subseteq ak
    /\ ac \cap DOMAIN tb = {}
    /\ \A t \in Running(cl) :
          cl[t].op = "Ack" => /\ cl[t].id \in ak
                              /\ cl[t].todo = << >> => cl[t].id \notin DOMAIN tb

\* The order of first hand-outs, in the table and in the queue.
TableOrder(ca, cf, ea) ==
    \A id \in DeliveryIDs :
        /\ ea[id] \subseteq cf
        /\ id \in ToSet(ca) => \A a \in ea[id] : Before(ca, a, id)

QueueOrder(q, ea) ==
    \A i, j \in DOMAIN q.Ready :
        /\ q.Ready[i].Attempts = 0 /\ q.Ready[j].Attempts = 0
        /\ q.Ready[i].ID \in ea[q.Ready[j].ID]
        => i < j

\* Restore at work: the rows are those already in Ready, with the status
\* MarkReady gave them, and those still to come, in the order of created_at.
Restoring(q, rs, tb, ca) ==
    /\ DOMAIN q.InFlight = {}
    /\ SeqIDs(q.Ready) \cup SeqIDs(rs) = DOMAIN tb
    /\ SeqIDs(q.Ready) \cap SeqIDs(rs) = {}
    /\ Distinct(rs)
    /\ \A i \in DOMAIN rs : /\ rs[i].ConsumerID = NoConsumer
                            /\ rs[i].Attempts = tb[rs[i].ID].attempts
    /\ \A i \in DOMAIN q.Ready :
          tb[q.Ready[i].ID] = [status |-> "ready", consumer_id |-> NoConsumer,
                               attempts |-> q.Ready[i].Attempts]
    /\ \A i, j \in DOMAIN rs : i < j => Before(ca, rs[i].ID, rs[j].ID)
    /\ \A i \in DOMAIN q.Ready, j \in DOMAIN rs : Before(ca, q.Ready[i].ID, rs[j].ID)

Booting(b, q, cl, rs, tb, ca) ==
    /\ b # "up" => Running(cl) = {}
    /\ b = "down" => IDs(q) = {}
    /\ b = "restoring" => Restoring(q, rs, tb, ca)

Core(q, cl, tb, ca, cf, dn, ea) ==
    /\ Stored(q, tb, ca)
    /\ Publishing(q, cl, tb, ca, cf, dn)
    /\ Outstanding(q, cl, ca, dn)
    /\ Counted(q, tb)
    /\ Bounded(q)
    /\ Unlost(tb, ca, cf, dn)
    /\ TableOrder(ca, cf, ea)
    /\ QueueOrder(q, ea)

IInv ==
    /\ Types(boot, queue, call, restore, rows, createdAt, earlier)
    /\ deadLetters \subseteq DeliveryIDs
    /\ faults \in Nat
    /\ Sound(queue)
    /\ Shapes(call)
    /\ Core(queue, call, rows, createdAt, confirmed, acked \cup rejected, earlier)
    /\ AckKept(call, rows, acked, ackConfirmed)
    /\ Booting(boot, queue, call, restore, rows, createdAt)
----------------------------------------------------------------------------
(***************************************************************************)
(* What the methods of the queue do to the attempts and to the order.  All *)
(* but EnqueueDelivery only move deliveries: Ready keeps its order and     *)
(* what joins it was in flight.                                            *)
(***************************************************************************)
USE DEF QueueType, Delivery

Moved(q, r) ==
    /\ IDs(r) \subseteq IDs(q)
    /\ \E s \in Nat : \A i \in DOMAIN r.Ready :
          \/ i + s \in DOMAIN q.Ready /\ r.Ready[i] = q.Ready[i + s]
          \/ /\ r.Ready[i].ID \in DOMAIN q.InFlight
             /\ r.Ready[i].Attempts = q.InFlight[r.Ready[i].ID].Attempts
    /\ \A id \in DOMAIN r.InFlight :
          \/ id \in DOMAIN q.InFlight /\ r.InFlight[id] = q.InFlight[id]
          \/ \E j \in DOMAIN q.Ready : /\ q.Ready[j].ID = id
                                       /\ q.Ready[j].Attempts < AttemptBound
                                       /\ r.InFlight[id].Attempts = q.Ready[j].Attempts + 1

\* The attempts of every record are natural numbers.
LEMMA AttemptsNat ==
  ASSUME NEW q \in QueueType
  PROVE  /\ \A i \in DOMAIN q.Ready : i \in Nat /\ q.Ready[i].Attempts \in Nat
         /\ \A i \in DOMAIN q.Ready : q.Ready[i].ID \in DeliveryIDs
         /\ \A id \in DOMAIN q.InFlight : id \in DeliveryIDs /\ q.InFlight[id].Attempts \in Nat
  <1>1. q.Ready \in Seq(Delivery)
    BY DEF Queues
  <1>2. \A i \in DOMAIN q.Ready : i \in Nat /\ q.Ready[i] \in Delivery
    BY <1>1, ElementOfSeq, LenProperties
  <1>3. \A id \in DOMAIN q.InFlight : id \in DeliveryIDs /\ q.InFlight[id] \in Delivery
    BY InFlightDelivery
  <1> QED
    BY <1>2, <1>3 DEF Deliveries

\* No move lowers the attempts of a delivery.
LEMMA MovedAttempts ==
  ASSUME NEW q \in QueueType, NEW r \in QueueType, Moved(q, r),
         NEW id, NEW n \in Nat, AtLeast(q, id, n)
  PROVE  AtLeast(r, id, n)
  <1>1. ASSUME NEW i \in DOMAIN r.Ready, r.Ready[i].ID = id
        PROVE  n <= r.Ready[i].Attempts
    BY <1>1 DEF Moved, AtLeast
  <1>2. ASSUME id \in DOMAIN r.InFlight
        PROVE  n <= r.InFlight[id].Attempts
    <2>1. CASE id \in DOMAIN q.InFlight /\ r.InFlight[id] = q.InFlight[id]
      BY <2>1 DEF AtLeast
    <2>2. CASE \E j \in DOMAIN q.Ready : /\ q.Ready[j].ID = id
                                         /\ r.InFlight[id].Attempts = q.Ready[j].Attempts + 1
      BY <2>2, AttemptsNat DEF AtLeast
    <2> QED
      BY <1>2, <2>1, <2>2 DEF Moved
  <1> QED
    BY <1>1, <1>2 DEF AtLeast

\* No move goes beyond the bound on attempts.
LEMMA MovedBounded ==
  ASSUME NEW q \in QueueType, NEW r \in QueueType, Moved(q, r), Bounded(q)
  PROVE  Bounded(r)
  <1>1. ASSUME NEW i \in DOMAIN r.Ready
        PROVE  r.Ready[i].Attempts <= AttemptBound
    BY <1>1 DEF Moved, Bounded
  <1>2. ASSUME NEW id \in DOMAIN r.InFlight
        PROVE  r.InFlight[id].Attempts \in 1..AttemptBound
    BY <1>2, AttemptsNat, ServiceAssumption DEF Moved, Bounded
  <1> QED
    BY <1>1, <1>2 DEF Bounded

\* No move changes the order of the deliveries never handed out.
LEMMA MovedOrder ==
  ASSUME NEW q \in QueueType, NEW r \in QueueType, Moved(q, r), Bounded(q),
         NEW ea, QueueOrder(q, ea)
  PROVE  QueueOrder(r, ea)
  <1> SUFFICES ASSUME NEW i \in DOMAIN r.Ready, NEW j \in DOMAIN r.Ready,
                      r.Ready[i].Attempts = 0, r.Ready[j].Attempts = 0,
                      r.Ready[i].ID \in ea[r.Ready[j].ID]
               PROVE  i < j
    BY DEF QueueOrder
  <1>1. PICK s \in Nat : \A k \in DOMAIN r.Ready :
           \/ k + s \in DOMAIN q.Ready /\ r.Ready[k] = q.Ready[k + s]
           \/ /\ r.Ready[k].ID \in DOMAIN q.InFlight
              /\ r.Ready[k].Attempts = q.InFlight[r.Ready[k].ID].Attempts
    BY DEF Moved
  <1>2. \A id \in DOMAIN q.InFlight : q.InFlight[id].Attempts # 0
    BY DEF Bounded
  <1>3. /\ i + s \in DOMAIN q.Ready /\ r.Ready[i] = q.Ready[i + s]
        /\ j + s \in DOMAIN q.Ready /\ r.Ready[j] = q.Ready[j + s]
    BY <1>1, <1>2
  <1>4. i + s < j + s
    BY <1>3 DEF QueueOrder
  <1> QED
    BY <1>4, AttemptsNat

\* A method that leaves Ready and InFlight alone.
LEMMA SameMoved ==
  ASSUME NEW q \in QueueType, NEW r, r.Ready = q.Ready, r.InFlight = q.InFlight
  PROVE  Moved(q, r)
  <1>1. \A i \in DOMAIN q.Ready : i + 0 = i
    BY AttemptsNat
  <1> QED
    BY <1>1 DEF Moved, IDs

\* Ack, and Reject when it dead-letters.
LEMMA AckedMoved ==
  ASSUME NEW q \in QueueType, Sound(q), NEW id \in DOMAIN q.InFlight
  PROVE  Moved(q, Acked(q, id)) /\ IDs(Acked(q, id)) = IDs(q) \ {id}
  <1> DEFINE r == Acked(q, id)
  <1>1. r.Ready = q.Ready /\ \A x \in DOMAIN r.InFlight :
                               x \in DOMAIN q.InFlight /\ r.InFlight[x] = q.InFlight[x]
    BY AckedMoves DEF Kept
  <1>2. IDs(r) = IDs(q) \ {id}
    BY AckedSound
  <1> HIDE DEF r
  <1>3. \A i \in DOMAIN q.Ready : i + 0 = i
    BY AttemptsNat
  <1>4. Moved(q, r)
    BY <1>1, <1>2, <1>3 DEF Moved
  <1> QED
    BY <1>2, <1>4 DEF r

\* Reject when it requeues, and DisconnectConsumer.
LEMMA GivenBackMoved ==
  ASSUME NEW q \in QueueType, NEW r, NEW S, S \subseteq DOMAIN q.InFlight,
         GivenBack(q, r, S)
  PROVE  Moved(q, r)
  <1>1. IDs(r) \subseteq IDs(q)
    BY DEF GivenBack, IDs
  <1>2. \A i \in DOMAIN r.Ready :
           \/ i + 0 \in DOMAIN q.Ready /\ r.Ready[i] = q.Ready[i + 0]
           \/ /\ r.Ready[i].ID \in DOMAIN q.InFlight
              /\ r.Ready[i].Attempts = q.InFlight[r.Ready[i].ID].Attempts
    <2>1. \A i \in DOMAIN q.Ready : i + 0 = i
      BY AttemptsNat
    <2> QED
      BY <2>1 DEF GivenBack
  <1>3. \A x \in DOMAIN r.InFlight : x \in DOMAIN q.InFlight /\ r.InFlight[x] = q.InFlight[x]
    BY DEF GivenBack, Kept
  <1> QED
    BY <1>1, <1>2, <1>3 DEF Moved

\* FetchOrWait with a message.
LEMMA FetchedMoved ==
  ASSUME NEW q \in QueueType, Sound(q), NEW c \in Consumers, q.Ready # << >>,
         Head(q.Ready).Attempts < AttemptBound
  PROVE  Moved(q, Fetched(q, c))
  <1> DEFINE r == Fetched(q, c)
             h == Head(q.Ready)
  <1>1. /\ h.ID \in SeqIDs(q.Ready)
        /\ r.Ready = Tail(q.Ready)
        /\ SeqIDs(r.Ready) = SeqIDs(q.Ready) \ {h.ID}
        /\ DOMAIN r.InFlight = DOMAIN q.InFlight \cup {h.ID}
        /\ \A x \in DOMAIN q.InFlight : r.InFlight[x] = q.InFlight[x]
        /\ r.InFlight[h.ID].Attempts = h.Attempts + 1
    BY FetchedMoves
  <1>2. q.Ready \in Seq(Delivery)
    BY DEF Queues
  <1>3. 1 \in DOMAIN q.Ready /\ h = q.Ready[1]
    BY <1>2, EmptySeq, LenProperties
  <1>4. \A i \in DOMAIN r.Ready : i + 1 \in DOMAIN q.Ready /\ r.Ready[i] = q.Ready[i + 1]
    BY <1>1, <1>2, HeadTailProperties, LenProperties
  <1>5. h.Attempts < AttemptBound
    OBVIOUS
  <1> HIDE DEF r, h
  <1>6. IDs(r) \subseteq IDs(q)
    BY <1>1 DEF IDs
  <1> QED
    BY <1>1, <1>3, <1>4, <1>5, <1>6 DEF Moved, r

Behind(q, r, d) ==
    /\ SeqIDs(r.Ready) = SeqIDs(q.Ready) \cup {d.ID}
    /\ r.InFlight = q.InFlight
    /\ \A i \in DOMAIN q.Ready : i \in DOMAIN r.Ready /\ r.Ready[i] = q.Ready[i]
    /\ \A i \in DOMAIN r.Ready \ DOMAIN q.Ready : r.Ready[i] = d

\* EnqueueDelivery adds one delivery to Ready and does nothing else.
LEMMA EnqueuedBehind ==
  ASSUME NEW q \in QueueType, NEW d \in Delivery
  PROVE  Behind(q, Enqueued(q, d), d)
  <1> DEFINE r == Enqueued(q, d)
  <1>1. /\ SeqIDs(r.Ready) = SeqIDs(q.Ready) \cup {d.ID}
        /\ r.InFlight = q.InFlight
        /\ \A i \in DOMAIN q.Ready : i \in DOMAIN r.Ready /\ r.Ready[i] = q.Ready[i]
        /\ \A i \in DOMAIN r.Ready \ DOMAIN q.Ready :
              /\ r.Ready[i] = d
              /\ \A j \in DOMAIN q.Ready : j < i
    BY EnqueuedMoves
  <1> QED
    BY <1>1 DEF Behind

\* EnqueueDelivery and RestoreReady: the new delivery comes last.
LEMMA EnqueuedLast ==
  ASSUME NEW q \in QueueType, NEW d \in Delivery
  PROVE  LET r == Enqueued(q, d)
         IN  /\ \A id, n : AtLeast(q, id, n) /\ (id = d.ID => n <= d.Attempts)
                             => AtLeast(r, id, n)
             /\ Bounded(q) /\ d.Attempts <= AttemptBound => Bounded(r)
             /\ \A ea : /\ QueueOrder(q, ea)
                        /\ d.ID \notin ea[d.ID]
                        /\ \A i \in DOMAIN q.Ready : d.ID \notin ea[q.Ready[i].ID]
                        => QueueOrder(r, ea)
  <1> DEFINE r == Enqueued(q, d)
  <1>1. /\ r.InFlight = q.InFlight
        /\ \A i \in DOMAIN q.Ready : i \in DOMAIN r.Ready /\ r.Ready[i] = q.Ready[i]
        /\ \A i \in DOMAIN r.Ready \ DOMAIN q.Ready :
              r.Ready[i] = d /\ \A j \in DOMAIN q.Ready : j < i
    BY EnqueuedMoves
  <1> HIDE DEF r
  <1>2. \A id, n : AtLeast(q, id, n) /\ (id = d.ID => n <= d.Attempts) => AtLeast(r, id, n)
    BY <1>1 DEF AtLeast
  <1>3. Bounded(q) /\ d.Attempts <= AttemptBound => Bounded(r)
    BY <1>1 DEF Bounded
  <1>4. ASSUME NEW ea, QueueOrder(q, ea), d.ID \notin ea[d.ID],
               \A i \in DOMAIN q.Ready : d.ID \notin ea[q.Ready[i].ID]
        PROVE  QueueOrder(r, ea)
    <2> SUFFICES ASSUME NEW i \in DOMAIN r.Ready, NEW j \in DOMAIN r.Ready,
                        r.Ready[i].Attempts = 0, r.Ready[j].Attempts = 0,
                        r.Ready[i].ID \in ea[r.Ready[j].ID]
                 PROVE  i < j
      BY DEF QueueOrder
    <2>1. i \in DOMAIN q.Ready
      BY <1>1, <1>4
    <2>2. CASE j \in DOMAIN q.Ready
      BY <1>1, <1>4, <2>1, <2>2 DEF QueueOrder
    <2>3. CASE j \notin DOMAIN q.Ready
      BY <1>1, <2>1, <2>3
    <2> QED
      BY <2>2, <2>3
  <1> QED
    BY <1>2, <1>3, <1>4 DEF r
----------------------------------------------------------------------------
(***************************************************************************)
(* The calls: one begins, one goes on by a statement, one ends.            *)
(***************************************************************************)
\* A running call is one of the five, the others are none.
LEMMA CallKinds ==
  ASSUME NEW cl \in CallsType, NEW t \in Calls
  PROVE  /\ cl[t] = NoCall => cl[t].op = "none"
         /\ cl[t] # NoCall => cl[t] \in CallType /\ cl[t].op \in Ops
         /\ cl[t].op \in Ops => cl[t] # NoCall
  BY DEF CallsType, CallType, NoCall, Ops

Begun(cl, cm, t, k) ==
    /\ cm \in CallsType
    /\ cm[t] = k /\ k # NoCall
    /\ Running(cm) = Running(cl) \cup {t}
    /\ t \notin Running(cl)
    /\ \A u \in Calls \ {t} : cm[u] = cl[u]
    /\ Pending(cm) = Pending(cl) \cup ToSet(k.todo)

\* Begin.
LEMMA CallBegun ==
  ASSUME NEW cl \in CallsType, NEW t \in Calls, cl[t] = NoCall, NEW k \in CallType,
         NEW cm, cm = [cl EXCEPT ![t] = k]
  PROVE  Begun(cl, cm, t, k)
  <1>1. k # NoCall
    BY DEF CallType, Ops, NoCall
  <1>2. cm \in CallsType /\ cm[t] = k /\ \A u \in Calls \ {t} : cm[u] = cl[u]
    BY DEF CallsType
  <1>3. Running(cm) = Running(cl) \cup {t} /\ t \notin Running(cl)
    BY <1>1, <1>2 DEF Running
  <1>4. Pending(cm) = Pending(cl) \cup ToSet(k.todo)
    BY <1>2, <1>3 DEF Pending, Running
  <1> QED
    BY <1>1, <1>2, <1>3, <1>4 DEF Begun

Ended(cl, cm, t) ==
    /\ cm \in CallsType
    /\ cm[t] = NoCall
    /\ Running(cm) = Running(cl) \ {t}
    /\ \A u \in Calls \ {t} : cm[u] = cl[u]
    /\ Pending(cm) \subseteq Pending(cl)

\* Return, or an error.
LEMMA CallEnded ==
  ASSUME NEW cl \in CallsType, NEW t \in Calls,
         NEW cm, cm = [cl EXCEPT ![t] = NoCall]
  PROVE  Ended(cl, cm, t)
  <1>1. cm \in CallsType /\ cm[t] = NoCall /\ \A u \in Calls \ {t} : cm[u] = cl[u]
    BY DEF CallsType
  <1>2. Running(cm) = Running(cl) \ {t}
    BY <1>1 DEF Running
  <1>3. Pending(cm) \subseteq Pending(cl)
    BY <1>1, <1>2 DEF Pending, Running
  <1> QED
    BY <1>1, <1>2, <1>3 DEF Ended

\* The statements of a sequence are its head and those of its tail.
LEMMA HeadAndTail ==
  ASSUME NEW S, NEW s \in Seq(S), s # << >>
  PROVE  /\ Head(s) \in S
         /\ Tail(s) \in Seq(S)
         /\ ToSet(s) = {Head(s)} \cup ToSet(Tail(s))
  <1>1. /\ Head(s) \in S /\ Tail(s) \in Seq(S) /\ Head(s) = s[1]
        /\ Len(Tail(s)) = Len(s) - 1
        /\ \A i \in 1..Len(Tail(s)) : Tail(s)[i] = s[i + 1]
    BY HeadTailProperties
  <1>2. Len(s) \in Nat \ {0} /\ DOMAIN s = 1..Len(s) /\ DOMAIN Tail(s) = 1..(Len(s) - 1)
    BY <1>1, LenProperties, EmptySeq
  <1> DEFINE u == Tail(s)
             h == Head(s)
  <1> HIDE DEF u, h
  <1>3. \A i \in DOMAIN u : i + 1 \in DOMAIN s /\ u[i] = s[i + 1]
    BY <1>1, <1>2 DEF u
  <1>4. \A i \in DOMAIN s \ {1} : i - 1 \in DOMAIN u /\ u[i - 1] = s[i]
    BY <1>1, <1>2 DEF u
  <1>5. 1 \in DOMAIN s /\ s[1] = h
    BY <1>1, <1>2 DEF h
  <1>6. ToSet(s) = {h} \cup ToSet(u)
    BY <1>3, <1>4, <1>5 DEF ToSet
  <1> QED
    BY <1>1, <1>6 DEF u, h

GoneOn(cl, cm, t) ==
    /\ cm \in CallsType
    /\ cm[t].op = cl[t].op /\ cm[t].id = cl[t].id /\ cm[t].todo = Tail(cl[t].todo)
    /\ Running(cm) = Running(cl)
    /\ \A u \in Calls \ {t} : cm[u] = cl[u]
    /\ ToSet(cl[t].todo) = {Head(cl[t].todo)} \cup ToSet(cm[t].todo)
    /\ Pending(cl) = {Head(cl[t].todo)} \cup Pending(cm)

\* A statement is answered without an error.
LEMMA CallGoesOn ==
  ASSUME NEW cl \in CallsType, NEW t \in Running(cl), cl[t].todo # << >>,
         NEW cm, cm = [cl EXCEPT ![t].todo = Tail(@)]
  PROVE  /\ GoneOn(cl, cm, t)
         /\ Head(cl[t].todo) \in Statements
         /\ Head(cl[t].todo) \in Pending(cl)
  <1>1. t \in Calls /\ cl[t] \in CallType
    BY CallKinds DEF Running
  <1>2. cl[t].todo \in Seq(Statements)
    BY <1>1 DEF CallType
  <1> DEFINE rest == Tail(cl[t].todo)
             h == Head(cl[t].todo)
             k == [cl[t] EXCEPT !.todo = rest]
  <1>3. h \in Statements /\ rest \in Seq(Statements) /\ ToSet(cl[t].todo) = {h} \cup ToSet(rest)
    BY <1>2, HeadAndTail
  <1>4. cm = [cl EXCEPT ![t] = k]
    OBVIOUS
  <1> HIDE DEF rest, h
  <1>5. k \in CallType /\ k.op = cl[t].op /\ k.id = cl[t].id /\ k.todo = rest
    BY <1>1, <1>3 DEF CallType
  <1> HIDE DEF k
  <1>6. cm \in CallsType /\ cm[t] = k /\ \A u \in Calls \ {t} : cm[u] = cl[u]
    BY <1>1, <1>4, <1>5 DEF CallsType
  <1>7. k # NoCall
    BY <1>5 DEF CallType, Ops, NoCall
  <1>8. Running(cm) = Running(cl)
    BY <1>1, <1>6, <1>7 DEF Running
  <1>9. h \in Pending(cl)
    BY <1>3 DEF Pending
  <1>10. Pending(cl) = {h} \cup Pending(cm)
    BY <1>1, <1>3, <1>5, <1>6, <1>8, ZenonT(60) DEF Pending, Running
  <1> QED
    BY <1>3, <1>5, <1>6, <1>8, <1>9, <1>10 DEF h, rest, GoneOn
----------------------------------------------------------------------------
(***************************************************************************)
(* The invariant, one kind of change at a time.                            *)
(***************************************************************************)
\* Pending statements are statements.
LEMMA PendingType ==
  ASSUME NEW cl \in CallsType, NEW st \in Pending(cl)
  PROVE  st \in Statements /\ (st.name = "MarkInFlight" => st.attempts \in 0..AttemptBound)
  <1>1. PICK t \in Running(cl) : st \in ToSet(cl[t].todo)
    BY DEF Pending
  <1>2. t \in Calls /\ cl[t] \in CallType
    BY CallKinds DEF Running
  <1>3. cl[t].todo \in Seq(Statements)
    BY <1>2 DEF CallType
  <1>4. st \in Statements
    BY <1>1, <1>3, ElementOfSeq, LenProperties DEF ToSet
  <1> QED
    BY <1>4 DEF Statements

\* The queue moves deliveries.
LEMMA QueueMoves ==
  ASSUME NEW q \in QueueType, NEW r \in QueueType, NEW cl \in CallsType,
         NEW tb, tb \in [DOMAIN tb -> Row], NEW ca, NEW cf, NEW dn, NEW ea,
         Core(q, cl, tb, ca, cf, dn, ea), Moved(q, r)
  PROVE  Core(r, cl, tb, ca, cf, dn, ea)
  <1>1. IDs(r) \subseteq IDs(q)
    BY DEF Moved
  <1>2. Stored(r, tb, ca) /\ Publishing(r, cl, tb, ca, cf, dn)
    BY <1>1 DEF Core, Stored, Publishing
  <1>3. Outstanding(r, cl, ca, dn)
    <2> SUFFICES ASSUME NEW st \in Pending(cl)
                 PROVE  /\ st.name # "SaveReadyDelivery" => st.id \in ToSet(ca)
                        /\ st.name = "DeleteDelivery" => st.id \in dn \ IDs(r)
                        /\ st.name = "MarkInFlight" => AtLeast(r, st.id, st.attempts)
      BY DEF Outstanding
    <2>1. ASSUME st.name = "MarkInFlight" PROVE AtLeast(r, st.id, st.attempts)
      <3>1. st.attempts \in Nat
        BY <2>1, PendingType, ServiceAssumption
      <3>2. AtLeast(q, st.id, st.attempts)
        BY <2>1 DEF Core, Outstanding
      <3> QED
        BY <3>1, <3>2, MovedAttempts
    <2> QED
      BY <1>1, <2>1 DEF Core, Outstanding
  <1>4. Counted(r, tb)
    <2> SUFFICES ASSUME NEW id \in DOMAIN tb PROVE AtLeast(r, id, tb[id].attempts)
      BY DEF Counted
    <2>1. tb[id].attempts \in Nat
      BY ServiceAssumption DEF Row
    <2>2. AtLeast(q, id, tb[id].attempts)
      BY DEF Core, Counted
    <2> QED
      BY <2>1, <2>2, MovedAttempts
  <1>5. Bounded(r) /\ QueueOrder(r, ea)
    <2>1. Bounded(q) /\ QueueOrder(q, ea)
      BY DEF Core
    <2> QED
      BY <2>1, MovedBounded, MovedOrder
  <1> QED
    BY <1>2, <1>3, <1>4, <1>5 DEF Core

\* Ack or NAck settles a delivery of the queue.
LEMMA OneMoreDone ==
  ASSUME NEW q, NEW cl, NEW tb, NEW ca, NEW cf, NEW dn, NEW ea, NEW id \in IDs(q),
         Core(q, cl, tb, ca, cf, dn, ea)
  PROVE  Core(q, cl, tb, ca, cf, dn \cup {id}, ea)
  <1>1. Publishing(q, cl, tb, ca, cf, dn \cup {id})
    BY DEF Core, Publishing
  <1>2. Outstanding(q, cl, ca, dn \cup {id})
    BY DEF Core, Outstanding
  <1>3. Unlost(tb, ca, cf, dn \cup {id})
    BY DEF Core, Unlost, Stored
  <1> QED
    BY <1>1, <1>2, <1>3 DEF Core

\* A call other than Publish begins.
LEMMA CallBegins ==
  ASSUME NEW q, NEW cl \in CallsType, NEW tb, NEW ca, NEW cf, NEW dn, NEW ea,
         Core(q, cl, tb, ca, cf, dn, ea),
         NEW t \in Calls, cl[t] = NoCall, NEW k \in CallType, k.op # "Publish",
         NEW cm, cm = [cl EXCEPT ![t] = k],
         \A st \in ToSet(k.todo) :
            /\ st.name # "SaveReadyDelivery" /\ st.id \in ToSet(ca)
            /\ st.name = "DeleteDelivery" => st.id \in dn \ IDs(q)
            /\ st.name = "MarkInFlight" => AtLeast(q, st.id, st.attempts)
            /\ \A u \in Saved(cl) : st.id # cl[u].id
  PROVE  Core(q, cm, tb, ca, cf, dn, ea)
  <1>0. Begun(cl, cm, t, k)
    BY CallBegun
  <1>1. /\ cm[t] = k
        /\ \A u \in Calls \ {t} : cm[u] = cl[u]
        /\ Pending(cm) = Pending(cl) \cup ToSet(k.todo)
    BY <1>0 DEF Begun
  <1>2. cl[t].op # "Publish"
    BY CallKinds
  <1>3. Saving(cm) = Saving(cl) /\ Saved(cm) = Saved(cl)
    BY <1>1, <1>2 DEF Saving, Saved
  <1>4. \A u \in Saving(cl) \cup Saved(cl) : cm[u] = cl[u]
    BY <1>1, <1>2 DEF Saving, Saved
  <1>5. Publishing(q, cm, tb, ca, cf, dn)
    <2>1. \A u \in Saved(cm), st \in Pending(cm) : st.id # cm[u].id
      BY <1>1, <1>3, <1>4 DEF Core, Publishing
    <2>2. /\ \A u, v \in Saving(cl) \cup Saved(cl) : cl[u].id = cl[v].id => u = v
          /\ \A u \in Saving(cl) : cl[u].id \notin ToSet(ca)
          /\ \A u \in Saved(cl) : /\ cl[u].id \in DOMAIN tb
                                  /\ tb[cl[u].id].attempts = 0
                                  /\ cl[u].id \notin IDs(q) \cup cf \cup dn
      BY DEF Core, Publishing
    <2>3. \A u, v \in Saving(cm) \cup Saved(cm) : cm[u].id = cm[v].id => u = v
      BY <1>3, <1>4, <2>2
    <2>4. \A u \in Saving(cm) : cm[u].id \notin ToSet(ca)
      BY <1>3, <1>4, <2>2
    <2>5. \A u \in Saved(cm) : u \in Saved(cl) /\ cm[u] = cl[u]
      BY <1>3, <1>4
    <2>6. \A u \in Saved(cm) : /\ cm[u].id \in DOMAIN tb
                               /\ tb[cm[u].id].attempts = 0
                               /\ cm[u].id \notin IDs(q) \cup cf \cup dn
      BY <2>2, <2>5
    <2> QED
      BY <2>1, <2>3, <2>4, <2>6 DEF Publishing
  <1>6. Outstanding(q, cm, ca, dn)
    BY <1>1 DEF Core, Outstanding
  <1> QED
    BY <1>5, <1>6 DEF Core

\* A Publish begins, with a fresh id.
LEMMA PublishBegins ==
  ASSUME NEW q \in QueueType, NEW cl \in CallsType, NEW tb, NEW ca, NEW cf, NEW dn,
         NEW ea \in [DeliveryIDs -> SUBSET DeliveryIDs],
         Core(q, cl, tb, ca, cf, dn, ea),
         NEW t \in Calls, cl[t] = NoCall, NEW k \in CallType, k.op = "Publish",
         k.id \in DeliveryIDs, k.id \notin ToSet(ca),
         k.todo = << Statement("SaveReadyDelivery", k.id) >>,
         \A u \in Calls : cl[u].op = "Publish" => cl[u].id # k.id,
         NEW cm, cm = [cl EXCEPT ![t] = k],
         NEW eb, eb = [ea EXCEPT ![k.id] = cf]
  PROVE  Core(q, cm, tb, ca, cf, dn, eb)
  <1>0. Begun(cl, cm, t, k)
    BY CallBegun
  <1>1. /\ cm[t] = k
        /\ \A u \in Calls \ {t} : cm[u] = cl[u]
        /\ Pending(cm) = Pending(cl) \cup ToSet(k.todo)
    BY <1>0 DEF Begun
  <1>2. cl[t].op # "Publish"
    BY CallKinds
  <1>3. k.todo # << >> /\ ToSet(k.todo) = {Statement("SaveReadyDelivery", k.id)}
    BY DEF ToSet
  <1>4. Saving(cm) = Saving(cl) \cup {t} /\ Saved(cm) = Saved(cl)
    BY <1>1, <1>2, <1>3 DEF Saving, Saved
  <1>5. \A u \in Saving(cl) \cup Saved(cl) :
           u \in Calls /\ u # t /\ cm[u] = cl[u] /\ cl[u].op = "Publish"
    BY <1>1, <1>2 DEF Saving, Saved
  <1>6. Publishing(q, cm, tb, ca, cf, dn)
    <2>1. \A u, v \in Saving(cm) \cup Saved(cm) : cm[u].id = cm[v].id => u = v
      BY <1>1, <1>4, <1>5 DEF Core, Publishing
    <2>2. \A u \in Saving(cm) : cm[u].id \notin ToSet(ca)
      BY <1>1, <1>4, <1>5 DEF Core, Publishing
    <2>3. \A u \in Saved(cm) : u \in Saved(cl) /\ cm[u] = cl[u] /\ cl[u].id # k.id
      BY <1>4, <1>5
    <2>4. \A u \in Saved(cl), st \in Pending(cl) : st.id # cl[u].id
      BY DEF Core, Publishing
    <2>5. \A st \in Pending(cm) : st \in Pending(cl) \/ st.id = k.id
      BY <1>1, <1>3 DEF Statement
    <2>6. \A u \in Saved(cm), st \in Pending(cm) : st.id # cm[u].id
      BY <2>3, <2>4, <2>5, ZenonT(60)
    <2>7. \A u \in Saved(cm) : /\ cm[u].id \in DOMAIN tb /\ tb[cm[u].id].attempts = 0
                               /\ cm[u].id \notin IDs(q) \cup cf \cup dn
      BY <2>3 DEF Core, Publishing
    <2> QED
      BY <2>1, <2>2, <2>6, <2>7 DEF Publishing
  <1>7. Outstanding(q, cm, ca, dn)
    BY <1>1, <1>3 DEF Core, Outstanding, Statement
  <1>8. TableOrder(ca, cf, eb)
    BY DEF Core, TableOrder
  <1>9. QueueOrder(q, eb)
    <2>1. \A i \in DOMAIN q.Ready : q.Ready[i].ID \in ToSet(ca) /\ q.Ready[i].ID \in DeliveryIDs
      BY AttemptsNat DEF Core, Stored, IDs, SeqIDs
    <2>2. \A i \in DOMAIN q.Ready : eb[q.Ready[i].ID] = ea[q.Ready[i].ID]
      BY <2>1
    <2> QED
      BY <2>2 DEF Core, QueueOrder
  <1> QED
    BY <1>6, <1>7, <1>8, <1>9 DEF Core

\* A call goes on or ends, and none of its statements was left to see.
LEMMA CallProgress ==
  ASSUME NEW q, NEW cl, NEW tb, NEW ca, NEW cf, NEW dn, NEW ea,
         Core(q, cl, tb, ca, cf, dn, ea),
         NEW cm, Pending(cm) \subseteq Pending(cl),
         Saving(cm) \subseteq Saving(cl), Saved(cm) \subseteq Saved(cl),
         \A u \in Saving(cm) \cup Saved(cm) : cm[u] = cl[u]
  PROVE  Core(q, cm, tb, ca, cf, dn, ea)
  <1>1. Publishing(q, cm, tb, ca, cf, dn)
    BY DEF Core, Publishing
  <1>2. Outstanding(q, cm, ca, dn)
    BY DEF Core, Outstanding
  <1> QED
    BY <1>1, <1>2 DEF Core

\* MarkInFlight, MarkReady or DeleteDelivery takes effect.
LEMMA TableChanges ==
  ASSUME NEW q, NEW cl, NEW tb, NEW ca, NEW cf, NEW dn, NEW ea,
         Core(q, cl, tb, ca, cf, dn, ea),
         NEW tc, DOMAIN tc \subseteq DOMAIN tb,
         DOMAIN tb \ DOMAIN tc \subseteq dn \ IDs(q),
         \A id \in DOMAIN tc : \/ tc[id].attempts = tb[id].attempts
                               \/ \E st \in Pending(cl) :
                                     /\ st.name = "MarkInFlight"
                                     /\ st.id = id
                                     /\ st.attempts = tc[id].attempts
  PROVE  Core(q, cl, tc, ca, cf, dn, ea)
  <1>1. Stored(q, tc, ca)
    BY DEF Core, Stored
  <1>2. Counted(q, tc)
    BY DEF Core, Counted, Outstanding
  <1>3. Publishing(q, cl, tc, ca, cf, dn)
    BY DEF Core, Publishing
  <1>4. Unlost(tc, ca, cf, dn)
    BY DEF Core, Unlost
  <1> QED
    BY <1>1, <1>2, <1>3, <1>4 DEF Core

LastIn(ca, cb, id) ==
    /\ cb \in Seq(DeliveryIDs)
    /\ ToSet(cb) = ToSet(ca) \cup {id}
    /\ \A i \in DOMAIN ca : i \in DOMAIN cb /\ cb[i] = ca[i]
    /\ \E n \in DOMAIN cb : /\ cb[n] = id
                            /\ \A i \in DOMAIN cb \ {n} : i \in DOMAIN ca /\ i < n

\* SaveReadyDelivery puts its id behind all others in created_at.
LEMMA Appended ==
  ASSUME NEW ca \in Seq(DeliveryIDs), NEW id \in DeliveryIDs, NEW cb, cb = Append(ca, id)
  PROVE  LastIn(ca, cb, id)
  <1>1. /\ cb \in Seq(DeliveryIDs)
        /\ Len(cb) = Len(ca) + 1
        /\ \A i \in 1..Len(ca) : cb[i] = ca[i]
        /\ cb[Len(ca) + 1] = id
    BY AppendProperties
  <1>2. DOMAIN ca = 1..Len(ca) /\ DOMAIN cb = 1..(Len(ca) + 1) /\ Len(ca) \in Nat
    BY <1>1, LenProperties
  <1>3. \A i \in DOMAIN ca : i \in DOMAIN cb /\ cb[i] = ca[i]
    BY <1>1, <1>2
  <1>4. /\ Len(ca) + 1 \in DOMAIN cb
        /\ \A i \in DOMAIN cb \ {Len(ca) + 1} : i \in DOMAIN ca /\ i < Len(ca) + 1
    BY <1>2
  <1>5. ToSet(cb) = ToSet(ca) \cup {id}
    BY <1>1, <1>3, <1>4 DEF ToSet
  <1> QED
    BY <1>1, <1>3, <1>4, <1>5 DEF LastIn

\* SaveReadyDelivery takes effect; its Publish goes on or ends.
LEMMA SaveTakesEffect ==
  ASSUME NEW q \in QueueType, NEW cl \in CallsType, Shapes(cl),
         NEW tb, NEW ca \in Seq(DeliveryIDs), NEW cf, NEW dn, NEW ea,
         Core(q, cl, tb, ca, cf, dn, ea),
         NEW t \in Saving(cl), cl[t].id \in DeliveryIDs,
         NEW cm, Running(cm) \subseteq Running(cl), Pending(cm) \subseteq Pending(cl),
         \A u \in Calls \ {t} : cm[u] = cl[u],
         \/ cm[t].op # "Publish"
         \/ cm[t].id = cl[t].id /\ cm[t].todo = << >>,
         t \in Running(cm) => cm[t].todo = << >>,
         NEW tc, tc = SaveReadyDelivery(tb, cl[t].id),
         NEW cb, cb = Append(ca, cl[t].id)
  PROVE  Core(q, cm, tc, cb, cf, dn, ea)
  <1> DEFINE id == cl[t].id
             row == [status |-> "ready", consumer_id |-> NoConsumer, attempts |-> 0]
  <1>1. id \notin ToSet(ca)
    BY DEF Core, Publishing
  <1>2. /\ ToSet(cb) = ToSet(ca) \cup {id}
        /\ \A i \in DOMAIN ca : i \in DOMAIN cb /\ cb[i] = ca[i]
        /\ \E n \in DOMAIN cb : /\ cb[n] = id
                                /\ \A i \in DOMAIN cb \ {n} : i \in DOMAIN ca /\ i < n
    <2>1. LastIn(ca, cb, id)
      BY Appended
    <2> QED
      BY <2>1 DEF LastIn
  <1>3. /\ DOMAIN tc = DOMAIN tb \cup {id}
        /\ tc[id] = row /\ row.attempts = 0
        /\ \A x \in DOMAIN tb \ {id} : tc[x] = tb[x]
    BY DEF SaveReadyDelivery, Put
  <1>4. t \in Calls /\ cl[t].op = "Publish"
    BY DEF Saving
  <1> HIDE DEF id, row
  <1>5. id \notin DOMAIN tb /\ id \notin IDs(q) /\ id \notin cf \cup dn
    BY <1>1 DEF Core, Stored, Unlost
  <1>6. Stored(q, tc, cb)
    <2>1. \A i, j \in DOMAIN cb : cb[i] = cb[j] => i = j
      BY <1>1, <1>2 DEF Core, Stored, ToSet
    <2> QED
      BY <1>2, <1>3, <2>1 DEF Core, Stored
  <1>7. /\ Saving(cm) \subseteq Saving(cl) \ {t}
        /\ Saved(cm) \subseteq Saved(cl) \cup {t}
        /\ \A u \in Saving(cm) \cup Saved(cm) : cm[u].id = cl[u].id
    BY DEF Saving, Saved
  <1>8. t \in Saving(cl) \cup Saved(cl)
    OBVIOUS
  <1>9. \A u \in Saving(cl) \cup Saved(cl) : u # t => cl[u].id # id
    BY <1>8 DEF Core, Publishing, id
  <1>10. \A st \in Pending(cm) : st.id # id
    <2> SUFFICES ASSUME NEW st \in Pending(cm), st.id = id PROVE FALSE
      OBVIOUS
    <2>1. PICK u \in Running(cm) : st \in ToSet(cm[u].todo)
      BY DEF Pending
    <2>2. u # t
      BY <2>1 DEF ToSet
    <2>3. u \in Running(cl) /\ u \in Calls /\ st \in ToSet(cl[u].todo)
      BY <2>1, <2>2 DEF Running
    <2>4. st.name = "SaveReadyDelivery"
      BY <1>1 DEF Core, Outstanding
    <2>5. cl[u].op = "Publish" /\ cl[u].todo # << >>
      BY <2>3, <2>4 DEF Shapes, ToSet
    <2>6. st.id = cl[u].id
      <3>1. cl[u].todo = << Statement("SaveReadyDelivery", cl[u].id) >>
        BY <2>3, <2>5 DEF Shapes
      <3> QED
        BY <2>3, <3>1 DEF ToSet, Statement
    <2>7. u \in Saving(cl)
      BY <2>3, <2>5 DEF Saving
    <2> QED
      BY <1>9, <2>2, <2>6, <2>7
  <1>11. Publishing(q, cm, tc, cb, cf, dn)
    <2>1. \A u, v \in Saving(cm) \cup Saved(cm) : cm[u].id = cm[v].id => u = v
      BY <1>7, <1>8 DEF Core, Publishing
    <2>2. \A u \in Saving(cm) : cm[u].id \notin ToSet(cb)
      BY <1>2, <1>7, <1>9 DEF Core, Publishing
    <2>3. ASSUME NEW u \in Saved(cm)
          PROVE  /\ cm[u].id \in DOMAIN tc
                 /\ tc[cm[u].id].attempts = 0
                 /\ cm[u].id \notin IDs(q) \cup cf \cup dn
                 /\ \A st \in Pending(cm) : st.id # cm[u].id
      <3>1. CASE u = t
        BY <1>3, <1>5, <1>7, <1>10, <3>1 DEF id
      <3>2. CASE u # t
        <4>1. u \in Saved(cl) /\ cm[u].id = cl[u].id /\ cl[u].id # id
          BY <1>7, <1>9, <3>2
        <4> QED
          BY <1>3, <4>1 DEF Core, Publishing
      <3> QED
        BY <3>1, <3>2
    <2> QED
      BY <2>1, <2>2, <2>3 DEF Publishing
  <1>12. Outstanding(q, cm, cb, dn)
    BY <1>2 DEF Core, Outstanding
  <1>13. Counted(q, tc)
    <2>1. AtLeast(q, id, 0)
      BY <1>5 DEF AtLeast, IDs, SeqIDs
    <2> QED
      BY <1>3, <2>1 DEF Core, Counted
  <1>14. Unlost(tc, cb, cf, dn)
    BY <1>2, <1>3 DEF Core, Unlost
  <1>15. TableOrder(cb, cf, ea)
    <2> SUFFICES ASSUME NEW x \in DeliveryIDs
                 PROVE  /\ ea[x] \subseteq cf
                        /\ x \in ToSet(cb) => \A a \in ea[x] : Before(cb, a, x)
      BY DEF TableOrder
    <2>1. ea[x] \subseteq cf /\ cf \subseteq ToSet(ca)
      BY DEF Core, TableOrder, Unlost
    <2>2. ASSUME NEW a \in ea[x], x \in ToSet(ca) PROVE Before(cb, a, x)
      <3>1. Before(ca, a, x)
        BY <2>2 DEF Core, TableOrder
      <3> QED
        BY <1>2, <3>1 DEF Before
    <2>3. ASSUME NEW a \in ea[x], x = id PROVE Before(cb, a, x)
      <3>1. PICK i \in DOMAIN ca : ca[i] = a
        BY <2>1, <2>3 DEF ToSet
      <3>2. PICK n \in DOMAIN cb : cb[n] = id /\ \A k \in DOMAIN cb \ {n} : k \in DOMAIN ca /\ k < n
        BY <1>2
      <3>3. a # id
        BY <1>1, <2>1, <2>3
      <3>4. i \in DOMAIN cb /\ cb[i] = a /\ i < n
        BY <1>2, <3>1, <3>2, <3>3
      <3> QED
        BY <2>3, <3>2, <3>4 DEF Before
    <2> QED
      BY <1>2, <2>1, <2>2, <2>3
  <1> QED
    BY <1>6, <1>11, <1>12, <1>13, <1>14, <1>15 DEF Core

\* Publish enqueues what it has saved, and returns.
LEMMA PublishReturns ==
  ASSUME NEW q \in QueueType, NEW cl \in CallsType,
         NEW tb, NEW ca, NEW cf, NEW dn, NEW ea,
         Core(q, cl, tb, ca, cf, dn, ea),
         NEW t \in Saved(cl), NEW id \in DeliveryIDs, id = cl[t].id,
         NEW cm, cm = [cl EXCEPT ![t] = NoCall]
  PROVE  /\ Core(Enqueued(q, NewDelivery(id)), cm, tb, ca, cf \cup {id}, dn, ea)
         /\ id \notin IDs(q)
  <1> DEFINE d == NewDelivery(id)
             r == Enqueued(q, d)
  <1>1. d \in Delivery /\ d.ID = id /\ d.Attempts = 0
    BY DEF NewDelivery, Deliveries
  <1> HIDE DEF d
  <1>2. /\ id \in DOMAIN tb /\ tb[id].attempts = 0
        /\ id \notin IDs(q) \cup cf \cup dn
        /\ \A st \in Pending(cl) : st.id # id
    BY DEF Core, Publishing
  <1>3. IDs(r) = IDs(q) \cup {id}
    BY <1>1, EnqueuedMoves DEF IDs
  <1>4. /\ \A x, n : AtLeast(q, x, n) /\ (x = d.ID => n <= d.Attempts) => AtLeast(r, x, n)
        /\ Bounded(q) /\ d.Attempts <= AttemptBound => Bounded(r)
        /\ \A e : /\ QueueOrder(q, e)
                  /\ d.ID \notin e[d.ID]
                  /\ \A i \in DOMAIN q.Ready : d.ID \notin e[q.Ready[i].ID]
                  => QueueOrder(r, e)
    BY <1>1, EnqueuedLast
  <1> HIDE DEF r
  <1>5. t \in Calls /\ cl[t].op = "Publish"
    BY DEF Saved
  <1>6. /\ cm[t] = NoCall /\ Pending(cm) \subseteq Pending(cl)
        /\ \A u \in Calls \ {t} : cm[u] = cl[u]
    <2>1. Ended(cl, cm, t)
      BY <1>5, CallEnded
    <2> QED
      BY <2>1 DEF Ended
  <1>7. /\ Saving(cm) \subseteq Saving(cl) \ {t} /\ Saved(cm) \subseteq Saved(cl) \ {t}
        /\ \A u \in Saving(cm) \cup Saved(cm) : cm[u] = cl[u]
    BY <1>5, <1>6 DEF Saving, Saved, NoCall
  <1>8. t \in Saving(cl) \cup Saved(cl)
    OBVIOUS
  <1>9. \A u \in Saving(cm) \cup Saved(cm) : cm[u].id # id
    BY <1>7, <1>8 DEF Core, Publishing
  <1>10. Stored(r, tb, ca)
    BY <1>2, <1>3 DEF Core, Stored
  <1>11. Publishing(r, cm, tb, ca, cf \cup {id}, dn)
    <2>0. /\ \A u, v \in Saving(cl) \cup Saved(cl) : cl[u].id = cl[v].id => u = v
          /\ \A u \in Saved(cl), st \in Pending(cl) : st.id # cl[u].id
      BY DEF Core, Publishing
    <2>1. \A u, v \in Saving(cm) \cup Saved(cm) : cm[u].id = cm[v].id => u = v
      <3> TAKE u, v \in Saving(cm) \cup Saved(cm)
      <3>1. /\ u \in Saving(cl) \cup Saved(cl) /\ cm[u] = cl[u]
            /\ v \in Saving(cl) \cup Saved(cl) /\ cm[v] = cl[v]
        BY <1>7
      <3> QED
        BY <2>0, <3>1
    <2>2. \A u \in Saving(cm) : cm[u].id \notin ToSet(ca)
      BY <1>7 DEF Core, Publishing
    <2>3. \A u \in Saved(cm) : u \in Saved(cl) /\ cm[u] = cl[u] /\ cm[u].id # id
      BY <1>7, <1>9
    <2>4. \A u \in Saved(cm) : /\ cm[u].id \in DOMAIN tb
                               /\ tb[cm[u].id].attempts = 0
                               /\ cm[u].id \notin IDs(r) \cup (cf \cup {id}) \cup dn
      BY <1>3, <2>3 DEF Core, Publishing
    <2>5. \A u \in Saved(cm), st \in Pending(cm) : st.id # cm[u].id
      <3> TAKE u \in Saved(cm), st \in Pending(cm)
      <3>1. u \in Saved(cl) /\ cm[u] = cl[u] /\ st \in Pending(cl)
        BY <1>6, <2>3
      <3> QED
        BY <2>0, <3>1
    <2> QED
      BY <2>1, <2>2, <2>4, <2>5 DEF Publishing
  <1>12. Outstanding(r, cm, ca, dn)
    <2> SUFFICES ASSUME NEW st \in Pending(cm)
                 PROVE  /\ st.name # "SaveReadyDelivery" => st.id \in ToSet(ca)
                        /\ st.name = "DeleteDelivery" => st.id \in dn \ IDs(r)
                        /\ st.name = "MarkInFlight" => AtLeast(r, st.id, st.attempts)
      BY DEF Outstanding
    <2>1. st \in Pending(cl) /\ st.id # id
      BY <1>2, <1>6
    <2> QED
      BY <1>1, <1>3, <1>4, <2>1 DEF Core, Outstanding
  <1>13. Counted(r, tb)
    <2> SUFFICES ASSUME NEW x \in DOMAIN tb PROVE AtLeast(r, x, tb[x].attempts)
      BY DEF Counted
    <2>1. AtLeast(q, x, tb[x].attempts)
      BY DEF Core, Counted
    <2>2. x = d.ID => tb[x].attempts <= d.Attempts
      BY <1>1, <1>2
    <2> QED
      BY <1>4, <2>1, <2>2
  <1>14. Bounded(r)
    BY <1>1, <1>4, ServiceAssumption DEF Core
  <1>15. Unlost(tb, ca, cf \cup {id}, dn)
    BY <1>2 DEF Core, Unlost, Stored
  <1>16. TableOrder(ca, cf \cup {id}, ea)
    BY DEF Core, TableOrder
  <1>17. QueueOrder(r, ea)
    <2>1. \A x \in DeliveryIDs : id \notin ea[x]
      BY <1>2 DEF Core, TableOrder
    <2>2. \A i \in DOMAIN q.Ready : q.Ready[i].ID \in DeliveryIDs
      BY AttemptsNat
    <2>3. QueueOrder(q, ea)
      BY DEF Core
    <2> QED
      BY <1>1, <1>4, <2>1, <2>2, <2>3
  <1>18. Core(r, cm, tb, ca, cf \cup {id}, dn, ea)
    BY <1>10, <1>11, <1>12, <1>13, <1>14, <1>15, <1>16, <1>17 DEF Core
  <1> QED
    BY <1>2, <1>18 DEF r, d
----------------------------------------------------------------------------
(***************************************************************************)
(* Restore.                                                                *)
(***************************************************************************)
\* An enumeration of a finite set has every element once.
LEMMA Enumeration ==
  ASSUME NEW S, IsFiniteSet(S), NEW order \in SetToSeqs(S)
  PROVE  /\ order \in Seq(S)
         /\ \A i, j \in DOMAIN order : order[i] = order[j] => i = j
         /\ \A x \in S : \E i \in DOMAIN order : order[i] = x
  <1> DEFINE n == Cardinality(S)
  <1>1. n \in Nat
    BY FS_CardinalityType
  <1> HIDE DEF n
  <1>2. order \in [1..n -> S] /\ \A i, j \in 1..n : i # j => order[i] # order[j]
    BY DEF SetToSeqs, n
  <1>3. order \in Injection(1..n, S)
    BY <1>2 DEF Injection, IsInjective
  <1>4. Cardinality(1..n) = n
    BY <1>1, FS_Interval
  <1>5. order \in Surjection(1..n, S)
    BY <1>3, <1>4, FS_Injection DEF n
  <1>6. \A x \in S : \E i \in 1..n : order[i] = x
    BY <1>5 DEF Surjection
  <1>7. order \in Seq(S) /\ DOMAIN order = 1..n
    BY <1>1, <1>2
  <1> QED
    BY <1>2, <1>6, <1>7

\* No two ids are before each other in created_at.
LEMMA BeforeStrict ==
  ASSUME NEW ca \in Seq(DeliveryIDs), \A i, j \in DOMAIN ca : ca[i] = ca[j] => i = j,
         NEW a, NEW b, Before(ca, a, b)
  PROVE  ~Before(ca, b, a)
  <1>1. DOMAIN ca \subseteq Nat
    BY LenProperties
  <1> QED
    BY <1>1 DEF Before

\* LoadState: what Restore will put back is what the table has.
LEMMA Loads ==
  ASSUME NEW q \in QueueType, IDs(q) = {}, NEW rs \in loadDeliveries,
         rows \in [DOMAIN rows -> Row], DOMAIN rows \subseteq DeliveryIDs
  PROVE  rs \in Seq(Delivery) /\ Restoring(q, rs, rows, createdAt)
  <1>1. PICK order \in Selected(DOMAIN rows) : rs = [i \in DOMAIN order |-> Loaded(order[i])]
    BY DEF loadDeliveries
  <1>2. IsFiniteSet(DOMAIN rows)
    BY FS_Subset, ServiceAssumption
  <1>3. /\ order \in Seq(DOMAIN rows)
        /\ \A i, j \in DOMAIN order : order[i] = order[j] => i = j
        /\ \A x \in DOMAIN rows : \E i \in DOMAIN order : order[i] = x
    BY <1>2, Enumeration DEF Selected
  <1>4. \A i, j \in DOMAIN order : i < j => Before(createdAt, order[i], order[j])
    BY DEF Selected
  <1>5. DOMAIN order = 1..Len(order) /\ Len(order) \in Nat
        /\ \A i \in DOMAIN order : order[i] \in DOMAIN rows
    BY <1>3, LenProperties, ElementOfSeq
  <1>6. ASSUME NEW id \in DOMAIN rows
        PROVE  /\ Loaded(id) \in Delivery
               /\ Loaded(id).ID = id /\ Loaded(id).ConsumerID = NoConsumer
               /\ Loaded(id).Attempts = rows[id].attempts
    <2>1. rows[id].attempts \in Nat
      BY ServiceAssumption DEF Row
    <2> QED
      BY <2>1 DEF Loaded, NewDelivery, Deliveries
  <1>7. DOMAIN rs = DOMAIN order /\ \A i \in DOMAIN rs : rs[i] = Loaded(order[i])
    BY <1>1
  <1>8. \A i \in DOMAIN rs :
           /\ rs[i] \in Delivery /\ rs[i].ID = order[i] /\ order[i] \in DOMAIN rows
           /\ rs[i].ConsumerID = NoConsumer
           /\ rs[i].Attempts = rows[rs[i].ID].attempts
    BY <1>5, <1>6, <1>7
  <1>9. rs \in Seq(Delivery)
    <2>1. rs \in [1..Len(order) -> Delivery]
      BY <1>1, <1>5, <1>7, <1>8
    <2> QED
      BY <1>5, <2>1
  <1>10. SeqIDs(rs) = DOMAIN rows
    <2>1. \A x \in SeqIDs(rs) : x \in DOMAIN rows
      BY <1>8 DEF SeqIDs
    <2>2. ASSUME NEW x \in DOMAIN rows PROVE x \in SeqIDs(rs)
      <3>1. PICK i \in DOMAIN order : order[i] = x
        BY <1>3
      <3>2. i \in DOMAIN rs /\ rs[i].ID = x
        BY <1>7, <1>8, <3>1
      <3> QED
        BY <3>2 DEF SeqIDs
    <2> QED
      BY <2>1, <2>2
  <1>11. SeqIDs(q.Ready) = {} /\ DOMAIN q.InFlight = {} /\ DOMAIN q.Ready = {}
    BY DEF IDs, SeqIDs
  <1>12. Distinct(rs)
    BY <1>3, <1>7, <1>8 DEF Distinct
  <1>13. \A i, j \in DOMAIN rs : i < j => Before(createdAt, rs[i].ID, rs[j].ID)
    BY <1>4, <1>7, <1>8
  <1> QED
    BY <1>8, <1>9, <1>10, <1>11, <1>12, <1>13 DEF Restoring

Rewritten(tb, tc, id) ==
    /\ tc \in [DOMAIN tc -> Row]
    /\ DOMAIN tc = DOMAIN tb
    /\ \A x \in DOMAIN tb \ {id} : tc[x] = tb[x]

\* An UPDATE changes at most the row of its id.
LEMMA UpdatedTable ==
  ASSUME NEW tb, tb \in [DOMAIN tb -> Row], NEW id, NEW row, id \in DOMAIN tb => row \in Row,
         NEW tc, tc = Updated(tb, id, row)
  PROVE  Rewritten(tb, tc, id) /\ (id \in DOMAIN tb => tc[id] = row)
  <1>1. CASE id \in DOMAIN tb
    <2>1. /\ DOMAIN tc = DOMAIN tb /\ tc[id] = row
          /\ \A x \in DOMAIN tb \ {id} : tc[x] = tb[x]
      BY <1>1 DEF Updated, Put
    <2>2. tc \in [DOMAIN tc -> Row]
      BY <1>1 DEF Updated, Put
    <2> QED
      BY <2>1, <2>2 DEF Rewritten
  <1>2. CASE id \notin DOMAIN tb
    BY <1>2 DEF Updated, Rewritten
  <1> QED
    BY <1>1, <1>2

\* MarkReady keeps the attempts and drops the holder.
LEMMA MarkReadyTable ==
  ASSUME NEW tb, tb \in [DOMAIN tb -> Row], NEW id, NEW tc, tc = MarkReady(tb, id)
  PROVE  /\ Rewritten(tb, tc, id)
         /\ id \in DOMAIN tb =>
               tc[id] = [status |-> "ready", consumer_id |-> NoConsumer,
                         attempts |-> tb[id].attempts]
  <1> DEFINE row == [tb[id] EXCEPT !.status = "ready", !.consumer_id = NoConsumer]
             new == [status |-> "ready", consumer_id |-> NoConsumer, attempts |-> tb[id].attempts]
  <1>1. tc = Updated(tb, id, row)
    BY DEF MarkReady
  <1>2. ASSUME id \in DOMAIN tb PROVE row = new /\ new \in Row
    <2>1. tb[id] \in Row
      BY <1>2
    <2> DEFINE a == [tb[id] EXCEPT !.status = "ready"]
    <2>2. row = [a EXCEPT !.consumer_id = NoConsumer]
      OBVIOUS
    <2>3. a = [status |-> "ready", consumer_id |-> tb[id].consumer_id,
               attempts |-> tb[id].attempts]
      BY <2>1 DEF Row
    <2> HIDE DEF a
    <2>4. row = new
      BY <2>2, <2>3
    <2> QED
      BY <2>1, <2>4 DEF Row
  <1> HIDE DEF row, new
  <1>3. Rewritten(tb, tc, id) /\ (id \in DOMAIN tb => tc[id] = row)
    BY <1>1, <1>2, UpdatedTable
  <1> QED
    BY <1>2, <1>3 DEF new

OneBack(r, cl, ts, tb, tc, ca, cf, dn, ea) ==
    /\ r \in QueueType /\ Sound(r)
    /\ tc \in [DOMAIN tc -> Row] /\ DOMAIN tc = DOMAIN tb
    /\ Core(r, cl, tc, ca, cf, dn, ea)
    /\ Restoring(r, ts, tc, ca)

\* RestoreReady and MarkReady put the next delivery back.
LEMMA RestoresOne ==
  ASSUME NEW q \in QueueType, Sound(q), NEW cl \in CallsType, Running(cl) = {},
         NEW rs \in Seq(Delivery), rs # << >>,
         NEW tb, tb \in [DOMAIN tb -> Row], NEW ca \in Seq(DeliveryIDs),
         NEW cf, NEW dn, NEW ea,
         Core(q, cl, tb, ca, cf, dn, ea), Restoring(q, rs, tb, ca),
         NEW r, r = RestoredReady(q, Head(rs)),
         NEW tc, tc = MarkReady(tb, Head(rs).ID)
  PROVE  OneBack(r, cl, Tail(rs), tb, tc, ca, cf, dn, ea)
  <1> DEFINE h == Head(rs)
             d == Unowned(h)
             ts == Tail(rs)
  <1>1. h \in Delivery /\ d \in Delivery /\ d.ID = h.ID /\ d.Attempts = h.Attempts
        /\ d.ConsumerID = NoConsumer
    BY HeadTailProperties, UnownedType
  <1>2. Free(rs) /\ Distinct(rs)
    BY DEF Restoring, Free
  <1>3. h.ID \in SeqIDs(rs) /\ SeqIDs(ts) = SeqIDs(rs) \ {h.ID} /\ Distinct(ts)
    BY <1>2, TailReady
  <1>4. /\ 1 \in DOMAIN rs /\ h = rs[1]
        /\ \A i \in DOMAIN ts : i \in Nat /\ i + 1 \in DOMAIN rs /\ ts[i] = rs[i + 1]
    BY HeadTailProperties, LenProperties, EmptySeq
  <1>5. r = Enqueued(q, d)
    BY DEF RestoredReady
  <1>6. tc = MarkReady(tb, h.ID)
    OBVIOUS
  <1> HIDE DEF h, d, ts
  <1>7. /\ h.ID \in DOMAIN tb
        /\ h.Attempts = tb[h.ID].attempts
        /\ h.ID \notin IDs(q)
        /\ DOMAIN q.InFlight = {}
    BY <1>3, <1>4 DEF Restoring, IDs
  <1>8. r \in QueueType /\ Sound(r) /\ IDs(r) = IDs(q) \cup {h.ID}
    <2>1. r \in QueueType
      BY <1>1, <1>5, EnqueuedFields
    <2>2. Sound(r) /\ IDs(r) = IDs(q) \cup {h.ID}
      BY <1>1, <1>5, <1>7, EnqueuedSound
    <2> QED
      BY <2>1, <2>2
  <1>9. /\ SeqIDs(r.Ready) = SeqIDs(q.Ready) \cup {h.ID}
        /\ r.InFlight = q.InFlight
        /\ \A i \in DOMAIN q.Ready : i \in DOMAIN r.Ready /\ r.Ready[i] = q.Ready[i]
        /\ \A i \in DOMAIN r.Ready \ DOMAIN q.Ready : r.Ready[i] = d
    <2>1. Behind(q, Enqueued(q, d), d)
      BY <1>1, EnqueuedBehind
    <2> QED
      BY <1>1, <1>5, <2>1 DEF Behind
  <1>10. /\ Rewritten(tb, tc, h.ID)
         /\ tc[h.ID] = [status |-> "ready", consumer_id |-> NoConsumer,
                        attempts |-> tb[h.ID].attempts]
    BY <1>6, <1>7, MarkReadyTable
  <1>11. /\ tc \in [DOMAIN tc -> Row] /\ DOMAIN tc = DOMAIN tb
         /\ \A x \in DOMAIN tb \ {h.ID} : tc[x] = tb[x]
         /\ \A x \in DOMAIN tb : tc[x].attempts = tb[x].attempts
    BY <1>10 DEF Rewritten
  <1>12. Core(q, cl, tc, ca, cf, dn, ea)
    BY <1>11, TableChanges
  <1>13. Pending(cl) = {} /\ Saving(cl) = {} /\ Saved(cl) = {}
    <2>1. \A t \in Calls : cl[t].op # "Publish"
      BY CallKinds DEF Running
    <2> QED
      BY <2>1 DEF Pending, Saving, Saved
  <1>14. /\ \A x, n : AtLeast(q, x, n) /\ (x = d.ID => n <= d.Attempts) => AtLeast(r, x, n)
         /\ Bounded(q) /\ d.Attempts <= AttemptBound => Bounded(r)
         /\ \A e : /\ QueueOrder(q, e)
                   /\ d.ID \notin e[d.ID]
                   /\ \A i \in DOMAIN q.Ready : d.ID \notin e[q.Ready[i].ID]
                   => QueueOrder(r, e)
    BY <1>1, <1>5, EnqueuedLast
  <1>15. h.Attempts \in 0..AttemptBound
    BY <1>7 DEF Row
  <1>16. Stored(r, tc, ca)
    BY <1>7, <1>8, <1>11, <1>12 DEF Core, Stored
  <1>17. Publishing(r, cl, tc, ca, cf, dn) /\ Outstanding(r, cl, ca, dn)
    BY <1>13 DEF Publishing, Outstanding
  <1>18. Counted(r, tc)
    <2> SUFFICES ASSUME NEW x \in DOMAIN tc PROVE AtLeast(r, x, tc[x].attempts)
      BY DEF Counted
    <2>1. AtLeast(q, x, tc[x].attempts)
      BY <1>12 DEF Core, Counted
    <2>2. x = d.ID => tc[x].attempts <= d.Attempts
      BY <1>1, <1>7, <1>11, <1>15, ServiceAssumption
    <2> QED
      BY <1>14, <2>1, <2>2
  <1>19. Bounded(r)
    BY <1>1, <1>14, <1>15 DEF Core
  <1>20. QueueOrder(r, ea)
    <2>1. \A i, j \in DOMAIN ca : ca[i] = ca[j] => i = j
      BY DEF Core, Stored
    <2>2. h.ID \in ToSet(ca) /\ h.ID \in DeliveryIDs
      BY <1>1, <1>7 DEF Core, Stored, Deliveries
    <2>3. d.ID \notin ea[d.ID]
      <3>1. ~Before(ca, h.ID, h.ID)
        BY <2>1, BeforeStrict
      <3> QED
        BY <1>1, <2>2, <3>1 DEF Core, TableOrder
    <2>4. ASSUME NEW i \in DOMAIN q.Ready PROVE d.ID \notin ea[q.Ready[i].ID]
      <3>1. Before(ca, q.Ready[i].ID, h.ID)
        BY <1>4 DEF Restoring
      <3>2. ~Before(ca, h.ID, q.Ready[i].ID)
        BY <2>1, <3>1, BeforeStrict
      <3>3. q.Ready[i].ID \in DeliveryIDs /\ q.Ready[i].ID \in ToSet(ca)
        BY AttemptsNat DEF Core, Stored, IDs, SeqIDs
      <3> QED
        BY <1>1, <3>2, <3>3 DEF Core, TableOrder
    <2>5. QueueOrder(q, ea)
      BY DEF Core
    <2> QED
      BY <1>14, <2>3, <2>4, <2>5
  <1>21. Core(r, cl, tc, ca, cf, dn, ea)
    BY <1>12, <1>16, <1>17, <1>18, <1>19, <1>20 DEF Core
  <1>22. Restoring(r, ts, tc, ca)
    <2>1. \A i \in DOMAIN ts : ts[i].ID # h.ID
      BY <1>3 DEF SeqIDs
    <2>2. /\ SeqIDs(r.Ready) \cup SeqIDs(ts) = DOMAIN tc
          /\ SeqIDs(r.Ready) \cap SeqIDs(ts) = {}
      <3>1. /\ SeqIDs(q.Ready) \cup SeqIDs(rs) = DOMAIN tb
            /\ SeqIDs(q.Ready) \cap SeqIDs(rs) = {}
        BY DEF Restoring
      <3>2. /\ SeqIDs(r.Ready) = SeqIDs(q.Ready) \cup {h.ID} /\ DOMAIN tc = DOMAIN tb
            /\ SeqIDs(ts) = SeqIDs(rs) \ {h.ID} /\ h.ID \in SeqIDs(rs)
        BY <1>3, <1>9, <1>11
      <3> HIDE DEF SeqIDs
      <3> QED
        BY <3>1, <3>2
    <2>3. \A i \in DOMAIN ts : /\ ts[i].ConsumerID = NoConsumer
                               /\ ts[i].Attempts = tc[ts[i].ID].attempts
      <3> TAKE i \in DOMAIN ts
      <3>1. /\ rs[i + 1].ConsumerID = NoConsumer
            /\ rs[i + 1].Attempts = tb[rs[i + 1].ID].attempts
            /\ ts[i] = rs[i + 1]
        BY <1>4 DEF Restoring
      <3>2. ts[i].ID \in DOMAIN tb
        BY <1>3, ZenonT(60) DEF Restoring, SeqIDs
      <3> QED
        BY <1>11, <3>1, <3>2
    <2>4. ASSUME NEW i \in DOMAIN r.Ready
          PROVE  tc[r.Ready[i].ID] = [status |-> "ready", consumer_id |-> NoConsumer,
                                      attempts |-> r.Ready[i].Attempts]
      <3>1. CASE i \in DOMAIN q.Ready
        <4>1. r.Ready[i] = q.Ready[i] /\ q.Ready[i].ID \in SeqIDs(q.Ready)
          BY <1>9, <3>1 DEF SeqIDs
        <4>2. q.Ready[i].ID # h.ID /\ q.Ready[i].ID \in DOMAIN tb
          BY <1>7, <4>1 DEF IDs, Restoring
        <4>3. tb[q.Ready[i].ID] = [status |-> "ready", consumer_id |-> NoConsumer,
                                   attempts |-> q.Ready[i].Attempts]
          BY <3>1 DEF Restoring
        <4>4. tc[q.Ready[i].ID] = tb[q.Ready[i].ID]
          BY <1>11, <4>2
        <4> QED
          BY <4>1, <4>3, <4>4
      <3>2. CASE i \notin DOMAIN q.Ready
        BY <1>1, <1>7, <1>9, <1>10, <3>2
      <3> QED
        BY <3>1, <3>2
    <2>5. \A i, j \in DOMAIN ts : i < j => Before(ca, ts[i].ID, ts[j].ID)
      <3> TAKE i, j \in DOMAIN ts
      <3> HAVE i < j
      <3>1. i + 1 < j + 1
        BY <1>4
      <3> QED
        BY <1>4, <3>1 DEF Restoring
    <2>6. ASSUME NEW i \in DOMAIN r.Ready, NEW j \in DOMAIN ts
          PROVE  Before(ca, r.Ready[i].ID, ts[j].ID)
      <3>1. CASE i \in DOMAIN q.Ready
        BY <1>4, <1>9, <3>1 DEF Restoring
      <3>2. CASE i \notin DOMAIN q.Ready
        <4>1. r.Ready[i].ID = rs[1].ID
          BY <1>1, <1>4, <1>9, <3>2
        <4>2. j + 1 \in DOMAIN rs /\ 1 \in DOMAIN rs /\ 1 < j + 1
          <5>1. j \in 1..Len(ts)
            BY HeadTailProperties, LenProperties DEF ts
          <5> QED
            BY <1>4, <5>1
        <4> QED
          BY <1>4, <4>1, <4>2 DEF Restoring
      <3> QED
        BY <3>1, <3>2
    <2> QED
      BY <1>3, <1>7, <1>9, <2>2, <2>3, <2>4, <2>5, <2>6 DEF Restoring
  <1> QED
    BY <1>8, <1>11, <1>21, <1>22 DEF ts, OneBack
----------------------------------------------------------------------------
(***************************************************************************)
(* The statements of the running calls.                                    *)
(***************************************************************************)
\* What a statement other than SaveReadyDelivery may do to the table.
Effect(tb, tc, st) ==
    /\ tc \in [DOMAIN tc -> Row]
    /\ DOMAIN tc \subseteq DOMAIN tb
    /\ \A id \in DOMAIN tb \ DOMAIN tc : st.name = "DeleteDelivery" /\ st.id = id
    /\ st.name = "DeleteDelivery" => st.id \notin DOMAIN tc
    /\ \A id \in DOMAIN tc : \/ tc[id].attempts = tb[id].attempts
                             \/ /\ st.name = "MarkInFlight" /\ st.id = id
                                /\ st.attempts = tc[id].attempts

\* MarkInFlight, MarkReady, DeleteDelivery and SaveDeadLetter.
LEMMA StatementEffect ==
  ASSUME rows \in [DOMAIN rows -> Row], deadLetters \subseteq DeliveryIDs,
         NEW st \in Statements, st.name # "SaveReadyDelivery", Exec(st)
  PROVE  /\ Effect(rows, rows', st)
         /\ createdAt' = createdAt
         /\ deadLetters' \subseteq DeliveryIDs
  <1>1. CASE st.name = "MarkInFlight"
    <2>1. /\ rows' = MarkInFlight(rows, st.id, st.consumer, st.attempts)
          /\ createdAt' = createdAt /\ deadLetters' = deadLetters
      BY <1>1 DEF Exec
    <2> DEFINE row == [status |-> "in_flight", consumer_id |-> st.consumer,
                       attempts |-> st.attempts]
    <2>2. row \in Row /\ row.attempts = st.attempts
      BY <1>1 DEF Statements, Row
    <2>3. rows' = Updated(rows, st.id, row)
      BY <2>1 DEF MarkInFlight
    <2> HIDE DEF row
    <2>4. Rewritten(rows, rows', st.id) /\ (st.id \in DOMAIN rows => rows'[st.id] = row)
      BY <2>2, <2>3, UpdatedTable
    <2>5. Effect(rows, rows', st)
      BY <1>1, <2>2, <2>4 DEF Rewritten, Effect
    <2> QED
      BY <2>1, <2>5
  <1>2. CASE st.name = "MarkReady"
    <2>1. /\ rows' = MarkReady(rows, st.id)
          /\ createdAt' = createdAt /\ deadLetters' = deadLetters
      BY <1>2 DEF Exec
    <2>2. /\ Rewritten(rows, rows', st.id)
          /\ st.id \in DOMAIN rows =>
                rows'[st.id] = [status |-> "ready", consumer_id |-> NoConsumer,
                                attempts |-> rows[st.id].attempts]
      BY <2>1, MarkReadyTable
    <2>3. Effect(rows, rows', st)
      BY <1>2, <2>2 DEF Rewritten, Effect
    <2> QED
      BY <2>1, <2>3
  <1>3. CASE st.name = "DeleteDelivery"
    <2>1. /\ rows' = Delete(rows, {st.id})
          /\ createdAt' = createdAt /\ deadLetters' = deadLetters
      BY <1>3 DEF Exec, DeleteDelivery
    <2>2. DOMAIN rows' = DOMAIN rows \ {st.id} /\ Kept(rows, rows')
      BY <2>1, DeleteKeeps
    <2>3. rows' \in [DOMAIN rows' -> Row]
      BY <2>1 DEF Delete, Restrict
    <2>4. Effect(rows, rows', st)
      BY <1>3, <2>2, <2>3 DEF Kept, Effect
    <2> QED
      BY <2>1, <2>4
  <1>4. CASE st.name = "SaveDeadLetter"
    <2>1. /\ rows' = rows /\ createdAt' = createdAt
          /\ deadLetters' = deadLetters \cup {st.id}
      BY <1>4 DEF Exec
    <2>2. st.id \in DeliveryIDs
      BY DEF Statements
    <2>3. Effect(rows, rows', st)
      BY <1>4, <2>1 DEF Effect
    <2> QED
      BY <2>1, <2>2, <2>3
  <1> QED
    BY <1>1, <1>2, <1>3, <1>4 DEF Statements

\* A call that has a statement left: the statement is its head, and it is a
\* SaveReadyDelivery exactly when the call is a Publish.
LEMMA NextStatement ==
  ASSUME NEW cl \in CallsType, Shapes(cl), NEW t \in Running(cl), cl[t].todo # << >>
  PROVE  LET st == Head(cl[t].todo)
         IN  /\ st \in Statements /\ st \in Pending(cl)
             /\ t \in Calls /\ cl[t] \in CallType
             /\ cl[t].op # "Publish" => st.name # "SaveReadyDelivery"
             /\ cl[t].op = "Publish" => /\ st = Statement("SaveReadyDelivery", cl[t].id)
                                        /\ Tail(cl[t].todo) = << >>
             /\ cl[t].op = "Ack" => /\ st = Statement("DeleteDelivery", cl[t].id)
                                    /\ Tail(cl[t].todo) = << >>
  <1> DEFINE st == Head(cl[t].todo)
  <1>1. t \in Calls /\ cl[t] \in CallType
    BY CallKinds DEF Running
  <1>2. cl[t].todo \in Seq(Statements)
    BY <1>1 DEF CallType
  <1>3. st \in Statements /\ ToSet(cl[t].todo) = {st} \cup ToSet(Tail(cl[t].todo))
    BY <1>2, HeadAndTail
  <1>4. st \in Pending(cl)
    BY <1>3 DEF Pending
  <1>5. cl[t].op # "Publish" => st.name # "SaveReadyDelivery"
    BY <1>3 DEF Shapes
  <1>6. cl[t].op = "Publish" => cl[t].todo = << Statement("SaveReadyDelivery", cl[t].id) >>
    BY DEF Shapes
  <1>7. cl[t].op = "Ack" => cl[t].todo = << Statement("DeleteDelivery", cl[t].id) >>
    BY DEF Shapes
  <1>8. \A x : Head(<<x>>) = x /\ Tail(<<x>>) = << >>
    OBVIOUS
  <1> QED
    BY <1>1, <1>3, <1>4, <1>5, <1>6, <1>7, <1>8

\* The calls after a statement was answered, or a call ended.
LEMMA ShapesKept ==
  ASSUME NEW cl \in CallsType, Shapes(cl), NEW t \in Running(cl), NEW cm,
         \/ GoneOn(cl, cm, t) /\ cl[t].todo # << >>
         \/ Ended(cl, cm, t)
  PROVE  Shapes(cm)
  <1> SUFFICES ASSUME NEW u \in Running(cm)
               PROVE  /\ cm[u].op = "Publish" =>
                            \/ cm[u].todo = << >>
                            \/ cm[u].todo = << Statement("SaveReadyDelivery", cm[u].id) >>
                      /\ cm[u].op = "Ack" =>
                            \/ cm[u].todo = << >>
                            \/ cm[u].todo = << Statement("DeleteDelivery", cm[u].id) >>
                      /\ cm[u].op # "Publish" =>
                            \A st \in ToSet(cm[u].todo) : st.name # "SaveReadyDelivery"
    BY DEF Shapes
  <1>1. CASE u # t
    <2>1. cm[u] = cl[u] /\ u \in Running(cl)
      BY <1>1 DEF GoneOn, Ended, Running
    <2> QED
      BY <2>1 DEF Shapes
  <1>2. CASE u = t
    <2>1. GoneOn(cl, cm, t) /\ cl[t].todo # << >>
      BY <1>2 DEF Ended, Running
    <2>2. /\ cm[t].op = cl[t].op /\ cm[t].todo = Tail(cl[t].todo)
          /\ ToSet(cm[t].todo) \subseteq ToSet(cl[t].todo)
      BY <2>1 DEF GoneOn
    <2>3. cl[t].op \in {"Publish", "Ack"} => Tail(cl[t].todo) = << >>
      BY <2>1, NextStatement
    <2>4. cl[t].op # "Publish" => \A st \in ToSet(cl[t].todo) : st.name # "SaveReadyDelivery"
      BY DEF Shapes
    <2> QED
      BY <1>2, <2>2, <2>3, <2>4
  <1> QED
    BY <1>1, <1>2

\* A call begins with the statements of its kind.
LEMMA ShapesBegun ==
  ASSUME NEW cl, Shapes(cl), NEW t, NEW k, NEW cm, Begun(cl, cm, t, k),
         k.op = "Publish" => k.todo = << Statement("SaveReadyDelivery", k.id) >>,
         k.op = "Ack" => k.todo = << Statement("DeleteDelivery", k.id) >>,
         k.op # "Publish" => \A st \in ToSet(k.todo) : st.name # "SaveReadyDelivery"
  PROVE  Shapes(cm)
  <1>1. \A u \in Running(cm) : u # t => cm[u] = cl[u] /\ u \in Running(cl)
    BY DEF Begun, Running
  <1>2. cm[t] = k
    BY DEF Begun
  <1> QED
    BY <1>1, <1>2 DEF Shapes

\* A call other than Publish executes a statement and goes on or ends, or
\* ends without executing it: then the table is as it was.
LEMMA StatementApplied ==
  ASSUME NEW q, NEW cl \in CallsType, Shapes(cl),
         NEW tb, NEW ca, NEW cf, NEW dn, NEW ea, Core(q, cl, tb, ca, cf, dn, ea),
         NEW t \in Running(cl), cl[t].todo # << >>, cl[t].op # "Publish",
         NEW tc, Effect(tb, tc, Head(cl[t].todo)) \/ tc = tb,
         NEW cm, GoneOn(cl, cm, t) \/ Ended(cl, cm, t)
  PROVE  Core(q, cm, tc, ca, cf, dn, ea)
  <1> DEFINE st == Head(cl[t].todo)
  <1>1. st \in Pending(cl)
    BY NextStatement
  <1> HIDE DEF st
  <1>2. Core(q, cl, tc, ca, cf, dn, ea)
    <2>1. CASE tc = tb
      BY <2>1
    <2>2. CASE Effect(tb, tc, st)
      <3>1. /\ DOMAIN tc \subseteq DOMAIN tb
            /\ \A id \in DOMAIN tb \ DOMAIN tc : st.name = "DeleteDelivery" /\ st.id = id
            /\ \A id \in DOMAIN tc : \/ tc[id].attempts = tb[id].attempts
                                     \/ /\ st.name = "MarkInFlight" /\ st.id = id
                                        /\ st.attempts = tc[id].attempts
        BY <2>2 DEF Effect
      <3>2. DOMAIN tb \ DOMAIN tc \subseteq dn \ IDs(q)
        BY <1>1, <3>1 DEF Core, Outstanding
      <3> QED
        BY <1>1, <3>1, <3>2, TableChanges
    <2> QED
      BY <2>1, <2>2 DEF st
  <1>3. /\ Pending(cm) \subseteq Pending(cl)
        /\ \A u \in Calls \ {t} : cm[u] = cl[u]
        /\ cm[t].op # "Publish"
    BY DEF GoneOn, Ended, NoCall
  <1>4. /\ Saving(cm) \subseteq Saving(cl) /\ Saved(cm) \subseteq Saved(cl)
        /\ \A u \in Saving(cm) \cup Saved(cm) : cm[u] = cl[u]
    BY <1>3 DEF Saving, Saved
  <1> QED
    BY <1>2, <1>3, <1>4, CallProgress

\* What Ack has taken away stays away: a statement is executed or fails.
LEMMA AckKeptByStatement ==
  ASSUME NEW cl \in CallsType, Shapes(cl),
         NEW tb, NEW ca, NEW ak, NEW ac, AckKept(cl, tb, ak, ac),
         NEW t \in Running(cl), cl[t].todo # << >>,
         NEW tc,
         \/ tc = tb
         \/ Effect(tb, tc, Head(cl[t].todo))
         \/ DOMAIN tc \subseteq DOMAIN tb \cup {cl[t].id} /\ cl[t].id \notin ak,
         NEW cm,
         \/ GoneOn(cl, cm, t) /\ (cl[t].op = "Ack" => Effect(tb, tc, Head(cl[t].todo)))
         \/ Ended(cl, cm, t)
  PROVE  AckKept(cm, tc, ak, ac)
  <1>1. \A id \in ak : id \in DOMAIN tc => id \in DOMAIN tb
    BY DEF Effect
  <1>2. ac \subseteq ak /\ ac \cap DOMAIN tc = {}
    BY <1>1 DEF AckKept
  <1>3. ASSUME NEW u \in Running(cm), cm[u].op = "Ack"
        PROVE  cm[u].id \in ak /\ (cm[u].todo = << >> => cm[u].id \notin DOMAIN tc)
    <2>1. CASE u # t
      <3>1. cm[u] = cl[u] /\ u \in Running(cl)
        BY <2>1 DEF GoneOn, Ended, Running
      <3> QED
        BY <1>1, <1>3, <3>1 DEF AckKept
    <2>2. CASE u = t
      <3>1. GoneOn(cl, cm, t) /\ (cl[t].op = "Ack" => Effect(tb, tc, Head(cl[t].todo)))
        BY <2>2 DEF Ended, Running
      <3>2. cm[t].id = cl[t].id /\ cl[t].op = "Ack"
        BY <1>3, <2>2, <3>1 DEF GoneOn
      <3>3. Head(cl[t].todo) = Statement("DeleteDelivery", cl[t].id)
        BY <3>2, NextStatement
      <3>4. cl[t].id \notin DOMAIN tc
        BY <3>1, <3>2, <3>3 DEF Effect, Statement
      <3> QED
        BY <2>2, <3>2, <3>4 DEF AckKept
    <2> QED
      BY <2>1, <2>2
  <1> QED
    BY <1>2, <1>3 DEF AckKept

\* ... a call begins, and an Ack names what it settles, ...
LEMMA AckKeptByBegin ==
  ASSUME NEW cl, NEW tb, NEW ak, NEW ac, AckKept(cl, tb, ak, ac),
         NEW t, NEW k, NEW cm, Begun(cl, cm, t, k),
         NEW al, ak \subseteq al,
         k.op = "Ack" => k.id \in al /\ k.todo # << >>
  PROVE  AckKept(cm, tb, al, ac)
  <1>1. \A u \in Running(cm) : u # t => cm[u] = cl[u] /\ u \in Running(cl)
    BY DEF Begun, Running
  <1>2. cm[t] = k
    BY DEF Begun
  <1> QED
    BY <1>1, <1>2 DEF AckKept

\* ... and a call returns; if it is an Ack, its delivery has no row.
LEMMA AckKeptByReturn ==
  ASSUME NEW cl, NEW tb, NEW ak, NEW ac, AckKept(cl, tb, ak, ac),
         NEW t \in Running(cl), cl[t].todo = << >>, NEW cm, Ended(cl, cm, t),
         NEW ad, ad = IF cl[t].op = "Ack" THEN ac \cup {cl[t].id} ELSE ac
  PROVE  AckKept(cm, tb, ak, ad)
  <1>1. \A u \in Running(cm) : cm[u] = cl[u] /\ u \in Running(cl)
    BY DEF Ended, Running
  <1> QED
    BY <1>1 DEF AckKept
----------------------------------------------------------------------------
(***************************************************************************)
(* The actions.                                                            *)
(***************************************************************************)
\* The parts of the invariant, taken apart ...
LEMMA Parts ==
  ASSUME IInv
  PROVE  /\ boot \in {"down", "restoring", "up"} /\ queue \in QueueType
         /\ call \in CallsType /\ restore \in Seq(Delivery)
         /\ rows \in [DOMAIN rows -> Row] /\ createdAt \in Seq(DeliveryIDs)
         /\ earlier \in [DeliveryIDs -> SUBSET DeliveryIDs]
         /\ deadLetters \subseteq DeliveryIDs /\ faults \in Nat
         /\ Sound(queue) /\ Shapes(call)
         /\ Core(queue, call, rows, createdAt, confirmed, acked \cup rejected, earlier)
         /\ AckKept(call, rows, acked, ackConfirmed)
         /\ Booting(boot, queue, call, restore, rows, createdAt)
  BY DEF IInv, Types

\* ... and put together again while the server is up.
LEMMA StillUp ==
  ASSUME boot' = "up", queue' \in QueueType, call' \in CallsType,
         restore' \in Seq(Delivery), rows' \in [DOMAIN rows' -> Row],
         createdAt' \in Seq(DeliveryIDs), earlier' \in [DeliveryIDs -> SUBSET DeliveryIDs],
         deadLetters' \subseteq DeliveryIDs, faults' \in Nat,
         Sound(queue'), Shapes(call'),
         Core(queue', call', rows', createdAt', confirmed', acked' \cup rejected', earlier'),
         AckKept(call', rows', acked', ackConfirmed')
  PROVE  IInv'
  BY DEF IInv, Types, Booting

\* What is in the queue is in the table, is nobody's to publish, and has
\* had its place in created_at.
LEMMA InQueue ==
  ASSUME NEW q, NEW cl, NEW tb, NEW ca, NEW cf, NEW dn, NEW ea,
         Core(q, cl, tb, ca, cf, dn, ea), NEW id \in IDs(q)
  PROVE  /\ id \in DOMAIN tb /\ id \in ToSet(ca)
         /\ \A u \in Saved(cl) : id # cl[u].id
  <1>1. id \in DOMAIN tb /\ id \in ToSet(ca)
    BY DEF Core, Stored
  <1>2. \A u \in Saved(cl) : cl[u].id \notin IDs(q)
    BY DEF Core, Publishing
  <1> QED
    BY <1>1, <1>2

\* Publish.
LEMMA PublishStep ==
  ASSUME IInv, NEW t \in Calls, NEW id \in DeliveryIDs, Publish(t, id)
  PROVE  IInv'
  <1> DEFINE todo == << Statement("SaveReadyDelivery", id) >>
             k == [op |-> "Publish", id |-> id, consumer |-> NoConsumer, todo |-> todo]
  <1>1. /\ boot = "up" /\ boot' = "up" /\ call[t] = NoCall /\ call' = [call EXCEPT ![t] = k]
        /\ id \notin ToSet(createdAt)
        /\ \A u \in Calls : call[u].op = "Publish" => call[u].id # id
        /\ earlier' = [earlier EXCEPT ![id] = confirmed]
        /\ UNCHANGED <<queue, restore, rows, createdAt, deadLetters, faults,
                       confirmed, acked, ackConfirmed, rejected>>
    BY DEF Publish, Begin, database, bounds
  <1>2. /\ queue \in QueueType /\ call \in CallsType /\ restore \in Seq(Delivery)
        /\ rows \in [DOMAIN rows -> Row] /\ createdAt \in Seq(DeliveryIDs)
        /\ earlier \in [DeliveryIDs -> SUBSET DeliveryIDs]
        /\ deadLetters \subseteq DeliveryIDs /\ faults \in Nat
        /\ Sound(queue) /\ Shapes(call)
        /\ Core(queue, call, rows, createdAt, confirmed, acked \cup rejected, earlier)
        /\ AckKept(call, rows, acked, ackConfirmed)
    BY Parts
  <1>3. k \in CallType /\ k.op = "Publish" /\ k.id = id
        /\ k.todo = << Statement("SaveReadyDelivery", k.id) >>
    <2>1. Statement("SaveReadyDelivery", id) \in Statements
      BY DEF Statement, Statements
    <2>2. todo \in Seq(Statements)
      BY <2>1
    <2> QED
      BY <2>2 DEF CallType, Ops
  <1> HIDE DEF k
  <1>4. Begun(call, call', t, k)
    BY <1>1, <1>2, <1>3, CallBegun
  <1>5. Core(queue, call', rows, createdAt, confirmed, acked \cup rejected, earlier')
    BY <1>1, <1>2, <1>3, PublishBegins
  <1>6. Shapes(call')
    BY <1>2, <1>3, <1>4, ShapesBegun
  <1>7. AckKept(call', rows, acked, ackConfirmed)
    BY <1>2, <1>3, <1>4, AckKeptByBegin
  <1>8. earlier' \in [DeliveryIDs -> SUBSET DeliveryIDs]
    <2>1. confirmed \subseteq DeliveryIDs
      <3>1. confirmed \subseteq ToSet(createdAt)
        BY <1>2 DEF Core, Unlost
      <3>2. ToSet(createdAt) \subseteq DeliveryIDs
        BY <1>2, ElementOfSeq, LenProperties DEF ToSet
      <3> QED
        BY <3>1, <3>2
    <2> QED
      BY <1>1, <1>2, <2>1
  <1>9. call' \in CallsType
    BY <1>4 DEF Begun
  <1> QED
    BY <1>1, <1>2, <1>5, <1>6, <1>7, <1>8, <1>9, StillUp

Bystanders == <<boot, restore, rows, createdAt, deadLetters, faults, confirmed, ackConfirmed, earlier>>

\* The calls on the queue that begin with a step on it: the queue becomes r
\* and the deliveries of dn are done.
LEMMA QueueCallStep ==
  ASSUME IInv, boot = "up", NEW t \in Calls, call[t] = NoCall, NEW k \in CallType,
         k.op # "Publish", call' = [call EXCEPT ![t] = k], UNCHANGED Bystanders,
         queue' \in QueueType, Sound(queue'),
         acked \subseteq acked',
         Core(queue', call, rows, createdAt, confirmed, acked' \cup rejected', earlier),
         \A st \in ToSet(k.todo) :
            /\ st.name # "SaveReadyDelivery" /\ st.id \in IDs(queue)
            /\ st.name = "DeleteDelivery" => st.id \in (acked' \cup rejected') \ IDs(queue')
            /\ st.name = "MarkInFlight" => AtLeast(queue', st.id, st.attempts),
         k.op = "Ack" => /\ k.id \in acked'
                         /\ k.todo = << Statement("DeleteDelivery", k.id) >>
  PROVE  IInv'
  <1>1. /\ queue \in QueueType /\ call \in CallsType /\ restore \in Seq(Delivery)
        /\ rows \in [DOMAIN rows -> Row] /\ createdAt \in Seq(DeliveryIDs)
        /\ earlier \in [DeliveryIDs -> SUBSET DeliveryIDs]
        /\ deadLetters \subseteq DeliveryIDs /\ faults \in Nat /\ Shapes(call)
        /\ Core(queue, call, rows, createdAt, confirmed, acked \cup rejected, earlier)
        /\ AckKept(call, rows, acked, ackConfirmed)
    BY Parts
  <1>2. Begun(call, call', t, k)
    BY <1>1, CallBegun
  <1>3. \A st \in ToSet(k.todo) : /\ st.id \in ToSet(createdAt)
                                  /\ \A u \in Saved(call) : st.id # call[u].id
    BY <1>1, InQueue
  <1>4. Core(queue', call', rows, createdAt, confirmed, acked' \cup rejected', earlier)
    BY <1>1, <1>3, CallBegins
  <1>5. Shapes(call')
    BY <1>1, <1>2, ShapesBegun
  <1>6. AckKept(call', rows, acked', ackConfirmed)
    <2>1. k.op = "Ack" => k.id \in acked' /\ k.todo # << >>
      OBVIOUS
    <2> QED
      BY <1>1, <1>2, <2>1, AckKeptByBegin
  <1>7. call' \in CallsType
    BY <1>2 DEF Begun
  <1>8. UNCHANGED <<boot, restore, rows, createdAt, deadLetters, faults,
                    confirmed, ackConfirmed, earlier>>
    BY DEF Bystanders
  <1> QED
    BY <1>1, <1>4, <1>5, <1>6, <1>7, <1>8, StillUp

\* A sequence of one or two statements is a sequence of its statements.
LEMMA FewStatements ==
  ASSUME NEW a \in Statements, NEW b \in Statements
  PROVE  /\ << a >> \in Seq(Statements) /\ ToSet(<< a >>) = {a}
         /\ << a, b >> \in Seq(Statements) /\ ToSet(<< a, b >>) = {a, b}
  <1>1. << a >> \in Seq(Statements) /\ << a, b >> \in Seq(Statements)
    OBVIOUS
  <1>2. ToSet(<< a >>) = {a}
    BY DEF ToSet
  <1>3. ToSet(<< a, b >>) = {a, b}
    BY DEF ToSet
  <1> QED
    BY <1>1, <1>2, <1>3

\* The statements without further parameters.
LEMMA PlainStatement ==
  ASSUME NEW name \in {"SaveReadyDelivery", "MarkReady", "DeleteDelivery", "SaveDeadLetter"},
         NEW id \in DeliveryIDs
  PROVE  /\ Statement(name, id) \in Statements
         /\ Statement(name, id).name = name /\ Statement(name, id).id = id
  BY DEF Statement, Statements

\* BlockingFetch.
LEMMA FetchStep ==
  ASSUME IInv, NEW t \in Calls, NEW c \in Consumers, BlockingFetch(t, c)
  PROVE  IInv'
  <1> DEFINE d == FetchedDelivery(queue, c)
             r == Fetched(queue, c)
             h == Head(queue.Ready)
             st == [name |-> "MarkInFlight", id |-> d.ID, consumer |-> c, attempts |-> d.Attempts]
             k == [op |-> "Fetch", id |-> d.ID, consumer |-> c, todo |-> << st >>]
  <1>1. /\ boot = "up" /\ call[t] = NoCall /\ call' = [call EXCEPT ![t] = k]
        /\ queue.Ready # << >> /\ h.Attempts < AttemptBound /\ c \in queue.Consumers
        /\ queue' = r
        /\ UNCHANGED Bystanders /\ acked' = acked /\ rejected' = rejected
    BY DEF BlockingFetch, Begin, FetchAllowed, database, bounds, history, Bystanders
  <1>2. /\ queue \in QueueType /\ call \in CallsType /\ rows \in [DOMAIN rows -> Row]
        /\ Sound(queue)
        /\ Core(queue, call, rows, createdAt, confirmed, acked \cup rejected, earlier)
    BY Parts
  <1>3. /\ d \in Delivery /\ d.ID = h.ID /\ d.Attempts = h.Attempts + 1
    BY <1>1, <1>2, FetchedFields
  <1>4. r \in QueueType /\ Sound(r)
    BY <1>1, <1>2, FetchedSound
  <1>5. /\ h \in Delivery
        /\ h.ID \in SeqIDs(queue.Ready)
        /\ SeqIDs(r.Ready) = SeqIDs(queue.Ready) \ {h.ID}
        /\ r.InFlight[h.ID].Attempts = h.Attempts + 1
    BY <1>1, <1>2, FetchedMoves
  <1>6. Moved(queue, r)
    BY <1>1, <1>2, FetchedMoved
  <1>7. Core(r, call, rows, createdAt, confirmed, acked \cup rejected, earlier)
    BY <1>2, <1>4, <1>6, QueueMoves
  <1>8. AtLeast(r, h.ID, h.Attempts + 1)
    <2>1. h.Attempts \in Nat
      BY <1>5 DEF Deliveries
    <2>2. h.ID \notin SeqIDs(r.Ready)
      BY <1>5
    <2>3. \A i \in DOMAIN r.Ready : r.Ready[i].ID # h.ID
      BY <2>2 DEF SeqIDs
    <2> HIDE DEF r, h
    <2> QED
      BY <1>5, <2>1, <2>3 DEF AtLeast
  <1> HIDE DEF d, r, h
  <1>9. st \in Statements
    <2>1. d.ID \in DeliveryIDs /\ d.Attempts \in 0..AttemptBound
      BY <1>1, <1>3, <1>5, ServiceAssumption DEF Deliveries
    <2> QED
      BY <2>1 DEF Statements
  <1>10. /\ st.name = "MarkInFlight" /\ st.id = h.ID /\ st.attempts = h.Attempts + 1
    BY <1>3
  <1>11. k \in CallType /\ k.op = "Fetch" /\ ToSet(k.todo) = {st}
    <2>1. << st >> \in Seq(Statements) /\ ToSet(<< st >>) = {st}
      BY <1>9, FewStatements
    <2>2. d.ID \in DeliveryIDs
      BY <1>3 DEF Deliveries
    <2> DEFINE td == << st >>
    <2> HIDE DEF st, td
    <2>3. k = [op |-> "Fetch", id |-> d.ID, consumer |-> c, todo |-> td]
      BY DEF td
    <2> HIDE DEF k
    <2>4. k \in CallType /\ k.op = "Fetch" /\ k.todo = td
      BY <2>1, <2>2, <2>3 DEF CallType, Ops, td
    <2> QED
      BY <2>1, <2>4 DEF td
  <1> HIDE DEF st, k
  <1>12. h.ID \in IDs(queue)
    BY <1>5 DEF IDs
  <1>13. \A s \in ToSet(k.todo) :
            /\ s.name # "SaveReadyDelivery" /\ s.id \in IDs(queue)
            /\ s.name = "DeleteDelivery" => s.id \in (acked' \cup rejected') \ IDs(queue')
            /\ s.name = "MarkInFlight" => AtLeast(queue', s.id, s.attempts)
    BY <1>1, <1>8, <1>10, <1>11, <1>12
  <1> QED
    BY <1>1, <1>4, <1>7, <1>11, <1>13, QueueCallStep

\* Ack.
LEMMA AckStep ==
  ASSUME IInv, NEW t \in Calls, NEW id \in DeliveryIDs, NEW c \in Consumers, Ack(t, id, c)
  PROVE  IInv'
  <1> DEFINE r == Acked(queue, id)
             st == Statement("DeleteDelivery", id)
             k == [op |-> "Ack", id |-> id, consumer |-> c, todo |-> << st >>]
             dn == acked \cup rejected
  <1>1. /\ boot = "up" /\ call[t] = NoCall /\ call' = [call EXCEPT ![t] = k]
        /\ id \in DOMAIN queue.InFlight
        /\ queue' = r /\ acked' = acked \cup {id} /\ rejected' = rejected
        /\ UNCHANGED Bystanders
    BY DEF Ack, Holds, Begin, database, bounds, Bystanders
  <1>2. /\ queue \in QueueType /\ call \in CallsType /\ rows \in [DOMAIN rows -> Row]
        /\ Sound(queue)
        /\ Core(queue, call, rows, createdAt, confirmed, dn, earlier)
    BY Parts
  <1>3. id \in IDs(queue)
    BY <1>1 DEF IDs
  <1>4. r \in QueueType
    BY <1>2, AckedFields
  <1>5. Sound(r) /\ IDs(r) = IDs(queue) \ {id}
    BY <1>1, <1>2, AckedSound
  <1>6. Moved(queue, r)
    BY <1>1, <1>2, AckedMoved
  <1>7. dn \cup {id} = acked' \cup rejected'
    BY <1>1
  <1> HIDE DEF r, dn
  <1>8. Core(queue, call, rows, createdAt, confirmed, dn \cup {id}, earlier)
    BY <1>2, <1>3, OneMoreDone
  <1>9. Core(r, call, rows, createdAt, confirmed, dn \cup {id}, earlier)
    BY <1>2, <1>4, <1>6, <1>8, QueueMoves
  <1>10. st \in Statements /\ st.name = "DeleteDelivery" /\ st.id = id
    BY PlainStatement
  <1>11. /\ k \in CallType /\ k.op = "Ack" /\ k.id = id /\ ToSet(k.todo) = {st}
         /\ k.todo = << Statement("DeleteDelivery", k.id) >>
    <2>1. << st >> \in Seq(Statements) /\ ToSet(<< st >>) = {st}
      BY <1>10, FewStatements
    <2> DEFINE td == << st >>
    <2>2. td = << Statement("DeleteDelivery", id) >>
      OBVIOUS
    <2>3. k = [op |-> "Ack", id |-> id, consumer |-> c, todo |-> td]
      OBVIOUS
    <2> HIDE DEF st, td, k
    <2>4. k \in CallType /\ k.op = "Ack" /\ k.id = id /\ k.todo = td
      BY <2>1, <2>3 DEF CallType, Ops, td
    <2> QED
      BY <2>1, <2>2, <2>4 DEF td
  <1> HIDE DEF st, k
  <1>12. \A s \in ToSet(k.todo) :
            /\ s.name # "SaveReadyDelivery" /\ s.id \in IDs(queue)
            /\ s.name = "DeleteDelivery" => s.id \in (acked' \cup rejected') \ IDs(queue')
            /\ s.name = "MarkInFlight" => AtLeast(queue', s.id, s.attempts)
    BY <1>1, <1>3, <1>5, <1>10, <1>11
  <1>13. acked \subseteq acked' /\ k.id \in acked'
    BY <1>1, <1>11
  <1> QED
    BY <1>1, <1>4, <1>5, <1>7, <1>9, <1>11, <1>12, <1>13, QueueCallStep

\* NAck that dead-letters.
LEMMA DeadLetterStep ==
  ASSUME IInv, NEW t \in Calls, NEW id \in DeliveryIDs, NEW c \in Consumers,
         NAck(t, id, c), ShouldDeadLetter(queue, queue.InFlight[id])
  PROVE  IInv'
  <1> DEFINE r == Acked(queue, id)
             a == Statement("DeleteDelivery", id)
             b == Statement("SaveDeadLetter", id)
             k == [op |-> "NAck", id |-> id, consumer |-> c, todo |-> << a, b >>]
             dn == acked \cup rejected
  <1>1. /\ boot = "up" /\ call[t] = NoCall /\ call' = [call EXCEPT ![t] = k]
        /\ id \in DOMAIN queue.InFlight
        /\ queue' = r /\ acked' = acked /\ rejected' = rejected \cup {id}
        /\ UNCHANGED Bystanders
    BY DEF NAck, Holds, Begin, DeadLettering, Rejected, database, bounds, Bystanders
  <1>2. /\ queue \in QueueType /\ call \in CallsType /\ rows \in [DOMAIN rows -> Row]
        /\ Sound(queue)
        /\ Core(queue, call, rows, createdAt, confirmed, dn, earlier)
    BY Parts
  <1>3. id \in IDs(queue)
    BY <1>1 DEF IDs
  <1>4. r \in QueueType
    BY <1>2, AckedFields
  <1>5. Sound(r) /\ IDs(r) = IDs(queue) \ {id}
    BY <1>1, <1>2, AckedSound
  <1>6. Moved(queue, r)
    BY <1>1, <1>2, AckedMoved
  <1>7. dn \cup {id} = acked' \cup rejected'
    BY <1>1
  <1> HIDE DEF r, dn
  <1>8. Core(queue, call, rows, createdAt, confirmed, dn \cup {id}, earlier)
    BY <1>2, <1>3, OneMoreDone
  <1>9. Core(r, call, rows, createdAt, confirmed, dn \cup {id}, earlier)
    BY <1>2, <1>4, <1>6, <1>8, QueueMoves
  <1>10. /\ a \in Statements /\ a.name = "DeleteDelivery" /\ a.id = id
         /\ b \in Statements /\ b.name = "SaveDeadLetter" /\ b.id = id
    BY PlainStatement
  <1>11. k \in CallType /\ k.op = "NAck" /\ ToSet(k.todo) = {a, b}
    <2>1. << a, b >> \in Seq(Statements) /\ ToSet(<< a, b >>) = {a, b}
      BY <1>10, FewStatements
    <2> DEFINE td == << a, b >>
    <2>3. k = [op |-> "NAck", id |-> id, consumer |-> c, todo |-> td]
      OBVIOUS
    <2> HIDE DEF a, b, td, k
    <2>4. k \in CallType /\ k.op = "NAck" /\ k.todo = td
      BY <2>1, <2>3 DEF CallType, Ops, td
    <2> QED
      BY <2>1, <2>4 DEF td
  <1> HIDE DEF a, b, k
  <1>12. \A s \in ToSet(k.todo) :
            /\ s.name # "SaveReadyDelivery" /\ s.id \in IDs(queue)
            /\ s.name = "DeleteDelivery" => s.id \in (acked' \cup rejected') \ IDs(queue')
            /\ s.name = "MarkInFlight" => AtLeast(queue', s.id, s.attempts)
    BY <1>1, <1>3, <1>5, <1>10, <1>11
  <1> QED
    BY <1>1, <1>4, <1>5, <1>7, <1>9, <1>11, <1>12, QueueCallStep

\* NAck that requeues.
LEMMA RequeueStep ==
  ASSUME IInv, NEW t \in Calls, NEW id \in DeliveryIDs, NEW c \in Consumers,
         NAck(t, id, c), ~ShouldDeadLetter(queue, queue.InFlight[id])
  PROVE  IInv'
  <1> DEFINE r == Rejected(queue, id)
             a == Statement("MarkReady", id)
             k == [op |-> "NAck", id |-> id, consumer |-> c, todo |-> << a >>]
  <1>1. /\ boot = "up" /\ call[t] = NoCall /\ call' = [call EXCEPT ![t] = k]
        /\ id \in DOMAIN queue.InFlight
        /\ queue' = r /\ acked' = acked /\ rejected' = rejected
        /\ UNCHANGED Bystanders
    BY DEF NAck, Holds, Begin, database, bounds, Bystanders
  <1>2. /\ queue \in QueueType /\ call \in CallsType /\ rows \in [DOMAIN rows -> Row]
        /\ Sound(queue)
        /\ Core(queue, call, rows, createdAt, confirmed, acked \cup rejected, earlier)
    BY Parts
  <1>3. id \in IDs(queue)
    BY <1>1 DEF IDs
  <1>4. r \in QueueType /\ Sound(r)
    BY <1>1, <1>2, RejectedSound
  <1>5. Moved(queue, r)
    <2>1. GivenBack(queue, r, {id})
      BY <1>1, <1>2, RejectedGivesBack
    <2> QED
      BY <1>1, <1>2, <2>1, GivenBackMoved
  <1> HIDE DEF r
  <1>6. Core(r, call, rows, createdAt, confirmed, acked \cup rejected, earlier)
    BY <1>2, <1>4, <1>5, QueueMoves
  <1>7. a \in Statements /\ a.name = "MarkReady" /\ a.id = id
    BY PlainStatement
  <1>8. k \in CallType /\ k.op = "NAck" /\ ToSet(k.todo) = {a}
    <2>1. << a >> \in Seq(Statements) /\ ToSet(<< a >>) = {a}
      BY <1>7, FewStatements
    <2> DEFINE td == << a >>
    <2>3. k = [op |-> "NAck", id |-> id, consumer |-> c, todo |-> td]
      OBVIOUS
    <2> HIDE DEF a, td, k
    <2>4. k \in CallType /\ k.op = "NAck" /\ k.todo = td
      BY <2>1, <2>3 DEF CallType, Ops, td
    <2> QED
      BY <2>1, <2>4 DEF td
  <1> HIDE DEF a, k
  <1>9. \A s \in ToSet(k.todo) :
           /\ s.name # "SaveReadyDelivery" /\ s.id \in IDs(queue)
           /\ s.name = "DeleteDelivery" => s.id \in (acked' \cup rejected') \ IDs(queue')
           /\ s.name = "MarkInFlight" => AtLeast(queue', s.id, s.attempts)
    BY <1>3, <1>7, <1>8
  <1> QED
    BY <1>1, <1>4, <1>6, <1>8, <1>9, QueueCallStep

\* DisconnectConsumer.
LEMMA DisconnectStep ==
  ASSUME IInv, NEW t \in Calls, NEW c \in Consumers, DisconnectConsumer(t, c)
  PROVE  IInv'
  <1>0. PICK order \in ReturnOrders(queue, c) :
           /\ Begin(t, "Disconnect", NoConsumer, c,
                    [i \in DOMAIN order |-> Statement("MarkReady", order[i])])
           /\ queue' = Disconnected(queue, c, order)
    BY DEF DisconnectConsumer
  <1> DEFINE r == Disconnected(queue, c, order)
             td == [i \in DOMAIN order |-> Statement("MarkReady", order[i])]
             k == [op |-> "Disconnect", id |-> NoConsumer, consumer |-> c, todo |-> td]
  <1>1. /\ boot = "up" /\ call[t] = NoCall /\ call' = [call EXCEPT ![t] = k]
        /\ queue' = r /\ acked' = acked /\ rejected' = rejected
        /\ UNCHANGED Bystanders
    BY <1>0 DEF DisconnectConsumer, Begin, database, bounds, history, Bystanders
  <1>2. /\ queue \in QueueType /\ call \in CallsType /\ rows \in [DOMAIN rows -> Row]
        /\ Sound(queue)
        /\ Core(queue, call, rows, createdAt, confirmed, acked \cup rejected, earlier)
    BY Parts
  <1>3. r \in QueueType /\ Sound(r)
    BY <1>2, DisconnectedSound, ServiceAssumption
  <1>4. Moved(queue, r)
    <2>1. GivenBack(queue, r, InFlightOf(queue, c))
      BY <1>2, DisconnectedGivesBack, ServiceAssumption
    <2>2. InFlightOf(queue, c) \subseteq DOMAIN queue.InFlight
      BY DEF InFlightOf
    <2> QED
      BY <1>2, <2>1, <2>2, GivenBackMoved
  <1> HIDE DEF r
  <1>5. Core(r, call, rows, createdAt, confirmed, acked \cup rejected, earlier)
    BY <1>2, <1>3, <1>4, QueueMoves
  <1>6. /\ order \in Seq(InFlightOf(queue, c))
        /\ \A i \in DOMAIN order : order[i] \in DOMAIN queue.InFlight
    <2>1. IsFiniteSet(InFlightOf(queue, c))
      BY <1>2, InFlightFinite, ServiceAssumption
    <2>2. order \in Seq(InFlightOf(queue, c))
      BY <2>1, Enumeration DEF ReturnOrders
    <2>3. \A i \in DOMAIN order : order[i] \in InFlightOf(queue, c)
      BY <2>2, ElementOfSeq, LenProperties
    <2> QED
      BY <2>2, <2>3 DEF InFlightOf
  <1>7. \A i \in DOMAIN td : /\ td[i] \in Statements
                             /\ td[i].name = "MarkReady" /\ td[i].id \in IDs(queue)
    <2> TAKE i \in DOMAIN td
    <2>1. td[i] = Statement("MarkReady", order[i]) /\ order[i] \in DOMAIN queue.InFlight
      BY <1>6
    <2>2. order[i] \in DeliveryIDs
      BY <1>2, <2>1, AttemptsNat
    <2>3. td[i] \in Statements /\ td[i].name = "MarkReady" /\ td[i].id = order[i]
      BY <2>1, <2>2, PlainStatement
    <2> QED
      BY <2>1, <2>3 DEF IDs
  <1>8. td \in Seq(Statements)
    <2>1. DOMAIN order = 1..Len(order) /\ Len(order) \in Nat
      BY <1>6, LenProperties
    <2>2. td \in [1..Len(order) -> Statements]
      BY <1>7, <2>1
    <2> QED
      BY <2>1, <2>2
  <1> HIDE DEF td
  <1>9. k \in CallType /\ k.op = "Disconnect" /\ k.todo = td
    BY <1>8 DEF CallType, Ops
  <1> HIDE DEF k
  <1>10. \A s \in ToSet(k.todo) : s.name = "MarkReady" /\ s.id \in IDs(queue)
    BY <1>7, <1>9 DEF ToSet
  <1>11. \A s \in ToSet(k.todo) :
           /\ s.name # "SaveReadyDelivery" /\ s.id \in IDs(queue)
           /\ s.name = "DeleteDelivery" => s.id \in (acked' \cup rejected') \ IDs(queue')
           /\ s.name = "MarkInFlight" => AtLeast(queue', s.id, s.attempts)
    BY <1>10
  <1> QED
    BY <1>1, <1>3, <1>5, <1>9, <1>11, QueueCallStep

\* AddConsumer.
LEMMA AddConsumerStep ==
  ASSUME IInv, NEW c \in Consumers, AddConsumer(c)
  PROVE  IInv'
  <1> DEFINE r == WithConsumer(queue, c)
  <1>1. /\ boot = "up" /\ boot' = "up" /\ queue' = r
        /\ UNCHANGED <<call, restore, rows, createdAt, deadLetters, faults, confirmed,
                       acked, rejected, ackConfirmed, earlier>>
    BY DEF AddConsumer, database, bounds, history
  <1>2. /\ queue \in QueueType /\ call \in CallsType /\ restore \in Seq(Delivery)
        /\ rows \in [DOMAIN rows -> Row] /\ createdAt \in Seq(DeliveryIDs)
        /\ earlier \in [DeliveryIDs -> SUBSET DeliveryIDs]
        /\ deadLetters \subseteq DeliveryIDs /\ faults \in Nat
        /\ Sound(queue) /\ Shapes(call)
        /\ Core(queue, call, rows, createdAt, confirmed, acked \cup rejected, earlier)
        /\ AckKept(call, rows, acked, ackConfirmed)
    BY Parts
  <1>3. r \in QueueType /\ Sound(r)
    BY <1>2, WithConsumerSound
  <1>4. r.Ready = queue.Ready /\ r.InFlight = queue.InFlight
    BY <1>2 DEF WithConsumer, Queues
  <1> HIDE DEF r
  <1>5. Moved(queue, r)
    BY <1>2, <1>4, SameMoved
  <1>6. Core(r, call, rows, createdAt, confirmed, acked \cup rejected, earlier)
    BY <1>2, <1>3, <1>5, QueueMoves
  <1> QED
    BY <1>1, <1>2, <1>3, <1>6, StillUp

\* A running call: the server is up.
LEMMA RunningUp ==
  ASSUME IInv, NEW t \in Calls, call[t] # NoCall
  PROVE  boot = "up" /\ t \in Running(call)
  <1>1. t \in Running(call)
    BY DEF Running
  <1> QED
    BY <1>1, Parts DEF Booting

\* A statement is executed, or is not when its call fails; the call goes on
\* or ends.
LEMMA StatementStep ==
  ASSUME IInv, NEW t \in Calls, call[t] # NoCall, call[t].todo # << >>,
         \/ Exec(Head(call[t].todo)) /\ GoneOn(call, call', t)
         \/ /\ Exec(Head(call[t].todo)) \/ UNCHANGED database
            /\ Ended(call, call', t),
         faults' \in Nat, UNCHANGED <<boot, queue, restore, history>>
  PROVE  IInv'
  <1> DEFINE st == Head(call[t].todo)
  <1>1. /\ queue \in QueueType /\ call \in CallsType /\ restore \in Seq(Delivery)
        /\ rows \in [DOMAIN rows -> Row] /\ createdAt \in Seq(DeliveryIDs)
        /\ earlier \in [DeliveryIDs -> SUBSET DeliveryIDs]
        /\ deadLetters \subseteq DeliveryIDs
        /\ Sound(queue) /\ Shapes(call)
        /\ Core(queue, call, rows, createdAt, confirmed, acked \cup rejected, earlier)
        /\ AckKept(call, rows, acked, ackConfirmed)
    BY Parts
  <1>2. boot = "up" /\ t \in Running(call)
    BY RunningUp
  <1>3. UNCHANGED <<boot, queue, restore, confirmed, acked, rejected, ackConfirmed, earlier>>
    BY DEF history
  <1>4. st \in Statements /\ call[t] \in CallType
    BY <1>1, <1>2, NextStatement
  <1>5. GoneOn(call, call', t) \/ Ended(call, call', t)
    OBVIOUS
  <1>6. call' \in CallsType
    BY DEF GoneOn, Ended
  <1>7. Shapes(call')
    BY <1>1, <1>2, <1>5, ShapesKept
  <1>8. CASE call[t].op # "Publish"
    <2>1. st.name # "SaveReadyDelivery"
      BY <1>1, <1>2, <1>8, NextStatement
    <2>2. /\ Effect(rows, rows', st) \/ rows' = rows
          /\ Exec(st) => Effect(rows, rows', st)
          /\ createdAt' = createdAt /\ deadLetters' \subseteq DeliveryIDs
      <3>1. CASE Exec(st)
        <4>1. /\ Effect(rows, rows', st) /\ createdAt' = createdAt
              /\ deadLetters' \subseteq DeliveryIDs
          BY <1>1, <1>4, <2>1, <3>1, StatementEffect
        <4> QED
          BY <4>1
      <3>2. CASE ~Exec(st)
        BY <1>1, <3>2 DEF database
      <3> QED
        BY <3>1, <3>2
    <2>3. Core(queue, call', rows', createdAt, confirmed, acked \cup rejected, earlier)
      BY <1>1, <1>2, <1>5, <1>8, <2>2, StatementApplied
    <2>4. AckKept(call', rows', acked, ackConfirmed)
      <3>1. \/ GoneOn(call, call', t) /\ (call[t].op = "Ack" => Effect(rows, rows', st))
            \/ Ended(call, call', t)
        BY <2>2
      <3> QED
        BY <1>1, <1>2, <2>2, <3>1, AckKeptByStatement
    <2>5. rows' \in [DOMAIN rows' -> Row]
      BY <1>1, <2>2 DEF Effect
    <2> QED
      BY <1>1, <1>2, <1>3, <1>6, <1>7, <2>2, <2>3, <2>4, <2>5, StillUp
  <1>9. CASE call[t].op = "Publish"
    <2> DEFINE id == call[t].id
    <2>1. /\ st = Statement("SaveReadyDelivery", id)
          /\ Tail(call[t].todo) = << >>
      BY <1>1, <1>2, <1>9, NextStatement
    <2>2. st.name = "SaveReadyDelivery" /\ st.id = id /\ id \in DeliveryIDs
      BY <1>4, <2>1 DEF Statement, Statements
    <2>3. t \in Saving(call)
      BY <1>9 DEF Saving
    <2>4. id \notin ToSet(createdAt)
      BY <1>1, <2>3 DEF Core, Publishing
    <2>5. id \notin acked
      BY <1>1, <2>4 DEF Core, Unlost
    <2>6. /\ Running(call') \subseteq Running(call) /\ Pending(call') \subseteq Pending(call)
          /\ \A u \in Calls \ {t} : call'[u] = call[u]
          /\ \/ call'[t].op # "Publish"
             \/ call'[t].id = id /\ call'[t].todo = << >>
          /\ t \in Running(call') => call'[t].todo = << >>
      <3>1. CASE GoneOn(call, call', t)
        <4>1. /\ call'[t].id = id /\ call'[t].todo = << >>
              /\ Running(call') = Running(call)
              /\ \A u \in Calls \ {t} : call'[u] = call[u]
          BY <2>1, <3>1 DEF GoneOn
        <4>2. Pending(call') \subseteq Pending(call)
          BY <3>1 DEF GoneOn
        <4> QED
          BY <4>1, <4>2
      <3>2. CASE Ended(call, call', t)
        <4>1. /\ call'[t] = NoCall /\ Running(call') = Running(call) \ {t}
              /\ \A u \in Calls \ {t} : call'[u] = call[u]
              /\ Pending(call') \subseteq Pending(call)
          BY <3>2 DEF Ended
        <4>2. call'[t].op # "Publish"
          BY <4>1 DEF NoCall
        <4> QED
          BY <4>1, <4>2
      <3> QED
        BY <1>5, <3>1, <3>2
    <2>7. CASE Exec(st)
      <3>1. /\ rows' = SaveReadyDelivery(rows, id)
            /\ createdAt' = Append(createdAt, id)
            /\ deadLetters' = deadLetters
        BY <2>2, <2>7 DEF Exec
      <3>2. Core(queue, call', rows', createdAt', confirmed, acked \cup rejected, earlier)
        BY <1>1, <2>2, <2>3, <2>6, <3>1, SaveTakesEffect
      <3>3. rows' \in [DOMAIN rows' -> Row] /\ DOMAIN rows' = DOMAIN rows \cup {id}
        <4> DEFINE row == [status |-> "ready", consumer_id |-> NoConsumer, attempts |-> 0]
        <4>1. row \in Row
          BY ServiceAssumption DEF Row
        <4>2. rows' = [x \in DOMAIN rows \cup {id} |-> IF x = id THEN row ELSE rows[x]]
          BY <3>1 DEF SaveReadyDelivery, Put
        <4> HIDE DEF row
        <4> QED
          BY <1>1, <4>1, <4>2
      <3>4. createdAt' \in Seq(DeliveryIDs)
        BY <1>1, <2>2, <3>1, AppendProperties
      <3>5. AckKept(call', rows', acked, ackConfirmed)
        <4>1. \/ GoneOn(call, call', t) /\ (call[t].op = "Ack" => Effect(rows, rows', st))
              \/ Ended(call, call', t)
          BY <1>5, <1>9
        <4> QED
          BY <1>1, <1>2, <2>5, <3>3, <4>1, AckKeptByStatement
      <3> QED
        BY <1>1, <1>2, <1>3, <1>6, <1>7, <3>1, <3>2, <3>3, <3>4, <3>5, StillUp
    <2>8. CASE ~Exec(st)
      <3>1. /\ Ended(call, call', t)
            /\ rows' = rows /\ createdAt' = createdAt /\ deadLetters' = deadLetters
        BY <2>8 DEF database
      <3>2. /\ Saving(call') \subseteq Saving(call) /\ Saved(call') \subseteq Saved(call)
            /\ \A u \in Saving(call') \cup Saved(call') : call'[u] = call[u]
        BY <3>1 DEF Ended, Saving, Saved, NoCall
      <3>3. Core(queue, call', rows, createdAt, confirmed, acked \cup rejected, earlier)
        BY <1>1, <2>6, <3>2, CallProgress
      <3>4. AckKept(call', rows, acked, ackConfirmed)
        BY <1>1, <1>2, <3>1, AckKeptByStatement
      <3> QED
        BY <1>1, <1>2, <1>3, <1>6, <1>7, <3>1, <3>3, <3>4, StillUp
    <2> QED
      BY <2>7, <2>8
  <1> QED
    BY <1>8, <1>9

\* StatementDone.
LEMMA StatementDoneStep ==
  ASSUME IInv, NEW t \in Calls, StatementDone(t)
  PROVE  IInv'
  <1>1. /\ call[t] # NoCall /\ call[t].todo # << >>
        /\ Exec(Head(call[t].todo))
        /\ UNCHANGED <<boot, queue, restore, history>> /\ faults' = faults
    BY DEF StatementDone, bounds
  <1>2. \/ call' = [call EXCEPT ![t] = NoCall]
        \/ call' = [call EXCEPT ![t].todo = Tail(@)]
    BY DEF StatementDone
  <1>3. call \in CallsType /\ faults \in Nat
    BY Parts
  <1>4. t \in Running(call)
    BY <1>1, RunningUp
  <1>5. Ended(call, call', t) \/ GoneOn(call, call', t)
    <2>1. CASE call' = [call EXCEPT ![t] = NoCall]
      BY <1>3, <2>1, CallEnded
    <2>2. CASE call' = [call EXCEPT ![t].todo = Tail(@)]
      BY <1>1, <1>3, <1>4, <2>2, CallGoesOn
    <2> QED
      BY <1>2, <2>1, <2>2
  <1> QED
    BY <1>1, <1>3, <1>5, StatementStep

\* StatementFails.
LEMMA StatementFailsStep ==
  ASSUME IInv, NEW t \in Calls, StatementFails(t)
  PROVE  IInv'
  <1>1. /\ call[t] # NoCall /\ call[t].todo # << >>
        /\ call' = [call EXCEPT ![t] = NoCall]
        /\ Exec(Head(call[t].todo)) \/ UNCHANGED database
        /\ UNCHANGED <<boot, queue, restore, history>> /\ faults' = faults + 1
    BY DEF StatementFails
  <1>2. call \in CallsType /\ faults' \in Nat
    BY <1>1, Parts
  <1>3. Ended(call, call', t)
    BY <1>1, <1>2, CallEnded
  <1> QED
    BY <1>1, <1>2, <1>3, StatementStep

\* Return.
LEMMA ReturnStep ==
  ASSUME IInv, NEW t \in Calls, Return(t)
  PROVE  IInv'
  <1>1. /\ call[t] # NoCall /\ call[t].todo = << >>
        /\ call' = [call EXCEPT ![t] = NoCall]
        /\ ackConfirmed' = IF call[t].op = "Ack"
                             THEN ackConfirmed \cup {call[t].id} ELSE ackConfirmed
        /\ UNCHANGED <<boot, restore, rows, createdAt, deadLetters, faults,
                       acked, rejected, earlier>>
    BY DEF Return, database, bounds
  <1>2. /\ queue \in QueueType /\ call \in CallsType /\ restore \in Seq(Delivery)
        /\ rows \in [DOMAIN rows -> Row] /\ createdAt \in Seq(DeliveryIDs)
        /\ earlier \in [DeliveryIDs -> SUBSET DeliveryIDs]
        /\ deadLetters \subseteq DeliveryIDs /\ faults \in Nat
        /\ Sound(queue) /\ Shapes(call)
        /\ Core(queue, call, rows, createdAt, confirmed, acked \cup rejected, earlier)
        /\ AckKept(call, rows, acked, ackConfirmed)
    BY Parts
  <1>3. boot = "up" /\ t \in Running(call)
    BY <1>1, RunningUp
  <1>4. Ended(call, call', t)
    BY <1>1, <1>2, CallEnded
  <1>5. Shapes(call')
    BY <1>2, <1>3, <1>4, ShapesKept
  <1>6. AckKept(call', rows, acked, ackConfirmed')
    BY <1>1, <1>2, <1>3, <1>4, AckKeptByReturn
  <1>7. call' \in CallsType
    BY <1>4 DEF Ended
  <1>8. CASE call[t].op = "Publish"
    <2> DEFINE id == call[t].id
    <2>1. queue' = Enqueued(queue, NewDelivery(id)) /\ confirmed' = confirmed \cup {id}
      BY <1>8 DEF Return
    <2>2. t \in Saved(call)
      BY <1>1, <1>8 DEF Saved
    <2>3. id \in DeliveryIDs
      <3>1. id \in ToSet(createdAt)
        BY <1>2, <2>2 DEF Core, Publishing, Stored
      <3> QED
        BY <1>2, <3>1, ElementOfSeq, LenProperties DEF ToSet
    <2> HIDE DEF id
    <2>4. /\ Core(queue', call', rows, createdAt, confirmed', acked \cup rejected, earlier)
          /\ id \notin IDs(queue)
      BY <1>1, <1>2, <2>1, <2>2, <2>3, PublishReturns DEF id
    <2>5. /\ NewDelivery(id) \in Delivery /\ NewDelivery(id).ID = id
          /\ NewDelivery(id).ConsumerID = NoConsumer
      BY <2>3 DEF NewDelivery, Deliveries
    <2>6. queue' \in QueueType
      BY <1>2, <2>1, <2>5, EnqueuedFields
    <2>7. Sound(queue')
      BY <1>2, <2>1, <2>4, <2>5, EnqueuedSound
    <2> QED
      BY <1>1, <1>2, <1>3, <1>5, <1>6, <1>7, <2>4, <2>6, <2>7, StillUp
  <1>9. CASE call[t].op # "Publish"
    <2>1. queue' = queue /\ confirmed' = confirmed
      BY <1>9 DEF Return
    <2>2. /\ Pending(call') \subseteq Pending(call)
          /\ Saving(call') \subseteq Saving(call) /\ Saved(call') \subseteq Saved(call)
          /\ \A u \in Saving(call') \cup Saved(call') : call'[u] = call[u]
      BY <1>4 DEF Ended, Saving, Saved, NoCall
    <2>3. Core(queue, call', rows, createdAt, confirmed, acked \cup rejected, earlier)
      BY <1>2, <2>2, CallProgress
    <2> QED
      BY <1>1, <1>2, <1>3, <1>5, <1>6, <1>7, <2>1, <2>3, StillUp
  <1> QED
    BY <1>8, <1>9

\* A new queue is empty, and the calls of a new process are none.
LEMMA NewProcess ==
  /\ NewDurableQueue \in QueueType /\ Sound(NewDurableQueue) /\ IDs(NewDurableQueue) = {}
  /\ NewDurableQueue.Ready = << >> /\ DOMAIN NewDurableQueue.InFlight = {}
  /\ [t \in Calls |-> NoCall] \in CallsType
  /\ Running([t \in Calls |-> NoCall]) = {}
  <1>1. NewDurableQueue \in QueueType
    BY NewQueueIn DEF NewDurableQueue
  <1>2. NewDurableQueue.Ready = << >> /\ DOMAIN NewDurableQueue.InFlight = {}
    BY DEF NewDurableQueue, NewQueue
  <1>3. Sound(NewDurableQueue) /\ IDs(NewDurableQueue) = {}
    BY <1>2 DEF Sound, IDs, SeqIDs, Distinct, Free
  <1>4. [t \in Calls |-> NoCall] \in CallsType /\ Running([t \in Calls |-> NoCall]) = {}
    BY DEF CallsType, Running
  <1> QED
    BY <1>1, <1>2, <1>3, <1>4

\* With an empty queue and no running call, only the tables have to be right.
LEMMA EmptyCore ==
  ASSUME NEW q, q.Ready = << >>, DOMAIN q.InFlight = {}, IDs(q) = {},
         NEW cl \in CallsType, Running(cl) = {},
         NEW tb, NEW ca, NEW cf, NEW dn, NEW ea,
         DOMAIN tb \subseteq ToSet(ca), \A i, j \in DOMAIN ca : ca[i] = ca[j] => i = j,
         Unlost(tb, ca, cf, dn), TableOrder(ca, cf, ea)
  PROVE  Core(q, cl, tb, ca, cf, dn, ea)
  <1>1. Pending(cl) = {} /\ Saving(cl) = {} /\ Saved(cl) = {}
    <2>1. \A t \in Calls : cl[t].op # "Publish"
      BY CallKinds DEF Running
    <2> QED
      BY <2>1 DEF Pending, Saving, Saved
  <1>2. Stored(q, tb, ca)
    BY DEF Stored
  <1>3. Publishing(q, cl, tb, ca, cf, dn) /\ Outstanding(q, cl, ca, dn)
    BY <1>1 DEF Publishing, Outstanding
  <1>4. Counted(q, tb) /\ Bounded(q) /\ QueueOrder(q, ea)
    BY DEF Counted, AtLeast, Bounded, QueueOrder
  <1> QED
    BY <1>2, <1>3, <1>4 DEF Core

\* The process ends.
LEMMA ExitStep ==
  ASSUME IInv, Exit, faults' \in Nat
  PROVE  IInv'
  <1> DEFINE q == NewDurableQueue
             cl == [t \in Calls |-> NoCall]
  <1>1. /\ boot' = "down" /\ queue' = q /\ call' = cl /\ restore' = << >>
        /\ UNCHANGED <<rows, createdAt, deadLetters, confirmed, acked, rejected,
                       ackConfirmed, earlier>>
    BY DEF Exit, database, history
  <1>2. /\ rows \in [DOMAIN rows -> Row] /\ createdAt \in Seq(DeliveryIDs)
        /\ earlier \in [DeliveryIDs -> SUBSET DeliveryIDs]
        /\ deadLetters \subseteq DeliveryIDs
        /\ Core(queue, call, rows, createdAt, confirmed, acked \cup rejected, earlier)
        /\ AckKept(call, rows, acked, ackConfirmed)
    BY Parts
  <1>3. /\ q \in QueueType /\ Sound(q) /\ IDs(q) = {}
        /\ q.Ready = << >> /\ DOMAIN q.InFlight = {}
        /\ cl \in CallsType /\ Running(cl) = {}
    BY NewProcess
  <1> HIDE DEF q, cl
  <1>4. Core(q, cl, rows, createdAt, confirmed, acked \cup rejected, earlier)
    <2>1. /\ DOMAIN rows \subseteq ToSet(createdAt)
          /\ \A i, j \in DOMAIN createdAt : createdAt[i] = createdAt[j] => i = j
          /\ Unlost(rows, createdAt, confirmed, acked \cup rejected)
          /\ TableOrder(createdAt, confirmed, earlier)
      BY <1>2 DEF Core, Stored
    <2> QED
      BY <1>3, <2>1, EmptyCore
  <1>5. Shapes(cl) /\ AckKept(cl, rows, acked, ackConfirmed)
    BY <1>2, <1>3 DEF Shapes, AckKept
  <1>6. Booting("down", q, cl, << >>, rows, createdAt)
    BY <1>3 DEF Booting
  <1>7. << >> \in Seq(Delivery)
    BY EmptySeq
  <1>8. Types("down", q, cl, << >>, rows, createdAt, earlier)
    BY <1>2, <1>3, <1>7 DEF Types
  <1> QED
    BY <1>1, <1>2, <1>3, <1>4, <1>5, <1>6, <1>8 DEF IInv

\* The rows are about known deliveries.
LEMMA RowIDs ==
  ASSUME IInv
  PROVE  DOMAIN rows \subseteq DeliveryIDs
  <1>1. DOMAIN rows \subseteq ToSet(createdAt)
    BY Parts DEF Core, Stored
  <1>2. createdAt \in Seq(DeliveryIDs)
    BY Parts
  <1>3. ToSet(createdAt) \subseteq DeliveryIDs
    BY <1>2, ElementOfSeq, LenProperties DEF ToSet
  <1> QED
    BY <1>1, <1>3

\* StartRestore.
LEMMA StartRestoreStep ==
  ASSUME IInv, StartRestore
  PROVE  IInv'
  <1>1. /\ boot = "down" /\ boot' = "restoring" /\ restore' \in loadDeliveries
        /\ UNCHANGED <<queue, call, rows, createdAt, deadLetters, faults, confirmed, acked,
                       rejected, ackConfirmed, earlier>>
    BY DEF StartRestore, database, bounds, history
  <1>2. /\ queue \in QueueType /\ call \in CallsType
        /\ rows \in [DOMAIN rows -> Row] /\ createdAt \in Seq(DeliveryIDs)
        /\ earlier \in [DeliveryIDs -> SUBSET DeliveryIDs]
        /\ deadLetters \subseteq DeliveryIDs /\ faults \in Nat
        /\ Sound(queue) /\ Shapes(call)
        /\ Core(queue, call, rows, createdAt, confirmed, acked \cup rejected, earlier)
        /\ AckKept(call, rows, acked, ackConfirmed)
        /\ Booting(boot, queue, call, restore, rows, createdAt)
    BY Parts
  <1>3. IDs(queue) = {} /\ Running(call) = {}
    BY <1>1, <1>2 DEF Booting
  <1>4. restore' \in Seq(Delivery) /\ Restoring(queue, restore', rows, createdAt)
    BY <1>1, <1>2, <1>3, RowIDs, Loads
  <1>5. Booting("restoring", queue, call, restore', rows, createdAt)
    BY <1>3, <1>4 DEF Booting
  <1>6. Types("restoring", queue, call, restore', rows, createdAt, earlier)
    BY <1>2, <1>4 DEF Types
  <1> QED
    BY <1>1, <1>2, <1>5, <1>6 DEF IInv

\* RestoreDelivery.
LEMMA RestoreDeliveryStep ==
  ASSUME IInv, RestoreDelivery
  PROVE  IInv'
  <1>1. /\ boot = "restoring" /\ boot' = "restoring" /\ restore # << >>
        /\ queue' = RestoredReady(queue, Head(restore))
        /\ rows' = MarkReady(rows, Head(restore).ID)
        /\ restore' = Tail(restore)
        /\ UNCHANGED <<call, createdAt, deadLetters, faults, confirmed, acked,
                       rejected, ackConfirmed, earlier>>
    BY DEF RestoreDelivery, bounds, history
  <1>2. /\ queue \in QueueType /\ call \in CallsType /\ restore \in Seq(Delivery)
        /\ rows \in [DOMAIN rows -> Row] /\ createdAt \in Seq(DeliveryIDs)
        /\ earlier \in [DeliveryIDs -> SUBSET DeliveryIDs]
        /\ deadLetters \subseteq DeliveryIDs /\ faults \in Nat
        /\ Sound(queue) /\ Shapes(call)
        /\ Core(queue, call, rows, createdAt, confirmed, acked \cup rejected, earlier)
        /\ AckKept(call, rows, acked, ackConfirmed)
        /\ Booting(boot, queue, call, restore, rows, createdAt)
    BY Parts
  <1>3. Running(call) = {} /\ Restoring(queue, restore, rows, createdAt)
    BY <1>1, <1>2 DEF Booting
  <1>4. /\ queue' \in QueueType /\ Sound(queue')
        /\ rows' \in [DOMAIN rows' -> Row] /\ DOMAIN rows' = DOMAIN rows
        /\ Core(queue', call, rows', createdAt, confirmed, acked \cup rejected, earlier)
        /\ Restoring(queue', Tail(restore), rows', createdAt)
    <2> DEFINE dn == acked \cup rejected
    <2> HIDE DEF dn
    <2>1. Core(queue, call, rows, createdAt, confirmed, dn, earlier)
      BY <1>2 DEF dn
    <2>2. OneBack(queue', call, Tail(restore), rows, rows', createdAt, confirmed, dn, earlier)
      BY <1>1, <1>2, <1>3, <2>1, RestoresOne
    <2> QED
      BY <2>2 DEF OneBack, dn
  <1>5. Tail(restore) \in Seq(Delivery)
    BY <1>1, <1>2, HeadTailProperties
  <1>6. AckKept(call, rows', acked, ackConfirmed)
    BY <1>2, <1>4 DEF AckKept
  <1>7. Booting("restoring", queue', call, Tail(restore), rows', createdAt)
    BY <1>3, <1>4 DEF Booting
  <1>8. Types("restoring", queue', call, Tail(restore), rows', createdAt, earlier)
    BY <1>2, <1>4, <1>5 DEF Types
  <1> QED
    BY <1>1, <1>2, <1>4, <1>6, <1>7, <1>8 DEF IInv

\* Serve.
LEMMA ServeStep ==
  ASSUME IInv, Serve
  PROVE  IInv'
  <1>1. /\ boot' = "up"
        /\ UNCHANGED <<queue, call, restore, rows, createdAt, deadLetters, faults, confirmed,
                       acked, rejected, ackConfirmed, earlier>>
    BY DEF Serve, database, bounds, history
  <1> QED
    BY <1>1, Parts, StillUp

\* The initial state satisfies the invariant.
LEMMA InitInv == Init => IInv
  <1> SUFFICES ASSUME Init PROVE IInv
    OBVIOUS
  <1> DEFINE q == NewDurableQueue
             cl == [t \in Calls |-> NoCall]
  <1>1. /\ q \in QueueType /\ Sound(q) /\ IDs(q) = {}
        /\ q.Ready = << >> /\ DOMAIN q.InFlight = {}
        /\ cl \in CallsType /\ Running(cl) = {}
    BY NewProcess
  <1>2. /\ boot = "up" /\ queue = q /\ call = cl /\ restore = << >>
        /\ DOMAIN rows = {} /\ rows \in [DOMAIN rows -> Row]
        /\ createdAt = << >> /\ deadLetters = {} /\ faults = 0
        /\ confirmed = {} /\ acked = {} /\ ackConfirmed = {} /\ rejected = {}
        /\ earlier \in [DeliveryIDs -> SUBSET DeliveryIDs]
        /\ \A id \in DeliveryIDs : earlier[id] = {}
    BY DEF Init
  <1> HIDE DEF q, cl
  <1>3. Core(q, cl, rows, createdAt, {}, {}, earlier)
    <2>1. /\ DOMAIN rows \subseteq ToSet(createdAt)
          /\ \A i, j \in DOMAIN createdAt : createdAt[i] = createdAt[j] => i = j
          /\ Unlost(rows, createdAt, {}, {})
          /\ TableOrder(createdAt, {}, earlier)
      BY <1>2 DEF Unlost, TableOrder, ToSet
    <2> QED
      BY <1>1, <2>1, EmptyCore
  <1>4. Shapes(cl) /\ AckKept(cl, rows, {}, {})
    BY <1>1, <1>2 DEF Shapes, AckKept
  <1>5. Booting("up", q, cl, << >>, rows, createdAt)
    BY DEF Booting
  <1>6. << >> \in Seq(Delivery) /\ << >> \in Seq(DeliveryIDs)
    BY EmptySeq
  <1>7. Types("up", q, cl, << >>, rows, createdAt, earlier)
    BY <1>1, <1>2, <1>6 DEF Types
  <1>8. acked \cup rejected = {}
    BY <1>2
  <1> QED
    BY <1>1, <1>2, <1>3, <1>4, <1>5, <1>7, <1>8 DEF IInv

\* No step violates the invariant.
LEMMA NextInv == IInv /\ [Next]_vars => IInv'
  <1> SUFFICES ASSUME IInv, [Next]_vars PROVE IInv'
    OBVIOUS
  <1>1. ASSUME NEW t \in Calls, NEW id \in DeliveryIDs, Publish(t, id) PROVE IInv'
    BY <1>1, PublishStep
  <1>2. ASSUME NEW t \in Calls, NEW c \in Consumers, BlockingFetch(t, c) PROVE IInv'
    BY <1>2, FetchStep
  <1>3. ASSUME NEW t \in Calls, NEW c \in Consumers, DisconnectConsumer(t, c) PROVE IInv'
    BY <1>3, DisconnectStep
  <1>4. ASSUME NEW t \in Calls, NEW id \in DeliveryIDs, NEW c \in Consumers, Ack(t, id, c)
        PROVE  IInv'
    BY <1>4, AckStep
  <1>5. ASSUME NEW t \in Calls, NEW id \in DeliveryIDs, NEW c \in Consumers, NAck(t, id, c)
        PROVE  IInv'
    BY <1>5, DeadLetterStep, RequeueStep
  <1>6. ASSUME NEW t \in Calls, StatementDone(t) PROVE IInv'
    BY <1>6, StatementDoneStep
  <1>7. ASSUME NEW t \in Calls, StatementFails(t) PROVE IInv'
    BY <1>7, StatementFailsStep
  <1>8. ASSUME NEW t \in Calls, Return(t) PROVE IInv'
    BY <1>8, ReturnStep
  <1>9. ASSUME NEW c \in Consumers, AddConsumer(c) PROVE IInv'
    BY <1>9, AddConsumerStep
  <1>10. CASE Crash
    <2>1. Exit /\ faults' = faults
      BY <1>10 DEF Crash
    <2> QED
      BY <2>1, Parts, ExitStep
  <1>11. CASE StartRestore
    BY <1>11, StartRestoreStep
  <1>12. CASE RestoreDelivery
    BY <1>12, RestoreDeliveryStep
  <1>13. CASE RestoreFails
    <2>1. Exit /\ faults' = faults + 1
      BY <1>13 DEF RestoreFails
    <2>2. faults' \in Nat
      BY <2>1, Parts
    <2> QED
      BY <2>1, <2>2, ExitStep
  <1>14. CASE Serve
    BY <1>14, ServeStep
  <1>15. CASE UNCHANGED vars
    BY <1>15 DEF vars, process, database, bounds, history, IInv
  <1> QED
    BY <1>1, <1>2, <1>3, <1>4, <1>5, <1>6, <1>7, <1>8, <1>9, <1>10, <1>11, <1>12, <1>13,
       <1>14, <1>15 DEF Next

\* The invariant holds in every reachable state.
LEMMA Inductive == Spec => []IInv
  BY InitInv, NextInv, PTL DEF Spec
----------------------------------------------------------------------------
(***************************************************************************)
(* The properties of DeliveryService.                                      *)
(***************************************************************************)
\* The process, its calls and the tables keep their types through every
\* call, failure, crash and restart.
THEOREM ServiceTypes == Spec => []TypeOK
  <1>1. IInv => TypeOK
    <2> SUFFICES ASSUME IInv PROVE TypeOK
      OBVIOUS
    <2>1. /\ boot \in {"down", "restoring", "up"} /\ queue \in QueueType
          /\ call \in CallsType /\ rows \in [DOMAIN rows -> Row]
          /\ deadLetters \subseteq DeliveryIDs
          /\ Core(queue, call, rows, createdAt, confirmed, acked \cup rejected, earlier)
      BY Parts
    <2>2. queue.IsDurable /\ queue.Consumers \subseteq Consumers
      <3>1. queue.IsDurable = NewDurableQueue.IsDurable
        BY <2>1 DEF Queues
      <3>2. NewDurableQueue.IsDurable = TRUE
        BY DEF NewDurableQueue, NewQueue
      <3>3. queue.Consumers \subseteq Consumers
        BY <2>1 DEF Queues
      <3> QED
        BY <3>1, <3>2, <3>3
    <2>3. ReadyIDs \cup InFlightIDs \subseteq DeliveryIDs
      BY <2>1, AttemptsNat DEF ReadyIDs, InFlightIDs
    <2>4. \A t \in Calls : call[t] # NoCall =>
             call[t].op \in {"Publish", "Fetch", "Ack", "NAck", "Disconnect"}
      BY <2>1, CallKinds DEF Ops
    <2>5. DOMAIN rows \subseteq ToSet(createdAt)
      BY <2>1 DEF Core, Stored
    <2> QED
      BY <2>1, <2>2, <2>3, <2>4, <2>5 DEF TypeOK
  <1> QED
    BY <1>1, Inductive, PTL

\* Whatever a consumer can be handed has its row.
THEOREM QueuePersisted == Spec => []MemoryIsPersisted
  <1>1. IInv => MemoryIsPersisted
    <2> SUFFICES ASSUME IInv PROVE MemoryIsPersisted
      OBVIOUS
    <2>1. IDs(queue) \subseteq DOMAIN rows
      BY Parts DEF Core, Stored
    <2> QED
      BY <2>1 DEF MemoryIsPersisted, ReadyIDs, InFlightIDs, IDs, SeqIDs
  <1> QED
    BY <1>1, Inductive, PTL

\* A confirmed message that was neither acked nor given up keeps its row
\* through every failure and crash.
THEOREM ConfirmedKept == Spec => []UnsettledKept
  <1>1. IInv => UnsettledKept
    <2> SUFFICES ASSUME IInv PROVE UnsettledKept
      OBVIOUS
    <2>1. Unlost(rows, createdAt, confirmed, acked \cup rejected)
      BY Parts DEF Core
    <2> QED
      BY <2>1 DEF UnsettledKept, Unlost
  <1> QED
    BY <1>1, Inductive, PTL

\* Once Ack has returned, the delivery is in no table row and in no queue,
\* now and later.
THEOREM AckFinal == Spec => []AckedNeverBack
  <1>1. IInv => AckedNeverBack
    <2> SUFFICES ASSUME IInv PROVE AckedNeverBack
      OBVIOUS
    <2>1. IDs(queue) \subseteq DOMAIN rows
      BY Parts DEF Core, Stored
    <2>2. ackConfirmed \cap DOMAIN rows = {}
      BY Parts DEF AckKept
    <2> QED
      BY <2>1, <2>2 DEF AckedNeverBack, ReadyIDs, InFlightIDs, IDs, SeqIDs
  <1> QED
    BY <1>1, Inductive, PTL

\* The table never charges a delivery with more attempts than the queue,
\* however late MarkInFlight comes.
THEOREM AttemptsFair == Spec => []AttemptsNotOvercounted
  <1>1. IInv => AttemptsNotOvercounted
    <2> SUFFICES ASSUME IInv, NEW id \in ReadyIDs \cup InFlightIDs
                 PROVE  rows[id].attempts <= MemoryAttempts(id)
      BY DEF AttemptsNotOvercounted
    <2>1. IDs(queue) \subseteq DOMAIN rows /\ Counted(queue, rows)
      BY Parts DEF Core, Stored
    <2>2. id \in DOMAIN rows
      BY <2>1 DEF ReadyIDs, InFlightIDs, IDs, SeqIDs
    <2>3. AtLeast(queue, id, rows[id].attempts)
      BY <2>1, <2>2 DEF Counted
    <2>4. CASE id \in InFlightIDs
      BY <2>3, <2>4 DEF AtLeast, MemoryAttempts, InFlightIDs
    <2>5. CASE id \notin InFlightIDs
      <3> DEFINE i == CHOOSE i \in DOMAIN queue.Ready : queue.Ready[i].ID = id
      <3>1. i \in DOMAIN queue.Ready /\ queue.Ready[i].ID = id
        <4>1. \E j \in DOMAIN queue.Ready : queue.Ready[j].ID = id
          BY <2>5 DEF ReadyIDs
        <4> QED
          BY <4>1
      <3>2. MemoryAttempts(id) = queue.Ready[i].Attempts
        BY <2>5 DEF MemoryAttempts
      <3> HIDE DEF i
      <3> QED
        BY <2>3, <3>1, <3>2 DEF AtLeast
    <2> QED
      BY <2>4, <2>5
  <1> QED
    BY <1>1, Inductive, PTL

\* Of two messages never handed out, one whose Publish began after the
\* other's was confirmed is behind it, also after restarts.
THEOREM OrderKept == Spec => []PublishOrderKept
  <1>1. IInv => PublishOrderKept
    <2> SUFFICES ASSUME IInv PROVE PublishOrderKept
      OBVIOUS
    <2>1. QueueOrder(queue, earlier)
      BY Parts DEF Core
    <2> QED
      BY <2>1 DEF PublishOrderKept, QueueOrder
  <1> QED
    BY <1>1, Inductive, PTL

\* A sequence without repeated ids is as long as it has ids.
LEMMA AsLongAsIDs ==
  ASSUME NEW s \in Seq(Delivery), Distinct(s)
  PROVE  Len(s) = Cardinality(SeqIDs(s))
  <1> DEFINE n == Len(s)
             f == [i \in 1..n |-> s[i].ID]
             T == SeqIDs(s)
  <1>1. n \in Nat /\ DOMAIN s = 1..n
    BY LenProperties
  <1>2. f \in [1..n -> T] /\ \A i \in 1..n : f[i] = s[i].ID
    BY <1>1 DEF SeqIDs
  <1>3. \A i, j \in 1..n : f[i] = f[j] => i = j
    BY <1>1, <1>2 DEF Distinct
  <1>4. \A x \in T : \E i \in 1..n : f[i] = x
    BY <1>1, <1>2 DEF SeqIDs
  <1> HIDE DEF n, f, T
  <1>5. f \in Injection(1..n, T) /\ f \in Surjection(1..n, T)
    BY <1>2, <1>3, <1>4 DEF Injection, IsInjective, Surjection
  <1>6. ExistsBijection(1..n, T)
    BY <1>5 DEF ExistsBijection, Bijection
  <1>7. IsFiniteSet(1..n) /\ Cardinality(1..n) = n
    BY <1>1, FS_Interval
  <1>8. Cardinality(T) = n
    BY <1>6, <1>7, FS_Bijection
  <1> QED
    BY <1>8 DEF n, T

\* When the server starts after a restart, even an interrupted one, Ready
\* holds every row of the table once, unowned, with the table's attempts.
THEOREM RestoreComplete == Spec => RestoredExactly
  <1> DEFINE Exact ==
         boot = "restoring" /\ boot' = "up" =>
            /\ ReadyIDs = DOMAIN rows /\ InFlightIDs = {}
            /\ Len(queue.Ready) = Cardinality(DOMAIN rows)
            /\ \A i \in DOMAIN queue.Ready :
                  queue.Ready[i] = [NewDelivery(queue.Ready[i].ID) EXCEPT
                                      !.Attempts = rows[queue.Ready[i].ID].attempts]
  <1>1. IInv /\ [Next]_vars => [Exact]_vars
    <2> SUFFICES ASSUME IInv, Next, boot = "restoring", boot' = "up"
                 PROVE  /\ ReadyIDs = DOMAIN rows /\ InFlightIDs = {}
                        /\ Len(queue.Ready) = Cardinality(DOMAIN rows)
                        /\ \A i \in DOMAIN queue.Ready :
                              queue.Ready[i] = [NewDelivery(queue.Ready[i].ID) EXCEPT
                                                  !.Attempts = rows[queue.Ready[i].ID].attempts]
      OBVIOUS
    <2>1. Serve
      <3>1. ~(\E t \in Calls : call[t] # NoCall)
        BY RunningUp
      <3> QED
        BY <3>1 DEF Next, Publish, BlockingFetch, DisconnectConsumer, Ack, NAck, Begin,
              StatementDone, StatementFails, Return, AddConsumer, Crash, StartRestore,
              RestoreDelivery, RestoreFails, Exit
    <2>2. restore = << >> /\ Restoring(queue, restore, rows, createdAt)
      BY <2>1, Parts DEF Serve, Booting
    <2>3. queue \in QueueType /\ Sound(queue) /\ queue.Ready \in Seq(Delivery)
      BY Parts DEF Queues
    <2>4. SeqIDs(restore) = {}
      BY <2>2 DEF SeqIDs
    <2>5. /\ SeqIDs(queue.Ready) = DOMAIN rows /\ DOMAIN queue.InFlight = {}
          /\ \A i \in DOMAIN queue.Ready :
                rows[queue.Ready[i].ID] = [status |-> "ready", consumer_id |-> NoConsumer,
                                           attempts |-> queue.Ready[i].Attempts]
      BY <2>2, <2>4 DEF Restoring
    <2>6. Len(queue.Ready) = Cardinality(DOMAIN rows)
      BY <2>3, <2>5, AsLongAsIDs DEF Sound
    <2>7. ASSUME NEW i \in DOMAIN queue.Ready
          PROVE  queue.Ready[i] = [NewDelivery(queue.Ready[i].ID) EXCEPT
                                     !.Attempts = rows[queue.Ready[i].ID].attempts]
      <3> DEFINE d == queue.Ready[i]
      <3>1. d \in Delivery
        BY <2>3, ElementOfSeq, LenProperties
      <3>2. d.ConsumerID = NoConsumer /\ rows[d.ID].attempts = d.Attempts
        <4>1. d.ConsumerID = NoConsumer
          BY <2>3 DEF Sound, Free
        <4>2. rows[d.ID] = [status |-> "ready", consumer_id |-> NoConsumer,
                            attempts |-> d.Attempts]
          BY <2>5
        <4> HIDE DEF d
        <4> QED
          BY <4>1, <4>2
      <3> HIDE DEF d
      <3>3. d = [NewDelivery(d.ID) EXCEPT !.Attempts = rows[d.ID].attempts]
        BY <3>1, <3>2 DEF Deliveries, NewDelivery
      <3> QED
        BY <3>3 DEF d
    <2> QED
      BY <2>5, <2>6, <2>7 DEF ReadyIDs, InFlightIDs, SeqIDs
  <1>2. RestoredExactly <=> [][Exact]_vars
    BY DEF RestoredExactly
  <1> HIDE DEF Exact
  <1> QED
    BY <1>1, <1>2, Inductive, PTL DEF Spec
----------------------------------------------------------------------------
(***************************************************************************)
(* QuiescentAgreement of DeliveryService: between calls that come one at a *)
(* time, with no failing statement, the table is the image of the queue.   *)
(* In between it differs only in what the running call still has to write, *)
(* which is the invariant MInv.                                            *)
(***************************************************************************)
\* Table and queue agree on a delivery.
Same(q, tb, id) ==
    /\ id \in DOMAIN tb <=> id \in IDs(q)
    /\ id \in DOMAIN q.InFlight =>
          tb[id] = [status |-> "in_flight", consumer_id |-> q.InFlight[id].ConsumerID,
                    attempts |-> q.InFlight[id].Attempts]
    /\ \A i \in DOMAIN q.Ready : q.Ready[i].ID = id =>
          tb[id] = [status |-> "ready", consumer_id |-> NoConsumer,
                    attempts |-> q.Ready[i].Attempts]

\* The statement, when it comes, makes table and queue agree.
Mends(q, tb, st) ==
    /\ st.name = "MarkReady" =>
          /\ st.id \in SeqIDs(q.Ready)
          /\ \A i \in DOMAIN q.Ready : q.Ready[i].ID = st.id =>
                q.Ready[i].Attempts = tb[st.id].attempts
    /\ st.name = "MarkInFlight" =>
          /\ st.id \in DOMAIN q.InFlight
          /\ q.InFlight[st.id].ConsumerID = st.consumer
          /\ q.InFlight[st.id].Attempts = st.attempts

\* One call at a time, and every delivery agrees or is the one the call is
\* about to write or to enqueue.
Mirror(q, cl, tb) ==
    /\ \A t, u \in Running(cl) : t = u
    /\ \A st \in Pending(cl) : Mends(q, tb, st)
    /\ \A id \in DeliveryIDs :
          \/ Same(q, tb, id)
          \/ \E st \in Pending(cl) :
                /\ st.id = id
                /\ st.name \in {"MarkReady", "MarkInFlight", "DeleteDelivery"}
          \/ \E t \in Saved(cl) :
                /\ cl[t].id = id
                /\ tb[id] = [status |-> "ready", consumer_id |-> NoConsumer, attempts |-> 0]

MInv == boot = "up" /\ serial /\ faults = 0 => Mirror(queue, call, rows)
----------------------------------------------------------------------------
(***************************************************************************)
(* The queue moves: what it does not touch stays as it was.                *)
(***************************************************************************)
Untouched(q, r, id) ==
    /\ id \in IDs(r) <=> id \in IDs(q)
    /\ id \in DOMAIN r.InFlight => id \in DOMAIN q.InFlight /\ r.InFlight[id] = q.InFlight[id]
    /\ \A i \in DOMAIN r.Ready : r.Ready[i].ID = id =>
          \E j \in DOMAIN q.Ready : q.Ready[j].ID = id /\ q.Ready[j].Attempts = r.Ready[i].Attempts

\* What the queue does not touch agrees as it did.
LEMMA UntouchedSame ==
  ASSUME NEW q, NEW r, NEW tb, NEW id, Same(q, tb, id), Untouched(q, r, id)
  PROVE  Same(r, tb, id)
  <1>1. id \in DOMAIN tb <=> id \in IDs(r)
    BY DEF Same, Untouched
  <1>2. id \in DOMAIN r.InFlight =>
           tb[id] = [status |-> "in_flight", consumer_id |-> r.InFlight[id].ConsumerID,
                     attempts |-> r.InFlight[id].Attempts]
    BY DEF Same, Untouched
  <1>3. ASSUME NEW i \in DOMAIN r.Ready, r.Ready[i].ID = id
        PROVE  tb[id] = [status |-> "ready", consumer_id |-> NoConsumer,
                         attempts |-> r.Ready[i].Attempts]
    <2>1. PICK j \in DOMAIN q.Ready :
             q.Ready[j].ID = id /\ q.Ready[j].Attempts = r.Ready[i].Attempts
      BY <1>3 DEF Untouched
    <2>2. tb[id] = [status |-> "ready", consumer_id |-> NoConsumer,
                    attempts |-> q.Ready[j].Attempts]
      BY <2>1 DEF Same
    <2> QED
      BY <2>1, <2>2
  <1> QED
    BY <1>1, <1>2, <1>3 DEF Same

\* FetchOrWait touches the head of Ready.
LEMMA FetchedTouches ==
  ASSUME NEW q \in QueueType, Sound(q), NEW c \in Consumers, q.Ready # << >>,
         NEW id, id # Head(q.Ready).ID
  PROVE  Untouched(q, Fetched(q, c), id)
  <1> DEFINE r == Fetched(q, c)
             h == Head(q.Ready)
  <1>1. /\ h.ID \in SeqIDs(q.Ready)
        /\ r.Ready = Tail(q.Ready)
        /\ SeqIDs(r.Ready) = SeqIDs(q.Ready) \ {h.ID}
        /\ DOMAIN r.InFlight = DOMAIN q.InFlight \cup {h.ID}
        /\ \A x \in DOMAIN q.InFlight : r.InFlight[x] = q.InFlight[x]
    BY FetchedMoves
  <1>2. q.Ready \in Seq(Delivery)
    BY DEF Queues
  <1>3. \A i \in DOMAIN r.Ready : i + 1 \in DOMAIN q.Ready /\ r.Ready[i] = q.Ready[i + 1]
    BY <1>1, <1>2, HeadTailProperties, LenProperties
  <1> HIDE DEF r
  <1>4. id # h.ID
    OBVIOUS
  <1> HIDE DEF h
  <1>5. id \in IDs(r) <=> id \in IDs(q)
    BY <1>1, <1>4 DEF IDs
  <1>6. id \in DOMAIN r.InFlight => id \in DOMAIN q.InFlight /\ r.InFlight[id] = q.InFlight[id]
    BY <1>1, <1>4
  <1>7. \A i \in DOMAIN r.Ready : r.Ready[i].ID = id =>
           \E j \in DOMAIN q.Ready : q.Ready[j].ID = id /\ q.Ready[j].Attempts = r.Ready[i].Attempts
    BY <1>3
  <1> QED
    BY <1>5, <1>6, <1>7 DEF Untouched, r

\* Ack touches its delivery.
LEMMA AckedTouches ==
  ASSUME NEW q \in QueueType, Sound(q), NEW x \in DOMAIN q.InFlight, NEW id, id # x
  PROVE  Untouched(q, Acked(q, x), id)
  <1> DEFINE r == Acked(q, x)
  <1>1. r.Ready = q.Ready /\ Kept(q.InFlight, r.InFlight)
    BY AckedMoves
  <1>2. IDs(r) = IDs(q) \ {x}
    BY AckedSound
  <1> HIDE DEF r
  <1> QED
    BY <1>1, <1>2 DEF Untouched, Kept, r

\* A requeueing Reject and DisconnectConsumer touch what they give back.
LEMMA GivenBackTouches ==
  ASSUME NEW q, NEW r, NEW S, GivenBack(q, r, S), NEW id, id \notin S
  PROVE  Untouched(q, r, id)
  <1>1. id \in IDs(r) <=> id \in IDs(q)
    BY DEF GivenBack, IDs
  <1>2. id \in DOMAIN r.InFlight => id \in DOMAIN q.InFlight /\ r.InFlight[id] = q.InFlight[id]
    BY DEF GivenBack, Kept
  <1>3. \A i \in DOMAIN r.Ready : r.Ready[i].ID = id =>
           i \in DOMAIN q.Ready /\ q.Ready[i] = r.Ready[i]
    BY DEF GivenBack
  <1> QED
    BY <1>1, <1>2, <1>3 DEF Untouched

\* ... and MarkReady is what makes the table agree again.
LEMMA GivenBackMends ==
  ASSUME NEW q, Sound(q), NEW r, NEW S, S \subseteq DOMAIN q.InFlight, GivenBack(q, r, S),
         NEW tb, NEW id \in S, Same(q, tb, id),
         NEW st, st.name = "MarkReady", st.id = id
  PROVE  Mends(r, tb, st)
  <1>1. id \in SeqIDs(r.Ready)
    BY DEF GivenBack
  <1>2. tb[id].attempts = q.InFlight[id].Attempts
    BY DEF Same
  <1>3. ASSUME NEW i \in DOMAIN r.Ready, r.Ready[i].ID = id
        PROVE  r.Ready[i].Attempts = tb[id].attempts
    <2>1. i \notin DOMAIN q.Ready
      <3>1. id \notin SeqIDs(q.Ready)
        BY DEF Sound
      <3> QED
        BY <1>3, <3>1 DEF GivenBack, SeqIDs
    <2> QED
      BY <1>2, <1>3, <2>1 DEF GivenBack
  <1> QED
    BY <1>1, <1>3 DEF Mends

\* EnqueueDelivery touches its delivery.
LEMMA EnqueuedTouches ==
  ASSUME NEW q \in QueueType, NEW d \in Delivery, NEW id, id # d.ID
  PROVE  Untouched(q, Enqueued(q, d), id)
  <1> DEFINE r == Enqueued(q, d)
  <1>1. Behind(q, r, d)
    BY EnqueuedBehind
  <1> HIDE DEF r
  <1>2. id \in IDs(r) <=> id \in IDs(q)
    BY <1>1 DEF Behind, IDs
  <1>3. \A i \in DOMAIN r.Ready : r.Ready[i].ID = id =>
           i \in DOMAIN q.Ready /\ q.Ready[i] = r.Ready[i]
    BY <1>1 DEF Behind
  <1> QED
    BY <1>1, <1>2, <1>3 DEF Untouched, Behind, r
----------------------------------------------------------------------------
(***************************************************************************)
(* The calls.                                                              *)
(***************************************************************************)
AllSame(q, tb) == \A id \in DeliveryIDs : Same(q, tb, id)

\* Without a running call, table and queue agree on everything.
LEMMA MirrorQuiet ==
  ASSUME NEW q, NEW cl \in CallsType, Running(cl) = {}, NEW tb
  PROVE  Mirror(q, cl, tb) <=> AllSame(q, tb)
  <1>1. Pending(cl) = {} /\ Saved(cl) = {}
    <2>1. \A t \in Calls : cl[t].op # "Publish"
      BY CallKinds DEF Running
    <2> QED
      BY <2>1 DEF Pending, Saved
  <1> QED
    BY <1>1 DEF Mirror, AllSame

\* A first call begins: what it touches in the queue it will write.
LEMMA MirrorBegins ==
  ASSUME NEW q, NEW r, NEW tb, AllSame(q, tb), NEW cl, Running(cl) = {},
         NEW t, NEW k, NEW cm, Begun(cl, cm, t, k),
         \A st \in ToSet(k.todo) : Mends(r, tb, st),
         \A id \in DeliveryIDs :
            \/ Untouched(q, r, id)
            \/ \E st \in ToSet(k.todo) :
                  /\ st.id = id
                  /\ st.name \in {"MarkReady", "MarkInFlight", "DeleteDelivery"}
  PROVE  Mirror(r, cm, tb)
  <1>1. Running(cm) = {t} /\ Pending(cm) = ToSet(k.todo)
    <2>1. Pending(cl) = {}
      BY DEF Pending
    <2> QED
      BY <2>1 DEF Begun
  <1>2. \A id \in DeliveryIDs : Untouched(q, r, id) => Same(r, tb, id)
    BY UntouchedSame DEF AllSame
  <1> QED
    BY <1>1, <1>2 DEF Mirror

Written(tb, tc, st) ==
    /\ st.name = "MarkReady" =>
          /\ Rewritten(tb, tc, st.id)
          /\ st.id \in DOMAIN tb =>
                tc[st.id] = [status |-> "ready", consumer_id |-> NoConsumer,
                             attempts |-> tb[st.id].attempts]
    /\ st.name = "MarkInFlight" =>
          /\ Rewritten(tb, tc, st.id)
          /\ st.id \in DOMAIN tb =>
                tc[st.id] = [status |-> "in_flight", consumer_id |-> st.consumer,
                             attempts |-> st.attempts]
    /\ st.name = "DeleteDelivery" => DOMAIN tc = DOMAIN tb \ {st.id} /\ Kept(tb, tc)
    /\ st.name = "SaveDeadLetter" => tc = tb

\* What each statement writes.
LEMMA StatementWrites ==
  ASSUME rows \in [DOMAIN rows -> Row], NEW st \in Statements, Exec(st)
  PROVE  Written(rows, rows', st)
  <1>1. CASE st.name = "MarkInFlight"
    <2> DEFINE row == [status |-> "in_flight", consumer_id |-> st.consumer,
                       attempts |-> st.attempts]
    <2>1. rows' = Updated(rows, st.id, row)
      BY <1>1 DEF Exec, MarkInFlight
    <2>2. row \in Row
      BY <1>1 DEF Statements, Row
    <2> HIDE DEF row
    <2>3. Rewritten(rows, rows', st.id) /\ (st.id \in DOMAIN rows => rows'[st.id] = row)
      BY <2>1, <2>2, UpdatedTable
    <2> QED
      BY <1>1, <2>3 DEF Written, row
  <1>2. CASE st.name = "MarkReady"
    <2>1. rows' = MarkReady(rows, st.id)
      BY <1>2 DEF Exec
    <2>2. /\ Rewritten(rows, rows', st.id)
          /\ st.id \in DOMAIN rows =>
                rows'[st.id] = [status |-> "ready", consumer_id |-> NoConsumer,
                                attempts |-> rows[st.id].attempts]
      BY <2>1, MarkReadyTable
    <2> QED
      BY <1>2, <2>2 DEF Written
  <1>3. CASE st.name = "DeleteDelivery"
    <2>1. rows' = Delete(rows, {st.id})
      BY <1>3 DEF Exec, DeleteDelivery
    <2> QED
      BY <1>3, <2>1, DeleteKeeps DEF Written
  <1>4. CASE st.name = "SaveDeadLetter"
    BY <1>4 DEF Exec, Written
  <1>5. CASE st.name = "SaveReadyDelivery"
    BY <1>5 DEF Written
  <1> QED
    BY <1>1, <1>2, <1>3, <1>4, <1>5 DEF Statements

\* A statement that mends does mend.
LEMMA Mended ==
  ASSUME NEW q, Sound(q), NEW tb, IDs(q) \subseteq DOMAIN tb, NEW st, Mends(q, tb, st),
         st.name = "DeleteDelivery" => st.id \notin IDs(q),
         st.name \in {"MarkReady", "MarkInFlight", "DeleteDelivery"},
         NEW tc, Written(tb, tc, st)
  PROVE  Same(q, tc, st.id)
  <1> DEFINE id == st.id
  <1>1. CASE st.name = "MarkReady"
    <2>1. id \in SeqIDs(q.Ready)
      BY <1>1 DEF Mends
    <2>2. id \in IDs(q) /\ id \in DOMAIN tb /\ id \notin DOMAIN q.InFlight
      BY <2>1 DEF IDs, Sound
    <2>3. id \in DOMAIN tc /\ tc[id] = [status |-> "ready", consumer_id |-> NoConsumer,
                                        attempts |-> tb[id].attempts]
      BY <1>1, <2>2 DEF Written, Rewritten
    <2>4. \A i \in DOMAIN q.Ready : q.Ready[i].ID = id => q.Ready[i].Attempts = tb[id].attempts
      BY <1>1 DEF Mends
    <2> QED
      BY <2>2, <2>3, <2>4 DEF Same
  <1>2. CASE st.name = "MarkInFlight"
    <2>1. /\ id \in DOMAIN q.InFlight
          /\ q.InFlight[id].ConsumerID = st.consumer /\ q.InFlight[id].Attempts = st.attempts
      BY <1>2 DEF Mends
    <2>2. id \in IDs(q) /\ id \in DOMAIN tb /\ id \notin SeqIDs(q.Ready)
      BY <2>1 DEF IDs, Sound
    <2>3. id \in DOMAIN tc /\ tc[id] = [status |-> "in_flight", consumer_id |-> st.consumer,
                                        attempts |-> st.attempts]
      BY <1>2, <2>2 DEF Written, Rewritten
    <2>4. \A i \in DOMAIN q.Ready : q.Ready[i].ID # id
      BY <2>2 DEF SeqIDs
    <2> QED
      BY <2>1, <2>2, <2>3, <2>4 DEF Same
  <1>3. CASE st.name = "DeleteDelivery"
    <2>1. id \notin IDs(q) /\ id \notin DOMAIN tc
      BY <1>3 DEF Written
    <2> QED
      BY <2>1 DEF Same, IDs, SeqIDs
  <1> QED
    BY <1>1, <1>2, <1>3

\* The same row agrees as before.
LEMMA SameRow ==
  ASSUME NEW q, NEW tb, NEW id, Same(q, tb, id), NEW tc,
         id \in DOMAIN tc <=> id \in DOMAIN tb, id \in DOMAIN tb => tc[id] = tb[id]
  PROVE  Same(q, tc, id)
  <1>1. id \in IDs(q) => id \in DOMAIN tb
    BY DEF Same
  <1>2. id \in DOMAIN q.InFlight => tc[id] = tb[id]
    BY <1>1 DEF IDs
  <1>3. \A i \in DOMAIN q.Ready : q.Ready[i].ID = id => tc[id] = tb[id]
    BY <1>1 DEF IDs, SeqIDs
  <1> QED
    BY <1>2, <1>3 DEF Same

\* The one running call has a statement left: no Publish is between its
\* INSERT and EnqueueDelivery.
LEMMA NoneSaved ==
  ASSUME NEW q, NEW cl \in CallsType, NEW tb, Mirror(q, cl, tb),
         NEW t \in Running(cl), cl[t].todo # << >> \/ cl[t].op # "Publish"
  PROVE  Saved(cl) = {}
  <1> SUFFICES ASSUME NEW u \in Saved(cl) PROVE FALSE
    OBVIOUS
  <1>1. u \in Calls /\ cl[u].op = "Publish" /\ cl[u].todo = << >>
    BY DEF Saved
  <1>2. u \in Running(cl)
    BY <1>1 DEF Running, NoCall
  <1>3. u = t
    BY <1>2 DEF Mirror
  <1> QED
    BY <1>1, <1>3

\* A statement other than SaveReadyDelivery is executed.
LEMMA MirrorStatement ==
  ASSUME NEW q, Sound(q), NEW cl \in CallsType, Shapes(cl),
         NEW tb, NEW ca, NEW cf, NEW dn, NEW ea, Core(q, cl, tb, ca, cf, dn, ea),
         Mirror(q, cl, tb),
         NEW t \in Running(cl), cl[t].todo # << >>, cl[t].op # "Publish",
         NEW tc, Written(tb, tc, Head(cl[t].todo)),
         NEW cm, GoneOn(cl, cm, t)
  PROVE  Mirror(q, cm, tc)
  <1> DEFINE st == Head(cl[t].todo)
             Mending == {"MarkReady", "MarkInFlight", "DeleteDelivery"}
  <1>1. st \in Statements /\ st \in Pending(cl) /\ st.name # "SaveReadyDelivery"
    BY NextStatement
  <1>2. /\ Running(cm) = Running(cl) /\ Pending(cm) \subseteq Pending(cl)
        /\ \A s \in Pending(cl) : s = st \/ s \in Pending(cm)
    BY DEF GoneOn
  <1>3. st.name \in Mending \cup {"SaveDeadLetter"}
    BY <1>1 DEF Statements
  <1>4. Written(tb, tc, st)
    OBVIOUS
  <1> HIDE DEF st
  <1>5. /\ IDs(q) \subseteq DOMAIN tb
        /\ st.name = "DeleteDelivery" => st.id \notin IDs(q)
    BY <1>1 DEF Core, Stored, Outstanding
  <1>6. st.name \in Mending => Same(q, tc, st.id)
    <2>1. Mends(q, tb, st)
      BY <1>1 DEF Mirror
    <2> QED
      BY <1>4, <1>5, <2>1, Mended
  <1>7. \A x : x # st.id => /\ x \in DOMAIN tc <=> x \in DOMAIN tb
                            /\ x \in DOMAIN tb => tc[x] = tb[x]
    BY <1>3, <1>4 DEF Written, Rewritten, Kept
  <1>8. st.name = "SaveDeadLetter" => tc = tb
    BY <1>4 DEF Written
  <1>9. ASSUME NEW s \in Pending(cm) PROVE Mends(q, tc, s)
    <2>1. Mends(q, tb, s)
      BY <1>2 DEF Mirror
    <2>2. CASE s.id # st.id
      <3>1. s.id \in IDs(q) => tc[s.id] = tb[s.id]
        BY <1>5, <1>7, <2>2
      <3> QED
        BY <2>1, <3>1 DEF Mends, IDs
    <2>3. CASE s.id = st.id /\ st.name \in Mending
      <3>1. Same(q, tc, s.id)
        BY <1>6, <2>3
      <3>2. \A i \in DOMAIN q.Ready : q.Ready[i].ID = s.id =>
               q.Ready[i].Attempts = tc[s.id].attempts
        <4> TAKE i \in DOMAIN q.Ready
        <4> HAVE q.Ready[i].ID = s.id
        <4>1. tc[s.id] = [status |-> "ready", consumer_id |-> NoConsumer,
                          attempts |-> q.Ready[i].Attempts]
          BY <3>1 DEF Same
        <4> QED
          BY <4>1
      <3> QED
        BY <2>1, <3>2 DEF Mends
    <2>4. CASE st.name = "SaveDeadLetter"
      BY <1>8, <2>1, <2>4
    <2> QED
      BY <1>3, <2>2, <2>3, <2>4
  <1>10. Saved(cl) = {}
    BY NoneSaved
  <1>11. ASSUME NEW id \in DeliveryIDs
         PROVE  \/ Same(q, tc, id)
                \/ \E s \in Pending(cm) : s.id = id /\ s.name \in Mending
    <2>1. CASE id = st.id /\ st.name \in Mending
      BY <1>6, <2>1
    <2>2. CASE id # st.id \/ st.name = "SaveDeadLetter"
      <3>1. /\ id \in DOMAIN tc <=> id \in DOMAIN tb
            /\ id \in DOMAIN tb => tc[id] = tb[id]
        BY <1>7, <1>8, <2>2
      <3>2. CASE Same(q, tb, id)
        BY <3>1, <3>2, SameRow
      <3>3. CASE \E s \in Pending(cl) : s.id = id /\ s.name \in Mending
        BY <1>2, <2>2, <3>3
      <3> QED
        BY <1>10, <3>2, <3>3 DEF Mirror
    <2> QED
      BY <1>3, <2>1, <2>2
  <1> QED
    BY <1>2, <1>9, <1>11 DEF Mirror

\* SaveReadyDelivery is executed.
LEMMA MirrorSave ==
  ASSUME NEW q, NEW cl \in CallsType, Shapes(cl),
         NEW tb, Mirror(q, cl, tb),
         NEW t \in Running(cl), cl[t].todo # << >>, cl[t].op = "Publish",
         NEW tc, tc = SaveReadyDelivery(tb, cl[t].id),
         NEW cm, GoneOn(cl, cm, t)
  PROVE  Mirror(q, cm, tc)
  <1> DEFINE id == cl[t].id
             row == [status |-> "ready", consumer_id |-> NoConsumer, attempts |-> 0]
  <1>1. Saved(cl) = {}
    BY NoneSaved
  <1>2. t \in Calls /\ Tail(cl[t].todo) = << >>
        /\ Head(cl[t].todo) = Statement("SaveReadyDelivery", id)
    BY NextStatement
  <1>3. /\ cm[t].op = "Publish" /\ cm[t].id = id /\ cm[t].todo = << >>
        /\ Running(cm) = Running(cl)
        /\ \A u \in Calls \ {t} : cm[u] = cl[u]
    BY <1>2 DEF GoneOn
  <1>4. \A u \in Running(cl) : u = t
    BY DEF Mirror
  <1>5. Pending(cm) = {}
    BY <1>3, <1>4 DEF Pending, ToSet
  <1>6. \A s \in Pending(cl) : s.name = "SaveReadyDelivery"
    <2>1. cl[t].todo = << Statement("SaveReadyDelivery", id) >>
      BY DEF Shapes
    <2>2. ToSet(cl[t].todo) = {Statement("SaveReadyDelivery", id)}
      BY <2>1 DEF ToSet
    <2> QED
      BY <1>4, <2>2 DEF Pending, Statement
  <1>7. t \in Saved(cm)
    BY <1>2, <1>3 DEF Saved
  <1>8. /\ DOMAIN tc = DOMAIN tb \cup {id} /\ tc[id] = row
        /\ \A x \in DOMAIN tb \ {id} : tc[x] = tb[x]
    BY DEF SaveReadyDelivery, Put
  <1> HIDE DEF id, row
  <1>9. ASSUME NEW x \in DeliveryIDs, x # id PROVE Same(q, tc, x)
    <2>1. Same(q, tb, x)
      BY <1>1, <1>6 DEF Mirror
    <2> QED
      BY <1>8, <1>9, <2>1, SameRow
  <1>10. \A x \in DeliveryIDs :
            \/ Same(q, tc, x)
            \/ \E u \in Saved(cm) : cm[u].id = x /\ tc[x] = row
    BY <1>3, <1>7, <1>8, <1>9
  <1> QED
    BY <1>3, <1>4, <1>5, <1>10 DEF Mirror, row

\* The running call returns.
LEMMA MirrorReturns ==
  ASSUME NEW q \in QueueType, NEW cl \in CallsType,
         NEW tb, NEW ca, NEW cf, NEW dn, NEW ea, Core(q, cl, tb, ca, cf, dn, ea),
         Mirror(q, cl, tb), NEW t \in Running(cl), cl[t].todo = << >>,
         NEW cm, Ended(cl, cm, t),
         NEW r, r = IF cl[t].op = "Publish" THEN Enqueued(q, NewDelivery(cl[t].id)) ELSE q,
         cl[t].op = "Publish" => cl[t].id \in DeliveryIDs
  PROVE  Mirror(r, cm, tb)
  <1> DEFINE id == cl[t].id
             row == [status |-> "ready", consumer_id |-> NoConsumer, attempts |-> 0]
  <1>1. \A u \in Running(cl) : u = t
    BY DEF Mirror
  <1>2. cm \in CallsType /\ Running(cm) = {}
    BY <1>1 DEF Ended
  <1>3. Pending(cl) = {}
    BY <1>1 DEF Pending, ToSet
  <1>4. AllSame(r, tb)
    <2>1. CASE cl[t].op # "Publish"
      <3>1. Saved(cl) = {}
        BY <2>1, NoneSaved
      <3> QED
        BY <1>3, <2>1, <3>1 DEF Mirror, AllSame
    <2>2. CASE cl[t].op = "Publish"
      <3> DEFINE d == NewDelivery(id)
      <3>1. d \in Delivery /\ d.ID = id /\ d.Attempts = 0
        BY <2>2 DEF NewDelivery, Deliveries
      <3>2. t \in Saved(cl)
        BY <2>2 DEF Saved, Running
      <3>3. \A u \in Saved(cl) : u = t
        <4>1. Saved(cl) \subseteq Running(cl)
          BY DEF Saved, Running, NoCall
        <4> QED
          BY <1>1, <4>1
      <3>4. id \in DOMAIN tb /\ id \notin IDs(q)
        BY <3>2 DEF Core, Publishing
      <3>5. ~Same(q, tb, id)
        BY <3>4 DEF Same
      <3>6. tb[id] = row
        BY <1>3, <2>2, <3>3, <3>5 DEF Mirror
      <3>7. r = Enqueued(q, d)
        BY <2>2
      <3>8. Behind(q, Enqueued(q, d), d)
        BY <3>1, EnqueuedBehind
      <3>9. Behind(q, r, d)
        BY <3>7, <3>8
      <3> HIDE DEF d, id, row
      <3>10. Same(r, tb, id)
        <4>1. id \in IDs(r) /\ id \notin DOMAIN r.InFlight
          BY <3>1, <3>4, <3>9 DEF Behind, IDs
        <4>2. \A i \in DOMAIN r.Ready : r.Ready[i].ID = id => r.Ready[i].Attempts = 0
          <5>1. \A i \in DOMAIN q.Ready : q.Ready[i].ID # id
            BY <3>4 DEF IDs, SeqIDs
          <5> QED
            BY <3>1, <3>9, <5>1 DEF Behind
        <4> QED
          BY <3>4, <3>6, <4>1, <4>2 DEF Same, row
      <3>11. ASSUME NEW x \in DeliveryIDs, x # id PROVE Same(r, tb, x)
        <4>1. Same(q, tb, x)
          BY <1>3, <3>3, <3>11 DEF Mirror, id
        <4>2. Untouched(q, Enqueued(q, d), x)
          BY <3>1, <3>11, EnqueuedTouches
        <4> QED
          BY <3>7, <4>1, <4>2, UntouchedSame
      <3> QED
        BY <3>10, <3>11 DEF AllSame
    <2> QED
      BY <2>1, <2>2
  <1> QED
    BY <1>2, <1>4, MirrorQuiet
----------------------------------------------------------------------------
(***************************************************************************)
(* The actions.  A call that begins while another runs ends serial, and a  *)
(* failing statement ends faults = 0: neither has anything to preserve.    *)
(***************************************************************************)
\* A call begins with nothing else running, and the queue becomes r.
LEMMA BeginMirror ==
  ASSUME IInv, MInv, boot = "up", NEW t \in Calls, call[t] = NoCall, NEW k \in CallType,
         call' = [call EXCEPT ![t] = k], rows' = rows, faults' = faults,
         serial' = (serial /\ \A u \in Calls : call[u] = NoCall),
         AllSame(queue, rows) =>
            /\ \A st \in ToSet(k.todo) : Mends(queue', rows, st)
            /\ \A id \in DeliveryIDs :
                  \/ Untouched(queue, queue', id)
                  \/ \E st \in ToSet(k.todo) :
                        /\ st.id = id
                        /\ st.name \in {"MarkReady", "MarkInFlight", "DeleteDelivery"}
  PROVE  MInv'
  <1> SUFFICES ASSUME serial', faults' = 0 PROVE Mirror(queue', call', rows')
    BY DEF MInv
  <1>1. serial /\ \A u \in Calls : call[u] = NoCall
    OBVIOUS
  <1>2. Running(call) = {}
    BY <1>1 DEF Running
  <1>3. call \in CallsType
    BY Parts
  <1>4. AllSame(queue, rows)
    BY <1>1, <1>2, <1>3, MirrorQuiet DEF MInv
  <1>5. Begun(call, call', t, k)
    BY <1>3, CallBegun
  <1>6. Mirror(queue', call', rows)
    BY <1>2, <1>4, <1>5, MirrorBegins
  <1> QED
    BY <1>6

\* Publish.
LEMMA PublishMirror ==
  ASSUME IInv, MInv, NEW t \in Calls, NEW id \in DeliveryIDs, Publish(t, id)
  PROVE  MInv'
  <1> DEFINE st == Statement("SaveReadyDelivery", id)
             k == [op |-> "Publish", id |-> id, consumer |-> NoConsumer, todo |-> << st >>]
  <1>1. /\ boot = "up" /\ call[t] = NoCall /\ call' = [call EXCEPT ![t] = k]
        /\ queue' = queue /\ rows' = rows /\ faults' = faults
        /\ serial' = (serial /\ \A u \in Calls : call[u] = NoCall)
    BY DEF Publish, Begin, database, bounds
  <1>2. st \in Statements /\ st.name = "SaveReadyDelivery"
    BY PlainStatement
  <1>3. k \in CallType /\ ToSet(k.todo) = {st}
    <2>1. << st >> \in Seq(Statements) /\ ToSet(<< st >>) = {st}
      BY <1>2, FewStatements
    <2> DEFINE td == << st >>
    <2>2. k = [op |-> "Publish", id |-> id, consumer |-> NoConsumer, todo |-> td]
      OBVIOUS
    <2> HIDE DEF st, td, k
    <2>3. k \in CallType /\ k.todo = td
      BY <2>1, <2>2 DEF CallType, Ops, td
    <2> QED
      BY <2>1, <2>3 DEF td
  <1> HIDE DEF st, k
  <1>4. \A s \in ToSet(k.todo) : Mends(queue', rows, s)
    BY <1>2, <1>3 DEF Mends
  <1>5. \A x \in DeliveryIDs : Untouched(queue, queue', x)
    BY <1>1 DEF Untouched
  <1> QED
    BY <1>1, <1>3, <1>4, <1>5, BeginMirror

\* BlockingFetch.
LEMMA FetchMirror ==
  ASSUME IInv, MInv, NEW t \in Calls, NEW c \in Consumers, BlockingFetch(t, c)
  PROVE  MInv'
  <1> DEFINE d == FetchedDelivery(queue, c)
             r == Fetched(queue, c)
             h == Head(queue.Ready)
             st == [name |-> "MarkInFlight", id |-> d.ID, consumer |-> c, attempts |-> d.Attempts]
             k == [op |-> "Fetch", id |-> d.ID, consumer |-> c, todo |-> << st >>]
  <1>1. /\ boot = "up" /\ call[t] = NoCall /\ call' = [call EXCEPT ![t] = k]
        /\ queue.Ready # << >> /\ h.Attempts < AttemptBound
        /\ queue' = r /\ rows' = rows /\ faults' = faults
        /\ serial' = (serial /\ \A u \in Calls : call[u] = NoCall)
    BY DEF BlockingFetch, Begin, database, bounds
  <1>2. queue \in QueueType /\ Sound(queue)
    BY Parts
  <1>3. d \in Delivery /\ d.ID = h.ID /\ d.Attempts = h.Attempts + 1
    BY <1>1, <1>2, FetchedFields
  <1>4. /\ h \in Delivery
        /\ DOMAIN r.InFlight = DOMAIN queue.InFlight \cup {h.ID}
        /\ r.InFlight[h.ID].ConsumerID = c
        /\ r.InFlight[h.ID].Attempts = h.Attempts + 1
    BY <1>1, <1>2, FetchedMoves
  <1>5. \A x \in DeliveryIDs : x # h.ID => Untouched(queue, r, x)
    BY <1>1, <1>2, FetchedTouches
  <1> HIDE DEF d, r, h
  <1>6. st \in Statements /\ d.ID \in DeliveryIDs
    <2>1. d.ID \in DeliveryIDs /\ d.Attempts \in 0..AttemptBound
      BY <1>1, <1>3, <1>4, ServiceAssumption DEF Deliveries
    <2> QED
      BY <2>1 DEF Statements
  <1>7. /\ st.name = "MarkInFlight" /\ st.id = h.ID
        /\ st.consumer = c /\ st.attempts = h.Attempts + 1
    BY <1>3
  <1>8. k \in CallType /\ ToSet(k.todo) = {st}
    <2>1. << st >> \in Seq(Statements) /\ ToSet(<< st >>) = {st}
      BY <1>6, FewStatements
    <2> DEFINE td == << st >>
    <2>2. k = [op |-> "Fetch", id |-> d.ID, consumer |-> c, todo |-> td]
      OBVIOUS
    <2> HIDE DEF st, td, k
    <2>3. k \in CallType /\ k.todo = td
      BY <1>6, <2>1, <2>2 DEF CallType, Ops, td
    <2> QED
      BY <2>1, <2>3 DEF td
  <1> HIDE DEF st, k
  <1>9. Mends(r, rows, st)
    BY <1>4, <1>7 DEF Mends
  <1>10. /\ \A s \in ToSet(k.todo) : Mends(queue', rows, s)
         /\ \A x \in DeliveryIDs :
               \/ Untouched(queue, queue', x)
               \/ \E s \in ToSet(k.todo) :
                     /\ s.id = x
                     /\ s.name \in {"MarkReady", "MarkInFlight", "DeleteDelivery"}
    BY <1>1, <1>5, <1>7, <1>8, <1>9
  <1> QED
    BY <1>1, <1>8, <1>10, BeginMirror

\* Ack, and NAck when it dead-letters: the delivery leaves the queue and a
\* DeleteDelivery follows.
LEMMA SettledMirror ==
  ASSUME IInv, MInv, boot = "up", NEW t \in Calls, call[t] = NoCall, NEW k \in CallType,
         call' = [call EXCEPT ![t] = k], rows' = rows, faults' = faults,
         serial' = (serial /\ \A u \in Calls : call[u] = NoCall),
         NEW id \in DOMAIN queue.InFlight, queue' = Acked(queue, id),
         Statement("DeleteDelivery", id) \in ToSet(k.todo),
         \A st \in ToSet(k.todo) : st.name \in {"DeleteDelivery", "SaveDeadLetter"}
  PROVE  MInv'
  <1>1. queue \in QueueType /\ Sound(queue)
    BY Parts
  <1>2. \A x \in DeliveryIDs : x # id => Untouched(queue, queue', x)
    BY <1>1, AckedTouches
  <1>3. \A st \in ToSet(k.todo) : Mends(queue', rows, st)
    BY DEF Mends
  <1> DEFINE st == Statement("DeleteDelivery", id)
  <1>4. st \in ToSet(k.todo) /\ st.id = id /\ st.name = "DeleteDelivery"
    BY DEF Statement
  <1> HIDE DEF st
  <1>5. \A x \in DeliveryIDs :
           \/ Untouched(queue, queue', x)
           \/ \E s \in ToSet(k.todo) :
                 /\ s.id = x
                 /\ s.name \in {"MarkReady", "MarkInFlight", "DeleteDelivery"}
    BY <1>2, <1>4
  <1> QED
    BY <1>3, <1>5, BeginMirror

\* Ack.
LEMMA AckMirror ==
  ASSUME IInv, MInv, NEW t \in Calls, NEW id \in DeliveryIDs, NEW c \in Consumers, Ack(t, id, c)
  PROVE  MInv'
  <1> DEFINE st == Statement("DeleteDelivery", id)
             k == [op |-> "Ack", id |-> id, consumer |-> c, todo |-> << st >>]
  <1>1. /\ boot = "up" /\ call[t] = NoCall /\ call' = [call EXCEPT ![t] = k]
        /\ id \in DOMAIN queue.InFlight
        /\ queue' = Acked(queue, id) /\ rows' = rows /\ faults' = faults
        /\ serial' = (serial /\ \A u \in Calls : call[u] = NoCall)
    BY DEF Ack, Holds, Begin, database, bounds
  <1>2. st \in Statements /\ st.name = "DeleteDelivery"
    BY PlainStatement
  <1>3. k \in CallType /\ ToSet(k.todo) = {st}
    <2>1. << st >> \in Seq(Statements) /\ ToSet(<< st >>) = {st}
      BY <1>2, FewStatements
    <2> DEFINE td == << st >>
    <2>2. k = [op |-> "Ack", id |-> id, consumer |-> c, todo |-> td]
      OBVIOUS
    <2> HIDE DEF st, td, k
    <2>3. k \in CallType /\ k.todo = td
      BY <2>1, <2>2 DEF CallType, Ops, td
    <2> QED
      BY <2>1, <2>3 DEF td
  <1> HIDE DEF k
  <1>4. /\ Statement("DeleteDelivery", id) \in ToSet(k.todo)
        /\ \A s \in ToSet(k.todo) : s.name \in {"DeleteDelivery", "SaveDeadLetter"}
    BY <1>2, <1>3
  <1> QED
    BY <1>1, <1>3, <1>4, SettledMirror

\* NAck.
LEMMA NAckMirror ==
  ASSUME IInv, MInv, NEW t \in Calls, NEW id \in DeliveryIDs, NEW c \in Consumers, NAck(t, id, c)
  PROVE  MInv'
  <1>1. CASE ShouldDeadLetter(queue, queue.InFlight[id])
    <2> DEFINE a == Statement("DeleteDelivery", id)
               b == Statement("SaveDeadLetter", id)
               k == [op |-> "NAck", id |-> id, consumer |-> c, todo |-> << a, b >>]
    <2>1. /\ boot = "up" /\ call[t] = NoCall /\ call' = [call EXCEPT ![t] = k]
          /\ id \in DOMAIN queue.InFlight
          /\ queue' = Acked(queue, id) /\ rows' = rows /\ faults' = faults
          /\ serial' = (serial /\ \A u \in Calls : call[u] = NoCall)
      BY <1>1 DEF NAck, Holds, Begin, DeadLettering, Rejected, database, bounds
    <2>2. /\ a \in Statements /\ a.name = "DeleteDelivery"
          /\ b \in Statements /\ b.name = "SaveDeadLetter"
      BY PlainStatement
    <2>3. k \in CallType /\ ToSet(k.todo) = {a, b}
      <3>1. << a, b >> \in Seq(Statements) /\ ToSet(<< a, b >>) = {a, b}
        BY <2>2, FewStatements
      <3> DEFINE td == << a, b >>
      <3>2. k = [op |-> "NAck", id |-> id, consumer |-> c, todo |-> td]
        OBVIOUS
      <3> HIDE DEF a, b, td, k
      <3>3. k \in CallType /\ k.todo = td
        BY <3>1, <3>2 DEF CallType, Ops, td
      <3> QED
        BY <3>1, <3>3 DEF td
    <2> HIDE DEF k
    <2>4. /\ Statement("DeleteDelivery", id) \in ToSet(k.todo)
          /\ \A s \in ToSet(k.todo) : s.name \in {"DeleteDelivery", "SaveDeadLetter"}
      BY <2>2, <2>3
    <2> QED
      BY <2>1, <2>3, <2>4, SettledMirror
  <1>2. CASE ~ShouldDeadLetter(queue, queue.InFlight[id])
    <2> DEFINE st == Statement("MarkReady", id)
               r == Rejected(queue, id)
               k == [op |-> "NAck", id |-> id, consumer |-> c, todo |-> << st >>]
    <2>1. /\ boot = "up" /\ call[t] = NoCall /\ call' = [call EXCEPT ![t] = k]
          /\ id \in DOMAIN queue.InFlight
          /\ queue' = r /\ rows' = rows /\ faults' = faults
          /\ serial' = (serial /\ \A u \in Calls : call[u] = NoCall)
      BY <1>2 DEF NAck, Holds, Begin, database, bounds
    <2>2. queue \in QueueType /\ Sound(queue)
      BY Parts
    <2>3. GivenBack(queue, r, {id})
      BY <1>2, <2>1, <2>2, RejectedGivesBack
    <2> HIDE DEF r
    <2>4. st \in Statements /\ st.name = "MarkReady" /\ st.id = id
      BY PlainStatement
    <2>5. k \in CallType /\ ToSet(k.todo) = {st}
      <3>1. << st >> \in Seq(Statements) /\ ToSet(<< st >>) = {st}
        BY <2>4, FewStatements
      <3> DEFINE td == << st >>
      <3>2. k = [op |-> "NAck", id |-> id, consumer |-> c, todo |-> td]
        OBVIOUS
      <3> HIDE DEF st, td, k
      <3>3. k \in CallType /\ k.todo = td
        BY <3>1, <3>2 DEF CallType, Ops, td
      <3> QED
        BY <3>1, <3>3 DEF td
    <2> HIDE DEF k, st
    <2>6. AllSame(queue, rows) => Mends(r, rows, st)
      <3> SUFFICES ASSUME AllSame(queue, rows) PROVE Mends(r, rows, st)
        OBVIOUS
      <3>1. Same(queue, rows, id)
        BY DEF AllSame
      <3>2. {id} \subseteq DOMAIN queue.InFlight /\ id \in {id}
        BY <2>1
      <3> QED
        BY <2>2, <2>3, <2>4, <3>1, <3>2, GivenBackMends
    <2>7. \A x \in DeliveryIDs : x # id => Untouched(queue, r, x)
      BY <2>3, GivenBackTouches
    <2>8. AllSame(queue, rows) =>
             /\ \A s \in ToSet(k.todo) : Mends(queue', rows, s)
             /\ \A x \in DeliveryIDs :
                   \/ Untouched(queue, queue', x)
                   \/ \E s \in ToSet(k.todo) :
                         /\ s.id = x
                         /\ s.name \in {"MarkReady", "MarkInFlight", "DeleteDelivery"}
      BY <2>1, <2>4, <2>5, <2>6, <2>7
    <2> QED
      BY <2>1, <2>5, <2>8, BeginMirror
  <1> QED
    BY <1>1, <1>2

\* DisconnectConsumer.
LEMMA DisconnectMirror ==
  ASSUME IInv, MInv, NEW t \in Calls, NEW c \in Consumers, DisconnectConsumer(t, c)
  PROVE  MInv'
  <1>0. PICK order \in ReturnOrders(queue, c) :
           /\ Begin(t, "Disconnect", NoConsumer, c,
                    [i \in DOMAIN order |-> Statement("MarkReady", order[i])])
           /\ queue' = Disconnected(queue, c, order)
    BY DEF DisconnectConsumer
  <1> DEFINE r == Disconnected(queue, c, order)
             S == InFlightOf(queue, c)
             td == [i \in DOMAIN order |-> Statement("MarkReady", order[i])]
             k == [op |-> "Disconnect", id |-> NoConsumer, consumer |-> c, todo |-> td]
  <1>1. /\ boot = "up" /\ call[t] = NoCall /\ call' = [call EXCEPT ![t] = k]
        /\ queue' = r /\ rows' = rows /\ faults' = faults
        /\ serial' = (serial /\ \A u \in Calls : call[u] = NoCall)
    BY <1>0 DEF DisconnectConsumer, Begin, database, bounds
  <1>2. queue \in QueueType /\ Sound(queue)
    BY Parts
  <1>3. GivenBack(queue, r, S)
    BY <1>2, DisconnectedGivesBack, ServiceAssumption
  <1>4. /\ order \in Seq(S) /\ S \subseteq DOMAIN queue.InFlight
        /\ \A x \in S : \E i \in DOMAIN order : order[i] = x
    <2>1. IsFiniteSet(S)
      BY <1>2, InFlightFinite, ServiceAssumption
    <2>2. order \in Seq(S) /\ \A x \in S : \E i \in DOMAIN order : order[i] = x
      BY <2>1, Enumeration DEF ReturnOrders
    <2> QED
      BY <2>2 DEF InFlightOf
  <1> HIDE DEF r, S
  <1>5. /\ DOMAIN order = 1..Len(order) /\ Len(order) \in Nat
        /\ \A i \in DOMAIN order : order[i] \in S
    BY <1>4, LenProperties, ElementOfSeq
  <1>6. \A i \in DOMAIN td : /\ td[i] \in Statements /\ td[i].name = "MarkReady"
                             /\ td[i].id = order[i]
    <2> TAKE i \in DOMAIN td
    <2>1. td[i] = Statement("MarkReady", order[i]) /\ order[i] \in DOMAIN queue.InFlight
      BY <1>4, <1>5
    <2>2. order[i] \in DeliveryIDs
      BY <1>2, <2>1, AttemptsNat
    <2> QED
      BY <2>1, <2>2, PlainStatement
  <1>7. td \in Seq(Statements) /\ DOMAIN td = DOMAIN order
    <2>1. td \in [1..Len(order) -> Statements]
      BY <1>5, <1>6
    <2> QED
      BY <1>5, <2>1
  <1> HIDE DEF td
  <1>8. k \in CallType /\ k.todo = td
    BY <1>7 DEF CallType, Ops
  <1> HIDE DEF k
  <1>9. \A s \in ToSet(k.todo) : s.name = "MarkReady" /\ s.id \in S
    BY <1>5, <1>6, <1>7, <1>8 DEF ToSet
  <1>10. \A x \in S : \E s \in ToSet(k.todo) : s.id = x
    <2> TAKE x \in S
    <2>1. PICK i \in DOMAIN order : order[i] = x
      BY <1>4
    <2>2. td[i] \in ToSet(k.todo) /\ td[i].id = x
      BY <1>6, <1>7, <1>8, <2>1 DEF ToSet
    <2> QED
      BY <2>2
  <1>11. AllSame(queue, rows) => \A s \in ToSet(k.todo) : Mends(r, rows, s)
    <2> SUFFICES ASSUME AllSame(queue, rows), NEW s \in ToSet(k.todo) PROVE Mends(r, rows, s)
      OBVIOUS
    <2>1. s.name = "MarkReady" /\ s.id \in S
      BY <1>9
    <2>2. s.id \in DeliveryIDs
      BY <1>2, <1>4, <2>1, AttemptsNat
    <2>3. Same(queue, rows, s.id)
      BY <2>2 DEF AllSame
    <2> QED
      BY <1>2, <1>3, <1>4, <2>1, <2>3, GivenBackMends
  <1>12. \A x \in DeliveryIDs : x \notin S => Untouched(queue, r, x)
    BY <1>3, GivenBackTouches
  <1>13. AllSame(queue, rows) =>
            /\ \A s \in ToSet(k.todo) : Mends(queue', rows, s)
            /\ \A x \in DeliveryIDs :
                  \/ Untouched(queue, queue', x)
                  \/ \E s \in ToSet(k.todo) :
                        /\ s.id = x
                        /\ s.name \in {"MarkReady", "MarkInFlight", "DeleteDelivery"}
    BY <1>1, <1>9, <1>10, <1>11, <1>12
  <1> QED
    BY <1>1, <1>8, <1>13, BeginMirror

\* AddConsumer leaves Ready and InFlight alone.
LEMMA AddConsumerMirror ==
  ASSUME IInv, MInv, NEW c \in Consumers, AddConsumer(c)
  PROVE  MInv'
  <1> DEFINE r == WithConsumer(queue, c)
  <1>1. boot' = boot /\ serial' = serial /\ faults' = faults /\ queue' = r
        /\ call' = call /\ rows' = rows
    BY DEF AddConsumer, database, bounds
  <1>2. r.Ready = queue.Ready /\ r.InFlight = queue.InFlight
    BY Parts DEF WithConsumer, Queues
  <1> HIDE DEF r
  <1>3. \A id : Same(queue, rows, id) => Same(r, rows, id)
    BY <1>2 DEF Same, IDs
  <1>4. \A st : Mends(queue, rows, st) => Mends(r, rows, st)
    BY <1>2 DEF Mends
  <1>5. Mirror(queue, call, rows) => Mirror(r, call, rows)
    BY <1>3, <1>4 DEF Mirror
  <1> QED
    BY <1>1, <1>5 DEF MInv

\* StatementDone.
LEMMA StatementDoneMirror ==
  ASSUME IInv, MInv, NEW t \in Calls, StatementDone(t)
  PROVE  MInv'
  <1> DEFINE st == Head(call[t].todo)
  <1>1. /\ call[t] # NoCall /\ call[t].todo # << >> /\ Exec(st)
        /\ call' = IF st.name = "MarkInFlight" /\ st.id \notin DOMAIN rows
                     THEN [call EXCEPT ![t] = NoCall]
                     ELSE [call EXCEPT ![t].todo = Tail(@)]
        /\ boot' = boot /\ queue' = queue /\ faults' = faults /\ serial' = serial
    BY DEF StatementDone, bounds
  <1> SUFFICES ASSUME boot = "up", serial, faults = 0 PROVE Mirror(queue, call', rows')
    BY <1>1 DEF MInv
  <1>2. Mirror(queue, call, rows)
    BY DEF MInv
  <1>3. /\ queue \in QueueType /\ Sound(queue) /\ call \in CallsType /\ Shapes(call)
        /\ rows \in [DOMAIN rows -> Row]
        /\ Core(queue, call, rows, createdAt, confirmed, acked \cup rejected, earlier)
    BY Parts
  <1>4. t \in Running(call)
    BY <1>1, RunningUp
  <1>5. st \in Statements /\ st \in Pending(call)
    BY <1>1, <1>3, <1>4, NextStatement
  <1>6. st.name = "MarkInFlight" => st.id \in DOMAIN rows
    <2>1. Mends(queue, rows, st) /\ IDs(queue) \subseteq DOMAIN rows
      BY <1>2, <1>3, <1>5 DEF Mirror, Core, Stored
    <2> QED
      BY <2>1 DEF Mends, IDs
  <1>7. call' = [call EXCEPT ![t].todo = Tail(@)]
    BY <1>1, <1>6
  <1>8. GoneOn(call, call', t)
    BY <1>1, <1>3, <1>4, <1>7, CallGoesOn
  <1>9. CASE call[t].op # "Publish"
    <2>1. Written(rows, rows', st)
      BY <1>1, <1>3, <1>5, StatementWrites
    <2> DEFINE dn == acked \cup rejected
    <2>2. Core(queue, call, rows, createdAt, confirmed, dn, earlier)
      BY <1>3
    <2> HIDE DEF dn
    <2> QED
      BY <1>1, <1>2, <1>3, <1>4, <1>8, <1>9, <2>1, <2>2, MirrorStatement
  <1>10. CASE call[t].op = "Publish"
    <2>1. st = Statement("SaveReadyDelivery", call[t].id)
      BY <1>1, <1>3, <1>4, <1>10, NextStatement
    <2>2. st.name = "SaveReadyDelivery" /\ st.id = call[t].id
      BY <2>1 DEF Statement
    <2>3. rows' = SaveReadyDelivery(rows, call[t].id)
      BY <1>1, <2>2 DEF Exec
    <2> QED
      BY <1>1, <1>2, <1>3, <1>4, <1>8, <1>10, <2>3, MirrorSave
  <1> QED
    BY <1>9, <1>10

\* Return.
LEMMA ReturnMirror ==
  ASSUME IInv, MInv, NEW t \in Calls, Return(t)
  PROVE  MInv'
  <1>1. /\ call[t] # NoCall /\ call[t].todo = << >>
        /\ call' = [call EXCEPT ![t] = NoCall]
        /\ queue' = IF call[t].op = "Publish" THEN Enqueued(queue, NewDelivery(call[t].id))
                                              ELSE queue
        /\ boot' = boot /\ rows' = rows /\ faults' = faults /\ serial' = serial
    BY DEF Return, database, bounds
  <1> SUFFICES ASSUME boot = "up", serial, faults = 0 PROVE Mirror(queue', call', rows)
    BY <1>1 DEF MInv
  <1>2. Mirror(queue, call, rows)
    BY DEF MInv
  <1> DEFINE dn == acked \cup rejected
  <1>3. /\ queue \in QueueType /\ call \in CallsType /\ createdAt \in Seq(DeliveryIDs)
        /\ Core(queue, call, rows, createdAt, confirmed, dn, earlier)
    BY Parts
  <1> HIDE DEF dn
  <1>4. t \in Running(call) /\ Ended(call, call', t)
    BY <1>1, <1>3, RunningUp, CallEnded
  <1>5. call[t].op = "Publish" => call[t].id \in DeliveryIDs
    <2> SUFFICES ASSUME call[t].op = "Publish" PROVE call[t].id \in DeliveryIDs
      OBVIOUS
    <2>1. t \in Saved(call)
      BY <1>1 DEF Saved
    <2>2. call[t].id \in DOMAIN rows
      BY <1>3, <2>1 DEF Core, Publishing
    <2> QED
      BY <2>2, RowIDs
  <1> QED
    BY <1>1, <1>2, <1>3, <1>4, <1>5, MirrorReturns

\* Serve: Restore has put back every row, and left it ready.
LEMMA ServeMirror ==
  ASSUME IInv, Serve
  PROVE  MInv'
  <1>1. /\ boot = "restoring" /\ restore = << >>
        /\ queue' = queue /\ call' = call /\ rows' = rows
    BY DEF Serve, database
  <1>2. /\ call \in CallsType /\ Running(call) = {}
        /\ Restoring(queue, restore, rows, createdAt)
    BY <1>1, Parts DEF Booting
  <1>3. SeqIDs(restore) = {}
    BY <1>1 DEF SeqIDs
  <1>4. /\ SeqIDs(queue.Ready) = DOMAIN rows /\ DOMAIN queue.InFlight = {}
        /\ \A i \in DOMAIN queue.Ready :
              rows[queue.Ready[i].ID] = [status |-> "ready", consumer_id |-> NoConsumer,
                                         attempts |-> queue.Ready[i].Attempts]
    BY <1>2, <1>3 DEF Restoring
  <1>5. AllSame(queue, rows)
    BY <1>4 DEF AllSame, Same, IDs
  <1>6. Mirror(queue, call, rows)
    BY <1>2, <1>5, MirrorQuiet
  <1> QED
    BY <1>1, <1>6 DEF MInv

\* At the beginning both are empty.
LEMMA InitMirror == Init => MInv
  <1> SUFFICES ASSUME Init PROVE MInv
    OBVIOUS
  <1>1. /\ call \in CallsType /\ Running(call) = {}
        /\ IDs(queue) = {} /\ queue.Ready = << >> /\ DOMAIN queue.InFlight = {}
    BY NewProcess DEF Init
  <1>2. DOMAIN rows = {}
    BY DEF Init
  <1>3. AllSame(queue, rows)
    BY <1>1, <1>2 DEF AllSame, Same
  <1>4. Mirror(queue, call, rows)
    BY <1>1, <1>3, MirrorQuiet
  <1> QED
    BY <1>4 DEF MInv

\* No step parts table and queue by more than the running call will write.
LEMMA NextMirror == IInv /\ MInv /\ [Next]_vars => MInv'
  <1> SUFFICES ASSUME IInv, MInv, [Next]_vars PROVE MInv'
    OBVIOUS
  <1>1. ASSUME NEW t \in Calls, NEW id \in DeliveryIDs, Publish(t, id) PROVE MInv'
    BY <1>1, PublishMirror
  <1>2. ASSUME NEW t \in Calls, NEW c \in Consumers, BlockingFetch(t, c) PROVE MInv'
    BY <1>2, FetchMirror
  <1>3. ASSUME NEW t \in Calls, NEW c \in Consumers, DisconnectConsumer(t, c) PROVE MInv'
    BY <1>3, DisconnectMirror
  <1>4. ASSUME NEW t \in Calls, NEW id \in DeliveryIDs, NEW c \in Consumers, Ack(t, id, c)
        PROVE  MInv'
    BY <1>4, AckMirror
  <1>5. ASSUME NEW t \in Calls, NEW id \in DeliveryIDs, NEW c \in Consumers, NAck(t, id, c)
        PROVE  MInv'
    BY <1>5, NAckMirror
  <1>6. ASSUME NEW t \in Calls, StatementDone(t) PROVE MInv'
    BY <1>6, StatementDoneMirror
  <1>7. ASSUME NEW t \in Calls, Return(t) PROVE MInv'
    BY <1>7, ReturnMirror
  <1>8. ASSUME NEW c \in Consumers, AddConsumer(c) PROVE MInv'
    BY <1>8, AddConsumerMirror
  <1>9. faults \in Nat
    BY Parts
  <1>10. ASSUME NEW t \in Calls, StatementFails(t) PROVE MInv'
    BY <1>9, <1>10 DEF StatementFails, MInv
  <1>11. CASE Crash \/ StartRestore \/ RestoreDelivery \/ RestoreFails
    BY <1>11 DEF Crash, StartRestore, RestoreDelivery, RestoreFails, Exit, MInv
  <1>12. CASE Serve
    BY <1>12, ServeMirror
  <1>13. CASE UNCHANGED vars
    BY <1>13 DEF vars, process, database, bounds, MInv
  <1> QED
    BY <1>1, <1>2, <1>3, <1>4, <1>5, <1>6, <1>7, <1>8, <1>10, <1>11, <1>12, <1>13 DEF Next
----------------------------------------------------------------------------
\* As long as calls come one at a time and no statement fails, the table
\* mirrors the queue between calls, also after any number of crashes: the
\* same deliveries, in the same state, with the same holder and attempts.
THEOREM TableMirrorsQueue == Spec => []QuiescentAgreement
  <1>1. IInv /\ MInv => QuiescentAgreement
    <2> SUFFICES ASSUME IInv, MInv, Quiescent, serial, faults = 0
                 PROVE  /\ DOMAIN rows = ReadyIDs \cup InFlightIDs
                        /\ \A id \in DOMAIN rows :
                              /\ rows[id].attempts = MemoryAttempts(id)
                              /\ IF id \in InFlightIDs
                                   THEN /\ rows[id].status = "in_flight"
                                        /\ rows[id].consumer_id = queue.InFlight[id].ConsumerID
                                   ELSE /\ rows[id].status = "ready"
                                        /\ rows[id].consumer_id = NoConsumer
      BY DEF QuiescentAgreement
    <2>1. Running(call) = {} /\ Mirror(queue, call, rows)
      BY DEF Quiescent, Running, MInv
    <2>2. AllSame(queue, rows)
      BY <2>1, Parts, MirrorQuiet
    <2>3. IDs(queue) = ReadyIDs \cup InFlightIDs
      BY DEF IDs, SeqIDs, ReadyIDs, InFlightIDs
    <2>4. DOMAIN rows \subseteq DeliveryIDs /\ IDs(queue) \subseteq DOMAIN rows
      BY RowIDs, Parts DEF Core, Stored
    <2>5. DOMAIN rows = IDs(queue)
      BY <2>2, <2>4 DEF AllSame, Same
    <2>6. ASSUME NEW id \in DOMAIN rows, id \in InFlightIDs
          PROVE  /\ rows[id].attempts = MemoryAttempts(id)
                 /\ rows[id].status = "in_flight"
                 /\ rows[id].consumer_id = queue.InFlight[id].ConsumerID
      <3>1. Same(queue, rows, id)
        BY <2>2, <2>4 DEF AllSame
      <3>2. rows[id] = [status |-> "in_flight", consumer_id |-> queue.InFlight[id].ConsumerID,
                        attempts |-> queue.InFlight[id].Attempts]
        BY <2>6, <3>1 DEF Same, InFlightIDs
      <3> QED
        BY <2>6, <3>2 DEF MemoryAttempts
    <2>7. ASSUME NEW id \in DOMAIN rows, id \notin InFlightIDs
          PROVE  /\ rows[id].attempts = MemoryAttempts(id)
                 /\ rows[id].status = "ready" /\ rows[id].consumer_id = NoConsumer
      <3> DEFINE i == CHOOSE i \in DOMAIN queue.Ready : queue.Ready[i].ID = id
      <3>1. i \in DOMAIN queue.Ready /\ queue.Ready[i].ID = id
        <4>1. \E j \in DOMAIN queue.Ready : queue.Ready[j].ID = id
          BY <2>3, <2>5, <2>7 DEF ReadyIDs
        <4> QED
          BY <4>1
      <3>2. MemoryAttempts(id) = queue.Ready[i].Attempts
        BY <2>7 DEF MemoryAttempts
      <3> HIDE DEF i
      <3>3. Same(queue, rows, id)
        BY <2>2, <2>4 DEF AllSame
      <3>4. rows[id] = [status |-> "ready", consumer_id |-> NoConsumer,
                        attempts |-> queue.Ready[i].Attempts]
        BY <3>1, <3>3 DEF Same
      <3> QED
        BY <3>2, <3>4
    <2> QED
      BY <2>3, <2>5, <2>6, <2>7
  <1> QED
    BY <1>1, Inductive, InitMirror, NextMirror, PTL DEF Spec
============================================================================
