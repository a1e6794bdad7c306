------------------------- MODULE DeliveryLifecycle -------------------------
(***************************************************************************)
(* What a queue promises about its deliveries, with no word about how it   *)
(* keeps them: a delivery is ready, held by one registered consumer, or    *)
(* settled for good; only its holder settles it or gives it back; a        *)
(* consumer that leaves gives back all it holds; every hand-out counts as  *)
(* one attempt.  Ordering, waiting and wake-ups are left to the queue.     *)
(***************************************************************************)
EXTENDS Naturals, FiniteSets

CONSTANTS DeliveryIDs, Consumers, NoConsumer, MaxInFlight, MaxAttempts,
          AttemptBound  \* bound on attempts: it is not counted any further

VARIABLES status,       \* of each delivery
          holder,       \* the consumer that has it, or NoConsumer
          attempts,     \* how often it was handed out
          registered    \* the consumers of the queue

vars == <<status, holder, attempts, registered>>

Init ==
    /\ status     = [id \in DeliveryIDs |-> "none"]
    /\ holder     = [id \in DeliveryIDs |-> NoConsumer]
    /\ attempts   = [id \in DeliveryIDs |-> 0]
    /\ registered = {}

HeldBy(c) == {id \in DeliveryIDs : holder[id] = c}

Publish(id) ==
    /\ status[id] = "none"
    /\ status' = [status EXCEPT ![id] = "ready"]
    /\ UNCHANGED <<holder, attempts, registered>>

Join(c) ==
    /\ registered' = registered \cup {c}
    /\ UNCHANGED <<status, holder, attempts>>

HandOut(id, c) ==
    /\ status[id] = "ready"
    /\ c \in registered
    /\ MaxInFlight > 0 => Cardinality(HeldBy(c)) < MaxInFlight
    /\ status'   = [status EXCEPT ![id] = "held"]
    /\ holder'   = [holder EXCEPT ![id] = c]
    /\ attempts' = [attempts EXCEPT ![id] = IF @ < AttemptBound THEN @ + 1 ELSE AttemptBound]
    /\ UNCHANGED registered

\* The holder settles a delivery, and a dead one has used up its attempts
\* or was refused by the only consumer there was.
Settle(id, outcome) ==
    /\ status[id] = "held"
    /\ outcome = "dead" => \/ MaxAttempts > 0 /\ attempts[id] >= MaxAttempts
                           \/ registered = {holder[id]}
    /\ status' = [status EXCEPT ![id] = outcome]
    /\ holder' = [holder EXCEPT ![id] = NoConsumer]
    /\ UNCHANGED <<attempts, registered>>

\* A refused delivery is offered again while it has attempts left and
\* another consumer could take it.
GiveBack(id) ==
    /\ status[id] = "held"
    /\ registered # {holder[id]}
    /\ MaxAttempts > 0 => attempts[id] < MaxAttempts
    /\ status' = [status EXCEPT ![id] = "ready"]
    /\ holder' = [holder EXCEPT ![id] = NoConsumer]
    /\ UNCHANGED <<attempts, registered>>

Leave(c) ==
    /\ status' = [id \in DeliveryIDs |->
                    IF id \in HeldBy(c) THEN "ready" ELSE status[id]]
    /\ holder' = [id \in DeliveryIDs |->
                    IF id \in HeldBy(c) THEN NoConsumer ELSE holder[id]]
    /\ registered' = registered \ {c}
    /\ UNCHANGED attempts

Next ==
    \/ \E id \in DeliveryIDs :
          \/ Publish(id)
          \/ GiveBack(id)
          \/ \E outcome \in {"acked", "dead"} : Settle(id, outcome)
          \/ \E c \in Consumers : HandOut(id, c)
    \/ \E c \in Consumers : Join(c) \/ Leave(c)

Spec == Init /\ [][Next]_vars
============================================================================
