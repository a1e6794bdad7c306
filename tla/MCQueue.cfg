CONSTANTS
    NoConsumer = NoConsumer
    DeliveryIDs = {m1, m2}
    Consumers = {c1, c2}
    Fetchers = {f1, f2}
    MaxAttempts = 2
    MaxInFlight = 1
    AttemptBound = 2
SPECIFICATION FairSpec
INVARIANTS TypeOK ExactlyOnePlace HeldByRegistered NoLostWakeup InFlightWithinLimit FirstFetchInOrder
PROPERTIES LifecycleSpec WaiterServed FetchReturns
