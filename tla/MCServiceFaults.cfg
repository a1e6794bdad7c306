CONSTANTS
    NoConsumer = NoConsumer
    DeliveryIDs = {m1, m2}
    Consumers = {c1}
    Calls = {t1, t2}
    MaxAttempts = 2
    MaxInFlight = 2
    AttemptBound = 2
    CrashBound = 1
    FaultBound = 2
SPECIFICATION Spec
SYMMETRY Symmetry
INVARIANTS MemoryIsPersisted UnsettledKept
PROPERTY RestoredExactly
