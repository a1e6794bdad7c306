CONSTANTS
    NoConsumer = NoConsumer
    DeliveryIDs = {m1, m2}
    Consumers = {c1, c2}
    Calls = {t1, t2}
    MaxAttempts = 2
    MaxInFlight = 2
    AttemptBound = 2
    CrashBound = 1
    FaultBound = 0
SPECIFICATION Spec
SYMMETRY Symmetry
INVARIANTS TypeOK MemoryIsPersisted UnsettledKept AckedNeverBack AttemptsNotOvercounted PublishOrderKept QuiescentAgreement
