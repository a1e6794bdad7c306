CONSTANTS
    NoConsumer = NoConsumer
    DeliveryIDs = {m1}
    Consumers = {c1}
    Calls = {t1}
    MaxAttempts = 2
    MaxInFlight = 2
    AttemptBound = 2
    CrashBound = 1
    FaultBound = 0
SPECIFICATION Spec
SYMMETRY Symmetry
INVARIANT UnackedNeverLost
