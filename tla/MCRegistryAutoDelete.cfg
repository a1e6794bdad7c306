CONSTANTS
    NoConsumer = NoConsumer
    Words = {"users", "new"}
    QueueNames = {q1}
    Requests <- AutoDelete
    Keys = {}
    Consumers = {c1, c2}
    Calls = {t1, t2}
    MaxQueueFilters = 2
    ExchangeBound = 1
    QueueBound = 3
    PublishBound = 0
    CrashBound = 0
    FaultBound = 0
SPECIFICATION Spec
PROPERTY ConsumedQueueStays
