CONSTANTS
    NoConsumer = NoConsumer
    Words = {"users", "new"}
    QueueNames = {q1, q2}
    Requests <- AutoDelete
    Keys = {}
    Consumers = {c1, c2}
    Calls = {t1, t2}
    MaxQueueFilters = 2
    ExchangeBound = 2
    QueueBound = 2
    PublishBound = 0
    CrashBound = 0
    FaultBound = 0
SPECIFICATION HSpec
SYMMETRY NamesToo
INVARIANT AutoDeleteDone
PROPERTIES ConsumerKeepsQueue ConsumerKeepsExchange
