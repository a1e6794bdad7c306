CONSTANTS
    NoConsumer = NoConsumer
    Words = {"users", "new"}
    QueueNames = {q1}
    Requests <- Repeating
    Keys <- KeyNewUser
    Consumers = {}
    Calls = {t1, t2}
    MaxQueueFilters = 2
    ExchangeBound = 2
    QueueBound = 2
    PublishBound = 1
    CrashBound = 1
    FaultBound = 1
SPECIFICATION HSpec
SYMMETRY Symmetry
INVARIANTS SavedUnlessOvertaken DeletedUnlessOvertaken MatchUnlessOvertaken RegisteredAsAsked
