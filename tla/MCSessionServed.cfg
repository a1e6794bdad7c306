CONSTANTS
    NoConsumer = NoConsumer
    NotANumber = NotANumber
    Environments <- Changing
    StartBound = 2
    Clients = {a}
    ConsumerOf <- OneConsumer
    TokenOf <- RootToken
    Calls = {k1}
    Methods = {"Fetch", "Stream", "Disconnect", "Close"}
    MessageBound = 2
    QueueBound = 1
SPECIFICATION FairSpec
INVARIANTS
    LimitInForce
    OldTokenShutOut
PROPERTY
    Served
CHECK_DEADLOCK FALSE
