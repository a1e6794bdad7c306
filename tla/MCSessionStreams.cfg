CONSTANTS
    NoConsumer = NoConsumer
    NotANumber = NotANumber
    Environments <- GoodAndBad
    StartBound = 1
    Clients = {a}
    ConsumerOf <- OneConsumer
    TokenOf <- RootToken
    Calls = {k1, k2}
    Methods = {"Stream", "Disconnect"}
    MessageBound = 1
    QueueBound = 1
SPECIFICATION BrokerSpec
PROPERTIES
    StartupEnds
    ShutdownCompletes
    DroppedStreamEnds
    LeftClientsHoldNothing
CHECK_DEADLOCK FALSE
