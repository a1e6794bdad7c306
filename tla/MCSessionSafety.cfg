CONSTANTS
    NoConsumer = NoConsumer
    NotANumber = NotANumber
    Environments <- Changing
    StartBound = 1
    Clients = {a}
    ConsumerOf <- OneConsumer
    TokenOf <- RootToken
    Calls = {k1, k2}
    Methods = {"Fetch", "Stream", "Disconnect", "Close"}
    MessageBound = 1
    QueueBound = 2
SPECIFICATION Spec
INVARIANTS
    TypeOK
    RegistrationKnown
SYMMETRY Symmetry
CHECK_DEADLOCK FALSE
