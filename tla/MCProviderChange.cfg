\* A user changes the address or the key of a provider.
SPECIFICATION ProviderSpec
CONSTANTS
    Instances <- MCInstances
    Ciphers = {"k1"}
    KeyOf <- MCKeyOf
    Order <- MCOrder
    Label <- MCLabel
    Requests = {"q1"}
    Secrets = {"s1"}
    Urls = {"u1", "u2"}
    LooksEncrypted = {}
    MaxChanges = 2
    MaxStarts = 1
    MaxDbFailures = 0
CHECK_DEADLOCK FALSE
PROPERTY ConfigReachesGateway
