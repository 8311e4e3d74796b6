\* Three connections on one symbol, both kinds of topics, two topics per session.
CONSTANTS
    Clients = {c1, c2, c3}
    Kinds = {"depth", "order"}
    Markets = {"BTCUSDT"}
    Platforms = {"BTCC", "Binance"}
    MaxTopicsPerConn = 2
    MaxIds = 3
    MaxCalls = 1
    MaxFaults = 2
SYMMETRY Perms
SPECIFICATION Spec
INVARIANTS TypeOK ServedExactly TopicBacked LookupHome SessionsBalanced
PROPERTIES RestartedByRunOnly PoisonedForGood StreamsNeverRetracted
CHECK_DEADLOCK FALSE
