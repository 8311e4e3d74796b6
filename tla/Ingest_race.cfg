\* Two connections and one stream: no failure is needed.
CONSTANTS
    Clients = {c1, c2}
    Kinds = {"depth"}
    Markets = {"BTCUSDT"}
    Platforms = {"BTCC", "Binance"}
    MaxTopicsPerConn = 2
    MaxIds = 2
    MaxCalls = 1
    MaxFaults = 0
SPECIFICATION Spec
INVARIANTS SubscribedIsAttached
CHECK_DEADLOCK FALSE
