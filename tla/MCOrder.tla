-------------------------------- MODULE MCOrder --------------------------------
EXTENDS Order

Request(platform, action, type, id) ==
    [platform |-> platform, action |-> action, type |-> type, id |-> id]

SomeRequests == {Request("BTCC", "place", "limit", 0), Request("BTCC", "cancel", "none", 1),
                 Request("BTCC", "cancel", "none", 0), Request("Binance", "place", "limit", 0)}
================================================================================
