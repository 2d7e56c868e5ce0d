SPECIFICATION RPCSpec
CONSTANTS
    Channel = {news}
    Conn = {k1, k2}
    NoConn = none
    Steady = TRUE
    Timers = TRUE
    Ids = {1, 2}
INVARIANTS
    HandleBacked
    NoSilentLoss
    PresenceBalanced
PROPERTIES
    CallsSettle
