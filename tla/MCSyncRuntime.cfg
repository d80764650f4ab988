SPECIFICATION SyncSpec
CONSTANTS
    User = {u1, u2}
    Closer = Closer
PROPERTIES
    EarlyCallReturns
    ShutdownEnds
CHECK_DEADLOCK FALSE
