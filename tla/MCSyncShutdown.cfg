SPECIFICATION SyncSpec
CONSTANTS
    User = {u1}
    Closer = Closer
INVARIANTS
    NoLiveTaskLeft
CHECK_DEADLOCK FALSE
