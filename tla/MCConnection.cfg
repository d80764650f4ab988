SPECIFICATION Spec
CONSTANTS
    Task = {u1, u2, o1}
    User = {u1, u2}
    Opener = {o1}
    Capacity = 1
    Modes = {"STRICT", "SERIALIZE"}
    Kinds = {"answered", "silent"}
    Cancellable = {"answered"}
    HandshakeSteps = 2
    MaxGeneration = 2
SYMMETRY CallersAlike
INVARIANTS
    NoUnreadTail
    AloneOnTheWire
    SocketFollowsState
    ReadyIsProven
    NobodyWaitsOnAClosedSocket
PROPERTIES
    Refines
