SPECIFICATION Spec
CONSTANTS
    Task = {u1, u2, o1}
    User = {u1, u2}
    Opener = {o1}
    Capacity = 1
    Modes = {"SERIALIZE"}
    Kinds = {"answered", "silent"}
    Cancellable = {"answered", "silent"}
    HandshakeSteps = 0
    MaxGeneration = 1
PROPERTIES
    EveryCallReturns
