SPECIFICATION GateSpec
CONSTANTS
    Task = {a, b, c}
    Capacity = 1
    Modes = {"STRICT", "SERIALIZE"}
INVARIANT
    KeepsCapacity
