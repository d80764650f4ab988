SPECIFICATION HealthSpec
CONSTANTS
    a = a
    b = b
    c = c
    d = d
    e = e
    Monitor = e
    Task = {a, b, c, d, e}
    Setups = {{a, b, c, d}, {a, b, e}}
    Capacity = 2
    Modes = {"STRICT", "SERIALIZE"}
    IdleProbeAfter = 3
    ProbeInterval = 2
    UnhealthyAfter = 2
    HealthyAfter = 2
    WindowCapacity = 2
INVARIANTS
    NoIdleCapacity
    ProbeNeverWaits
    OnlyIntoSilence
PROPERTIES
    WakesInOrder
    VerdictIsEarned
    EveryWaiterIsServed
    MonitorEnds
CHECK_DEADLOCK FALSE
