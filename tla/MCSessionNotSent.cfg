SPECIFICATION SessionSpec
CONSTANTS
    a = a
    b = b
    lone = lone
    x = x
    v0 = v0
    v1 = v1
    Device = {a, b, lone, x}
    Absent = {x}
    Value = {v0, v1}
    Zero = v0
    Served = {"read", "write", "status", "remote", "register", "monitor", "latch", "reset", "test", "clear", "lock", "unlock"}
    c1 = c1
    c2 = c2
    Client = {c1, c2}
    Calls <- MCCalls
    Ceiling = 2
    Twin = {a, b}
    MaxCalls = 2
    MaxPolls = 2
INVARIANT NotSentMeansNotDone
