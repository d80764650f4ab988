SPECIFICATION Spec
CONSTANTS
    Opener = {"watcher", "owner"}
    Waiter = {w1}
    Cpu = {c1, c2}
    NoCpu = NoCpu
    MaxAttempts = 2
    Scopes = {{"refuse"}}
INVARIANT
    SurrenderIsAnswered
