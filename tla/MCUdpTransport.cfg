SPECIFICATION UdpSpec
CONSTANTS
    MaxCalls = 3
    MaxOpens = 2
    MaxQueued = 1
    Depths = {1, 2, 3}
    Duplicated = {"4E"}
INVARIANTS
    OneReader
    BatonIsNeverStranded
    AnswerIsMine
    ClosedWakesEverybody
PROPERTIES
    NoAnswerThrownAway
    AnswerIsDelivered
CHECK_DEADLOCK FALSE
