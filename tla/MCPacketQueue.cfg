SPECIFICATION Spec
CONSTANTS
    MaxPackets = 6
    QueueLimit = 4
    SockLimit = 3
\* start() may fail, and recv waits when no packet comes.
CHECK_DEADLOCK FALSE
INVARIANTS TypeOK VerdictIsFirstDecision VerdictsInOrder 
PROPERTIES FittingGetsVerdict
