SPECIFICATION Spec
CONSTANTS
    MaxFds = 2
    MaxConns = 2
CHECK_DEADLOCK FALSE
INVARIANTS ProcessSurvives
