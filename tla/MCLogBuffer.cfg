SPECIFICATION Spec
CONSTANTS
    Loggers = {t1, t2}
    Readers = {c1, c2}
    Lengths = {1, 2}
    MaxCalls = 2
    Size = 4
    WrapAt = 50
INVARIANTS TypeOK NothingSkipped OverrunOnlyWhenFull
PROPERTIES FullLogComplete LoggedIsShown
CHECK_DEADLOCK FALSE
