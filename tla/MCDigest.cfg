SPECIFICATION Spec
CONSTANTS
    Root = root
    Children = {s1, s2}
    Controller = s1
    NoScope = none
    Vars = {x, y}
    x = x
    y = y
    Watched <- MCWatched
    Start <- MCStart
    Vals = {0, 1}
    NoVal = NoVal
    MaxWatchers = 3
    TTL = 1
    Deferred = {1}
    Derived = {2, 3}
    MaxEvents = 2
    MaxEffects = 4
INVARIANTS TypeOK DigestStable CountExact CallbacksOnceInOrder
PROPERTIES SettledOnce TasksRun
CHECK_DEADLOCK FALSE
