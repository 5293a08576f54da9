SPECIFICATION FairSpec
CONSTANTS
    Conns = {c1, c2}
    Filter = filter
    Nobody = nobody
    Objects = {o1, o2, o3}
    NULL = null
    r0 = r0
    r1 = r1
    p1 = p1
    RuleSets <- MCOneRuleSet
    EmptyRules = r0
    Packets <- MCPackets
    Accepts <- MCAcceptsNone
    Absent = absent
    BadElement = bad
\* The process may exit or terminate.
CHECK_DEADLOCK FALSE
PROPERTIES LockReleased WaiterServed
