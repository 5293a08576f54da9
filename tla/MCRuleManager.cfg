SPECIFICATION Spec
CONSTANTS
    Conns = {c1, c2}
    Filter = filter
    Nobody = nobody
    Objects = {o1, o2, o3}
    NULL = null
    r0 = r0
    r1 = r1
    p1 = p1
    RuleSets <- MCRuleSets
    EmptyRules = r0
    Packets <- MCPackets
    Accepts <- MCAccepts
    Absent = absent
    BadElement = bad
SYMMETRY Symmetry
\* The process may exit or terminate.
CHECK_DEADLOCK FALSE
INVARIANTS TypeOK OwnershipExact JudgeReadsLiveRules
 
