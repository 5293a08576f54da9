SPECIFICATION Spec
CONSTANTS
    Absent = Absent
    Consoles = {c1, c2}
    Other = other
    SimpleToken = abc
    Tokens = {abc}
    NoToken = NoToken
    Files <- TwoRules
    Typed <- TypedRules
    MaxFit = 2
    MaxCut = 2
    MaxVisits = 1
    MaxEdits = 1
    MaxUploads = 2
    MaxOthers = 0
    Packets <- ComparedPackets
    Clocks <- ComparedClocks
SYMMETRY Symmetry
INVARIANTS TypeOK FilterOffExplained NoSampleRules  
PROPERTIES UntouchedRulesStay
CHECK_DEADLOCK FALSE
