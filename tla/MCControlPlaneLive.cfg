SPECIFICATION Spec
CONSTANTS
    Absent = Absent
    Consoles = {c1}
    Other = other
    SimpleToken = abc
    Tokens = {abc, bad}
    NoToken = NoToken
    Files <- UpToThreeRules
    Typed <- TypedRules
    MaxFit = 2
    MaxCut = 2
    MaxVisits = 2
    MaxEdits = 0
    MaxUploads = 1
    MaxOthers = 1
    Packets <- ComparedPackets
    Clocks <- ComparedClocks
PROPERTIES RequestAnswered
CHECK_DEADLOCK FALSE
