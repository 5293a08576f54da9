SPECIFICATION Spec
CONSTANTS
    Rules <- MCRules
    Packets <- MCPackets
    MaxRules = 3
    MaxTicks = 2
    StartTimes <- MCStartTimes
INVARIANTS TypeOK VerdictOfTheHour RulesOfTheWindow
PROPERTIES WalkEnds
