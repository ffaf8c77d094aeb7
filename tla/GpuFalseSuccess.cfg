SPECIFICATION Spec
CONSTANTS
    p1 = p1
    p2 = p2
    Process <- OneTerminal
    Tools <- ProbeThenWake
    MaxRuns = 2
    MaxTrouble = 0
    Engines <- MCEngines
    Pins <- PinnedLow
    Refusals <- NoRefusal
PROPERTIES SuccessIsPowered
CHECK_DEADLOCK FALSE
