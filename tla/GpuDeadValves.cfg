SPECIFICATION Spec
CONSTANTS
    p1 = p1
    p2 = p2
    Process <- OneTerminal
    Tools <- ProbeThenOpen
    MaxRuns = 2
    MaxTrouble = 0
    Engines <- MCEngines
    Pins <- PinnedLow
    Refusals <- NoRefusal
PROPERTIES ValvesLive
CHECK_DEADLOCK FALSE
