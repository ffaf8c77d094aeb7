SPECIFICATION Spec
CONSTANTS
    p1 = p1
    p2 = p2
    Process <- MCProcess
    Tools <- MCTools
    MaxRuns = 2
    MaxTrouble = 1
    Engines <- MCEngines
    Pins <- MCPins
    Refusals <- MCRefusals
SYMMETRY Symmetry
INVARIANTS TypeOK AloneSucceeds EnginesKept
PROPERTIES AloneHonest ScrubInReset BootArguments ScratchRestored BusReleased PathUnlocked
CHECK_DEADLOCK FALSE
