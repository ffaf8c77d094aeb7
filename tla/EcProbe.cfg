SPECIFICATION Spec
CONSTANTS
    Process = {p1, p2, p3}
    Offsets <- MCOffsets
    MaxRuns = 3
    MaxKills = 2
INVARIANTS TypeOK RightLabels
PROPERTY ProbeEnds
CHECK_DEADLOCK FALSE
