SPECIFICATION Spec
CONSTANTS
    p1 = p1
    p2 = p2
    Process <- MCProcess
    Word = 16
    Base = 8
    Limit = 8
    PageSize = 2
    Bytes = 2
    Span = 2
    Sizes <- MCSizes
    Offsets <- MCOffsets
    Faults <- MCFaults
    MaxRuns = 1
SYMMETRY Symmetry
INVARIANT WithinAperture
CHECK_DEADLOCK FALSE
