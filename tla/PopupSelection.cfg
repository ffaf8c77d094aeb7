SPECIFICATION Spec
CONSTANTS
    Height = 9
    Counts <- TwoMatches
    columns = 3
    Keys <- MCKeys
    MaxInput = 3
INVARIANT SelectionIsItem
