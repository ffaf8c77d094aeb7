SPECIFICATION Spec
CONSTANTS
    Height = 9
    Counts <- Roomy
    columns = 3
    Keys <- MCKeys
    MaxInput = 3
INVARIANT TypeOK
INVARIANT SelectionIsItem
INVARIANT AnchorOnPrompt
INVARIANT NothingLeftBehind
 
