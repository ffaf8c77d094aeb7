SPECIFICATION FairSpec
CONSTANTS
    Token <- MCToken
    Word = 32
    RANGE_16MB = 16
    Bits <- MCBits
    Dictionary <- MCDictionary
    Strtoul <- MCStrtoul
    MaxArgs = 7
    AliasMax = 2
    MacroMax = 2
    Comments = {"#"}
    MacroPrefixed <- MCMacroPrefixed
    Names = {"f", "g", "h"}
    Handles = {h1}
    InitialFiles <- MacroFiles
    StackGarbage <- DirtyStack
    UninitLine <- Garbage
    HeaderLine <- Header
    Session <- MacroSession
    Answers <- MacroAnswers
    ReadOnly = {}
    Volatile = {}
    HwValues = {{}, {0}}
INVARIANTS NoOperatorLineLost
PROPERTIES ImplementsPrompt
