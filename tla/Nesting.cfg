SPECIFICATION FairSpec
CONSTANTS
    Token <- MCToken
    Word = 32
    RANGE_16MB = 16
    Bits <- MCBits
    Dictionary <- MCDictionary
    Strtoul <- MCStrtoul
    MaxArgs = 7
    AliasMax = 2
    MacroMax = 2
    Comments = {"#"}
    MacroPrefixed <- MCMacroPrefixed
    Names = {"f", "g", "h"}
    Handles = {h1, h2, h3}
    InitialFiles <- NestFiles
    StackGarbage <- CleanStack
    UninitLine <- Garbage
    HeaderLine <- Header
    Session <- ShellSession
    Answers <- NestAnswers
    ReadOnly = {1, 2, 3}
    Volatile = {1}
    HwValues = {{}, {0}}
INVARIANTS TypeOK HandlesBalanced RawOnlyWhilePolling GuardedCommandsStayInMap
PROPERTIES CommandReturns ExitEndsShell ImplementsPrompt AliasStable
