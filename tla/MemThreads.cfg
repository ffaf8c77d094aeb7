SPECIFICATION Spec
CONSTANTS
    TOTAL_BLOCKS = 2
    APERTURE_SIZE = 4
    Page = 4
    U32 = 4
    U64 = 16
    Pattern = 1
    CheckEvery = 1
    Keys = {"1", "2", "3", "4", "n", "q", "enter"}
    Enter = "enter"
    Stop = {"q"}
    No = {"n"}
    MaxKeys = 2
    Lines <- MCLines
    Garbage <- Leftovers
    Atoi <- MCAtoi
    Strtoull <- MCStrtoull
    Unit <- MCUnit
    Cards <- OnlyGood
    Ok = Ok
    Background = {1}
    MayHangUp = TRUE
INVARIANT SessionScoped
PROPERTY StopHonoured
PROPERTY SessionEnds
INVARIANT ProgressAddsUp
INVARIANT RedrawnInPlace
