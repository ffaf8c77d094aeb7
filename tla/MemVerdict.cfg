SPECIFICATION Spec
CONSTANTS
    TOTAL_BLOCKS = 2
    APERTURE_SIZE = 8
    Page = 4
    U32 = 8
    U64 = 16
    Pattern = 5
    CheckEvery = 2
    Keys = {"1", "2", "4", "2k", "q", "enter"}
    Enter = "enter"
    Stop = {"q"}
    No = {}
    MaxKeys = 2
    Lines <- MCLines
    Garbage <- NoLeftovers
    Atoi <- MCAtoi
    Strtoull <- MCStrtoull
    Unit <- MCUnit
    Cards <- OneFault
    Ok = Ok
    Background = {1}
    MayHangUp = FALSE
INVARIANT TypeOK
INVARIANT NoFalseAlarm
INVARIANT ProgressAddsUp
PROPERTY ImplementsTester
