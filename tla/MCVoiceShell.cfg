\* The whole main loop, with every kind of command and a clock beside it.
SPECIFICATION FairQuietSpec
CONSTANTS
    Languages <- MCLanguages
    English <- MCEnglish
    DefaultLanguage = "en"
    NoLanguage = NoLanguage
    Engines <- MCEngines
    AutoSleepSecs = 1
    Commands <- AllCommands
    InCap = 2
    OutCap = 1
INVARIANTS
    TypeOK
    MicShowsWork
    CleanExit
    IdleClockExact
PROPERTIES
    ImplementsProtocol
    RequestHonoured
    SleepsWhenIdle
    ShutdownObeyedAwake
\* run() returns, the brain may leave: the system may stop.
CHECK_DEADLOCK FALSE
