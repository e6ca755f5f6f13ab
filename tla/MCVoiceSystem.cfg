\* Shell and brain over two sockets that hold one message each.
SPECIFICATION FairSystemSpec
CONSTANTS
    Languages <- MCLanguages
    English <- MCLanguages
    DefaultLanguage = "en"
    NoLanguage = NoLanguage
    Engines <- MCEngines
    AutoSleepSecs = 1
    Commands <- MCCommands
    Methods <- MCMethods
    InCap = 1
    OutCap = 1
INVARIANTS
    NoStandoff
PROPERTIES
    MeetsAsBridge
    SendsNeverStick
    WakeGetsThrough
    SpeechFindsListener
\* run() returns and the brain leaves: the system may stop.
CHECK_DEADLOCK FALSE
