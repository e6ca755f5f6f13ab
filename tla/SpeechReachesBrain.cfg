\* A violation: no speech comes out of the bridge.
SPECIFICATION FairSystemSpec
CONSTANTS
    Languages <- MCLanguages
    English <- MCLanguages
    DefaultLanguage = "en"
    NoLanguage = NoLanguage
    Engines <- MCEngines
    AutoSleepSecs = 1
    Commands <- MCCommands
    Methods <- MCMethods
    InCap = 1
    OutCap = 1
PROPERTY
    SpeechReachesBrain
\* run() returns and the brain leaves: the system may stop.
CHECK_DEADLOCK FALSE
