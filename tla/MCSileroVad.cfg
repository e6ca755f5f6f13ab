\* Every sequence of 12 verdicts, with resets anywhere.
SPECIFICATION Spec
CONSTANTS
    Languages <- MCLanguages
    English <- MCLanguages
    DefaultLanguage = "en"
    NoLanguage = NoLanguage
    Engines <- MCEngines
    MinSpeech = 2
    MaxSilence = 3
    MaxSpeech = 5
    MaxFrames = 12
INVARIANTS
    SegmentWhole
    SegmentIsOneUtterance
PROPERTIES
    MovesAsPromised
