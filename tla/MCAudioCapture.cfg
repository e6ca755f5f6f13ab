\* Ten samples through a ring of four.
SPECIFICATION Spec
CONSTANTS
    Languages <- MCLanguages
    English <- MCLanguages
    DefaultLanguage = "en"
    NoLanguage = NoLanguage
    Engines <- MCEngines
    Capacity = 4
    FrameLen = 2
    Blocks <- MCBlocks
    MaxSamples = 10
    MaxAudio = 8
CHECK_DEADLOCK FALSE
INVARIANTS
    WindowIsNewest
    PositionCoversFrame
    AudioInOrder
