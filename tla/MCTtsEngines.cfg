\* Texts shorter and longer than a pipe, and every file of three chunks.
SPECIFICATION FairSpec
CONSTANTS
    Texts <- MCTexts
    PipeSize = 2
    Expansion = 2
    Files <- MCFiles
    DefaultRate = 22050
INVARIANTS
    WholeReply
    StuckOnLongText
    WavAsWritten
PROPERTY
    SynthesisEnds
CHECK_DEADLOCK FALSE
