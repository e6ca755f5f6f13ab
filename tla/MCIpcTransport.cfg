\* Three frames, cut into chunks anywhere, with recv() dropped at will.
SPECIFICATION FairSpec
CONSTANTS
    Base = 2
    MaxMessage = 2
    ReadBufSize = 5
    SocketBuf = 7
    Payloads <- MCPayloads
    Valid <- MCValid
    Foreign <- MCForeign
    MaxFrames = 3
INVARIANTS
    NothingLost
    ReceivedInOrder
PROPERTIES
    ImplementsChannel
    WholeIsTaken
