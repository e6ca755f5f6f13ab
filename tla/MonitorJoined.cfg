\* A playback that cannot be opened.
SPECIFICATION Spec
CONSTANTS
    MaxCalls = 2
    Buffers = 2
    Consecutive = 3
INVARIANTS
    MonitorJoined
