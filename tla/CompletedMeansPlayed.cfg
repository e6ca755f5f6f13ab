\* A playback that its monitor cuts.
SPECIFICATION Spec
CONSTANTS
    MaxCalls = 2
    Buffers = 2
    Consecutive = 3
INVARIANTS
    CompletedMeansPlayed
