\* Three calls on a device that may refuse a stream and leave a monitor behind.
SPECIFICATION FairSpec
CONSTANTS
    MaxCalls = 3
    Buffers = 2
    Consecutive = 3
INVARIANTS
    OnlyMonitorsCut
    MonitorsAccountedFor
PROPERTIES
    CallReturns
