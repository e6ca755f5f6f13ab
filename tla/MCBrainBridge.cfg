\* connect() and two calls, at the same time or one after the other.
SPECIFICATION FairSpec
CONSTANTS
    Threads = {"main", "worker"}
    Methods <- MCMethods
    ShellMessages <- MCShellMessages
    MaxCalls = 3
    MaxMessages = 2
INVARIANTS
    SentWhole
    ReceivedInOrder
    TimeoutRestored
PROPERTIES
    MessagesAreAtomic
    SendsGetThrough
    ClosedEndsCalls
CHECK_DEADLOCK FALSE
