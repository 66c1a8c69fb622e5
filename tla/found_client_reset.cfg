\* An application that launches a client and drops it, as proxyCaller.cpp does
\* once it has its answer.
SPECIFICATION CSpec
CONSTANTS
    Threads = {}
    MaxRequests = 1
    Asks = {}
    MaxAsks = 0
    MaxFrames = 2
    Ops = {}
    FrameTypes = {"WELCOME", "IGNORED"}
    SessionIds = {1}
    SubIds = {1}
    RegIds = {1}
    EarlyReplies = TRUE
INVARIANT SocketOutlivesUse
CHECK_DEADLOCK FALSE
