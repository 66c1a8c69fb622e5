\* A procedure that hands its invocation to a thread, and throws.
SPECIFICATION Spec
CONSTANTS
    Threads = {t1}
    MaxRequests = 1
    Asks = {"join", "leave", "stop"}
    MaxAsks = 1
    MaxFrames = 3
    Ops = {"REGISTER"}
    FrameTypes = {"WELCOME", "REGISTERED", "INVOCATION", "GOODBYE"}
    SessionIds = {1}
    SubIds = {1}
    RegIds = {1}
    EarlyReplies = TRUE
    t1 = t1
    t2 = t2
INVARIANT OneReply
\* The session may come to rest: stopped, or dead of an exception.
CHECK_DEADLOCK FALSE
