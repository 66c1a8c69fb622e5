\* A conforming router that may close the session by itself at any time, over a
\* connection that may be lost at any time.  One at a time replies to an
\* invocation: the procedure, a callback, or the thread it was handed to.
SPECIFICATION RSpec
CONSTANTS
    Threads = {t1}
    MaxRequests = 2
    Asks = {"join", "leave", "stop"}
    MaxAsks = 2
    MaxFrames = 0
    Ops = {"CALL", "SUBSCRIBE", "UNSUBSCRIBE", "REGISTER", "PUBLISH"}
    FrameTypes = {}
    SessionIds = {1}
    SubIds = {1}
    RegIds = {1, 2}
    EarlyReplies = FALSE
    RouterErrors = {"CALL", "UNSUBSCRIBE"}
    RouterLeaves = TRUE
    LinkFails = TRUE
    MaxPushes = 1
    t1 = t1
    t2 = t2
INVARIANTS RTypeOK NoProtocolError WireOrder IoKeepsRunning
           RequestsAccounted HandshakesAccounted OneReply
PROPERTIES JoinCompletes LeaveCompletes RequestsAnswered
