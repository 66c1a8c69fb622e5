\* A connection that is lost.
SPECIFICATION RSpec
CONSTANTS
    Threads = {t1}
    MaxRequests = 1
    Asks = {"join", "leave", "stop"}
    MaxAsks = 2
    MaxFrames = 0
    Ops = {"CALL"}
    FrameTypes = {}
    SessionIds = {1}
    SubIds = {1}
    RegIds = {1}
    EarlyReplies = TRUE
    RouterErrors = {}
    RouterLeaves = FALSE
    LinkFails = TRUE
    MaxPushes = 1
    t1 = t1
    t2 = t2
PROPERTY RxErrorsReported
