\* Subscribe, unsubscribe and subscribe again to the same topic.
SPECIFICATION RSpec
CONSTANTS
    Threads = {t1}
    MaxRequests = 3
    Asks = {"join", "leave", "stop"}
    MaxAsks = 2
    MaxFrames = 0
    Ops = {"SUBSCRIBE", "UNSUBSCRIBE"}
    FrameTypes = {}
    SessionIds = {1}
    SubIds = {1}
    RegIds = {1}
    EarlyReplies = TRUE
    RouterErrors = {}
    RouterLeaves = FALSE
    LinkFails = FALSE
    MaxPushes = 1
    t1 = t1
    t2 = t2
INVARIANT UnsubscribedHandlersSilent
