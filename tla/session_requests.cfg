\* Requests from two threads and from callbacks, answered in any order, twice or
\* wrongly; events, and invocations answered by the procedure, by another callback
\* and by a thread at any time; callbacks that leave and stop.
SPECIFICATION Spec
CONSTANTS
    Threads = {t1, t2}
    MaxRequests = 2
    Asks = {"leave", "stop"}
    MaxAsks = 1
    MaxFrames = 4
    Ops = {"SUBSCRIBE", "UNSUBSCRIBE", "REGISTER"}
    FrameTypes = {"WELCOME", "RESULT", "SUBSCRIBED",
                  "UNSUBSCRIBED", "EVENT", "REGISTERED", "INVOCATION"}
    SessionIds = {1}
    SubIds = {1, 2}
    RegIds = {1}
    EarlyReplies = TRUE
    t1 = t1
    t2 = t2
SYMMETRY ThreadSymmetry
INVARIANTS TypeOK OneReadAtATime ReadLoopGoesOn PendingUnanswered
           HandlersInstalledOnce RequestIdsUnique
\* The session may come to rest: stopped, or dead of an exception.
CHECK_DEADLOCK FALSE
