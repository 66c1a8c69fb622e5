\* launch() against every peer, while the application joins, leaves, stops and
\* drops the client at any time.
SPECIFICATION CSpec
CONSTANTS
    Threads = {}
    MaxRequests = 1
    Asks = {"join", "leave", "stop"}
    MaxAsks = 1
    MaxFrames = 3
    Ops = {}
    FrameTypes = {"WELCOME", "GOODBYE", "IGNORED", "UNEXPECTED"}
    SessionIds = {0, 1}
    SubIds = {1}
    RegIds = {1}
    EarlyReplies = TRUE
INVARIANTS GoodbyeEndsSession ReportedMeansShutDown LaunchGoesOn
PROPERTIES StopEndsReadLoop LivesAsClient LaunchAnswered
\* The session may come to rest: stopped, or dead of an exception.
CHECK_DEADLOCK FALSE
