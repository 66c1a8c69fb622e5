--------------------------- MODULE WampTcpClient ---------------------------
(***************************************************************************)
(* autobahn::wamp_tcp_client: a socket, a wamp_session over it and the     *)
(* chain of continuations that launch() starts: connect, start, join.      *)
(* Continuations run on threads of their own; the handler of async_connect *)
(* and m_onDisconnect run on the io thread.  Meanwhile the application may *)
(* use the session through operator->, at any time after launch(), and may *)
(* drop the client once its launch has succeeded.                          *)
(***************************************************************************)
EXTENDS WampSession

VARIABLES
    connection,     \* "new", "connecting", "connected" or "failed"
    starter,        \* continuation of start(): "waits", "done" or "threw"
    joiner,         \* continuation of join(): "none" until it is attached,
                    \* "waits", then its next statement: "promise", "signal";
                    \* "done"
    m_connected,    \* promise<bool> of launch(): "unset", "false" or "true"
    m_isConnected,
    signals,        \* m_onConnect and m_onDisconnect, as they were emitted
    socket          \* "open", "freed" by ~wamp_tcp_client, or "misused" after

client == <<connection, starter, joiner, m_connected, m_isConnected, signals>>
cvars  == <<vars, client, socket>>

CInit == /\ Init
         /\ connection = "new" /\ starter = "waits" /\ joiner = "none"
         /\ m_connected = "unset"
         /\ m_isConnected \in BOOLEAN   \* uninitialised by one constructor
         /\ signals = <<>>
         /\ socket = "open"
-----------------------------------------------------------------------------
(***************************************************************************)
(* launch() and its continuations                                          *)
(***************************************************************************)

Launch == /\ connection = "new"
          /\ connection' = "connecting"
          /\ UNCHANGED <<vars, starter, joiner, m_connected, m_isConnected, signals, socket>>

ConnectFails ==
    /\ connection = "connecting"
    /\ connection' = "failed"
    /\ m_isConnected' = TRUE
    /\ m_connected' = "false"
    /\ UNCHANGED <<vars, starter, joiner, signals, socket>>

\* The session is started, unless the handshake cannot be written because the
\* socket was closed meanwhile, by stop() or by the peer.
ConnectSucceeds ==
    /\ connection = "connecting"
    /\ connection' = "connected"
    /\ \/ start
       \/ /\ Escapes("system_error")
          /\ UNCHANGED <<promises, life, pending, callees, app, asked, m_onRxError,
                         response, callback, ioq, read, received, out>>
    /\ UNCHANGED <<starter, joiner, m_connected, m_isConnected, signals, socket>>

\* start() without a continuation for join().
StartContinues_JoinDropped ==
    /\ starter = "waits" /\ connection = "connected" /\ m_handshake # "unset"
    /\ ioq' = Append(ioq, Lambda("join", 0))
    /\ asked' = [asked EXCEPT !["join"] = @ + 1]
    /\ starter' = "done"
    /\ UNCHANGED <<promises, life, pending, callees, app, m_onRxError, response,
                   callback, io, read, received, out>>
    /\ UNCHANGED <<connection, joiner, m_connected, m_isConnected, signals, socket>>

\* The continuation of start(), which ignores what the handshake came to: it
\* queues the lambda of join(), and get_future() throws if the application has
\* called join() already.
StartContinues ==
    /\ starter = "waits" /\ connection = "connected" /\ m_handshake # "unset"
    /\ ioq' = Append(ioq, Lambda("join", 0))
    /\ IF asked["join"] = 0
       THEN starter' = "done" /\ joiner' = "waits"
       ELSE starter' = "threw" /\ joiner' = joiner
    /\ asked' = [asked EXCEPT !["join"] = @ + 1]
    /\ UNCHANGED <<promises, life, pending, callees, app, m_onRxError, response,
                   callback, io, read, received, out>>
    /\ UNCHANGED <<connection, m_connected, m_isConnected, signals, socket>>

\* The flag and the promise set as soon as join() has been called.
JoinContinues_TooSoon ==
    /\ \/ /\ joiner = "waits" /\ joiner' = "promise"
          /\ m_isConnected' = TRUE
          /\ UNCHANGED m_connected
       \/ /\ joiner = "promise" /\ joiner' = "signal"
          /\ m_connected' = "true"
          /\ UNCHANGED m_isConnected
    /\ UNCHANGED <<vars, connection, starter, signals, socket>>

\* The continuation of join(), statement by statement.  The last one may find the
\* client in its destructor, which waits for the continuation in ~m_joinFuture
\* and destroys m_onConnect after that.
JoinContinues ==
    /\ \/ /\ joiner = "waits" /\ m_session_join = "value"
          /\ joiner' = "promise"
          /\ m_isConnected' = TRUE
          /\ UNCHANGED <<m_connected, signals>>
       \/ /\ joiner = "promise"
          /\ joiner' = "signal"
          /\ m_connected' = "true"
          /\ UNCHANGED <<m_isConnected, signals>>
       \/ /\ joiner = "signal"
          /\ joiner' = "done"
          /\ signals' = Append(signals, "connect")
          /\ UNCHANGED <<m_connected, m_isConnected>>
    /\ UNCHANGED <<vars, connection, starter, socket>>

\* ~wamp_tcp_client, on the thread of a continuation of the application that
\* waited for launch(): the socket is closed and freed.  The session lives on
\* in the handlers bound to shared_from_this().
Destroy ==
    /\ m_connected = "true" /\ socket = "open"
    /\ socket' = "freed"
    /\ IF m_stopped THEN UNCHANGED <<ioq, read>> ELSE CloseStreams(ioq)
    /\ UNCHANGED <<promises, life, pending, callees, app, asked, m_onRxError, response,
                   callback, io, received, out>>
    /\ UNCHANGED client
-----------------------------------------------------------------------------
(***************************************************************************)
(* The session under the client                                            *)
(***************************************************************************)

\* The handler reads from, writes to or closes the socket.
UsesSocket ==
    \/ out' # out
    \/ m_stopped' # m_stopped
    \/ read' # read /\ read' # "none"
    \/ Len(ioq') >= Len(ioq) /\ ioq'[Len(ioq')].ec = "bad_descriptor"

\* A step of the session: when it emits m_onRxError, handleRxError() of the
\* client emits m_onDisconnect.
SessionStep ==
    /\ PeerStep \/ IoStep \/ CallbackEnds
    /\ signals' = IF m_onRxError' /\ ~m_onRxError
                  THEN Append(signals, "disconnect") ELSE signals
    /\ socket' = IF socket = "freed" /\ UsesSocket THEN "misused" ELSE socket
    /\ UNCHANGED <<connection, starter, joiner, m_connected, m_isConnected>>

\* The application uses the session through operator->.
AppUses ==
    /\ connection # "new" /\ socket = "open"
    /\ AppStep
    /\ asked'["start"] = asked["start"]
    /\ UNCHANGED <<client, socket>>

CNext ==
    /\ io = "running"
    /\ socket # "misused"       \* nothing is defined after that
    /\ \/ Launch \/ ConnectFails \/ ConnectSucceeds
       \/ StartContinues \/ JoinContinues \/ Destroy
       \/ SessionStep \/ AppUses

\* The io thread runs, the threads of the continuations run, and an attempt to
\* connect ends.  Nothing is assumed of the peer or the application.
CFairness ==
    LET Running(A) == io = "running" /\ socket # "misused" /\ A
    IN  /\ WF_cvars(Running(SessionStep /\ IoStep))
        /\ WF_cvars(Running(SessionStep /\ CallbackEnds))
        /\ WF_cvars(Running(ConnectFails \/ ConnectSucceeds))
        /\ WF_cvars(Running(StartContinues))
        /\ WF_cvars(Running(JoinContinues))

CSpec == CInit /\ [][CNext]_cvars /\ CFairness
-----------------------------------------------------------------------------
(***************************************************************************)
(* Properties                                                              *)
(***************************************************************************)

\* The client lives the life ClientLife describes: launch() resolves once, to
\* true only for a session that was joined and to false only for one that never
\* will be; m_onDisconnect is emitted once, and for a joined session only.
Emitted(signal) == \E i \in DOMAIN signals : signals[i] = signal
Life == INSTANCE ClientLife WITH client <-
    [launch |-> IF connection = "new" THEN "no"
                ELSE IF m_connected = "unset" THEN "pending" ELSE m_connected,
     isConnected |-> m_isConnected,
     joined |-> m_session_join = "value",
     gone |-> Emitted("disconnect")]
LivesAsClient == Life!LSpec

\* A session that is joined resolves launch(), whatever the peer and the
\* application do next, unless the application had called join() itself.
LaunchAnswered ==
    m_session_join = "value"
    ~> \/ m_connected = "true" \/ starter = "threw"
       \/ io # "running" \/ socket = "misused"

\* What LaunchAnswered rests on without fairness: once the session is joined,
\* launch() has been answered or the statement of its continuations whose turn
\* it is waits for nothing more, unless the one of start() threw.  The session
\* may be joined before either continuation has run, but never before the
\* handshake is known.
LaunchGoesOn ==
    m_session_join = "value" =>
        \/ m_connected = "true" \/ starter = "threw"
        \/ joiner \in {"waits", "promise"}
        \/ starter = "waits" /\ connection = "connected" /\ m_handshake # "unset"

\* stop() always ends the read loop (which holds a reference to the session):
\* whatever the loop was doing, it comes to rest or its exception ends the
\* io_service.
StopEndsReadLoop ==
    m_stopped ~> (ReadLoopOver \/ io # "running" \/ socket = "misused")

\* The session does not outlive its socket: "need to be sure this is destructed
\* before m_pSocket" (wamp_tcp_client.hpp:127).
SocketOutlivesUse == socket # "misused"
=============================================================================
