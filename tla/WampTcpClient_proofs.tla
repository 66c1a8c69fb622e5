------------------------ MODULE WampTcpClient_proofs ------------------------
(***************************************************************************)
(* wamp_tcp_client implements ClientLife, for every peer and every use of  *)
(* the session, and keeps what was proved of wamp_session on its own: of   *)
(* its life, its requests and its replies.                                 *)
(***************************************************************************)
EXTENDS WampTcpClient, WampRequests_proofs

\* What the session guarantees on its own.
SessionInv == TypeOK /\ ReadInv /\ LifeInv /\ Reported

\* Before the connection is there the session is not started; the chain of
\* continuations goes no further than the promises it waits for; and
\* m_onDisconnect is emitted by m_onRxError only.
ChainInv ==
    /\ joiner \in {"none", "waits", "promise", "signal", "done"}
    /\ m_connected \in {"unset", "false", "true"}
    /\ m_isConnected \in BOOLEAN
    /\ signals \in Seq({"connect", "disconnect"})
    /\ connection # "connected" =>
          asked["start"] = 0 /\ m_session_join = "unset" /\ joiner = "none"
    /\ starter \in {"waits", "done", "threw"}
    /\ starter = "waits" => joiner = "none"
    /\ starter = "done" => joiner # "none"
    /\ m_connected = "false" <=> connection = "failed"
    /\ m_connected = "true" <=> joiner \in {"signal", "done"}
    /\ joiner \in {"promise", "signal", "done"} => m_session_join = "value" /\ m_isConnected
    /\ Emitted("disconnect") => m_onRxError

CInv == SessionInv /\ ChainInv

LEMMA ClientInit == CInit => CInv
<1> SUFFICES ASSUME CInit PROVE CInv
  OBVIOUS
<1>1. Init
  BY DEF CInit
<1>2. ReadInv /\ Reported
  BY <1>1 DEF Init, ReadInv, ReadCore, Quiet, InCallback, NoCompletion, OneCompletion, Reported
<1>3. asked["start"] = 0 /\ m_session_join = "unset"
  BY <1>1 DEF Init
<1>4. ChainInv
  BY <1>3 DEF CInit, ChainInv, Emitted
<1> QED  BY <1>1, <1>2, <1>4, TypeInit, LifeInit DEF CInv, SessionInv

-----------------------------------------------------------------------------
(***************************************************************************)
(* The session's part of the invariant                                     *)
(***************************************************************************)

\* A step of the session alone.
LEMMA SessionNext == SessionInv /\ [Next]_vars => SessionInv'
  BY TypeNext, ReadNext, LifeNext, ReportedNext DEF SessionInv

\* The handshake cannot be written.
LEMMA SessionEscape ==
    ASSUME SessionInv, Escapes("system_error"),
           UNCHANGED <<promises, life, pending, callees, app, asked, m_onRxError,
                       response, callback, ioq, read, received, out>>
    PROVE  SessionInv'
<1> USE DEF SessionInv
<1>1. TypeOK'
  <2>1. TypeLife'
    BY DEF TypeOK, TypeLife, Exceptions, Escapes, promises, life
  <2>2. TypeRequests' /\ TypeCallees' /\ TypeOut'
    BY TypeRequestsKept, TypeCalleesKept, TypeOutKept DEF TypeOK
  <2>3. TypeQueue'
    BY DEF TypeOK, TypeQueue
  <2> QED  BY <2>1, <2>2, <2>3 DEF TypeOK
<1>2. ReadInv'
  BY ReadUnchanged DEF ReadInv
<1>3. LifeInv'
  BY LifeEscape DEF Escapes, promises, life
<1>4. Reported'
  BY DEF Reported, Quiet, InCallback, NoCompletion, promises, life
<1> QED  BY <1>1, <1>2, <1>3, <1>4

\* The continuation of start() queues the lambda of join().
LEMMA SessionJoins ==
    ASSUME SessionInv, StartContinues
    PROVE  SessionInv'
<1> USE DEF SessionInv
<1>1. /\ ioq' = Append(ioq, Lambda("join", 0))
      /\ asked' = [asked EXCEPT !["join"] = @ + 1]
      /\ UNCHANGED <<promises, life, pending, callees, app, m_onRxError, response,
                     callback, io, read, received, out>>
  BY DEF StartContinues
<1>2. Lambda("join", 0) \in Handler /\ ~IsCompletion(Lambda("join", 0))
  BY HandlerTypes DEF LifecycleOps, Lambda, IsCompletion, ReadHandlers
<1>3. asked' \in [LifecycleOps \cup {"start"} -> Nat] /\ asked'["start"] = asked["start"]
  <2>1. asked \in [LifecycleOps \cup {"start"} -> Nat]
    BY DEF TypeOK, TypeLife
  <2> QED  BY <1>1, <2>1 DEF LifecycleOps
<1>4. TypeOK'
  <2>1. ioq' \in Seq(Handler)
    BY <1>1, <1>2 DEF TypeOK, TypeQueue
  <2>2. TypeLife'
    BY <1>1, <1>3 DEF TypeOK, TypeLife, promises, life
  <2>4. TypeQueue'
    BY <1>1, <2>1 DEF TypeOK, TypeQueue
  <2>3. TypeRequests' /\ TypeCallees' /\ TypeOut'
    BY <1>1, TypeRequestsKept, TypeCalleesKept, TypeOutKept DEF TypeOK
  <2> QED  BY <2>2, <2>3, <2>4 DEF TypeOK
<1>5. ReadCore' /\ (Quiet => Quiet')
  BY <1>1, <1>2, ReadAppend DEF ReadInv
<1>6. ReadInv' /\ Reported'
  BY <1>1, <1>3, <1>5 DEF ReadInv, Reported, promises, life
<1>7. LifeInv'
  BY <1>1, LifeUnchanged DEF lifeVars, promises, life
<1> QED  BY <1>4, <1>6, <1>7

\* The socket is closed under the session.
LEMMA SessionClosed ==
    ASSUME SessionInv, Destroy
    PROVE  SessionInv'
<1> USE DEF SessionInv
<1>1. /\ UNCHANGED <<promises, life, pending, callees, app, asked, m_onRxError, response,
                     callback, io, received, out>>
      /\ \/ UNCHANGED <<ioq, read>>
         \/ CloseStreams(ioq)
  BY DEF Destroy
<1>2. ioq \in Seq(Handler)
  BY DEF TypeOK, TypeQueue
<1>3. TypeOK'
  <2>1. ioq' \in Seq(Handler) /\ read' \in ReadHandlers \cup {"none"}
    BY <1>1, <1>2, CloseStreamsType DEF TypeOK, TypeQueue
  <2>2. TypeQueue'
    BY <1>1, <2>1 DEF TypeOK, TypeQueue
  <2> QED  BY <1>1, <2>2, TypeQueued
<1>4. ReadCore' /\ (Quiet => Quiet')
  <2>1. CASE UNCHANGED <<ioq, read>>
    BY <1>1, <2>1, ReadUnchanged DEF ReadInv
  <2>2. CASE read # "none" /\ CloseStreams(ioq)
    <3>1. NoCompletion(ioq) /\ ~InCallback /\ ~Quiet
      BY <2>2 DEF ReadInv, ReadCore, Quiet
    <3>2. OneCompletion(ioq') /\ read' = "none"
      BY <1>2, <2>2, <3>1, AppendCompletion DEF CloseStreams
    <3> QED  BY <1>1, <3>1, <3>2 DEF ReadCore, InCallback
  <2>3. CASE read = "none" /\ CloseStreams(ioq)
    BY <2>1, <2>3 DEF CloseStreams
  <2> QED  BY <1>1, <2>1, <2>2, <2>3
<1>5. ReadInv' /\ Reported'
  BY <1>1, <1>4 DEF ReadInv, Reported, promises, life
<1>6. LifeInv'
  BY <1>1, LifeUnchanged DEF lifeVars, promises, life
<1> QED  BY <1>3, <1>5, <1>6

-----------------------------------------------------------------------------
(***************************************************************************)
(* The chain of continuations                                              *)
(***************************************************************************)

\* What a step of the session does to the promise of join() and to m_onRxError:
\* nothing, or it joins, or it reports a read error of a joined session.
SessionShows ==
    /\ asked'["start"] = asked["start"]
    /\ \/ UNCHANGED <<m_session_join, m_onRxError>>
       \/ /\ ~Quiet
          /\ m_session_join = "unset" /\ m_session_join' = "value"
          /\ m_onRxError' = m_onRxError
       \/ /\ m_session_join = "value" /\ m_session_join' = "value"
          /\ ~m_onRxError /\ m_onRxError'

LEMMA RxErrorShows ==
    ASSUME SessionInv, NEW ec, handleRxError(ec)
    PROVE  SessionShows
<1>1. asked'["start"] = asked["start"] /\ m_session_join' = m_session_join
  BY DEF handleRxError, LifecycleOps
<1>2. m_onRxError \in BOOLEAN /\ m_onRxError' \in BOOLEAN
  BY DEF SessionInv, TypeOK, TypeLife, handleRxError
<1>3. CASE LeaveRefusal = "none"
  <2>1. m_session_join = "value"
    BY <1>3 DEF LeaveRefusal, SessionInv, LifeInv
  <2>2. m_onRxError => m_onRxError'
    BY DEF handleRxError
  <2> QED  BY <1>1, <1>2, <2>1, <2>2 DEF SessionShows
<1>4. CASE LeaveRefusal # "none"
  <2>1. m_onRxError' = (m_onRxError \/ FALSE)
    BY <1>4 DEF handleRxError
  <2> QED  BY <1>1, <1>2, <2>1 DEF SessionShows
<1> QED  BY <1>3, <1>4

LEMMA SessionStepShows ==
    ASSUME SessionInv, PeerStep \/ IoStep \/ CallbackEnds
    PROVE  SessionShows
<1>1. CASE UNCHANGED <<asked, m_session_join, m_onRxError>>
  BY <1>1 DEF SessionShows
<1>2. ASSUME NEW ec, handleRxError(ec) PROVE SessionShows
  BY <1>2, RxErrorShows
<1>3. CASE PeerStep \/ CallbackEnds
  BY <1>1, <1>3
  DEF PeerStep, ReadCompletes, CallbackEnds, CallbackReturns, CallbackThrows, CatchThrows, promises
<1>4. CASE got_message_body /\ got_message
  <2>1. ~Quiet
    BY <1>4, ReadHandlersRun DEF SessionInv, ReadInv
  <2>2. asked' = asked /\ m_onRxError' = m_onRxError
    BY <1>4 DEF got_message
  <2>3. m_session_join \in {"unset", "value"}
    BY DEF SessionInv, TypeOK, TypeLife
  <2>4. m_session_join' = m_session_join \/ m_session_join' = "value"
    BY <1>4
    DEF got_message, process_welcome, process_goodbye, process_error, process_call_result,
        process_subscribed, process_unsubscribed, process_event, process_registered,
        process_invocation, process_other, promises
  <2> QED  BY <2>1, <2>2, <2>3, <2>4 DEF SessionShows
<1>5. CASE got_message_header \/ got_message_body
  BY <1>1, <1>2, <1>4, <1>5 DEF got_message_header, got_message_body, promises
<1>6. CASE IoStep
  BY <1>1, <1>5, <1>6
  DEF IoStep, RunLifecycle, run_request, run_reply, got_handshake_reply, promises
<1> QED  BY <1>3, <1>6

\* Appending to the signals.
LEMMA EmittedAppend ==
    ASSUME NEW s \in Seq({"connect", "disconnect"}), NEW e \in {"connect", "disconnect"}
    PROVE  /\ Append(s, e) \in Seq({"connect", "disconnect"})
           /\ (\E i \in DOMAIN Append(s, e) : Append(s, e)[i] = "disconnect")
                <=> (e = "disconnect" \/ \E i \in DOMAIN s : s[i] = "disconnect")
<1>1. /\ DOMAIN s = 1..Len(s) /\ DOMAIN Append(s, e) = 1..(Len(s) + 1)
      /\ \A i \in 1..Len(s) : Append(s, e)[i] = s[i]
      /\ Append(s, e)[Len(s) + 1] = e
      /\ Len(s) \in Nat
  OBVIOUS
<1>2. \A i \in 1..(Len(s) + 1) : i \in 1..Len(s) \/ i = Len(s) + 1
  BY <1>1
<1>3. Len(s) + 1 \in 1..(Len(s) + 1) /\ \A i \in 1..Len(s) : i \in 1..(Len(s) + 1)
  BY <1>1
<1> QED  BY <1>1, <1>2, <1>3

\* The chain while the session makes a step.
LEMMA ChainSession ==
    ASSUME CInv, SessionShows,
           UNCHANGED <<connection, starter, joiner, m_connected, m_isConnected>>,
           \/ signals' = signals
           \/ signals' = Append(signals, "disconnect") /\ m_onRxError'
    PROVE  ChainInv'
<1> USE DEF CInv
<1>1. ChainInv /\ m_session_join \in {"unset", "value"} /\ m_onRxError \in BOOLEAN
  BY DEF SessionInv, TypeOK, TypeLife
<1>2. /\ signals' \in Seq({"connect", "disconnect"})
      /\ Emitted("disconnect")' => m_onRxError'
  <2>1. m_onRxError => m_onRxError'
    BY DEF SessionShows
  <2>2. CASE signals' = signals
    BY <1>1, <2>1, <2>2 DEF ChainInv, Emitted
  <2>3. CASE signals' = Append(signals, "disconnect") /\ m_onRxError'
    BY <1>1, <2>3, EmittedAppend DEF ChainInv
  <2> QED  BY <2>2, <2>3
<1>3. connection # "connected" => asked'["start"] = 0 /\ m_session_join' = "unset"
  BY <1>1 DEF SessionShows, ChainInv, SessionInv, ReadInv
<1>4. m_session_join = "value" => m_session_join' = "value"
  BY DEF SessionShows
<1> QED  BY <1>1, <1>2, <1>3, <1>4 DEF ChainInv

\* The application moves neither the promise of join() nor m_onRxError.
LEMMA AppShows ==
    ASSUME AppStep
    PROVE  UNCHANGED <<m_session_join, m_onRxError>>
  BY DEF AppStep, start, Ask, AskInline, Dispatch, DrawOnThread, RequestInline, Reply,
         ReplyReturns, ReplyInline, promises

LEMMA ClientNext == CInv /\ [CNext]_cvars => CInv'
<1> SUFFICES ASSUME CInv, [CNext]_cvars PROVE CInv'
  OBVIOUS
<1> USE DEF CInv
<1>1. ASSUME UNCHANGED vars PROVE SessionInv'
  BY <1>1, SessionNext
<1>2. CASE UNCHANGED cvars
  <2>1. UNCHANGED vars /\ UNCHANGED <<client, asked, m_session_join, m_onRxError>>
    BY <1>2 DEF cvars, vars, promises
  <2> QED  BY <1>1, <2>1 DEF ChainInv, Emitted, client
<1>3. CASE Launch
  <2>1. UNCHANGED vars /\ UNCHANGED <<asked, m_session_join, m_onRxError>>
    BY <1>3 DEF Launch, vars, promises
  <2> QED  BY <1>1, <1>3, <2>1 DEF Launch, ChainInv, Emitted
<1>4. CASE ConnectFails
  <2>1. UNCHANGED vars /\ UNCHANGED <<asked, m_session_join, m_onRxError>>
    BY <1>4 DEF ConnectFails, vars, promises
  <2> QED  BY <1>1, <1>4, <2>1 DEF ConnectFails, ChainInv, Emitted
<1>5. CASE ConnectSucceeds /\ io = "running"
  <2>1. SessionInv'
    <3>1. CASE start
      BY <1>5, <3>1, SessionNext DEF Next, AppStep
    <3>2. CASE ~start
      BY <1>5, <3>2, SessionEscape DEF ConnectSucceeds
    <3> QED  BY <3>1, <3>2
  <2>2. UNCHANGED <<m_session_join, m_onRxError>>
    BY <1>5 DEF ConnectSucceeds, start, promises
  <2> QED  BY <1>5, <2>1, <2>2 DEF ConnectSucceeds, ChainInv, Emitted
<1>6. CASE StartContinues
  <2>1. UNCHANGED <<m_session_join, m_onRxError, connection, m_connected, m_isConnected, signals>>
    BY <1>6 DEF StartContinues, promises
  <2>2. connection = "connected"
    BY <1>6 DEF StartContinues
  <2>3. /\ joiner = "none"
        /\ \/ starter' = "done" /\ joiner' = "waits"
           \/ starter' = "threw" /\ joiner' = "none"
    BY <1>6 DEF StartContinues, ChainInv
  <2> QED  BY <1>6, <2>1, <2>2, <2>3, SessionJoins DEF ChainInv, Emitted
<1>7. CASE JoinContinues
  <2>1. UNCHANGED vars /\ UNCHANGED <<asked, m_session_join, m_onRxError>>
    BY <1>7 DEF JoinContinues, vars, promises
  <2>2. /\ signals' \in Seq({"connect", "disconnect"})
        /\ Emitted("disconnect")' => Emitted("disconnect")
    BY <1>7, EmittedAppend DEF JoinContinues, ChainInv, Emitted
  <2> QED  BY <1>1, <1>7, <2>1, <2>2 DEF JoinContinues, ChainInv
<1>8. CASE Destroy
  <2>1. UNCHANGED <<asked, m_session_join, m_onRxError>> /\ UNCHANGED client
    BY <1>8 DEF Destroy, promises
  <2> QED  BY <1>8, <2>1, SessionClosed DEF client, ChainInv, Emitted
<1>9. CASE SessionStep /\ io = "running"
  <2>1. PeerStep \/ IoStep \/ CallbackEnds
    BY <1>9 DEF SessionStep
  <2>2. SessionInv'
    BY <1>9, <2>1, SessionNext DEF Next
  <2>3. \/ signals' = signals
        \/ signals' = Append(signals, "disconnect") /\ m_onRxError'
    BY <1>9 DEF SessionStep
  <2> QED  BY <1>9, <2>1, <2>2, <2>3, SessionStepShows, ChainSession DEF SessionStep
<1>10. CASE AppUses /\ io = "running"
  <2>1. SessionInv'
    BY <1>10, SessionNext DEF AppUses, Next
  <2>2. UNCHANGED <<m_session_join, m_onRxError>> /\ UNCHANGED client
    BY <1>10, AppShows DEF AppUses
  <2> QED  BY <1>10, <2>1, <2>2 DEF AppUses, client, ChainInv, Emitted
<1> QED  BY <1>2, <1>3, <1>4, <1>5, <1>6, <1>7, <1>8, <1>9, <1>10 DEF CNext

-----------------------------------------------------------------------------
(***************************************************************************)
(* The client implements ClientLife                                        *)
(***************************************************************************)

\* What a client shows.
Show(launched, flag, is_joined, is_gone) ==
    [launch |-> launched, isConnected |-> flag, joined |-> is_joined, gone |-> is_gone]

\* The transitions of ClientLife.
LEMMA Transitions ==
    ASSUME NEW l, NEW f, NEW j, NEW g, NEW c, NEW d, c = Show(l, f, j, g)
    PROVE  /\ l = "no" /\ d = Show("pending", f, j, g) => Life!Launches(c, d)
           /\ l = "pending" /\ j = FALSE /\ d = Show("false", TRUE, j, g)
                 => Life!ConnectFails(c, d)
           /\ l = "pending" /\ j = FALSE /\ d = Show(l, f, TRUE, g) => Life!Joins(c, d)
           /\ l = "pending" /\ j = TRUE /\ d = Show(l, TRUE, j, g) => Life!FlagRises(c, d)
           /\ l = "pending" /\ j = TRUE /\ f = TRUE /\ d = Show("true", f, j, g)
                 => Life!LaunchResolves(c, d)
           /\ j = TRUE /\ g = FALSE /\ d = Show(l, f, j, TRUE) => Life!Disconnects(c, d)
<1>1. ASSUME NEW x, NEW e, e = [c EXCEPT !.launch = "false", !.isConnected = x]
      PROVE  e = Show("false", x, j, g)
  BY <1>1 DEF Show
<1>2. c.launch = l /\ c.isConnected = f /\ c.joined = j /\ c.gone = g
  BY DEF Show
<1>3. ASSUME NEW x, d = Show(x, f, j, g) PROVE d = [c EXCEPT !.launch = x]
  BY <1>3 DEF Show
<1>4. ASSUME NEW x, d = Show(l, f, x, g) PROVE d = [c EXCEPT !.joined = x]
  BY <1>4 DEF Show
<1>5. ASSUME NEW x, d = Show(l, x, j, g) PROVE d = [c EXCEPT !.isConnected = x]
  BY <1>5 DEF Show
<1>6. ASSUME NEW x, d = Show(l, f, j, x) PROVE d = [c EXCEPT !.gone = x]
  BY <1>6 DEF Show
<1>7. ASSUME NEW x, d = Show("false", x, j, g)
      PROVE  d = [c EXCEPT !.launch = "false", !.isConnected = x]
  BY <1>1, <1>7, Zenon
<1>8. ASSUME l = "no", d = Show("pending", f, j, g) PROVE Life!Launches(c, d)
  BY <1>2, <1>3, <1>8 DEF Life!Launches
<1>9. ASSUME l = "pending", j = FALSE, d = Show("false", TRUE, j, g)
      PROVE  Life!ConnectFails(c, d)
  <2>1. d = [c EXCEPT !.launch = "false", !.isConnected = TRUE]
    BY <1>7, <1>9, Zenon
  <2> QED  BY <1>2, <1>9, <2>1, Zenon DEF Life!ConnectFails
<1>10. ASSUME l = "pending", j = FALSE, d = Show(l, f, TRUE, g) PROVE Life!Joins(c, d)
  <2>1. d = [c EXCEPT !.joined = TRUE]
    BY <1>4, <1>10, Zenon
  <2> QED  BY <1>2, <1>10, <2>1, Zenon DEF Life!Joins
<1>11. ASSUME l = "pending", j = TRUE, d = Show(l, TRUE, j, g) PROVE Life!FlagRises(c, d)
  <2>1. d = [c EXCEPT !.isConnected = TRUE]
    BY <1>5, <1>11, Zenon
  <2> QED  BY <1>2, <1>11, <2>1, Zenon DEF Life!FlagRises
<1>12. ASSUME l = "pending", j = TRUE, f = TRUE, d = Show("true", f, j, g)
       PROVE  Life!LaunchResolves(c, d)
  <2>1. d = [c EXCEPT !.launch = "true"]
    BY <1>3, <1>12, Zenon
  <2> QED  BY <1>2, <1>12, <2>1, Zenon DEF Life!LaunchResolves
<1>13. ASSUME j = TRUE, g = FALSE, d = Show(l, f, j, TRUE) PROVE Life!Disconnects(c, d)
  <2>1. d = [c EXCEPT !.gone = TRUE]
    BY <1>6, <1>13, Zenon
  <2> QED  BY <1>2, <1>13, <2>1, Zenon DEF Life!Disconnects
<1> QED  BY <1>8, <1>9, <1>10, <1>11, <1>12, <1>13

LaunchShown == IF connection = "new" THEN "no"
               ELSE IF m_connected = "unset" THEN "pending" ELSE m_connected
Shown == Show(LaunchShown, m_isConnected, m_session_join = "value", Emitted("disconnect"))

LEMMA ShownIsClient ==
    /\ Life!LInit <=> Shown \in Life!NewClients
    /\ Life!LNext <=> \/ Life!Launches(Shown, Shown') \/ Life!ConnectFails(Shown, Shown')
                      \/ Life!Joins(Shown, Shown') \/ Life!FlagRises(Shown, Shown')
                      \/ Life!LaunchResolves(Shown, Shown') \/ Life!Disconnects(Shown, Shown')
  BY DEF Shown, Show, LaunchShown, Life!LInit, Life!LNext, Life!Launches, Life!ConnectFails,
         Life!Joins, Life!FlagRises, Life!LaunchResolves, Life!Disconnects

LEMMA ClientSteps == CInv /\ [CNext]_cvars => Life!LNext \/ Shown' = Shown
<1> SUFFICES ASSUME CInv, [CNext]_cvars
             PROVE  Life!LNext \/ Shown' = Shown
  OBVIOUS
<1>1. SUFFICES ASSUME NEW l, NEW f, NEW j, NEW g, NEW l2, NEW f2, NEW j2, NEW g2,
                      l = LaunchShown, f = m_isConnected, j = (m_session_join = "value"),
                      g = Emitted("disconnect"),
                      l2 = LaunchShown', f2 = m_isConnected',
                      j2 = (m_session_join' = "value"), g2 = Emitted("disconnect")'
               PROVE  Life!LNext \/ Shown' = Shown
  OBVIOUS
<1>2. Shown = Show(l, f, j, g) /\ Shown' = Show(l2, f2, j2, g2)
  BY <1>1 DEF Shown
<1>3. \/ l2 = l /\ f2 = f /\ j2 = j /\ g2 = g
      \/ l = "no" /\ l2 = "pending" /\ f2 = f /\ j2 = j /\ g2 = g
      \/ l = "pending" /\ l2 = "false" /\ f2 = TRUE /\ j = FALSE /\ j2 = j /\ g2 = g
      \/ l = "pending" /\ l2 = l /\ f2 = f /\ j = FALSE /\ j2 = TRUE /\ g2 = g
      \/ l = "pending" /\ l2 = l /\ f2 = TRUE /\ j = TRUE /\ j2 = j /\ g2 = g
      \/ l = "pending" /\ l2 = "true" /\ f = TRUE /\ f2 = f /\ j = TRUE /\ j2 = j /\ g2 = g
      \/ l2 = l /\ f2 = f /\ j = TRUE /\ j2 = j /\ g = FALSE /\ g2 = TRUE
  <2> USE <1>1 DEF CInv, ChainInv, LaunchShown
  <2>1. CASE UNCHANGED cvars
    BY <2>1 DEF cvars, vars, promises, client, Emitted
  <2>2. CASE Launch
    BY <2>2 DEF Launch, vars, promises, Emitted
  <2>3. CASE ConnectFails
    BY <2>3 DEF ConnectFails, vars, promises, Emitted
  <2>4. CASE ConnectSucceeds
    BY <2>4 DEF ConnectSucceeds, start, promises, Emitted
  <2>5. CASE StartContinues
    BY <2>5 DEF StartContinues, promises, Emitted
  <2>6. CASE Destroy
    BY <2>6 DEF Destroy, client, promises, Emitted
  <2>7. CASE JoinContinues
    <3>1. g2 = g
      BY <2>7, EmittedAppend DEF JoinContinues, Emitted
    <3>2. UNCHANGED <<m_session_join, connection>> /\ connection = "connected"
      BY <2>7 DEF JoinContinues, vars, promises
    <3>3. CASE joiner = "waits"
      BY <2>7, <3>1, <3>2, <3>3 DEF JoinContinues
    <3>4. CASE joiner = "promise"
      BY <2>7, <3>1, <3>2, <3>4 DEF JoinContinues
    <3>5. CASE joiner = "signal"
      BY <2>7, <3>1, <3>2, <3>5 DEF JoinContinues
    <3> QED  BY <2>7, <3>3, <3>4, <3>5 DEF JoinContinues
  <2>8. CASE AppUses
    BY <2>8, AppShows DEF AppUses, client, Emitted
  <2>9. CASE SessionStep
    <3>1. SessionShows
      BY <2>9, SessionStepShows DEF SessionStep
    <3>2. l2 = l /\ f2 = f
      BY <2>9 DEF SessionStep
    <3>3. CASE m_onRxError' /\ ~m_onRxError
      <4>1. g = FALSE
        BY <3>3
      <4>2. g2 = TRUE
        BY <2>9, <3>3, EmittedAppend DEF SessionStep, Emitted
      <4> QED  BY <3>1, <3>2, <3>3, <4>1, <4>2 DEF SessionShows
    <3>4. CASE ~(m_onRxError' /\ ~m_onRxError)
      <4>1. g2 = g
        BY <2>9, <3>4 DEF SessionStep, Emitted
      <4>2. CASE m_session_join' = m_session_join
        BY <3>2, <4>1, <4>2
      <4>3. CASE m_session_join = "unset" /\ m_session_join' = "value" /\ ~Quiet
        BY <3>2, <4>1, <4>3 DEF SessionInv, ReadInv
      <4> QED  BY <3>1, <4>2, <4>3 DEF SessionShows
    <3> QED  BY <3>3, <3>4
  <2> QED  BY <2>1, <2>2, <2>3, <2>4, <2>5, <2>6, <2>7, <2>8, <2>9 DEF CNext
<1>4. \/ Show(l2, f2, j2, g2) = Show(l, f, j, g)
      \/ Life!Launches(Shown, Shown') \/ Life!ConnectFails(Shown, Shown')
      \/ Life!Joins(Shown, Shown') \/ Life!FlagRises(Shown, Shown')
      \/ Life!LaunchResolves(Shown, Shown') \/ Life!Disconnects(Shown, Shown')
  <2>1. CASE l2 = l /\ f2 = f /\ j2 = j /\ g2 = g
    BY <2>1
  <2>2. CASE l = "no" /\ l2 = "pending" /\ f2 = f /\ j2 = j /\ g2 = g
    BY <1>2, <2>2, Transitions
  <2>3. CASE l = "pending" /\ l2 = "false" /\ f2 = TRUE /\ j = FALSE /\ j2 = j /\ g2 = g
    BY <1>2, <2>3, Transitions
  <2>4. CASE l = "pending" /\ l2 = l /\ f2 = f /\ j = FALSE /\ j2 = TRUE /\ g2 = g
    BY <1>2, <2>4, Transitions
  <2>5. CASE l = "pending" /\ l2 = l /\ f2 = TRUE /\ j = TRUE /\ j2 = j /\ g2 = g
    BY <1>2, <2>5, Transitions
  <2>6. CASE l = "pending" /\ l2 = "true" /\ f = TRUE /\ f2 = f /\ j = TRUE /\ j2 = j /\ g2 = g
    BY <1>2, <2>6, Transitions
  <2>7. CASE l2 = l /\ f2 = f /\ j = TRUE /\ j2 = j /\ g = FALSE /\ g2 = TRUE
    BY <1>2, <2>7, Transitions
  <2> QED  BY <1>3, <2>1, <2>2, <2>3, <2>4, <2>5, <2>6, <2>7, Zenon
<1> QED  BY <1>2, <1>4, ShownIsClient

LEMMA ClientStarts == CInit => Shown \in Life!NewClients
<1> SUFFICES ASSUME CInit PROVE Shown \in Life!NewClients
  OBVIOUS
<1>1. LaunchShown = "no" /\ ~Emitted("disconnect") /\ m_session_join # "value"
  BY DEF CInit, Init, LaunchShown, Emitted
<1>2. m_isConnected \in BOOLEAN
  BY DEF CInit
<1>3. ASSUME NEW f \in BOOLEAN, NEW j \in BOOLEAN, NEW g \in BOOLEAN, ~j, ~g,
             NEW c, c = Show("no", f, j, g)
      PROVE  c \in Life!NewClients
  BY <1>3 DEF Show, Life!NewClients, Life!Client
<1>4. SUFFICES ASSUME NEW j, NEW g, j = (m_session_join = "value"), g = Emitted("disconnect")
               PROVE  Shown \in Life!NewClients
  OBVIOUS
<1>5. j \in BOOLEAN /\ g \in BOOLEAN /\ ~j /\ ~g
  BY <1>1, <1>4 DEF Emitted
<1>6. Shown = Show("no", m_isConnected, j, g)
  BY <1>1, <1>4 DEF Shown
<1> QED  BY <1>2, <1>3, <1>5, <1>6

\* A wamp_tcp_client lives as ClientLife describes, whatever the peer sends and
\* whatever the application does with the session: launch() resolves once, true
\* for a joined session only, and m_onDisconnect comes once, after the joining.
THEOREM LivesAsClientThm == CSpec => LivesAsClient
<1>1. CInit => Life!LInit
  BY ClientStarts, ShownIsClient
<1>2. CInv /\ [CNext]_cvars =>
        [Life!LNext]_[launch |-> IF connection = "new" THEN "no"
                                 ELSE IF m_connected = "unset" THEN "pending" ELSE m_connected,
                      isConnected |-> m_isConnected,
                      joined |-> m_session_join = "value",
                      gone |-> Emitted("disconnect")]
  BY ClientSteps DEF Shown, Show, LaunchShown
<1> QED
  BY <1>1, <1>2, ClientInit, ClientNext, PTL DEF CSpec, LivesAsClient, Life!LSpec

\* Under a client, whose continuations and whose destructor act on the session
\* too, a session that has left does not join again.
THEOREM ClientGoodbyeThm == CSpec => []GoodbyeEndsSession
<1>1. CInv => GoodbyeEndsSession
  BY DEF CInv, SessionInv, LifeInv, GoodbyeEndsSession
<1> QED  BY <1>1, ClientInit, ClientNext, PTL DEF CSpec

\* m_onDisconnect, which follows m_onRxError, finds the session shut down, even
\* when the client is destroyed under it.
THEOREM ClientReportedThm == CSpec => []ReportedMeansShutDown
<1>1. CInv => ReportedMeansShutDown
  BY ReportedImplies DEF CInv, SessionInv
<1> QED  BY <1>1, ClientInit, ClientNext, PTL DEF CSpec
-----------------------------------------------------------------------------
(***************************************************************************)
(* Requests, handlers and replies of the session under a client            *)
(***************************************************************************)

\* What the client does to the session other than through its operations: the
\* handshake that cannot be written, join() queued by the continuation of
\* start(), and the socket closed by the destructor.
Outside ==
    /\ UNCHANGED <<promises, pending, callees, app, response, callback, out>>
    /\ read' \in {read, "none"}
    /\ \/ ioq' = ioq
       \/ ioq' = Append(ioq, Lambda("join", 0))
       \/ CloseStreams(ioq)

LEMMA ClientActs == ASSUME [CNext]_cvars PROVE [Next]_vars \/ Outside
<1>1. CASE UNCHANGED cvars
  BY <1>1 DEF cvars
<1>2. CASE Launch \/ ConnectFails \/ JoinContinues
  BY <1>2 DEF Launch, ConnectFails, JoinContinues
<1>3. CASE ConnectSucceeds /\ io = "running"
  BY <1>3 DEF ConnectSucceeds, Outside, Next, AppStep
<1>4. CASE StartContinues
  BY <1>4 DEF StartContinues, Outside
<1>5. CASE Destroy
  BY <1>5 DEF Destroy, CloseStreams, Outside
<1>6. CASE (SessionStep \/ AppUses) /\ io = "running"
  BY <1>6 DEF SessionStep, AppUses, Next
<1> QED  BY <1>1, <1>2, <1>3, <1>4, <1>5, <1>6 DEF CNext

\* It queues neither a request nor a reply.
LEMMA OutsideQueue ==
    ASSUME TypeOK, Outside, NEW run \in {"request", "reply"}
    PROVE  NoMoreQueued(run, ioq, ioq')
<1>1. ioq \in Seq(Handler)
  BY DEF TypeOK, TypeQueue
<1>2. Lambda("join", 0).run # run
  BY DEF Lambda
<1>3. CASE ioq' = ioq
  BY <1>3, QueueSame
<1>4. CASE ioq' = Append(ioq, Lambda("join", 0))
  BY <1>1, <1>2, <1>4, QueueAppend
<1>5. CASE CloseStreams(ioq)
  BY <1>1, <1>5, QueueCompletions
<1> QED  BY <1>3, <1>4, <1>5 DEF Outside

LEMMA ClientRequests ==
    ASSUME TypeOK, IdInv, TableInv, [CNext]_cvars
    PROVE  IdInv' /\ TableInv'
<1>1. CASE [Next]_vars
  BY <1>1, IdNext, TableNext
<1>2. CASE Outside
  <2>1. IdInv'
    BY <1>2, OutsideQueue, WireSame, CalmFrame, CalmIds DEF Outside
  <2>2. TableInv'
    BY <1>2, TablesUnchanged DEF Outside, tableVars, app, callees
  <2> QED  BY <2>1, <2>2
<1> QED  BY <1>1, <1>2, ClientActs

LEMMA ClientReplies ==
    ASSUME TypeOK, ReplyInv, ~EarlyReplies, [CNext]_cvars
    PROVE  ReplyInv'
<1>1. CASE [Next]_vars
  BY <1>1, ReplyNext
<1>2. CASE Outside
  BY <1>2, OutsideQueue, WireSame, MuteFrame, MuteReplies DEF Outside, callees
<1> QED  BY <1>1, <1>2, ClientActs

\* With the client acting on the session from threads of its own, and dropped
\* while it is in use, request ids are still unique, the tables hold what has
\* not been answered, handlers are installed exactly when their futures resolve,
\* and the read loop is one thread of control.
THEOREM ClientRequestsThm ==
    CSpec => [](RequestIdsUnique /\ PendingUnanswered /\ HandlersInstalledOnce
                /\ OneReadAtATime)
<1> DEFINE RInv == CInv /\ IdInv /\ TableInv
<1>1. CInit => RInv
  BY ClientInit, IdInit, TableInit DEF CInit
<1>2. RInv /\ [CNext]_cvars => RInv'
  BY ClientNext, ClientRequests DEF CInv, SessionInv
<1>3. RInv => /\ RequestIdsUnique /\ PendingUnanswered /\ HandlersInstalledOnce
              /\ OneReadAtATime
  BY ReadInvImplies
  DEF IdInv, OnWireOnce, RequestIdsUnique, TableInv, CInv, SessionInv
<1> QED  BY <1>1, <1>2, <1>3, PTL DEF CSpec

\* Under a client too an INVOCATION gets at most one YIELD or ERROR, unless a
\* thread replies while the procedure still runs.
THEOREM ClientOneReplyThm == ASSUME ~EarlyReplies PROVE CSpec => []OneReply
<1>1. CInit => CInv /\ ReplyInv
  BY ClientInit, ReplyInit DEF CInit
<1>2. CInv /\ ReplyInv /\ [CNext]_cvars => CInv' /\ ReplyInv'
  BY ClientNext, ClientReplies DEF CInv, SessionInv
<1>3. ReplyInv => OneReply
  BY DEF ReplyInv, OnWireOnce, Answer, OneReply
<1> QED  BY <1>1, <1>2, <1>3, PTL DEF CSpec

LEMMA ClientLoop ==
    ASSUME TypeOK, LoopInv, socket' = "open", [CNext]_cvars, io = "running" \/ UNCHANGED cvars
    PROVE  LoopInv'
<1>1. CASE UNCHANGED cvars
  BY <1>1, LoopNext DEF cvars
<1>2. CASE Launch \/ ConnectFails \/ JoinContinues
  BY <1>2, LoopNext DEF Launch, ConnectFails, JoinContinues
<1>3. CASE ConnectSucceeds /\ io = "running"
  <2>1. CASE start
    BY <1>3, <2>1, LoopNext DEF Next, AppStep
  <2>2. CASE Escapes("system_error") /\ UNCHANGED <<promises, life, ioq, read, asked, callback>>
    BY <2>2, LoopLeft DEF Escapes, LoopInv, Aborts, promises, life
  <2> QED  BY <1>3, <2>1, <2>2 DEF ConnectSucceeds
<1>4. CASE StartContinues /\ io = "running"
  <2>1. asked'["start"] = asked["start"]
    BY <1>4 DEF StartContinues, TypeOK, TypeLife, LifecycleOps
  <2>2. ~IsCompletion(Lambda("join", 0))
    BY DEF Lambda, IsCompletion, ReadHandlers
  <2> QED  BY <1>4, <2>1, <2>2, LoopLambda DEF StartContinues, promises, life
<1>5. CASE Destroy
  BY <1>5 DEF Destroy
<1>6. CASE (SessionStep \/ AppUses) /\ io = "running"
  BY <1>6, LoopNext DEF SessionStep, AppUses, Next
<1> QED  BY <1>1, <1>2, <1>3, <1>4, <1>5, <1>6 DEF CNext

\* Under a client the read loop goes on as long as the client is held: only
\* ~wamp_tcp_client closes the socket without telling the session, whose aborted
\* read then ends the loop of a session that was never stopped.
THEOREM ClientReadLoopThm == CSpec => [](socket = "open" => ReadLoopGoesOn)
<1> DEFINE Held == socket = "open" => LoopInv
<1>1. CInit => Held
  BY LoopInit DEF CInit
<1>2. CInv /\ Held /\ [CNext]_cvars => Held'
  <2>1. [CNext]_cvars => (socket' = "open" => socket = "open")
    BY DEF CNext, Launch, ConnectFails, ConnectSucceeds, StartContinues, JoinContinues,
       Destroy, SessionStep, AppUses, client, cvars
  <2>2. [CNext]_cvars => (io = "running" \/ UNCHANGED cvars)
    BY DEF CNext
  <2> QED  BY <2>1, <2>2, ClientLoop DEF CInv, SessionInv
<1>3. Held => (socket = "open" => ReadLoopGoesOn)
  BY DEF LoopInv
<1> QED  BY <1>1, <1>2, <1>3, ClientInit, ClientNext, PTL DEF CSpec
-----------------------------------------------------------------------------
(***************************************************************************)
(* The launch goes on                                                      *)
(***************************************************************************)

MessageReads == {"got_message_header", "got_message_body"}

\* The session reads no message and has read none.
NoneIn(q) == \A n \in DOMAIN q : q[n].run \notin MessageReads
NoMessages ==
    m_session_join # "value" /\ read \notin MessageReads /\ NoneIn(ioq) /\ ~InCallback

\* The read loop is entered by the handler that resolves the handshake.
HandshakeInv == m_handshake = "unset" => NoMessages

LEMMA NoneInQueue ==
    ASSUME NEW q \in Seq(Handler), NoneIn(q)
    PROVE  /\ \A h : h.run \notin MessageReads => NoneIn(Append(q, h))
           /\ q # <<>> => Tail(q) \in Seq(Handler) /\ NoneIn(Tail(q))
<1>1. ASSUME NEW h, h.run \notin MessageReads PROVE NoneIn(Append(q, h))
  <2>1. /\ DOMAIN Append(q, h) = 1..Len(q) + 1 /\ DOMAIN q = 1..Len(q) /\ Len(q) \in Nat
        /\ \A n \in 1..Len(q) : Append(q, h)[n] = q[n]
        /\ Append(q, h)[Len(q) + 1] = h
    OBVIOUS
  <2>2. \A n \in 1..Len(q) + 1 : n \in 1..Len(q) \/ n = Len(q) + 1
    BY <2>1
  <2> QED  BY <1>1, <2>1, <2>2 DEF NoneIn
<1>2. ASSUME q # <<>> PROVE Tail(q) \in Seq(Handler) /\ NoneIn(Tail(q))
  <2>1. /\ Tail(q) \in Seq(Handler)
        /\ \A n \in DOMAIN Tail(q) : n + 1 \in DOMAIN q /\ Tail(q)[n] = q[n + 1]
    BY <1>2
  <2> QED  BY <2>1 DEF NoneIn
<1> QED  BY <1>1, <1>2

\* Whatever is queued by a step that reads no message is no message.
LEMMA NoMessagesKept ==
    ASSUME TypeOK, NoMessages, UNCHANGED <<m_session_join, callback>>,
           read' \in {read, "none", "got_handshake_reply"},
           \/ ioq' = ioq
           \/ \E h : h.run \notin MessageReads /\ ioq' = Append(ioq, h)
           \/ \E ec, f : ioq' = Append(ioq, Completion(read, ec, f))
           \/ CloseStreams(ioq)
           \/ ioq # <<>> /\ (ioq' = Tail(ioq) \/ CloseStreams(Tail(ioq)))
    PROVE  NoMessages'
<1>1. ioq \in Seq(Handler)
  BY DEF TypeOK, TypeQueue
<1>2. read' \notin MessageReads /\ m_session_join' # "value" /\ ~InCallback'
  BY DEF NoMessages, MessageReads, InCallback
<1>3. \A ec, f : Completion(read, ec, f).run \notin MessageReads
  BY DEF NoMessages, Completion
<1>4. ASSUME NEW q \in Seq(Handler), NoneIn(q), CloseStreams(q) PROVE NoneIn(ioq')
  BY <1>3, <1>4, NoneInQueue DEF CloseStreams
<1>5. NoneIn(ioq')
  BY <1>1, <1>3, <1>4, NoneInQueue DEF NoMessages
<1> QED  BY <1>2, <1>5 DEF NoMessages

\* A message is handled, and user code runs, only after the handshake.
LEMMA HandshakeKnown ==
    ASSUME TypeOK, HandshakeInv,
           InCallback \/ Runs("got_message_header") \/ Runs("got_message_body")
    PROVE  m_handshake # "unset"
<1>1. ioq \in Seq(Handler)
  BY DEF TypeOK, TypeQueue
<1>2. ASSUME ioq # <<>>, Head(ioq).run \in MessageReads PROVE ~NoneIn(ioq)
  <2>1. 1 \in DOMAIN ioq /\ Head(ioq) = ioq[1]
    BY <1>1, <1>2
  <2> QED  BY <1>2, <2>1 DEF NoneIn
<1> QED  BY <1>2 DEF HandshakeInv, NoMessages, Runs, MessageReads

\* No handler but the first sets the promise of start().
LEMMA HandshakeOnce ==
    ASSUME got_message_header \/ got_message_body \/ CallbackEnds
           \/ \E op \in LifecycleOps : AskInline(op)
    PROVE  m_handshake' = m_handshake
<1>1. ASSUME NEW ec, handleRxError(ec) PROVE m_handshake' = m_handshake
  BY <1>1 DEF handleRxError
<1>2. CASE got_message
  BY <1>2
  DEF got_message, process_welcome, process_goodbye, process_error, process_call_result,
      process_subscribed, process_unsubscribed, process_event, process_registered,
      process_invocation, process_other, promises
<1> QED
  BY <1>1, <1>2
  DEF got_message_header, got_message_body, CallbackEnds, CallbackReturns, CallbackThrows, CatchThrows,
      AskInline, promises

LEMMA HandshakeNext == ASSUME TypeOK, HandshakeInv, [Next]_vars PROVE HandshakeInv'
<1> SUFFICES ASSUME m_handshake' = "unset" PROVE NoMessages'
  BY DEF HandshakeInv
<1> DEFINE Kept == /\ UNCHANGED <<m_handshake, m_session_join, callback>>
                   /\ read' \in {read, "none", "got_handshake_reply"}
<1>1. ASSUME Kept,
             \/ ioq' = ioq
             \/ \E h : h.run \notin MessageReads /\ ioq' = Append(ioq, h)
             \/ \E ec, f : ioq' = Append(ioq, Completion(read, ec, f))
             \/ ioq # <<>> /\ (ioq' = Tail(ioq) \/ CloseStreams(Tail(ioq)))
      PROVE  NoMessages'
  BY <1>1, NoMessagesKept DEF HandshakeInv
<1>2. CASE UNCHANGED vars
  BY <1>1, <1>2 DEF vars, promises
<1>3. CASE PeerStep
  BY <1>1, <1>3 DEF PeerStep, ReadCompletes, promises
<1>4. CASE IoStep
  <2>1. ASSUME NEW op \in LifecycleOps, RunLifecycle(op) PROVE NoMessages'
    <3>1. ioq # <<>> /\ UNCHANGED <<m_handshake, m_session_join, callback>>
      BY <2>1 DEF RunLifecycle, Runs
    <3>2. \/ ioq' = Tail(ioq) /\ read' = read
          \/ CloseStreams(Tail(ioq)) /\ read' = "none"
      BY <2>1
      DEF RunLifecycle, Effect, JoinEffect, LeaveEffect, StopEffect, CloseStreams
    <3> QED  BY <1>1, <3>1, <3>2
  <2>2. CASE run_request \/ run_reply
    BY <1>1, <2>2 DEF run_request, run_reply, Runs, promises
  <2>3. ~got_handshake_reply
    BY DEF got_handshake_reply
  <2>4. ~(got_message_header \/ got_message_body)
    BY HandshakeKnown, HandshakeOnce DEF got_message_header, got_message_body
  <2> QED  BY <1>4, <2>1, <2>2, <2>3, <2>4 DEF IoStep
<1>5. ~CallbackEnds
  BY HandshakeKnown, HandshakeOnce DEF CallbackEnds, CallbackReturns, CallbackThrows, CatchThrows
<1>6. CASE AppStep
  <2>1. ASSUME NEW run, NEW id, run \notin MessageReads, Kept, ioq' = Append(ioq, Lambda(run, id))
        PROVE  NoMessages'
    <3>1. Lambda(run, id).run = run
      BY DEF Lambda
    <3> QED  BY <1>1, <2>1, <3>1
  <2>2. ASSUME NEW op \in LifecycleOps, Ask(op) PROVE NoMessages'
    <3>1. op \notin MessageReads
      BY DEF LifecycleOps, MessageReads
    <3> QED  BY <2>1, <2>2, <3>1 DEF Ask, promises
  <2>3. ASSUME NEW op \in LifecycleOps PROVE ~AskInline(op)
    BY HandshakeKnown, HandshakeOnce DEF AskInline
  <2>4. CASE (\E t \in Threads : Dispatch(t)) \/ (\E k \in DOMAIN invocation : Reply(k))
    <3>1. "request" \notin MessageReads /\ "reply" \notin MessageReads
      BY DEF MessageReads
    <3> QED  BY <2>1, <2>4, <3>1 DEF Dispatch, Reply, promises
  <2>5. CASE start
    BY <1>1, <2>5 DEF start, promises
  <2>6. CASE Kept /\ ioq' = ioq
    BY <1>1, <2>6
  <2> QED
    BY <1>6, <2>2, <2>3, <2>4, <2>5, <2>6
    DEF AppStep, DrawOnThread, RequestInline, ReplyReturns, ReplyInline, promises
<1> QED  BY <1>2, <1>3, <1>4, <1>5, <1>6 DEF Next

\* A client that was joined, by its own continuation or by the application,
\* leaves launch() with a next statement that waits for nothing more: what
\* LaunchAnswered needs besides fairness.
THEOREM LaunchGoesOnThm == CSpec => []LaunchGoesOn
<1>1. CInit => CInv /\ HandshakeInv
  BY ClientInit
  DEF CInit, Init, HandshakeInv, NoMessages, NoneIn, MessageReads, InCallback
<1>2. CInv /\ HandshakeInv /\ [CNext]_cvars => CInv' /\ HandshakeInv'
  <2> SUFFICES ASSUME CInv, HandshakeInv, [CNext]_cvars PROVE HandshakeInv'
    BY ClientNext
  <2>1. TypeOK
    BY DEF CInv, SessionInv
  <2>2. CASE [Next]_vars
    BY <2>1, <2>2, HandshakeNext
  <2>3. CASE Outside
    <3>1. Lambda("join", 0).run \notin MessageReads
      BY DEF Lambda, MessageReads
    <3> QED  BY <2>1, <2>3, <3>1, NoMessagesKept DEF Outside, HandshakeInv, promises
  <2> QED  BY <2>2, <2>3, ClientActs
<1>3. CInv /\ HandshakeInv => LaunchGoesOn
  BY DEF CInv, ChainInv, HandshakeInv, NoMessages, LaunchGoesOn
<1> QED  BY <1>1, <1>2, <1>3, PTL DEF CSpec
=============================================================================
