----------------------------- MODULE WampRouter -----------------------------
(***************************************************************************)
(* A wamp_session that talks to a conforming router, used the way the      *)
(* examples use it: start, join whatever start() came to, requests once    *)
(* joined, leave, and stop once leave() has resolved.  The router is       *)
(* not part of the repository: it is what the WAMP messages the session    *)
(* writes and accepts let one assume of a peer.                            *)
(***************************************************************************)
EXTENDS WampSession

CONSTANTS
    RouterErrors,   \* the operations the router may answer with ERROR
    RouterLeaves,   \* TRUE when the router may close the session by itself
    LinkFails,      \* TRUE when the connection may be lost
    MaxPushes       \* bound on EVENTs and INVOCATIONs

ASSUME RouterAssumption == /\ RouterErrors \subseteq RequestOps \ {"PUBLISH"}
                           /\ RouterLeaves \in BOOLEAN /\ LinkFails \in BOOLEAN
                           /\ MaxPushes \in Nat
                           /\ 0 \notin SessionIds

VARIABLES
    wire,    \* frames on their way to the session
    seen,    \* how many of the session's messages the router has read
    owed,    \* requests the router has read and not answered
    router,  \* the router's view of the session: "closed", "joined", "left"
             \* (the client said GOODBYE) or "quit" (it did so by itself)
    topics,  \* subscriptions the session holds at the router
    regs,    \* registrations the session holds at the router
    pushes,  \* EVENTs and INVOCATIONs sent
    lost,    \* the connection has been lost
    main     \* the last operation the main program called

peer == <<seen, owed, router, topics, regs, pushes, lost>>
rvars == <<vars, wire, peer, main>>

RInit == /\ Init
         /\ wire = <<>> /\ seen = 0 /\ owed = {} /\ router = "closed"
         /\ topics = {} /\ regs = {} /\ pushes = 0 /\ lost = FALSE
         /\ main = "none"
-----------------------------------------------------------------------------
(***************************************************************************)
(* The router                                                              *)
(***************************************************************************)

Sends(frame) == wire' = Append(wire, frame)

\* The router reads the session's next message.
RouterReads ==
    /\ ~lost /\ seen < Len(out)
    /\ seen' = seen + 1
    /\ LET m == out[seen + 1]
       IN  \/ /\ m.type = "HELLO" /\ router = "closed"
              /\ router' = "joined"
              /\ \E id \in SessionIds : Sends(Frame("WELCOME", 0, id))
              /\ owed' = owed
           \/ /\ m.type = "GOODBYE" /\ router = "joined"
              /\ router' = "left"
              /\ Sends(Frame("GOODBYE", 0, 0))
              /\ owed' = owed
           \/ /\ m.type \in RequestOps \ {"PUBLISH"} /\ router = "joined"
              /\ owed' = owed \cup {m.id}
              /\ UNCHANGED <<router, wire>>
           \/ /\ m.type \in {"PUBLISH", "REPLY"} \/ router \in {"left", "quit"}
              /\ UNCHANGED <<router, wire, owed>>
    /\ UNCHANGED <<topics, regs, pushes, lost>>
    /\ UNCHANGED <<vars, main>>

\* It answers a request, in any order.
RouterAnswers(i) ==
    /\ ~lost /\ router = "joined" /\ i \in owed
    /\ owed' = owed \ {i}
    /\ LET op == request[i].op
       IN  \/ /\ op \in RouterErrors
              /\ Sends(Frame(IF op = "CALL" THEN "CALL_ERROR" ELSE "OTHER_ERROR", i, 0))
              /\ UNCHANGED <<topics, regs>>
           \/ /\ op = "CALL"
              /\ Sends(Frame("RESULT", i, 0))
              /\ UNCHANGED <<topics, regs>>
           \/ /\ op = "SUBSCRIBE"
              /\ \E s \in SubIds : /\ Sends(Frame("SUBSCRIBED", i, s))
                                   /\ topics' = topics \cup {s}
              /\ regs' = regs
           \/ /\ op = "UNSUBSCRIBE"
              /\ Sends(Frame("UNSUBSCRIBED", i, 0))
              /\ topics' = topics \ {request[i].sub}
              /\ regs' = regs
           \/ /\ op = "REGISTER"
              /\ \E r \in RegIds \ regs : /\ Sends(Frame("REGISTERED", i, r))
                                          /\ regs' = regs \cup {r}
              /\ topics' = topics
    /\ UNCHANGED <<seen, router, pushes, lost>>
    /\ UNCHANGED <<vars, main>>

\* It pushes an EVENT or an INVOCATION.
RouterPushes ==
    /\ ~lost /\ router = "joined" /\ pushes < MaxPushes
    /\ pushes' = pushes + 1
    /\ \/ \E s \in topics : Sends(Frame("EVENT", 0, s))
       \/ \E r \in regs : Sends(Frame("INVOCATION", 0, r))
    /\ UNCHANGED <<seen, owed, router, topics, regs, lost>>
    /\ UNCHANGED <<vars, main>>

\* It closes the session by itself.
RouterGoodbye ==
    /\ RouterLeaves /\ ~lost /\ router = "joined"
    /\ router' = "quit"
    /\ Sends(Frame("GOODBYE", 0, 0))
    /\ UNCHANGED <<seen, owed, topics, regs, pushes, lost>>
    /\ UNCHANGED <<vars, main>>

\* The connection delivers what the outstanding read waits for.
Delivers ==
    /\ ~lost
    /\ \/ /\ read = "got_handshake_reply"
          /\ ReadCompletes("ok", NoFrame)
          /\ wire' = wire
       \/ /\ read = "got_message_header" /\ wire # <<>>
          /\ ReadCompletes("ok", NoFrame)
          /\ wire' = wire
       \/ /\ read = "got_message_body"
          /\ ReadCompletes("ok", Head(wire))
          /\ wire' = Tail(wire)
    /\ UNCHANGED <<peer, main>>

\* The connection is lost, with what was on its way.
LinkLost ==
    /\ LinkFails /\ ~lost
    /\ lost' = TRUE
    /\ wire' = <<>>
    /\ \/ ReadCompletes("eof", NoFrame)
       \/ read = "none" /\ UNCHANGED vars
    /\ UNCHANGED <<seen, owed, router, topics, regs, pushes, main>>

\* A read armed on the lost connection fails.
EofRead == lost /\ ReadCompletes("eof", NoFrame) /\ UNCHANGED <<wire, peer, main>>
-----------------------------------------------------------------------------
(***************************************************************************)
(* The application                                                         *)
(***************************************************************************)

\* join() has resolved and the main program has not gone on to leave().
UsesSession == main = "join" /\ m_session_join = "value"

\* The main program; each operation waits for the future of the one before.
MainStep ==
    /\ \/ main = "none" /\ main' = "start" /\ start
       \/ main = "start" /\ m_handshake # "unset" /\ main' = "join" /\ Ask("join")
       \/ /\ UsesSession /\ (\A t \in Threads : thread[t] = 0)
          /\ main' = "leave" /\ Ask("leave")
       \/ /\ main = "leave" /\ m_session_leave # "unset"
          /\ main' = "stop" /\ Ask("stop")
    /\ UNCHANGED <<wire, peer>>

RequestStep ==
    \E op \in Ops : \E sub \in Argument(op) :
        \/ UsesSession /\ \E t \in Threads : DrawOnThread(t, op, sub)
        \/ RequestInline(op, sub)

ReplyStep == \E k \in DOMAIN invocation : Reply(k) \/ ReplyReturns(k) \/ ReplyInline(k)

DispatchStep == \E t \in Threads : Dispatch(t)

Local(A) == A /\ UNCHANGED <<wire, peer, main>>

\* Nothing is left to do: the session was stopped or could not be started, or
\* an exception ended the io_service.
Finished ==
    /\ \/ io # "running"
       \/ /\ ReadLoopOver /\ ioq = <<>>
          /\ m_stopped \/ m_handshake = "false"
    /\ UNCHANGED rvars

RNext ==
    \/ /\ io = "running"
       /\ \/ Local(IoStep \/ CallbackEnds)
          \/ Local(DispatchStep \/ RequestStep \/ ReplyStep)
          \/ MainStep
          \/ Delivers \/ LinkLost \/ EofRead
          \/ RouterReads \/ RouterPushes \/ RouterGoodbye
          \/ \E i \in Ids : RouterAnswers(i)
    \/ Finished

\* The io thread runs, callbacks return, a thread that has drawn an id goes on
\* to dispatch, the main program starts and joins, the connection delivers, and
\* the router reads and answers.  Requests, replies and leave() are the
\* application's choice; a stop() follows the leave().
RFairness ==
    LET Running(A) == io = "running" /\ A
    IN  /\ WF_rvars(Running(Local(IoStep)))
        /\ WF_rvars(Running(Local(CallbackEnds)))
        /\ WF_rvars(Running(Local(DispatchStep)))
        /\ WF_rvars(Running(MainStep /\ main' # "leave"))
        /\ WF_rvars(Running(Delivers \/ EofRead))
        /\ WF_rvars(Running(RouterReads))
        /\ \A i \in Ids : WF_rvars(Running(RouterAnswers(i)))

RSpec == RInit /\ [][RNext]_rvars /\ RFairness
-----------------------------------------------------------------------------
(***************************************************************************)
(* Properties                                                              *)
(***************************************************************************)

\* Type correctness of the session, its connection, the router and the program.
RTypeOK == /\ TypeOK
           /\ wire \in Seq(FrameSpace)
           /\ seen \in 0..Len(out)
           /\ owed \subseteq Ids
           /\ router \in {"closed", "joined", "left", "quit"}
           /\ topics \subseteq SubIds /\ regs \subseteq RegIds
           /\ pushes \in 0..MaxPushes /\ lost \in BOOLEAN
           /\ main \in LifecycleOps \cup {"none", "start"}

\* Until the connection is lost, a disciplined application, which has one holder
\* of an invocation at a time, with a conforming router never sees an exception
\* leave io_service::run, but for a request or a leave() queued before the
\* router's own GOODBYE was handled: no message the router may send is taken for a
\* protocol error, no promise is set twice, and the shutdown leave, GOODBYE, stop,
\* operation_aborted is silent.
IoKeepsRunning ==
    \/ lost \/ io = "running"
    \/ router = "quit" /\ io = "no_session_error"

\* Whatever the router closes and whenever the connection is lost, no queued
\* lambda and no message is ever refused as a protocol error.
NoProtocolError == io \notin {"protocol_error", "type_error"}

\* What the router sees of a session: HELLO first and once, requests after it,
\* and after the one GOODBYE nothing but the replies of procedures still
\* running, even when the GOODBYEs of the two sides cross.
WireOrder ==
    \A i \in DOMAIN out :
        /\ out[i].type = "HELLO" <=> i = 1
        /\ out[i].type = "GOODBYE" =>
              \A j \in i + 1 .. Len(out) : out[j].type = "REPLY"

\* What is on its way: the frames on the wire and the one that was read and waits
\* to be handled, and the messages the router has not read.
Elems(q) == {q[n] : n \in DOMAIN q}
IsBody(h) == h.run = "got_message_body" /\ h.ec = "ok"
Coming == Elems(wire) \cup {h.frame : h \in {g \in Elems(ioq) : IsBody(g)}}
Unread == {out[n] : n \in seen + 1 .. Len(out)}

InQueue(run) == \E h \in Elems(ioq) : h.run = run

\* The connection is up and no side has begun to close.
InUse == io = "running" /\ ~lost /\ router # "quit" /\ main \notin {"leave", "stop"}

\* Where a request is until its answer is handled.
HasPlace(i) ==
    \/ \E t \in Threads : thread[t] = i
    \/ \E h \in Elems(ioq) : h.run = "request" /\ h.id = i
    \/ \E m \in Unread : m.type \in RequestOps /\ m.id = i
    \/ i \in owed
    \/ \E f \in Coming : f.id = i

\* No request is forgotten: as long as the session is in use, one whose future has
\* not resolved is with the thread that drew its id, in the queue of the io
\* thread, on the stream, owed by the router, or answered by a frame that is
\* still to be handled; but for those whose refusal the session drops.
RequestsAccounted ==
    InUse => \A i \in Ids :
        /\ request[i].op \in (RequestOps \ {"PUBLISH"}) \ (RouterErrors \ {"CALL"})
        /\ response[i] = "unset"
        => HasPlace(i)

\* Neither is a join() or a leave(): until its future has resolved, its lambda is
\* queued, its HELLO or GOODBYE is unread by a router that will answer it, or the
\* WELCOME or a GOODBYE is still to be handled.
HandshakesAccounted ==
    io = "running" /\ ~lost =>
        /\ main = "join" /\ m_session_join = "unset" =>
              \/ InQueue("join")
              \/ router = "closed" /\ \E m \in Unread : m.type = "HELLO"
              \/ \E f \in Coming : f.type = "WELCOME"
        /\ main = "leave" /\ m_session_leave = "unset" =>
              \/ InQueue("leave")
              \/ router = "joined" /\ \E m \in Unread : m.type = "GOODBYE"
              \/ \E f \in Coming : f.type = "GOODBYE"

\* join() resolves, whatever else is going on, unless the connection is lost.
JoinCompletes == main = "join" ~> m_session_join = "value" \/ lost

\* leave() resolves, also when it crosses the router's own GOODBYE and when the
\* connection is lost.
LeaveCompletes == main = "leave" ~> m_session_leave # "unset"

\* Every request that has a future, but for those whose refusal the session
\* drops, is answered through it, unless either side leaves first or the
\* connection is lost.
RequestsAnswered ==
    \A i \in Ids :
        request[i].op \in (RequestOps \ {"PUBLISH"}) \ (RouterErrors \ {"CALL"})
        ~> \/ response[i] # "unset" \/ main \in {"leave", "stop"}
           \/ router = "quit" \/ lost

\* subscribe() returns "A future that resolves to a autobahn::subscription"
\* (wamp_session.hpp:141).
SubscribeResolves ==
    \A i \in Ids :
        request[i].op = "SUBSCRIBE"
        ~> ( response[i] # "unset" \/ main \in {"leave", "stop"} )

\* unsubscribe() is to end the delivery to a handler: an EVENT that is still in
\* flight is to be swallowed ("We may have just unsubscribed",
\* wamp_session.ipp:957).  Once an unsubscribe() is confirmed, the handler that
\* was first under the subscription, installed before any unsubscribe() of it
\* could be called, does not run again.
UnsubscribedHandlersSilent ==
    InCallback /\ callback.inv = 0 =>
        \A u \in Ids :
            request[u].op = "UNSUBSCRIBE" /\ response[u] = "value" =>
                Head(callback.todo) # m_subscription_handlers[request[u].sub][1]
=============================================================================
