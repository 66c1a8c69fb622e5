---------------------------- MODULE WampSession ----------------------------
(***************************************************************************)
(* autobahn::wamp_session: one WAMP client session over a pair of streams, *)
(* driven by one io_service thread, used by application threads and by the *)
(* event handlers and procedures the session itself calls.  The peer is    *)
(* arbitrary: any frame may arrive at any time, and the stream may fail.   *)
(*                                                                         *)
(* A public operation called from an application thread is                 *)
(*   ++m_request_id (requests only); m_io.dispatch(lambda); get_future()   *)
(* and dispatch only queues the lambda; called from a callback, dispatch   *)
(* runs the lambda on the spot.  An exception that leaves a queued handler *)
(* leaves io_service::run, which ends the program (every main of the       *)
(* examples returns 1); one that leaves an inline lambda goes to the       *)
(* callback.                                                               *)
(*                                                                         *)
(* A definition D_X, X naming a slip, is a wrong version of D: no          *)
(* specification uses it, and a property that D satisfies fails with it.   *)
(***************************************************************************)
EXTENDS Naturals, Sequences, FiniteSets

CONSTANTS
    Threads,      \* application threads
    MaxRequests,  \* bound on the request ids the application uses up
    Asks,         \* which of join, leave and stop the application calls
    MaxAsks,      \* bound on the calls of each
    MaxFrames,    \* bound on the frames an unconstrained peer sends
    Ops,          \* the request operations the application uses
    FrameTypes,   \* the kinds of frame an unconstrained peer sends
    SessionIds,   \* session ids a WELCOME may carry (0 is not excluded)
    SubIds,       \* subscription ids
    RegIds,       \* registration ids
    EarlyReplies  \* TRUE when two may reply to an invocation at a time: its
                  \* procedure or another callback, and the thread it went to

RequestOps == {"CALL", "SUBSCRIBE", "UNSUBSCRIBE", "REGISTER", "PUBLISH"}
LifecycleOps == {"join", "leave", "stop"}

AllFrameTypes == {"WELCOME", "GOODBYE", "IGNORED", "UNEXPECTED", "CALL_ERROR",
                  "OTHER_ERROR", "RESULT", "SUBSCRIBED", "UNSUBSCRIBED",
                  "EVENT", "REGISTERED", "INVOCATION"}

ASSUME BoundsAssumption == /\ MaxRequests \in Nat
                           /\ MaxAsks \in Nat
                           /\ MaxFrames \in Nat

ASSUME UseAssumption == /\ Ops \subseteq RequestOps
                        /\ Asks \subseteq LifecycleOps
                        /\ FrameTypes \subseteq AllFrameTypes
                        /\ EarlyReplies \in BOOLEAN

ASSUME IdsAssumption == /\ SessionIds \subseteq Nat
                        /\ SubIds \subseteq Nat \ {0}
                        /\ RegIds \subseteq Nat \ {0}

VARIABLES
    m_request_id, m_session_id, m_goodbye_sent, m_stopped,
    m_handshake,      \* promise<bool>: "unset", "true" or "false"
    m_session_join,   \* promise<uint64_t>: "unset" or "value"
    m_session_leave,  \* promise<string>: "unset", "peer" or "socket closed"
    m_session_stop,   \* promise<void>: "unset" or "value"
    asked,            \* how often get_future() was called on each of the four
    m_onRxError,      \* the signal has been emitted
    m_calls, m_subscribe_requests, m_unsubscribe_requests, m_register_requests,
    request,          \* what each request id was used for
    response,         \* the promise of each request: "unset", "value", "error"
    m_subscription_handlers, \* subscription id -> handlers, each named by the
                             \* request that supplied it
    m_procedures,     \* registration id -> request that supplied it, or 0
    invocation,       \* wamp_invocation objects in order of arrival: "sendable",
                      \* "sending" (called m_send_result_fn, not yet cleared
                      \* it: still sendable() to the others) or "replied"
    callback,         \* user code the io thread is in: handlers still to run,
                      \* and the invocation when it is a procedure
    thread,           \* request id a thread has drawn and not yet dispatched
    ioq,              \* handlers queued in the io_service
    io,               \* "running", or the exception that left io_service::run
    read,             \* handler of the async_read that is outstanding
    received,         \* frames received so far
    out               \* every message handed to the output stream

promises == <<m_handshake, m_session_join, m_session_leave, m_session_stop>>
life     == <<m_session_id, m_goodbye_sent, m_stopped>>
pending  == <<m_calls, m_subscribe_requests, m_unsubscribe_requests, m_register_requests>>
callees  == <<m_subscription_handlers, m_procedures, invocation>>
app      == <<m_request_id, request, thread>>
vars     == <<promises, life, pending, callees, app, asked, m_onRxError, response,
              callback, ioq, io, read, received, out>>

Ids == 1..MaxRequests
ReadHandlers == {"got_handshake_reply", "got_message_header", "got_message_body"}

(***************************************************************************)
(* A frame holds one message.  Its shape tells the checks on the fields:   *)
(* "bad" fails one made before the request or subscription is looked up,   *)
(* "late" one made after it.  IGNORED stands for ABORT, HEARTBEAT,         *)
(* PUBLISHED, UNREGISTERED and unknown codes, UNEXPECTED for the codes no  *)
(* client accepts and for what is not a WAMP message at all.               *)
(***************************************************************************)
AnyShape == {"ok", "bad", "late"}
FrameSpace ==
    [type : {"WELCOME"}, id : {0}, arg : SessionIds, shape : {"ok", "bad"}]
    \cup [type : {"GOODBYE"}, id : {0}, arg : {0}, shape : {"ok", "late"}]
    \cup [type : {"IGNORED", "UNEXPECTED"}, id : {0}, arg : {0}, shape : {"ok"}]
    \cup [type : {"CALL_ERROR", "OTHER_ERROR", "UNSUBSCRIBED"}, id : Ids, arg : {0},
          shape : {"ok", "bad"}]
    \cup [type : {"RESULT"}, id : Ids, arg : {0}, shape : AnyShape]
    \cup [type : {"SUBSCRIBED"}, id : Ids, arg : SubIds, shape : AnyShape]
    \cup [type : {"REGISTERED"}, id : Ids, arg : RegIds, shape : AnyShape]
    \cup [type : {"EVENT"}, id : {0}, arg : SubIds, shape : AnyShape]
    \cup [type : {"INVOCATION"}, id : {0}, arg : RegIds, shape : AnyShape]
Frame(type, id, arg) == [type |-> type, id |-> id, arg |-> arg, shape |-> "ok"]
NoFrame == Frame("IGNORED", 0, 0)

\* The handlers an io_service queues: the lambdas of the public operations, of
\* send_result_fn, and the completion handlers of async_read with their error.
ErrorCodes == {"ok", "invalid", "eof", "aborted", "bad_descriptor"}
Handler ==
    [run : LifecycleOps, id : {0}, ec : {"ok"}, frame : {NoFrame}]
    \cup [run : {"request"}, id : Ids, ec : {"ok"}, frame : {NoFrame}]
    \cup [run : {"reply"}, id : Nat, ec : {"ok"}, frame : {NoFrame}]
    \cup [run : ReadHandlers, id : {0}, ec : ErrorCodes, frame : FrameSpace]
Lambda(run, id) == [run |-> run, id |-> id, ec |-> "ok", frame |-> NoFrame]
Completion(run, ec, frame) == [run |-> run, id |-> 0, ec |-> ec, frame |-> frame]
-----------------------------------------------------------------------------
(***************************************************************************)
(* Building blocks                                                         *)
(***************************************************************************)

InCallback == callback.todo # <<>>

\* The io thread takes the next queued handler.
Runs(name) == /\ ~InCallback
              /\ ioq # <<>>
              /\ Head(ioq).run = name

\* An exception leaves io_service::run.
Escapes(exception) == io' = exception

\* send(): nothing is written once the session is stopped; a write error is
\* swallowed, so what is handed to the stream is all that can be said.
Sent(type, id, arg) ==
    IF m_stopped THEN out ELSE Append(out, [type |-> type, id |-> id, arg |-> arg])

\* async_read(m_in, ..., handler) with q the queue of handlers: on the closed
\* socket it completes at once with bad_descriptor.
AsyncRead(handler, q) ==
    IF m_stopped
    THEN /\ ioq' = Append(q, Completion(handler, "bad_descriptor", NoFrame))
         /\ read' = read
    ELSE /\ ioq' = q
         /\ read' = handler

\* m_in.close(): the outstanding read completes with operation_aborted.
CloseStreams(q) ==
    /\ ioq' = IF read = "none" THEN q
              ELSE Append(q, Completion(read, "aborted", NoFrame))
    /\ read' = "none"

\* The end of got_message_body.
ReceiveNext(q) ==
    IF m_stopped THEN ioq' = q /\ read' = read
    ELSE AsyncRead("got_message_header", q)

-----------------------------------------------------------------------------
(***************************************************************************)
(* start, join, leave and stop                                             *)
(***************************************************************************)

Init ==
    /\ m_request_id = 0 /\ m_session_id = 0
    /\ m_goodbye_sent = FALSE /\ m_stopped = FALSE
    /\ m_handshake = "unset" /\ m_session_join = "unset"
    /\ m_session_leave = "unset" /\ m_session_stop = "unset"
    /\ asked = [op \in LifecycleOps \cup {"start"} |-> 0]
    /\ m_onRxError = FALSE
    /\ m_calls = {} /\ m_subscribe_requests = {}
    /\ m_unsubscribe_requests = {} /\ m_register_requests = {}
    /\ request = [i \in Ids |-> [op |-> "none", sub |-> 0]]
    /\ response = [i \in Ids |-> "unset"]
    /\ m_subscription_handlers = [s \in SubIds |-> <<>>]
    /\ m_procedures = [r \in RegIds |-> 0]
    /\ invocation = <<>>
    /\ callback = [inv |-> 0, todo |-> <<>>]
    /\ thread = [t \in Threads |-> 0]
    /\ ioq = <<>> /\ io = "running"
    /\ read = "none" /\ received = 0 /\ out = <<>>

\* start(): writes the handshake and reads the reply; called once.
start ==
    /\ asked["start"] = 0
    /\ ~m_stopped      \* the blocking write throws on a closed stream
    /\ asked' = [asked EXCEPT !["start"] = 1]
    /\ read' = "got_handshake_reply"
    /\ UNCHANGED <<promises, life, pending, callees, app, m_onRxError, response,
                   callback, ioq, io, received, out>>

\* What the lambdas of join(), leave() and stop() throw, "none" when nothing.
JoinRefusal  == IF m_session_id # 0 THEN "protocol_error" ELSE "none"
LeaveRefusal == IF m_session_id = 0 THEN "no_session_error"
                ELSE IF m_goodbye_sent THEN "protocol_error" ELSE "none"
StopRefusal  == IF m_stopped \/ m_session_id # 0 THEN "protocol_error" ELSE "none"
Refusal(op)  == IF op = "join" THEN JoinRefusal
                ELSE IF op = "leave" THEN LeaveRefusal ELSE StopRefusal

\* The lambdas once they are not refused; q is the queue that is left.
JoinEffect(q) ==
    /\ out' = Sent("HELLO", 0, 0)
    /\ ioq' = q
    /\ UNCHANGED <<m_session_id, m_goodbye_sent, m_stopped, m_session_stop, read>>

\* leave() that keeps the session id until the peer's GOODBYE.
LeaveEffect_StillJoined(q) ==
    /\ m_goodbye_sent' = TRUE
    /\ m_session_id' = m_session_id
    /\ out' = Sent("GOODBYE", 0, 0)
    /\ ioq' = q
    /\ UNCHANGED <<m_stopped, m_session_stop, read>>

LeaveEffect(q) ==
    /\ m_goodbye_sent' = TRUE
    /\ m_session_id' = 0
    /\ out' = Sent("GOODBYE", 0, 0)
    /\ ioq' = q
    /\ UNCHANGED <<m_stopped, m_session_stop, read>>

\* stop() that forgets m_in.close().
StopEffect_LeavesOpen(q) ==
    /\ m_stopped' = TRUE
    /\ ioq' = q
    /\ m_session_stop' = "value"
    /\ UNCHANGED <<m_session_id, m_goodbye_sent, out, read>>

StopEffect(q) ==
    /\ m_stopped' = TRUE
    /\ CloseStreams(q)
    /\ m_session_stop' = "value"
    /\ UNCHANGED <<m_session_id, m_goodbye_sent, out>>

Effect(op, q) == \/ op = "join" /\ JoinEffect(q)
                 \/ op = "leave" /\ LeaveEffect(q)
                 \/ op = "stop" /\ StopEffect(q)

\* An application thread calls op: the lambda is queued, and get_future()
\* follows (from the second call on it throws to the caller).
Ask(op) ==
    /\ op \in Asks /\ asked[op] < MaxAsks
    /\ asked' = [asked EXCEPT ![op] = @ + 1]
    /\ ioq' = Append(ioq, Lambda(op, 0))
    /\ UNCHANGED <<promises, life, pending, callees, app, m_onRxError, response,
                   callback, io, read, received, out>>

\* A callback calls op: the lambda runs inline.  When it throws, the call has
\* no effect at all.
AskInline(op) ==
    /\ InCallback
    /\ op \in Asks /\ asked[op] < MaxAsks
    /\ Refusal(op) = "none"
    /\ Effect(op, ioq)
    /\ asked' = [asked EXCEPT ![op] = @ + 1]
    /\ UNCHANGED <<m_handshake, m_session_join, m_session_leave, pending, callees,
                   app, m_onRxError, response, callback, io, received>>

\* The io thread runs the queued lambda of op.
RunLifecycle(op) ==
    /\ Runs(op)
    /\ \/ /\ Refusal(op) # "none"
          /\ Escapes(Refusal(op))
          /\ ioq' = Tail(ioq)
          /\ UNCHANGED <<life, m_session_stop, read, out>>
       \/ /\ Refusal(op) = "none"
          /\ Effect(op, Tail(ioq))
          /\ io' = io
    /\ UNCHANGED <<m_handshake, m_session_join, m_session_leave, pending, callees,
                   app, asked, m_onRxError, response, callback, received>>
-----------------------------------------------------------------------------
(***************************************************************************)
(* call, subscribe, unsubscribe, provide and publish                       *)
(***************************************************************************)

\* A non-atomic increment: two threads may draw the same id.
Draw_Unsynchronised(op, sub) ==
    /\ m_request_id < MaxRequests
    /\ op = "UNSUBSCRIBE" => m_subscription_handlers[sub] # <<>>
    /\ LET drawn == IF \E t \in Threads : thread[t] # 0
                    THEN m_request_id ELSE m_request_id + 1
       IN  /\ m_request_id' = drawn
           /\ request' = [request EXCEPT ![drawn] = [op |-> op, sub |-> sub]]

\* request_id = ++m_request_id, and the request object with its promise.
Draw(op, sub) ==
    /\ m_request_id < MaxRequests
    /\ op = "UNSUBSCRIBE" => m_subscription_handlers[sub] # <<>>
    /\ m_request_id' = m_request_id + 1
    /\ request' = [request EXCEPT ![m_request_id + 1] = [op |-> op, sub |-> sub]]

\* The argument of op: a subscription the application has been given.
Argument(op) == IF op = "UNSUBSCRIBE" THEN SubIds ELSE {0}

DrawOnThread(t, op, sub) ==
    /\ thread[t] = 0
    /\ Draw(op, sub)
    /\ thread' = [thread EXCEPT ![t] = m_request_id']
    /\ UNCHANGED <<promises, life, pending, callees, asked, m_onRxError, response,
                   callback, ioq, io, read, received, out>>

Dispatch(t) ==
    /\ thread[t] # 0
    /\ ioq' = Append(ioq, Lambda("request", thread[t]))
    /\ thread' = [thread EXCEPT ![t] = 0]
    /\ UNCHANGED <<promises, life, pending, callees, asked, m_request_id, request,
                   m_onRxError, response, callback, io, read, received, out>>

\* unsubscribe() that files its request with those of subscribe().
EmplaceAndSend_WrongTable(id, op, sub) ==
    /\ m_calls' = m_calls \cup (IF op = "CALL" THEN {id} ELSE {})
    /\ m_subscribe_requests' = m_subscribe_requests \cup
         (IF op \in {"SUBSCRIBE", "UNSUBSCRIBE"} THEN {id} ELSE {})
    /\ m_unsubscribe_requests' = m_unsubscribe_requests
    /\ m_register_requests' =
         m_register_requests \cup (IF op = "REGISTER" THEN {id} ELSE {})
    /\ out' = Sent(op, id, sub)

\* The lambda of a request when the session is joined.
EmplaceAndSend(id, op, sub) ==
    /\ m_calls' = m_calls \cup (IF op = "CALL" THEN {id} ELSE {})
    /\ m_subscribe_requests' =
         m_subscribe_requests \cup (IF op = "SUBSCRIBE" THEN {id} ELSE {})
    /\ m_unsubscribe_requests' =
         m_unsubscribe_requests \cup (IF op = "UNSUBSCRIBE" THEN {id} ELSE {})
    /\ m_register_requests' =
         m_register_requests \cup (IF op = "REGISTER" THEN {id} ELSE {})
    /\ out' = Sent(op, id, sub)

run_request ==
    /\ Runs("request")
    /\ ioq' = Tail(ioq)
    /\ LET id == Head(ioq).id
       IN  \/ /\ m_session_id = 0
              /\ Escapes("no_session_error")
              /\ UNCHANGED <<pending, out>>
           \/ /\ m_session_id # 0
              /\ EmplaceAndSend(id, request[id].op, request[id].sub)
              /\ io' = io
    /\ UNCHANGED <<promises, life, callees, app, asked, m_onRxError, response,
                   callback, read, received>>

\* A callback makes a request; without a session no_session_error goes to the
\* callback, and the id is used up.
RequestInline(op, sub) ==
    /\ InCallback
    /\ Draw(op, sub)
    /\ \/ m_session_id = 0 /\ UNCHANGED <<pending, out>>
       \/ m_session_id # 0 /\ EmplaceAndSend(m_request_id + 1, op, sub)
    /\ UNCHANGED <<promises, life, callees, thread, asked, m_onRxError, response,
                   callback, ioq, io, read, received>>
-----------------------------------------------------------------------------
(***************************************************************************)
(* wamp_invocation: the reply to an INVOCATION (result, empty_result or    *)
(* error), from the procedure or from the one thread it hands the          *)
(* invocation to.  Nothing guards m_send_result_fn: between the call and   *)
(* the clearing of it on a thread, the io thread may look at it.           *)
(***************************************************************************)

\* An application thread that holds invocation k calls m_send_result_fn ...
Reply(k) ==
    /\ invocation[k] = "sendable"
    /\ InCallback /\ callback.inv = k => EarlyReplies
    /\ invocation' = [invocation EXCEPT ![k] = "sending"]
    /\ ioq' = Append(ioq, Lambda("reply", k))
    /\ UNCHANGED <<promises, life, pending, m_subscription_handlers, m_procedures,
                   app, asked, m_onRxError, response, callback, io, read, received, out>>

\* ... and clears it.
ReplyReturns(k) ==
    /\ invocation[k] = "sending"
    /\ invocation' = [invocation EXCEPT ![k] = "replied"]
    /\ UNCHANGED <<promises, life, pending, m_subscription_handlers, m_procedures,
                   app, asked, m_onRxError, response, callback, ioq, io, read,
                   received, out>>

\* send_result_fn inside a callback of the session: what a thread is sending
\* may be sent once more.
ReplyInline(k) ==
    /\ InCallback
    /\ invocation[k] = "sendable" \/ (EarlyReplies /\ invocation[k] = "sending")
    /\ invocation' = [invocation EXCEPT ![k] = "replied"]
    /\ out' = Sent("REPLY", k, 0)
    /\ UNCHANGED <<promises, life, pending, m_subscription_handlers, m_procedures,
                   app, asked, m_onRxError, response, callback, ioq, io, read, received>>

run_reply ==
    /\ Runs("reply")
    /\ ioq' = Tail(ioq)
    /\ out' = Sent("REPLY", Head(ioq).id, 0)
    /\ UNCHANGED <<promises, life, pending, callees, app, asked, m_onRxError,
                   response, callback, io, read, received>>
-----------------------------------------------------------------------------
(***************************************************************************)
(* The read loop                                                           *)
(***************************************************************************)

\* The reactor completes the outstanding read.
ReadCompletes(ec, frame) ==
    /\ read # "none"
    /\ ec = "invalid" => read = "got_handshake_reply"
    /\ ioq' = Append(ioq, Completion(read, ec, frame))
    /\ read' = "none"
    /\ received' = received + (IF read = "got_message_body" /\ ec = "ok" THEN 1 ELSE 0)
    /\ UNCHANGED <<promises, life, pending, callees, app, asked, m_onRxError,
                   response, callback, io, out>>

\* handleRxError() that stops the session only if no one has asked to stop.
handleRxError_SkipsStop(ec) ==
    /\ m_session_leave' = IF ec = "aborted" THEN m_session_leave ELSE "socket closed"
    /\ m_onRxError' = (m_onRxError \/ ec # "aborted")
    /\ m_stopped' = (m_stopped \/ (ec # "aborted" /\ asked["stop"] = 0))
    /\ m_session_id' = IF ec = "aborted" THEN m_session_id ELSE 0
    /\ ioq' = Tail(ioq)
    /\ UNCHANGED <<m_handshake, m_session_join, m_session_stop, m_goodbye_sent,
                   pending, callees, app, asked, response, callback, io, read,
                   received, out>>

\* handleRxError(): set_value("socket closed"), leave(), stop(), the signal;
\* whichever throws first ends it.
handleRxError(ec) ==
    LET closes  == ec # "aborted" /\ m_session_leave = "unset"
        leaves  == closes /\ LeaveRefusal = "none"
        left    == leaves /\ asked["leave"] = 0
        stops   == left /\ ~m_stopped
        reports == stops /\ asked["stop"] = 0
    IN  /\ m_session_leave' = IF closes THEN "socket closed" ELSE m_session_leave
        /\ m_goodbye_sent' = (m_goodbye_sent \/ leaves)
        /\ m_session_id' = IF leaves THEN 0 ELSE m_session_id
        /\ out' = IF leaves THEN Sent("GOODBYE", 0, 0) ELSE out
        /\ asked' = [op \in LifecycleOps \cup {"start"} |->
                       IF (op = "leave" /\ left) \/ (op = "stop" /\ reports)
                       THEN asked[op] + 1 ELSE asked[op]]
        /\ m_stopped' = (m_stopped \/ stops)
        /\ m_session_stop' = IF stops THEN "value" ELSE m_session_stop
        /\ IF stops THEN CloseStreams(Tail(ioq))
           ELSE ioq' = Tail(ioq) /\ read' = read
        /\ m_onRxError' = (m_onRxError \/ reports)
        /\ io' = IF ec = "aborted" \/ reports THEN io
                 ELSE IF ~closes THEN "promise_already_satisfied"
                 ELSE IF ~leaves THEN LeaveRefusal
                 ELSE IF left /\ ~stops THEN "protocol_error"
                 ELSE "future_already_retrieved"
        /\ UNCHANGED <<m_handshake, m_session_join, pending, callees, app, response,
                       callback, received>>

\* got_handshake_reply that does not enter the read loop.
got_handshake_reply_NoLoop ==
    /\ Runs("got_handshake_reply")
    /\ m_handshake' = IF Head(ioq).ec = "ok" THEN "true" ELSE "false"
    /\ ioq' = Tail(ioq)
    /\ UNCHANGED <<m_session_join, m_session_leave, m_session_stop, life, pending,
                   callees, app, asked, m_onRxError, response, callback, io, read,
                   received, out>>

got_handshake_reply ==
    /\ Runs("got_handshake_reply")
    /\ LET ec == Head(ioq).ec
       IN  \/ /\ ec = "ok"
              /\ m_handshake' = "true"
              /\ AsyncRead("got_message_header", Tail(ioq))
              /\ io' = io
           \/ /\ ec # "ok"
              /\ m_handshake' = "false"
              /\ ioq' = Tail(ioq)
              /\ read' = read
              /\ IF ec = "invalid" THEN Escapes("protocol_error") ELSE io' = io
    /\ UNCHANGED <<m_session_join, m_session_leave, m_session_stop, life, pending,
                   callees, app, asked, m_onRxError, response, callback, received, out>>

got_message_header ==
    /\ Runs("got_message_header")
    /\ LET ec == Head(ioq).ec
       IN  \/ /\ ec = "ok"
              /\ AsyncRead("got_message_body", Tail(ioq))
              /\ UNCHANGED <<promises, life, pending, callees, app, asked, m_onRxError,
                             response, callback, io, received, out>>
           \/ /\ ec # "ok"
              /\ handleRxError(ec)
-----------------------------------------------------------------------------
(***************************************************************************)
(* got_message: one action per kind of message.  Done says how the handler *)
(* goes on: it re-arms the read, or its exception leaves io_service::run.  *)
(***************************************************************************)

Message == Head(ioq).frame

Done == io' = io /\ ReceiveNext(Tail(ioq))
Throws(exception) == Escapes(exception) /\ ioq' = Tail(ioq) /\ read' = read

\* process_welcome that takes the message code for the session id.
process_welcome_WrongField ==
    /\ Message.type = "WELCOME"
    /\ m_session_id' = 2
    /\ m_session_join' = "value"
    /\ Done
    /\ UNCHANGED <<m_handshake, m_session_leave, m_session_stop, m_goodbye_sent,
                   m_stopped, pending, callees, response, callback, out>>

process_welcome ==
    /\ Message.type = "WELCOME"
    /\ \/ /\ Message.shape # "ok"
          /\ Throws("type_error")
          /\ UNCHANGED <<m_session_id, m_session_join>>
       \/ /\ Message.shape = "ok"
          /\ m_session_id' = Message.arg
          /\ m_session_join' = "value"
          /\ IF m_session_join = "unset" THEN Done
             ELSE Throws("promise_already_satisfied")
    /\ UNCHANGED <<m_handshake, m_session_leave, m_session_stop, m_goodbye_sent,
                   m_stopped, pending, callees, response, callback, out>>

\* process_goodbye that answers every GOODBYE, the peer's reply included.
process_goodbye_AlwaysReplies ==
    /\ Message.type = "GOODBYE"
    /\ m_session_id' = 0
    /\ out' = Sent("GOODBYE", 0, 0)
    /\ m_session_leave' = "peer"
    /\ Done
    /\ UNCHANGED <<m_handshake, m_session_join, m_session_stop, m_goodbye_sent,
                   m_stopped, pending, callees, response, callback>>

\* process_goodbye that resolves leave() only when this side initiated it.
process_goodbye_OnlyReplyResolves ==
    /\ Message.type = "GOODBYE"
    /\ m_session_id' = 0
    /\ out' = IF m_goodbye_sent THEN out ELSE Sent("GOODBYE", 0, 0)
    /\ m_session_leave' = IF m_goodbye_sent THEN "peer" ELSE m_session_leave
    /\ Done
    /\ UNCHANGED <<m_handshake, m_session_join, m_session_stop, m_goodbye_sent,
                   m_stopped, pending, callees, response, callback>>

\* process_goodbye that returns at once when this side has said goodbye.
process_goodbye_ReturnsEarly ==
    /\ Message.type = "GOODBYE"
    /\ m_session_id' = 0
    /\ out' = IF m_goodbye_sent THEN out ELSE Sent("GOODBYE", 0, 0)
    /\ m_session_leave' = IF m_goodbye_sent THEN m_session_leave ELSE "peer"
    /\ Done
    /\ UNCHANGED <<m_handshake, m_session_join, m_session_stop, m_goodbye_sent,
                   m_stopped, pending, callees, response, callback>>

process_goodbye ==
    /\ Message.type = "GOODBYE"
    /\ m_session_id' = 0
    /\ out' = IF m_goodbye_sent THEN out ELSE Sent("GOODBYE", 0, 0)
    /\ \/ /\ Message.shape # "ok"
          /\ Throws("type_error")
          /\ m_session_leave' = m_session_leave
       \/ /\ Message.shape = "ok"
          /\ m_session_leave # "unset"
          /\ Throws("promise_already_satisfied")
          /\ m_session_leave' = m_session_leave
       \/ /\ Message.shape = "ok"
          /\ m_session_leave = "unset"
          /\ m_session_leave' = "peer"
          /\ Done
    /\ UNCHANGED <<m_handshake, m_session_join, m_session_stop, m_goodbye_sent,
                   m_stopped, pending, callees, response, callback>>

\* process_error that ignores the ERROR of a CALL as well.
process_error_Ignores ==
    /\ Message.type \in {"CALL_ERROR", "OTHER_ERROR"}
    /\ IF Message.shape = "ok" THEN Done ELSE Throws("protocol_error")
    /\ UNCHANGED <<promises, life, pending, callees, response, callback, out>>

\* process_error: only the ERROR of a CALL reaches a promise.
process_error ==
    /\ Message.type \in {"CALL_ERROR", "OTHER_ERROR"}
    /\ LET id == Message.id
       IN  \/ /\ Message.shape # "ok" \/ (Message.type = "CALL_ERROR" /\ id \notin m_calls)
              /\ Throws("protocol_error")
              /\ response' = response
           \/ /\ Message.shape = "ok" /\ Message.type = "OTHER_ERROR"
              /\ Done
              /\ response' = response
           \/ /\ Message.shape = "ok" /\ Message.type = "CALL_ERROR" /\ id \in m_calls
              /\ IF response[id] = "unset"
                 THEN Done /\ response' = [response EXCEPT ![id] = "error"]
                 ELSE Throws("promise_already_satisfied") /\ response' = response
    /\ UNCHANGED <<promises, life, pending, callees, callback, out>>

\* The RESULT sets the promise; the entry of m_calls stays.
process_call_result ==
    /\ Message.type = "RESULT"
    /\ LET id == Message.id
       IN  \/ /\ Message.shape # "ok" \/ id \notin m_calls
              /\ Throws("protocol_error")
              /\ response' = response
           \/ /\ Message.shape = "ok" /\ id \in m_calls
              /\ IF response[id] = "unset"
                 THEN Done /\ response' = [response EXCEPT ![id] = "value"]
                 ELSE Throws("promise_already_satisfied") /\ response' = response
    /\ UNCHANGED <<promises, life, pending, callees, callback, out>>

\* process_subscribed that leaves the request in the table.
process_subscribed_NotErased ==
    /\ Message.type = "SUBSCRIBED"
    /\ LET id == Message.id
       IN  \/ /\ Message.shape # "ok" \/ id \notin m_subscribe_requests
              /\ Throws("protocol_error")
              /\ UNCHANGED <<m_subscription_handlers, response>>
           \/ /\ Message.shape = "ok" /\ id \in m_subscribe_requests
              /\ m_subscription_handlers' =
                   [m_subscription_handlers EXCEPT ![Message.arg] = Append(@, id)]
              /\ response' = [response EXCEPT ![id] = "value"]
              /\ IF response[id] = "unset" THEN Done
                 ELSE Throws("promise_already_satisfied")
    /\ UNCHANGED <<promises, life, pending, m_procedures, invocation, callback, out>>

\* The handler is inserted, the promise set, the request erased; a promise
\* that is already set would throw before the erasure.
process_subscribed ==
    /\ Message.type = "SUBSCRIBED"
    /\ LET id == Message.id
       IN  \/ /\ Message.shape # "ok" \/ id \notin m_subscribe_requests
              /\ Throws("protocol_error")
              /\ UNCHANGED <<m_subscription_handlers, response, m_subscribe_requests>>
           \/ /\ Message.shape = "ok" /\ id \in m_subscribe_requests
              /\ m_subscription_handlers' =
                   [m_subscription_handlers EXCEPT ![Message.arg] = Append(@, id)]
              /\ response' = [response EXCEPT ![id] = "value"]
              /\ IF response[id] = "unset"
                 THEN Done /\ m_subscribe_requests' = m_subscribe_requests \ {id}
                 ELSE /\ Throws("promise_already_satisfied")
                      /\ m_subscribe_requests' = m_subscribe_requests
    /\ UNCHANGED <<promises, life, m_calls, m_unsubscribe_requests, m_register_requests,
                   m_procedures, invocation, callback, out>>

process_unsubscribed ==
    /\ Message.type = "UNSUBSCRIBED"
    /\ LET id == Message.id
       IN  \/ /\ Message.shape # "ok" \/ id \notin m_unsubscribe_requests
              /\ Throws("protocol_error")
              /\ UNCHANGED <<response, m_unsubscribe_requests>>
           \/ /\ Message.shape = "ok" /\ id \in m_unsubscribe_requests
              /\ response' = [response EXCEPT ![id] = "value"]
              /\ IF response[id] = "unset"
                 THEN Done /\ m_unsubscribe_requests' = m_unsubscribe_requests \ {id}
                 ELSE /\ Throws("promise_already_satisfied")
                      /\ m_unsubscribe_requests' = m_unsubscribe_requests
    /\ UNCHANGED <<promises, life, m_calls, m_subscribe_requests, m_register_requests,
                   callees, callback, out>>

\* EVENT: the io thread enters the handlers of the subscription one by one.
process_event ==
    /\ Message.type = "EVENT"
    /\ LET handlers == m_subscription_handlers[Message.arg]
       IN  \/ /\ Message.shape = "bad" \/ (Message.shape = "late" /\ handlers # <<>>)
              /\ Throws("protocol_error")
              /\ callback' = callback
           \/ /\ Message.shape # "bad" /\ handlers = <<>>
              /\ Done
              /\ callback' = callback
           \/ /\ Message.shape = "ok" /\ handlers # <<>>
              /\ callback' = [inv |-> 0, todo |-> handlers]
              /\ ioq' = Tail(ioq)
              /\ UNCHANGED <<io, read>>
    /\ UNCHANGED <<promises, life, pending, callees, response, out>>

\* The procedure is installed before the promise is set, and the request is
\* not erased: a second REGISTERED installs it again, then throws.
process_registered ==
    /\ Message.type = "REGISTERED"
    /\ LET id == Message.id
       IN  \/ /\ Message.shape # "ok" \/ id \notin m_register_requests
              /\ Throws("protocol_error")
              /\ UNCHANGED <<m_procedures, response>>
           \/ /\ Message.shape = "ok" /\ id \in m_register_requests
              /\ m_procedures' = [m_procedures EXCEPT ![Message.arg] = id]
              /\ response' = [response EXCEPT ![id] = "value"]
              /\ IF response[id] = "unset" THEN Done
                 ELSE Throws("promise_already_satisfied")
    /\ UNCHANGED <<promises, life, pending, m_subscription_handlers, invocation,
                   callback, out>>

\* INVOCATION: the io thread enters the procedure.
process_invocation ==
    /\ Message.type = "INVOCATION"
    /\ LET procedure == m_procedures[Message.arg]
       IN  \/ /\ Message.shape # "ok" \/ procedure = 0
              /\ Throws("protocol_error")
              /\ UNCHANGED <<invocation, callback>>
           \/ /\ Message.shape = "ok" /\ procedure # 0
              /\ invocation' = Append(invocation, "sendable")
              /\ callback' = [inv |-> Len(invocation) + 1, todo |-> <<procedure>>]
              /\ ioq' = Tail(ioq)
              /\ UNCHANGED <<io, read>>
    /\ UNCHANGED <<promises, life, pending, m_subscription_handlers, m_procedures,
                   response, out>>

\* The messages that are ignored, and those no client accepts.
process_other ==
    /\ \/ Message.type = "IGNORED" /\ Done
       \/ Message.type = "UNEXPECTED" /\ Throws("protocol_error")
    /\ UNCHANGED <<promises, life, pending, callees, response, callback, out>>

got_message ==
    /\ \/ process_welcome \/ process_goodbye \/ process_error
       \/ process_call_result \/ process_subscribed \/ process_unsubscribed
       \/ process_event \/ process_registered \/ process_invocation
       \/ process_other
    /\ UNCHANGED <<app, asked, m_onRxError, received>>

got_message_body ==
    /\ Runs("got_message_body")
    /\ \/ Head(ioq).ec = "ok" /\ got_message
       \/ Head(ioq).ec # "ok" /\ handleRxError(Head(ioq).ec)

\* got_message_body that arms the next read after every event handler.
CallbackReturns_RearmsEach ==
    /\ InCallback
    /\ callback' = [inv |-> callback.inv, todo |-> Tail(callback.todo)]
    /\ ReceiveNext(ioq)
    /\ UNCHANGED <<promises, life, pending, callees, app, asked, m_onRxError,
                   response, io, received, out>>

\* A handler returns: the next one runs, or the read loop goes on.
CallbackReturns ==
    /\ InCallback
    /\ callback' = [inv |-> callback.inv, todo |-> Tail(callback.todo)]
    /\ IF Len(callback.todo) > 1 THEN UNCHANGED <<ioq, read>> ELSE ReceiveNext(ioq)
    /\ UNCHANGED <<promises, life, pending, callees, app, asked, m_onRxError,
                   response, io, received, out>>

\* process_invocation that answers a throwing procedure without asking
\* whether the invocation is still sendable.
CallbackThrows_AlwaysAnswers ==
    /\ InCallback
    /\ callback' = [inv |-> callback.inv, todo |-> <<>>]
    /\ LET k == callback.inv
       IN  /\ out' = IF k # 0 THEN Sent("REPLY", k, 0) ELSE out
           /\ invocation' = IF k # 0 THEN [invocation EXCEPT ![k] = "replied"]
                            ELSE invocation
    /\ ReceiveNext(ioq)
    /\ UNCHANGED <<promises, life, pending, m_subscription_handlers, m_procedures,
                   app, asked, m_onRxError, response, io, received>>

\* process_event that lets the exception of a handler end the read loop.
CallbackThrows_EndsLoop ==
    /\ InCallback
    /\ callback' = [inv |-> callback.inv, todo |-> <<>>]
    /\ UNCHANGED <<promises, life, pending, callees, app, asked, m_onRxError,
                   response, ioq, io, read, received, out>>

\* A handler throws: the remaining event handlers are skipped; a procedure's
\* exception becomes an ERROR unless the invocation was replied to.
CallbackThrows ==
    /\ InCallback
    /\ callback' = [inv |-> callback.inv, todo |-> <<>>]
    /\ LET k == callback.inv
           answers == k # 0 /\ invocation[k] # "replied"   \* sendable()
       IN  /\ out' = IF answers THEN Sent("REPLY", k, 0) ELSE out
           /\ invocation' = IF answers THEN [invocation EXCEPT ![k] = "replied"]
                            ELSE invocation
    /\ ReceiveNext(ioq)
    /\ UNCHANGED <<promises, life, pending, m_subscription_handlers, m_procedures,
                   app, asked, m_onRxError, response, io, received>>

\* A procedure throws, sendable() still holds, and the thread that is sending
\* clears m_send_result_fn before error() asks again: the exception of
\* throw_if_not_sendable leaves the catch block.
CatchThrows ==
    /\ EarlyReplies
    /\ InCallback
    /\ LET k == callback.inv
       IN  /\ k # 0
           /\ invocation[k] = "sending"
           /\ invocation' = [invocation EXCEPT ![k] = "replied"]
    /\ callback' = [inv |-> callback.inv, todo |-> <<>>]
    /\ Escapes("runtime_error")
    /\ UNCHANGED <<promises, life, pending, m_subscription_handlers, m_procedures,
                   app, asked, m_onRxError, response, ioq, read, received, out>>
-----------------------------------------------------------------------------
(***************************************************************************)
(* The specification                                                       *)
(***************************************************************************)

\* The peer: bytes of any kind, or the end of the stream.
PeerStep ==
    \/ /\ read \in {"got_handshake_reply", "got_message_header"}
       /\ \E ec \in {"ok", "invalid"} : ReadCompletes(ec, NoFrame)
    \/ /\ read = "got_message_body"
       /\ received < MaxFrames
       /\ \E f \in {g \in FrameSpace : g.type \in FrameTypes} : ReadCompletes("ok", f)
    \/ ReadCompletes("eof", NoFrame)

\* The io thread runs the handler at the head of its queue.
IoStep ==
    \/ \E op \in LifecycleOps : RunLifecycle(op)
    \/ run_request \/ run_reply
    \/ got_handshake_reply \/ got_message_header \/ got_message_body

\* The user code the io thread is in comes to an end.
CallbackEnds == CallbackReturns \/ CallbackThrows \/ CatchThrows

\* The application: its threads, and what its callbacks call.
AppStep ==
    \/ start
    \/ \E op \in LifecycleOps : Ask(op) \/ AskInline(op)
    \/ \E t \in Threads : Dispatch(t)
    \/ \E op \in Ops : \E sub \in Argument(op) :
          \/ \E t \in Threads : DrawOnThread(t, op, sub)
          \/ RequestInline(op, sub)
    \/ \E k \in DOMAIN invocation : Reply(k) \/ ReplyReturns(k) \/ ReplyInline(k)

Next == io = "running" /\ (PeerStep \/ IoStep \/ CallbackEnds \/ AppStep)

\* The io thread keeps running handlers, and callbacks come back.  Nothing is
\* assumed of the peer or of the application.
Fairness == /\ WF_vars(io = "running" /\ IoStep)
            /\ WF_vars(io = "running" /\ CallbackEnds)

Spec == Init /\ [][Next]_vars /\ Fairness
-----------------------------------------------------------------------------
(***************************************************************************)
(* Properties                                                              *)
(***************************************************************************)

Exceptions == {"system_error", "protocol_error", "no_session_error", "type_error",
               "promise_already_satisfied", "future_already_retrieved",
               "runtime_error"}

TypeLife ==
    /\ m_session_id \in SessionIds \cup {0}
    /\ m_goodbye_sent \in BOOLEAN /\ m_stopped \in BOOLEAN
    /\ m_handshake \in {"unset", "true", "false"}
    /\ m_session_join \in {"unset", "value"}
    /\ m_session_leave \in {"unset", "peer", "socket closed"}
    /\ m_session_stop \in {"unset", "value"}
    /\ asked \in [LifecycleOps \cup {"start"} -> Nat]
    /\ m_onRxError \in BOOLEAN
    /\ io \in Exceptions \cup {"running"}

TypeRequests ==
    /\ m_request_id \in 0..MaxRequests
    /\ m_calls \subseteq Ids /\ m_register_requests \subseteq Ids
    /\ m_subscribe_requests \subseteq Ids /\ m_unsubscribe_requests \subseteq Ids
    /\ request \in [Ids -> [op : RequestOps \cup {"none"}, sub : SubIds \cup {0}]]
    /\ response \in [Ids -> {"unset", "value", "error"}]
    /\ thread \in [Threads -> Ids \cup {0}]

TypeCallees ==
    /\ m_subscription_handlers \in [SubIds -> Seq(Ids)]
    /\ m_procedures \in [RegIds -> Ids \cup {0}]
    /\ invocation \in Seq({"sendable", "sending", "replied"})
    /\ callback \in [inv : Nat, todo : Seq(Ids)]
    /\ callback.inv <= Len(invocation)

TypeQueue ==
    /\ ioq \in Seq(Handler)
    /\ read \in ReadHandlers \cup {"none"}
    /\ received \in Nat

MessageTypes == RequestOps \cup {"HELLO", "GOODBYE", "REPLY", "none"}
Messages == [type : MessageTypes, id : Nat, arg : Nat]

TypeOut == out \in Seq(Messages)

\* Type correctness of the members of wamp_session and of what surrounds it.
TypeOK == TypeLife /\ TypeRequests /\ TypeCallees /\ TypeQueue /\ TypeOut

IsCompletion(h) == h.run \in ReadHandlers

\* The read loop is a single thread of control: at any time it is one async_read
\* outstanding, or one completion queued, or the message it delivered in user
\* code, never two of them.  Two reads at once would share m_unpacker and
\* m_buffer_message_length.
OneReadAtATime ==
    /\ \A i, j \in DOMAIN ioq :
          IsCompletion(ioq[i]) /\ IsCompletion(ioq[j]) => i = j
    /\ (\E i \in DOMAIN ioq : IsCompletion(ioq[i])) => read = "none" /\ ~InCallback
    /\ InCallback => read = "none"

\* "goodbye already sent" in leave() is unreachable: while the io thread runs,
\* a session that has sent its own GOODBYE is not joined and never joins again.
GoodbyeEndsSession ==
    io = "running" => ~(m_goodbye_sent /\ m_session_id # 0)

\* set_response() cannot throw for a SUBSCRIBED or UNSUBSCRIBED that finds its
\* request: what the two tables hold has not been answered.
PendingUnanswered ==
    \A i \in m_subscribe_requests \cup m_unsubscribe_requests : response[i] = "unset"

\* A handler is installed, under one subscription and once, exactly when the
\* future of its subscribe() has resolved.
HandlersInstalledOnce ==
    /\ \A i \in Ids :
          (\E s \in SubIds : \E n \in DOMAIN m_subscription_handlers[s] :
              m_subscription_handlers[s][n] = i)
          <=> (request[i].op = "SUBSCRIBE" /\ response[i] = "value")
    /\ \A s, r \in SubIds :
          \A n \in DOMAIN m_subscription_handlers[s], m \in DOMAIN m_subscription_handlers[r] :
              m_subscription_handlers[s][n] = m_subscription_handlers[r][m]
                => s = r /\ n = m

\* Whatever the threads' interleaving between ++m_request_id and dispatch, and
\* whatever callbacks request inline, no request id goes out twice.
RequestIdsUnique ==
    \A i, j \in DOMAIN out :
        /\ out[i].type \in RequestOps /\ out[j].type \in RequestOps
        /\ out[i].id = out[j].id
        => i = j

\* An INVOCATION gets at most one YIELD or ERROR, however its procedure and the
\* thread it hands the invocation to replied, and whether or not it throws
\* afterwards (throw_if_not_sendable, wamp_invocation.ipp:357: "double call?").
OneReply ==
    \A i, j \in DOMAIN out :
        /\ out[i].type = "REPLY" /\ out[j].type = "REPLY"
        /\ out[i].id = out[j].id
        => i = j

\* When handleRxError() emits m_onRxError the session is completely shut down,
\* and stays so: left, stopped, both futures resolved, no read in progress.
ReportedMeansShutDown ==
    m_onRxError =>
        /\ m_stopped /\ m_session_id = 0
        /\ m_session_leave = "socket closed" /\ m_session_stop = "value"
        /\ read = "none" /\ ~InCallback
        /\ \A i \in DOMAIN ioq : ~IsCompletion(ioq[i])

\* The read loop has ended: no read, no completion, no message in user code.
ReadLoopOver == /\ read = "none" /\ ~InCallback
                /\ \A i \in DOMAIN ioq : ~IsCompletion(ioq[i])

\* The read loop is never lost: once start() has armed it and unless the handshake
\* fails, it goes on until the session is stopped or an exception ends the
\* io_service, whatever handlers and procedures throw; and stop() leaves no read
\* behind that would never complete and would keep the session alive.
ReadLoopGoesOn ==
    io = "running" /\ asked["start"] # 0 =>
        IF m_stopped THEN read = "none" ELSE ~ReadLoopOver \/ m_handshake = "false"

\* handleRxError "filters out operation_aborted error, passes all others to
\* m_onRxError signal" (wamp_session.hpp:200): a step that handles a failed
\* read of the loop ends with the signal emitted.
RxErrorsReported ==
    [][LET h == Head(ioq)
       IN  ( /\ ioq # <<>> /\ ~InCallback
             /\ h.run \in {"got_message_header", "got_message_body"}
             /\ h.ec \in {"eof", "bad_descriptor"}
             /\ IoStep )
           => m_onRxError']_vars
=============================================================================
