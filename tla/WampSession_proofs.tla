------------------------- MODULE WampSession_proofs -------------------------
(***************************************************************************)
(* Theorems about wamp_session for every number of threads, requests,      *)
(* frames and subscriptions, and every peer.                               *)
(***************************************************************************)
EXTENDS WampSession, SequenceTheorems, TLAPS

-----------------------------------------------------------------------------
(***************************************************************************)
(* The session's own GOODBYE ends it                                       *)
(***************************************************************************)

\* GoodbyeEndsSession is not inductive: a WELCOME after the GOODBYE would join
\* again.  It cannot do so silently because the join promise was set by the
\* WELCOME that came before the GOODBYE.
LifeInv ==
    /\ m_session_id # 0 => m_session_join = "value"
    /\ m_goodbye_sent => m_session_join = "value"
    /\ GoodbyeEndsSession

lifeVars == <<io, m_session_id, m_goodbye_sent, m_session_join>>

\* Steps that leave the session's membership alone.
LEMMA LifeUnchanged == LifeInv /\ UNCHANGED lifeVars => LifeInv'
  BY DEF LifeInv, lifeVars, GoodbyeEndsSession

\* The same, for a step whose exception ends the io_service.
LEMMA LifeEscape ==
    LifeInv /\ io' # "running" /\ UNCHANGED <<m_session_id, m_goodbye_sent, m_session_join>>
      => LifeInv'
  BY DEF LifeInv, GoodbyeEndsSession

\* Init establishes the invariant.
LEMMA LifeInit == Init => LifeInv
  BY DEF Init, LifeInv, GoodbyeEndsSession

\* leave() and stop(), queued or inline.
LEMMA LifeLifecycle ==
    ASSUME LifeInv, io = "running", NEW op \in LifecycleOps,
           AskInline(op) \/ RunLifecycle(op)
    PROVE  LifeInv'
<1>1. CASE Refusal(op) # "none" /\ RunLifecycle(op)
  <2>1. Refusal(op) \in {"protocol_error", "no_session_error", "none"}
    BY DEF Refusal, JoinRefusal, LeaveRefusal, StopRefusal
  <2> QED  BY <1>1, <2>1, LifeEscape DEF RunLifecycle, Escapes, life
<1>2. CASE \E q : Effect(op, q) /\ Refusal(op) = "none" /\ UNCHANGED <<io, m_session_join>>
  <2> PICK q : Effect(op, q) /\ Refusal(op) = "none" /\ UNCHANGED <<io, m_session_join>>
    BY <1>2
  <2>1. CASE op = "join" /\ JoinEffect(q)
    BY <2>1, LifeUnchanged DEF JoinEffect, lifeVars
  <2>2. CASE op = "leave" /\ LeaveEffect(q)
    BY <2>2 DEF LeaveEffect, LifeInv, GoodbyeEndsSession, Refusal, LeaveRefusal
  <2>3. CASE op = "stop" /\ StopEffect(q)
    BY <2>3, LifeUnchanged DEF StopEffect, lifeVars
  <2> QED  BY <2>1, <2>2, <2>3 DEF Effect
<1> QED  BY <1>1, <1>2 DEF AskInline, RunLifecycle

\* handleRxError() leaves the session, or throws.
LEMMA LifeRxError ==
    ASSUME LifeInv, NEW ec, handleRxError(ec)
    PROVE  LifeInv'
  BY DEF handleRxError, LifeInv, GoodbyeEndsSession, Refusal, LeaveRefusal

\* WELCOME and GOODBYE.
LEMMA LifeMessage ==
    ASSUME LifeInv, io = "running", got_message
    PROVE  LifeInv'
<1>1. CASE process_welcome
  BY <1>1 DEF process_welcome, Throws, Escapes, Done, LifeInv, GoodbyeEndsSession
<1>2. CASE process_goodbye
  BY <1>2 DEF process_goodbye, LifeInv, GoodbyeEndsSession, Throws, Escapes, Done
<1>3. ASSUME UNCHANGED <<promises, life>>
      PROVE  LifeInv'
  BY <1>3 DEF promises, life, LifeInv, GoodbyeEndsSession
<1> QED
  BY <1>1, <1>2, <1>3
  DEF got_message, process_error, process_call_result, process_subscribed,
      process_unsubscribed, process_event, process_registered,
      process_invocation, process_other

\* Every step preserves the invariant.
LEMMA LifeNext == LifeInv /\ [Next]_vars => LifeInv'
<1> SUFFICES ASSUME LifeInv, [Next]_vars PROVE LifeInv'
  OBVIOUS
<1>1. CASE UNCHANGED vars
  BY <1>1, LifeUnchanged DEF vars, lifeVars, promises, life
<1>2. CASE io = "running" /\ PeerStep
  BY <1>2, LifeUnchanged DEF PeerStep, ReadCompletes, lifeVars, promises, life
<1>3. CASE io = "running" /\ IoStep
  <2>1. ASSUME NEW op \in LifecycleOps, RunLifecycle(op) PROVE LifeInv'
    BY <1>3, <2>1, LifeLifecycle
  <2>2. CASE run_request
    <3>1. UNCHANGED <<m_session_id, m_goodbye_sent, m_session_join>>
      BY <2>2 DEF run_request, promises, life
    <3>2. io' \in {io, "no_session_error"}
      BY <2>2 DEF run_request, Escapes
    <3> QED  BY <3>1, <3>2, LifeUnchanged, LifeEscape DEF lifeVars
  <2>3. CASE run_reply
    BY <2>3, LifeUnchanged DEF run_reply, lifeVars, promises, life
  <2>4. CASE got_handshake_reply
    <3>1. UNCHANGED <<m_session_id, m_goodbye_sent, m_session_join>>
      BY <2>4 DEF got_handshake_reply, life
    <3>2. io' \in {io, "protocol_error"}
      BY <2>4 DEF got_handshake_reply, Escapes
    <3> QED  BY <3>1, <3>2, LifeUnchanged, LifeEscape DEF lifeVars
  <2>5. CASE got_message_header
    <3>1. ASSUME NEW ec, handleRxError(ec) PROVE LifeInv'
      BY <3>1, LifeRxError
    <3>2. CASE UNCHANGED <<promises, life, io>>
      BY <3>2, LifeUnchanged DEF promises, life, lifeVars
    <3> QED  BY <2>5, <3>1, <3>2 DEF got_message_header
  <2>6. CASE got_message_body
    BY <1>3, <2>6, LifeMessage, LifeRxError DEF got_message_body
  <2> QED  BY <1>3, <2>1, <2>2, <2>3, <2>4, <2>5, <2>6 DEF IoStep
<1>4. CASE io = "running" /\ CallbackEnds
  <2>1. CASE CatchThrows
    BY <2>1, LifeEscape DEF CatchThrows, Escapes, promises, life
  <2> QED
    BY <1>4, <2>1, LifeUnchanged
    DEF CallbackEnds, CallbackReturns, CallbackThrows, lifeVars, promises, life
<1>5. CASE io = "running" /\ AppStep
  <2>1. ASSUME NEW op \in LifecycleOps, AskInline(op) PROVE LifeInv'
    BY <1>5, <2>1, LifeLifecycle
  <2>2. CASE UNCHANGED <<promises, life, io>>
    BY <2>2, LifeUnchanged DEF promises, life, lifeVars
  <2> QED
    BY <1>5, <2>1, <2>2
    DEF AppStep, start, Ask, Dispatch, DrawOnThread, RequestInline, Reply, ReplyReturns, ReplyInline
<1> QED  BY <1>1, <1>2, <1>3, <1>4, <1>5 DEF Next

\* A session that has sent its own GOODBYE never joins again while the io
\* thread runs: the "goodbye already sent" test of leave() is unreachable, for
\* every peer and every use of the session.
THEOREM GoodbyeEndsSessionThm == Spec => []GoodbyeEndsSession
<1>1. LifeInv => GoodbyeEndsSession
  BY DEF LifeInv
<1> QED  BY <1>1, LifeInit, LifeNext, PTL DEF Spec

-----------------------------------------------------------------------------
(***************************************************************************)
(* Type correctness                                                        *)
(***************************************************************************)

\* A step that leaves the variables of a part alone keeps their types.
LEMMA TypeLifeKept ==
    TypeLife /\ UNCHANGED <<promises, life, asked, m_onRxError, io>> => TypeLife'
  BY DEF TypeLife, promises, life

LEMMA TypeRequestsKept ==
    TypeRequests /\ UNCHANGED <<pending, app, response>> => TypeRequests'
  BY DEF TypeRequests, pending, app

LEMMA TypeCalleesKept ==
    TypeCallees /\ UNCHANGED <<callees, callback>> => TypeCallees'
  BY DEF TypeCallees, callees

LEMMA TypeOutKept == TypeOut /\ UNCHANGED out => TypeOut'
  BY DEF TypeOut

\* A step that only queues a handler, or completes or arms a read.
LEMMA TypeQueued ==
    ASSUME TypeOK, TypeQueue',
           UNCHANGED <<promises, life, pending, callees, app, asked, m_onRxError,
                       response, callback, io, out>>
    PROVE  TypeOK'
<1>1. TypeLife /\ TypeRequests /\ TypeCallees /\ TypeOut
  BY DEF TypeOK
<1>2. TypeLife' /\ TypeRequests'
  BY <1>1, TypeLifeKept, TypeRequestsKept
<1>3. TypeCallees' /\ TypeOut'
  BY <1>1, TypeCalleesKept, TypeOutKept
<1> QED  BY <1>2, <1>3 DEF TypeOK

\* What a message of each kind refers to.
LEMMA FrameFields ==
    ASSUME NEW f \in FrameSpace
    PROVE  /\ f.type = "WELCOME" => f.arg \in SessionIds
           /\ f.type \in {"CALL_ERROR", "RESULT", "SUBSCRIBED", "UNSUBSCRIBED", "REGISTERED"}
                => f.id \in Ids
           /\ f.type \in {"SUBSCRIBED", "EVENT"} => f.arg \in SubIds
           /\ f.type \in {"REGISTERED", "INVOCATION"} => f.arg \in RegIds
  BY DEF FrameSpace

\* The filler of handlers that carry no message is a frame.
LEMMA NoFrameType == NoFrame \in FrameSpace
  BY DEF NoFrame, Frame, FrameSpace

\* The handlers the session queues.
LEMMA HandlerTypes ==
    /\ \A op \in LifecycleOps : Lambda(op, 0) \in Handler
    /\ \A id \in Ids : Lambda("request", id) \in Handler
    /\ \A k \in Nat : Lambda("reply", k) \in Handler
    /\ \A h \in ReadHandlers, ec \in ErrorCodes, f \in FrameSpace :
          Completion(h, ec, f) \in Handler
  BY DEF Lambda, Completion, Handler

\* What a queued handler holds.
LEMMA HandlerFields ==
    ASSUME NEW h \in Handler
    PROVE  /\ h.frame \in FrameSpace
           /\ h.ec \in ErrorCodes
           /\ h.run = "request" => h.id \in Ids
           /\ h.run = "reply" => h.id \in Nat
  BY NoFrameType DEF Handler, LifecycleOps, ReadHandlers, ErrorCodes

\* Ids are positive.
LEMMA IdsNat == Ids \subseteq Nat /\ 0 \notin Ids
  BY BoundsAssumption DEF Ids

\* Init is type correct.
LEMMA TypeInit == Init => TypeOK
<1> SUFFICES ASSUME Init PROVE TypeOK
  OBVIOUS
<1>1. TypeLife
  BY DEF Init, TypeLife
<1>2. TypeRequests
  BY BoundsAssumption DEF Init, TypeRequests, Ids
<1>3. TypeCallees
  BY DEF Init, TypeCallees
<1>4. TypeQueue
  BY DEF Init, TypeQueue
<1>5. TypeOut
  BY DEF Init, TypeOut
<1> QED  BY <1>1, <1>2, <1>3, <1>4, <1>5 DEF TypeOK

\* Sent() appends a message of the right type.
LEMMA SentType ==
    ASSUME TypeOut, NEW t \in MessageTypes,
           NEW id \in Nat, NEW arg \in Nat
    PROVE  Sent(t, id, arg) \in Seq(Messages)
<1>1. [type |-> t, id |-> id, arg |-> arg] \in Messages
  BY DEF Messages
<1> QED  BY <1>1 DEF TypeOut, Sent

\* async_read keeps the queue and the outstanding read well typed.
LEMMA AsyncReadType ==
    ASSUME TypeQueue, NEW q \in Seq(Handler), NEW h \in ReadHandlers, AsyncRead(h, q)
    PROVE  ioq' \in Seq(Handler) /\ read' \in ReadHandlers \cup {"none"}
<1>1. Completion(h, "bad_descriptor", NoFrame) \in Handler
  BY HandlerTypes, NoFrameType DEF ErrorCodes
<1> QED  BY <1>1 DEF AsyncRead, TypeQueue

\* So does closing the streams.
LEMMA CloseStreamsType ==
    ASSUME TypeQueue, NEW q \in Seq(Handler), CloseStreams(q)
    PROVE  ioq' \in Seq(Handler) /\ read' \in ReadHandlers \cup {"none"}
<1>1. read # "none" => Completion(read, "aborted", NoFrame) \in Handler
  BY HandlerTypes, NoFrameType DEF ErrorCodes, TypeQueue
<1> QED  BY <1>1 DEF CloseStreams

\* And the end of got_message_body.
LEMMA ReceiveNextType ==
    ASSUME TypeQueue, NEW q \in Seq(Handler), ReceiveNext(q)
    PROVE  ioq' \in Seq(Handler) /\ read' \in ReadHandlers \cup {"none"}
  BY AsyncReadType DEF ReceiveNext, ReadHandlers, TypeQueue

\* The end of a message handler, by re-arming the read or by an exception.
LEMMA MessageEndType ==
    ASSUME TypeQueue, ioq # <<>>, NEW e, Done \/ Throws(e)
    PROVE  ioq' \in Seq(Handler) /\ read' \in ReadHandlers \cup {"none"}
<1>1. Tail(ioq) \in Seq(Handler)
  BY DEF TypeQueue
<1> QED  BY <1>1, ReceiveNextType DEF Done, Throws, TypeQueue

\* The effects of join(), leave() and stop().
LEMMA EffectType ==
    ASSUME TypeOK, NEW op \in LifecycleOps, NEW q \in Seq(Handler), Effect(op, q)
    PROVE  /\ m_session_id' \in SessionIds \cup {0}
           /\ m_goodbye_sent' \in BOOLEAN /\ m_stopped' \in BOOLEAN
           /\ m_session_stop' \in {"unset", "value"}
           /\ ioq' \in Seq(Handler) /\ read' \in ReadHandlers \cup {"none"}
           /\ out' \in Seq(Messages)
<1>1. CASE op = "join" /\ JoinEffect(q)
  BY <1>1, SentType DEF JoinEffect, TypeOK, TypeLife, TypeQueue, MessageTypes
<1>2. CASE op = "leave" /\ LeaveEffect(q)
  BY <1>2, SentType DEF LeaveEffect, TypeOK, TypeLife, TypeQueue, MessageTypes
<1>3. CASE op = "stop" /\ StopEffect(q)
  BY <1>3, CloseStreamsType DEF StopEffect, TypeOK, TypeLife, TypeOut
<1> QED  BY <1>1, <1>2, <1>3 DEF Effect

\* Counting a call of get_future().
LEMMA AskedType ==
    ASSUME TypeLife, NEW op \in LifecycleOps, asked' = [asked EXCEPT ![op] = @ + 1]
    PROVE  asked' \in [LifecycleOps \cup {"start"} -> Nat]
<1>1. asked \in [LifecycleOps \cup {"start"} -> Nat]
  BY DEF TypeLife
<1>2. asked[op] \in Nat
  BY <1>1
<1> QED  BY <1>1, <1>2

\* join(), leave() and stop() queued by a thread, inline, and run.
LEMMA TypeLifecycle ==
    ASSUME TypeOK, NEW op \in LifecycleOps,
           Ask(op) \/ AskInline(op) \/ RunLifecycle(op)
    PROVE  TypeOK'
<1>1. CASE Ask(op)
  <2>1. ioq' \in Seq(Handler)
    BY <1>1, HandlerTypes DEF Ask, TypeOK, TypeQueue
  <2>2. asked' \in [LifecycleOps \cup {"start"} -> Nat]
    BY <1>1, AskedType DEF Ask, TypeOK
  <2>3. TypeLife' /\ TypeQueue'
    <3>1. UNCHANGED <<promises, life, m_onRxError, io, read, received>>
      BY <1>1 DEF Ask
    <3>2. TypeLife'
      BY <2>2, <3>1 DEF TypeOK, TypeLife, promises, life
    <3>3. TypeQueue'
      BY <2>1, <3>1 DEF TypeOK, TypeQueue
    <3> QED  BY <3>2, <3>3
  <2>4. TypeRequests' /\ TypeCallees' /\ TypeOut'
    BY <1>1, TypeRequestsKept, TypeCalleesKept, TypeOutKept DEF Ask, TypeOK
  <2> QED  BY <2>3, <2>4 DEF TypeOK
<1>2. CASE AskInline(op)
  <2>1. asked' \in [LifecycleOps \cup {"start"} -> Nat]
    BY <1>2, AskedType DEF AskInline, TypeOK
  <2>2. ioq \in Seq(Handler)
    BY DEF TypeOK, TypeQueue
  <2>3. /\ TypeLife' /\ TypeQueue' /\ TypeOut'
    BY <1>2, <2>1, <2>2, EffectType
    DEF AskInline, TypeOK, TypeLife, TypeQueue, TypeOut
  <2>4. TypeRequests' /\ TypeCallees'
    BY <1>2 DEF AskInline, TypeOK, TypeRequests, TypeCallees, pending, callees, app
  <2> QED  BY <2>3, <2>4 DEF TypeOK
<1>3. CASE RunLifecycle(op)
  <2>1. Tail(ioq) \in Seq(Handler)
    BY <1>3 DEF RunLifecycle, Runs, TypeOK, TypeQueue
  <2>2. Refusal(op) \in Exceptions \cup {"none"}
    BY DEF Refusal, JoinRefusal, LeaveRefusal, StopRefusal, Exceptions
  <2>5. TypeLife' /\ TypeQueue' /\ TypeOut'
    <3>1. CASE Refusal(op) = "none"
      <4>1. /\ m_session_id' \in SessionIds \cup {0}
            /\ m_goodbye_sent' \in BOOLEAN /\ m_stopped' \in BOOLEAN
            /\ m_session_stop' \in {"unset", "value"}
            /\ ioq' \in Seq(Handler) /\ read' \in ReadHandlers \cup {"none"}
            /\ out' \in Seq(Messages) /\ io' = io
        BY <1>3, <2>1, <3>1, EffectType DEF RunLifecycle
      <4> QED  BY <1>3, <4>1 DEF RunLifecycle, TypeOK, TypeLife, TypeQueue, TypeOut
    <3>2. CASE Refusal(op) # "none"
      BY <1>3, <2>1, <2>2, <3>2
      DEF RunLifecycle, Escapes, TypeOK, TypeLife, TypeQueue, TypeOut, life
    <3> QED  BY <3>1, <3>2
  <2>6. TypeRequests' /\ TypeCallees'
    BY <1>3 DEF RunLifecycle, TypeOK, TypeRequests, TypeCallees, pending, callees, app
  <2> QED  BY <2>5, <2>6 DEF TypeOK
<1> QED  BY <1>1, <1>2, <1>3

\* start().
LEMMA TypeStart == ASSUME TypeOK, start PROVE TypeOK'
<1>1. asked' \in [LifecycleOps \cup {"start"} -> Nat]
  BY DEF start, TypeOK, TypeLife
<1> QED
  BY <1>1
  DEF start, TypeOK, TypeLife, TypeRequests, TypeCallees, TypeQueue, TypeOut,
      promises, life, pending, callees, app, ReadHandlers

\* Drawing a request id.
LEMMA DrawType ==
    ASSUME TypeOK, NEW op \in Ops, NEW sub \in Argument(op), Draw(op, sub)
    PROVE  /\ m_request_id' = m_request_id + 1
           /\ m_request_id' \in Ids
           /\ request' \in [Ids -> [op : RequestOps \cup {"none"}, sub : SubIds \cup {0}]]
           /\ sub \in Nat /\ op \in RequestOps
<1>1. sub \in SubIds \cup {0} /\ op \in RequestOps
  BY UseAssumption DEF Argument
<1>2. m_request_id' = m_request_id + 1 /\ m_request_id' \in Ids
  BY BoundsAssumption DEF Draw, TypeOK, TypeRequests, Ids
<1>3. [op |-> op, sub |-> sub] \in [op : RequestOps \cup {"none"}, sub : SubIds \cup {0}]
  BY <1>1
<1>4. request' \in [Ids -> [op : RequestOps \cup {"none"}, sub : SubIds \cup {0}]]
  BY <1>2, <1>3 DEF Draw, TypeOK, TypeRequests
<1> QED  BY <1>1, <1>2, <1>4, IdsAssumption

\* A request filed and sent.
LEMMA EmplaceType ==
    ASSUME TypeOK, NEW id \in Ids, NEW op \in RequestOps \cup {"none"}, NEW sub \in Nat,
           EmplaceAndSend(id, op, sub)
    PROVE  /\ m_calls' \subseteq Ids /\ m_register_requests' \subseteq Ids
           /\ m_subscribe_requests' \subseteq Ids /\ m_unsubscribe_requests' \subseteq Ids
           /\ out' \in Seq(Messages)
<1>1. out' \in Seq(Messages)
  BY SentType, IdsNat DEF EmplaceAndSend, MessageTypes, TypeOK
<1> QED  BY <1>1 DEF EmplaceAndSend, TypeOK, TypeRequests

\* A thread draws a request id.
LEMMA TypeDrawOnThread ==
    ASSUME TypeOK, NEW t \in Threads, NEW op \in Ops, NEW sub \in Argument(op),
           DrawOnThread(t, op, sub)
    PROVE  TypeOK'
<1>1. TypeRequests'
  <2>1. thread' \in [Threads -> Ids \cup {0}]
    BY DrawType DEF DrawOnThread, TypeOK, TypeRequests
  <2>2. m_request_id' \in 0..MaxRequests
    BY DrawType, BoundsAssumption DEF DrawOnThread, Ids
  <2> QED  BY <2>1, <2>2, DrawType DEF DrawOnThread, TypeOK, TypeRequests, pending
<1>2. TypeLife' /\ TypeCallees' /\ TypeOut'
  BY TypeLifeKept, TypeCalleesKept, TypeOutKept DEF DrawOnThread, TypeOK
<1>3. TypeQueue'
  BY DEF DrawOnThread, TypeOK, TypeQueue
<1> QED  BY <1>1, <1>2, <1>3 DEF TypeOK

\* Dispatching it.
LEMMA TypeDispatch == ASSUME TypeOK, NEW t \in Threads, Dispatch(t) PROVE TypeOK'
<1>1. thread[t] \in Ids
  BY DEF Dispatch, TypeOK, TypeRequests
<1>2. ioq' \in Seq(Handler)
  BY <1>1, HandlerTypes DEF Dispatch, TypeOK, TypeQueue
<1>3. thread' \in [Threads -> Ids \cup {0}]
  BY DEF Dispatch, TypeOK, TypeRequests
<1>4. TypeRequests' /\ TypeQueue'
  BY <1>2, <1>3 DEF Dispatch, TypeOK, TypeRequests, TypeQueue, pending
<1>5. TypeLife' /\ TypeCallees' /\ TypeOut'
  BY DEF Dispatch, TypeOK, TypeLife, TypeCallees, TypeOut, promises, life, callees
<1> QED  BY <1>4, <1>5 DEF TypeOK

\* Running its lambda, with and without a session.
LEMMA TypeRunRequest == ASSUME TypeOK, run_request PROVE TypeOK'
<1> DEFINE id == Head(ioq).id
<1>1. Head(ioq) \in Handler /\ Tail(ioq) \in Seq(Handler)
  BY DEF run_request, Runs, TypeOK, TypeQueue
<1>2. id \in Ids
  BY <1>1, HandlerFields DEF run_request, Runs
<1>3. request[id].op \in RequestOps \cup {"none"} /\ request[id].sub \in Nat
  <2>1. request[id] \in [op : RequestOps \cup {"none"}, sub : SubIds \cup {0}]
    BY <1>2 DEF TypeOK, TypeRequests
  <2>2. request[id].op \in RequestOps \cup {"none"} /\ request[id].sub \in SubIds \cup {0}
    <3> HIDE DEF id
    <3> QED  BY <2>1
  <2>3. SubIds \cup {0} \subseteq Nat
    BY IdsAssumption
  <2> QED  BY <2>2, <2>3
<1>4. CASE m_session_id = 0
  <2>1. TypeLife'
    BY <1>4 DEF run_request, Escapes, Exceptions, TypeOK, TypeLife, promises, life
  <2>2. TypeRequests' /\ TypeOut'
    BY <1>4, TypeRequestsKept, TypeOutKept DEF run_request, TypeOK
  <2>3. TypeCallees'
    BY <1>4, TypeCalleesKept DEF run_request, TypeOK
  <2>4. TypeQueue'
    BY <1>1, <1>4 DEF run_request, TypeOK, TypeQueue
  <2> QED  BY <2>1, <2>2, <2>3, <2>4 DEF TypeOK
<1>5. CASE m_session_id # 0
  <2>1. EmplaceAndSend(id, request[id].op, request[id].sub) /\ io' = io
    BY <1>5 DEF run_request
  <2>2. /\ m_calls' \subseteq Ids /\ m_register_requests' \subseteq Ids
        /\ m_subscribe_requests' \subseteq Ids /\ m_unsubscribe_requests' \subseteq Ids
        /\ out' \in Seq(Messages)
    BY <1>2, <1>3, <2>1, EmplaceType
  <2>3. TypeRequests' /\ TypeOut'
    BY <2>2 DEF run_request, TypeOK, TypeRequests, TypeOut, app
  <2>4. TypeLife' /\ TypeCallees'
    BY <2>1 DEF run_request, TypeOK, TypeLife, TypeCallees, promises, life, callees
  <2>5. TypeQueue'
    BY <1>1 DEF run_request, TypeOK, TypeQueue
  <2> QED  BY <2>3, <2>4, <2>5 DEF TypeOK
<1> QED  BY <1>4, <1>5

\* Making it from a callback.
LEMMA TypeRequestInline ==
    ASSUME TypeOK, NEW op \in Ops, NEW sub \in Argument(op), RequestInline(op, sub)
    PROVE  TypeOK'
<1>1. Draw(op, sub)
  BY DEF RequestInline
<1>2. m_request_id' \in 0..MaxRequests
  BY <1>1, DrawType, BoundsAssumption DEF Ids
<1>3. /\ m_calls' \subseteq Ids /\ m_register_requests' \subseteq Ids
      /\ m_subscribe_requests' \subseteq Ids /\ m_unsubscribe_requests' \subseteq Ids
      /\ out' \in Seq(Messages)
  <2>1. CASE m_session_id = 0
    BY <2>1 DEF RequestInline, TypeOK, TypeRequests, TypeOut, pending
  <2>2. CASE m_session_id # 0
    BY <1>1, <2>2, DrawType, EmplaceType DEF RequestInline
  <2> QED  BY <2>1, <2>2
<1>4. TypeRequests'
  BY <1>1, <1>2, <1>3, DrawType DEF RequestInline, TypeOK, TypeRequests
<1>5. TypeLife' /\ TypeCallees'
  BY TypeLifeKept, TypeCalleesKept DEF RequestInline, TypeOK
<1>6. TypeQueue' /\ TypeOut'
  BY <1>3 DEF RequestInline, TypeOK, TypeQueue, TypeOut
<1> QED  BY <1>4, <1>5, <1>6 DEF TypeOK

\* An invocation whose reply is under way or done.
LEMMA RepliedType ==
    ASSUME NEW s \in Seq({"sendable", "sending", "replied"}), NEW k \in DOMAIN s,
           NEW status \in {"sending", "replied"}
    PROVE  /\ [s EXCEPT ![k] = status] \in Seq({"sendable", "sending", "replied"})
           /\ Len([s EXCEPT ![k] = status]) = Len(s)
<1>1. k \in 1..Len(s)
  OBVIOUS
<1> QED  BY <1>1, ExceptSeq

\* Replies to invocations.
LEMMA TypeReply ==
    ASSUME TypeOK, NEW k \in DOMAIN invocation,
           Reply(k) \/ ReplyReturns(k) \/ ReplyInline(k)
    PROVE  TypeOK'
<1>1. k \in Nat
  BY DEF TypeOK, TypeCallees
<1>2. invocation' \in Seq({"sendable", "sending", "replied"}) /\ Len(invocation') = Len(invocation)
  <2>1. invocation \in Seq({"sendable", "sending", "replied"})
    BY DEF TypeOK, TypeCallees
  <2>2. PICK status \in {"sending", "replied"} :
          invocation' = [invocation EXCEPT ![k] = status]
    BY DEF Reply, ReplyReturns, ReplyInline
  <2> QED  BY <2>1, <2>2, RepliedType
<1>3. TypeCallees'
  BY <1>2 DEF Reply, ReplyReturns, ReplyInline, TypeOK, TypeCallees
<1>4. TypeQueue'
  BY <1>1, HandlerTypes DEF Reply, ReplyReturns, ReplyInline, TypeOK, TypeQueue
<1>5. TypeOut'
  BY <1>1, SentType DEF Reply, ReplyReturns, ReplyInline, TypeOK, TypeOut, MessageTypes
<1>6. TypeLife' /\ TypeRequests'
  BY TypeLifeKept, TypeRequestsKept DEF Reply, ReplyReturns, ReplyInline, TypeOK
<1> QED  BY <1>3, <1>4, <1>5, <1>6 DEF TypeOK

\* The queued lambda of send_result_fn.
LEMMA TypeRunReply == ASSUME TypeOK, run_reply PROVE TypeOK'
<1>1. Head(ioq) \in Handler /\ Tail(ioq) \in Seq(Handler)
  BY DEF run_reply, Runs, TypeOK, TypeQueue
<1>2. Head(ioq).id \in Nat
  BY <1>1, HandlerFields DEF run_reply, Runs
<1>3. TypeOut'
  BY <1>2, SentType DEF run_reply, TypeOK, TypeOut, MessageTypes
<1>4. TypeLife' /\ TypeRequests' /\ TypeCallees'
  BY TypeLifeKept, TypeRequestsKept, TypeCalleesKept DEF run_reply, TypeOK
<1>5. TypeQueue'
  BY <1>1 DEF run_reply, TypeOK, TypeQueue
<1> QED  BY <1>3, <1>4, <1>5 DEF TypeOK

\* The completion of a read.
LEMMA TypeReadCompletes ==
    ASSUME TypeOK, NEW ec \in ErrorCodes, NEW f \in FrameSpace, ReadCompletes(ec, f)
    PROVE  TypeOK'
<1>1. Completion(read, ec, f) \in Handler
  BY HandlerTypes DEF ReadCompletes, TypeOK, TypeQueue
<1>2. TypeQueue'
  BY <1>1 DEF ReadCompletes, TypeOK, TypeQueue
<1> QED  BY <1>2, TypeQueued DEF ReadCompletes

\* handleRxError().
LEMMA TypeRxError ==
    ASSUME TypeOK, ioq # <<>>, NEW ec, handleRxError(ec)
    PROVE  TypeOK'
<1>1. Tail(ioq) \in Seq(Handler)
  BY DEF TypeOK, TypeQueue
<1>2. ioq' \in Seq(Handler) /\ read' \in ReadHandlers \cup {"none"}
  <2>1. CASE CloseStreams(Tail(ioq))
    BY <1>1, <2>1, CloseStreamsType DEF TypeOK
  <2>2. CASE ioq' = Tail(ioq) /\ read' = read
    BY <1>1, <2>2 DEF TypeOK, TypeQueue
  <2> QED  BY <2>1, <2>2 DEF handleRxError
<1>3. out' \in Seq(Messages)
  BY SentType DEF handleRxError, TypeOK, TypeOut, MessageTypes
<1>4. asked' \in [LifecycleOps \cup {"start"} -> Nat]
  <2>1. asked \in [LifecycleOps \cup {"start"} -> Nat]
    BY DEF TypeOK, TypeLife
  <2>2. \A op \in LifecycleOps \cup {"start"} : asked[op] \in Nat /\ asked[op] + 1 \in Nat
    BY <2>1
  <2> QED  BY <2>2 DEF handleRxError
<1>5. io' \in Exceptions \cup {"running"}
  BY DEF handleRxError, Exceptions, LeaveRefusal, TypeOK, TypeLife
<1>6. /\ m_session_id' \in SessionIds \cup {0}
      /\ m_goodbye_sent' \in BOOLEAN /\ m_stopped' \in BOOLEAN
      /\ m_session_leave' \in {"unset", "peer", "socket closed"}
      /\ m_session_stop' \in {"unset", "value"}
      /\ m_onRxError' \in BOOLEAN
  BY DEF handleRxError, TypeOK, TypeLife
<1>7. UNCHANGED <<m_handshake, m_session_join, pending, callees, app, response,
                  callback, received>>
  BY DEF handleRxError
<1>8. TypeLife'
  BY <1>4, <1>5, <1>6, <1>7 DEF TypeOK, TypeLife
<1>9. TypeRequests' /\ TypeCallees'
  BY <1>7 DEF TypeOK, TypeRequests, TypeCallees, pending, callees, app
<1>10. TypeQueue' /\ TypeOut'
  BY <1>2, <1>3, <1>7 DEF TypeOK, TypeQueue, TypeOut
<1> QED  BY <1>8, <1>9, <1>10 DEF TypeOK

\* The handshake reply.
LEMMA TypeHandshake == ASSUME TypeOK, got_handshake_reply PROVE TypeOK'
<1>1. Tail(ioq) \in Seq(Handler)
  BY DEF got_handshake_reply, Runs, TypeOK, TypeQueue
<1>2. ioq' \in Seq(Handler) /\ read' \in ReadHandlers \cup {"none"}
  <2>1. CASE AsyncRead("got_message_header", Tail(ioq))
    BY <1>1, <2>1, AsyncReadType DEF TypeOK, ReadHandlers
  <2>2. CASE ioq' = Tail(ioq) /\ read' = read
    BY <1>1, <2>2 DEF TypeOK, TypeQueue
  <2> QED  BY <2>1, <2>2 DEF got_handshake_reply
<1>3. m_handshake' \in {"true", "false"} /\ io' \in {io, "protocol_error"}
  BY DEF got_handshake_reply, Escapes
<1>4. TypeLife'
  <2>1. UNCHANGED <<life, m_session_join, m_session_leave, m_session_stop, asked, m_onRxError>>
    BY DEF got_handshake_reply
  <2>2. io' \in Exceptions \cup {"running"}
    BY <1>3 DEF TypeOK, TypeLife, Exceptions
  <2> QED  BY <1>3, <2>1, <2>2 DEF TypeOK, TypeLife, life
<1>5. TypeRequests' /\ TypeCallees' /\ TypeOut'
  <2>1. UNCHANGED <<pending, callees, app, response, callback, out>>
    BY DEF got_handshake_reply
  <2> QED  BY <2>1, TypeRequestsKept, TypeCalleesKept, TypeOutKept DEF TypeOK
<1>6. TypeQueue'
  BY <1>2 DEF got_handshake_reply, TypeOK, TypeQueue
<1> QED  BY <1>4, <1>5, <1>6 DEF TypeOK

\* The header asks for the body, or its error ends the loop.
LEMMA TypeHeader == ASSUME TypeOK, got_message_header PROVE TypeOK'
<1>1. ioq # <<>> /\ Tail(ioq) \in Seq(Handler)
  BY DEF got_message_header, Runs, TypeOK, TypeQueue
<1>2. ASSUME NEW ec, handleRxError(ec) PROVE TypeOK'
  BY <1>1, <1>2, TypeRxError
<1>3. ASSUME AsyncRead("got_message_body", Tail(ioq)),
             UNCHANGED <<promises, life, pending, callees, app, asked, m_onRxError,
                         response, callback, io, received, out>>
      PROVE  TypeOK'
  <2>1. ioq' \in Seq(Handler) /\ read' \in ReadHandlers \cup {"none"}
    BY <1>1, <1>3, AsyncReadType DEF TypeOK, ReadHandlers
  <2>2. TypeQueue'
    BY <1>3, <2>1 DEF TypeOK, TypeQueue
  <2> QED  BY <1>3, <2>2, TypeQueued
<1> QED  BY <1>2, <1>3 DEF got_message_header

\* How a message handler ends is type correct: it goes on, enters user code,
\* or throws.
LEMMA MessageEnds ==
    ASSUME TypeOK, ioq # <<>>, got_message
    PROVE  TypeQueue' /\ io' \in Exceptions \cup {"running"}
<1>1. Tail(ioq) \in Seq(Handler)
  BY DEF TypeOK, TypeQueue
<1>2. \/ Done
      \/ \E e \in Exceptions : Throws(e)
      \/ ioq' = Tail(ioq) /\ UNCHANGED <<io, read>>
  BY DEF got_message, process_welcome, process_goodbye, process_error,
         process_call_result, process_subscribed, process_unsubscribed,
         process_event, process_registered, process_invocation, process_other,
         Exceptions
<1>3. received' = received
  BY DEF got_message
<1>4. ioq' \in Seq(Handler) /\ read' \in ReadHandlers \cup {"none"}
  BY <1>1, <1>2, MessageEndType DEF TypeOK, TypeQueue
<1>5. io' \in Exceptions \cup {"running"}
  BY <1>2 DEF Done, Throws, Escapes, TypeOK, TypeLife
<1> QED  BY <1>3, <1>4, <1>5 DEF TypeOK, TypeQueue

\* The message a queued completion carries.
LEMMA MessageFields ==
    ASSUME TypeOK, ioq # <<>>
    PROVE  Message \in FrameSpace
<1>1. Head(ioq) \in Handler
  BY DEF TypeOK, TypeQueue
<1> QED  BY <1>1, HandlerFields DEF Message

\* Every process_* function is type correct.
LEMMA TypeMessage == ASSUME TypeOK, ioq # <<>>, got_message PROVE TypeOK'
<1>1. TypeQueue' /\ io' \in Exceptions \cup {"running"}
  BY MessageEnds
<1>2. UNCHANGED <<app, asked, m_onRxError>>
  BY DEF got_message
<1>3. Message \in FrameSpace
  BY MessageFields
<1>4. CASE process_welcome
  <2>1. m_session_id' \in SessionIds \cup {0} /\ m_session_join' \in {"unset", "value"}
    BY <1>3, <1>4, FrameFields DEF process_welcome, TypeOK, TypeLife
  <2>2. TypeLife'
    BY <1>1, <1>2, <1>4, <2>1 DEF process_welcome, TypeOK, TypeLife
  <2> QED
    BY <1>1, <1>2, <1>4, <2>2
    DEF process_welcome, TypeOK, TypeRequests, TypeCallees, TypeOut, pending, callees, app
<1>5. CASE process_goodbye
  <2>1. out' \in Seq(Messages)
    BY <1>5, SentType DEF process_goodbye, TypeOK, TypeOut, MessageTypes
  <2>2. m_session_leave' \in {"unset", "peer", "socket closed"}
    BY <1>5 DEF process_goodbye, TypeOK, TypeLife
  <2>3. TypeLife'
    BY <1>1, <1>2, <1>5, <2>2 DEF process_goodbye, TypeOK, TypeLife
  <2> QED
    BY <1>1, <1>2, <1>5, <2>1, <2>3
    DEF process_goodbye, TypeOK, TypeRequests, TypeCallees, TypeOut, pending, callees, app
<1>6. ASSUME UNCHANGED <<promises, life>> PROVE TypeLife'
  BY <1>1, <1>2, <1>6 DEF promises, life, TypeOK, TypeLife
<1>7. CASE process_error \/ process_call_result
  <2>1. response' \in [Ids -> {"unset", "value", "error"}]
    BY <1>3, <1>7, FrameFields
    DEF process_error, process_call_result, TypeOK, TypeRequests
  <2>2. TypeRequests'
    BY <1>2, <1>7, <2>1
    DEF process_error, process_call_result, TypeOK, TypeRequests, pending, app
  <2> QED
    BY <1>1, <1>6, <1>7, <2>2
    DEF process_error, process_call_result, TypeOK, TypeCallees, TypeOut, callees
<1>8. CASE process_subscribed
  <2>1. response' \in [Ids -> {"unset", "value", "error"}]
    BY <1>3, <1>8, FrameFields DEF process_subscribed, TypeOK, TypeRequests
  <2>2. m_subscribe_requests' \subseteq m_subscribe_requests
    BY <1>8 DEF process_subscribed
  <2>3. m_subscription_handlers' \in [SubIds -> Seq(Ids)]
    <3>1. CASE m_subscription_handlers' = m_subscription_handlers
      BY <3>1 DEF TypeOK, TypeCallees
    <3>2. CASE /\ Message.id \in m_subscribe_requests
               /\ m_subscription_handlers' =
                    [m_subscription_handlers EXCEPT ![Message.arg] = Append(@, Message.id)]
      <4>1. Message.id \in Ids /\ Message.arg \in SubIds
        BY <1>3, <1>8, FrameFields DEF process_subscribed
      <4>2. m_subscription_handlers \in [SubIds -> Seq(Ids)]
        BY DEF TypeOK, TypeCallees
      <4>3. Append(m_subscription_handlers[Message.arg], Message.id) \in Seq(Ids)
        BY <4>1, <4>2
      <4> QED  BY <3>2, <4>2, <4>3
    <3> QED  BY <1>8, <3>1, <3>2 DEF process_subscribed
  <2>4. TypeRequests'
    BY <1>2, <1>8, <2>1, <2>2 DEF process_subscribed, TypeOK, TypeRequests, app
  <2>5. TypeCallees'
    BY <1>8, <2>3 DEF process_subscribed, TypeOK, TypeCallees
  <2> QED
    BY <1>1, <1>6, <1>8, <2>4, <2>5 DEF process_subscribed, TypeOK, TypeOut
<1>9. CASE process_unsubscribed
  <2>1. response' \in [Ids -> {"unset", "value", "error"}]
    BY <1>3, <1>9, FrameFields DEF process_unsubscribed, TypeOK, TypeRequests
  <2>2. m_unsubscribe_requests' \subseteq m_unsubscribe_requests
    BY <1>9 DEF process_unsubscribed
  <2>3. TypeRequests'
    BY <1>2, <1>9, <2>1, <2>2 DEF process_unsubscribed, TypeOK, TypeRequests, app
  <2> QED
    BY <1>1, <1>6, <1>9, <2>3
    DEF process_unsubscribed, TypeOK, TypeCallees, TypeOut, callees
<1>10. CASE process_event
  <2>1. callback' \in [inv : Nat, todo : Seq(Ids)] /\ callback'.inv <= Len(invocation)
    <3>1. CASE callback' = callback
      BY <3>1 DEF TypeOK, TypeCallees
    <3>2. CASE callback' = [inv |-> 0, todo |-> m_subscription_handlers[Message.arg]]
      <4>1. Message.arg \in SubIds
        BY <1>3, <1>10, FrameFields DEF process_event
      <4>2. m_subscription_handlers[Message.arg] \in Seq(Ids)
        BY <4>1 DEF TypeOK, TypeCallees
      <4>3. Len(invocation) \in Nat
        BY DEF TypeOK, TypeCallees
      <4> QED  BY <3>2, <4>2, <4>3
    <3> QED  BY <1>10, <3>1, <3>2 DEF process_event
  <2>2. TypeCallees'
    BY <1>10, <2>1 DEF process_event, TypeOK, TypeCallees, callees
  <2>3. TypeRequests'
    BY <1>2, <1>10 DEF process_event, TypeOK, TypeRequests, pending, app
  <2> QED
    BY <1>1, <1>6, <1>10, <2>2, <2>3 DEF process_event, TypeOK, TypeOut
<1>11. CASE process_registered
  <2>1. response' \in [Ids -> {"unset", "value", "error"}]
    BY <1>3, <1>11, FrameFields DEF process_registered, TypeOK, TypeRequests
  <2>2. m_procedures' \in [RegIds -> Ids \cup {0}]
    BY <1>3, <1>11, FrameFields DEF process_registered, TypeOK, TypeCallees
  <2>3. TypeRequests'
    BY <1>2, <1>11, <2>1 DEF process_registered, TypeOK, TypeRequests, pending, app
  <2>4. TypeCallees'
    BY <1>11, <2>2 DEF process_registered, TypeOK, TypeCallees
  <2> QED
    BY <1>1, <1>6, <1>11, <2>3, <2>4 DEF process_registered, TypeOK, TypeOut
<1>12. CASE process_invocation
  <2>1. TypeCallees'
    <3>1. CASE UNCHANGED <<invocation, callback>>
      BY <1>12, <3>1 DEF process_invocation, TypeOK, TypeCallees
    <3>2. CASE /\ m_procedures[Message.arg] # 0
               /\ invocation' = Append(invocation, "sendable")
               /\ callback' = [inv |-> Len(invocation) + 1,
                               todo |-> <<m_procedures[Message.arg]>>]
      <4>1. m_procedures[Message.arg] \in Ids
        BY <1>3, <1>12, <3>2, FrameFields DEF process_invocation, TypeOK, TypeCallees
      <4>2. invocation' \in Seq({"sendable", "sending", "replied"}) /\ Len(invocation') = Len(invocation) + 1
            /\ Len(invocation) \in Nat
        BY <3>2 DEF TypeOK, TypeCallees
      <4>3. <<m_procedures[Message.arg]>> \in Seq(Ids)
        BY <4>1
      <4>4. callback' \in [inv : Nat, todo : Seq(Ids)] /\ callback'.inv <= Len(invocation')
        BY <3>2, <4>2, <4>3
      <4> QED  BY <1>12, <4>2, <4>4 DEF process_invocation, TypeOK, TypeCallees
    <3> QED  BY <1>12, <3>1, <3>2 DEF process_invocation
  <2>2. TypeRequests'
    BY <1>2, <1>12 DEF process_invocation, TypeOK, TypeRequests, pending, app
  <2> QED
    BY <1>1, <1>6, <1>12, <2>1, <2>2 DEF process_invocation, TypeOK, TypeOut
<1>13. CASE process_other
  <2>1. TypeRequests' /\ TypeCallees' /\ TypeOut'
    BY <1>2, <1>13
    DEF process_other, TypeOK, TypeRequests, TypeCallees, TypeOut, pending, callees, app
  <2> QED  BY <1>1, <1>6, <1>13, <2>1 DEF process_other, TypeOK
<1> QED
  BY <1>4, <1>5, <1>7, <1>8, <1>9, <1>10, <1>11, <1>12, <1>13 DEF got_message

\* User code returns or throws.
LEMMA TypeCallback == ASSUME TypeOK, CallbackEnds PROVE TypeOK'
<1>1. ioq \in Seq(Handler) /\ TypeQueue
  BY DEF TypeOK, TypeQueue
<1>2. TypeQueue'
  <2>1. CASE ReceiveNext(ioq)
    BY <1>1, <2>1, ReceiveNextType
    DEF CallbackEnds, CallbackReturns, CallbackThrows, CatchThrows, TypeQueue
  <2>2. CASE UNCHANGED <<ioq, read>>
    BY <1>1, <2>2 DEF CallbackEnds, CallbackReturns, CallbackThrows, CatchThrows, TypeQueue
  <2> QED  BY <2>1, <2>2 DEF CallbackEnds, CallbackReturns, CallbackThrows, CatchThrows
<1>3. /\ invocation' \in Seq({"sendable", "sending", "replied"})
      /\ Len(invocation') = Len(invocation)
  <2>1. invocation \in Seq({"sendable", "sending", "replied"}) /\ callback.inv \in 0..Len(invocation)
    BY DEF TypeOK, TypeCallees
  <2>2. \/ invocation' = invocation
        \/ /\ callback.inv # 0
           /\ invocation' = [invocation EXCEPT ![callback.inv] = "replied"]
    BY DEF CallbackEnds, CallbackReturns, CallbackThrows, CatchThrows, callees
  <2>3. callback.inv # 0 => callback.inv \in DOMAIN invocation
    BY <2>1
  <2> QED  BY <2>1, <2>2, <2>3, RepliedType
<1>4. /\ callback' \in [inv : Nat, todo : Seq(Ids)]
      /\ callback'.inv = callback.inv
  <2>1. callback \in [inv : Nat, todo : Seq(Ids)]
    BY DEF TypeOK, TypeCallees
  <2>2. callback.todo # <<>>
    BY DEF CallbackEnds, CallbackReturns, CallbackThrows, CatchThrows, InCallback
  <2>3. Tail(callback.todo) \in Seq(Ids) /\ <<>> \in Seq(Ids)
    BY <2>1, <2>2
  <2>4. PICK q \in Seq(Ids) : callback' = [inv |-> callback.inv, todo |-> q]
    BY <2>3 DEF CallbackEnds, CallbackReturns, CallbackThrows, CatchThrows
  <2> QED  BY <2>1, <2>4
<1>5. TypeCallees'
  BY <1>3, <1>4
  DEF CallbackEnds, CallbackReturns, CallbackThrows, CatchThrows, TypeOK, TypeCallees, callees
<1>6. TypeOut'
  <2>1. callback.inv \in Nat
    BY DEF TypeOK, TypeCallees
  <2>2. Sent("REPLY", callback.inv, 0) \in Seq(Messages)
    BY <2>1, SentType DEF TypeOK, MessageTypes
  <2> QED  BY <2>2 DEF CallbackEnds, CallbackReturns, CallbackThrows, CatchThrows, TypeOK, TypeOut
<1>7. TypeLife' /\ TypeRequests'
  <2>1. CASE CatchThrows
    <3>1. io' \in Exceptions
      BY <2>1 DEF CatchThrows, Escapes, Exceptions
    <3> QED
      BY <2>1, <3>1, TypeRequestsKept DEF CatchThrows, TypeOK, TypeLife, promises, life
  <2> QED
    BY <2>1, TypeLifeKept, TypeRequestsKept
    DEF CallbackEnds, CallbackReturns, CallbackThrows, TypeOK
<1> QED  BY <1>2, <1>5, <1>6, <1>7 DEF TypeOK

\* Every step is type correct.
LEMMA TypeNext == TypeOK /\ [Next]_vars => TypeOK'
<1> SUFFICES ASSUME TypeOK, [Next]_vars PROVE TypeOK'
  OBVIOUS
<1>1. CASE UNCHANGED vars
  <2>1. TypeQueue'
    BY <1>1 DEF vars, TypeOK, TypeQueue
  <2> QED  BY <1>1, <2>1, TypeQueued DEF vars
<1>2. CASE PeerStep
  BY <1>2, TypeReadCompletes, NoFrameType DEF PeerStep, ErrorCodes
<1>3. CASE IoStep
  <2>1. CASE got_message_body
    <3>1. ioq # <<>>
      BY <2>1 DEF got_message_body, Runs
    <3> QED  BY <2>1, <3>1, TypeMessage, TypeRxError DEF got_message_body
  <2> QED
    BY <1>3, <2>1, TypeLifecycle, TypeRunRequest, TypeRunReply, TypeHandshake, TypeHeader
    DEF IoStep
<1>4. CASE CallbackEnds
  BY <1>4, TypeCallback
<1>5. CASE AppStep
  BY <1>5, TypeStart, TypeLifecycle, TypeDispatch, TypeDrawOnThread, TypeRequestInline,
     TypeReply
  DEF AppStep
<1> QED  BY <1>1, <1>2, <1>3, <1>4, <1>5 DEF Next

\* Type correctness for every peer and every use of the session: the request a
\* queued lambda names has been drawn from the id space, a procedure that is
\* entered was supplied by a provide(), and every escape is a known exception.
THEOREM TypeCorrect == Spec => []TypeOK
  BY TypeInit, TypeNext, PTL DEF Spec

-----------------------------------------------------------------------------
(***************************************************************************)
(* The read loop is a single thread of control                             *)
(***************************************************************************)

NoCompletion(q) == \A i \in DOMAIN q : ~IsCompletion(q[i])
OneCompletion(q) == \A i, j \in DOMAIN q : IsCompletion(q[i]) /\ IsCompletion(q[j]) => i = j

Quiet == read = "none" /\ NoCompletion(ioq) /\ ~InCallback

ReadCore ==
    /\ OneCompletion(ioq)
    /\ ~NoCompletion(ioq) => read = "none" /\ ~InCallback
    /\ InCallback => read = "none"

\* OneReadAtATime with what start() relies on: before it, nothing is read.
ReadInv == ReadCore /\ (asked["start"] = 0 => Quiet)

\* The invariant is the property and more.
LEMMA ReadInvImplies == ReadInv => OneReadAtATime
  BY DEF ReadInv, ReadCore, OneReadAtATime, OneCompletion, NoCompletion

\* Queueing a lambda adds no completion.
LEMMA AppendLambda ==
    ASSUME NEW q \in Seq(Handler), NEW h \in Handler, ~IsCompletion(h)
    PROVE  /\ NoCompletion(q) => NoCompletion(Append(q, h))
           /\ OneCompletion(q) => OneCompletion(Append(q, h))
           /\ ~NoCompletion(Append(q, h)) => ~NoCompletion(q)
<1>1. /\ DOMAIN q = 1..Len(q) /\ DOMAIN Append(q, h) = 1..(Len(q) + 1)
      /\ Append(q, h)[Len(q) + 1] = h
      /\ \A i \in 1..Len(q) : Append(q, h)[i] = q[i]
      /\ Len(q) \in Nat
  OBVIOUS
<1>2. \A i \in 1..(Len(q) + 1) : i \in 1..Len(q) \/ i = Len(q) + 1
  BY <1>1
<1> QED  BY <1>1, <1>2 DEF NoCompletion, OneCompletion

\* Queueing the completion of the only read.
LEMMA AppendCompletion ==
    ASSUME NEW q \in Seq(Handler), NEW h, NoCompletion(q)
    PROVE  OneCompletion(Append(q, h))
<1>1. /\ DOMAIN q = 1..Len(q) /\ DOMAIN Append(q, h) = 1..(Len(q) + 1)
      /\ \A i \in 1..Len(q) : Append(q, h)[i] = q[i]
      /\ Len(q) \in Nat
  OBVIOUS
<1>2. \A i \in 1..(Len(q) + 1) : i \in 1..Len(q) \/ i = Len(q) + 1
  BY <1>1
<1> QED  BY <1>1, <1>2 DEF NoCompletion, OneCompletion

\* Taking the handler at the head of the queue.
LEMMA TakeHandler ==
    ASSUME NEW q \in Seq(Handler), q # <<>>, OneCompletion(q)
    PROVE  /\ Tail(q) \in Seq(Handler)
           /\ OneCompletion(Tail(q))
           /\ ~NoCompletion(Tail(q)) => ~NoCompletion(q)
           /\ IsCompletion(Head(q)) => ~NoCompletion(q) /\ NoCompletion(Tail(q))
<1>1. /\ DOMAIN q = 1..Len(q) /\ DOMAIN Tail(q) = 1..(Len(q) - 1)
      /\ \A i \in 1..(Len(q) - 1) : Tail(q)[i] = q[i + 1]
      /\ Head(q) = q[1] /\ Len(q) \in Nat \ {0}
      /\ Tail(q) \in Seq(Handler)
  OBVIOUS
<1>2. \A i \in 1..(Len(q) - 1) : i + 1 \in 1..Len(q) /\ i + 1 # 1
  BY <1>1
<1>3. \A i, j \in 1..(Len(q) - 1) : i + 1 = j + 1 => i = j
  BY <1>1
<1>4. 1 \in 1..Len(q)
  BY <1>1
<1> QED  BY <1>1, <1>2, <1>3, <1>4 DEF NoCompletion, OneCompletion

\* No operation but start() arms the first read.
LEMMA StartedOnce ==
    ASSUME TypeOK, Next, ~start, asked'["start"] = 0
    PROVE  asked["start"] = 0
<1>1. asked \in [LifecycleOps \cup {"start"} -> Nat]
  BY DEF TypeOK, TypeLife
<1>2. ASSUME NEW op \in LifecycleOps, Ask(op) \/ AskInline(op) PROVE asked["start"] = 0
  BY <1>1, <1>2 DEF Ask, AskInline, LifecycleOps
<1>3. ASSUME NEW ec, handleRxError(ec) PROVE asked["start"] = 0
  BY <1>1, <1>3 DEF handleRxError
<1>4. CASE asked' = asked
  BY <1>4
<1>5. CASE PeerStep
  BY <1>4, <1>5 DEF PeerStep, ReadCompletes
<1>6. CASE IoStep
  BY <1>3, <1>4, <1>6
  DEF IoStep, RunLifecycle, run_request, run_reply, got_handshake_reply,
      got_message_header, got_message_body, got_message
<1>7. CASE CallbackEnds
  BY <1>4, <1>7 DEF CallbackEnds, CallbackReturns, CallbackThrows, CatchThrows
<1>8. CASE AppStep
  BY <1>2, <1>4, <1>8
  DEF AppStep, Dispatch, DrawOnThread, RequestInline, Reply, ReplyReturns, ReplyInline
<1> QED  BY <1>5, <1>6, <1>7, <1>8 DEF Next

\* A step that queues a lambda.
LEMMA ReadAppend ==
    ASSUME TypeOK, ReadCore, NEW h \in Handler, ~IsCompletion(h),
           ioq' = Append(ioq, h), UNCHANGED <<read, callback>>
    PROVE  ReadCore' /\ (Quiet => Quiet')
<1>1. ioq \in Seq(Handler)
  BY DEF TypeOK, TypeQueue
<1>2. InCallback' = InCallback
  BY DEF InCallback
<1>3. /\ NoCompletion(ioq) => NoCompletion(ioq')
      /\ OneCompletion(ioq')
      /\ ~NoCompletion(ioq') => ~NoCompletion(ioq)
  BY <1>1, AppendLambda DEF ReadCore
<1> QED  BY <1>2, <1>3 DEF ReadCore, Quiet

\* A step that leaves the queue, the read and the callback alone.
LEMMA ReadUnchanged ==
    ASSUME ReadCore, UNCHANGED <<ioq, read, callback>>
    PROVE  ReadCore' /\ (Quiet => Quiet')
  BY DEF ReadCore, Quiet, InCallback, NoCompletion, OneCompletion

\* A step that takes a handler from the queue and reads nothing.
LEMMA ReadTake ==
    ASSUME TypeOK, ReadCore, ioq # <<>>, ioq' = Tail(ioq), UNCHANGED <<read, callback>>
    PROVE  ReadCore' /\ (Quiet => Quiet')
<1>1. ioq \in Seq(Handler)
  BY DEF TypeOK, TypeQueue
<1>2. InCallback' = InCallback
  BY DEF InCallback
<1>3. OneCompletion(ioq') /\ (~NoCompletion(ioq') => ~NoCompletion(ioq))
  BY <1>1, TakeHandler DEF ReadCore
<1> QED  BY <1>2, <1>3 DEF ReadCore, Quiet

\* When the loop is at rest, arming a read, closing the streams and going on
\* with the loop leave at most one read.
LEMMA ReadRearm ==
    ASSUME NEW q \in Seq(Handler), NoCompletion(q), read = "none", ~InCallback',
           \/ \E h \in ReadHandlers : AsyncRead(h, q)
           \/ ReceiveNext(q)
           \/ CloseStreams(q)
    PROVE  ReadCore'
<1>1. CASE ioq' = q
  BY <1>1 DEF ReadCore, NoCompletion, OneCompletion
<1>2. CASE \E h : ioq' = Append(q, h) /\ read' = "none"
  <2>1. OneCompletion(ioq')
    BY <1>2, AppendCompletion
  <2> QED  BY <1>2, <2>1 DEF ReadCore
<1> QED  BY <1>1, <1>2 DEF AsyncRead, ReceiveNext, CloseStreams

\* The handler of a completed read finds the loop at rest.
LEMMA CompletionTaken ==
    ASSUME TypeOK, ReadCore, NEW name \in ReadHandlers, Runs(name)
    PROVE  /\ ioq # <<>> /\ Tail(ioq) \in Seq(Handler)
           /\ NoCompletion(Tail(ioq)) /\ read = "none" /\ ~InCallback /\ ~Quiet
<1>1. ioq \in Seq(Handler) /\ ioq # <<>> /\ IsCompletion(Head(ioq))
  BY DEF TypeOK, TypeQueue, Runs, IsCompletion
<1>2. Tail(ioq) \in Seq(Handler) /\ ~NoCompletion(ioq) /\ NoCompletion(Tail(ioq))
  BY <1>1, TakeHandler DEF ReadCore
<1> QED  BY <1>1, <1>2 DEF ReadCore, Quiet

\* handleRxError() ends the loop.
LEMMA ReadRxError ==
    ASSUME NoCompletion(Tail(ioq)), Tail(ioq) \in Seq(Handler), read = "none", ~InCallback,
           NEW ec, handleRxError(ec)
    PROVE  ReadCore'
<1>1. ~InCallback'
  BY DEF handleRxError, InCallback
<1>2. CASE CloseStreams(Tail(ioq))
  BY <1>1, <1>2, ReadRearm
<1>3. CASE ioq' = Tail(ioq) /\ read' = read
  BY <1>1, <1>3 DEF ReadCore, NoCompletion, OneCompletion
<1> QED  BY <1>2, <1>3 DEF handleRxError

\* join(), leave() and stop().
LEMMA ReadLifecycle ==
    ASSUME TypeOK, ReadCore, NEW op \in LifecycleOps,
           Ask(op) \/ AskInline(op) \/ RunLifecycle(op)
    PROVE  ReadCore' /\ (Quiet => Quiet')
<1>1. CASE Ask(op)
  <2>1. Lambda(op, 0) \in Handler /\ ~IsCompletion(Lambda(op, 0))
    BY HandlerTypes DEF Lambda, IsCompletion, LifecycleOps, ReadHandlers
  <2> QED  BY <1>1, <2>1, ReadAppend DEF Ask
<1>2. CASE AskInline(op)
  <2>1. read = "none" /\ callback' = callback
    BY <1>2 DEF AskInline, ReadCore
  <2>2. UNCHANGED <<ioq, read>>
    BY <1>2, <2>1
    DEF AskInline, Effect, JoinEffect, LeaveEffect, StopEffect, CloseStreams
  <2> QED  BY <2>1, <2>2, ReadUnchanged
<1>3. CASE RunLifecycle(op)
  <2>1. ioq # <<>> /\ ~InCallback /\ callback' = callback
    BY <1>3 DEF RunLifecycle, Runs
  <2>2. CASE ioq' = Tail(ioq) /\ read' = read
    BY <2>1, <2>2, ReadTake
  <2>3. CASE CloseStreams(Tail(ioq)) /\ read # "none"
    <3>1. ioq \in Seq(Handler)
      BY DEF TypeOK, TypeQueue
    <3>2. NoCompletion(Tail(ioq)) /\ Tail(ioq) \in Seq(Handler)
      BY <2>1, <2>3, <3>1, TakeHandler DEF ReadCore
    <3>3. OneCompletion(ioq') /\ read' = "none"
      BY <2>3, <3>2, AppendCompletion DEF CloseStreams
    <3>4. ~InCallback'
      BY <2>1 DEF InCallback
    <3> QED  BY <2>3, <3>3, <3>4 DEF ReadCore, Quiet
  <2>4. CASE CloseStreams(Tail(ioq)) /\ read = "none"
    BY <2>1, <2>4, ReadTake DEF CloseStreams
  <2> QED
    BY <1>3, <2>2, <2>3, <2>4
    DEF RunLifecycle, Effect, JoinEffect, LeaveEffect, StopEffect
<1> QED  BY <1>1, <1>2, <1>3

\* The three completion handlers.
LEMMA ReadHandlersRun ==
    ASSUME TypeOK, ReadCore,
           got_handshake_reply \/ got_message_header \/ got_message_body
    PROVE  ReadCore' /\ ~Quiet
<1>1. \E name \in ReadHandlers : Runs(name)
  BY DEF got_handshake_reply, got_message_header, got_message_body, ReadHandlers
<1>2. /\ ioq # <<>> /\ Tail(ioq) \in Seq(Handler)
      /\ NoCompletion(Tail(ioq)) /\ read = "none" /\ ~InCallback /\ ~Quiet
  BY <1>1, CompletionTaken
<1> SUFFICES ReadCore'
  BY <1>2
<1>3. ASSUME ioq' = Tail(ioq), read' = read PROVE ReadCore'
  BY <1>2, <1>3 DEF ReadCore, NoCompletion, OneCompletion
<1>4. ASSUME NEW ec, handleRxError(ec) PROVE ReadCore'
  BY <1>2, <1>4, ReadRxError
<1>5. ASSUME callback' = callback,
             \/ \E h \in ReadHandlers : AsyncRead(h, Tail(ioq))
             \/ ReceiveNext(Tail(ioq))
      PROVE  ReadCore'
  BY <1>2, <1>5, ReadRearm DEF InCallback
<1>6. CASE got_handshake_reply
  BY <1>3, <1>5, <1>6 DEF got_handshake_reply, ReadHandlers
<1>7. CASE got_message_header
  BY <1>4, <1>5, <1>7 DEF got_message_header, ReadHandlers
<1>8. CASE got_message_body
  <2>1. CASE got_message
    <3>1. \/ Done /\ callback' = callback
          \/ ioq' = Tail(ioq) /\ read' = read
      BY <2>1
      DEF got_message, process_welcome, process_goodbye, process_error,
          process_call_result, process_subscribed, process_unsubscribed,
          process_event, process_registered, process_invocation, process_other, Throws
    <3> QED  BY <1>3, <1>5, <3>1 DEF Done
  <2> QED  BY <1>4, <1>8, <2>1 DEF got_message_body
<1> QED  BY <1>6, <1>7, <1>8

\* A callback that returns or throws.
LEMMA ReadCallback ==
    ASSUME TypeOK, ReadCore, CallbackEnds
    PROVE  ReadCore' /\ ~Quiet
<1>1. InCallback /\ read = "none" /\ NoCompletion(ioq) /\ ~Quiet
  BY DEF CallbackEnds, CallbackReturns, CallbackThrows, CatchThrows, ReadCore, Quiet
<1> SUFFICES ReadCore'
  BY <1>1
<1>2. ioq \in Seq(Handler) /\ callback.todo \in Seq(Ids) /\ callback.todo # <<>>
  BY <1>1 DEF TypeOK, TypeQueue, TypeCallees, InCallback
<1>3. CASE UNCHANGED <<ioq, read>>
  BY <1>1, <1>3 DEF ReadCore, NoCompletion, OneCompletion
<1>4. CASE ReceiveNext(ioq) /\ ~InCallback'
  BY <1>1, <1>2, <1>4, ReadRearm
<1>5. CASE CallbackReturns /\ ~(Len(callback.todo) > 1)
  <2>1. Tail(callback.todo) = <<>>
    BY <1>2, <1>5
  <2>2. ~InCallback'
    BY <1>5, <2>1 DEF CallbackReturns, InCallback
  <2> QED  BY <1>4, <1>5, <2>2 DEF CallbackReturns
<1>6. CASE CallbackThrows
  BY <1>4, <1>6 DEF CallbackThrows, InCallback
<1> QED  BY <1>1, <1>3, <1>5, <1>6 DEF CallbackEnds, CallbackReturns, CatchThrows

\* Every step but start() keeps the loop a single thread of control, and leaves
\* it at rest when it is at rest.
LEMMA ReadSteps ==
    ASSUME TypeOK, ReadInv, Next, ~start
    PROVE  ReadCore' /\ (Quiet => Quiet')
<1> DEFINE Goal == ReadCore' /\ (Quiet => Quiet')
<1> SUFFICES Goal
  OBVIOUS
<1>1. CASE PeerStep
  <2>1. PICK ec, f : ReadCompletes(ec, f)
    BY <1>1 DEF PeerStep
  <2>2. ioq \in Seq(Handler) /\ NoCompletion(ioq) /\ ~InCallback /\ ~Quiet
    BY <2>1 DEF ReadCompletes, ReadInv, ReadCore, Quiet, TypeOK, TypeQueue
  <2>3. OneCompletion(ioq')
    BY <2>1, <2>2, AppendCompletion DEF ReadCompletes
  <2>4. ReadCore'
    BY <2>1, <2>2, <2>3 DEF ReadCompletes, ReadCore, InCallback
  <2> QED  BY <2>2, <2>4
<1>2. CASE IoStep
  <2>1. CASE run_request
    BY <2>1, ReadTake DEF run_request, Runs, ReadInv
  <2>2. CASE run_reply
    BY <2>2, ReadTake DEF run_reply, Runs, ReadInv
  <2> QED
    BY <1>2, <2>1, <2>2, ReadLifecycle, ReadHandlersRun DEF IoStep, ReadInv
<1>3. CASE CallbackEnds
  BY <1>3, ReadCallback DEF ReadInv
<1>4. CASE AppStep
  <2>1. ASSUME NEW t \in Threads, Dispatch(t) PROVE Goal
    <3>1. thread[t] \in Ids
      BY <2>1 DEF Dispatch, TypeOK, TypeRequests
    <3>2. /\ Lambda("request", thread[t]) \in Handler
          /\ ~IsCompletion(Lambda("request", thread[t]))
      BY <3>1, HandlerTypes DEF Lambda, IsCompletion, ReadHandlers
    <3> QED  BY <2>1, <3>2, ReadAppend DEF Dispatch, ReadInv
  <2>2. ASSUME NEW k \in DOMAIN invocation, Reply(k) PROVE Goal
    <3>1. k \in Nat
      BY DEF TypeOK, TypeCallees
    <3>2. Lambda("reply", k) \in Handler /\ ~IsCompletion(Lambda("reply", k))
      BY <3>1, HandlerTypes DEF Lambda, IsCompletion, ReadHandlers
    <3> QED  BY <2>2, <3>2, ReadAppend DEF Reply, ReadInv
  <2>3. CASE UNCHANGED <<ioq, read, callback>>
    BY <2>3, ReadUnchanged DEF ReadInv
  <2> QED
    BY <1>4, <2>1, <2>2, <2>3, ReadLifecycle
    DEF AppStep, DrawOnThread, RequestInline, ReplyReturns, ReplyInline, ReadInv
<1> QED  BY <1>1, <1>2, <1>3, <1>4 DEF Next

\* Every step preserves the invariant.
LEMMA ReadNext == TypeOK /\ ReadInv /\ [Next]_vars => ReadInv'
<1> SUFFICES ASSUME TypeOK, ReadInv, [Next]_vars PROVE ReadInv'
  OBVIOUS
<1>1. CASE UNCHANGED vars
  BY <1>1, ReadUnchanged DEF ReadInv, vars
<1>2. CASE Next /\ start
  <2>1. Quiet /\ asked'["start"] # 0
    <3>1. asked \in [LifecycleOps \cup {"start"} -> Nat]
      BY DEF TypeOK, TypeLife
    <3>2. asked' = [asked EXCEPT !["start"] = 1] /\ asked["start"] = 0
      BY <1>2 DEF start
    <3> QED  BY <3>1, <3>2 DEF ReadInv
  <2>2. ~InCallback' /\ NoCompletion(ioq')
    BY <1>2, <2>1 DEF start, Quiet, InCallback, NoCompletion
  <2> QED  BY <2>1, <2>2 DEF ReadInv, ReadCore, NoCompletion, OneCompletion
<1>3. CASE Next /\ ~start
  BY <1>3, ReadSteps, StartedOnce DEF ReadInv
<1> QED  BY <1>1, <1>2, <1>3

\* For every peer and every use of the session there is never more than one
\* read in progress, so m_unpacker and m_buffer_message_length have one user.
THEOREM OneReadAtATimeThm == Spec => []OneReadAtATime
<1>1. Init => ReadInv
  BY DEF Init, ReadInv, ReadCore, Quiet, InCallback, NoCompletion, OneCompletion
<1> QED
  BY <1>1, TypeInit, TypeNext, ReadNext, ReadInvImplies, PTL DEF Spec

-----------------------------------------------------------------------------
(***************************************************************************)
(* A read error that is reported leaves the session shut down              *)
(***************************************************************************)

\* ReportedMeansShutDown stays true because nothing arms a read any more: the
\* session is stopped and the loop at rest.
Reported ==
    m_onRxError =>
        /\ m_stopped /\ m_session_id = 0
        /\ m_session_leave = "socket closed" /\ m_session_stop = "value"
        /\ Quiet

\* The step that emits the signal.
LEMMA ReportsRxError ==
    ASSUME TypeOK, ReadInv, Reported, NEW name \in ReadHandlers, Runs(name),
           NEW ec, handleRxError(ec)
    PROVE  Reported'
<1>1. /\ NoCompletion(Tail(ioq)) /\ read = "none" /\ ~InCallback /\ ~Quiet
  BY CompletionTaken DEF ReadInv
<1>2. SUFFICES ASSUME m_onRxError' PROVE Reported'
  BY DEF Reported
<1>3. /\ ec # "aborted" /\ m_session_leave = "unset" /\ LeaveRefusal = "none"
      /\ asked["leave"] = 0 /\ ~m_stopped /\ asked["stop"] = 0
  BY <1>1, <1>2 DEF Reported, handleRxError
<1>4. /\ m_stopped' /\ m_session_id' = 0 /\ m_session_leave' = "socket closed"
      /\ m_session_stop' = "value" /\ callback' = callback
      /\ CloseStreams(Tail(ioq))
  BY <1>3 DEF handleRxError
<1>5. Quiet'
  BY <1>1, <1>4 DEF CloseStreams, Quiet, InCallback, NoCompletion
<1> QED  BY <1>4, <1>5 DEF Reported

\* Steps after the signal.
LEMMA ReportedStays ==
    ASSUME TypeOK, ReadInv, Reported, m_onRxError, Next
    PROVE  Reported'
<1>1. /\ m_stopped /\ m_session_id = 0
      /\ m_session_leave = "socket closed" /\ m_session_stop = "value" /\ Quiet
  BY DEF Reported
<1>2. ~start
  BY <1>1 DEF start
<1>3. Quiet'
  BY <1>1, <1>2, ReadSteps
<1>4. SUFFICES UNCHANGED <<m_stopped, m_session_id, m_session_leave, m_session_stop>>
  BY <1>1, <1>3 DEF Reported
<1>5. ASSUME NEW op \in LifecycleOps, RunLifecycle(op)
      PROVE  UNCHANGED <<m_stopped, m_session_id, m_session_leave, m_session_stop>>
  <2>1. op # "join" => Refusal(op) # "none"
    BY <1>1 DEF Refusal, LeaveRefusal, StopRefusal, LifecycleOps
  <2> QED
    BY <1>5, <2>1 DEF RunLifecycle, Effect, JoinEffect, LeaveEffect, StopEffect, life
<1>6. CASE IoStep
  BY <1>1, <1>5, <1>6, ReadHandlersRun
  DEF IoStep, run_request, run_reply, promises, life, ReadInv
<1>7. CASE AppStep
  BY <1>1, <1>2, <1>7
  DEF AppStep, Ask, AskInline, Dispatch, DrawOnThread, RequestInline, Reply,
      ReplyReturns, ReplyInline, Quiet, promises, life
<1>8. ~PeerStep /\ ~CallbackEnds
  BY <1>1 DEF PeerStep, ReadCompletes, CallbackEnds, CallbackReturns, CallbackThrows, CatchThrows, Quiet
<1> QED  BY <1>6, <1>7, <1>8 DEF Next

\* Every step preserves the invariant.
LEMMA ReportedNext == TypeOK /\ ReadInv /\ Reported /\ [Next]_vars => Reported'
<1> SUFFICES ASSUME TypeOK, ReadInv, Reported, [Next]_vars PROVE Reported'
  OBVIOUS
<1>1. CASE UNCHANGED vars
  BY <1>1 DEF Reported, Quiet, InCallback, NoCompletion, vars, promises, life
<1>2. CASE m_onRxError /\ Next
  BY <1>2, ReportedStays
<1>3. CASE ~m_onRxError /\ Next
  <2>1. ASSUME ~m_onRxError' PROVE Reported'
    BY <2>1 DEF Reported
  <2>2. ASSUME NEW name \in ReadHandlers, Runs(name), NEW ec, handleRxError(ec)
        PROVE  Reported'
    BY <2>2, ReportsRxError
  <2>3. CASE IoStep
    BY <1>3, <2>1, <2>2, <2>3
    DEF IoStep, RunLifecycle, run_request, run_reply, got_handshake_reply,
        got_message_header, got_message_body, got_message, ReadHandlers
  <2>4. CASE PeerStep \/ CallbackEnds \/ AppStep
    BY <1>3, <2>1, <2>4
    DEF PeerStep, ReadCompletes, CallbackEnds, CallbackReturns, CallbackThrows, CatchThrows,
        AppStep, start, Ask, AskInline, Dispatch, DrawOnThread, RequestInline, Reply,
        ReplyReturns, ReplyInline
  <2> QED  BY <1>3, <2>3, <2>4 DEF Next
<1> QED  BY <1>1, <1>2, <1>3

LEMMA ReportedImplies == Reported => ReportedMeansShutDown
  BY DEF Reported, ReportedMeansShutDown, Quiet, NoCompletion

\* When m_onRxError has been emitted the session is left and stopped, with both
\* futures resolved and nothing reading, and stays so, for every peer and every
\* use of the session.
THEOREM ReportedMeansShutDownThm == Spec => []ReportedMeansShutDown
<1>1. Init => ReadInv /\ Reported
  BY DEF Init, ReadInv, ReadCore, Quiet, InCallback, NoCompletion, OneCompletion, Reported
<1> QED
  BY <1>1, TypeInit, TypeNext, ReadNext, ReportedNext, ReportedImplies, PTL DEF Spec

-----------------------------------------------------------------------------
(***************************************************************************)
(* The read loop goes on                                                   *)
(***************************************************************************)

\* A read that was aborted has its completion in the queue q.
Aborts(q) == \E i \in DOMAIN q : IsCompletion(q[i]) /\ q[i].ec = "aborted"

\* ReadLoopGoesOn with what handleRxError() relies on when it filters
\* operation_aborted out: only stop() aborts a read.
LoopInv ==
    /\ m_stopped => read = "none"
    /\ Aborts(ioq) => m_stopped
    /\ ReadLoopGoesOn

\* What is queued at the end, and what is taken from the head.
LEMMA LoopAppend ==
    ASSUME NEW q \in Seq(Handler), NEW h
    PROVE  /\ ~NoCompletion(q) \/ IsCompletion(h) => ~NoCompletion(Append(q, h))
           /\ Aborts(Append(q, h)) => Aborts(q) \/ (IsCompletion(h) /\ h.ec = "aborted")
<1>1. /\ DOMAIN q = 1..Len(q) /\ DOMAIN Append(q, h) = 1..(Len(q) + 1)
      /\ Append(q, h)[Len(q) + 1] = h
      /\ \A i \in 1..Len(q) : Append(q, h)[i] = q[i]
      /\ Len(q) \in Nat
  OBVIOUS
<1>2. \A i \in 1..(Len(q) + 1) : i \in 1..Len(q) \/ i = Len(q) + 1
  BY <1>1
<1>3. Len(q) + 1 \in 1..(Len(q) + 1) /\ \A i \in 1..Len(q) : i \in 1..(Len(q) + 1)
  BY <1>1
<1> QED  BY <1>1, <1>2, <1>3 DEF NoCompletion, Aborts

LEMMA LoopTail ==
    ASSUME NEW q \in Seq(Handler), q # <<>>
    PROVE  /\ Tail(q) \in Seq(Handler)
           /\ ~NoCompletion(q) /\ ~IsCompletion(Head(q)) => ~NoCompletion(Tail(q))
           /\ Aborts(Tail(q)) => Aborts(q)
           /\ IsCompletion(Head(q)) /\ Head(q).ec = "aborted" => Aborts(q)
<1>1. /\ DOMAIN q = 1..Len(q) /\ DOMAIN Tail(q) = 1..(Len(q) - 1)
      /\ \A i \in 1..(Len(q) - 1) : Tail(q)[i] = q[i + 1]
      /\ Head(q) = q[1] /\ Len(q) \in Nat \ {0}
      /\ Tail(q) \in Seq(Handler)
  OBVIOUS
<1>2. /\ \A i \in 1..(Len(q) - 1) : i + 1 \in 1..Len(q)
      /\ 1 \in 1..Len(q)
  BY <1>1
<1>3. ASSUME NEW i \in 1..Len(q), IsCompletion(q[i]), ~IsCompletion(Head(q))
      PROVE  ~NoCompletion(Tail(q))
  <2>1. i - 1 \in 1..(Len(q) - 1) /\ (i - 1) + 1 = i
    BY <1>1, <1>3
  <2> QED  BY <1>1, <1>3, <2>1 DEF NoCompletion
<1> QED  BY <1>1, <1>2, <1>3 DEF NoCompletion, Aborts

LEMMA QuietIsOver == Quiet <=> ReadLoopOver
  BY DEF Quiet, ReadLoopOver, NoCompletion

\* How a step may leave the loop.
LEMMA LoopLeft ==
    ASSUME m_stopped' => read' = "none", Aborts(ioq') => m_stopped',
           \/ io' # "running" \/ m_stopped' \/ m_handshake' = "false"
           \/ ~Quiet' \/ asked'["start"] = 0
    PROVE  LoopInv'
  BY QuietIsOver DEF LoopInv, ReadLoopGoesOn, Quiet, ReadLoopOver, NoCompletion

\* The loop is left alone.
LEMMA LoopKept ==
    ASSUME LoopInv, UNCHANGED <<m_stopped, m_handshake, read, callback>>,
           asked'["start"] = asked["start"], io = "running",
           ~NoCompletion(ioq) => ~NoCompletion(ioq'), Aborts(ioq') => Aborts(ioq)
    PROVE  LoopInv'
<1>1. ~Quiet => ~Quiet'
  BY DEF Quiet, InCallback
<1>2. m_stopped \/ m_handshake = "false" \/ ~Quiet \/ asked["start"] = 0
  BY QuietIsOver DEF LoopInv, ReadLoopGoesOn
<1> QED  BY <1>1, <1>2, LoopLeft DEF LoopInv

LEMMA LoopLambda ==
    ASSUME TypeOK, LoopInv, UNCHANGED <<m_stopped, m_handshake, read, callback>>,
           asked'["start"] = asked["start"], io = "running",
           \/ ioq' = ioq
           \/ \E h : ~IsCompletion(h) /\ ioq' = Append(ioq, h)
           \/ ioq # <<>> /\ ~IsCompletion(Head(ioq)) /\ ioq' = Tail(ioq)
    PROVE  LoopInv'
<1>1. ioq \in Seq(Handler)
  BY DEF TypeOK, TypeQueue
<1> QED  BY <1>1, LoopKept, LoopAppend, LoopTail

\* The next read is armed, with q the queue that is left: on a stopped session
\* it completes at once.
LEMMA LoopArmed ==
    ASSUME LoopInv, NEW q \in Seq(Handler), Aborts(q) => m_stopped, m_stopped' = m_stopped,
           (\E h \in ReadHandlers : AsyncRead(h, q)) \/ ReceiveNext(q)
    PROVE  LoopInv'
<1>1. CASE m_stopped
  <2>1. read' = "none"
    BY <1>1 DEF LoopInv, AsyncRead, ReceiveNext
  <2> QED  BY <1>1, <2>1, LoopLeft
<1>2. CASE ~m_stopped
  <2>1. ioq' = q /\ read' \in ReadHandlers
    BY <1>2 DEF AsyncRead, ReceiveNext, ReadHandlers
  <2> QED  BY <1>2, <2>1, LoopLeft DEF Quiet, ReadHandlers
<1> QED  BY <1>1, <1>2

\* stop() closes the streams.
LEMMA LoopStopped == ASSUME m_stopped', NEW q, CloseStreams(q) PROVE LoopInv'
  BY LoopLeft DEF CloseStreams

LEMMA LoopLifecycle ==
    ASSUME TypeOK, LoopInv, io = "running", NEW op \in LifecycleOps,
           Ask(op) \/ AskInline(op) \/ RunLifecycle(op)
    PROVE  LoopInv'
<1>1. asked'["start"] = asked["start"] /\ m_handshake' = m_handshake
  <2>1. asked \in [LifecycleOps \cup {"start"} -> Nat] /\ op # "start"
    BY DEF TypeOK, TypeLife, LifecycleOps
  <2> QED  BY <2>1 DEF Ask, AskInline, RunLifecycle, promises
<1>2. CASE Ask(op)
  <2>1. ~IsCompletion(Lambda(op, 0))
    BY DEF Lambda, IsCompletion, LifecycleOps, ReadHandlers
  <2> QED  BY <1>1, <1>2, <2>1, LoopLambda DEF Ask, life
<1>3. CASE AskInline(op) \/ RunLifecycle(op)
  <2>1. callback' = callback
    BY <1>3 DEF AskInline, RunLifecycle
  <2>2. RunLifecycle(op) => ioq # <<>> /\ ~IsCompletion(Head(ioq))
    BY DEF RunLifecycle, Runs, IsCompletion, LifecycleOps, ReadHandlers
  <2>3. PICK q : \/ AskInline(op) /\ q = ioq
                 \/ RunLifecycle(op) /\ q = Tail(ioq)
    BY <1>3
  <2>4. CASE m_stopped' = m_stopped /\ ioq' = q /\ read' = read
    BY <1>1, <2>1, <2>2, <2>3, <2>4, LoopLambda
  <2>5. CASE m_stopped' /\ CloseStreams(q)
    BY <2>5, LoopStopped
  <2>6. CASE Effect(op, q)
    <3>1. \/ m_stopped' = m_stopped /\ ioq' = q /\ read' = read
          \/ m_stopped' /\ CloseStreams(q)
      BY <2>6 DEF Effect, JoinEffect, LeaveEffect, StopEffect
    <3> QED  BY <2>4, <2>5, <3>1
  <2>7. CASE RunLifecycle(op) /\ q = Tail(ioq) /\ Refusal(op) # "none"
    <3>1. ioq' = q /\ UNCHANGED <<life, m_session_stop, read, out>>
      BY <2>7 DEF RunLifecycle
    <3> QED  BY <2>4, <3>1 DEF life
  <2>8. Effect(op, q) \/ (RunLifecycle(op) /\ q = Tail(ioq) /\ Refusal(op) # "none")
    BY <2>3 DEF AskInline, RunLifecycle
  <2> QED  BY <2>6, <2>7, <2>8
<1> QED  BY <1>2, <1>3

\* handleRxError() stops the session, throws, or finds it stopped.
LEMMA LoopRxError ==
    ASSUME TypeOK, LoopInv, ioq # <<>>, IsCompletion(Head(ioq)), handleRxError(Head(ioq).ec)
    PROVE  LoopInv'
<1> DEFINE ec == Head(ioq).ec
           closes == ec # "aborted" /\ m_session_leave = "unset"
           leaves == closes /\ LeaveRefusal = "none"
           left == leaves /\ asked["leave"] = 0
           stops == left /\ ~m_stopped
           reports == stops /\ asked["stop"] = 0
<1>1. /\ m_stopped' = (m_stopped \/ stops)
      /\ IF stops THEN CloseStreams(Tail(ioq)) ELSE ioq' = Tail(ioq) /\ read' = read
      /\ io' = IF ec = "aborted" \/ reports THEN io
               ELSE IF ~closes THEN "promise_already_satisfied"
               ELSE IF ~leaves THEN LeaveRefusal
               ELSE IF left /\ ~stops THEN "protocol_error"
               ELSE "future_already_retrieved"
  BY DEF handleRxError
<1>2. ioq \in Seq(Handler)
  BY DEF TypeOK, TypeQueue
<1>3. /\ Aborts(Tail(ioq)) => m_stopped
      /\ ec = "aborted" => m_stopped
  BY <1>2, LoopTail DEF LoopInv
<1>4. LeaveRefusal # "running"
  BY DEF LeaveRefusal
<1>5. CASE stops
  <2>1. m_stopped' /\ CloseStreams(Tail(ioq))
    BY <1>1, <1>5
  <2> QED  BY <2>1, LoopStopped
<1>6. CASE ~stops
  <2>1. /\ m_stopped => m_stopped'
        /\ m_stopped' => m_stopped
        /\ ioq' = Tail(ioq) /\ read' = read
    BY <1>1, <1>6
  <2>2. m_stopped' \/ io' # "running"
    <3>1. CASE ec = "aborted"
      BY <1>3, <2>1, <3>1
    <3>2. CASE ec # "aborted"
      BY <1>1, <1>4, <1>6, <3>2
    <3> QED  BY <3>1, <3>2
  <2>3. m_stopped' => read' = "none"
    BY <2>1 DEF LoopInv
  <2>4. Aborts(ioq') => m_stopped'
    BY <1>3, <2>1
  <2> QED  BY <2>2, <2>3, <2>4, LoopLeft
<1> QED  BY <1>5, <1>6

\* A message is handled and the next read armed, or its handler enters user
\* code, or it throws.
LEMMA LoopMessage ==
    ASSUME TypeOK, LoopInv, ioq # <<>>, got_message
    PROVE  LoopInv'
<1>1. ioq \in Seq(Handler) /\ Tail(ioq) \in Seq(Handler)
  BY DEF TypeOK, TypeQueue
<1>2. Aborts(Tail(ioq)) => m_stopped
  BY <1>1, LoopTail DEF LoopInv
<1>3. m_stopped' = m_stopped
  BY DEF got_message, process_welcome, process_goodbye, process_error,
         process_call_result, process_subscribed, process_unsubscribed,
         process_event, process_registered, process_invocation, process_other, life
<1> DEFINE Thrown == \E e \in Exceptions : Throws(e)
           Enters == ioq' = Tail(ioq) /\ read' = read /\ callback'.todo # <<>>
<1>4. Done \/ Thrown \/ Enters
  <2>1. /\ Throws("type_error") => Thrown
        /\ Throws("protocol_error") => Thrown
        /\ Throws("promise_already_satisfied") => Thrown
    BY DEF Exceptions
  <2> HIDE DEF Thrown
  <2>2. CASE process_event
    BY <2>1, <2>2 DEF process_event
  <2>3. CASE process_invocation
    <3>1. \/ Throws("protocol_error")
          \/ /\ ioq' = Tail(ioq) /\ read' = read
             /\ callback' = [inv  |-> Len(invocation) + 1,
                             todo |-> <<m_procedures[Message.arg]>>]
      BY <2>3 DEF process_invocation
    <3>2. \A x, y : [inv |-> x, todo |-> <<y>>].todo # <<>>
      OBVIOUS
    <3> QED  BY <2>1, <3>1, <3>2
  <2>4. CASE process_welcome \/ process_goodbye \/ process_error \/ process_call_result
    BY <2>1, <2>4 DEF process_welcome, process_goodbye, process_error, process_call_result
  <2>5. CASE process_subscribed \/ process_unsubscribed \/ process_registered
             \/ process_other
    BY <2>1, <2>5 DEF process_subscribed, process_unsubscribed, process_registered,
       process_other
  <2> QED  BY <2>2, <2>3, <2>4, <2>5 DEF got_message
<1>5. CASE Done
  BY <1>1, <1>2, <1>3, <1>5, LoopArmed DEF Done
<1>6. CASE Enters
  BY <1>2, <1>3, <1>6, LoopLeft DEF LoopInv, Quiet, InCallback
<1>7. CASE Thrown
  BY <1>2, <1>3, <1>7, LoopLeft DEF LoopInv, Throws, Escapes, Exceptions
<1> QED  BY <1>4, <1>5, <1>6, <1>7

\* The completion handlers.
LEMMA LoopHandlers ==
    ASSUME TypeOK, LoopInv, got_handshake_reply \/ got_message_header \/ got_message_body
    PROVE  LoopInv'
<1>1. /\ ioq \in Seq(Handler) /\ ioq # <<>> /\ Tail(ioq) \in Seq(Handler)
      /\ IsCompletion(Head(ioq))
  BY DEF TypeOK, TypeQueue, got_handshake_reply, got_message_header, got_message_body,
         Runs, IsCompletion, ReadHandlers
<1>2. Aborts(Tail(ioq)) => m_stopped
  BY <1>1, LoopTail DEF LoopInv
<1>3. CASE got_handshake_reply
  <2>1. m_stopped' = m_stopped
    BY <1>3 DEF got_handshake_reply, life
  <2>2. CASE AsyncRead("got_message_header", Tail(ioq))
    BY <1>1, <1>2, <2>1, <2>2, LoopArmed DEF ReadHandlers
  <2>3. CASE m_handshake' = "false" /\ ioq' = Tail(ioq) /\ read' = read
    BY <1>2, <2>1, <2>3, LoopLeft DEF LoopInv
  <2> QED  BY <1>3, <2>2, <2>3 DEF got_handshake_reply
<1>4. CASE got_message_header
  <2>1. CASE AsyncRead("got_message_body", Tail(ioq)) /\ m_stopped' = m_stopped
    BY <1>1, <1>2, <2>1, LoopArmed DEF ReadHandlers
  <2> QED  BY <1>1, <1>4, <2>1, LoopRxError DEF got_message_header, life
<1>5. CASE got_message_body
  BY <1>1, <1>5, LoopRxError, LoopMessage DEF got_message_body
<1> QED  BY <1>3, <1>4, <1>5

\* User code ends: the next handler runs, or the next read is armed.
LEMMA LoopCallback ==
    ASSUME TypeOK, LoopInv, CallbackEnds
    PROVE  LoopInv'
<1>1. /\ ioq \in Seq(Handler) /\ callback.todo \in Seq(Ids)
      /\ m_stopped' = m_stopped
  BY DEF TypeOK, TypeQueue, TypeCallees, CallbackEnds, CallbackReturns, CallbackThrows, CatchThrows, life
<1>2. CASE ReceiveNext(ioq)
  BY <1>1, <1>2, LoopArmed DEF LoopInv
<1>3. CASE CallbackReturns /\ Len(callback.todo) > 1 /\ UNCHANGED <<ioq, read>>
  <2>1. Tail(callback.todo) # <<>>
    BY <1>1, <1>3
  <2>2. ~Quiet'
    BY <1>3, <2>1 DEF CallbackReturns, Quiet, InCallback
  <2> QED  BY <1>1, <1>3, <2>2, LoopLeft DEF LoopInv
<1>4. CASE CatchThrows
  BY <1>4, LoopLeft DEF CatchThrows, Escapes, LoopInv, life
<1> QED  BY <1>2, <1>3, <1>4 DEF CallbackEnds, CallbackReturns, CallbackThrows

\* The outstanding read completes, for another reason than stop().
LEMMA LoopReadCompletes ==
    ASSUME TypeOK, LoopInv, NEW ec, NEW f, ec # "aborted", ReadCompletes(ec, f)
    PROVE  LoopInv'
<1>1. ioq \in Seq(Handler) /\ read \in ReadHandlers /\ ~m_stopped /\ m_stopped' = m_stopped
  BY DEF TypeOK, TypeQueue, LoopInv, ReadCompletes, life
<1>2. IsCompletion(Completion(read, ec, f)) /\ Completion(read, ec, f).ec = ec
  BY <1>1 DEF IsCompletion, Completion
<1>3. ~NoCompletion(ioq') /\ ~Aborts(ioq')
  BY <1>1, <1>2, LoopAppend DEF ReadCompletes, LoopInv
<1>4. ~Quiet'
  BY <1>3 DEF Quiet, NoCompletion
<1> QED  BY <1>1, <1>3, <1>4, LoopLeft

LEMMA LoopNext == TypeOK /\ LoopInv /\ [Next]_vars => LoopInv'
<1> SUFFICES ASSUME TypeOK, LoopInv, [Next]_vars PROVE LoopInv'
  OBVIOUS
<1>1. CASE UNCHANGED vars
  BY <1>1
  DEF vars, promises, life, LoopInv, ReadLoopGoesOn, ReadLoopOver, InCallback, Aborts
<1>2. CASE Next /\ PeerStep
  BY <1>2, LoopReadCompletes DEF PeerStep
<1>3. CASE Next /\ IoStep
  <2>1. CASE run_request \/ run_reply
    <3>1. /\ ioq # <<>> /\ ~IsCompletion(Head(ioq)) /\ ioq' = Tail(ioq)
          /\ UNCHANGED <<m_stopped, m_handshake, read, callback, asked>>
      BY <2>1 DEF run_request, run_reply, Runs, IsCompletion, ReadHandlers, promises, life
    <3> QED  BY <1>3, <3>1, LoopLambda DEF Next
  <2> QED  BY <1>3, <2>1, LoopLifecycle, LoopHandlers DEF Next, IoStep
<1>4. CASE Next /\ CallbackEnds
  BY <1>4, LoopCallback
<1>5. CASE Next /\ AppStep
  <2>1. CASE start
    <3>1. ~m_stopped /\ UNCHANGED <<m_stopped, ioq>> /\ read' = "got_handshake_reply"
      BY <2>1 DEF start, life
    <3> QED  BY <3>1, LoopLeft DEF LoopInv, Quiet
  <2>2. ASSUME NEW run \in {"request", "reply"}, NEW id, ioq' = Append(ioq, Lambda(run, id)),
               UNCHANGED <<m_stopped, m_handshake, read, callback, asked>>
        PROVE  LoopInv'
    <3>1. ~IsCompletion(Lambda(run, id))
      BY DEF Lambda, IsCompletion, ReadHandlers
    <3> QED  BY <1>5, <2>2, <3>1, LoopLambda DEF Next
  <2>3. CASE (\E t \in Threads : Dispatch(t)) \/ (\E k \in DOMAIN invocation : Reply(k))
    BY <2>2, <2>3 DEF Dispatch, Reply, promises, life
  <2>4. CASE UNCHANGED <<m_stopped, m_handshake, read, callback, asked, ioq>>
    BY <1>5, <2>4, LoopLambda DEF Next
  <2> QED
    BY <1>5, <2>1, <2>3, <2>4, LoopLifecycle
    DEF Next, AppStep, DrawOnThread, RequestInline, ReplyReturns, ReplyInline, promises, life
<1> QED  BY <1>1, <1>2, <1>3, <1>4, <1>5 DEF Next

LEMMA LoopInit == Init => LoopInv
  BY DEF Init, LoopInv, ReadLoopGoesOn, Aborts, LifecycleOps

\* For every peer and every use of the session, the read loop is lost at no
\* exception of a handler, a procedure or a message: it goes on until the session
\* is stopped, the handshake fails or the io_service ends, and stop() leaves no
\* read outstanding.  It is what StopEndsReadLoop and JoinCompletes need besides
\* fairness.
THEOREM ReadLoopGoesOnThm == Spec => []ReadLoopGoesOn
<1>1. LoopInv => ReadLoopGoesOn
  BY DEF LoopInv
<1> QED  BY <1>1, LoopInit, LoopNext, TypeInit, TypeNext, PTL DEF Spec
=============================================================================
