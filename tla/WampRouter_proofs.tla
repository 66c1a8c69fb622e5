-------------------------- MODULE WampRouter_proofs --------------------------
(***************************************************************************)
(* wamp_session between a conforming router and an application as the      *)
(* examples have it, for every number of threads, requests and pushes:     *)
(* what was proved of the session with any peer holds here too, and the    *)
(* connection and the router's bookkeeping are well-formed.  The second    *)
(* half states the invariant of the exchange, PeerInv, and what every step *)
(* keeps of it; WampRouterExchange_proofs shows that it is inductive.      *)
(***************************************************************************)
EXTENDS WampRouter, WampRequests_proofs

\* What the session guarantees on its own.
SessionInv == TypeOK /\ ReadInv /\ LifeInv /\ Reported /\ IdInv /\ TableInv

\* A message body is due: it is being read, or its header has been.
HeaderDue(q) == \E n \in DOMAIN q : q[n].run = "got_message_header" /\ q[n].ec = "ok"
BodyDue == read = "got_message_body" \/ HeaderDue(ioq)

\* RTypeOK with what makes it inductive: a body that is due is on the wire, and
\* the requests on their way to the router have an id.
WireInv ==
    /\ RTypeOK
    /\ ~lost /\ BodyDue => wire # <<>>
    /\ \A i : OnWire(RequestOps, out, i) => i \in Ids

RouterInv == SessionInv /\ WireInv
-----------------------------------------------------------------------------
(***************************************************************************)
(* The session's part                                                      *)
(***************************************************************************)

\* What the router and the program do is a step of the session with any peer,
\* but for a frame that is delivered: their number is not bounded.
LEMMA RouterSteps == ASSUME RNext PROVE [Next]_vars \/ Delivers
<1>1. CASE Finished
  BY <1>1 DEF Finished, rvars
<1>2. ASSUME io = "running", Local(IoStep \/ CallbackEnds) PROVE Next
  BY <1>2 DEF Local, Next
<1>3. ASSUME io = "running", Local(DispatchStep \/ RequestStep \/ ReplyStep) PROVE Next
  BY <1>3 DEF Local, DispatchStep, RequestStep, ReplyStep, Next, AppStep
<1>4. ASSUME io = "running", MainStep PROVE Next
  BY <1>4 DEF MainStep, Next, AppStep, LifecycleOps
<1>5. ASSUME io = "running", LinkLost \/ EofRead PROVE [Next]_vars
  BY <1>5 DEF LinkLost, EofRead, Next, PeerStep
<1>6. ASSUME RouterReads \/ RouterPushes \/ RouterGoodbye \/ \E i \in Ids : RouterAnswers(i)
      PROVE  UNCHANGED vars
  BY <1>6 DEF RouterReads, RouterPushes, RouterGoodbye, RouterAnswers
<1> QED  BY <1>1, <1>2, <1>3, <1>4, <1>5, <1>6 DEF RNext

LEMMA SessionNext == ASSUME SessionInv, [Next]_vars PROVE SessionInv'
  BY TypeNext, ReadNext, LifeNext, ReportedNext, IdNext, TableNext DEF SessionInv

\* A frame is delivered.
LEMMA SessionDelivered ==
    ASSUME SessionInv, NEW f \in FrameSpace, ReadCompletes("ok", f)
    PROVE  SessionInv'
<1> USE DEF SessionInv
<1>1. TypeOK'
  BY TypeReadCompletes DEF ErrorCodes
<1>2. ioq \in Seq(Handler) /\ NoCompletion(ioq) /\ ~InCallback /\ ~Quiet
  BY DEF ReadCompletes, ReadInv, ReadCore, Quiet, TypeOK, TypeQueue
<1>3. ReadInv'
  <2>1. OneCompletion(ioq')
    BY <1>2, AppendCompletion DEF ReadCompletes
  <2> QED  BY <1>2, <2>1 DEF ReadCompletes, ReadInv, ReadCore, InCallback
<1>4. Reported'
  BY <1>2 DEF ReadCompletes, Reported
<1>5. LifeInv'
  BY LifeUnchanged DEF ReadCompletes, lifeVars, promises, life
<1>6. IdInv'
  BY CalmRead, CalmIds
<1>7. TableInv'
  BY TablesUnchanged DEF ReadCompletes, app, callees, tableVars
<1> QED  BY <1>1, <1>3, <1>4, <1>5, <1>6, <1>7
-----------------------------------------------------------------------------
(***************************************************************************)
(* A body that is due is on the wire                                       *)
(***************************************************************************)

\* The next state has no header, and reads no body, that q and read do not.
NoneDue(q) == /\ HeaderDue(ioq') => HeaderDue(q)
              /\ read' = read \/ read' # "got_message_body"

LEMMA HeaderTail ==
    ASSUME NEW q \in Seq(Handler), q # <<>>
    PROVE  /\ HeaderDue(Tail(q)) => HeaderDue(q)
           /\ Head(q).run = "got_message_header" /\ Head(q).ec = "ok" => HeaderDue(q)
<1>1. /\ 1 \in DOMAIN q /\ Head(q) = q[1]
      /\ \A n \in DOMAIN Tail(q) : n + 1 \in DOMAIN q /\ Tail(q)[n] = q[n + 1]
  OBVIOUS
<1> QED  BY <1>1 DEF HeaderDue

LEMMA HeaderAppend ==
    ASSUME NEW q \in Seq(Handler), NEW h,
           ~(h.run = "got_message_header" /\ h.ec = "ok")
    PROVE  HeaderDue(Append(q, h)) => HeaderDue(q)
<1>1. /\ DOMAIN Append(q, h) = 1..Len(q) + 1 /\ DOMAIN q = 1..Len(q) /\ Len(q) \in Nat
      /\ \A n \in 1..Len(q) : Append(q, h)[n] = q[n]
      /\ Append(q, h)[Len(q) + 1] = h
  OBVIOUS
<1>2. \A n \in DOMAIN Append(q, h) : n \in DOMAIN q \/ Append(q, h)[n] = h
  BY <1>1
<1> QED  BY <1>1, <1>2 DEF HeaderDue

LEMMA HeaderCompletions ==
    ASSUME NEW q \in Seq(Handler)
    PROVE  /\ \A h : AsyncRead(h, q) /\ h # "got_message_body" => NoneDue(q)
           /\ CloseStreams(q) => NoneDue(q)
           /\ ReceiveNext(q) => NoneDue(q)
<1>1. \A h, f : /\ Completion(h, "bad_descriptor", f).ec # "ok"
                /\ Completion(h, "aborted", f).ec # "ok"
  BY DEF Completion
<1>2. ASSUME NEW h, AsyncRead(h, q), h # "got_message_body" PROVE NoneDue(q)
  BY <1>1, <1>2, HeaderAppend DEF AsyncRead, NoneDue
<1>3. CloseStreams(q) => NoneDue(q)
  BY <1>1, HeaderAppend DEF CloseStreams, NoneDue
<1>4. ReceiveNext(q) => NoneDue(q)
  <2>1. ASSUME AsyncRead("got_message_header", q) PROVE NoneDue(q)
    BY <1>2, <2>1
  <2> QED  BY <2>1 DEF ReceiveNext, NoneDue
<1> QED  BY <1>2, <1>3, <1>4

\* The io thread: a body becomes due when the header that was due is handled.
LEMMA IoBodyDue == ASSUME TypeOK, IoStep, BodyDue' PROVE BodyDue
<1>1. ioq \in Seq(Handler) /\ ioq # <<>> /\ Tail(ioq) \in Seq(Handler)
  BY DEF IoStep, RunLifecycle, run_request, run_reply, got_handshake_reply,
         got_message_header, got_message_body, Runs, TypeOK, TypeQueue
<1>2. HeaderDue(Tail(ioq)) => HeaderDue(ioq)
  BY <1>1, HeaderTail
<1>3. NoneDue(Tail(ioq)) => BodyDue
  BY <1>2 DEF NoneDue, BodyDue
<1>4. ASSUME NEW ec, handleRxError(ec) PROVE BodyDue
  BY <1>1, <1>3, <1>4, HeaderCompletions DEF handleRxError, NoneDue
<1>5. ASSUME NEW op \in LifecycleOps, RunLifecycle(op) PROVE BodyDue
  BY <1>1, <1>3, <1>5, HeaderCompletions
  DEF RunLifecycle, Effect, JoinEffect, LeaveEffect, StopEffect, NoneDue
<1>6. CASE run_request \/ run_reply
  BY <1>3, <1>6 DEF run_request, run_reply, NoneDue
<1>7. CASE got_handshake_reply
  BY <1>1, <1>3, <1>7, HeaderCompletions DEF got_handshake_reply, NoneDue
<1>8. CASE got_message_header
  <2>1. CASE Head(ioq).ec = "ok"
    BY <1>1, <1>8, <2>1, HeaderTail DEF got_message_header, Runs, BodyDue
  <2> QED  BY <1>4, <1>8, <2>1 DEF got_message_header
<1>9. CASE got_message_body
  <2>1. ASSUME NEW e, Done \/ Throws(e) PROVE NoneDue(Tail(ioq))
    BY <1>1, <2>1, HeaderCompletions DEF Done, Throws, NoneDue
  <2>2. ASSUME got_message PROVE NoneDue(Tail(ioq))
    BY <2>1, <2>2
    DEF got_message, process_welcome, process_goodbye, process_error,
        process_call_result, process_subscribed, process_unsubscribed, process_event,
        process_registered, process_invocation, process_other, NoneDue
  <2> QED  BY <1>3, <1>4, <1>9, <2>2 DEF got_message_body
<1> QED  BY <1>5, <1>6, <1>7, <1>8, <1>9 DEF IoStep

\* The application, the end of a callback and the end of the stream.
LEMMA OtherBodyDue ==
    ASSUME TypeOK, AppStep \/ CallbackEnds \/ ReadCompletes("eof", NoFrame), BodyDue'
    PROVE  BodyDue
<1>1. ioq \in Seq(Handler)
  BY DEF TypeOK, TypeQueue
<1>2. \A run, id : run # "got_message_header" =>
         (HeaderDue(Append(ioq, Lambda(run, id))) => HeaderDue(ioq))
  BY <1>1, HeaderAppend DEF Lambda
<1>3. SUFFICES NoneDue(ioq)
  BY DEF NoneDue, BodyDue
<1>4. CASE CallbackEnds
  BY <1>1, <1>4, HeaderCompletions DEF CallbackEnds, CallbackReturns, CallbackThrows, CatchThrows, NoneDue
<1>5. CASE ReadCompletes("eof", NoFrame)
  <2>1. Completion(read, "eof", NoFrame).ec # "ok"
    BY DEF Completion
  <2> QED  BY <1>1, <1>5, <2>1, HeaderAppend DEF ReadCompletes, NoneDue
<1>6. CASE AppStep
  <2>1. ASSUME NEW op \in LifecycleOps, Ask(op) PROVE NoneDue(ioq)
    BY <1>2, <2>1 DEF Ask, NoneDue, LifecycleOps
  <2>2. ASSUME NEW op \in LifecycleOps, AskInline(op) PROVE NoneDue(ioq)
    BY <1>1, <2>2, HeaderCompletions
    DEF AskInline, Effect, JoinEffect, LeaveEffect, StopEffect, NoneDue
  <2>3. ASSUME NEW t \in Threads, Dispatch(t) PROVE NoneDue(ioq)
    BY <1>2, <2>3 DEF Dispatch, NoneDue
  <2>4. ASSUME NEW k, Reply(k) PROVE NoneDue(ioq)
    BY <1>2, <2>4 DEF Reply, NoneDue
  <2> QED
    BY <1>6, <2>1, <2>2, <2>3, <2>4
    DEF AppStep, start, DrawOnThread, RequestInline, ReplyReturns, ReplyInline, NoneDue
<1> QED  BY <1>4, <1>5, <1>6
-----------------------------------------------------------------------------
(***************************************************************************)
(* What is handed to the stream                                            *)
(***************************************************************************)

\* A step hands nothing to the stream, a message of the session's own, or a request.
LEMMA OutStep ==
    ASSUME [Next]_vars
    PROVE  \/ out' = out
           \/ \E type \in {"HELLO", "GOODBYE", "REPLY"} : \E id, arg : out' = Sent(type, id, arg)
           \/ /\ run_request
              /\ out' = Sent(request[Head(ioq).id].op, Head(ioq).id, request[Head(ioq).id].sub)
           \/ \E op \in RequestOps : \E sub :
                 RequestInline(op, sub) /\ out' = Sent(op, m_request_id + 1, sub)
<1> DEFINE Says == \/ out' = out
                   \/ \E type \in {"HELLO", "GOODBYE", "REPLY"} : \E id, arg :
                          out' = Sent(type, id, arg)
<1>1. ASSUME NEW ec, handleRxError(ec) PROVE Says
  BY <1>1 DEF handleRxError
<1>2. ASSUME NEW op, NEW q, Effect(op, q) PROVE Says
  BY <1>2 DEF Effect, JoinEffect, LeaveEffect, StopEffect
<1>3. CASE IoStep
  <2>1. ASSUME got_message PROVE Says
    BY <2>1
    DEF got_message, process_welcome, process_goodbye, process_error,
        process_call_result, process_subscribed, process_unsubscribed, process_event,
        process_registered, process_invocation, process_other
  <2>2. ASSUME NEW op, RunLifecycle(op) PROVE Says
    BY <1>2, <2>2 DEF RunLifecycle
  <2>3. CASE run_request
    BY <2>3 DEF run_request, EmplaceAndSend
  <2>4. ASSUME got_message_header \/ got_message_body PROVE Says
    BY <1>1, <2>1, <2>4 DEF got_message_header, got_message_body
  <2>5. ASSUME run_reply \/ got_handshake_reply PROVE Says
    BY <2>5 DEF run_reply, got_handshake_reply
  <2> QED  BY <1>3, <2>2, <2>3, <2>4, <2>5 DEF IoStep
<1>4. CASE CallbackEnds
  BY <1>4 DEF CallbackEnds, CallbackReturns, CallbackThrows, CatchThrows
<1>5. CASE PeerStep
  BY <1>5 DEF PeerStep, ReadCompletes
<1>6. CASE AppStep
  <2>1. ASSUME NEW op \in Ops, NEW sub, RequestInline(op, sub)
        PROVE  out' = out \/ out' = Sent(op, m_request_id + 1, sub)
    BY <2>1 DEF RequestInline, EmplaceAndSend
  <2>2. CASE \E op \in Ops : \E sub \in Argument(op) : RequestInline(op, sub)
    BY <2>1, <2>2, UseAssumption
  <2>3. ASSUME NEW op, AskInline(op) PROVE Says
    BY <1>2, <2>3 DEF AskInline
  <2> QED
    BY <1>6, <2>2, <2>3
    DEF AppStep, start, Ask, Dispatch, DrawOnThread, Reply, ReplyReturns, ReplyInline
<1>7. CASE UNCHANGED vars
  BY <1>7 DEF vars
<1> QED  BY <1>3, <1>4, <1>5, <1>6, <1>7 DEF Next

\* The stream is only added to.
LEMMA OutGrows == ASSUME TypeOK, [Next]_vars PROVE Len(out) \in Nat /\ Len(out') >= Len(out)
<1>1. /\ Len(out) \in Nat
      /\ \A type, id, arg : Len(Sent(type, id, arg)) >= Len(out)
  BY DEF Sent, TypeOK, TypeOut
<1>2. out' = out \/ \E type, id, arg : out' = Sent(type, id, arg)
  BY OutStep
<1> QED  BY <1>1, <1>2

\* The requests handed to the stream have the id they were drawn with.
LEMMA OutIds ==
    ASSUME TypeOK, IdInv, [Next]_vars, \A i : OnWire(RequestOps, out, i) => i \in Ids
    PROVE  \A i : OnWire(RequestOps, out', i) => i \in Ids
<1>1. ASSUME NEW id \in Ids, ~Spent(id), NEW op, NEW sub,
             UNCHANGED <<pending, out>> \/ EmplaceAndSend(id, op, sub)
      PROVE  \A i : OnWire(RequestOps, out', i) => i \in Ids
  <2>1. ~OnWire(RequestOps, out, id)
    BY <1>1 DEF Spent
  <2>2. \A i : OnWire(RequestOps, Sent(op, id, sub), i) => OnWire(RequestOps, out, i) \/ i = id
    BY <2>1, WireMessage
  <2>3. out' = out \/ out' = Sent(op, id, sub)
    BY <1>1 DEF EmplaceAndSend
  <2>4. CASE out' = out
    BY <2>4
  <2>5. CASE out' = Sent(op, id, sub)
    BY <2>2, <2>5
  <2> QED  BY <2>3, <2>4, <2>5
<1>2. CASE Calm
  BY <1>2 DEF Calm, NoMoreSent
<1>3. ASSUME NEW t \in Threads, Dispatch(t) PROVE out' = out
  BY <1>3 DEF Dispatch
<1>4. CASE run_request
  <2>1. PICK id \in Ids : id = Head(ioq).id /\ ~Spent(id)
    BY <1>4, RequestTaken
  <2>2. PICK op, sub : op = request[id].op /\ sub = request[id].sub
    OBVIOUS
  <2> QED  BY <1>1, <1>4, <2>1, <2>2 DEF run_request
<1>5. ASSUME NEW op, NEW sub, RequestInline(op, sub)
      PROVE  \A i : OnWire(RequestOps, out', i) => i \in Ids
  <2>1. PICK new \in Ids : new = m_request_id + 1 /\ ~Spent(new)
    BY <1>5, NextId DEF RequestInline, Draw
  <2> QED  BY <1>1, <1>5, <2>1 DEF RequestInline
<1>6. ASSUME NEW op, NEW sub, NEW t, DrawOnThread(t, op, sub) PROVE out' = out
  BY <1>6 DEF DrawOnThread
<1> QED  BY <1>2, <1>3, <1>4, <1>5, <1>6, CalmSteps
-----------------------------------------------------------------------------
(***************************************************************************)
(* The connection and the router                                           *)
(***************************************************************************)

\* A step of the session that the wire and the router do not take part in.
LEMMA WireLocal ==
    ASSUME RouterInv, SessionInv', [Next]_vars, UNCHANGED <<wire, peer>>,
           main' \in LifecycleOps \cup {"none", "start"}, BodyDue' => BodyDue
    PROVE  WireInv'
<1>1. TypeOK' /\ TypeOK /\ IdInv
  BY DEF RouterInv, SessionInv
<1>2. \A i : OnWire(RequestOps, out', i) => i \in Ids
  BY <1>1, OutIds DEF RouterInv, WireInv
<1>3. seen' \in 0..Len(out')
  <2>1. Len(out') \in Nat
    BY <1>1 DEF TypeOK, TypeOut
  <2>2. Len(out) \in Nat /\ Len(out') >= Len(out)
    BY <1>1, OutGrows
  <2>3. seen \in 0..Len(out) /\ seen' = seen
    BY DEF RouterInv, WireInv, RTypeOK, peer
  <2> QED  BY <2>1, <2>2, <2>3
<1>4. RTypeOK'
  BY <1>1, <1>3 DEF RouterInv, WireInv, RTypeOK, peer
<1> QED  BY <1>2, <1>4 DEF RouterInv, WireInv, peer

\* A step of the router alone.
LEMMA WireRouter ==
    ASSUME RouterInv,
           RouterReads \/ RouterPushes \/ RouterGoodbye \/ \E i \in Ids : RouterAnswers(i)
    PROVE  WireInv'
<1> USE DEF RouterInv, WireInv, RTypeOK
<1>1. UNCHANGED <<vars, main>> /\ lost' = lost
  BY DEF RouterReads, RouterPushes, RouterGoodbye, RouterAnswers
<1>2. TypeOK' /\ (BodyDue' <=> BodyDue) /\ out' = out
  BY <1>1, TypeNext DEF SessionInv, BodyDue, HeaderDue, vars
<1>3. ASSUME NEW f \in FrameSpace, Sends(f)
      PROVE  wire' \in Seq(FrameSpace) /\ wire' # <<>>
  <2>1. /\ Append(wire, f) \in Seq(FrameSpace)
        /\ Len(Append(wire, f)) = Len(wire) + 1 /\ Len(wire) \in Nat
    OBVIOUS
  <2> QED  BY <1>3, <2>1 DEF Sends
<1>4. SUFFICES /\ wire' \in Seq(FrameSpace) /\ (wire' = wire \/ wire' # <<>>)
               /\ seen' \in 0..Len(out) /\ owed' \subseteq Ids
               /\ router' \in {"closed", "joined", "left", "quit"}
               /\ topics' \subseteq SubIds /\ regs' \subseteq RegIds
               /\ pushes' \in 0..MaxPushes
  BY <1>1, <1>2
<1>5. CASE RouterReads
  <2>1. seen + 1 \in 1..Len(out) /\ Len(out) \in Nat
    BY <1>5 DEF RouterReads, SessionInv, TypeOK, TypeOut
  <2>2. out[seen + 1].type \in RequestOps => out[seen + 1].id \in Ids
    BY <2>1 DEF OnWire, SessionInv, TypeOK, TypeOut
  <2>3. /\ \A id \in SessionIds : Frame("WELCOME", 0, id) \in FrameSpace
        /\ Frame("GOODBYE", 0, 0) \in FrameSpace
    BY DEF Frame, FrameSpace
  <2>4. wire' \in Seq(FrameSpace) /\ (wire' = wire \/ wire' # <<>>)
    BY <1>3, <1>5, <2>3 DEF RouterReads
  <2>5. owed' \subseteq Ids /\ router' \in {"closed", "joined", "left", "quit"}
    BY <1>5, <2>2 DEF RouterReads
  <2>6. seen' \in 0..Len(out) /\ UNCHANGED <<topics, regs, pushes>>
    BY <1>5, <2>1 DEF RouterReads
  <2> QED  BY <2>4, <2>5, <2>6
<1>6. CASE RouterPushes
  <2>1. /\ \A s \in SubIds : Frame("EVENT", 0, s) \in FrameSpace
        /\ \A r \in RegIds : Frame("INVOCATION", 0, r) \in FrameSpace
    BY DEF Frame, FrameSpace, AnyShape
  <2>2. wire' \in Seq(FrameSpace) /\ (wire' = wire \/ wire' # <<>>)
    BY <1>3, <1>6, <2>1 DEF RouterPushes
  <2>3. pushes' \in 0..MaxPushes
    BY <1>6, RouterAssumption DEF RouterPushes
  <2> QED  BY <1>6, <2>2, <2>3 DEF RouterPushes
<1>7. CASE RouterGoodbye
  <2>1. Frame("GOODBYE", 0, 0) \in FrameSpace
    BY DEF Frame, FrameSpace
  <2> QED  BY <1>3, <1>7, <2>1 DEF RouterGoodbye
<1>8. ASSUME NEW i \in Ids, RouterAnswers(i)
      PROVE  /\ wire' \in Seq(FrameSpace) /\ wire' # <<>>
             /\ UNCHANGED <<seen, router, pushes>>
             /\ owed' \subseteq Ids /\ topics' \subseteq SubIds /\ regs' \subseteq RegIds
  <2>1. /\ \A type \in {"CALL_ERROR", "OTHER_ERROR", "UNSUBSCRIBED", "RESULT"} :
              Frame(type, i, 0) \in FrameSpace
        /\ \A s \in SubIds : Frame("SUBSCRIBED", i, s) \in FrameSpace
        /\ \A r \in RegIds : Frame("REGISTERED", i, r) \in FrameSpace
    BY DEF Frame, FrameSpace, AnyShape
  <2>2. wire' \in Seq(FrameSpace) /\ wire' # <<>>
    BY <1>3, <1>8, <2>1 DEF RouterAnswers
  <2> QED  BY <1>8, <2>2 DEF RouterAnswers
<1> QED  BY <1>5, <1>6, <1>7, <1>8

\* The connection delivers: the frame whose header was read is there.
LEMMA DeliversFrame ==
    ASSUME RouterInv, Delivers
    PROVE  /\ \E f \in FrameSpace : ReadCompletes("ok", f)
           /\ WireInv'
<1> USE DEF RouterInv, WireInv, RTypeOK
<1>1. /\ ~lost /\ read # "none" /\ UNCHANGED <<peer, main, out>>
      /\ ioq \in Seq(Handler) /\ NoCompletion(ioq)
  BY DEF Delivers, ReadCompletes, SessionInv, ReadInv, ReadCore, TypeOK, TypeQueue
<1>2. ~HeaderDue(ioq)
  BY <1>1 DEF NoCompletion, IsCompletion, HeaderDue, ReadHandlers
<1>3. \A h, f : /\ Completion(h, "ok", f).run = h
                /\ h # "got_message_header" => ~HeaderDue(Append(ioq, Completion(h, "ok", f)))
  BY <1>1, <1>2, HeaderAppend DEF Completion
<1>4. CASE read = "got_message_body"
  <2>1. wire # <<>> /\ wire \in Seq(FrameSpace)
    BY <1>1, <1>4 DEF BodyDue
  <2>2. Head(wire) \in FrameSpace /\ Tail(wire) \in Seq(FrameSpace)
    BY <2>1
  <2>3. ReadCompletes("ok", Head(wire)) /\ wire' = Tail(wire)
    BY <1>4 DEF Delivers
  <2>4. ~BodyDue'
    BY <1>3, <1>4, <2>3 DEF ReadCompletes, BodyDue
  <2>5. TypeOK'
    BY <2>2, <2>3, TypeReadCompletes DEF SessionInv, ErrorCodes
  <2>6. WireInv'
    BY <1>1, <2>2, <2>3, <2>4, <2>5 DEF peer
  <2> QED  BY <2>2, <2>3, <2>6
<1>5. CASE read # "got_message_body"
  <2>1. ReadCompletes("ok", NoFrame) /\ wire' = wire
    BY <1>5 DEF Delivers
  <2>2. TypeOK'
    BY <2>1, NoFrameType, TypeReadCompletes DEF SessionInv, ErrorCodes
  <2>3. read = "got_message_header" => wire # <<>>
    BY <1>5 DEF Delivers
  <2>4. BodyDue' => wire # <<>>
    BY <1>3, <2>1, <2>3 DEF ReadCompletes, BodyDue
  <2>5. WireInv'
    BY <1>1, <2>1, <2>2, <2>4 DEF peer
  <2> QED  BY <2>1, <2>5, NoFrameType
<1> QED  BY <1>4, <1>5

LEMMA RouterNext == RouterInv /\ [RNext]_rvars => RouterInv'
<1> SUFFICES ASSUME RouterInv, [RNext]_rvars PROVE RouterInv'
  OBVIOUS
<1>1. CASE UNCHANGED rvars
  <2>1. SessionInv' /\ [Next]_vars
    BY <1>1, SessionNext DEF rvars, RouterInv
  <2> QED
    BY <1>1, <2>1, WireLocal DEF rvars, vars, BodyDue, HeaderDue, RouterInv, WireInv, RTypeOK
<1>2. CASE RNext /\ Delivers
  <2>1. WireInv' /\ \E f \in FrameSpace : ReadCompletes("ok", f)
    BY <1>2, DeliversFrame
  <2> QED  BY <2>1, SessionDelivered DEF RouterInv
<1>3. CASE RNext /\ ~Delivers
  <2>1. [Next]_vars /\ SessionInv'
    BY <1>3, RouterSteps, SessionNext DEF RouterInv
  <2>2. TypeOK /\ main \in LifecycleOps \cup {"none", "start"}
    BY DEF RouterInv, SessionInv, WireInv, RTypeOK
  <2>3. ASSUME Local(IoStep \/ CallbackEnds) PROVE WireInv'
    <3>1. BodyDue' => BodyDue
      BY <2>2, <2>3, IoBodyDue, OtherBodyDue DEF Local
    <3> QED  BY <2>1, <2>2, <2>3, <3>1, WireLocal DEF Local
  <2>4. ASSUME Local(DispatchStep \/ RequestStep \/ ReplyStep) PROVE WireInv'
    <3>1. AppStep
      BY <2>4 DEF Local, DispatchStep, RequestStep, ReplyStep, AppStep
    <3>2. BodyDue' => BodyDue
      BY <2>2, <3>1, OtherBodyDue
    <3> QED  BY <2>1, <2>2, <2>4, <3>2, WireLocal DEF Local
  <2>5. ASSUME MainStep PROVE WireInv'
    <3>1. AppStep
      BY <2>5 DEF MainStep, AppStep, LifecycleOps
    <3>2. BodyDue' => BodyDue
      BY <2>2, <3>1, OtherBodyDue
    <3>3. main' \in LifecycleOps \cup {"none", "start"} /\ UNCHANGED <<wire, peer>>
      BY <2>5 DEF MainStep, LifecycleOps
    <3> QED  BY <2>1, <3>2, <3>3, WireLocal
  <2>6. ASSUME EofRead PROVE WireInv'
    <3>1. BodyDue' => BodyDue
      BY <2>2, <2>6, OtherBodyDue DEF EofRead
    <3> QED  BY <2>1, <2>2, <2>6, <3>1, WireLocal DEF EofRead
  <2>7. ASSUME LinkLost PROVE WireInv'
    <3>1. out' = out /\ TypeOK'
      BY <2>1, <2>7 DEF LinkLost, ReadCompletes, vars, SessionInv
    <3>2. /\ lost' = TRUE /\ wire' = <<>>
          /\ UNCHANGED <<seen, owed, router, topics, regs, pushes, main>>
      BY <2>7 DEF LinkLost
    <3> QED  BY <3>1, <3>2 DEF RouterInv, WireInv, RTypeOK
  <2>8. ASSUME RouterReads \/ RouterPushes \/ RouterGoodbye \/ \E i \in Ids : RouterAnswers(i)
        PROVE  WireInv'
    BY <2>8, WireRouter
  <2>9. CASE Finished
    BY <1>1, <2>9 DEF Finished, RouterInv
  <2> QED
    BY <1>3, <2>1, <2>3, <2>4, <2>5, <2>6, <2>7, <2>8, <2>9 DEF RNext, RouterInv
<1> QED  BY <1>1, <1>2, <1>3

LEMMA RouterInit == RInit => RouterInv
<1> SUFFICES ASSUME RInit PROVE RouterInv
  OBVIOUS
<1>1. Init
  BY DEF RInit
<1>2. ReadInv /\ Reported
  BY <1>1 DEF Init, ReadInv, ReadCore, Quiet, InCallback, NoCompletion, OneCompletion, Reported
<1>3. TypeOK
  BY <1>1, TypeInit
<1>4. out = <<>> /\ ioq = <<>> /\ read = "none"
  BY <1>1 DEF Init
<1>5. RTypeOK
  <2>1. wire \in Seq(FrameSpace) /\ 0 \in 0..Len(out) /\ 0 \in 0..MaxPushes
    BY <1>4, RouterAssumption DEF RInit
  <2> QED  BY <1>3, <2>1 DEF RInit, RTypeOK
<1>6. ~BodyDue /\ \A i : ~OnWire(RequestOps, out, i)
  BY <1>4 DEF BodyDue, HeaderDue, OnWire
<1> QED
  BY <1>1, <1>2, <1>3, <1>5, <1>6, LifeInit, IdInit, TableInit DEF RouterInv, SessionInv, WireInv

\* The session, the connection, the router and the main program keep their types,
\* and a body that is read is there.
THEOREM RTypeCorrect == RSpec => []RTypeOK
<1>1. RouterInv => RTypeOK
  BY DEF RouterInv, WireInv
<1> QED  BY <1>1, RouterInit, RouterNext, PTL DEF RSpec

\* With a conforming router too, however many frames it sends: the requests of
\* any number of threads go out under ids of their own, there is one read at a
\* time, a session that said goodbye is not joined again, and the handlers and
\* the tables of requests agree with the futures.
THEOREM RouterSessionThm ==
    RSpec => [](/\ RequestIdsUnique /\ OneReadAtATime /\ GoodbyeEndsSession
                /\ PendingUnanswered /\ HandlersInstalledOnce)
<1>1. RouterInv => RequestIdsUnique
  BY DEF RouterInv, SessionInv, IdInv, OnWireOnce, RequestIdsUnique
<1>2. RouterInv => OneReadAtATime /\ PendingUnanswered /\ HandlersInstalledOnce
  BY ReadInvImplies DEF RouterInv, SessionInv, TableInv
<1>3. RouterInv => GoodbyeEndsSession
  BY DEF RouterInv, SessionInv, LifeInv, GoodbyeEndsSession
<1> QED  BY <1>1, <1>2, <1>3, RouterInit, RouterNext, PTL DEF RSpec

LEMMA RouterReplyNext ==
    ASSUME RouterInv, ReplyInv, ~EarlyReplies, [RNext]_rvars
    PROVE  ReplyInv'
<1>1. TypeOK
  BY DEF RouterInv, SessionInv
<1>2. CASE UNCHANGED rvars
  BY <1>1, <1>2, ReplyNext DEF rvars
<1>3. CASE RNext /\ Delivers
  BY <1>1, <1>3, MuteRead, MuteReplies DEF Delivers
<1>4. CASE RNext /\ ~Delivers
  BY <1>1, <1>4, RouterSteps, ReplyNext
<1> QED  BY <1>2, <1>3, <1>4

LEMMA RouterLoopNext == RouterInv /\ LoopInv /\ [RNext]_rvars => LoopInv'
<1> SUFFICES ASSUME RouterInv, LoopInv, [RNext]_rvars PROVE LoopInv'
  OBVIOUS
<1>1. TypeOK
  BY DEF RouterInv, SessionInv
<1>2. CASE UNCHANGED rvars
  BY <1>1, <1>2, LoopNext DEF rvars
<1>3. CASE RNext /\ Delivers
  BY <1>1, <1>3, LoopReadCompletes DEF Delivers
<1>4. CASE RNext /\ ~Delivers
  BY <1>1, <1>4, RouterSteps, LoopNext
<1> QED  BY <1>2, <1>3, <1>4

\* With a conforming router the read loop goes on too, also over a connection
\* that is lost: only stop() or an exception of handleRxError ends it.
THEOREM RouterReadLoopThm == RSpec => []ReadLoopGoesOn
<1>1. LoopInv => ReadLoopGoesOn
  BY DEF LoopInv
<1>2. RInit => LoopInv
  BY LoopInit DEF RInit
<1> QED  BY <1>1, <1>2, RouterInit, RouterNext, RouterLoopNext, PTL DEF RSpec

\* An INVOCATION gets at most one YIELD or ERROR, however many the router sends,
\* unless a thread replies while the procedure still runs.
THEOREM RouterOneReplyThm == ASSUME ~EarlyReplies PROVE RSpec => []OneReply
<1>1. ReplyInv => OneReply
  BY DEF ReplyInv, OnWireOnce, Answer, OneReply
<1>2. RInit => ReplyInv
  BY ReplyInit DEF RInit
<1>3. RouterInv /\ ReplyInv /\ [RNext]_rvars => ReplyInv'
  BY RouterReplyNext
<1> QED  BY <1>1, <1>2, <1>3, RouterInit, RouterNext, PTL DEF RSpec
-----------------------------------------------------------------------------
(***************************************************************************)
(* The invariant of the exchange: what is on its way, what is owed, what   *)
(* the program has asked for                                               *)
(***************************************************************************)

\* Frame f is the n-th on its way to the session; 0 is the place of a frame that
\* was read and waits to be handled.
Arrives(n, f) == \/ n = 0 /\ \E h \in Elems(ioq) : IsBody(h) /\ h.frame = f
                 \/ n \in 1..Len(wire) /\ wire[n] = f
Clear == \A n, f : ~Arrives(n, f)
Said(type) == \E n \in DOMAIN out : out[n].type = type

\* The router's frames are well-formed; WELCOME comes first and GOODBYE last.
FramesInv ==
    /\ \A n, f : Arrives(n, f) => f.shape = "ok" /\ f.type # "UNEXPECTED"
    /\ \A n, f : Arrives(n, f) =>
          (f.type = "WELCOME" <=> /\ m_session_join = "unset"
                                  /\ \A m, g : Arrives(m, g) => n <= m)
    /\ \A n, f : Arrives(n, f) /\ f.type = "GOODBYE" =>
          /\ m_session_leave = "unset" /\ router \in {"left", "quit"}
          /\ \A m, g : Arrives(m, g) => m <= n
    /\ router = "closed" => m_session_join = "unset" /\ Clear
    /\ router # "closed" => out # <<>>
    /\ router # "closed" /\ ~lost /\ m_session_join = "unset" => ~Clear
    /\ m_session_leave # "unset" /\ ~lost => router \in {"left", "quit"} /\ Clear
    /\ ~lost /\ router # "quit" /\ (router = "left" \/ Said("GOODBYE")) => m_goodbye_sent
    /\ lost => wire = <<>>

IsAnswer(f) == f.type \in {"CALL_ERROR", "OTHER_ERROR", "RESULT", "SUBSCRIBED",
                           "UNSUBSCRIBED", "REGISTERED"}
Answered(i) == \E n, f : Arrives(n, f) /\ IsAnswer(f) /\ f.id = i

\* Request i is in the table of its operation, and its promise is unset.
Open(i) ==
    /\ request[i].op = "CALL" => i \in m_calls
    /\ request[i].op = "SUBSCRIBE" => i \in m_subscribe_requests
    /\ request[i].op = "UNSUBSCRIBE" => i \in m_unsubscribe_requests
    /\ request[i].op = "REGISTER" => i \in m_register_requests
    /\ response[i] = "unset"
Fits(f) ==
    /\ f.type \in {"CALL_ERROR", "RESULT"} => request[f.id].op = "CALL"
    /\ f.type = "SUBSCRIBED" => request[f.id].op = "SUBSCRIBE"
    /\ f.type = "UNSUBSCRIBED" => request[f.id].op = "UNSUBSCRIBE"
    /\ f.type = "REGISTERED" => request[f.id].op = "REGISTER"
    /\ f.type = "OTHER_ERROR" => request[f.id].op \in RouterErrors \ {"CALL"}

\* A request is in one place: unread by the router, owed by it, or answered by
\* one frame that is on its way.
AnswersInv ==
    /\ \A n \in DOMAIN out : out[n].type \in RequestOps /\ n > seen =>
          Open(out[n].id) /\ out[n].id \notin owed /\ ~Answered(out[n].id)
    /\ \A i \in owed : Open(i) /\ OnWire(RequestOps, out, i) /\ ~Answered(i)
    /\ \A n, f : Arrives(n, f) /\ IsAnswer(f) =>
          /\ Open(f.id) /\ Fits(f) /\ OnWire(RequestOps, out, f.id)
          /\ \A m, g : Arrives(m, g) /\ IsAnswer(g) /\ g.id = f.id => m = n

\* A registration the router uses is installed, or its REGISTERED comes first.
Confirms(f, r) == f.type = "REGISTERED" /\ f.arg = r
ProceduresInv ==
    /\ \A n, f : Arrives(n, f) /\ f.type = "INVOCATION" =>
          \/ m_procedures[f.arg] # 0
          \/ \E m, g : Arrives(m, g) /\ Confirms(g, f.arg) /\ m < n
    /\ ~lost => \A r \in regs :
          m_procedures[r] # 0 \/ (\E m, g : Arrives(m, g) /\ Confirms(g, r))

\* Lambdas are queued in the order of the program: no request after leave(),
\* which comes before stop(), and join(), leave() and stop() once.
InOrder(q) ==
    \A i, j \in DOMAIN q : i < j =>
        /\ ~(q[i].run = "join" /\ q[j].run = "join")
        /\ ~(q[i].run = "leave" /\ q[j].run \in {"request", "leave"})
        /\ ~(q[i].run = "stop" /\ q[j].run \in {"leave", "stop"})

\* Before the WELCOME there is nothing but the HELLO.
Unjoined ==
    /\ m_session_id = 0 /\ ~m_stopped /\ ~m_goodbye_sent /\ m_session_leave = "unset"
    /\ main \in {"none", "start", "join"}
    /\ invocation = <<>> /\ ~InCallback /\ ~InQueue("request") /\ ~InQueue("reply")
    /\ \A t \in Threads : thread[t] = 0
    /\ \A n \in DOMAIN out : n = 1 /\ out[n].type = "HELLO"

ProgramInv ==
    /\ InOrder(ioq)
    /\ main \in {"none", "start"} \/ InQueue("join") => out = <<>> /\ m_session_join = "unset"
    /\ InQueue("join") => main = "join"
    /\ m_session_join = "unset" => Unjoined
    /\ m_stopped => m_session_id = 0 /\ (main = "stop" \/ lost)
    /\ InQueue("leave") => main \in {"leave", "stop"}
    /\ InQueue("stop") => main = "stop"
    /\ main = "stop" => m_session_leave # "unset"
    /\ main \in {"leave", "stop"} /\ ~InQueue("leave") =>
          /\ m_session_id = 0 /\ m_goodbye_sent
          /\ (main = "leave" \/ InQueue("stop")) => ~m_stopped
    /\ InQueue("request") => main = "join" \/ InQueue("leave")
    /\ \A t \in Threads : thread[t] # 0 => main = "join"
    /\ m_goodbye_sent /\ ~lost => main \in {"leave", "stop"} /\ ~InQueue("leave")
    /\ ~lost /\ router # "quit" /\ m_session_join = "value"
         /\ (main = "join" \/ InQueue("leave")) => m_session_id # 0
    /\ Said("GOODBYE") => m_session_id = 0 /\ (m_goodbye_sent \/ m_session_leave # "unset")

\* Reads fail because the connection was lost or the session stopped.
CompletionsInv ==
    /\ \A h \in Elems(ioq) : IsCompletion(h) =>
          h.ec # "invalid" /\ (h.ec \in {"eof", "bad_descriptor"} => lost)
    /\ read = "got_handshake_reply" \/ InQueue("got_handshake_reply") =>
          m_handshake = "unset" /\ main # "none"
    /\ m_handshake = "unset" => main \in {"none", "start"}
    /\ main = "none" => m_handshake = "unset"

PeerInv == FramesInv /\ AnswersInv /\ ProceduresInv /\ ProgramInv /\ CompletionsInv
-----------------------------------------------------------------------------
(***************************************************************************)
(* The handlers of the io_service                                          *)
(***************************************************************************)

\* A handler is queued.
LEMMA ElemsAppend ==
    ASSUME NEW q \in Seq(Handler), NEW h
    PROVE  Elems(Append(q, h)) = Elems(q) \cup {h}
<1>1. /\ DOMAIN Append(q, h) = 1..Len(q) + 1 /\ DOMAIN q = 1..Len(q) /\ Len(q) \in Nat
      /\ \A n \in 1..Len(q) : Append(q, h)[n] = q[n]
      /\ Append(q, h)[Len(q) + 1] = h
  OBVIOUS
<1>2. \A n \in 1..Len(q) + 1 : n \in 1..Len(q) \/ n = Len(q) + 1
  BY <1>1
<1> QED  BY <1>1, <1>2 DEF Elems

\* The handler at the head is taken.
LEMMA ElemsTail ==
    ASSUME NEW q \in Seq(Handler), q # <<>>
    PROVE  /\ Elems(q) = {Head(q)} \cup Elems(Tail(q))
           /\ Tail(q) \in Seq(Handler)
<1>1. /\ DOMAIN Tail(q) = 1..Len(q) - 1 /\ DOMAIN q = 1..Len(q) /\ Len(q) \in Nat \ {0}
      /\ \A n \in 1..Len(q) - 1 : Tail(q)[n] = q[n + 1]
      /\ q[1] = Head(q)
  OBVIOUS
<1>2. \A n \in 1..Len(q) : n = 1 \/ (n - 1 \in 1..Len(q) - 1 /\ n = (n - 1) + 1)
  BY <1>1
<1>3. \A n \in 1..Len(q) - 1 : n + 1 \in 1..Len(q)
  BY <1>1
<1>4. ASSUME NEW h \in Elems(q) PROVE h \in {Head(q)} \cup Elems(Tail(q))
  <2>1. PICK n \in 1..Len(q) : h = q[n]
    BY <1>1 DEF Elems
  <2>2. CASE n = 1
    BY <1>1, <2>1, <2>2
  <2>3. CASE n - 1 \in 1..Len(q) - 1 /\ n = (n - 1) + 1
    <3>1. Tail(q)[n - 1] = q[n]
      BY <1>1, <2>3
    <3> QED  BY <1>1, <2>1, <2>3, <3>1 DEF Elems
  <2> QED  BY <1>2, <2>2, <2>3
<1>5. Head(q) \in Elems(q)
  <2>1. 1 \in DOMAIN q
    BY <1>1
  <2> QED  BY <1>1, <2>1 DEF Elems
<1>6. Elems(Tail(q)) \subseteq Elems(q)
  BY <1>1, <1>3 DEF Elems
<1> QED  BY <1>1, <1>4, <1>5, <1>6

\* The order of the lambdas when one is taken or queued.
LEMMA OrderTail ==
    ASSUME NEW q \in Seq(Handler), q # <<>>, InOrder(q)
    PROVE  /\ InOrder(Tail(q))
           /\ \A h \in Elems(Tail(q)) :
                /\ ~(Head(q).run = "join" /\ h.run = "join")
                /\ ~(Head(q).run = "leave" /\ h.run \in {"request", "leave"})
                /\ ~(Head(q).run = "stop" /\ h.run \in {"leave", "stop"})
<1>1. /\ DOMAIN Tail(q) = 1..Len(q) - 1 /\ DOMAIN q = 1..Len(q) /\ Len(q) \in Nat \ {0}
      /\ \A n \in 1..Len(q) - 1 : Tail(q)[n] = q[n + 1]
      /\ q[1] = Head(q)
  OBVIOUS
<1>2. \A n \in 1..Len(q) - 1 : n + 1 \in 1..Len(q) /\ 1 < n + 1
  BY <1>1
<1>3. \A n, m \in 1..Len(q) - 1 : n < m => n + 1 < m + 1
  BY <1>1
<1>4. InOrder(Tail(q))
  BY <1>1, <1>2, <1>3 DEF InOrder
<1>5. 1 \in 1..Len(q)
  BY <1>1
<1> QED  BY <1>1, <1>2, <1>4, <1>5 DEF InOrder, Elems

\* A lambda that may follow those queued keeps them in order.
LEMMA OrderAppend ==
    ASSUME NEW q \in Seq(Handler), NEW h, InOrder(q),
           \A g \in Elems(q) :
                /\ ~(g.run = "join" /\ h.run = "join")
                /\ ~(g.run = "leave" /\ h.run \in {"request", "leave"})
                /\ ~(g.run = "stop" /\ h.run \in {"leave", "stop"})
    PROVE  InOrder(Append(q, h))
<1>1. /\ DOMAIN Append(q, h) = 1..Len(q) + 1 /\ DOMAIN q = 1..Len(q) /\ Len(q) \in Nat
      /\ \A n \in 1..Len(q) : Append(q, h)[n] = q[n]
      /\ Append(q, h)[Len(q) + 1] = h
  OBVIOUS
<1>2. \A n, m \in 1..Len(q) + 1 : n < m => n \in 1..Len(q) /\ (m \in 1..Len(q) \/ m = Len(q) + 1)
  BY <1>1
<1>3. \A n \in 1..Len(q) : q[n] \in Elems(q)
  BY <1>1 DEF Elems
<1> QED  BY <1>1, <1>2, <1>3 DEF InOrder

\* A read that fails without the peer: the streams were closed under it, or it
\* was armed on the closed streams of a lost connection.
Fails(h) ==
    /\ IsCompletion(h)
    /\ \/ h.ec = "aborted" /\ h.run = read
       \/ h.ec = "bad_descriptor" /\ lost /\ h.run # "got_handshake_reply"

\* The queue becomes q, to which such a read may be added.
Settles(q) ==
    /\ read' \in {read, "none", "got_message_header", "got_message_body"}
    /\ ioq' = q \/ \E h : ioq' = Append(q, h) /\ Fails(h)

\* Re-arming the read and closing the streams add no more than such a read.
LEMMA Settled ==
    ASSUME TypeQueue, NEW q,
           \/ (m_stopped => lost) /\ AsyncRead("got_message_body", q)
           \/ (m_stopped => lost) /\ AsyncRead("got_message_header", q)
           \/ CloseStreams(q) \/ ReceiveNext(q)
    PROVE  Settles(q)
<1>1. \A h, ec, f : Completion(h, ec, f).run = h /\ Completion(h, ec, f).ec = ec
  BY DEF Completion
<1>2. ASSUME NEW h \in {"got_message_header", "got_message_body"}, AsyncRead(h, q),
             m_stopped => lost
      PROVE  Settles(q)
  BY <1>1, <1>2 DEF AsyncRead, Settles, Fails, IsCompletion, ReadHandlers
<1>3. CASE CloseStreams(q)
  BY <1>1, <1>3 DEF CloseStreams, Settles, Fails, IsCompletion, TypeQueue
<1>4. CASE ReceiveNext(q)
  <2>1. CASE ~m_stopped
    BY <1>2, <1>4, <2>1 DEF ReceiveNext
  <2> QED  BY <1>4, <2>1 DEF ReceiveNext, Settles
<1> QED  BY <1>2, <1>3, <1>4

\* It adds no message and no lambda.
LEMMA SettledQueue ==
    ASSUME NEW q \in Seq(Handler), Settles(q)
    PROVE  /\ Elems(q) \subseteq Elems(ioq')
           /\ \A h \in Elems(ioq') : h \in Elems(q) \/ Fails(h)
           /\ InOrder(q) => InOrder(ioq')
<1>1. CASE ioq' = q
  BY <1>1
<1>2. ASSUME NEW h, ioq' = Append(q, h), Fails(h)
      PROVE  /\ Elems(ioq') = Elems(q) \cup {h}
             /\ InOrder(q) => InOrder(ioq')
  <2>1. h.run \notin {"join", "leave", "stop", "request"}
    BY <1>2 DEF Fails, IsCompletion, ReadHandlers
  <2> QED  BY <1>2, <2>1, ElemsAppend, OrderAppend
<1> QED  BY <1>1, <1>2 DEF Settles

\* The frames move s places on; and none comes but those that do.
Moved(s) == /\ \A n, f : Arrives(n, f)' => n \in Nat /\ Arrives(n + s, f)
            /\ \A n, f : Arrives(n, f) => n \in Nat /\ n - s \in Nat /\ Arrives(n - s, f)'

\* The frame that waited to be handled is gone.
Handled(f0) == /\ Arrives(0, f0) /\ \A f : Arrives(0, f) => f = f0
               /\ \A n, f : Arrives(n, f)' <=> Arrives(n, f) /\ n # 0

\* The lambdas of the queue stay; the first one, of run, is taken; one is added.
Lambdas == InOrder(ioq') /\ \A run : run \in ReadHandlers \/ (InQueue(run)' <=> InQueue(run))
Took(first) ==
    /\ InOrder(ioq') /\ InQueue(first)
    /\ \A run : \/ run \in ReadHandlers
                \/ /\ InQueue(run)' => InQueue(run)
                   /\ InQueue(run) => InQueue(run)' \/ run = first
    /\ first = "join" => ~InQueue("join")'
    /\ first = "leave" => ~InQueue("leave")' /\ ~InQueue("request")'
    /\ first = "stop" => ~InQueue("leave")' /\ ~InQueue("stop")'
Got(last) ==
    InOrder(ioq') /\ \A run : InQueue(run)' <=> InQueue(run) \/ run = last

\* No read completes but those that fail by themselves.
NoReads == /\ read' \in {read, "none", "got_message_header", "got_message_body"}
           /\ \A h \in Elems(ioq') : IsCompletion(h) => h \in Elems(ioq) \/ Fails(h)

\* The frames on their way have a place and are frames.
LEMMA WireDomain == ASSUME TypeQueue, wire \in Seq(FrameSpace)
      PROVE /\ Len(wire) \in Nat
            /\ \A n, f : Arrives(n, f) => n \in Nat /\ n <= Len(wire) /\ f \in FrameSpace
<1>1. \A h \in Elems(ioq) : h.frame \in FrameSpace
  BY HandlerFields DEF TypeQueue, Elems
<1> QED  BY <1>1 DEF Arrives

\* The bodies in the queue decide.
LEMMA MovedStill ==
    ASSUME TypeQueue, wire \in Seq(FrameSpace), wire' = wire,
           \A h : IsBody(h) => (h \in Elems(ioq') <=> h \in Elems(ioq))
    PROVE  Moved(0)
<1>1. \A n, f : Arrives(n, f)' <=> Arrives(n, f)
  BY DEF Arrives
<1>2. \A n, f : Arrives(n, f) => n \in Nat
  BY WireDomain
<1> QED  BY <1>1, <1>2 DEF Moved

\* A read that fails by itself delivers no message.
LEMMA FailsNoBody == \A h : Fails(h) => ~IsBody(h) /\ h.run \in ReadHandlers
  BY DEF Fails, IsBody, IsCompletion

\* No handler is taken, and a read may fail.
LEMMA QueueStays ==
    ASSUME TypeQueue, wire \in Seq(FrameSpace), wire' = wire, InOrder(ioq), Settles(ioq)
    PROVE  Moved(0) /\ Lambdas /\ NoReads
<1>1. ioq \in Seq(Handler)
  BY DEF TypeQueue
<1>2. /\ Elems(ioq) \subseteq Elems(ioq')
      /\ \A h \in Elems(ioq') : h \in Elems(ioq) \/ Fails(h)
      /\ InOrder(ioq')
  BY <1>1, SettledQueue
<1>3. Moved(0)
  BY <1>2, MovedStill, FailsNoBody
<1>4. \A run : run \in ReadHandlers \/ (InQueue(run)' <=> InQueue(run))
  BY <1>2, FailsNoBody DEF InQueue
<1>5. NoReads
  BY <1>2 DEF NoReads, Settles
<1> QED  BY <1>2, <1>3, <1>4, <1>5 DEF Lambdas

\* The handler at the head, no message, is taken.
LEMMA QueueTook ==
    ASSUME TypeQueue, wire \in Seq(FrameSpace), wire' = wire, InOrder(ioq), ioq # <<>>,
           ~IsBody(Head(ioq)), Settles(Tail(ioq))
    PROVE  Moved(0) /\ NoReads /\ Took(Head(ioq).run)
<1>1. /\ ioq \in Seq(Handler) /\ Tail(ioq) \in Seq(Handler)
      /\ Elems(ioq) = {Head(ioq)} \cup Elems(Tail(ioq))
      /\ InOrder(Tail(ioq))
      /\ \A h \in Elems(Tail(ioq)) :
                /\ ~(Head(ioq).run = "join" /\ h.run = "join")
                /\ ~(Head(ioq).run = "leave" /\ h.run \in {"request", "leave"})
                /\ ~(Head(ioq).run = "stop" /\ h.run \in {"leave", "stop"})
  BY ElemsTail, OrderTail DEF TypeQueue
<1>2. /\ Elems(Tail(ioq)) \subseteq Elems(ioq')
      /\ \A h \in Elems(ioq') : h \in Elems(Tail(ioq)) \/ Fails(h)
      /\ InOrder(ioq')
  BY <1>1, SettledQueue
<1>3. Moved(0)
  BY <1>1, <1>2, MovedStill, FailsNoBody
<1>4. NoReads
  BY <1>1, <1>2 DEF NoReads, Settles
<1>5. Took(Head(ioq).run)
  BY <1>1, <1>2, FailsNoBody DEF Took, InQueue, ReadHandlers
<1> QED  BY <1>3, <1>4, <1>5

\* The message at the head is the only one there.
LEMMA QueueHandled ==
    ASSUME TypeOK, ReadCore, wire \in Seq(FrameSpace), wire' = wire, InOrder(ioq),
           Runs("got_message_body"), Head(ioq).ec = "ok", Settles(Tail(ioq))
    PROVE  Handled(Message) /\ NoReads /\ Lambdas
<1>1. /\ ioq # <<>> /\ Tail(ioq) \in Seq(Handler) /\ NoCompletion(Tail(ioq))
  BY CompletionTaken DEF ReadHandlers
<1>2. /\ ioq \in Seq(Handler)
      /\ Elems(ioq) = {Head(ioq)} \cup Elems(Tail(ioq))
      /\ InOrder(Tail(ioq))
  BY <1>1, ElemsTail, OrderTail DEF TypeOK, TypeQueue
<1>3. IsBody(Head(ioq)) /\ Head(ioq).run \in ReadHandlers
  BY DEF Runs, IsBody, ReadHandlers
<1>4. \A h \in Elems(Tail(ioq)) : ~IsCompletion(h) /\ ~IsBody(h)
  BY <1>1 DEF NoCompletion, Elems, IsBody, IsCompletion, ReadHandlers
<1>5. /\ Elems(Tail(ioq)) \subseteq Elems(ioq')
      /\ \A h \in Elems(ioq') : h \in Elems(Tail(ioq)) \/ Fails(h)
      /\ InOrder(ioq')
  BY <1>1, <1>2, SettledQueue
<1>6. Handled(Message)
  <2>1. \A h \in Elems(ioq) : IsBody(h) => h = Head(ioq)
    BY <1>2, <1>4
  <2>2. \A h \in Elems(ioq') : ~IsBody(h)
    BY <1>4, <1>5, FailsNoBody
  <2>3. 0 \notin 1..Len(wire)
    OBVIOUS
  <2>4. Arrives(0, Message) /\ \A f : Arrives(0, f) => f = Message
    BY <1>2, <1>3, <2>1, <2>3 DEF Arrives, Message
  <2>5. \A n, f : Arrives(n, f)' <=> n \in 1..Len(wire) /\ wire[n] = f
    BY <2>2 DEF Arrives
  <2>6. \A n, f : Arrives(n, f) /\ n # 0 <=> n \in 1..Len(wire) /\ wire[n] = f
    BY <2>3 DEF Arrives
  <2> QED  BY <2>4, <2>5, <2>6 DEF Handled
<1>7. NoReads
  BY <1>2, <1>5 DEF NoReads, Settles
<1>8. Lambdas
  BY <1>2, <1>3, <1>5, FailsNoBody DEF Lambdas, InQueue
<1> QED  BY <1>6, <1>7, <1>8

\* A lambda is queued.
LEMMA QueueGot ==
    ASSUME TypeQueue, wire \in Seq(FrameSpace), wire' = wire, read' = read, InOrder(ioq),
           NEW run \in LifecycleOps \cup {"request", "reply"}, NEW id,
           ioq' = Append(ioq, Lambda(run, id)),
           run = "join" => ~InQueue("join"),
           run = "request" => ~InQueue("leave"),
           run = "leave" => ~InQueue("leave") /\ ~InQueue("stop"),
           run = "stop" => ~InQueue("stop")
    PROVE  Moved(0) /\ NoReads /\ Got(run)
<1> DEFINE h == Lambda(run, id)
<1>1. h.run = run /\ ~IsCompletion(h) /\ ~IsBody(h)
  BY DEF Lambda, IsCompletion, IsBody, ReadHandlers, LifecycleOps
<1> HIDE DEF h
<1>2. ioq \in Seq(Handler) /\ ioq' = Append(ioq, h)
  BY DEF TypeQueue, h
<1>3. Elems(ioq') = Elems(ioq) \cup {h}
  BY <1>2, ElemsAppend
<1>4. Moved(0)
  BY <1>1, <1>3, MovedStill
<1>5. NoReads
  BY <1>1, <1>3 DEF NoReads
<1>6. InOrder(ioq')
  BY <1>1, <1>2, OrderAppend DEF InQueue
<1>7. \A r : InQueue(r)' <=> InQueue(r) \/ r = run
  BY <1>1, <1>3 DEF InQueue
<1> QED  BY <1>4, <1>5, <1>6, <1>7 DEF Got
-----------------------------------------------------------------------------
(***************************************************************************)
(* What a step keeps                                                       *)
(***************************************************************************)

Goodbyes == Said("GOODBYE")' => Said("GOODBYE") \/ m_goodbye_sent'

\* The frames, when nothing but their places changes.
LEMMA FramesKept ==
    ASSUME FramesInv, NEW s \in {0, 1}, Moved(s), lost => wire' = <<>>,
           UNCHANGED <<m_session_join, m_session_leave, router, lost>>,
           m_goodbye_sent => m_goodbye_sent', out' = <<>> => out = <<>>, Goodbyes
    PROVE  FramesInv'
<1>1. \A n, f : Arrives(n, f)' => /\ n \in Nat /\ n + s \in Nat /\ Arrives(n + s, f)
  BY DEF Moved
<1>2. \A n, f : Arrives(n, f) => /\ n - s \in Nat /\ n = (n - s) + s /\ Arrives(n - s, f)'
  <2>1. \A n, f : Arrives(n, f) => n - s \in Nat /\ Arrives(n - s, f)'
    BY DEF Moved
  <2>2. \A n, f : Arrives(n, f) => n \in Nat
    BY DEF Moved
  <2> QED  BY <2>1, <2>2
<1>3. Clear' <=> Clear
  BY <1>1, <1>2 DEF Clear
<1>4. \A n, f : Arrives(n, f)' => f.shape = "ok" /\ f.type # "UNEXPECTED"
  BY <1>1 DEF FramesInv
<1>5. ASSUME NEW n, NEW f, Arrives(n, f)'
      PROVE  (\A m, g : Arrives(m, g)' => n <= m) <=> (\A m, g : Arrives(m, g) => n + s <= m)
  <2>1. ASSUME \A m, g : Arrives(m, g)' => n <= m, NEW m, NEW g, Arrives(m, g)
        PROVE  n + s <= m
    <3>1. m - s \in Nat /\ m = (m - s) + s /\ n \in Nat /\ n <= m - s
      BY <1>1, <1>2, <1>5, <2>1
    <3> QED  BY <3>1
  <2>2. ASSUME \A m, g : Arrives(m, g) => n + s <= m, NEW m, NEW g, Arrives(m, g)'
        PROVE  n <= m
    <3>1. m \in Nat /\ n \in Nat /\ n + s <= m + s
      BY <1>1, <1>5, <2>2
    <3> QED  BY <3>1
  <2> QED  BY <2>1, <2>2
<1>6. \A n, f : Arrives(n, f)' =>
          (f.type = "WELCOME" <=> /\ m_session_join' = "unset"
                                  /\ \A m, g : Arrives(m, g)' => n <= m)
  BY <1>1, <1>5 DEF FramesInv
<1>7. ASSUME NEW n, NEW f, Arrives(n, f)', f.type = "GOODBYE"
      PROVE  /\ m_session_leave' = "unset" /\ router' \in {"left", "quit"}
             /\ \A m, g : Arrives(m, g)' => m <= n
  <2>1. /\ m_session_leave = "unset" /\ router \in {"left", "quit"}
        /\ \A m, g : Arrives(m, g) => m <= n + s
    BY <1>1, <1>7 DEF FramesInv
  <2>2. ASSUME NEW m, NEW g, Arrives(m, g)' PROVE m <= n
    <3>1. m + s <= n + s /\ m \in Nat /\ n \in Nat
      BY <1>1, <1>7, <2>1, <2>2
    <3> QED  BY <3>1
  <2> QED  BY <2>1, <2>2
<1> QED  BY <1>3, <1>4, <1>6, <1>7 DEF FramesInv, Goodbyes

\* What is handed to the stream is no request.
NoRequests ==
    /\ \A n \in DOMAIN out' : out'[n].type \in RequestOps => n \in DOMAIN out /\ out'[n] = out[n]
    /\ \A n \in DOMAIN out : n \in DOMAIN out' /\ out'[n] = out[n]

\* The answers, when no request is sent and none is answered.
LEMMA AnswersKept ==
    ASSUME AnswersInv, NEW s \in {0, 1}, NoRequests, UNCHANGED <<seen, owed>>,
           \A n, f : Arrives(n, f)' => n \in Nat /\ Arrives(n + s, f),
           \A i : OnWire(RequestOps, out, i) =>
                     request'[i] = request[i] /\ (Open(i) => Open(i)')
    PROVE  AnswersInv'
<1>1. \A i : Answered(i)' => Answered(i)
  BY DEF Answered, IsAnswer
<1>2. \A i : OnWire(RequestOps, out, i)' <=> OnWire(RequestOps, out, i)
  BY DEF OnWire, NoRequests
<1>3. ASSUME NEW n \in DOMAIN out', out'[n].type \in RequestOps, n > seen',
             NEW i, i = out'[n].id
      PROVE  Open(i)' /\ i \notin owed' /\ ~Answered(i)'
  <2>1. /\ n \in DOMAIN out /\ out[n].type \in RequestOps /\ n > seen /\ i = out[n].id
        /\ OnWire(RequestOps, out, i)
    BY <1>3 DEF NoRequests, OnWire
  <2> QED  BY <1>1, <2>1 DEF AnswersInv
<1>4. \A i \in owed' : Open(i)' /\ OnWire(RequestOps, out, i)' /\ ~Answered(i)'
  BY <1>1, <1>2 DEF AnswersInv
<1>5. ASSUME NEW n, NEW f, Arrives(n, f)', IsAnswer(f)
      PROVE  /\ Open(f.id)' /\ Fits(f)' /\ OnWire(RequestOps, out, f.id)'
             /\ \A m, g : Arrives(m, g)' /\ IsAnswer(g) /\ g.id = f.id => m = n
  <2>1. /\ Open(f.id) /\ Fits(f) /\ OnWire(RequestOps, out, f.id)
        /\ \A m, g : Arrives(m, g) /\ IsAnswer(g) /\ g.id = f.id => m = n + s
    BY <1>5 DEF AnswersInv
  <2>2. ASSUME NEW m, NEW g, Arrives(m, g)', IsAnswer(g), g.id = f.id PROVE m = n
    <3>1. m + s = n + s /\ m \in Nat /\ n \in Nat
      BY <1>5, <2>1, <2>2
    <3> QED  BY <3>1
  <2>3. Fits(f)'
    BY <2>1 DEF Fits
  <2> QED  BY <1>2, <2>1, <2>2, <2>3
<1> QED  BY <1>3, <1>4, <1>5 DEF AnswersInv, IsAnswer

\* The registrations, when none is made or installed.
LEMMA ProceduresKept ==
    ASSUME ProceduresInv, NEW s \in {0, 1}, Moved(s), UNCHANGED <<m_procedures, regs>>,
           lost => lost'
    PROVE  ProceduresInv'
<1>1. \A n, f : Arrives(n, f)' => n \in Nat /\ Arrives(n + s, f)
  BY DEF Moved
<1>2. \A n, f : Arrives(n, f) => /\ n - s \in Nat /\ n = (n - s) + s /\ Arrives(n - s, f)'
  <2>1. \A n, f : Arrives(n, f) => n - s \in Nat /\ Arrives(n - s, f)' /\ n \in Nat
    BY DEF Moved
  <2> QED  BY <2>1
<1>3. ASSUME NEW n, NEW f, Arrives(n, f)', f.type = "INVOCATION", m_procedures[f.arg] = 0
      PROVE  \E m, g : Arrives(m, g)' /\ Confirms(g, f.arg) /\ m < n
  <2>1. PICK m, g : Arrives(m, g) /\ Confirms(g, f.arg) /\ m < n + s
    BY <1>1, <1>3 DEF ProceduresInv
  <2>2. m - s \in Nat /\ m = (m - s) + s /\ Arrives(m - s, g)' /\ n \in Nat
    BY <1>1, <1>2, <1>3, <2>1
  <2>3. m - s < n
    BY <2>1, <2>2
  <2> QED  BY <2>1, <2>2, <2>3
<1>4. ASSUME ~lost', NEW r \in regs', m_procedures[r] = 0
      PROVE  \E m, g : Arrives(m, g)' /\ Confirms(g, r)
  BY <1>2, <1>4 DEF ProceduresInv
<1> QED  BY <1>3, <1>4 DEF ProceduresInv, Confirms

\* The program, when no lambda comes or goes.
LEMMA ProgramKept ==
    ASSUME ProgramInv, Lambdas,
           UNCHANGED <<m_session_id, m_goodbye_sent, m_stopped, m_session_join,
                       m_session_leave, main>>,
           lost => lost', router = "quit" => router' = "quit",
           \A t \in Threads : thread'[t] # 0 => thread[t] # 0,
           m_session_join = "unset" => UNCHANGED <<out, invocation, callback>>,
           Said("GOODBYE")' => Said("GOODBYE")
    PROVE  ProgramInv'
<1>1. \A run : run \in ReadHandlers \/ (InQueue(run)' <=> InQueue(run))
  BY DEF Lambdas
<1>2. /\ (InQueue("join")' <=> InQueue("join")) /\ (InQueue("leave")' <=> InQueue("leave"))
      /\ (InQueue("stop")' <=> InQueue("stop")) /\ (InQueue("request")' <=> InQueue("request"))
      /\ (InQueue("reply")' <=> InQueue("reply"))
  BY <1>1 DEF ReadHandlers
<1>3. Unjoined /\ m_session_join = "unset" => Unjoined'
  BY <1>2 DEF Unjoined, InCallback
<1>4. InOrder(ioq')
  BY DEF Lambdas
<1> QED  BY <1>2, <1>3, <1>4 DEF ProgramInv

\* The reads, when none completes.
LEMMA CompletionsKept ==
    ASSUME CompletionsInv, NoReads, lost => lost', UNCHANGED <<m_handshake, main>>
    PROVE  CompletionsInv'
<1>1. \A h : Fails(h) => h.ec # "invalid" /\ (h.ec \in {"eof", "bad_descriptor"} => lost)
  BY DEF Fails
<1>2. \A h \in Elems(ioq') : IsCompletion(h) =>
          h.ec # "invalid" /\ (h.ec \in {"eof", "bad_descriptor"} => lost')
  BY <1>1 DEF CompletionsInv, NoReads
<1>3. read' = "got_handshake_reply" => read = "got_handshake_reply"
  BY DEF NoReads
<1>4. InQueue("got_handshake_reply")' =>
         InQueue("got_handshake_reply") \/ read = "got_handshake_reply"
  BY DEF NoReads, InQueue, Fails, IsCompletion, ReadHandlers
<1> QED  BY <1>2, <1>3, <1>4 DEF CompletionsInv

\* The invariant while the io_service runs.
RunInv == io = "running" /\ RouterInv /\ PeerInv

\* The parts of the invariant.
LEMMA RunTypes ==
    ASSUME RunInv
    PROVE  /\ TypeOK /\ TypeQueue /\ ReadCore /\ IdInv /\ TableInv /\ LifeInv
           /\ wire \in Seq(FrameSpace) /\ ioq \in Seq(Handler) /\ InOrder(ioq)
           /\ FramesInv /\ AnswersInv /\ ProceduresInv /\ ProgramInv /\ CompletionsInv
  BY DEF RunInv, RouterInv, SessionInv, WireInv, RTypeOK, TypeOK, TypeQueue, ReadInv, PeerInv,
         ProgramInv

\* What a session that is joined, and one that was, can rely on.
LEMMA Joined ==
    ASSUME RunInv
    PROVE  /\ m_session_join # "unset" =>
                 /\ router # "closed" /\ out # <<>> /\ ~InQueue("join")
                 /\ main \notin {"none", "start"}
           /\ InCallback \/ InQueue("request") \/ InQueue("reply") \/ invocation # <<>> =>
                 m_session_join # "unset"
           /\ m_session_id # 0 =>
                 /\ m_session_join # "unset" /\ ~m_goodbye_sent /\ ~m_stopped /\ ~Said("GOODBYE")
<1> USE RunTypes
<1>1. /\ m_session_join # "unset" =>
           router # "closed" /\ out # <<>> /\ ~InQueue("join") /\ main \notin {"none", "start"}
  BY DEF FramesInv, ProgramInv
<1>2. InCallback \/ InQueue("request") \/ InQueue("reply") \/ invocation # <<>> =>
         m_session_join # "unset"
  BY DEF ProgramInv, Unjoined
<1>3. m_session_id # 0 => m_session_join # "unset" /\ ~m_goodbye_sent
  BY DEF LifeInv, GoodbyeEndsSession, RunInv
<1>4. m_session_id # 0 => ~m_stopped /\ ~Said("GOODBYE")
  BY DEF ProgramInv
<1> QED  BY <1>1, <1>2, <1>3, <1>4

\* What send() hands to the stream is added to it, or dropped.
LEMMA OutAppend ==
    ASSUME TypeOK, NEW type, NEW id, NEW arg, out' = Sent(type, id, arg)
    PROVE  /\ \A n \in DOMAIN out : n \in DOMAIN out' /\ out'[n] = out[n]
           /\ \A n \in DOMAIN out' : \/ n \in DOMAIN out /\ out'[n] = out[n]
                                     \/ /\ n = Len(out) + 1 /\ out'[n].type = type
                                        /\ out'[n].id = id /\ ~m_stopped
           /\ out' = <<>> => out = <<>>
           /\ Len(out) \in Nat
<1> DEFINE m == [type |-> type, id |-> id, arg |-> arg]
           p == Append(out, m)
<1>1. /\ DOMAIN p = 1..Len(out) + 1 /\ DOMAIN out = 1..Len(out) /\ Len(out) \in Nat
      /\ \A n \in 1..Len(out) : p[n] = out[n]
      /\ p[Len(out) + 1] = m /\ p # <<>>
  BY DEF TypeOK, TypeOut
<1>2. m.id = id /\ m.type = type
  OBVIOUS
<1>3. out' = IF m_stopped THEN out ELSE p
  BY DEF Sent
<1> HIDE DEF m, p
<1>4. \A n \in 1..Len(out) + 1 : n \in 1..Len(out) \/ n = Len(out) + 1
  BY <1>1
<1>5. \A n \in 1..Len(out) : n \in 1..Len(out) + 1
  BY <1>1
<1>6. CASE m_stopped
  BY <1>1, <1>3, <1>6
<1>7. CASE ~m_stopped
  <2>1. out' = p
    BY <1>3, <1>7
  <2> QED  BY <1>1, <1>2, <1>4, <1>5, <1>7, <2>1
<1> QED  BY <1>6, <1>7

\* A message that is no request.
LEMMA SaysOther ==
    ASSUME TypeOK, NEW type, type \notin RequestOps,
           out' = out \/ \E id, arg : out' = Sent(type, id, arg),
           type = "GOODBYE" => m_goodbye_sent'
    PROVE  /\ NoRequests /\ Goodbyes
           /\ out' = <<>> => out = <<>>
           /\ type # "GOODBYE" => (Said("GOODBYE")' => Said("GOODBYE"))
<1>1. CASE out' = out
  BY <1>1 DEF NoRequests, Goodbyes, Said
<1>2. ASSUME NEW id, NEW arg, out' = Sent(type, id, arg)
      PROVE  /\ NoRequests /\ (out' = <<>> => out = <<>>)
             /\ Said("GOODBYE")' => Said("GOODBYE") \/ type = "GOODBYE"
  <2>1. /\ \A n \in DOMAIN out : n \in DOMAIN out' /\ out'[n] = out[n]
        /\ \A n \in DOMAIN out' : \/ n \in DOMAIN out /\ out'[n] = out[n]
                                  \/ out'[n].type = type
        /\ out' = <<>> => out = <<>>
    BY <1>2, OutAppend
  <2> QED  BY <2>1 DEF NoRequests, Said
<1> QED  BY <1>1, <1>2 DEF Goodbyes

\* Most steps of the session leave the frames, the answers and the registrations alone.
LEMMA SessionKept ==
    ASSUME RunInv, Moved(0),
           UNCHANGED <<wire, peer, m_session_join, m_session_leave, m_procedures, pending,
                       response>>,
           m_goodbye_sent => m_goodbye_sent',
           \A i : OnWire(RequestOps, out, i) => request'[i] = request[i],
           NoRequests, Goodbyes, out' = <<>> => out = <<>>
    PROVE  FramesInv' /\ AnswersInv' /\ ProceduresInv'
<1> USE RunTypes
<1>1. FramesInv'
  BY FramesKept DEF peer, FramesInv
<1>2. AnswersInv'
  <2>1. \A i : OnWire(RequestOps, out, i) =>
                     request'[i] = request[i] /\ (Open(i) => Open(i)')
    BY DEF Open, pending
  <2>2. \A n, f : Arrives(n, f)' => n \in Nat /\ Arrives(n + 0, f)
    BY DEF Moved
  <2> QED  BY <2>1, <2>2, AnswersKept DEF peer
<1>3. ProceduresInv'
  BY ProceduresKept DEF peer
<1> QED  BY <1>1, <1>2, <1>3
==============================================================================
