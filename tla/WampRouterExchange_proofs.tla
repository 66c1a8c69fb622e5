---------------------- MODULE WampRouterExchange_proofs ----------------------
(***************************************************************************)
(* The exchange of a session and a conforming router, for every number of  *)
(* threads, requests, pushes and answers the router may refuse: no message *)
(* and no lambda ends the io_service but one that comes after the router   *)
(* has closed the session or after the connection was lost, what the       *)
(* session writes is in the order a router expects, and no request, join() *)
(* or leave() is forgotten by any of the parties it passes through.        *)
(*                                                                         *)
(* PeerInv, of WampRouter_proofs, is what makes this inductive.  There is  *)
(* one lemma per action of the session, of the connection, of the program  *)
(* and of the router.                                                      *)
(***************************************************************************)
EXTENDS WampRouter_proofs
-----------------------------------------------------------------------------
(***************************************************************************)
(* Replies and callbacks                                                   *)
(***************************************************************************)

\* Whatever the session writes that is no request.
SaysReply == \/ out' = out
             \/ m_session_join # "unset" /\ \E id, arg : out' = Sent("REPLY", id, arg)

\* A step that changes neither promise nor table nor membership.
LEMMA QuietStep ==
    ASSUME RunInv, Moved(0), NoReads,
           UNCHANGED <<wire, peer, main, promises, life, m_procedures, pending, response,
                       request>>,
           SaysReply
    PROVE  /\ FramesInv' /\ AnswersInv' /\ ProceduresInv' /\ CompletionsInv'
           /\ Said("GOODBYE")' => Said("GOODBYE")
           /\ m_session_join = "unset" => out' = out
<1>1. /\ NoRequests /\ Goodbyes
      /\ out' = <<>> => out = <<>>
      /\ Said("GOODBYE")' => Said("GOODBYE")
  <2>1. TypeOK /\ "REPLY" \notin RequestOps /\ "REPLY" # "GOODBYE"
    BY RunTypes DEF RequestOps
  <2> QED  BY <2>1, SaysOther DEF SaysReply
<1>2. FramesInv' /\ AnswersInv' /\ ProceduresInv'
  BY <1>1, SessionKept DEF promises, life
<1>3. CompletionsInv'
  BY RunTypes, CompletionsKept DEF promises, peer
<1> QED  BY <1>1, <1>2, <1>3 DEF SaysReply

\* The same, when the queued lambdas stay as they are.
LEMMA QuietLambdas ==
    ASSUME RunInv, Moved(0), NoReads, Lambdas,
           UNCHANGED <<wire, peer, main, promises, life, m_procedures, pending, response,
                       request>>,
           \A t \in Threads : thread'[t] # 0 => thread[t] # 0,
           m_session_join = "unset" => UNCHANGED <<invocation, callback>>,
           SaysReply
    PROVE  PeerInv'
<1>1. /\ FramesInv' /\ AnswersInv' /\ ProceduresInv' /\ CompletionsInv'
      /\ Said("GOODBYE")' => Said("GOODBYE")
      /\ m_session_join = "unset" => out' = out
  BY QuietStep
<1>2. ProgramInv'
  BY <1>1, RunTypes, ProgramKept DEF promises, life, peer
<1> QED  BY <1>1, <1>2 DEF PeerInv

\* A thread or a callback replies to an invocation.
LEMMA PeerReply ==
    ASSUME RunInv, UNCHANGED <<wire, peer, main>>, NEW k \in DOMAIN invocation,
           Reply(k) \/ ReplyReturns(k) \/ ReplyInline(k)
    PROVE  PeerInv'
<1>0. /\ TypeQueue /\ wire \in Seq(FrameSpace) /\ InOrder(ioq) /\ ioq \in Seq(Handler)
      /\ m_session_join # "unset"
  <2>1. invocation # <<>>
    BY RunTypes DEF TypeOK, TypeCallees
  <2> QED  BY <2>1, RunTypes, Joined
<1>1. CASE Reply(k)
  <2>1. Moved(0) /\ NoReads /\ Got("reply")
    BY <1>0, <1>1, QueueGot DEF Reply
  <2>2. /\ FramesInv' /\ AnswersInv' /\ ProceduresInv' /\ CompletionsInv'
    BY <1>0, <1>1, <2>1, QuietStep DEF Reply, app, SaysReply
  <2>3. /\ (InQueue("join")' <=> InQueue("join")) /\ (InQueue("leave")' <=> InQueue("leave"))
        /\ (InQueue("stop")' <=> InQueue("stop")) /\ (InQueue("request")' <=> InQueue("request"))
    BY <2>1 DEF Got
  <2>4. ProgramInv'
    BY <1>0, <1>1, <2>1, <2>3, RunTypes
    DEF Reply, ProgramInv, Got, promises, life, app, peer, Said
  <2> QED  BY <2>2, <2>4 DEF PeerInv
<1>2. CASE ReplyReturns(k) \/ ReplyInline(k)
  <2>1. Settles(ioq)
    BY <1>2 DEF Settles, ReplyReturns, ReplyInline
  <2>2. Moved(0) /\ NoReads /\ Lambdas
    BY <1>0, <2>1, QueueStays
  <2> QED  BY <1>0, <1>2, <2>2, QuietLambdas DEF ReplyReturns, ReplyInline, app, SaysReply
<1> QED  BY <1>1, <1>2

\* A callback ends, and the io_service goes on.
LEMMA PeerCallback ==
    ASSUME RunInv, UNCHANGED <<wire, peer, main>>, CallbackEnds, io' = "running"
    PROVE  PeerInv'
<1>0. /\ TypeQueue /\ wire \in Seq(FrameSpace) /\ InOrder(ioq) /\ ioq \in Seq(Handler)
      /\ m_session_join # "unset"
  BY RunTypes, Joined DEF CallbackEnds, CallbackReturns, CallbackThrows, CatchThrows
<1>1. Settles(ioq)
  BY <1>0, Settled DEF CallbackEnds, CallbackReturns, CallbackThrows, CatchThrows, Settles
<1>2. Moved(0) /\ NoReads /\ Lambdas
  BY <1>0, <1>1, QueueStays
<1>3. CASE CallbackReturns
  BY <1>0, <1>2, <1>3, QuietLambdas DEF CallbackReturns, app, callees, SaysReply
<1>4. CASE CallbackThrows
  BY <1>0, <1>2, <1>4, QuietLambdas DEF CallbackThrows, app, SaysReply
<1> QED  BY <1>3, <1>4 DEF CallbackEnds, CatchThrows, Escapes

\* The lambda of a reply runs.
LEMMA PeerRunReply ==
    ASSUME RunInv, UNCHANGED <<wire, peer, main>>, run_reply
    PROVE  PeerInv'
<1>1. /\ TypeQueue /\ wire \in Seq(FrameSpace) /\ InOrder(ioq) /\ ioq # <<>>
      /\ ~IsBody(Head(ioq)) /\ Head(ioq).run = "reply"
  BY RunTypes DEF run_reply, Runs, IsBody
<1>2. Settles(Tail(ioq))
  BY DEF run_reply, Settles
<1>3. Moved(0) /\ NoReads /\ Took("reply")
  BY <1>1, <1>2, QueueTook
<1>4. m_session_join # "unset"
  BY <1>3, Joined DEF Took
<1>5. /\ FramesInv' /\ AnswersInv' /\ ProceduresInv' /\ CompletionsInv'
      /\ Said("GOODBYE")' => Said("GOODBYE")
  BY <1>3, <1>4, QuietStep DEF run_reply, app, callees, SaysReply
<1>6. /\ (InQueue("join")' <=> InQueue("join")) /\ (InQueue("leave")' <=> InQueue("leave"))
      /\ (InQueue("stop")' <=> InQueue("stop")) /\ (InQueue("request")' <=> InQueue("request"))
  BY <1>3 DEF Took, ReadHandlers
<1>7. ProgramInv'
  BY <1>3, <1>4, <1>5, <1>6, RunTypes, Joined
  DEF run_reply, ProgramInv, Took, promises, life, app, peer, callees
<1> QED  BY <1>5, <1>7 DEF PeerInv
-----------------------------------------------------------------------------
(***************************************************************************)
(* The lambdas of join, leave and stop                                     *)
(***************************************************************************)

\* A lambda of the application's is taken.
LEMMA LambdaTaken ==
    ASSUME RunInv, wire' = wire, NEW run \in LifecycleOps \cup {"request"}, Runs(run)
    PROVE  /\ ioq # <<>> /\ Head(ioq).run = run /\ Tail(ioq) \in Seq(Handler) /\ InQueue(run)
           /\ run = "stop" => ~InQueue("leave")
           /\ Settles(Tail(ioq)) => Moved(0) /\ NoReads /\ Took(run)
<1>1. /\ TypeQueue /\ wire \in Seq(FrameSpace) /\ InOrder(ioq) /\ ioq # <<>>
      /\ Head(ioq).run = run /\ ~IsBody(Head(ioq))
      /\ ioq \in Seq(Handler)
  BY RunTypes DEF Runs, IsBody, LifecycleOps
<1>2. Settles(Tail(ioq)) => Moved(0) /\ NoReads /\ Took(run)
  BY <1>1, QueueTook
<1>3. /\ Elems(ioq) = {Head(ioq)} \cup Elems(Tail(ioq))
      /\ \A h \in Elems(Tail(ioq)) : ~(Head(ioq).run = "stop" /\ h.run = "leave")
      /\ Tail(ioq) \in Seq(Handler)
  BY <1>1, ElemsTail, OrderTail
<1> QED  BY <1>1, <1>2, <1>3 DEF InQueue

\* join() is never refused, and leave() and stop() hardly.
LEMMA LifecycleRefused ==
    ASSUME RunInv, wire' = wire, NEW op \in LifecycleOps, Runs(op), Refusal(op) # "none"
    PROVE  op = "leave" /\ Refusal(op) = "no_session_error" /\ (lost \/ router = "quit")
<1>1. InQueue(op) /\ (op = "stop" => ~InQueue("leave"))
  BY LambdaTaken
<1>2. CASE op = "join"
  BY <1>1, <1>2, RunTypes DEF ProgramInv, Unjoined, Refusal, JoinRefusal
<1>3. CASE op = "stop"
  BY <1>1, <1>3, RunTypes DEF ProgramInv, Refusal, StopRefusal
<1>4. CASE op = "leave"
  <2>1. m_session_join = "value"
    BY <1>1, <1>4, RunTypes DEF ProgramInv, Unjoined, TypeOK, TypeLife
  <2> QED
    BY <1>1, <1>4, <2>1, RunTypes, Joined DEF ProgramInv, Refusal, LeaveRefusal
<1> QED  BY <1>2, <1>3, <1>4 DEF LifecycleOps

\* The lambdas of join(), leave() and stop(), when they are not refused.
LEMMA PeerLifecycle ==
    ASSUME RunInv, UNCHANGED <<wire, peer, main>>, NEW op \in LifecycleOps, RunLifecycle(op),
           io' = "running"
    PROVE  PeerInv'
<1> USE DEF promises, life
<1>1. /\ Runs(op) /\ Effect(op, Tail(ioq)) /\ Refusal(op) = "none"
      /\ UNCHANGED <<m_handshake, m_session_join, m_session_leave, m_procedures, pending,
                     response, request, thread, invocation, callback>>
  BY RunTypes DEF RunLifecycle, Escapes, Refusal, JoinRefusal, LeaveRefusal, StopRefusal, app, callees
<1>2. TypeOK /\ TypeQueue
  BY RunTypes
<1>3. Settles(Tail(ioq))
  BY <1>1, <1>2, Settled DEF Effect, JoinEffect, LeaveEffect, StopEffect, Settles
<1>4. InQueue(op) /\ Moved(0) /\ NoReads /\ Took(op)
  BY <1>1, <1>3, LambdaTaken
<1>5. /\ op # "join" => (InQueue("join")' <=> InQueue("join"))
      /\ op # "leave" => (InQueue("leave")' <=> InQueue("leave"))
      /\ op # "stop" => (InQueue("stop")' <=> InQueue("stop"))
      /\ (InQueue("request")' => InQueue("request")) /\ (InQueue("stop")' => InQueue("stop"))
      /\ op # "leave" => (InQueue("request")' <=> InQueue("request"))
      /\ InQueue("reply")' <=> InQueue("reply")
  BY <1>4 DEF Took, ReadHandlers, LifecycleOps
<1>6. CompletionsInv'
  BY <1>1, <1>4, RunTypes, CompletionsKept DEF peer
<1>7. CASE op = "join"
  <2>1. out' = Sent("HELLO", 0, 0) /\ UNCHANGED <<m_session_id, m_goodbye_sent, m_stopped>>
    BY <1>1, <1>7 DEF Effect, JoinEffect
  <2>2. /\ NoRequests /\ Goodbyes /\ (out' = <<>> => out = <<>>)
        /\ Said("GOODBYE")' => Said("GOODBYE")
    BY <1>2, <2>1, SaysOther DEF RequestOps
  <2>3. FramesInv' /\ AnswersInv' /\ ProceduresInv'
    BY <1>1, <1>4, <2>1, <2>2, SessionKept
  <2>4. out = <<>> /\ Unjoined /\ main = "join" /\ m_session_join = "unset"
    BY <1>4, <1>7, RunTypes DEF ProgramInv
  <2>5. \A n \in DOMAIN out' : n = 1 /\ out'[n].type = "HELLO"
    <3>1. Len(out) = 0 /\ DOMAIN out = {}
      BY <2>4
    <3> QED  BY <1>2, <2>1, <3>1, OutAppend
  <2>6. Unjoined'
    BY <1>1, <1>5, <1>7, <2>1, <2>4, <2>5 DEF Unjoined, InCallback
  <2>7. ProgramInv'
    BY <1>1, <1>4, <1>5, <1>7, <2>1, <2>2, <2>4, <2>6, RunTypes DEF ProgramInv, Took, peer
  <2> QED  BY <1>6, <2>3, <2>7 DEF PeerInv
<1>8. CASE op = "leave"
  <2>1. /\ out' = Sent("GOODBYE", 0, 0) /\ m_goodbye_sent' = TRUE /\ m_session_id' = 0
        /\ m_stopped' = m_stopped /\ m_session_id # 0
    BY <1>1, <1>8 DEF Effect, LeaveEffect, Refusal, LeaveRefusal
  <2>2. NoRequests /\ Goodbyes /\ (out' = <<>> => out = <<>>)
    BY <1>2, <2>1, SaysOther DEF RequestOps
  <2>3. FramesInv' /\ AnswersInv' /\ ProceduresInv'
    BY <1>1, <1>4, <2>1, <2>2, SessionKept
  <2>4. m_session_join # "unset" /\ ~m_stopped /\ ~InQueue("join") /\ main \notin {"none", "start"}
    BY <2>1, Joined
  <2>5. ProgramInv'
    BY <1>1, <1>4, <1>5, <1>8, <2>1, <2>4, RunTypes DEF ProgramInv, Took, peer
  <2> QED  BY <1>6, <2>3, <2>5 DEF PeerInv
<1>9. CASE op = "stop"
  <2>1. UNCHANGED <<out, m_session_id, m_goodbye_sent>> /\ m_session_id = 0
    BY <1>1, <1>9 DEF Effect, StopEffect, Refusal, StopRefusal
  <2>2. NoRequests /\ Goodbyes /\ (Said("GOODBYE")' => Said("GOODBYE"))
    BY <2>1 DEF NoRequests, Goodbyes, Said
  <2>3. FramesInv' /\ AnswersInv' /\ ProceduresInv'
    BY <1>1, <1>4, <2>1, <2>2, SessionKept
  <2>4. main = "stop" /\ m_session_join # "unset"
    BY <1>4, <1>9, RunTypes DEF ProgramInv, Unjoined
  <2>5. ProgramInv'
    BY <1>1, <1>4, <1>5, <1>9, <2>1, <2>2, <2>4, RunTypes, Joined DEF ProgramInv, Took, peer
  <2> QED  BY <1>6, <2>3, <2>5 DEF PeerInv
<1> QED  BY <1>7, <1>8, <1>9 DEF LifecycleOps
-----------------------------------------------------------------------------
(***************************************************************************)
(* Requests                                                                *)
(***************************************************************************)

\* A request that is sent is in its table, and no answer to it is on its way.
LEMMA RequestSent ==
    ASSUME RunInv, Moved(0), UNCHANGED <<seen, owed, response>>,
           NEW id \in Ids, ~Spent(id), NEW op, NEW sub, EmplaceAndSend(id, op, sub),
           request'[id].op = op, \A i \in Ids \ {id} : request'[i] = request[i]
    PROVE  AnswersInv'
<1> USE RunTypes
<1>1. /\ \A n \in DOMAIN out : n \in DOMAIN out' /\ out'[n] = out[n]
      /\ \A n \in DOMAIN out' : \/ n \in DOMAIN out /\ out'[n] = out[n]
                                \/ out'[n].id = id
  <2>1. out' = Sent(op, id, sub)
    BY DEF EmplaceAndSend
  <2> QED  BY <2>1, OutAppend
<1>2. ~OnWire(RequestOps, out, id) /\ id \notin Tables /\ response[id] = "unset"
  BY DEF Spent
<1>3. \A i : OnWire(RequestOps, out, i) =>
         /\ i \in Ids /\ request'[i] = request[i]
         /\ Open(i) => Open(i)'
         /\ OnWire(RequestOps, out, i)'
  <2>1. \A i : OnWire(RequestOps, out, i) => i \in Ids \ {id}
    BY <1>2 DEF RunInv, RouterInv, WireInv
  <2>2. \A i : OnWire(RequestOps, out, i) => OnWire(RequestOps, out, i)'
    BY <1>1 DEF OnWire
  <2>3. \A i \in Ids \ {id} : Open(i) => Open(i)'
    BY DEF Open, EmplaceAndSend
  <2> QED  BY <2>1, <2>2, <2>3
<1>4. Open(id)'
  BY <1>2 DEF Open, EmplaceAndSend
<1>5. ~Answered(id) /\ id \notin owed
  BY <1>2 DEF AnswersInv, Answered
<1>6. \A n, f : Arrives(n, f)' => n \in Nat /\ Arrives(n, f)
  BY DEF Moved
<1>7. \A i : Answered(i)' => Answered(i)
  BY <1>6 DEF Answered, IsAnswer
<1>8. ASSUME NEW n \in DOMAIN out', out'[n].type \in RequestOps, n > seen',
             NEW i, i = out'[n].id
      PROVE  Open(i)' /\ i \notin owed' /\ ~Answered(i)'
  <2>1. CASE n \in DOMAIN out /\ out'[n] = out[n]
    <3>1. OnWire(RequestOps, out, i)
      BY <1>8, <2>1 DEF OnWire
    <3>2. Open(i) /\ i \notin owed /\ ~Answered(i)
      BY <1>8, <2>1 DEF AnswersInv
    <3> QED  BY <1>3, <1>7, <3>1, <3>2
  <2>2. CASE i = id
    BY <1>4, <1>5, <1>7, <2>2
  <2> QED  BY <1>1, <1>8, <2>1, <2>2
<1>9. \A i \in owed' : Open(i)' /\ OnWire(RequestOps, out, i)' /\ ~Answered(i)'
  BY <1>3, <1>7 DEF AnswersInv
<1>10. ASSUME NEW n, NEW f, Arrives(n, f)', IsAnswer(f)
       PROVE  /\ Open(f.id)' /\ Fits(f)' /\ OnWire(RequestOps, out, f.id)'
              /\ \A m, g : Arrives(m, g)' /\ IsAnswer(g) /\ g.id = f.id => m = n
  <2>1. /\ Open(f.id) /\ Fits(f) /\ OnWire(RequestOps, out, f.id)
        /\ \A m, g : Arrives(m, g) /\ IsAnswer(g) /\ g.id = f.id => m = n
    BY <1>6, <1>10 DEF AnswersInv
  <2>2. Fits(f)'
    BY <1>3, <2>1 DEF Fits
  <2> QED  BY <1>3, <1>6, <2>1, <2>2
<1> QED  BY <1>8, <1>9, <1>10 DEF AnswersInv, IsAnswer

\* What a request hands to the stream is no GOODBYE.
LEMMA RequestNoGoodbye ==
    ASSUME RunInv, NEW id \in Ids, NEW op \in RequestOps \cup {"none"}, NEW sub,
           EmplaceAndSend(id, op, sub), m_goodbye_sent' = m_goodbye_sent
    PROVE  Goodbyes /\ (Said("GOODBYE")' => Said("GOODBYE")) /\ (out' = <<>> => out = <<>>)
<1>1. /\ \A n \in DOMAIN out' : \/ n \in DOMAIN out /\ out'[n] = out[n]
                                \/ out'[n].type = op
      /\ out' = <<>> => out = <<>>
  <2>1. out' = Sent(op, id, sub) /\ TypeOK
    BY RunTypes DEF EmplaceAndSend
  <2> QED  BY <2>1, OutAppend
<1>2. op # "GOODBYE"
  BY DEF RequestOps
<1> QED  BY <1>1, <1>2 DEF Goodbyes, Said

\* The frames and the registrations, when a request is sent.
LEMMA RequestRest ==
    ASSUME RunInv, Moved(0), Goodbyes, out' = <<>> => out = <<>>,
           UNCHANGED <<wire, peer, promises, life, m_procedures>>
    PROVE  FramesInv' /\ ProceduresInv'
<1>1. FramesInv'
  BY RunTypes, FramesKept DEF peer, promises, life, FramesInv
<1>2. ProceduresInv'
  BY RunTypes, ProceduresKept DEF peer
<1> QED  BY <1>1, <1>2

\* The lambda of a request runs, and is refused only when it comes too late.
LEMMA PeerRunRequest ==
    ASSUME RunInv, UNCHANGED <<wire, peer, main>>, run_request
    PROVE  /\ io' # "running" => io' = "no_session_error" /\ (lost \/ router = "quit")
           /\ io' = "running" => PeerInv'
<1>1. /\ Runs("request") /\ ioq' = Tail(ioq) /\ TypeOK
      /\ UNCHANGED <<promises, life, m_procedures, request, thread, response, invocation,
                     callback, read>>
  BY RunTypes DEF run_request, app, callees
<1>2. Settles(Tail(ioq))
  BY <1>1 DEF Settles
<1>3. InQueue("request") /\ Moved(0) /\ NoReads /\ Took("request")
  BY <1>1, <1>2, LambdaTaken
<1>4. m_session_join = "value" /\ m_session_join # "unset"
  BY <1>3, Joined, RunTypes DEF TypeOK, TypeLife
<1>5. m_session_id = 0 => lost \/ router = "quit"
  BY <1>3, <1>4, RunTypes DEF ProgramInv
<1>6. ASSUME io' = "running" PROVE PeerInv'
  <2>1. PICK id \in Ids : id = Head(ioq).id /\ ~Spent(id)
    BY <1>1, RunTypes, RequestTaken DEF run_request
  <2>2. PICK op, sub : op = request[id].op /\ sub = request[id].sub
    OBVIOUS
  <2>3. EmplaceAndSend(id, op, sub)
    BY <1>6, <2>1, <2>2 DEF run_request, Escapes
  <2>4. op \in RequestOps \cup {"none"}
    BY <1>1, <2>2 DEF TypeOK, TypeRequests
  <2>5. AnswersInv'
    BY <1>1, <1>3, <2>1, <2>2, <2>3, RequestSent DEF peer
  <2>6. Goodbyes /\ (Said("GOODBYE")' => Said("GOODBYE")) /\ (out' = <<>> => out = <<>>)
    BY <1>1, <2>3, <2>4, RequestNoGoodbye DEF life
  <2>7. FramesInv' /\ ProceduresInv'
    BY <1>1, <1>3, <2>6, RequestRest
  <2>8. CompletionsInv'
    BY <1>1, <1>3, RunTypes, CompletionsKept DEF peer, promises
  <2>9. /\ (InQueue("join")' <=> InQueue("join")) /\ (InQueue("leave")' <=> InQueue("leave"))
        /\ (InQueue("stop")' <=> InQueue("stop")) /\ (InQueue("request")' => InQueue("request"))
    BY <1>3 DEF Took, ReadHandlers
  <2>10. ProgramInv'
    BY <1>1, <1>3, <1>4, <2>6, <2>9, RunTypes, Joined
    DEF ProgramInv, Took, promises, life, peer
  <2> QED  BY <2>5, <2>7, <2>8, <2>10 DEF PeerInv
<1> QED  BY <1>5, <1>6 DEF run_request, Escapes, RunInv

\* A thread that has drawn an id dispatches it.
LEMMA PeerDispatch ==
    ASSUME RunInv, UNCHANGED <<wire, peer, main>>, NEW t \in Threads, Dispatch(t)
    PROVE  PeerInv'
<1>1. main = "join" /\ m_session_join # "unset" /\ ~InQueue("leave")
  BY RunTypes DEF Dispatch, ProgramInv, Unjoined
<1>2. Moved(0) /\ NoReads /\ Got("request")
  BY <1>1, RunTypes, QueueGot DEF Dispatch
<1>3. /\ FramesInv' /\ AnswersInv' /\ ProceduresInv' /\ CompletionsInv'
  BY <1>1, <1>2, QuietStep DEF Dispatch, callees, SaysReply
<1>4. /\ (InQueue("join")' <=> InQueue("join")) /\ (InQueue("leave")' <=> InQueue("leave"))
      /\ (InQueue("stop")' <=> InQueue("stop"))
  BY <1>2 DEF Got
<1>5. \A u \in Threads : thread'[u] # 0 => thread[u] # 0
  BY RunTypes DEF Dispatch, TypeOK, TypeRequests
<1>6. ProgramInv'
  BY <1>1, <1>2, <1>4, <1>5, RunTypes DEF Dispatch, ProgramInv, Got, promises, life, peer, Said
<1> QED  BY <1>3, <1>6 DEF PeerInv

\* A thread draws an id, and a callback makes a request.
LEMMA PeerDraw ==
    ASSUME RunInv, UNCHANGED <<wire, peer, main>>, NEW op \in Ops, NEW sub,
           \/ UsesSession /\ \E t \in Threads : DrawOnThread(t, op, sub)
           \/ RequestInline(op, sub)
    PROVE  PeerInv'
<1>1. /\ UNCHANGED <<ioq, promises, life, m_procedures, response, invocation, callback, read>>
      /\ Draw(op, sub) /\ m_session_join # "unset"
  BY Joined DEF DrawOnThread, RequestInline, callees, UsesSession
<1>2. PICK new \in Ids : new = m_request_id + 1 /\ ~Spent(new)
  BY <1>1, RunTypes, NextId DEF Draw
<1>3. request'[new].op = op /\ \A i \in Ids \ {new} : request'[i] = request[i]
  BY <1>1, <1>2, RunTypes DEF Draw, TypeOK, TypeRequests
<1>4. Moved(0) /\ NoReads /\ Lambdas
  BY <1>1, RunTypes, QueueStays DEF Settles
<1>5. CompletionsInv'
  BY <1>1, <1>4, RunTypes, CompletionsKept DEF peer, promises
<1>6. CASE UNCHANGED <<pending, out>>
  <2>1. NoRequests /\ Goodbyes
    BY <1>6 DEF NoRequests, Goodbyes, Said
  <2>2. \A i : OnWire(RequestOps, out, i) => request'[i] = request[i]
    BY <1>2, <1>3 DEF Spent, RunInv, RouterInv, WireInv
  <2>3. FramesInv' /\ AnswersInv' /\ ProceduresInv'
    BY <1>1, <1>4, <1>6, <2>1, <2>2, SessionKept DEF promises, life
  <2>4. (\A t \in Threads : thread'[t] # 0 => thread[t] # 0 \/ main = "join")
    BY RunTypes DEF DrawOnThread, RequestInline, UsesSession
  <2>5. /\ (InQueue("join")' <=> InQueue("join")) /\ (InQueue("leave")' <=> InQueue("leave"))
        /\ (InQueue("stop")' <=> InQueue("stop")) /\ (InQueue("request")' <=> InQueue("request"))
    BY <1>1 DEF InQueue, Elems
  <2>6. ProgramInv'
    BY <1>1, <1>4, <1>6, <2>4, <2>5, RunTypes
    DEF ProgramInv, Lambdas, promises, life, peer, Said
  <2> QED  BY <1>5, <2>3, <2>6 DEF PeerInv
<1>7. CASE EmplaceAndSend(new, op, sub) /\ thread' = thread
  <2>1. op \in RequestOps
    BY UseAssumption
  <2>2. AnswersInv'
    BY <1>1, <1>2, <1>3, <1>4, <1>7, RequestSent DEF peer
  <2>3. Goodbyes /\ (Said("GOODBYE")' => Said("GOODBYE")) /\ (out' = <<>> => out = <<>>)
    BY <1>1, <1>7, <2>1, RequestNoGoodbye DEF life
  <2>4. FramesInv' /\ ProceduresInv'
    BY <1>1, <1>4, <2>3, RequestRest
  <2>5. ProgramInv'
    BY <1>1, <1>4, <1>7, <2>3, RunTypes, ProgramKept DEF promises, life, peer
  <2> QED  BY <1>5, <2>2, <2>4, <2>5 DEF PeerInv
<1> QED  BY <1>2, <1>6, <1>7 DEF DrawOnThread, RequestInline
-----------------------------------------------------------------------------
(***************************************************************************)
(* The read loop                                                           *)
(***************************************************************************)

\* The handler of a read that is no message is taken.
LEMMA ReadTaken ==
    ASSUME RunInv, wire' = wire, NEW run \in ReadHandlers, Runs(run), ~IsBody(Head(ioq)),
           Settles(Tail(ioq))
    PROVE  Moved(0) /\ NoReads /\ Lambdas
<1>1. Moved(0) /\ NoReads /\ Took(Head(ioq).run)
  BY RunTypes, QueueTook DEF Runs
<1>2. Lambdas
  BY <1>1 DEF Took, Lambdas, Runs
<1> QED  BY <1>1, <1>2

\* The error of a read.
LEMMA ReadError ==
    ASSUME RunInv, NEW run \in ReadHandlers, Runs(run)
    PROVE  /\ Head(ioq) \in Elems(ioq) /\ Head(ioq).run = run /\ IsCompletion(Head(ioq))
           /\ ioq # <<>> /\ Tail(ioq) \in Seq(Handler) /\ read = "none"
           /\ \A h \in Elems(Tail(ioq)) : ~IsCompletion(h)
           /\ Elems(ioq) = {Head(ioq)} \cup Elems(Tail(ioq))
           /\ Head(ioq).ec \in {"ok", "eof", "aborted", "bad_descriptor"}
           /\ Head(ioq).ec \in {"eof", "bad_descriptor"} => lost
<1>1. ioq # <<>> /\ Tail(ioq) \in Seq(Handler) /\ NoCompletion(Tail(ioq)) /\ read = "none"
  BY RunTypes, CompletionTaken
<1>2. Elems(ioq) = {Head(ioq)} \cup Elems(Tail(ioq)) /\ Head(ioq) \in Handler
  BY <1>1, RunTypes, ElemsTail
<1>3. \A h \in Elems(Tail(ioq)) : ~IsCompletion(h)
  BY <1>1 DEF NoCompletion, Elems
<1>4. IsCompletion(Head(ioq)) /\ Head(ioq).run = run
  BY DEF Runs, IsCompletion
<1>5. Head(ioq).ec \in ErrorCodes
  BY <1>2, HandlerFields
<1> QED  BY <1>1, <1>2, <1>3, <1>4, <1>5, RunTypes DEF CompletionsInv, ErrorCodes

\* The handshake succeeds or fails, and is never invalid.
LEMMA PeerHandshake ==
    ASSUME RunInv, UNCHANGED <<wire, peer, main>>, got_handshake_reply
    PROVE  io' = io /\ PeerInv'
<1>1. /\ Runs("got_handshake_reply") /\ "got_handshake_reply" \in ReadHandlers
      /\ UNCHANGED <<m_session_join, m_session_leave, m_session_stop, life, pending, callees,
                     app, response, callback, out>>
  BY DEF got_handshake_reply, ReadHandlers
<1>2. /\ Head(ioq).ec # "invalid" /\ InQueue("got_handshake_reply")
      /\ \A h \in Elems(Tail(ioq)) : ~IsCompletion(h)
  BY <1>1, ReadError DEF InQueue
<1>3. m_handshake = "unset" /\ main = "start" /\ ~m_stopped
  BY <1>2, RunTypes DEF CompletionsInv, ProgramInv, Unjoined
<1>4. /\ io' = io /\ ioq' = Tail(ioq) /\ read' \in {read, "got_message_header"}
      /\ m_handshake' \in {"true", "false"}
  BY <1>2, <1>3 DEF got_handshake_reply, AsyncRead
<1>5. Settles(Tail(ioq)) /\ ~IsBody(Head(ioq))
  BY <1>1, <1>4 DEF Settles, IsBody, Runs
<1>6. Moved(0) /\ NoReads /\ Lambdas
  BY <1>1, <1>5, ReadTaken
<1>7. NoRequests /\ Goodbyes
  BY <1>1 DEF NoRequests, Goodbyes, Said
<1>8. FramesInv' /\ AnswersInv' /\ ProceduresInv'
  BY <1>1, <1>6, <1>7, SessionKept DEF life, callees, app
<1>9. CompletionsInv'
  <2>1. /\ read' # "got_handshake_reply" /\ ~InQueue("got_handshake_reply")'
        /\ \A h \in Elems(ioq') : ~IsCompletion(h)
    BY <1>1, <1>2, <1>4, ReadError DEF InQueue, IsCompletion, ReadHandlers
  <2> QED  BY <1>3, <2>1 DEF CompletionsInv
<1>10. ProgramInv'
  BY <1>1, <1>6, RunTypes, ProgramKept DEF life, callees, app, peer, Said
<1> QED  BY <1>4, <1>8, <1>9, <1>10 DEF PeerInv

\* A header that was read is followed by its body.
LEMMA PeerHeader ==
    ASSUME RunInv, UNCHANGED <<wire, peer, main>>, got_message_header, Head(ioq).ec = "ok"
    PROVE  io' = io /\ PeerInv'
<1>1. /\ Runs("got_message_header") /\ "got_message_header" \in ReadHandlers
      /\ AsyncRead("got_message_body", Tail(ioq)) \/ handleRxError("ok")
  BY DEF got_message_header, ReadHandlers
<1>2. /\ AsyncRead("got_message_body", Tail(ioq))
      /\ UNCHANGED <<promises, life, pending, callees, app, response, callback, io, out>>
  BY DEF got_message_header
<1>3. m_stopped => lost
  <2>1. HeaderDue(ioq)
    BY <1>1, RunTypes, HeaderTail DEF Runs
  <2>2. ASSUME ~lost PROVE ~Clear
    <3>1. wire # <<>> /\ wire \in Seq(FrameSpace)
      BY <2>1, <2>2 DEF RunInv, RouterInv, WireInv, BodyDue, RTypeOK
    <3>2. 1 \in 1..Len(wire)
      BY <3>1
    <3> QED  BY <3>2 DEF Clear, Arrives
  <2> QED  BY <2>2, RunTypes DEF ProgramInv, FramesInv
<1>4. Settles(Tail(ioq)) /\ ~IsBody(Head(ioq))
  BY <1>1, <1>2, <1>3, RunTypes, Settled DEF IsBody, Runs
<1>5. Moved(0) /\ NoReads /\ Lambdas
  BY <1>1, <1>4, ReadTaken
<1> QED  BY <1>2, <1>5, QuietLambdas DEF callees, app, SaysReply

\* handleRxError.
LEMMA PeerRxError ==
    ASSUME RunInv, UNCHANGED <<wire, peer, main>>, NEW run \in ReadHandlers, Runs(run),
           Head(ioq).ec # "ok", handleRxError(Head(ioq).ec)
    PROVE  /\ io' # "running" => lost /\ io' \notin {"protocol_error", "type_error"}
           /\ io' = "running" => PeerInv'
<1> DEFINE ec == Head(ioq).ec
<1>1. ec \in {"eof", "aborted", "bad_descriptor"} /\ (ec # "aborted" => lost)
  BY ReadError
<1>2. ~IsBody(Head(ioq)) /\ ioq # <<>>
  BY ReadError DEF IsBody
<1>3. Settles(Tail(ioq))
  BY RunTypes, Settled DEF handleRxError, Settles
<1>4. Moved(0) /\ NoReads /\ Lambdas
  BY <1>2, <1>3, ReadTaken
<1>5. CASE ec = "aborted"
  <2>1. UNCHANGED <<promises, life, pending, callees, app, response, callback, io, out>>
    BY <1>5, RunTypes DEF handleRxError, TypeOK, TypeLife, promises, life
  <2> QED
    BY <1>4, <2>1, QuietLambdas DEF callees, app, SaysReply, RunInv
<1>6. CASE ec # "aborted"
  <2>1. lost
    BY <1>1, <1>6
  <2>2. ASSUME io' # "running" PROVE io' \notin {"protocol_error", "type_error"}
    BY <1>6, <2>2, RunTypes, Joined DEF handleRxError, LeaveRefusal, RunInv
  <2>3. ASSUME io' = "running" PROVE PeerInv'
    <3>1. /\ m_session_leave = "unset" /\ m_session_id # 0 /\ ~m_stopped
          /\ m_session_leave' = "socket closed" /\ m_goodbye_sent' = TRUE
          /\ m_session_id' = 0 /\ out' = Sent("GOODBYE", 0, 0) /\ m_stopped' = TRUE
          /\ UNCHANGED <<m_handshake, m_session_join, pending, callees, app, response, callback>>
      BY <1>6, <2>3, Joined DEF handleRxError, LeaveRefusal, RunInv
    <3>2. m_session_join # "unset" /\ router # "closed" /\ out # <<>>
      BY <3>1, Joined
    <3>3. NoRequests /\ Goodbyes /\ (out' = <<>> => out = <<>>)
      BY <3>1, RunTypes, SaysOther DEF RequestOps
    <3>4. Clear'
      <4>1. \A h \in Elems(ioq) : ~IsBody(h)
        BY <1>2, ReadError DEF IsBody, IsCompletion, ReadHandlers
      <4>2. \A n, f : ~Arrives(n, f)
        BY <2>1, <4>1, RunTypes DEF Arrives, FramesInv
      <4> QED  BY <1>4, <4>2 DEF Clear, Moved
    <3>5. FramesInv'
      BY <2>1, <3>1, <3>2, <3>3, <3>4, RunTypes DEF FramesInv, Clear, peer
    <3>6. AnswersInv'
      <4>1. \A i : Open(i)' <=> Open(i)
        BY <3>1 DEF Open, pending, app
      <4>2. \A n, f : Arrives(n, f)' => n \in Nat /\ Arrives(n + 0, f)
        BY <1>4 DEF Moved
      <4> QED  BY <3>1, <3>3, <4>1, <4>2, RunTypes, AnswersKept DEF peer, app
    <3>7. ProceduresInv'
      BY <1>4, <3>1, RunTypes, ProceduresKept DEF peer, callees
    <3>8. CompletionsInv'
      BY <1>4, <3>1, RunTypes, CompletionsKept DEF peer
    <3>9. /\ (InQueue("join")' <=> InQueue("join")) /\ (InQueue("leave")' <=> InQueue("leave"))
          /\ (InQueue("stop")' <=> InQueue("stop")) /\ (InQueue("request")' <=> InQueue("request"))
      BY <1>4 DEF Lambdas, ReadHandlers
    <3>10. ProgramInv'
      BY <1>4, <2>1, <3>1, <3>2, <3>9, RunTypes, Joined DEF ProgramInv, Lambdas, peer, app
    <3> QED  BY <3>5, <3>6, <3>7, <3>8, <3>10 DEF PeerInv
  <2> QED  BY <2>1, <2>2, <2>3
<1> QED  BY <1>5, <1>6
-----------------------------------------------------------------------------
(***************************************************************************)
(* The main program                                                        *)
(***************************************************************************)

\* The main program.
LEMMA PeerStart ==
    ASSUME RunInv, UNCHANGED <<wire, peer>>, main = "none", main' = "start", start
    PROVE  PeerInv'
<1>1. UNCHANGED <<promises, life, pending, callees, app, response, callback, ioq, out>>
      /\ read' = "got_handshake_reply"
  BY DEF start
<1>2. Elems(ioq') = Elems(ioq) /\ \A run : InQueue(run)' <=> InQueue(run)
  BY <1>1 DEF Elems, InQueue
<1>3. Moved(0)
  BY <1>2, RunTypes, MovedStill
<1>4. NoRequests /\ Goodbyes
  BY <1>1 DEF NoRequests, Goodbyes, Said
<1>5. FramesInv' /\ AnswersInv' /\ ProceduresInv'
  BY <1>1, <1>3, <1>4, SessionKept DEF promises, life, app, callees
<1>6. CompletionsInv'
  BY <1>1, <1>2, RunTypes DEF CompletionsInv, promises, peer
<1>7. /\ (InQueue("join")' <=> InQueue("join")) /\ (InQueue("leave")' <=> InQueue("leave"))
      /\ (InQueue("stop")' <=> InQueue("stop")) /\ (InQueue("request")' <=> InQueue("request"))
      /\ (InQueue("reply")' <=> InQueue("reply"))
  BY <1>2
<1>8. Unjoined => Unjoined'
  BY <1>1, <1>7 DEF Unjoined, promises, life, app, callees, InCallback
<1>9. ProgramInv'
  BY <1>1, <1>7, <1>8, RunTypes DEF ProgramInv, promises, life, app, callees, peer, Said
<1> QED  BY <1>5, <1>6, <1>9 DEF PeerInv

\* It calls join(), leave() or stop().
LEMMA PeerAsk ==
    ASSUME RunInv, UNCHANGED <<wire, peer>>, NEW op \in LifecycleOps, Ask(op), main' = op,
           \/ op = "join" /\ main = "start" /\ m_handshake # "unset"
           \/ /\ op = "leave" /\ UsesSession /\ \A t \in Threads : thread[t] = 0
           \/ op = "stop" /\ main = "leave" /\ m_session_leave # "unset"
    PROVE  PeerInv'
<1>1. UNCHANGED <<promises, life, pending, callees, app, response, callback, read, out>>
      /\ ioq' = Append(ioq, Lambda(op, 0))
  BY DEF Ask
<1>2. /\ op = "join" => ~InQueue("join")
      /\ op = "leave" => ~InQueue("leave") /\ ~InQueue("stop")
      /\ op = "stop" => ~InQueue("stop")
  BY RunTypes DEF ProgramInv, UsesSession
<1>3. Moved(0) /\ NoReads /\ Got(op)
  BY <1>1, <1>2, RunTypes, QueueGot DEF LifecycleOps
<1>4. NoRequests /\ Goodbyes
  BY <1>1 DEF NoRequests, Goodbyes, Said
<1>5. FramesInv' /\ AnswersInv' /\ ProceduresInv'
  BY <1>1, <1>3, <1>4, SessionKept DEF promises, life, app, callees
<1>6. CompletionsInv'
  <2>1. /\ \A h \in Elems(ioq') : IsCompletion(h) => h \in Elems(ioq) \/ Fails(h)
        /\ \A h : Fails(h) => h.ec # "invalid" /\ (h.ec \in {"eof", "bad_descriptor"} => lost)
    BY <1>3 DEF NoReads, Fails
  <2>2. InQueue("got_handshake_reply")' => InQueue("got_handshake_reply")
    BY <1>3 DEF Got, LifecycleOps
  <2>3. m_handshake # "unset" /\ main' # "none"
    BY RunTypes DEF CompletionsInv, UsesSession, LifecycleOps
  <2> QED  BY <1>1, <2>1, <2>2, <2>3, RunTypes DEF CompletionsInv, promises, peer
<1>7. /\ InQueue("join")' <=> InQueue("join") \/ op = "join"
      /\ InQueue("leave")' <=> InQueue("leave") \/ op = "leave"
      /\ InQueue("stop")' <=> InQueue("stop") \/ op = "stop"
      /\ (InQueue("request")' <=> InQueue("request")) /\ (InQueue("reply")' <=> InQueue("reply"))
  BY <1>3 DEF Got, LifecycleOps
<1>8. CASE op = "join"
  <2>1. Unjoined /\ m_session_join = "unset" /\ out = <<>>
    BY <1>8, RunTypes DEF ProgramInv
  <2>2. Unjoined'
    BY <1>1, <1>7, <1>8, <2>1 DEF Unjoined, promises, life, app, callees, InCallback
  <2> QED
    BY <1>1, <1>3, <1>5, <1>6, <1>7, <1>8, <2>1, <2>2, RunTypes
    DEF PeerInv, ProgramInv, Got, promises, life, app, callees, peer, Said
<1>9. CASE op = "leave"
  BY <1>1, <1>3, <1>5, <1>6, <1>7, <1>9, RunTypes, Joined
  DEF PeerInv, ProgramInv, UsesSession, Got, promises, life, app, callees, peer, Said
<1>10. CASE op = "stop"
  <2>1. m_session_join # "unset"
    BY <1>10, RunTypes DEF ProgramInv, Unjoined
  <2> QED
    BY <1>1, <1>3, <1>5, <1>6, <1>7, <1>10, <2>1, RunTypes, Joined
    DEF PeerInv, ProgramInv, Got, promises, life, app, callees, peer, Said
<1> QED  BY <1>8, <1>9, <1>10 DEF LifecycleOps

\* The main program goes on.
LEMMA PeerMain ==
    ASSUME RunInv, MainStep
    PROVE  PeerInv' /\ io' = io
<1>1. UNCHANGED <<wire, peer>> /\ io' = io
  BY DEF MainStep, start, Ask
<1>2. CASE main = "none" /\ main' = "start" /\ start
  BY <1>1, <1>2, PeerStart
<1>3. CASE main = "start" /\ m_handshake # "unset" /\ main' = "join" /\ Ask("join")
  BY <1>1, <1>3, PeerAsk DEF LifecycleOps
<1>4. CASE /\ UsesSession /\ (\A t \in Threads : thread[t] = 0)
           /\ main' = "leave" /\ Ask("leave")
  BY <1>1, <1>4, PeerAsk DEF LifecycleOps
<1>5. CASE main = "leave" /\ m_session_leave # "unset" /\ main' = "stop" /\ Ask("stop")
  BY <1>1, <1>5, PeerAsk DEF LifecycleOps
<1> QED  BY <1>1, <1>2, <1>3, <1>4, <1>5 DEF MainStep
-----------------------------------------------------------------------------
(***************************************************************************)
(* The connection                                                          *)
(***************************************************************************)

\* A read completes.
LEMMA ReadArrives ==
    ASSUME RunInv, NEW ec, NEW f, ReadCompletes(ec, f)
    PROVE  LET c == Completion(read, ec, f)
           IN  /\ c.run = read /\ c.ec = ec /\ c.frame = f /\ read \in ReadHandlers
               /\ Elems(ioq') = Elems(ioq) \cup {c} /\ Lambdas
               /\ \A h \in Elems(ioq) : ~IsCompletion(h)
               /\ ec \in {"ok", "eof"} /\ main' = main /\ (ec = "eof" \/ lost => lost')
                     => CompletionsInv'
               /\ UNCHANGED <<m_session_join, m_session_leave, life, pending, callees, app,
                              response, callback, io, out>>
<1> DEFINE c == Completion(read, ec, f)
<1>1. c.run = read /\ c.ec = ec /\ c.frame = f
  BY DEF Completion
<1> HIDE DEF c
<1>2. /\ read \in ReadHandlers /\ ioq' = Append(ioq, c) /\ read' = "none"
      /\ m_handshake' = m_handshake
      /\ UNCHANGED <<m_session_join, m_session_leave, life, pending, callees, app,
                     response, callback, io, out>>
  BY RunTypes DEF ReadCompletes, TypeQueue, promises, c
<1>3. ioq \in Seq(Handler) /\ NoCompletion(ioq)
  BY <1>2, RunTypes DEF ReadCore, ReadHandlers
<1>4. Elems(ioq') = Elems(ioq) \cup {c} /\ c.run \notin {"join", "leave", "stop", "request"}
  BY <1>1, <1>2, <1>3, ElemsAppend DEF ReadHandlers
<1>5. InOrder(ioq')
  BY <1>2, <1>3, <1>4, RunTypes, OrderAppend
<1>6. Lambdas
  BY <1>1, <1>2, <1>4, <1>5 DEF Lambdas, InQueue
<1>7. \A h \in Elems(ioq) : ~IsCompletion(h)
  BY <1>3 DEF NoCompletion, Elems
<1>8. ASSUME ec \in {"ok", "eof"}, main' = main, ec = "eof" \/ lost => lost'
      PROVE  CompletionsInv'
  <2>1. InQueue("got_handshake_reply")' =>
           InQueue("got_handshake_reply") \/ read = "got_handshake_reply"
    BY <1>1, <1>4 DEF InQueue
  <2> QED  BY <1>1, <1>2, <1>4, <1>7, <1>8, <2>1, RunTypes DEF CompletionsInv
<1> QED  BY <1>1, <1>2, <1>4, <1>6, <1>7, <1>8 DEF c

\* Nothing but the frames changes when a read completes.
LEMMA PeerRead ==
    ASSUME RunInv, NEW ec \in {"ok", "eof"}, NEW f, ReadCompletes(ec, f),
           UNCHANGED <<peer, main>>, NEW s \in {0, 1}, Moved(s), lost => wire' = <<>>,
           ec = "eof" => lost
    PROVE  PeerInv' /\ io' = io
<1>1. /\ Lambdas /\ CompletionsInv'
      /\ UNCHANGED <<m_session_join, m_session_leave, life, pending, callees, app,
                     response, callback, io, out>>
  BY ReadArrives DEF peer
<1>2. NoRequests /\ Goodbyes
  BY <1>1 DEF NoRequests, Goodbyes, Said
<1>3. FramesInv'
  BY <1>1, <1>2, RunTypes, FramesKept DEF peer, life
<1>4. AnswersInv'
  <2>1. \A i : Open(i)' <=> Open(i)
    BY <1>1 DEF Open, pending, app
  <2>2. \A n, g : Arrives(n, g)' => n \in Nat /\ Arrives(n + s, g)
    BY DEF Moved
  <2> QED  BY <1>1, <1>2, <2>1, <2>2, RunTypes, AnswersKept DEF peer, app
<1>5. ProceduresInv'
  BY <1>1, RunTypes, ProceduresKept DEF peer, callees
<1>6. ProgramInv'
  BY <1>1, RunTypes, ProgramKept DEF life, callees, app, peer, Said
<1> QED  BY <1>1, <1>3, <1>4, <1>5, <1>6 DEF PeerInv

\* The connection delivers.
LEMMA PeerDelivers == ASSUME RunInv, Delivers PROVE PeerInv' /\ io' = io
<1>1. ~lost /\ UNCHANGED <<peer, main>>
  BY DEF Delivers
<1>2. CASE read # "got_message_body" /\ ReadCompletes("ok", NoFrame) /\ wire' = wire
  <2>1. Moved(0)
    <3>1. \A h : IsBody(h) => (h \in Elems(ioq') <=> h \in Elems(ioq))
      BY <1>2, ReadArrives DEF IsBody
    <3> QED  BY <1>2, <3>1, RunTypes, MovedStill
  <2> QED  BY <1>1, <1>2, <2>1, PeerRead
<1>3. CASE /\ read = "got_message_body" /\ ReadCompletes("ok", Head(wire))
           /\ wire' = Tail(wire)
  <2>1. wire # <<>> /\ wire \in Seq(FrameSpace)
    BY <1>1, <1>3, RunTypes DEF RunInv, RouterInv, WireInv, BodyDue
  <2>2. /\ Len(wire) \in Nat \ {0} /\ Len(wire') = Len(wire) - 1
        /\ \A n \in 1..Len(wire) - 1 : wire'[n] = wire[n + 1]
        /\ Head(wire) = wire[1]
    BY <1>3, <2>1
  <2>3. /\ \A h \in Elems(ioq) : ~IsBody(h)
        /\ \A h \in Elems(ioq') : IsBody(h) => h.frame = Head(wire)
        /\ \E h \in Elems(ioq') : IsBody(h) /\ h.frame = Head(wire)
    BY <1>3, ReadArrives DEF IsBody, IsCompletion, ReadHandlers
  <2>4. \A n, f : Arrives(n, f) <=> n \in 1..Len(wire) /\ wire[n] = f
    BY <2>3 DEF Arrives
  <2>5. \A n, f : Arrives(n, f)' <=>
            \/ n = 0 /\ f = wire[1]
            \/ n \in 1..Len(wire) - 1 /\ wire[n + 1] = f
    BY <2>2, <2>3 DEF Arrives
  <2>6. ASSUME NEW n, NEW f, Arrives(n, f)' PROVE n \in Nat /\ Arrives(n + 1, f)
    BY <2>2, <2>4, <2>5, <2>6
  <2>7. ASSUME NEW n, NEW f, Arrives(n, f)
        PROVE  n \in Nat /\ n - 1 \in Nat /\ Arrives(n - 1, f)'
    <3>1. n \in 1..Len(wire) /\ wire[n] = f
      BY <2>4, <2>7
    <3>2. n - 1 = 0 \/ n - 1 \in 1..Len(wire) - 1
      BY <2>2, <3>1
    <3>3. (n - 1) + 1 = n
      BY <3>1
    <3> QED  BY <2>2, <2>5, <3>1, <3>2, <3>3
  <2>8. Moved(1)
    BY <2>6, <2>7 DEF Moved
  <2> QED  BY <1>1, <1>3, <2>8, PeerRead
<1> QED  BY <1>2, <1>3 DEF Delivers

\* A read armed on the lost connection fails.
LEMMA PeerEofRead == ASSUME RunInv, EofRead PROVE PeerInv' /\ io' = io
<1>1. lost /\ ReadCompletes("eof", NoFrame) /\ UNCHANGED <<wire, peer, main>>
  BY DEF EofRead
<1>2. Moved(0)
  <2>1. \A h : IsBody(h) => (h \in Elems(ioq') <=> h \in Elems(ioq))
    BY <1>1, ReadArrives DEF IsBody
  <2> QED  BY <1>1, <2>1, RunTypes, MovedStill
<1>3. wire' = <<>>
  BY <1>1, RunTypes DEF FramesInv
<1> QED  BY <1>1, <1>2, <1>3, PeerRead

\* The connection is lost.
LEMMA PeerLinkLost == ASSUME RunInv, LinkLost PROVE PeerInv' /\ io' = io
<1>1. /\ lost' = TRUE /\ wire' = <<>>
      /\ UNCHANGED <<seen, owed, router, topics, regs, pushes, main>>
  BY DEF LinkLost
<1>2. /\ UNCHANGED <<m_session_join, m_session_leave, life, pending, callees, app,
                     response, callback, io, out>>
      /\ Lambdas /\ CompletionsInv'
      /\ \A h : IsBody(h) => (h \in Elems(ioq') <=> h \in Elems(ioq))
  <2>1. CASE ReadCompletes("eof", NoFrame)
    BY <1>1, <2>1, ReadArrives DEF IsBody
  <2>2. CASE read = "none" /\ UNCHANGED vars
    BY <1>1, <2>2, RunTypes
    DEF vars, promises, Lambdas, InQueue, Elems, CompletionsInv, ProgramInv
  <2> QED  BY <2>1, <2>2 DEF LinkLost
<1>3. \A n, f : Arrives(n, f)' <=> n = 0 /\ Arrives(n, f)
  <2>1. 0 \notin 1..Len(wire) /\ Len(wire') = 0
    BY <1>1
  <2> QED  BY <1>2, <2>1 DEF Arrives
<1>4. \A n, f : Arrives(n, f) => n \in Nat
  BY RunTypes, WireDomain
<1>5. NoRequests /\ (Said("GOODBYE")' => Said("GOODBYE"))
  BY <1>2 DEF NoRequests, Said
<1>6. FramesInv'
  <2>1. \A n, f : Arrives(n, f)' => f.shape = "ok" /\ f.type # "UNEXPECTED"
    BY <1>3, RunTypes DEF FramesInv
  <2>2. \A n, f : Arrives(n, f)' => (f.type = "WELCOME" <=> m_session_join = "unset")
    <3>1. \A f : Arrives(0, f) =>
             (f.type = "WELCOME" <=> /\ m_session_join = "unset"
                                     /\ \A m, g : Arrives(m, g) => 0 <= m)
      BY RunTypes DEF FramesInv
    <3> QED  BY <1>3, <1>4, <3>1
  <2>3. \A n, f : Arrives(n, f)' /\ f.type = "GOODBYE" =>
          m_session_leave = "unset" /\ router \in {"left", "quit"}
    BY <1>3, RunTypes DEF FramesInv
  <2>4. router = "closed" => m_session_join = "unset" /\ Clear'
    BY <1>3, RunTypes DEF FramesInv, Clear
  <2>5. router # "closed" => out # <<>>
    BY RunTypes DEF FramesInv
  <2>6. \A n, f, m, g : Arrives(n, f)' /\ Arrives(m, g)' => n <= m /\ m <= n
    BY <1>3
  <2> QED  BY <1>1, <1>2, <2>1, <2>2, <2>3, <2>4, <2>5, <2>6 DEF FramesInv
<1>7. AnswersInv'
  <2>1. \A i : Open(i)' <=> Open(i)
    BY <1>2 DEF Open, pending, app
  <2>2. \A n, f : Arrives(n, f)' => n \in Nat /\ Arrives(n + 0, f)
    BY <1>3
  <2> QED  BY <1>1, <1>2, <1>5, <2>1, <2>2, RunTypes, AnswersKept DEF app
<1>8. ProceduresInv'
  <2>1. ASSUME NEW f, Arrives(0, f), f.type = "INVOCATION" PROVE m_procedures[f.arg] # 0
    BY <1>4, <2>1, RunTypes DEF ProceduresInv
  <2> QED  BY <1>1, <1>2, <1>3, <2>1 DEF ProceduresInv, callees
<1>9. ProgramInv'
  BY <1>1, <1>2, <1>5, RunTypes, ProgramKept DEF life, callees, app
<1> QED  BY <1>2, <1>6, <1>7, <1>8, <1>9 DEF PeerInv
-----------------------------------------------------------------------------
(***************************************************************************)
(* Messages                                                                *)
(***************************************************************************)

\* A frame of the router's as it is handled.
LEMMA FrameHandled ==
    ASSUME RunInv, NEW f, Handled(f)
    PROVE  /\ f.shape = "ok" /\ f.type # "UNEXPECTED" /\ f \in FrameSpace
           /\ f.type = "WELCOME" <=> m_session_join = "unset"
           /\ router # "closed"
           /\ f.type = "GOODBYE" =>
                 /\ m_session_leave = "unset" /\ router \in {"left", "quit"} /\ Clear'
           /\ IsAnswer(f) => Open(f.id) /\ Fits(f)
           /\ f.type = "INVOCATION" => m_procedures[f.arg] # 0
           /\ \A n, g : Arrives(n, g)' => n \in Nat /\ n > 0 /\ Arrives(n, g)
           /\ \A n, g : Arrives(n, g) => n \in Nat
<1>1. \A n, g : Arrives(n, g) => n \in Nat /\ g \in FrameSpace
  BY RunTypes, WireDomain
<1>2. \A n, g : Arrives(n, g)' => n \in Nat /\ n > 0 /\ Arrives(n, g)
  BY <1>1 DEF Handled
<1>3. Arrives(0, f)
  BY DEF Handled
<1>4. f.shape = "ok" /\ f.type # "UNEXPECTED" /\ f \in FrameSpace
  BY <1>1, <1>3, RunTypes DEF FramesInv
<1>5. f.type = "WELCOME" <=> m_session_join = "unset"
  <2>1. f.type = "WELCOME" <=> /\ m_session_join = "unset"
                               /\ \A m, g : Arrives(m, g) => 0 <= m
    BY <1>3, RunTypes DEF FramesInv
  <2> QED  BY <1>1, <2>1
<1>6. router # "closed"
  BY <1>3, RunTypes DEF FramesInv, Clear
<1>7. ASSUME f.type = "GOODBYE"
      PROVE  m_session_leave = "unset" /\ router \in {"left", "quit"} /\ Clear'
  <2>1. /\ m_session_leave = "unset" /\ router \in {"left", "quit"}
        /\ \A m, g : Arrives(m, g) => m <= 0
    BY <1>3, <1>7, RunTypes DEF FramesInv
  <2>2. \A n, g : ~Arrives(n, g)'
    BY <1>2, <2>1
  <2> QED  BY <2>1, <2>2 DEF Clear
<1>8. IsAnswer(f) => Open(f.id) /\ Fits(f)
  BY <1>3, RunTypes DEF AnswersInv
<1>9. ASSUME f.type = "INVOCATION" PROVE m_procedures[f.arg] # 0
  BY <1>1, <1>3, <1>9, RunTypes DEF ProceduresInv
<1> QED  BY <1>1, <1>2, <1>4, <1>5, <1>6, <1>7, <1>8, <1>9

\* The frames, when one is handled that neither opens nor closes the session.
LEMMA FramesHandled ==
    ASSUME RunInv, NEW f, Handled(f), f.type \notin {"WELCOME", "GOODBYE"},
           UNCHANGED <<wire, peer, m_session_join, m_session_leave, m_goodbye_sent, out>>
    PROVE  FramesInv'
<1>1. /\ m_session_join # "unset" /\ router # "closed"
      /\ \A n, g : Arrives(n, g)' => n \in Nat /\ n > 0 /\ Arrives(n, g)
  BY FrameHandled
<1>2. Clear => Clear'
  BY <1>1 DEF Clear
<1>3. \A n, g : Arrives(n, g)' => g.shape = "ok" /\ g.type \notin {"UNEXPECTED", "WELCOME"}
  BY <1>1, RunTypes DEF FramesInv
<1>4. \A n, g : Arrives(n, g)' /\ g.type = "GOODBYE" =>
          /\ m_session_leave = "unset" /\ router \in {"left", "quit"}
          /\ \A m, h : Arrives(m, h)' => m <= n
  BY <1>1, RunTypes DEF FramesInv
<1> QED  BY <1>1, <1>2, <1>3, <1>4, RunTypes DEF FramesInv, peer, Said

\* The answer that is handled was the only one to its request.
LEMMA AnswerHandled ==
    ASSUME RunInv, NEW f, Handled(f), NoRequests, UNCHANGED <<seen, owed, request>>,
           \A i \in Ids : ~IsAnswer(f) \/ i # f.id => (Open(i) => Open(i)')
    PROVE  AnswersInv'
<1> USE RunTypes
<1>1. /\ \A n, g : Arrives(n, g)' => Arrives(n, g) /\ n # 0
      /\ Arrives(0, f)
  BY DEF Handled
<1>2. \A i : Answered(i)' => Answered(i)
  BY <1>1 DEF Answered, IsAnswer
<1>3. \A i : OnWire(RequestOps, out, i)' <=> OnWire(RequestOps, out, i)
  BY DEF OnWire, NoRequests
<1>4. \A i : ~Answered(i) /\ OnWire(RequestOps, out, i) => (Open(i) => Open(i)')
  BY <1>1 DEF Answered, RunInv, RouterInv, WireInv
<1>5. ASSUME NEW n \in DOMAIN out', out'[n].type \in RequestOps, n > seen',
             NEW i, i = out'[n].id
      PROVE  Open(i)' /\ i \notin owed' /\ ~Answered(i)'
  <2>1. /\ n \in DOMAIN out /\ out[n].type \in RequestOps /\ n > seen /\ i = out[n].id
        /\ OnWire(RequestOps, out, i)
    BY <1>5 DEF NoRequests, OnWire
  <2>2. Open(i) /\ i \notin owed /\ ~Answered(i)
    BY <2>1 DEF AnswersInv
  <2> QED  BY <1>2, <1>4, <2>1, <2>2
<1>6. \A i \in owed' : Open(i)' /\ OnWire(RequestOps, out, i)' /\ ~Answered(i)'
  BY <1>2, <1>3, <1>4 DEF AnswersInv
<1> USE DEF RunInv, RouterInv, WireInv
<1>7. ASSUME NEW n, NEW g, Arrives(n, g)', IsAnswer(g)
      PROVE  /\ Open(g.id)' /\ Fits(g)' /\ OnWire(RequestOps, out, g.id)'
             /\ \A m, h : Arrives(m, h)' /\ IsAnswer(h) /\ h.id = g.id => m = n
  <2>1. /\ Open(g.id) /\ Fits(g) /\ OnWire(RequestOps, out, g.id) /\ n # 0
        /\ \A m, h : Arrives(m, h) /\ IsAnswer(h) /\ h.id = g.id => m = n
    BY <1>1, <1>7 DEF AnswersInv
  <2>2. Open(g.id)'
    <3>1. ~IsAnswer(f) \/ g.id # f.id
      BY <1>1, <2>1
    <3> QED  BY <2>1, <3>1
  <2>3. Fits(g)'
    BY <2>1 DEF Fits
  <2> QED  BY <1>1, <1>3, <2>1, <2>2, <2>3
<1> QED  BY <1>5, <1>6, <1>7 DEF AnswersInv, IsAnswer

\* The REGISTERED that is handled installs its procedure.
LEMMA ProcedureHandled ==
    ASSUME RunInv, NEW f, Handled(f), UNCHANGED <<regs, lost>>,
           \A r \in RegIds : Confirms(f, r) \/ m_procedures[r] # 0 => m_procedures'[r] # 0
    PROVE  ProceduresInv'
<1>1. /\ \A n, g : Arrives(n, g)' <=> Arrives(n, g) /\ n # 0
      /\ \A g : Arrives(0, g) => g = f
      /\ \A n, g : Arrives(n, g) /\ g.type = "INVOCATION" => g.arg \in RegIds
      /\ regs \subseteq RegIds
  BY RunTypes, WireDomain, FrameFields DEF Handled, RunInv, RouterInv, WireInv, RTypeOK
<1>2. ASSUME NEW n, NEW g, Arrives(n, g)', g.type = "INVOCATION", m_procedures'[g.arg] = 0
      PROVE  \E m, h : Arrives(m, h)' /\ Confirms(h, g.arg) /\ m < n
  <2>1. PICK m, h : Arrives(m, h) /\ Confirms(h, g.arg) /\ m < n
    BY <1>1, <1>2, RunTypes DEF ProceduresInv
  <2>2. m # 0
    BY <1>1, <1>2, <2>1
  <2> QED  BY <1>1, <2>1, <2>2
<1>3. ASSUME ~lost', NEW r \in regs', m_procedures'[r] = 0
      PROVE  \E m, g : Arrives(m, g)' /\ Confirms(g, r)
  <2>1. PICK m, g : Arrives(m, g) /\ Confirms(g, r)
    BY <1>1, <1>3, RunTypes DEF ProceduresInv
  <2>2. m # 0
    BY <1>1, <1>3, <2>1
  <2> QED  BY <1>1, <2>1, <2>2
<1> QED  BY <1>2, <1>3 DEF ProceduresInv, Confirms

\* A message that reaches a promise, a table or user code.
MessageTaken ==
    /\ RunInv /\ Handled(Message) /\ NoReads /\ Lambdas
    /\ UNCHANGED <<wire, peer, main, app, m_handshake>>

\* WELCOME comes once, and before anything else.
LEMMA PeerWelcome ==
    ASSUME MessageTaken, process_welcome
    PROVE  io' = io /\ PeerInv'
<1> USE DEF MessageTaken
<1>1. /\ Message.shape = "ok" /\ m_session_join = "unset" /\ router # "closed"
      /\ Message.arg \in SessionIds /\ ~IsAnswer(Message)
      /\ \A n, g : Arrives(n, g)' => n \in Nat /\ n > 0 /\ Arrives(n, g)
      /\ \A n, g : Arrives(n, g) => n \in Nat
      /\ Arrives(0, Message)
  BY FrameHandled, FrameFields DEF process_welcome, IsAnswer, Handled
<1>2. /\ io' = io /\ m_session_id' = Message.arg /\ m_session_join' = "value"
      /\ UNCHANGED <<m_session_leave, m_goodbye_sent, m_stopped, pending, callees, response,
                     callback, out>>
  BY <1>1 DEF process_welcome, Done
<1>3. m_session_id' # 0
  BY <1>1, <1>2, RouterAssumption
<1>4. NoRequests /\ (Said("GOODBYE")' => Said("GOODBYE"))
  BY <1>2 DEF NoRequests, Said
<1>5. FramesInv'
  <2>1. \A n, g : Arrives(n, g)' => g.shape = "ok" /\ g.type \notin {"UNEXPECTED", "WELCOME"}
    <3>1. ASSUME NEW n, NEW g, Arrives(n, g)', g.type = "WELCOME" PROVE FALSE
      <4>1. n \in Nat /\ n > 0 /\ Arrives(n, g)
        BY <1>1, <3>1
      <4>2. \A m, h : Arrives(m, h) => n <= m
        BY <3>1, <4>1, RunTypes DEF FramesInv
      <4>3. n <= 0
        BY <1>1, <4>2
      <4> QED  BY <4>1, <4>3
    <3>2. \A n, g : Arrives(n, g)' => g.shape = "ok" /\ g.type # "UNEXPECTED"
      BY <1>1, RunTypes DEF FramesInv
    <3> QED  BY <3>1, <3>2
  <2>2. \A n, g : Arrives(n, g)' /\ g.type = "GOODBYE" =>
          /\ m_session_leave = "unset" /\ router \in {"left", "quit"}
          /\ \A m, h : Arrives(m, h)' => m <= n
    BY <1>1, RunTypes DEF FramesInv
  <2>3. Unjoined
    BY <1>1, RunTypes DEF ProgramInv
  <2>4. Said("GOODBYE") => FALSE
    BY <2>3 DEF Unjoined, Said
  <2>5. Clear => Clear'
    BY <1>1 DEF Clear
  <2> QED
    BY <1>1, <1>2, <1>4, <2>1, <2>2, <2>3, <2>4, <2>5, RunTypes DEF FramesInv, peer, Unjoined
<1>6. AnswersInv'
  <2>1. \A i : Open(i)' <=> Open(i)
    BY <1>2 DEF Open, pending, app
  <2> QED  BY <1>2, <1>4, <2>1, AnswerHandled DEF app, peer
<1>7. ProceduresInv'
  <2>1. \A r : ~Confirms(Message, r)
    BY DEF process_welcome, Confirms
  <2> QED  BY <1>2, <2>1, ProcedureHandled DEF callees, peer
<1>8. CompletionsInv'
  BY RunTypes, CompletionsKept DEF peer
<1>9. ProgramInv'
  <2>1. Unjoined /\ out # <<>>
    BY <1>1, RunTypes DEF ProgramInv, FramesInv
  <2>2. ~Said("GOODBYE")
    BY <2>1 DEF Unjoined, Said
  <2>3. /\ (InQueue("join")' <=> InQueue("join")) /\ (InQueue("leave")' <=> InQueue("leave"))
        /\ (InQueue("stop")' <=> InQueue("stop")) /\ (InQueue("request")' <=> InQueue("request"))
    BY DEF Lambdas, ReadHandlers
  <2> QED
    BY <1>1, <1>2, <1>3, <1>4, <2>1, <2>2, <2>3, RunTypes
    DEF ProgramInv, Unjoined, Lambdas, peer, app
<1> QED  BY <1>2, <1>5, <1>6, <1>7, <1>8, <1>9 DEF PeerInv

\* GOODBYE comes once, before leave() has resolved.
LEMMA PeerGoodbye ==
    ASSUME MessageTaken, process_goodbye
    PROVE  io' = io /\ PeerInv'
<1> USE DEF MessageTaken
<1>1. /\ Message.shape = "ok" /\ m_session_join # "unset" /\ router \in {"left", "quit"}
      /\ m_session_leave = "unset" /\ Clear'
  BY FrameHandled DEF process_goodbye
<1>2. /\ io' = io /\ m_session_id' = 0 /\ m_session_leave' = "peer"
      /\ UNCHANGED <<m_session_join, m_goodbye_sent, m_stopped, pending, callees, response,
                     callback>>
      /\ out' = IF m_goodbye_sent THEN out ELSE Sent("GOODBYE", 0, 0)
  BY <1>1 DEF process_goodbye, Done
<1>3. NoRequests /\ (out' = <<>> => out = <<>>)
  <2>1. CASE m_goodbye_sent
    BY <1>2, <2>1 DEF NoRequests
  <2>2. CASE ~m_goodbye_sent
    <3>1. /\ \A n \in DOMAIN out : n \in DOMAIN out' /\ out'[n] = out[n]
          /\ \A n \in DOMAIN out' : \/ n \in DOMAIN out /\ out'[n] = out[n]
                                    \/ out'[n].type = "GOODBYE"
          /\ out' = <<>> => out = <<>>
      BY <1>2, <2>2, RunTypes, OutAppend
    <3> QED  BY <3>1 DEF NoRequests, RequestOps
  <2> QED  BY <2>1, <2>2
<1>4. FramesInv'
  BY <1>1, <1>2, <1>3, RunTypes DEF FramesInv, Clear, peer
<1>5. AnswersInv'
  <2>1. \A i : Open(i)' <=> Open(i)
    BY <1>2 DEF Open, pending, app
  <2> QED  BY <1>2, <1>3, <2>1, AnswerHandled DEF app, peer
<1>6. ProceduresInv'
  <2>1. \A r : ~Confirms(Message, r)
    BY DEF process_goodbye, Confirms
  <2> QED  BY <1>2, <2>1, ProcedureHandled DEF callees, peer
<1>7. CompletionsInv'
  BY RunTypes, CompletionsKept DEF peer
<1>8. ProgramInv'
  <2>1. ~lost /\ router # "quit" => m_goodbye_sent
    BY <1>1, RunTypes DEF FramesInv
  <2>2. /\ (InQueue("join")' <=> InQueue("join")) /\ (InQueue("leave")' <=> InQueue("leave"))
        /\ (InQueue("stop")' <=> InQueue("stop")) /\ (InQueue("request")' <=> InQueue("request"))
    BY DEF Lambdas, ReadHandlers
  <2>3. main \notin {"none", "start"} /\ ~InQueue("join")
    BY <1>1, Joined
  <2> QED
    BY <1>1, <1>2, <2>1, <2>2, <2>3, RunTypes DEF ProgramInv, Lambdas, peer, app
<1> QED  BY <1>2, <1>4, <1>5, <1>6, <1>7, <1>8 DEF PeerInv

\* The other messages leave the membership and what is written alone.
LEMMA MessageKept ==
    ASSUME MessageTaken, Message.type \notin {"WELCOME", "GOODBYE"},
           UNCHANGED <<promises, life, out>>
    PROVE  FramesInv' /\ ProgramInv' /\ CompletionsInv'
<1> USE DEF MessageTaken
<1>1. m_session_join # "unset"
  BY FrameHandled
<1>2. FramesInv'
  BY FramesHandled DEF promises, life
<1>3. ProgramInv'
  BY <1>1, RunTypes, ProgramKept DEF promises, life, app, peer, Said
<1>4. CompletionsInv'
  BY RunTypes, CompletionsKept DEF peer
<1> QED  BY <1>2, <1>3, <1>4

\* ERROR, RESULT, SUBSCRIBED, UNSUBSCRIBED and REGISTERED.
LEMMA PeerAnswer ==
    ASSUME MessageTaken,
           \/ process_error \/ process_call_result \/ process_subscribed
           \/ process_unsubscribed \/ process_registered
    PROVE  io' = io /\ PeerInv'
<1> USE DEF MessageTaken
<1> DEFINE id == Message.id
<1>1. /\ Message.shape = "ok" /\ IsAnswer(Message) /\ Open(id) /\ Fits(Message)
      /\ Message \in FrameSpace
  BY FrameHandled
  DEF process_error, process_call_result, process_subscribed, process_unsubscribed,
      process_registered, IsAnswer
<1>2. TypeOK /\ id \in Ids
  BY <1>1, RunTypes, FrameFields DEF FrameSpace, IsAnswer
<1>3. /\ Message.type \in {"CALL_ERROR", "RESULT"} => id \in m_calls
      /\ Message.type = "SUBSCRIBED" => id \in m_subscribe_requests
      /\ Message.type = "UNSUBSCRIBED" => id \in m_unsubscribe_requests
      /\ Message.type = "REGISTERED" => id \in m_register_requests
      /\ response[id] = "unset"
  BY <1>1 DEF Open, Fits
<1>4. Message.type \notin {"WELCOME", "GOODBYE"}
  BY <1>1 DEF IsAnswer
<1>5. /\ io' = io /\ UNCHANGED <<promises, life, out>>
      /\ \E v : response' = [response EXCEPT ![id] = v] \/ response' = response
      /\ m_calls' = m_calls /\ m_register_requests' = m_register_requests
      /\ m_subscribe_requests' \in {m_subscribe_requests, m_subscribe_requests \ {id}}
      /\ m_unsubscribe_requests' \in {m_unsubscribe_requests, m_unsubscribe_requests \ {id}}
      /\ \/ m_procedures' = m_procedures /\ Message.type # "REGISTERED"
         \/ /\ m_procedures' = [m_procedures EXCEPT ![Message.arg] = id]
            /\ Message.type = "REGISTERED"
  <2>1. CASE process_error
    BY <1>1, <1>3, <2>1 DEF process_error, Done, pending, callees
  <2>2. CASE process_call_result
    BY <1>1, <1>3, <2>2 DEF process_call_result, Done, pending, callees
  <2>3. CASE process_subscribed
    BY <1>1, <1>3, <2>3 DEF process_subscribed, Done
  <2>4. CASE process_unsubscribed
    BY <1>1, <1>3, <2>4 DEF process_unsubscribed, Done, callees
  <2>5. CASE process_registered
    BY <1>1, <1>3, <2>5 DEF process_registered, Done, pending
  <2> QED  BY <2>1, <2>2, <2>3, <2>4, <2>5
<1>6. FramesInv' /\ ProgramInv' /\ CompletionsInv'
  BY <1>4, <1>5, MessageKept
<1>7. AnswersInv'
  <2>1. NoRequests
    BY <1>5 DEF NoRequests
  <2>2. \A i \in Ids : i # id => response'[i] = response[i]
    BY <1>2, <1>5 DEF TypeOK, TypeRequests
  <2>3. \A i \in Ids : ~IsAnswer(Message) \/ i # Message.id => (Open(i) => Open(i)')
    BY <1>1, <1>5, <2>2 DEF Open, app
  <2>4. UNCHANGED <<seen, owed, request>>
    BY DEF app, peer
  <2> QED  BY <2>1, <2>3, <2>4, AnswerHandled
<1>8. ProceduresInv'
  <2>1. \A r \in RegIds :
           Confirms(Message, r) \/ m_procedures[r] # 0 => m_procedures'[r] # 0
    <3>1. CASE Message.type # "REGISTERED"
      BY <1>5, <3>1 DEF Confirms
    <3>2. CASE Message.type = "REGISTERED"
      <4>1. Message.arg \in RegIds /\ id # 0
        BY <1>1, <1>2, <3>2, FrameFields, IdsNat
      <4>2. /\ m_procedures'[Message.arg] = id
            /\ \A r \in RegIds : r # Message.arg => m_procedures'[r] = m_procedures[r]
        BY <1>2, <1>5, <3>2, <4>1 DEF TypeOK, TypeCallees
      <4> QED  BY <4>1, <4>2 DEF Confirms
    <3> QED  BY <3>1, <3>2
  <2> QED  BY <2>1, ProcedureHandled DEF peer
<1> QED  BY <1>5, <1>6, <1>7, <1>8 DEF PeerInv

\* EVENT, INVOCATION and what is ignored.
LEMMA PeerPush ==
    ASSUME MessageTaken, process_event \/ process_invocation \/ process_other
    PROVE  io' = io /\ PeerInv'
<1> USE DEF MessageTaken
<1>1. /\ Message.shape = "ok" /\ Message.type # "UNEXPECTED"
      /\ Message.type = "INVOCATION" => m_procedures[Message.arg] # 0
  BY FrameHandled
<1>2. /\ Message.type \notin {"WELCOME", "GOODBYE"} /\ ~IsAnswer(Message)
      /\ \A r : ~Confirms(Message, r)
  BY DEF process_event, process_invocation, process_other, IsAnswer, Confirms
<1>3. /\ io' = io /\ UNCHANGED <<promises, life, out, pending, response, m_procedures>>
  BY <1>1 DEF process_event, process_invocation, process_other, Done, callees
<1>4. FramesInv' /\ ProgramInv' /\ CompletionsInv'
  BY <1>2, <1>3, MessageKept
<1>5. AnswersInv'
  <2>1. NoRequests /\ \A i : Open(i)' <=> Open(i)
    BY <1>3 DEF NoRequests, Open, pending, app
  <2> QED  BY <2>1, AnswerHandled DEF app, peer
<1>6. ProceduresInv'
  BY <1>2, <1>3, ProcedureHandled DEF peer
<1> QED  BY <1>3, <1>4, <1>5, <1>6 DEF PeerInv

\* No message of the router's is taken for a protocol error.
LEMMA PeerMessage ==
    ASSUME RunInv, UNCHANGED <<wire, peer, main>>, Runs("got_message_body"),
           Head(ioq).ec = "ok", got_message
    PROVE  io' = io /\ PeerInv'
<1>1. Tail(ioq) \in Seq(Handler) /\ \A h \in Elems(Tail(ioq)) : ~IsCompletion(h)
  BY ReadError DEF ReadHandlers
<1>2. Settles(Tail(ioq))
  <2>1. ReceiveNext(Tail(ioq)) \/ (ioq' = Tail(ioq) /\ read' = read)
    BY DEF got_message, process_welcome, process_goodbye, process_error,
           process_call_result, process_subscribed, process_unsubscribed,
           process_event, process_registered, process_invocation, process_other, Throws, Done
  <2> QED  BY <2>1, RunTypes, Settled DEF Settles
<1>3. Handled(Message) /\ NoReads /\ Lambdas
  BY <1>2, RunTypes, QueueHandled
<1>4. UNCHANGED <<app, m_handshake>>
  BY DEF got_message, process_welcome, process_goodbye, process_error,
         process_call_result, process_subscribed, process_unsubscribed,
         process_event, process_registered, process_invocation, process_other, promises
<1>5. MessageTaken
  BY <1>3, <1>4 DEF MessageTaken
<1> QED  BY <1>5, PeerWelcome, PeerGoodbye, PeerAnswer, PeerPush DEF got_message
-----------------------------------------------------------------------------
(***************************************************************************)
(* The router                                                              *)
(***************************************************************************)

\* The router's steps leave the session and the program alone.
Watches == RunInv /\ UNCHANGED <<vars, main, lost>>

\* Frame f is the last on its way.
Gains(f) == \A n, g : Arrives(n, g)' <=> Arrives(n, g) \/ (n = Len(wire) + 1 /\ g = f)

\* The router sends a frame.
LEMMA FrameSent ==
    ASSUME Watches, NEW f, Sends(f)
    PROVE  /\ Gains(f) /\ Len(wire) + 1 \in Nat
           /\ \A n, g : Arrives(n, g) => n \in Nat /\ n < Len(wire) + 1
<1>1. /\ Len(wire) \in Nat
      /\ \A n, g : Arrives(n, g) => n \in Nat /\ n <= Len(wire)
  BY RunTypes, WireDomain DEF Watches
<1>2. /\ Len(wire') = Len(wire) + 1 /\ wire'[Len(wire) + 1] = f
      /\ \A n \in 1..Len(wire) : wire'[n] = wire[n]
  BY RunTypes, <1>1 DEF Sends, Watches
<1>3. ioq' = ioq
  BY DEF Watches, vars
<1>4. \A n, g : Arrives(n, g)' <=> \/ n = 0 /\ \E h \in Elems(ioq) : IsBody(h) /\ h.frame = g
                                   \/ n \in 1..Len(wire) + 1 /\ wire'[n] = g
  BY <1>2, <1>3 DEF Arrives
<1>5. \A n : n \in 1..Len(wire) + 1 <=> n \in 1..Len(wire) \/ n = Len(wire) + 1
  BY <1>1
<1>6. Gains(f)
  BY <1>2, <1>4, <1>5 DEF Gains, Arrives
<1>7. Len(wire) + 1 \in Nat /\ \A n : n \in Nat /\ n <= Len(wire) => n < Len(wire) + 1
  BY <1>1
<1> QED  BY <1>1, <1>6, <1>7

\* WELCOME is the first frame, and GOODBYE the last.
LEMMA FramesSent ==
    ASSUME Watches, ~lost, NEW f, Sends(f), f.shape = "ok", f.type # "UNEXPECTED",
           f.type = "WELCOME" <=> router = "closed", out # <<>>,
           \/ router \in {"closed", "joined"} /\ router' = "joined" /\ f.type # "GOODBYE"
           \/ /\ router = "joined" /\ router' \in {"left", "quit"} /\ f.type = "GOODBYE"
              /\ router' = "left" => Said("GOODBYE")
    PROVE  FramesInv'
<1> DEFINE last == Len(wire) + 1
<1>1. /\ \A n, g : Arrives(n, g)' <=> Arrives(n, g) \/ (n = last /\ g = f)
      /\ \A n, g : Arrives(n, g) => n \in Nat /\ n < last
      /\ last \in Nat
  BY FrameSent DEF Gains
<1>2. /\ UNCHANGED <<m_session_join, m_session_leave, m_goodbye_sent, out, lost>>
      /\ FramesInv
  BY RunTypes DEF Watches, vars, promises, life
<1> HIDE DEF last
<1>3. \A n, g : ~(Arrives(n, g) /\ g.type = "GOODBYE")
  BY <1>2 DEF FramesInv
<1>4. m_session_leave = "unset"
  BY <1>2 DEF FramesInv
<1>5. \A n, g : Arrives(n, g)' => g.shape = "ok" /\ g.type # "UNEXPECTED"
  BY <1>1, <1>2 DEF FramesInv
<1>6. ASSUME NEW n, NEW g, Arrives(n, g)'
      PROVE  g.type = "WELCOME" <=> /\ m_session_join = "unset"
                                    /\ \A m, h : Arrives(m, h)' => n <= m
  <2>1. CASE Arrives(n, g)
    <3>1. (\A m, h : Arrives(m, h)' => n <= m) <=> (\A m, h : Arrives(m, h) => n <= m)
      <4>1. n <= last
        BY <1>1, <2>1
      <4> QED  BY <1>1, <4>1
    <3> QED  BY <1>2, <2>1, <3>1 DEF FramesInv
  <2>2. CASE n = last /\ g = f
    <3>1. CASE router = "closed"
      <4>1. m_session_join = "unset" /\ \A m, h : ~Arrives(m, h)
        BY <1>2, <3>1 DEF FramesInv, Clear
      <4>2. \A m, h : Arrives(m, h)' => n <= m
        BY <1>1, <2>2, <4>1
      <4> QED  BY <2>2, <3>1, <4>1, <4>2
    <3>2. CASE router # "closed"
      <4>1. m_session_join = "unset" => \E m, h : Arrives(m, h)
        BY <1>2, <3>2 DEF FramesInv, Clear
      <4>2. m_session_join = "unset" => \E m, h : Arrives(m, h)' /\ ~(n <= m)
        BY <1>1, <2>2, <4>1
      <4> QED  BY <2>2, <3>2, <4>2
    <3> QED  BY <3>1, <3>2
  <2> QED  BY <1>1, <1>6, <2>1, <2>2
<1>7. ASSUME NEW n, NEW g, Arrives(n, g)', g.type = "GOODBYE"
      PROVE  router' \in {"left", "quit"} /\ \A m, h : Arrives(m, h)' => m <= n
  <2>1. n = last /\ g = f
    BY <1>1, <1>3, <1>7
  <2>2. \A m, h : Arrives(m, h)' => m <= n
    BY <1>1, <2>1
  <2> QED  BY <1>7, <2>1, <2>2
<1>8. ~Clear'
  BY <1>1 DEF Clear
<1>9. router' # "quit" /\ (router' = "left" \/ Said("GOODBYE")) => m_goodbye_sent
  BY <1>2 DEF FramesInv
<1>10. Said("GOODBYE")' <=> Said("GOODBYE")
  BY <1>2 DEF Said
<1> QED  BY <1>2, <1>4, <1>5, <1>6, <1>7, <1>8, <1>9, <1>10 DEF FramesInv

\* No answer is sent; some of the session's messages have been read.
LEMMA AnswersWaiting ==
    ASSUME Watches, \A n, g : IsAnswer(g) => (Arrives(n, g)' <=> Arrives(n, g)),
           seen' \in {seen, seen + 1}, owed' = owed
    PROVE  AnswersInv'
<1>1. /\ UNCHANGED <<request, response, m_calls, m_subscribe_requests,
                     m_unsubscribe_requests, m_register_requests, out>>
      /\ AnswersInv /\ seen \in Nat /\ DOMAIN out = 1..Len(out)
  BY RunTypes
  DEF Watches, vars, app, pending, RunInv, RouterInv, WireInv, RTypeOK, TypeOK, TypeOut
<1>2. \A i : (Open(i)' <=> Open(i)) /\ (Answered(i)' <=> Answered(i))
             /\ (OnWire(RequestOps, out, i)' <=> OnWire(RequestOps, out, i))
  BY <1>1 DEF Open, Answered, OnWire, IsAnswer
<1>3. \A n \in DOMAIN out : n > seen' => n > seen
  BY <1>1
<1>4. \A f : Fits(f)' <=> Fits(f)
  BY <1>1 DEF Fits
<1> QED  BY <1>1, <1>2, <1>3, <1>4 DEF AnswersInv, IsAnswer

\* An INVOCATION follows the REGISTERED of its procedure.
LEMMA ProceduresSent ==
    ASSUME Watches, ~lost, NEW f, Sends(f), f.type = "INVOCATION" => f.arg \in regs,
           \A r \in regs' : r \in regs \/ Confirms(f, r)
    PROVE  ProceduresInv'
<1> DEFINE last == Len(wire) + 1
<1>1. /\ \A n, g : Arrives(n, g)' <=> Arrives(n, g) \/ (n = last /\ g = f)
      /\ \A n, g : Arrives(n, g) => n \in Nat /\ n < last
  BY FrameSent DEF Gains
<1> HIDE DEF last
<1>2. m_procedures' = m_procedures /\ lost' = lost /\ ProceduresInv
  BY RunTypes DEF Watches, vars, callees
<1>3. ASSUME NEW n, NEW g, Arrives(n, g)', g.type = "INVOCATION"
      PROVE  \/ m_procedures[g.arg] # 0
             \/ \E m, h : Arrives(m, h)' /\ Confirms(h, g.arg) /\ m < n
  <2>1. CASE Arrives(n, g)
    BY <1>1, <1>2, <1>3, <2>1 DEF ProceduresInv
  <2>2. CASE n = last /\ g = f
    BY <1>1, <1>2, <1>3, <2>2 DEF ProceduresInv
  <2> QED  BY <1>1, <1>3, <2>1, <2>2
<1>4. ASSUME NEW r \in regs'
      PROVE  m_procedures[r] # 0 \/ \E m, g : Arrives(m, g)' /\ Confirms(g, r)
  BY <1>1, <1>2 DEF ProceduresInv
<1> QED  BY <1>2, <1>3, <1>4 DEF ProceduresInv, Confirms

\* The program and the reads, when the router takes a step.
LEMMA RestWatched ==
    ASSUME Watches, router = "quit" => router' = "quit"
    PROVE  ProgramInv' /\ CompletionsInv'
<1>1. /\ UNCHANGED <<m_session_id, m_goodbye_sent, m_stopped, m_session_join,
                     m_session_leave, main, lost, thread, out, invocation, callback, ioq,
                     read, m_handshake>>
      /\ InOrder(ioq) /\ ProgramInv /\ CompletionsInv
  BY RunTypes DEF Watches, vars, promises, life, app, callees
<1>2. Lambdas /\ NoReads
  BY <1>1 DEF Lambdas, NoReads, InQueue, RunInv, RouterInv, WireInv, RTypeOK, TypeOK, TypeQueue
<1>3. Said("GOODBYE")' => Said("GOODBYE")
  BY <1>1 DEF Said
<1>4. ProgramInv'
  BY <1>1, <1>2, <1>3, ProgramKept
<1>5. CompletionsInv'
  BY <1>1, <1>2, CompletionsKept
<1> QED  BY <1>4, <1>5

\* The fields of a frame.
LEMMA FrameParts ==
    ASSUME NEW type, NEW id, NEW arg
    PROVE  /\ Frame(type, id, arg).type = type /\ Frame(type, id, arg).id = id
           /\ Frame(type, id, arg).arg = arg /\ Frame(type, id, arg).shape = "ok"
  BY DEF Frame

\* The router pushes an EVENT or an INVOCATION.
LEMMA PeerPushes == ASSUME RunInv, RouterPushes PROVE PeerInv'
<1> USE RunTypes
<1>1. Watches /\ ~lost /\ router = "joined" /\ UNCHANGED <<seen, owed, router, regs>>
  BY DEF RouterPushes, Watches
<1>2. PICK f : /\ Sends(f) /\ f.shape = "ok" /\ f.type \in {"EVENT", "INVOCATION"}
               /\ f.type = "INVOCATION" => f.arg \in regs
  BY FrameParts DEF RouterPushes
<1>3. out # <<>>
  BY <1>1 DEF FramesInv
<1>4. FramesInv'
  BY <1>1, <1>2, <1>3, FramesSent
<1>5. AnswersInv'
  <2>1. \A n, g : IsAnswer(g) => (Arrives(n, g)' <=> Arrives(n, g))
    BY <1>1, <1>2, FrameSent DEF Gains, IsAnswer
  <2> QED  BY <1>1, <2>1, AnswersWaiting
<1>6. ProceduresInv'
  BY <1>1, <1>2, ProceduresSent
<1> QED  BY <1>1, <1>4, <1>5, <1>6, RestWatched DEF PeerInv

\* The router closes the session by itself.
LEMMA PeerQuits == ASSUME RunInv, RouterGoodbye PROVE PeerInv'
<1> USE RunTypes
<1>1. /\ Watches /\ ~lost /\ router = "joined" /\ router' = "quit"
      /\ UNCHANGED <<seen, owed, regs>>
  BY DEF RouterGoodbye, Watches
<1>2. PICK f : Sends(f) /\ f.shape = "ok" /\ f.type = "GOODBYE"
  BY FrameParts DEF RouterGoodbye
<1>3. out # <<>>
  BY <1>1 DEF FramesInv
<1>4. FramesInv'
  BY <1>1, <1>2, <1>3, FramesSent
<1>5. AnswersInv'
  <2>1. \A n, g : IsAnswer(g) => (Arrives(n, g)' <=> Arrives(n, g))
    BY <1>1, <1>2, FrameSent DEF Gains, IsAnswer
  <2> QED  BY <1>1, <2>1, AnswersWaiting
<1>6. ProceduresInv'
  BY <1>1, <1>2, ProceduresSent
<1> QED  BY <1>1, <1>4, <1>5, <1>6, RestWatched DEF PeerInv

\* The frames of a step of the router's that sends none.
LEMMA NothingSent ==
    ASSUME Watches, wire' = wire
    PROVE  \A n, f : Arrives(n, f)' <=> Arrives(n, f)
  BY DEF Watches, vars, Arrives

\* The router reads a message: its request is unanswered, and no other has its id.
LEMMA PeerReads == ASSUME RunInv, RouterReads PROVE PeerInv'
<1> USE RunTypes
<1> DEFINE m == out[seen + 1]
<1>1. /\ Watches /\ ~lost /\ seen' = seen + 1 /\ seen + 1 \in DOMAIN out /\ seen \in Nat
      /\ UNCHANGED <<regs, out, m_session_join, m_session_leave, m_goodbye_sent, lost>>
  BY DEF RouterReads, Watches, vars, promises, life, RunInv, RouterInv, WireInv, RTypeOK,
         TypeOK, TypeOut
<1>2. out # <<>>
  BY <1>1
<1>3. CASE /\ m.type = "HELLO" /\ router = "closed" /\ router' = "joined"
           /\ \E id \in SessionIds : Sends(Frame("WELCOME", 0, id))
           /\ owed' = owed
  <2>1. PICK f : Sends(f) /\ f.shape = "ok" /\ f.type = "WELCOME"
    BY <1>3, FrameParts
  <2>2. FramesInv'
    BY <1>1, <1>2, <1>3, <2>1, FramesSent
  <2>3. \A n, g : IsAnswer(g) => (Arrives(n, g)' <=> Arrives(n, g))
    BY <1>1, <2>1, FrameSent DEF Gains, IsAnswer
  <2>4. AnswersInv'
    BY <1>1, <1>3, <2>3, AnswersWaiting
  <2>5. ProceduresInv'
    BY <1>1, <2>1, ProceduresSent
  <2> QED  BY <1>1, <1>3, <2>2, <2>4, <2>5, RestWatched DEF PeerInv
<1>4. CASE /\ m.type = "GOODBYE" /\ router = "joined" /\ router' = "left"
           /\ Sends(Frame("GOODBYE", 0, 0))
           /\ owed' = owed
  <2>1. PICK f : Sends(f) /\ f.shape = "ok" /\ f.type = "GOODBYE"
    BY <1>4, FrameParts
  <2>2. Said("GOODBYE")
    BY <1>1, <1>4 DEF Said
  <2>3. FramesInv'
    BY <1>1, <1>2, <1>4, <2>1, <2>2, FramesSent
  <2>4. \A n, g : IsAnswer(g) => (Arrives(n, g)' <=> Arrives(n, g))
    BY <1>1, <2>1, FrameSent DEF Gains, IsAnswer
  <2>5. AnswersInv'
    BY <1>1, <1>4, <2>4, AnswersWaiting
  <2>6. ProceduresInv'
    BY <1>1, <2>1, ProceduresSent
  <2> QED  BY <1>1, <1>4, <2>3, <2>5, <2>6, RestWatched DEF PeerInv
<1>5. ASSUME UNCHANGED <<router, wire>>
      PROVE  FramesInv' /\ ProceduresInv' /\ ProgramInv' /\ CompletionsInv'
  <2>1. \A n, f : Arrives(n, f)' <=> Arrives(n, f)
    BY <1>1, <1>5, NothingSent
  <2>2. FramesInv'
    BY <1>1, <1>5, <2>1 DEF FramesInv, Clear, Said
  <2>3. m_procedures' = m_procedures
    BY <1>1 DEF Watches, vars, callees
  <2>4. ProceduresInv'
    BY <1>1, <2>1, <2>3 DEF ProceduresInv, Confirms
  <2> QED  BY <1>1, <1>5, <2>2, <2>4, RestWatched
<1>6. CASE UNCHANGED <<router, wire, owed>>
  <2>1. \A n, f : Arrives(n, f)' <=> Arrives(n, f)
    BY <1>1, <1>6, NothingSent
  <2>2. AnswersInv'
    BY <1>1, <1>6, <2>1, AnswersWaiting
  <2> QED  BY <1>5, <1>6, <2>2 DEF PeerInv
<1>7. CASE /\ m.type \in RequestOps /\ owed' = owed \cup {m.id}
           /\ UNCHANGED <<router, wire>>
  <2>1. \A n, f : Arrives(n, f)' <=> Arrives(n, f)
    BY <1>1, <1>7, NothingSent
  <2>2. UNCHANGED <<request, response, m_calls, m_subscribe_requests,
                    m_unsubscribe_requests, m_register_requests, out>>
    BY <1>1 DEF Watches, vars, app, pending
  <2>3. \A i : (Open(i)' <=> Open(i)) /\ (Answered(i)' <=> Answered(i))
               /\ (OnWire(RequestOps, out, i)' <=> OnWire(RequestOps, out, i))
    BY <2>1, <2>2 DEF Open, Answered, OnWire, IsAnswer
  <2>4. Open(m.id) /\ OnWire(RequestOps, out, m.id) /\ ~Answered(m.id)
    <3>1. seen + 1 > seen
      BY <1>1
    <3> QED  BY <1>1, <1>7, <3>1 DEF AnswersInv, OnWire
  <2>5. \A n \in DOMAIN out : out[n].type \in RequestOps /\ n > seen + 1 =>
           n > seen /\ out[n].id # m.id
    <3>1. \A n \in DOMAIN out : n > seen + 1 => n > seen /\ n # seen + 1
      BY <1>1 DEF RunInv, RouterInv, WireInv, RTypeOK, TypeOK, TypeOut
    <3> QED  BY <1>1, <1>7, <3>1 DEF IdInv, OnWireOnce
  <2>6. \A f : Fits(f)' <=> Fits(f)
    BY <2>2 DEF Fits
  <2>7. AnswersInv'
    BY <1>1, <1>7, <2>1, <2>2, <2>3, <2>4, <2>5, <2>6 DEF AnswersInv, IsAnswer
  <2> QED  BY <1>5, <1>7, <2>7 DEF PeerInv
<1> QED  BY <1>3, <1>4, <1>6, <1>7 DEF RouterReads

\* The router answers a request, once.
LEMMA PeerAnswers == ASSUME RunInv, NEW i \in Ids, RouterAnswers(i) PROVE PeerInv'
<1> USE RunTypes
<1>1. /\ Watches /\ ~lost /\ router = "joined" /\ i \in owed /\ owed' = owed \ {i}
      /\ UNCHANGED <<seen, router>>
  BY DEF RouterAnswers, Watches
<1>2. PICK f : /\ Sends(f) /\ f.shape = "ok" /\ f.id = i /\ IsAnswer(f) /\ Fits(f)
               /\ \A r \in regs' : r \in regs \/ Confirms(f, r)
  <2> DEFINE op == request[i].op
  <2>1. CASE Sends(Frame("CALL_ERROR", i, 0)) /\ op = "CALL" /\ regs' = regs
    BY <2>1, FrameParts DEF IsAnswer, Fits
  <2>2. CASE Sends(Frame("OTHER_ERROR", i, 0)) /\ op \in RouterErrors \ {"CALL"} /\ regs' = regs
    BY <2>2, FrameParts DEF IsAnswer, Fits
  <2>3. CASE Sends(Frame("RESULT", i, 0)) /\ op = "CALL" /\ regs' = regs
    BY <2>3, FrameParts DEF IsAnswer, Fits
  <2>4. CASE op = "SUBSCRIBE" /\ (\E s \in SubIds : Sends(Frame("SUBSCRIBED", i, s)))
             /\ regs' = regs
    BY <2>4, FrameParts DEF IsAnswer, Fits
  <2>5. CASE op = "UNSUBSCRIBE" /\ Sends(Frame("UNSUBSCRIBED", i, 0)) /\ regs' = regs
    BY <2>5, FrameParts DEF IsAnswer, Fits
  <2>6. CASE op = "REGISTER" /\ \E r \in RegIds \ regs : /\ Sends(Frame("REGISTERED", i, r))
                                                         /\ regs' = regs \cup {r}
    BY <2>6, FrameParts DEF IsAnswer, Fits, Confirms
  <2> QED  BY <2>1, <2>2, <2>3, <2>4, <2>5, <2>6 DEF RouterAnswers
<1>3. out # <<>>
  BY <1>1 DEF FramesInv
<1>4. FramesInv'
  BY <1>1, <1>2, <1>3, FramesSent DEF IsAnswer
<1>5. ProceduresInv'
  BY <1>1, <1>2, ProceduresSent DEF IsAnswer
<1>6. AnswersInv'
  <2>1. /\ UNCHANGED <<request, response, m_calls, m_subscribe_requests,
                       m_unsubscribe_requests, m_register_requests, out>>
        /\ Gains(f)
        /\ \A n, g : Arrives(n, g) => n # Len(wire) + 1
    BY <1>1, <1>2, FrameSent DEF Watches, vars, app, pending
  <2>2. Open(i) /\ OnWire(RequestOps, out, i) /\ ~Answered(i)
    BY <1>1 DEF AnswersInv
  <2>3. \A j : /\ Open(j)' <=> Open(j)
               /\ OnWire(RequestOps, out, j)' <=> OnWire(RequestOps, out, j)
               /\ j # i => (Answered(j)' <=> Answered(j))
    BY <1>2, <2>1 DEF Open, Answered, OnWire, IsAnswer, Gains
  <2>4. \A g : Fits(g)' <=> Fits(g)
    BY <2>1 DEF Fits
  <2>5. ASSUME NEW n, NEW g, Arrives(n, g)', IsAnswer(g)
        PROVE  /\ Open(g.id) /\ Fits(g) /\ OnWire(RequestOps, out, g.id)
               /\ \A m, h : Arrives(m, h)' /\ IsAnswer(h) /\ h.id = g.id => m = n
    <3>1. CASE Arrives(n, g)
      <4>1. g.id # i
        BY <2>2, <2>5, <3>1 DEF Answered
      <4> QED  BY <1>2, <2>1, <2>5, <3>1, <4>1 DEF AnswersInv, Gains
    <3>2. CASE n = Len(wire) + 1 /\ g = f
      <4>1. \A m, h : Arrives(m, h) /\ IsAnswer(h) => h.id # i
        BY <2>2 DEF Answered
      <4> QED  BY <1>2, <2>1, <2>2, <3>2, <4>1 DEF Gains
    <3> QED  BY <2>1, <2>5, <3>1, <3>2 DEF Gains
  <2>6. ASSUME NEW n \in DOMAIN out, out[n].type \in RequestOps, n > seen
        PROVE  Open(out[n].id) /\ out[n].id \notin owed' /\ ~Answered(out[n].id)'
    BY <1>1, <2>1, <2>3, <2>6 DEF AnswersInv
  <2>7. ASSUME NEW j \in owed'
        PROVE  Open(j) /\ OnWire(RequestOps, out, j) /\ ~Answered(j)'
    BY <1>1, <2>3, <2>7 DEF AnswersInv
  <2> QED
    BY <1>1, <2>1, <2>3, <2>4, <2>5, <2>6, <2>7 DEF AnswersInv, IsAnswer
<1> QED  BY <1>1, <1>4, <1>5, <1>6, RestWatched DEF PeerInv
-----------------------------------------------------------------------------
(***************************************************************************)
(* Every step                                                              *)
(***************************************************************************)

\* What a step of the io thread may end the io_service with.
Ends == io' # "running" => \/ io' = "no_session_error" /\ (lost \/ router = "quit")
                           \/ lost /\ io' \notin {"protocol_error", "type_error"}
                           \/ EarlyReplies /\ io' = "runtime_error"

\* The io thread runs a handler.
LEMMA PeerIo ==
    ASSUME RunInv, UNCHANGED <<wire, peer, main>>, IoStep
    PROVE  Ends /\ (io' = "running" => PeerInv')
<1>0. io = "running"
  BY DEF RunInv
<1>1. ASSUME NEW op \in LifecycleOps, RunLifecycle(op)
      PROVE  Ends /\ (io' = "running" => PeerInv')
  <2>1. io' = "running" => PeerInv'
    BY <1>1, PeerLifecycle
  <2>2. io' # "running" => io' = "no_session_error" /\ (lost \/ router = "quit")
    BY <1>0, <1>1, LifecycleRefused DEF RunLifecycle, Escapes
  <2> QED  BY <2>1, <2>2 DEF Ends
<1>2. CASE run_request
  BY <1>2, PeerRunRequest DEF Ends
<1>3. CASE run_reply
  BY <1>0, <1>3, PeerRunReply DEF Ends, run_reply
<1>4. CASE got_handshake_reply
  BY <1>0, <1>4, PeerHandshake DEF Ends
<1>5. ASSUME NEW run \in ReadHandlers, Runs(run), Head(ioq).ec # "ok",
             handleRxError(Head(ioq).ec)
      PROVE  Ends /\ (io' = "running" => PeerInv')
  BY <1>5, PeerRxError DEF Ends
<1>6. CASE got_message_header
  <2>1. Runs("got_message_header") /\ "got_message_header" \in ReadHandlers
    BY <1>6 DEF got_message_header, ReadHandlers
  <2>2. CASE Head(ioq).ec = "ok"
    BY <1>0, <1>6, <2>2, PeerHeader DEF Ends
  <2>3. CASE Head(ioq).ec # "ok"
    BY <1>5, <1>6, <2>1, <2>3 DEF got_message_header
  <2> QED  BY <2>2, <2>3
<1>7. CASE got_message_body
  <2>1. Runs("got_message_body") /\ "got_message_body" \in ReadHandlers
    BY <1>7 DEF got_message_body, ReadHandlers
  <2>2. CASE Head(ioq).ec = "ok"
    BY <1>0, <1>7, <2>1, <2>2, PeerMessage DEF Ends, got_message_body
  <2>3. CASE Head(ioq).ec # "ok"
    BY <1>5, <1>7, <2>1, <2>3 DEF got_message_body
  <2> QED  BY <2>2, <2>3
<1> QED  BY <1>1, <1>2, <1>3, <1>4, <1>6, <1>7 DEF IoStep

\* Nothing happens.
LEMMA PeerFinished == ASSUME RunInv, UNCHANGED rvars PROVE PeerInv'
<1> USE RunTypes
<1>1. Watches /\ UNCHANGED <<wire, seen, owed, router, regs>>
  BY DEF rvars, peer, Watches
<1>2. \A n, f : Arrives(n, f)' <=> Arrives(n, f)
  BY <1>1, NothingSent
<1>3. UNCHANGED <<out, m_session_join, m_session_leave, m_goodbye_sent, lost, m_procedures>>
  BY <1>1 DEF Watches, vars, promises, life, callees
<1>4. FramesInv'
  BY <1>1, <1>2, <1>3 DEF FramesInv, Clear, Said
<1>5. AnswersInv'
  BY <1>1, <1>2, AnswersWaiting
<1>6. ProceduresInv'
  BY <1>1, <1>2, <1>3 DEF ProceduresInv, Confirms
<1> QED  BY <1>1, <1>4, <1>5, <1>6, RestWatched DEF PeerInv

\* PeerInv is kept while the io_service runs, and few exceptions end it.
LEMMA PeerNext ==
    ASSUME RunInv, RNext
    PROVE  /\ Ends /\ (io' = "running" => PeerInv')
           /\ lost => lost'
           /\ router = "quit" => router' = "quit"
           /\ io' # "running" => UNCHANGED <<lost, router>>
<1>0. io = "running"
  BY DEF RunInv
<1>1. CASE Finished
  BY <1>0, <1>1, PeerFinished DEF Finished, rvars, vars, peer, Ends
<1>2. ASSUME Local(IoStep \/ CallbackEnds)
      PROVE  Ends /\ (io' = "running" => PeerInv') /\ UNCHANGED <<lost, router>>
  <2>1. UNCHANGED <<wire, peer, main>>
    BY <1>2 DEF Local
  <2>2. CallbackEnds => io' = io \/ (EarlyReplies /\ io' = "runtime_error")
    BY DEF CallbackEnds, CallbackReturns, CallbackThrows, CatchThrows, Escapes
  <2> QED  BY <1>0, <1>2, <2>1, <2>2, PeerIo, PeerCallback DEF Local, Ends, peer
<1>3. ASSUME Local(DispatchStep \/ RequestStep \/ ReplyStep)
      PROVE  PeerInv' /\ io' = io /\ UNCHANGED <<lost, router>>
  <2>1. UNCHANGED <<wire, peer, main>>
    BY <1>3 DEF Local
  <2>2. CASE DispatchStep
    BY <2>1, <2>2, PeerDispatch DEF DispatchStep, Dispatch, peer
  <2>3. CASE RequestStep
    <3>1. PICK op \in Ops : \E sub \in Argument(op) :
               \/ UsesSession /\ \E t \in Threads : DrawOnThread(t, op, sub)
               \/ RequestInline(op, sub)
      BY <2>3 DEF RequestStep
    <3>2. PICK sub : \/ UsesSession /\ \E t \in Threads : DrawOnThread(t, op, sub)
                     \/ RequestInline(op, sub)
      BY <3>1
    <3>3. io' = io
      BY <3>2 DEF DrawOnThread, RequestInline
    <3> QED  BY <2>1, <3>2, <3>3, PeerDraw DEF peer
  <2>4. CASE ReplyStep
    <3>1. PICK k \in DOMAIN invocation : Reply(k) \/ ReplyReturns(k) \/ ReplyInline(k)
      BY <2>4 DEF ReplyStep
    <3>2. io' = io
      BY <3>1 DEF Reply, ReplyReturns, ReplyInline
    <3> QED  BY <2>1, <3>1, <3>2, PeerReply DEF peer
  <2> QED  BY <1>3, <2>2, <2>3, <2>4 DEF Local
<1>4. CASE MainStep
  BY <1>0, <1>4, PeerMain DEF Ends, MainStep, peer
<1>5. CASE Delivers \/ EofRead
  BY <1>0, <1>5, PeerDelivers, PeerEofRead DEF Ends, Delivers, EofRead, peer
<1>6. CASE LinkLost
  BY <1>0, <1>6, PeerLinkLost DEF Ends, LinkLost
<1>7. CASE RouterReads \/ RouterPushes \/ RouterGoodbye \/ \E i \in Ids : RouterAnswers(i)
  <2>1. PeerInv'
    BY <1>7, PeerReads, PeerPushes, PeerQuits, PeerAnswers
  <2>2. io' = io /\ lost' = lost
    BY <1>7 DEF RouterReads, RouterPushes, RouterGoodbye, RouterAnswers, vars
  <2>3. router = "quit" => router' = "quit"
    BY <1>7 DEF RouterReads, RouterPushes, RouterGoodbye, RouterAnswers
  <2> QED  BY <1>0, <2>1, <2>2, <2>3 DEF Ends
<1>8. \/ Finished \/ Local(IoStep \/ CallbackEnds)
      \/ Local(DispatchStep \/ RequestStep \/ ReplyStep) \/ MainStep
      \/ Delivers \/ EofRead \/ LinkLost
      \/ RouterReads \/ RouterPushes \/ RouterGoodbye \/ \E i \in Ids : RouterAnswers(i)
  BY DEF RNext
<1>9. CASE Local(IoStep \/ CallbackEnds)
  BY <1>2, <1>9
<1>10. CASE Local(DispatchStep \/ RequestStep \/ ReplyStep)
  BY <1>0, <1>3, <1>10 DEF Ends
<1> QED  BY <1>1, <1>4, <1>5, <1>6, <1>7, <1>8, <1>9, <1>10

\* PeerInv holds at first.
LEMMA PeerInit == ASSUME RInit PROVE PeerInv
<1> USE DEF RInit, Init
<1>1. \A n, f : ~Arrives(n, f)
  BY DEF Arrives, Elems
<1>2. \A run : ~InQueue(run)
  BY DEF InQueue, Elems
<1>3. FramesInv
  BY <1>1 DEF FramesInv, Clear, Said
<1>4. AnswersInv /\ ProceduresInv
  BY <1>1 DEF AnswersInv, ProceduresInv, RequestOps
<1>5. ProgramInv
  BY <1>2 DEF ProgramInv, InOrder, Unjoined, InCallback, Said
<1>6. CompletionsInv
  BY <1>2 DEF CompletionsInv, Elems, LifecycleOps
<1> QED  BY <1>3, <1>4, <1>5, <1>6 DEF PeerInv
-----------------------------------------------------------------------------
(***************************************************************************)
(* The order of the messages                                               *)
(***************************************************************************)

\* A message may follow what was written.
MaySay(type) == /\ type = "HELLO" <=> out = <<>>
                /\ type # "REPLY" => ~Said("GOODBYE")

\* A message that may follow keeps the order.
LEMMA OrderSaid ==
    ASSUME TypeOK, WireOrder, NEW type, NEW id, NEW arg, out' = Sent(type, id, arg),
           MaySay(type)
    PROVE  WireOrder'
<1>1. CASE m_stopped
  BY <1>1 DEF Sent, WireOrder
<1>2. CASE ~m_stopped
  <2> DEFINE m == [type |-> type, id |-> id, arg |-> arg]
  <2>1. /\ out' = Append(out, m) /\ m.type = type
        /\ Len(out) \in Nat /\ (out = <<>> <=> Len(out) = 0)
    BY <1>2 DEF Sent, TypeOK, TypeOut
  <2> HIDE DEF m
  <2>2. /\ DOMAIN out = 1..Len(out) /\ DOMAIN out' = 1..Len(out) + 1 /\ Len(out') = Len(out) + 1
        /\ \A n \in 1..Len(out) : out'[n] = out[n]
        /\ out'[Len(out) + 1] = m
    BY <2>1 DEF TypeOK, TypeOut
  <2>3. \A n \in 1..Len(out) + 1 : n \in 1..Len(out) \/ n = Len(out) + 1
    BY <2>1
  <2>4. ASSUME NEW n \in 1..Len(out) + 1
        PROVE  out'[n].type = "HELLO" <=> n = 1
    <3>1. CASE n \in 1..Len(out)
      BY <2>2, <3>1 DEF WireOrder
    <3>2. CASE n = Len(out) + 1
      BY <2>1, <2>2, <3>2 DEF MaySay
    <3> QED  BY <2>3, <3>1, <3>2
  <2>5. ASSUME NEW n \in 1..Len(out) + 1, out'[n].type = "GOODBYE",
               NEW k \in n + 1 .. Len(out) + 1
        PROVE  out'[k].type = "REPLY"
    <3>1. n \in 1..Len(out) /\ k \in 1..Len(out) + 1
      BY <2>1, <2>5
    <3>2. out[n].type = "GOODBYE" /\ Said("GOODBYE")
      BY <2>2, <2>5, <3>1 DEF Said
    <3>3. CASE k \in 1..Len(out)
      <4>1. k \in n + 1 .. Len(out)
        BY <2>1, <2>5, <3>3
      <4> QED  BY <2>2, <3>1, <3>2, <3>3, <4>1 DEF WireOrder
    <3>4. CASE k = Len(out) + 1
      BY <2>1, <2>2, <3>2, <3>4 DEF MaySay
    <3> QED  BY <2>3, <3>1, <3>3, <3>4
  <2> QED  BY <2>2, <2>4, <2>5 DEF WireOrder
<1> QED  BY <1>1, <1>2

\* A step writes nothing, or what may follow.
Says == \/ out' = out
        \/ \E type, id, arg : out' = Sent(type, id, arg) /\ MaySay(type)

\* A reply is always allowed once the session is joined.
LEMMA MayReply ==
    ASSUME RunInv, InCallback \/ InQueue("reply")
    PROVE  MaySay("REPLY")
  BY Joined DEF MaySay

\* A joined session has not said GOODBYE.
LEMMA MayRequest ==
    ASSUME RunInv, m_session_id # 0, NEW type \in RequestOps \cup {"none", "GOODBYE"}
    PROVE  MaySay(type)
  BY Joined DEF MaySay, RequestOps

\* What a request writes.
LEMMA RequestSays ==
    ASSUME RunInv, m_session_id # 0, NEW id, NEW op \in RequestOps \cup {"none"}, NEW sub,
           EmplaceAndSend(id, op, sub)
    PROVE  Says
<1>1. MaySay(op)
  BY MayRequest
<1> QED  BY <1>1 DEF Says, EmplaceAndSend

\* What join(), leave() and stop() write.
LEMMA LifecycleSays ==
    ASSUME RunInv, wire' = wire, NEW op \in LifecycleOps, RunLifecycle(op)
    PROVE  Says
<1>1. CASE op = "join"
  <2>1. InQueue("join")
    BY <1>1, LambdaTaken DEF RunLifecycle
  <2>2. out = <<>>
    BY <2>1, RunTypes DEF ProgramInv
  <2>3. MaySay("HELLO")
    BY <2>2 DEF MaySay, Said
  <2> QED  BY <1>1, <2>3 DEF RunLifecycle, Effect, JoinEffect, Says
<1>2. CASE op = "leave"
  <2>1. Refusal(op) = "none" => MaySay("GOODBYE")
    BY <1>2, MayRequest DEF Refusal, LeaveRefusal
  <2> QED  BY <1>2, <2>1 DEF RunLifecycle, Effect, LeaveEffect, Says
<1>3. CASE op = "stop"
  BY <1>3 DEF RunLifecycle, Effect, StopEffect, Says
<1> QED  BY <1>1, <1>2, <1>3 DEF LifecycleOps

\* What handleRxError() writes.
LEMMA RxErrorSays ==
    ASSUME RunInv, NEW ec, handleRxError(ec)
    PROVE  Says
<1>1. CASE m_session_id = 0
  BY <1>1 DEF handleRxError, LeaveRefusal, Says
<1>2. CASE m_session_id # 0
  <2>1. MaySay("GOODBYE")
    BY <1>2, MayRequest
  <2> QED  BY <2>1 DEF handleRxError, Says
<1> QED  BY <1>1, <1>2

\* What the handler of a message writes: the GOODBYE that answers the router's.
LEMMA MessageSays ==
    ASSUME RunInv, UNCHANGED <<wire, peer, main>>, Runs("got_message_body"),
           Head(ioq).ec = "ok", got_message
    PROVE  Says
<1>1. CASE process_goodbye
  <2>1. Handled(Message)
    <3>1. Settles(Tail(ioq))
      BY <1>1, RunTypes, Settled DEF process_goodbye, Done, Throws, Settles
    <3> QED  BY <3>1, RunTypes, QueueHandled
  <2>2. m_session_leave = "unset" /\ m_session_join # "unset"
    BY <1>1, <2>1, FrameHandled DEF process_goodbye
  <2>3. ~m_goodbye_sent => ~Said("GOODBYE") /\ out # <<>>
    BY <2>2, RunTypes, Joined DEF ProgramInv
  <2>4. ~m_goodbye_sent => MaySay("GOODBYE")
    BY <2>3 DEF MaySay
  <2> QED  BY <1>1, <2>4 DEF process_goodbye, Says
<1>2. CASE ~process_goodbye
  <2>1. out' = out
    BY <1>2
    DEF got_message, process_welcome, process_error, process_call_result,
        process_subscribed, process_unsubscribed, process_event, process_registered,
        process_invocation, process_other
  <2> QED  BY <2>1 DEF Says
<1> QED  BY <1>1, <1>2

\* What the io thread writes.
LEMMA IoSays ==
    ASSUME RunInv, UNCHANGED <<wire, peer, main>>, IoStep
    PROVE  Says
<1>1. ASSUME NEW op \in LifecycleOps, RunLifecycle(op) PROVE Says
  BY <1>1, LifecycleSays
<1>2. CASE run_request
  <2>1. request[Head(ioq).id].op \in RequestOps \cup {"none"}
    <3>1. Head(ioq).id \in Ids
      BY <1>2, RunTypes, HandlerFields DEF run_request, Runs
    <3> QED  BY <3>1, RunTypes DEF TypeOK, TypeRequests
  <2>2. CASE m_session_id = 0
    BY <1>2, <2>2 DEF run_request, Says
  <2>3. CASE m_session_id # 0
    BY <1>2, <2>1, <2>3, RequestSays DEF run_request
  <2> QED  BY <2>2, <2>3
<1>3. CASE run_reply
  <2>1. InQueue("reply")
    BY <1>3, RunTypes, ElemsTail DEF run_reply, Runs, InQueue
  <2>2. MaySay("REPLY")
    BY <2>1, MayReply
  <2> QED  BY <1>3, <2>2 DEF run_reply, Says
<1>4. CASE got_handshake_reply
  BY <1>4 DEF got_handshake_reply, Says
<1>5. CASE got_message_header
  BY <1>5, RxErrorSays DEF got_message_header, Says
<1>6. CASE got_message_body
  BY <1>6, RxErrorSays, MessageSays DEF got_message_body
<1> QED  BY <1>1, <1>2, <1>3, <1>4, <1>5, <1>6 DEF IoStep

\* Every step keeps the order of the messages.
LEMMA OrderNext == ASSUME RunInv, WireOrder, RNext PROVE WireOrder'
<1> SUFFICES Says
  <2>1. out' = out => WireOrder'
    BY DEF WireOrder
  <2> QED  BY <2>1, RunTypes, OrderSaid DEF Says
<1>1. ASSUME Local(IoStep \/ CallbackEnds) PROVE Says
  <2>1. UNCHANGED <<wire, peer, main>>
    BY <1>1 DEF Local
  <2>2. CASE IoStep
    BY <2>1, <2>2, IoSays
  <2>3. CASE CallbackEnds
    <3>1. MaySay("REPLY")
      BY <2>3, MayReply DEF CallbackEnds, CallbackReturns, CallbackThrows, CatchThrows
    <3> QED  BY <2>3, <3>1 DEF CallbackEnds, CallbackReturns, CallbackThrows, CatchThrows, Says
  <2> QED  BY <1>1, <2>2, <2>3 DEF Local
<1>2. CASE DispatchStep
  BY <1>2 DEF DispatchStep, Dispatch, Says
<1>3. CASE RequestStep
  <2>1. PICK op \in Ops : \E sub \in Argument(op) :
             \/ UsesSession /\ \E t \in Threads : DrawOnThread(t, op, sub)
             \/ RequestInline(op, sub)
    BY <1>3 DEF RequestStep
  <2>2. PICK sub : \/ \E t \in Threads : DrawOnThread(t, op, sub)
                   \/ RequestInline(op, sub)
    BY <2>1
  <2>3. op \in RequestOps
    BY UseAssumption
  <2>4. CASE \E t \in Threads : DrawOnThread(t, op, sub)
    BY <2>4 DEF DrawOnThread, Says
  <2>5. CASE RequestInline(op, sub) /\ m_session_id = 0
    BY <2>5 DEF RequestInline, Says
  <2>6. CASE RequestInline(op, sub) /\ m_session_id # 0
    BY <2>3, <2>6, RequestSays DEF RequestInline
  <2> QED  BY <2>2, <2>4, <2>5, <2>6
<1>4. CASE ReplyStep
  <2>1. PICK k \in DOMAIN invocation : Reply(k) \/ ReplyReturns(k) \/ ReplyInline(k)
    BY <1>4 DEF ReplyStep
  <2>2. CASE Reply(k) \/ ReplyReturns(k)
    BY <2>2 DEF Reply, ReplyReturns, Says
  <2>3. CASE ReplyInline(k)
    <3>1. MaySay("REPLY")
      BY <2>3, MayReply DEF ReplyInline
    <3> QED  BY <2>3, <3>1 DEF ReplyInline, Says
  <2> QED  BY <2>1, <2>2, <2>3
<1>5. CASE MainStep
  BY <1>5 DEF MainStep, start, Ask, Says
<1>6. CASE Delivers \/ EofRead \/ LinkLost
  BY <1>6 DEF Delivers, EofRead, LinkLost, ReadCompletes, vars, Says
<1>7. CASE RouterReads \/ RouterPushes \/ RouterGoodbye \/ \E i \in Ids : RouterAnswers(i)
  BY <1>7 DEF RouterReads, RouterPushes, RouterGoodbye, RouterAnswers, vars, Says
<1>8. CASE Finished
  BY <1>8 DEF Finished, rvars, vars, Says
<1>9. CASE Local(IoStep \/ CallbackEnds)
  BY <1>1, <1>9
<1> QED  BY <1>2, <1>3, <1>4, <1>5, <1>6, <1>7, <1>8, <1>9 DEF RNext, Local
-----------------------------------------------------------------------------
(***************************************************************************)
(* The theorems                                                            *)
(***************************************************************************)

\* RouterInv with what holds while the io_service runs, and what may end it.
NetInv == /\ RouterInv /\ (io = "running" => PeerInv) /\ WireOrder
          /\ io # "running" => \/ io = "no_session_error" /\ (lost \/ router = "quit")
                               \/ lost /\ io \notin {"protocol_error", "type_error"}
                               \/ EarlyReplies /\ io = "runtime_error"

\* NetInv is inductive.
LEMMA NetNext == NetInv /\ [RNext]_rvars => NetInv'
<1> SUFFICES ASSUME NetInv, [RNext]_rvars PROVE NetInv'
  OBVIOUS
<1>1. RouterInv'
  BY RouterNext DEF NetInv
<1>2. CASE io = "running" /\ RNext
  <2>1. RunInv
    BY <1>2 DEF RunInv, NetInv
  <2>2. /\ Ends /\ (io' = "running" => PeerInv')
        /\ io' # "running" => UNCHANGED <<lost, router>>
    BY <1>2, <2>1, PeerNext
  <2>3. WireOrder'
    BY <1>2, <2>1, OrderNext DEF NetInv
  <2> QED  BY <1>1, <2>2, <2>3 DEF NetInv, Ends
<1>3. CASE UNCHANGED rvars
  <2>1. UNCHANGED <<io, lost, router, out>>
    BY <1>3 DEF rvars, vars, peer
  <2>2. WireOrder'
    BY <2>1 DEF NetInv, WireOrder
  <2>3. io = "running" => PeerInv'
    BY <1>3, PeerFinished DEF RunInv, NetInv
  <2> QED  BY <1>1, <2>1, <2>2, <2>3 DEF NetInv
<1> QED  BY <1>2, <1>3 DEF RNext, Finished

\* It holds at first.
LEMMA NetInit == RInit => NetInv
<1> SUFFICES ASSUME RInit PROVE NetInv
  OBVIOUS
<1>1. RouterInv /\ PeerInv
  BY RouterInit, PeerInit
<1>2. io = "running" /\ WireOrder
  BY DEF RInit, Init, WireOrder
<1> QED  BY <1>1, <1>2 DEF NetInv

\* It implies the three properties.
LEMMA NetImplies ==
    NetInv => NoProtocolError /\ (~EarlyReplies => IoKeepsRunning) /\ WireOrder
  BY DEF NetInv, NoProtocolError, IoKeepsRunning

\* NoProtocolError: whatever the router closes and whenever the connection is
\* lost, no lambda is refused, and no message of a conforming router taken, as a
\* protocol error: its answers find their request in the table of its operation
\* and its promise unset, its INVOCATIONs find their procedure.
THEOREM NoProtocolErrorThm == RSpec => []NoProtocolError
<1> QED  BY NetInit, NetNext, NetImplies, PTL DEF RSpec

\* IoKeepsRunning: until the connection is lost, the one exception that leaves
\* io_service::run is no_session_error, of a lambda that was queued before the
\* router's GOODBYE was handled; when the router lets the client close there is
\* none, the shutdown leave, GOODBYE, stop, operation_aborted included.  A thread
\* that replies while the procedure may still throw is excluded: error() would
\* throw runtime_error out of the catch block of process_invocation.
THEOREM IoKeepsRunningThm == ASSUME ~EarlyReplies PROVE RSpec => []IoKeepsRunning
<1>1. NetInv => IoKeepsRunning
  BY NetImplies
<1> QED  BY <1>1, NetInit, NetNext, PTL DEF RSpec

\* WireOrder: HELLO is the first message and is said once, and after the one
\* GOODBYE there are only replies, whichever side closes and when.
THEOREM WireOrderThm == RSpec => []WireOrder
<1> QED  BY NetInit, NetNext, NetImplies, PTL DEF RSpec
-----------------------------------------------------------------------------
(***************************************************************************)
(* Nothing is lost                                                         *)
(***************************************************************************)

\* What is added to a sequence, and what is left when its head is taken.
LEMMA ElemsGrow ==
    ASSUME NEW S, NEW q \in Seq(S), NEW e
    PROVE  Elems(q) \subseteq Elems(Append(q, e)) /\ e \in Elems(Append(q, e))
<1>1. /\ DOMAIN Append(q, e) = 1..Len(q) + 1 /\ DOMAIN q = 1..Len(q) /\ Len(q) \in Nat
      /\ \A n \in 1..Len(q) : Append(q, e)[n] = q[n]
      /\ Append(q, e)[Len(q) + 1] = e
  OBVIOUS
<1>2. Len(q) + 1 \in 1..Len(q) + 1 /\ \A n \in 1..Len(q) : n \in 1..Len(q) + 1
  BY <1>1
<1> QED  BY <1>1, <1>2 DEF Elems

LEMMA ElemsLeft ==
    ASSUME NEW S, NEW q \in Seq(S), NEW e \in Elems(q)
    PROVE  q # <<>> /\ Tail(q) \in Seq(S) /\ (e = Head(q) \/ e \in Elems(Tail(q)))
<1>1. PICK n \in DOMAIN q : e = q[n]
  BY DEF Elems
<1>2. /\ DOMAIN q = 1..Len(q) /\ Len(q) \in Nat \ {0} /\ q # <<>> /\ Tail(q) \in Seq(S)
      /\ DOMAIN Tail(q) = 1..Len(q) - 1 /\ Head(q) = q[1]
      /\ \A m \in 1..Len(q) - 1 : Tail(q)[m] = q[m + 1]
  BY <1>1
<1>3. CASE n = 1
  BY <1>1, <1>2, <1>3
<1>4. CASE n # 1
  <2>1. n - 1 \in 1..Len(q) - 1 /\ (n - 1) + 1 = n
    BY <1>1, <1>2, <1>4
  <2>2. e = Tail(q)[n - 1]
    BY <1>1, <1>2, <2>1
  <2> QED  BY <1>2, <2>1, <2>2 DEF Elems
<1> QED  BY <1>3, <1>4

\* The queue becomes q, to which one handler may be added.
Grew(q) == ioq' = q \/ \E h : ioq' = Append(q, h)

LEMMA Rearmed ==
    ASSUME NEW q, (\E h : AsyncRead(h, q)) \/ CloseStreams(q) \/ ReceiveNext(q)
    PROVE  Grew(q)
  BY DEF AsyncRead, CloseStreams, ReceiveNext, Grew

\* A step adds one handler to the queue, and only the io thread takes one from it.
LEMMA QueueStep ==
    ASSUME RNext
    PROVE  Grew(ioq) \/ (Local(IoStep) /\ Grew(Tail(ioq)))
<1>1. ASSUME IoStep PROVE Grew(Tail(ioq))
  <2>1. ASSUME NEW ec, handleRxError(ec) PROVE Grew(Tail(ioq))
    BY <2>1, Rearmed DEF handleRxError, Grew
  <2>2. ASSUME NEW op, RunLifecycle(op) PROVE Grew(Tail(ioq))
    BY <2>2, Rearmed
    DEF RunLifecycle, Effect, JoinEffect, LeaveEffect, StopEffect, Grew
  <2>3. ASSUME got_handshake_reply \/ got_message_header PROVE Grew(Tail(ioq))
    <3>1. \/ AsyncRead("got_message_header", Tail(ioq))
          \/ AsyncRead("got_message_body", Tail(ioq))
          \/ ioq' = Tail(ioq)
          \/ handleRxError(Head(ioq).ec)
      BY <2>3 DEF got_handshake_reply, got_message_header
    <3>2. ASSUME NEW h, AsyncRead(h, Tail(ioq)) PROVE Grew(Tail(ioq))
      BY <3>2, Rearmed
    <3>3. CASE ioq' = Tail(ioq)
      BY <3>3 DEF Grew
    <3> QED  BY <2>1, <3>1, <3>2, <3>3
  <2>4. ASSUME got_message_body PROVE Grew(Tail(ioq))
    <3>1. ASSUME NEW e, Done \/ Throws(e) PROVE Grew(Tail(ioq))
      BY <3>1, Rearmed DEF Done, Throws, Grew
    <3>2. ASSUME got_message PROVE Grew(Tail(ioq))
      BY <3>1, <3>2
      DEF got_message, process_welcome, process_goodbye, process_error,
          process_call_result, process_subscribed, process_unsubscribed, process_event,
          process_registered, process_invocation, process_other, Grew
    <3>3. got_message \/ handleRxError(Head(ioq).ec)
      BY <2>4 DEF got_message_body
    <3> QED  BY <2>1, <3>2, <3>3
  <2>5. ASSUME run_request \/ run_reply PROVE Grew(Tail(ioq))
    BY <2>5 DEF run_request, run_reply, Grew
  <2> QED  BY <1>1, <2>2, <2>3, <2>4, <2>5 DEF IoStep
<1>2. ASSUME Local(IoStep) PROVE Grew(Tail(ioq))
  BY <1>1, <1>2 DEF Local
<1>3. ASSUME Local(CallbackEnds) PROVE Grew(ioq)
  BY <1>3, Rearmed DEF Local, CallbackEnds, CallbackReturns, CallbackThrows, CatchThrows, Grew
<1>4. ASSUME Local(DispatchStep \/ RequestStep \/ ReplyStep) PROVE Grew(ioq)
  BY <1>4
  DEF Local, DispatchStep, RequestStep, ReplyStep, Dispatch, DrawOnThread, RequestInline,
      Reply, ReplyReturns, ReplyInline, Grew
<1>5. ASSUME MainStep PROVE Grew(ioq)
  BY <1>5 DEF MainStep, start, Ask, Grew
<1>6. ASSUME Delivers \/ LinkLost \/ EofRead PROVE Grew(ioq)
  BY <1>6 DEF Delivers, LinkLost, EofRead, ReadCompletes, vars, Grew
<1>7. ASSUME RouterReads \/ RouterPushes \/ RouterGoodbye \/ \E i \in Ids : RouterAnswers(i)
      PROVE  Grew(ioq)
  BY <1>7 DEF RouterReads, RouterPushes, RouterGoodbye, RouterAnswers, vars, Grew
<1>8. ASSUME Finished PROVE Grew(ioq)
  BY <1>8 DEF Finished, rvars, vars, Grew
<1>9. CASE Local(IoStep \/ CallbackEnds)
  BY <1>2, <1>3, <1>9 DEF Local
<1> QED  BY <1>4, <1>5, <1>6, <1>7, <1>8, <1>9 DEF RNext

LEMMA QueueKept ==
    ASSUME RunInv, RNext, NEW h \in Elems(ioq)
    PROVE  \/ h \in Elems(ioq')
           \/ Local(IoStep) /\ ioq # <<>> /\ h = Head(ioq)
<1>1. ioq \in Seq(Handler)
  BY RunTypes
<1>2. ioq # <<>> /\ Tail(ioq) \in Seq(Handler) /\ (h = Head(ioq) \/ h \in Elems(Tail(ioq)))
  BY <1>1, ElemsLeft
<1>3. ASSUME NEW q \in Seq(Handler), h \in Elems(q), Grew(q) PROVE h \in Elems(ioq')
  BY <1>3, ElemsGrow DEF Grew
<1> QED  BY <1>1, <1>2, <1>3, QueueStep

\* What was written stays.
LEMMA OutKept ==
    ASSUME RunInv, RNext
    PROVE  /\ \A n \in DOMAIN out : n \in DOMAIN out' /\ out'[n] = out[n]
           /\ Len(out) \in Nat /\ DOMAIN out = 1..Len(out)
           /\ out # <<>> => out' # <<>>
<1>1. Len(out) \in Nat /\ DOMAIN out = 1..Len(out)
  BY RunTypes DEF TypeOK, TypeOut
<1>2. CASE out' = out
  BY <1>1, <1>2
<1>3. ASSUME NEW type, NEW id, NEW arg, out' = Sent(type, id, arg)
      PROVE  /\ \A n \in DOMAIN out : n \in DOMAIN out' /\ out'[n] = out[n]
             /\ out # <<>> => out' # <<>>
  BY <1>3, RunTypes, OutAppend
<1>4. CASE Delivers
  BY <1>2, <1>4 DEF Delivers, ReadCompletes
<1>5. CASE [Next]_vars
  <2>1. out' = out \/ \E type, id, arg : out' = Sent(type, id, arg)
    BY <1>5, OutStep
  <2> QED  BY <1>1, <1>2, <1>3, <2>1
<1> QED  BY <1>4, <1>5, RouterSteps

\* The wire is added to, or its first frame is read.
LEMMA WireStep ==
    ASSUME RNext, ~lost'
    PROVE  \/ wire' = wire \/ \E f : Sends(f)
           \/ /\ read = "got_message_body" /\ wire' = Tail(wire) /\ ~lost
              /\ ReadCompletes("ok", Head(wire))
<1>1. CASE Delivers
  BY <1>1 DEF Delivers
<1>2. CASE LinkLost
  BY <1>2 DEF LinkLost
<1>3. CASE RouterReads \/ RouterPushes \/ RouterGoodbye \/ \E i \in Ids : RouterAnswers(i)
  <2>1. CASE RouterReads
    BY <2>1 DEF RouterReads
  <2>2. CASE RouterPushes \/ RouterGoodbye
    BY <2>2 DEF RouterPushes, RouterGoodbye
  <2>3. ASSUME NEW i, RouterAnswers(i) PROVE \E f : Sends(f)
    BY <2>3 DEF RouterAnswers
  <2> QED  BY <1>3, <2>1, <2>2, <2>3
<1>4. CASE Finished
  BY <1>4 DEF Finished, rvars
<1> QED  BY <1>1, <1>2, <1>3, <1>4 DEF RNext, Local, MainStep, EofRead

\* What is coming has a place.
LEMMA ComingArrives ==
    ASSUME TypeQueue, wire \in Seq(FrameSpace), NEW f
    PROVE  f \in Coming <=> \E n : Arrives(n, f)
<1>1. DOMAIN wire = 1..Len(wire)
  OBVIOUS
<1> QED  BY <1>1 DEF Coming, Arrives, Elems

\* The message at the head of the queue is handled.
Handles(f) ==
    /\ Local(got_message_body) /\ got_message /\ f = Message /\ Arrives(0, f)
    /\ Runs("got_message_body") /\ Head(ioq).ec = "ok"

\* A frame that is coming still comes, or is handled.
LEMMA ComingKept ==
    ASSUME RunInv, RNext, ~lost', NEW f \in Coming
    PROVE  f \in Coming' \/ Handles(f)
<1>1. wire \in Seq(FrameSpace) /\ ioq \in Seq(Handler)
  BY RunTypes
<1>2. CASE f \in Elems(wire)
  <2>1. CASE wire' = wire
    BY <1>2, <2>1 DEF Coming, Elems
  <2>2. ASSUME NEW g, Sends(g) PROVE f \in Elems(wire')
    BY <1>1, <1>2, <2>2, ElemsGrow DEF Sends
  <2>3. CASE /\ read = "got_message_body" /\ wire' = Tail(wire)
             /\ ReadCompletes("ok", Head(wire))
    <3>1. f = Head(wire) \/ f \in Elems(wire')
      BY <1>1, <1>2, <2>3, ElemsLeft
    <3>2. Completion(read, "ok", Head(wire)) \in Elems(ioq')
      BY <1>1, <2>3, ElemsGrow DEF ReadCompletes
    <3>3. /\ IsBody(Completion(read, "ok", Head(wire)))
          /\ Completion(read, "ok", Head(wire)).frame = Head(wire)
      BY <2>3 DEF IsBody, Completion
    <3> QED  BY <3>1, <3>2, <3>3 DEF Coming
  <2>4. f \in Elems(wire') => f \in Coming'
    BY DEF Coming
  <2> QED  BY <2>1, <2>2, <2>3, <2>4, WireStep
<1>3. ASSUME NEW h \in Elems(ioq), IsBody(h), h.frame = f
      PROVE  f \in Coming' \/ Handles(f)
  <2>1. CASE h \in Elems(ioq')
    BY <1>3, <2>1 DEF Coming
  <2>2. CASE Local(IoStep) /\ ioq # <<>> /\ h = Head(ioq)
    <3>1. IoStep => got_message_body
      <4>1. Head(ioq).run = "got_message_body"
        BY <1>3, <2>2 DEF IsBody
      <4> QED
        BY <4>1
        DEF IoStep, RunLifecycle, run_request, run_reply, got_handshake_reply,
            got_message_header, Runs, LifecycleOps
    <3>2. /\ Local(got_message_body) /\ f = Message /\ Head(ioq).ec = "ok" /\ Arrives(0, f)
          /\ Head(ioq).run = "got_message_body"
      BY <1>3, <2>2, <3>1 DEF Local, Message, IsBody, Arrives
    <3>3. Runs("got_message_body") /\ got_message
      BY <3>2 DEF Local, got_message_body
    <3> QED  BY <3>2, <3>3 DEF Handles
  <2> QED  BY <1>3, <2>1, <2>2, QueueKept
<1> QED  BY <1>2, <1>3 DEF Coming

\* What resolved stays resolved.
LEMMA PromisesKept ==
    ASSUME RunInv, RNext
    PROVE  /\ \A i \in Ids : response'[i] = "unset" => response[i] = "unset"
           /\ m_session_join' = "unset" => m_session_join = "unset"
           /\ m_session_leave' = "unset" => m_session_leave = "unset"
<1> DEFINE Kept == /\ \A i \in Ids : response'[i] = "unset" => response[i] = "unset"
                   /\ m_session_join' = "unset" => m_session_join = "unset"
                   /\ m_session_leave' = "unset" => m_session_leave = "unset"
<1>1. ASSUME UNCHANGED <<response, m_session_join, m_session_leave>> PROVE Kept
  BY <1>1
<1>2. ASSUME NEW ec, handleRxError(ec) PROVE Kept
  BY <1>2 DEF handleRxError
<1>3. ASSUME got_message PROVE Kept
  <2>1. ASSUME NEW id, NEW v \in {"value", "error"}, response' = [response EXCEPT ![id] = v]
        PROVE  \A i \in Ids : response'[i] = "unset" => response[i] = "unset"
    BY <2>1, RunTypes DEF TypeOK, TypeRequests
  <2>2. CASE process_welcome \/ process_goodbye
    BY <2>2 DEF process_welcome, process_goodbye
  <2>3. CASE process_event \/ process_invocation \/ process_other
    BY <1>1, <2>3 DEF process_event, process_invocation, process_other, promises
  <2>4. CASE \/ process_error \/ process_call_result \/ process_subscribed
             \/ process_unsubscribed \/ process_registered
    <3>1. /\ UNCHANGED promises
          /\ \/ response' = response
             \/ response' = [response EXCEPT ![Message.id] = "value"]
             \/ response' = [response EXCEPT ![Message.id] = "error"]
      BY <2>4
      DEF process_error, process_call_result, process_subscribed, process_unsubscribed,
          process_registered
    <3>2. \A i \in Ids : response'[i] = "unset" => response[i] = "unset"
      BY <2>1, <3>1
    <3> QED  BY <3>1, <3>2 DEF promises
  <2> QED  BY <1>3, <2>2, <2>3, <2>4 DEF got_message
<1>4. ASSUME IoStep PROVE Kept
  <2>1. ASSUME NEW op, RunLifecycle(op) PROVE Kept
    BY <1>1, <2>1 DEF RunLifecycle
  <2>2. CASE run_request \/ run_reply
    BY <1>1, <2>2 DEF run_request, run_reply, promises
  <2>3. CASE got_handshake_reply
    BY <1>1, <2>3 DEF got_handshake_reply
  <2>4. CASE got_message_header
    BY <1>1, <1>2, <2>4 DEF got_message_header, promises
  <2>5. CASE got_message_body
    BY <1>2, <1>3, <2>5 DEF got_message_body
  <2> QED  BY <1>4, <2>1, <2>2, <2>3, <2>4, <2>5 DEF IoStep
<1>5. ASSUME CallbackEnds \/ DispatchStep \/ RequestStep \/ ReplyStep PROVE Kept
  BY <1>1, <1>5
  DEF CallbackEnds, CallbackReturns, CallbackThrows, CatchThrows, DispatchStep, RequestStep, ReplyStep,
      Dispatch, DrawOnThread, RequestInline, Reply, ReplyReturns, ReplyInline, promises
<1>6. ASSUME MainStep PROVE Kept
  BY <1>1, <1>6 DEF MainStep, start, Ask, promises
<1>7. ASSUME Delivers \/ LinkLost \/ EofRead PROVE Kept
  BY <1>1, <1>7 DEF Delivers, LinkLost, EofRead, ReadCompletes, promises, vars
<1>8. ASSUME RouterReads \/ RouterPushes \/ RouterGoodbye \/ \E i \in Ids : RouterAnswers(i)
      PROVE  Kept
  BY <1>1, <1>8 DEF RouterReads, RouterPushes, RouterGoodbye, RouterAnswers, promises, vars
<1>9. ASSUME Finished PROVE Kept
  BY <1>1, <1>9 DEF Finished, rvars, promises, vars
<1>10. ASSUME Local(IoStep \/ CallbackEnds) PROVE Kept
  BY <1>4, <1>5, <1>10 DEF Local
<1>11. ASSUME Local(DispatchStep \/ RequestStep \/ ReplyStep) PROVE Kept
  BY <1>5, <1>11 DEF Local
<1> HIDE DEF Kept
<1>12. Kept
  BY <1>6, <1>7, <1>8, <1>9, <1>10, <1>11 DEF RNext
<1> QED  BY <1>12 DEF Kept

\* Request ids are drawn by a thread or a callback, and dispatched by the thread.
LEMMA RequestsDrawn ==
    ASSUME RunInv, RNext
    PROVE  \/ UNCHANGED <<thread, request>>
           \/ request' = request /\ \E t \in Threads : Dispatch(t)
           \/ \E op \in Ops : \E sub \in Argument(op) :
                 RequestInline(op, sub) \/ \E t \in Threads : DrawOnThread(t, op, sub)
<1>1. CASE Delivers
  BY <1>1 DEF Delivers, ReadCompletes, app
<1>2. CASE [Next]_vars
  <2>1. Calm \/ run_request => UNCHANGED <<thread, request>>
    BY DEF Calm, run_request, app
  <2>2. \A t \in Threads : Dispatch(t) => request' = request
    BY DEF Dispatch
  <2> QED  BY <1>2, <2>1, <2>2, CalmSteps, RunTypes
<1> QED  BY <1>1, <1>2, RouterSteps

\* The id that is drawn is a new one.
LEMMA NewId ==
    ASSUME RunInv, NEW op, NEW sub,
           RequestInline(op, sub) \/ \E t \in Threads : DrawOnThread(t, op, sub)
    PROVE  /\ m_request_id + 1 \in Ids /\ ~OnWire(RequestOps, out, m_request_id + 1)
           /\ request'[m_request_id + 1].op = op
           /\ \A i \in Ids : i # m_request_id + 1 => request'[i] = request[i]
<1>1. Draw(op, sub)
  BY DEF RequestInline, DrawOnThread
<1>2. m_request_id + 1 \in Ids /\ ~Spent(m_request_id + 1)
  BY <1>1, RunTypes, NextId DEF Draw
<1> QED  BY <1>1, <1>2, RunTypes DEF Draw, Spent, TypeOK, TypeRequests

\* Only the router reads, and it alone owes and answers.
LEMMA RouterStill ==
    ASSUME RNext, ~RouterReads, \A i \in Ids : ~RouterAnswers(i)
    PROVE  UNCHANGED <<seen, owed>>
  BY DEF RNext, Local, MainStep, Delivers, LinkLost, EofRead, RouterPushes, RouterGoodbye,
         Finished, rvars, peer

\* A request goes out as what it was drawn for.
SentAs == \A n \in DOMAIN out : out[n].type \in RequestOps => request[out[n].id].op = out[n].type

LEMMA SentAsNext == ASSUME RunInv, SentAs, RNext PROVE SentAs'
<1>1. ASSUME NEW i, OnWire(RequestOps, out, i) PROVE request'[i] = request[i]
  <2>1. i \in Ids
    BY <1>1 DEF RunInv, RouterInv, WireInv
  <2> QED  BY <1>1, <2>1, RequestsDrawn, NewId
<1>2. \A n \in DOMAIN out : out[n].type \in RequestOps => request'[out[n].id].op = out[n].type
  BY <1>1 DEF SentAs, OnWire
<1>3. CASE out' = out
  BY <1>2, <1>3 DEF SentAs
<1>4. ASSUME NEW type, NEW id, NEW arg, out' = Sent(type, id, arg),
             type \in RequestOps => request'[id].op = type
      PROVE  SentAs'
  <2>1. \A n \in DOMAIN out' : \/ n \in DOMAIN out /\ out'[n] = out[n]
                               \/ out'[n].type = type /\ out'[n].id = id
    BY <1>4, RunTypes, OutAppend
  <2> QED  BY <1>2, <1>4, <2>1 DEF SentAs
<1>5. CASE Delivers
  BY <1>3, <1>5 DEF Delivers, ReadCompletes
<1>6. CASE [Next]_vars
  <2>1. ASSUME NEW type \in {"HELLO", "GOODBYE", "REPLY"}, NEW id, NEW arg,
               out' = Sent(type, id, arg)
        PROVE  SentAs'
    BY <1>4, <2>1 DEF RequestOps
  <2>2. CASE run_request /\ out' = Sent(request[Head(ioq).id].op, Head(ioq).id,
                                        request[Head(ioq).id].sub)
    <3>1. request' = request
      BY <2>2 DEF run_request, app
    <3> QED  BY <1>4, <2>2, <3>1
  <2>3. ASSUME NEW op \in RequestOps, NEW sub, RequestInline(op, sub),
               out' = Sent(op, m_request_id + 1, sub)
        PROVE  SentAs'
    BY <1>4, <2>3, NewId
  <2> QED  BY <1>3, <1>6, <2>1, <2>2, <2>3, OutStep
<1> QED  BY <1>5, <1>6, RouterSteps
-----------------------------------------------------------------------------
(***************************************************************************)
(* Where a request is                                                      *)
(***************************************************************************)

\* A request whose promise is to be set.
Owing(i) == /\ request[i].op \in (RequestOps \ {"PUBLISH"}) \ (RouterErrors \ {"CALL"})
            /\ response[i] = "unset"

\* A session in use was in use, and is joined when it has requests.
LEMMA Using ==
    ASSUME RunInv, RNext, InUse'
    PROVE  /\ InUse /\ ~lost /\ router # "quit"
           /\ m_session_join # "unset" => m_session_id # 0 /\ ~m_stopped
           /\ router # "left"
<1>1. ~lost /\ router # "quit"
  BY PeerNext DEF InUse
<1>2. main \notin {"leave", "stop"}
  BY DEF InUse, RNext, Local, MainStep, Delivers, LinkLost, EofRead, RouterReads,
         RouterPushes, RouterGoodbye, RouterAnswers, Finished, rvars
<1>3. InUse
  BY <1>1, <1>2 DEF InUse, RunInv
<1>4. main \in LifecycleOps \cup {"none", "start"} /\ m_session_join \in {"unset", "value"}
  BY DEF RunInv, RouterInv, WireInv, RTypeOK, TypeOK, TypeLife
<1>5. ASSUME m_session_join # "unset" PROVE m_session_id # 0 /\ ~m_stopped
  <2>1. main = "join" /\ m_session_join = "value"
    BY <1>2, <1>4, <1>5, Joined DEF LifecycleOps
  <2>2. m_session_id # 0
    BY <1>1, <2>1, RunTypes DEF ProgramInv
  <2> QED  BY <2>2, Joined
<1>6. router # "left"
  <2>1. router = "left" => m_goodbye_sent
    BY <1>1, RunTypes DEF FramesInv
  <2> QED  BY <1>1, <1>2, <2>1, RunTypes DEF ProgramInv
<1> QED  BY <1>1, <1>3, <1>5, <1>6

\* What is written is unread.
LEMMA SentUnread ==
    ASSUME RunInv, ~m_stopped, seen' = seen, NEW type, NEW id, NEW arg,
           out' = Sent(type, id, arg)
    PROVE  \E m \in Unread' : m.type = type /\ m.id = id
<1> DEFINE m == [type |-> type, id |-> id, arg |-> arg]
<1>1. out' = Append(out, m)
  BY DEF Sent
<1>2. m.type = type /\ m.id = id
  OBVIOUS
<1> HIDE DEF m
<1>3. Len(out) \in Nat /\ Len(out') = Len(out) + 1 /\ out'[Len(out) + 1] = m
  BY <1>1, RunTypes DEF TypeOK, TypeOut
<1>4. seen \in 0..Len(out)
  BY DEF RunInv, RouterInv, WireInv, RTypeOK
<1>5. Len(out) + 1 \in seen' + 1 .. Len(out')
  BY <1>3, <1>4
<1> QED  BY <1>2, <1>3, <1>5 DEF Unread

\* What is unread stays so, or is what the router reads.
LEMMA UnreadKept ==
    ASSUME RunInv, RNext, NEW m \in Unread
    PROVE  m \in Unread' \/ (RouterReads /\ m = out[seen + 1] /\ seen < Len(out))
<1>1. PICK n \in seen + 1 .. Len(out) : m = out[n]
  BY DEF Unread
<1>2. /\ seen \in Nat /\ Len(out) \in Nat /\ n \in DOMAIN out
  <2>1. seen \in 0..Len(out) /\ out \in Seq(Messages)
    BY RunTypes DEF RunInv, RouterInv, WireInv, RTypeOK, TypeOK, TypeOut
  <2> QED  BY <1>1, <2>1
<1>3. n \in DOMAIN out' /\ out'[n] = out[n]
  BY <1>2, OutKept
<1>4. out' \in Seq(Messages)
  <2>1. RouterInv'
    BY RouterNext DEF RunInv
  <2> QED  BY <2>1 DEF RouterInv, WireInv, RTypeOK, TypeOK, TypeOut
<1>5. n \in 1..Len(out')
  BY <1>3, <1>4
<1>6. CASE seen' = seen
  <2>1. n \in seen' + 1 .. Len(out')
    BY <1>1, <1>2, <1>5, <1>6
  <2> QED  BY <1>1, <1>3, <2>1 DEF Unread
<1>7. CASE RouterReads
  <2>1. seen' = seen + 1 /\ seen < Len(out)
    BY <1>7 DEF RouterReads
  <2>2. n = seen + 1 \/ n \in seen' + 1 .. Len(out')
    BY <1>1, <1>2, <1>5, <2>1
  <2> QED  BY <1>1, <1>3, <1>7, <2>1, <2>2 DEF Unread
<1>8. seen' = seen \/ RouterReads
  BY RouterStill DEF RouterAnswers
<1> QED  BY <1>6, <1>7, <1>8

\* A thread goes on to dispatch what it has drawn.
LEMMA PlaceThread ==
    ASSUME RunInv, RNext, NEW i \in Ids, NEW t \in Threads, thread[t] = i
    PROVE  HasPlace(i)'
<1>1. i # 0
  BY IdsNat
<1>2. CASE thread' = thread
  BY <1>2 DEF HasPlace
<1>3. ASSUME NEW u \in Threads, Dispatch(u) PROVE HasPlace(i)'
  <2>1. CASE u = t
    <3>1. ioq' = Append(ioq, Lambda("request", i))
      BY <1>3, <2>1 DEF Dispatch
    <3>2. Lambda("request", i) \in Elems(ioq')
      BY <3>1, RunTypes, ElemsGrow
    <3>3. Lambda("request", i).run = "request" /\ Lambda("request", i).id = i
      BY DEF Lambda
    <3> QED  BY <3>2, <3>3 DEF HasPlace
  <2>2. CASE u # t
    <3>1. thread'[t] = i
      BY <1>3, <2>2 DEF Dispatch
    <3> QED  BY <3>1 DEF HasPlace
  <2> QED  BY <2>1, <2>2
<1>4. ASSUME NEW op, NEW sub, NEW u \in Threads, DrawOnThread(u, op, sub) PROVE HasPlace(i)'
  <2>1. thread'[t] = i
    BY <1>1, <1>4 DEF DrawOnThread
  <2> QED  BY <2>1 DEF HasPlace
<1>5. ASSUME NEW op, NEW sub, RequestInline(op, sub) PROVE HasPlace(i)'
  <2>1. thread' = thread
    BY <1>5 DEF RequestInline
  <2> QED  BY <1>2, <2>1
<1>6. \/ thread' = thread
      \/ \E u \in Threads : Dispatch(u)
      \/ \E op, sub : RequestInline(op, sub) \/ \E u \in Threads : DrawOnThread(u, op, sub)
  BY RequestsDrawn
<1> QED  BY <1>2, <1>3, <1>4, <1>5, <1>6

\* A queued lambda writes the request.
LEMMA PlaceQueue ==
    ASSUME RunInv, RNext, InUse', NEW i \in Ids, Owing(i),
           NEW h \in Elems(ioq), h.run = "request", h.id = i
    PROVE  HasPlace(i)'
<1>1. CASE h \in Elems(ioq')
  BY <1>1 DEF HasPlace
<1>2. CASE Local(IoStep) /\ ioq # <<>> /\ h = Head(ioq)
  <2>1. run_request
    BY <1>2
    DEF Local, IoStep, RunLifecycle, run_reply, got_handshake_reply, got_message_header,
        got_message_body, Runs, LifecycleOps
  <2>2. InQueue("request")
    BY DEF InQueue
  <2>3. m_session_id # 0 /\ ~m_stopped
    BY <2>2, Using, Joined
  <2>4. out' = Sent(request[i].op, i, request[i].sub)
    BY <1>2, <2>1, <2>3 DEF run_request, EmplaceAndSend
  <2>5. seen' = seen
    BY <1>2 DEF Local, peer
  <2>6. \E m \in Unread' : m.type = request[i].op /\ m.id = i
    BY <2>3, <2>4, <2>5, SentUnread
  <2> QED  BY <2>6 DEF HasPlace, Owing
<1> QED  BY <1>1, <1>2, QueueKept

\* The router reads a request, and owes an answer.
LEMMA PlaceUnread ==
    ASSUME RunInv, SentAs, RNext, InUse', NEW i \in Ids, Owing(i),
           NEW m \in Unread, m.type \in RequestOps, m.id = i
    PROVE  HasPlace(i)'
<1>1. CASE m \in Unread'
  BY <1>1 DEF HasPlace
<1>2. CASE RouterReads /\ m = out[seen + 1] /\ seen < Len(out)
  <2>1. seen + 1 \in DOMAIN out
    <3>1. seen \in 0..Len(out) /\ out \in Seq(Messages)
      BY RunTypes DEF RunInv, RouterInv, WireInv, RTypeOK, TypeOK, TypeOut
    <3> QED  BY <1>2, <3>1
  <2>2. m.type # "PUBLISH"
    BY <1>2, <2>1 DEF SentAs, Owing
  <2>3. m.type \notin {"HELLO", "GOODBYE", "REPLY"}
    BY DEF RequestOps
  <2>4. router \notin {"left", "quit"}
    BY Using
  <2>5. owed' = owed \cup {i}
    BY <1>2, <2>2, <2>3, <2>4 DEF RouterReads
  <2> QED  BY <2>5 DEF HasPlace
<1> QED  BY <1>1, <1>2, UnreadKept

\* It answers, and the answer is on the wire.
LEMMA PlaceOwed ==
    ASSUME RunInv, RNext, NEW i \in owed
    PROVE  HasPlace(i)'
<1>1. CASE RouterReads
  BY <1>1 DEF RouterReads, HasPlace
<1>2. ASSUME NEW j \in Ids, RouterAnswers(j) PROVE HasPlace(i)'
  <2>1. CASE j # i
    BY <1>2, <2>1 DEF RouterAnswers, HasPlace
  <2>2. CASE j = i
    <3>1. \E type, arg : Sends(Frame(type, i, arg))
      BY <1>2, <2>2 DEF RouterAnswers
    <3>2. PICK type, arg : wire' = Append(wire, Frame(type, i, arg))
      BY <3>1 DEF Sends
    <3>3. Frame(type, i, arg) \in Elems(wire') /\ Frame(type, i, arg).id = i
      BY <3>2, RunTypes, ElemsGrow, FrameParts
    <3> QED  BY <3>3 DEF HasPlace, Coming
  <2> QED  BY <2>1, <2>2
<1>3. owed' = owed => HasPlace(i)'
  BY DEF HasPlace
<1> QED  BY <1>1, <1>2, <1>3, RouterStill

\* An answer that is handled is the router's to a request that waits for it.
LEMMA PlaceComing ==
    ASSUME RunInv, RNext, InUse', NEW i \in Ids, Owing(i), Owing(i)',
           NEW f \in Coming, f.id = i
    PROVE  HasPlace(i)'
<1>1. ~lost'
  BY DEF InUse
<1>2. CASE f \in Coming'
  BY <1>2 DEF HasPlace
<1>3. CASE Handles(f)
  <2>1. got_message /\ f = Message /\ Arrives(0, f)
    BY <1>3 DEF Handles
  <2>2. f \in FrameSpace /\ f.shape = "ok"
    BY <2>1, RunTypes, WireDomain DEF FramesInv
  <2>3. IsAnswer(f)
    BY <2>2, IdsNat DEF FrameSpace, IsAnswer
  <2>4. Open(i) /\ Fits(f)
    BY <2>1, <2>3, RunTypes DEF AnswersInv
  <2>5. f.type # "OTHER_ERROR"
    BY <2>4 DEF Fits, Owing
  <2>6. response[i] = "unset" /\ response'[i] = "unset" /\ response \in [Ids -> {"unset", "value", "error"}]
    BY RunTypes DEF Owing, TypeOK, TypeRequests
  <2>7. CASE f.type \in {"RESULT", "CALL_ERROR"}
    <3>1. i \in m_calls
      BY <2>4, <2>7 DEF Open, Fits
    <3>2. process_call_result \/ process_error
      BY <2>1, <2>7
      DEF got_message, process_welcome, process_goodbye, process_subscribed,
          process_unsubscribed, process_event, process_registered, process_invocation,
          process_other
    <3>3. response' = [response EXCEPT ![i] = "value"] \/ response' = [response EXCEPT ![i] = "error"]
      BY <2>1, <2>2, <2>5, <2>6, <3>1, <3>2 DEF process_call_result, process_error
    <3> QED  BY <2>6, <3>3
  <2>8. CASE f.type \in {"SUBSCRIBED", "UNSUBSCRIBED", "REGISTERED"}
    <3>1. /\ f.type = "SUBSCRIBED" => i \in m_subscribe_requests
          /\ f.type = "UNSUBSCRIBED" => i \in m_unsubscribe_requests
          /\ f.type = "REGISTERED" => i \in m_register_requests
      BY <2>4 DEF Open, Fits
    <3>2. process_subscribed \/ process_unsubscribed \/ process_registered
      BY <2>1, <2>8
      DEF got_message, process_welcome, process_goodbye, process_error, process_call_result,
          process_event, process_invocation, process_other
    <3>3. response' = [response EXCEPT ![i] = "value"]
      BY <2>1, <2>2, <3>1, <3>2
      DEF process_subscribed, process_unsubscribed, process_registered
    <3> QED  BY <2>6, <3>3
  <2> QED  BY <2>3, <2>5, <2>7, <2>8 DEF IsAnswer
<1> QED  BY <1>1, <1>2, <1>3, ComingKept

\* A request that is drawn has a place at once.
LEMMA PlaceDrawn ==
    ASSUME RunInv, RNext, InUse', NEW op \in Ops, NEW sub,
           NEW id, id = m_request_id + 1,
           RequestInline(op, sub) \/ \E t \in Threads : DrawOnThread(t, op, sub)
    PROVE  HasPlace(id)'
<1>1. ASSUME NEW t \in Threads, DrawOnThread(t, op, sub) PROVE HasPlace(id)'
  <2>1. thread'[t] = m_request_id'
    BY <1>1, RunTypes DEF DrawOnThread, TypeOK, TypeRequests
  <2>2. m_request_id' = id
    BY <1>1 DEF DrawOnThread, Draw
  <2> QED  BY <2>1, <2>2 DEF HasPlace
<1>2. CASE RequestInline(op, sub)
  <2>1. m_session_id # 0 /\ ~m_stopped
    BY <1>2, Using, Joined DEF RequestInline
  <2>2. out' = Sent(op, id, sub)
    BY <1>2, <2>1 DEF RequestInline, EmplaceAndSend
  <2>3. seen' = seen
    <3>1. m_request_id' # m_request_id
      <4>1. m_request_id' = m_request_id + 1
        BY <1>2 DEF RequestInline, Draw
      <4> QED  BY <4>1, RunTypes DEF TypeOK, TypeRequests
    <3>2. ~RouterReads
      BY <3>1 DEF RouterReads, vars, app
    <3>3. \A i \in Ids : ~RouterAnswers(i)
      BY <3>1 DEF RouterAnswers, vars, app
    <3> QED  BY <3>2, <3>3, RouterStill
  <2>4. \E m \in Unread' : m.type = op /\ m.id = id
    BY <2>1, <2>2, <2>3, SentUnread
  <2>5. op \in RequestOps
    BY UseAssumption
  <2> QED  BY <2>4, <2>5 DEF HasPlace
<1> QED  BY <1>1, <1>2

\* As long as the session is in use every request has a place.
LEMMA AccountedNext ==
    ASSUME RunInv, SentAs, RequestsAccounted, RNext
    PROVE  RequestsAccounted'
<1>1. RequestsAccounted <=> (InUse => \A i \in Ids : Owing(i) => HasPlace(i))
  BY DEF RequestsAccounted, Owing
<1>2. RequestsAccounted' <=> (InUse' => \A i \in Ids : Owing(i)' => HasPlace(i)')
  BY DEF RequestsAccounted, Owing
<1>3. SUFFICES ASSUME InUse', NEW i \in Ids, Owing(i)' PROVE HasPlace(i)'
  BY <1>2
<1>4. CASE request'[i] = request[i]
  <2>1. Owing(i)
    BY <1>3, <1>4, PromisesKept DEF Owing
  <2>2. HasPlace(i)
    BY <1>1, <1>3, <2>1, Using
  <2> QED
    BY <1>3, <2>1, <2>2, PlaceThread, PlaceQueue, PlaceUnread, PlaceOwed, PlaceComing
    DEF HasPlace
<1>5. CASE request'[i] # request[i]
  <2>1. PICK op, sub :
          /\ op \in Ops
          /\ RequestInline(op, sub) \/ \E t \in Threads : DrawOnThread(t, op, sub)
    BY <1>5, RequestsDrawn
  <2>2. i = m_request_id + 1
    BY <1>5, <2>1, NewId
  <2> QED  BY <1>3, <2>1, <2>2, PlaceDrawn
<1> QED  BY <1>4, <1>5
-----------------------------------------------------------------------------
(***************************************************************************)
(* Where a HELLO, a WELCOME and a GOODBYE are                              *)
(***************************************************************************)

\* A router that is closed has read nothing, one that is joined no GOODBYE, and one
\* that has left or quit has sent its own.
HelloUnread == router = "closed" => seen = 0
GoodbyeUnread == router = "joined" => \A n \in 1..seen : out[n].type # "GOODBYE"
GoodbyeComes ==
    m_session_leave = "unset" /\ router \in {"left", "quit"} =>
        \E f \in Coming : f.type = "GOODBYE"

\* What join() and leave() say is said when their lambda has run.
HelloSaid == main = "join" => InQueue("join") \/ out # <<>>
GoodbyeSaid == m_goodbye_sent => Said("GOODBYE")

HandshakesInv ==
    io = "running" /\ ~lost =>
        HelloUnread /\ GoodbyeUnread /\ GoodbyeComes /\ HelloSaid /\ GoodbyeSaid

\* What was read is written, and stays.
LEMMA SeenKept ==
    ASSUME RunInv, RNext
    PROVE  /\ seen \in Nat /\ \A n \in 1..seen : n \in DOMAIN out /\ out'[n] = out[n]
           /\ seen' = seen \/ RouterReads
<1>1. seen \in 0..Len(out) /\ out \in Seq(Messages)
  BY RunTypes DEF RunInv, RouterInv, WireInv, RTypeOK, TypeOK, TypeOut
<1>2. seen \in Nat /\ \A n \in 1..seen : n \in DOMAIN out
  BY <1>1
<1> QED  BY <1>2, OutKept, RouterStill DEF RouterAnswers

\* What the router does when it reads.
LEMMA ReadsStep ==
    ASSUME RunInv, RouterReads
    PROVE  /\ seen' = seen + 1 /\ seen + 1 \in DOMAIN out /\ out' = out
           /\ router' # "closed"
           /\ router' = "joined" => /\ out[seen + 1].type # "GOODBYE"
                                    /\ router \in {"closed", "joined"}
           /\ router' \in {"left", "quit"} =>
                 router' = router \/ Sends(Frame("GOODBYE", 0, 0))
<1>1. seen \in 0..Len(out) /\ out \in Seq(Messages)
  BY RunTypes DEF RunInv, RouterInv, WireInv, RTypeOK, TypeOK, TypeOut
<1>2. seen' = seen + 1 /\ seen + 1 \in DOMAIN out /\ out' = out
  BY <1>1 DEF RouterReads, vars
<1>3. router = "closed" => out[seen + 1].type = "HELLO"
  BY <1>2, RunTypes DEF FramesInv, ProgramInv, Unjoined
<1>4. router \in {"closed", "joined", "left", "quit"}
  BY DEF RunInv, RouterInv, WireInv, RTypeOK
<1>5. CASE router = "closed"
  <2>1. router' = "joined"
    BY <1>3, <1>5 DEF RouterReads, RequestOps
  <2> QED  BY <1>2, <1>3, <1>5, <2>1
<1>6. CASE router = "joined"
  <2>1. \/ router' = "left" /\ Sends(Frame("GOODBYE", 0, 0))
        \/ router' = "joined" /\ out[seen + 1].type # "GOODBYE"
    BY <1>6 DEF RouterReads, RequestOps
  <2> QED  BY <1>2, <1>6, <2>1
<1>7. CASE router \in {"left", "quit"}
  BY <1>2, <1>7 DEF RouterReads
<1> QED  BY <1>4, <1>5, <1>6, <1>7

\* The state of the router changes when it reads and when it closes the session.
LEMMA RouterState ==
    ASSUME RNext
    PROVE  router' = router \/ RouterReads \/ RouterGoodbye
  BY DEF RNext, Local, MainStep, Delivers, LinkLost, EofRead, RouterPushes, RouterAnswers,
         Finished, rvars, peer

LEMMA HelloUnreadNext ==
    ASSUME RunInv, HelloUnread, RNext PROVE HelloUnread'
<1>1. RouterReads => router' # "closed"
  BY ReadsStep
<1>2. RouterGoodbye => router' # "closed"
  BY DEF RouterGoodbye
<1> QED  BY <1>1, <1>2, RouterState, SeenKept DEF HelloUnread

LEMMA GoodbyeUnreadNext ==
    ASSUME RunInv, HelloUnread, GoodbyeUnread, RNext PROVE GoodbyeUnread'
<1>1. CASE RouterReads
  <2>1. SUFFICES ASSUME router' = "joined", NEW n \in 1..seen + 1
                 PROVE  out[n].type # "GOODBYE"
    BY <1>1, ReadsStep DEF GoodbyeUnread
  <2>2. router \in {"closed", "joined"} /\ out[seen + 1].type # "GOODBYE"
    BY <1>1, <2>1, ReadsStep
  <2>3. n = seen + 1 \/ n \in 1..seen
    BY SeenKept
  <2>4. router = "closed" => n = seen + 1
    BY <2>3, SeenKept DEF HelloUnread
  <2> QED  BY <2>2, <2>3, <2>4 DEF GoodbyeUnread
<1>2. CASE ~RouterReads
  <2>1. seen' = seen /\ \A n \in 1..seen : out'[n] = out[n]
    BY <1>2, SeenKept
  <2>2. router' = "joined" => router = "joined"
    BY <1>2, RouterState DEF RouterGoodbye
  <2> QED  BY <2>1, <2>2 DEF GoodbyeUnread
<1> QED  BY <1>1, <1>2

LEMMA GoodbyeComesNext ==
    ASSUME RunInv, GoodbyeComes, RNext, ~lost' PROVE GoodbyeComes'
<1>1. SUFFICES ASSUME m_session_leave' = "unset", router' \in {"left", "quit"}
               PROVE  \E f \in Coming' : f.type = "GOODBYE"
  BY DEF GoodbyeComes
<1>2. m_session_leave = "unset"
  BY <1>1, PromisesKept
<1>3. CASE router \in {"left", "quit"}
  <2>1. PICK f \in Coming : f.type = "GOODBYE"
    BY <1>2, <1>3 DEF GoodbyeComes
  <2>2. CASE Handles(f)
    <3>1. got_message /\ f = Message /\ Arrives(0, f)
      BY <2>2 DEF Handles
    <3>2. f.shape = "ok"
      BY <3>1, RunTypes DEF FramesInv
    <3>3. process_goodbye
      BY <2>1, <3>1
      DEF got_message, process_welcome, process_error, process_call_result,
          process_subscribed, process_unsubscribed, process_event, process_registered,
          process_invocation, process_other
    <3>4. m_session_leave' = "peer"
      BY <1>2, <3>1, <3>2, <3>3 DEF process_goodbye
    <3> QED  BY <1>1, <3>4
  <2> QED  BY <2>1, <2>2, ComingKept
<1>4. ASSUME Sends(Frame("GOODBYE", 0, 0)) PROVE \E f \in Coming' : f.type = "GOODBYE"
  <2>1. Frame("GOODBYE", 0, 0) \in Elems(wire')
    BY <1>4, RunTypes, ElemsGrow DEF Sends
  <2>2. Frame("GOODBYE", 0, 0) \in Coming'
    BY <2>1 DEF Coming
  <2> QED  BY <2>2, FrameParts
<1>5. CASE router \notin {"left", "quit"}
  <2>1. RouterReads => Sends(Frame("GOODBYE", 0, 0))
    BY <1>1, <1>5, ReadsStep
  <2>2. RouterGoodbye => Sends(Frame("GOODBYE", 0, 0))
    BY DEF RouterGoodbye
  <2> QED  BY <1>1, <1>4, <1>5, <2>1, <2>2, RouterState
<1> QED  BY <1>3, <1>5

\* What is said while the session is not stopped is written.
LEMMA SentSaid ==
    ASSUME RunInv, ~m_stopped, NEW type, NEW id, NEW arg, out' = Sent(type, id, arg)
    PROVE  Said(type)' /\ out' # <<>>
<1> DEFINE m == [type |-> type, id |-> id, arg |-> arg]
<1>1. out' = Append(out, m) /\ m.type = type
  BY DEF Sent
<1> HIDE DEF m
<1>2. /\ Len(out) \in Nat /\ DOMAIN out' = 1..Len(out) + 1 /\ out'[Len(out) + 1] = m
      /\ out' # <<>>
  BY <1>1, RunTypes DEF TypeOK, TypeOut
<1> QED  BY <1>1, <1>2 DEF Said

LEMMA HelloSaidNext ==
    ASSUME RunInv, HelloSaid, RNext, io' = "running" PROVE HelloSaid'
<1>1. SUFFICES ASSUME main' = "join" PROVE InQueue("join")' \/ out' # <<>>
  BY DEF HelloSaid
<1>2. CASE main = "join" /\ out # <<>>
  BY <1>2, OutKept
<1>3. CASE main = "join" /\ InQueue("join")
  <2>1. PICK h \in Elems(ioq) : h.run = "join"
    BY <1>3 DEF InQueue
  <2>2. CASE h \in Elems(ioq')
    BY <2>1, <2>2 DEF InQueue
  <2>3. CASE Local(IoStep) /\ ioq # <<>> /\ h = Head(ioq)
    <3>1. RunLifecycle("join")
      BY <2>1, <2>3
      DEF Local, IoStep, RunLifecycle, run_request, run_reply, got_handshake_reply,
          got_message_header, got_message_body, Runs
    <3>2. out' = Sent("HELLO", 0, 0)
      BY <1>1, <3>1 DEF RunLifecycle, Refusal, JoinRefusal, Escapes, Effect, JoinEffect, RunInv
    <3>3. ~m_stopped
      BY <1>3, RunTypes DEF ProgramInv, Unjoined
    <3> QED  BY <3>2, <3>3, SentSaid
  <2> QED  BY <2>1, <2>2, <2>3, QueueKept
<1>4. CASE main # "join"
  <2>1. main' # main => MainStep
    BY DEF RNext, Local, Delivers, LinkLost, EofRead, RouterReads, RouterPushes,
           RouterGoodbye, RouterAnswers, Finished, rvars
  <2>2. ioq' = Append(ioq, Lambda("join", 0))
    BY <1>1, <1>4, <2>1 DEF MainStep, Ask
  <2>3. Lambda("join", 0) \in Elems(ioq') /\ Lambda("join", 0).run = "join"
    BY <2>2, RunTypes, ElemsGrow DEF Lambda
  <2> QED  BY <2>3 DEF InQueue
<1> QED  BY <1>2, <1>3, <1>4 DEF HelloSaid

\* Over a connection that is up, leave() alone sets m_goodbye_sent.
LEMMA GoodbyeStep ==
    ASSUME RunInv, RNext, ~lost'
    PROVE  m_goodbye_sent' = m_goodbye_sent \/ (RunLifecycle("leave") /\ Refusal("leave") = "none")
<1> DEFINE Same == m_goodbye_sent' = m_goodbye_sent
<1>1. ~lost
  BY PeerNext
<1>2. ASSUME Runs("got_message_header") \/ Runs("got_message_body"),
             Head(ioq).ec # "ok", handleRxError(Head(ioq).ec)
      PROVE  Same
  <2>1. Head(ioq) \in Elems(ioq) /\ Head(ioq) \in Handler /\ IsCompletion(Head(ioq))
    BY <1>2, RunTypes, ElemsTail DEF Runs, IsCompletion, ReadHandlers
  <2>2. Head(ioq).ec = "aborted"
    BY <1>1, <1>2, <2>1, RunTypes, HandlerFields DEF CompletionsInv, ErrorCodes
  <2>3. m_goodbye_sent \in BOOLEAN
    BY RunTypes DEF TypeOK, TypeLife
  <2> QED  BY <1>2, <2>2, <2>3 DEF handleRxError
<1>3. ASSUME IoStep PROVE Same \/ (RunLifecycle("leave") /\ Refusal("leave") = "none")
  <2>1. ASSUME NEW op \in LifecycleOps, RunLifecycle(op)
        PROVE  Same \/ (RunLifecycle("leave") /\ Refusal("leave") = "none")
    BY <2>1 DEF RunLifecycle, Effect, JoinEffect, StopEffect, life
  <2>2. CASE run_request \/ run_reply \/ got_handshake_reply
    BY <2>2 DEF run_request, run_reply, got_handshake_reply, life
  <2>3. CASE got_message_header
    BY <1>2, <2>3 DEF got_message_header, life
  <2>4. ASSUME got_message PROVE Same
    BY <2>4
    DEF got_message, process_welcome, process_goodbye, process_error,
        process_call_result, process_subscribed, process_unsubscribed, process_event,
        process_registered, process_invocation, process_other, life
  <2>5. CASE got_message_body
    BY <1>2, <2>4, <2>5 DEF got_message_body
  <2> QED  BY <1>3, <2>1, <2>2, <2>3, <2>5 DEF IoStep
<1>4. ASSUME CallbackEnds \/ DispatchStep \/ RequestStep \/ ReplyStep PROVE Same
  BY <1>4
  DEF CallbackEnds, CallbackReturns, CallbackThrows, CatchThrows, DispatchStep, RequestStep, ReplyStep,
      Dispatch, DrawOnThread, RequestInline, Reply, ReplyReturns, ReplyInline, life
<1>5. ASSUME MainStep PROVE Same
  BY <1>5 DEF MainStep, start, Ask, life
<1>6. ASSUME Delivers \/ LinkLost \/ EofRead PROVE Same
  BY <1>6 DEF Delivers, LinkLost, EofRead, ReadCompletes, life, vars
<1>7. ASSUME RouterReads \/ RouterPushes \/ RouterGoodbye \/ \E i \in Ids : RouterAnswers(i)
      PROVE  Same
  BY <1>7 DEF RouterReads, RouterPushes, RouterGoodbye, RouterAnswers, life, vars
<1>8. ASSUME Finished PROVE Same
  BY <1>8 DEF Finished, rvars, life, vars
<1>9. ASSUME Local(IoStep \/ CallbackEnds)
      PROVE  Same \/ (RunLifecycle("leave") /\ Refusal("leave") = "none")
  BY <1>3, <1>4, <1>9 DEF Local
<1>10. ASSUME Local(DispatchStep \/ RequestStep \/ ReplyStep) PROVE Same
  BY <1>4, <1>10 DEF Local
<1> QED  BY <1>5, <1>6, <1>7, <1>8, <1>9, <1>10 DEF RNext

LEMMA GoodbyeSaidNext ==
    ASSUME RunInv, GoodbyeSaid, RNext, ~lost' PROVE GoodbyeSaid'
<1>1. Said("GOODBYE") => Said("GOODBYE")'
  BY OutKept DEF Said
<1>2. CASE RunLifecycle("leave") /\ Refusal("leave") = "none"
  <2>1. m_session_id # 0 /\ out' = Sent("GOODBYE", 0, 0)
    BY <1>2 DEF RunLifecycle, Refusal, LeaveRefusal, Effect, LeaveEffect
  <2>2. ~m_stopped
    BY <2>1, Joined
  <2> QED  BY <2>1, <2>2, SentSaid DEF GoodbyeSaid
<1> QED  BY <1>1, <1>2, GoodbyeStep DEF GoodbyeSaid

LEMMA HandshakesNext ==
    ASSUME RunInv, HandshakesInv, RNext PROVE HandshakesInv'
<1>1. SUFFICES ASSUME io' = "running", ~lost'
               PROVE  (HelloUnread /\ GoodbyeUnread /\ GoodbyeComes /\ HelloSaid /\ GoodbyeSaid)'
  BY DEF HandshakesInv
<1>2. HelloUnread /\ GoodbyeUnread /\ GoodbyeComes /\ HelloSaid /\ GoodbyeSaid
  BY <1>1, PeerNext DEF HandshakesInv, RunInv
<1> QED
  BY <1>1, <1>2, HelloUnreadNext, GoodbyeUnreadNext, GoodbyeComesNext, HelloSaidNext,
     GoodbyeSaidNext

\* The first frame that is on its way to a session that is not joined is WELCOME.
LEMMA WelcomeComes ==
    ASSUME RunInv, ~lost, router # "closed", m_session_join = "unset"
    PROVE  \E f \in Coming : f.type = "WELCOME"
<1>1. TypeQueue /\ wire \in Seq(FrameSpace)
  BY RunTypes
<1>2. /\ Len(wire) \in Nat
      /\ \A m, g : Arrives(m, g) => m \in Nat /\ m <= Len(wire)
  BY <1>1, WireDomain
<1>3. PICK n, f : Arrives(n, f)
  BY RunTypes DEF FramesInv, Clear
<1>4. ASSUME NEW g, Arrives(0, g) PROVE g.type = "WELCOME" /\ g \in Coming
  <2>1. \A m, e : Arrives(m, e) => 0 <= m
    BY <1>2
  <2>2. \A m, e : Arrives(m, e) => (e.type = "WELCOME" <=> /\ m_session_join = "unset"
                                                            /\ \A k, d : Arrives(k, d) => m <= k)
    BY RunTypes DEF FramesInv
  <2> QED  BY <1>1, <1>4, <2>1, <2>2, ComingArrives
<1>5. ASSUME \A g : ~Arrives(0, g) PROVE \E g \in Coming : g.type = "WELCOME"
  <2>1. \A m, g : Arrives(m, g) => m \in 1..Len(wire)
    BY <1>5 DEF Arrives
  <2>2. 1 \in 1..Len(wire) /\ \A m \in 1..Len(wire) : 1 <= m
    BY <1>2, <1>3, <2>1
  <2>3. Arrives(1, wire[1])
    BY <2>2 DEF Arrives
  <2>4. wire[1].type = "WELCOME"
    BY <2>1, <2>2, <2>3, RunTypes DEF FramesInv
  <2> QED  BY <1>1, <2>3, <2>4, ComingArrives
<1> QED  BY <1>4, <1>5

LEMMA HandshakesImplies ==
    ASSUME RunInv, HandshakesInv PROVE HandshakesAccounted
<1>1. SUFFICES ASSUME ~lost
               PROVE  /\ main = "join" /\ m_session_join = "unset" =>
                            \/ InQueue("join")
                            \/ router = "closed" /\ \E m \in Unread : m.type = "HELLO"
                            \/ \E f \in Coming : f.type = "WELCOME"
                      /\ main = "leave" /\ m_session_leave = "unset" =>
                            \/ InQueue("leave")
                            \/ router = "joined" /\ \E m \in Unread : m.type = "GOODBYE"
                            \/ \E f \in Coming : f.type = "GOODBYE"
  BY DEF HandshakesAccounted
<1>2. HelloUnread /\ GoodbyeUnread /\ GoodbyeComes /\ HelloSaid /\ GoodbyeSaid
  BY <1>1 DEF HandshakesInv, RunInv
<1>3. seen \in 0..Len(out) /\ Len(out) \in Nat /\ DOMAIN out = 1..Len(out)
      /\ (out = <<>> <=> Len(out) = 0)
      /\ router \in {"closed", "joined", "left", "quit"}
  BY RunTypes DEF RunInv, RouterInv, WireInv, RTypeOK, TypeOK, TypeOut
<1>4. \A n \in DOMAIN out : n \in 1..seen \/ out[n] \in Unread
  BY <1>3 DEF Unread
<1>5. ASSUME main = "join", m_session_join = "unset", ~InQueue("join")
      PROVE  \/ router = "closed" /\ \E m \in Unread : m.type = "HELLO"
             \/ \E f \in Coming : f.type = "WELCOME"
  <2>1. CASE router = "closed"
    <3>1. 1 \in DOMAIN out /\ seen = 0
      BY <1>2, <1>3, <1>5, <2>1 DEF HelloSaid, HelloUnread
    <3>2. out[1].type = "HELLO"
      BY <1>5, <3>1, RunTypes DEF ProgramInv, Unjoined
    <3>3. out[1] \in Unread
      BY <1>4, <3>1
    <3> QED  BY <2>1, <3>2, <3>3
  <2>2. CASE router # "closed"
    BY <1>1, <1>5, <2>2, WelcomeComes
  <2> QED  BY <2>1, <2>2
<1>6. ASSUME main = "leave", m_session_leave = "unset", ~InQueue("leave")
      PROVE  \/ router = "joined" /\ \E m \in Unread : m.type = "GOODBYE"
             \/ \E f \in Coming : f.type = "GOODBYE"
  <2>1. m_goodbye_sent /\ m_session_join # "unset"
    BY <1>6, RunTypes DEF ProgramInv, Unjoined
  <2>2. router # "closed"
    BY <2>1, Joined
  <2>3. CASE router = "joined"
    <3>1. PICK n \in DOMAIN out : out[n].type = "GOODBYE"
      BY <1>2, <2>1 DEF GoodbyeSaid, Said
    <3> QED  BY <1>2, <1>4, <2>3, <3>1 DEF GoodbyeUnread
  <2>4. CASE router \in {"left", "quit"}
    BY <1>2, <1>6, <2>4 DEF GoodbyeComes
  <2> QED  BY <1>3, <2>2, <2>3, <2>4
<1> QED  BY <1>5, <1>6

\* NetInv with where the requests and the handshakes are.
AccountInv == NetInv /\ SentAs /\ RequestsAccounted /\ HandshakesInv

LEMMA AccountNext == AccountInv /\ [RNext]_rvars => AccountInv'
<1> SUFFICES ASSUME AccountInv, [RNext]_rvars PROVE AccountInv'
  OBVIOUS
<1>1. NetInv'
  BY NetNext DEF AccountInv
<1>2. CASE io = "running" /\ RNext
  <2>1. RunInv
    BY <1>2 DEF RunInv, NetInv, AccountInv
  <2> QED  BY <1>1, <1>2, <2>1, SentAsNext, AccountedNext, HandshakesNext DEF AccountInv
<1>3. CASE UNCHANGED rvars
  <2>1. UNCHANGED <<io, lost, router, main, out, seen, owed, wire, ioq, thread, request, response,
                    m_goodbye_sent, m_session_leave>>
    BY <1>3 DEF rvars, vars, peer, app, life, promises
  <2>2. SentAs'
    BY <2>1 DEF AccountInv, SentAs
  <2>3. (Coming' = Coming) /\ (Unread' = Unread)
    BY <2>1 DEF Coming, Unread, Elems
  <2>4. \A run : InQueue(run)' <=> InQueue(run)
    BY <2>1 DEF InQueue, Elems
  <2>5. HandshakesInv'
    BY <2>1, <2>3, <2>4
    DEF AccountInv, HandshakesInv, HelloUnread, GoodbyeUnread, GoodbyeComes, HelloSaid,
        GoodbyeSaid, Said
  <2>6. (InUse' <=> InUse) /\ \A i : HasPlace(i) => HasPlace(i)'
    BY <2>1, <2>3 DEF InUse, HasPlace, Elems
  <2>7. RequestsAccounted'
    BY <2>1, <2>6 DEF AccountInv, RequestsAccounted
  <2> QED  BY <1>1, <2>2, <2>5, <2>7 DEF AccountInv
<1>4. CASE Finished
  BY <1>3, <1>4 DEF Finished
<1> QED  BY <1>2, <1>3, <1>4 DEF RNext

LEMMA AccountInit == RInit => AccountInv
<1> SUFFICES ASSUME RInit PROVE AccountInv
  OBVIOUS
<1>1. SentAs
  BY DEF RInit, Init, SentAs
<1>2. RequestsAccounted
  BY DEF RInit, Init, RequestsAccounted, RequestOps
<1>3. HandshakesInv
  BY DEF RInit, Init, HandshakesInv, HelloUnread, GoodbyeUnread, GoodbyeComes, HelloSaid,
         GoodbyeSaid
<1> QED  BY <1>1, <1>2, <1>3, NetInit DEF AccountInv

LEMMA AccountImplies == AccountInv => RequestsAccounted /\ HandshakesAccounted
<1>1. AccountInv /\ io = "running" => HandshakesAccounted
  BY HandshakesImplies DEF AccountInv, NetInv, RunInv
<1> QED  BY <1>1 DEF AccountInv, HandshakesAccounted

\* RequestsAccounted: as long as the session is in use, a request whose future has
\* not resolved is with the thread that drew its id, in the queue of the io thread,
\* unread, owed by the router or answered by a frame that will be handled: no step
\* of any thread, callback, router or connection loses one.
THEOREM RequestsAccountedThm == RSpec => []RequestsAccounted
<1> QED  BY AccountInit, AccountNext, AccountImplies, PTL DEF RSpec

\* HandshakesAccounted: a join() or leave() that has not resolved has its lambda
\* queued, its HELLO or GOODBYE unread by a router that will answer it, or its
\* answer on the way, also when the GOODBYEs of the two sides cross.
THEOREM HandshakesAccountedThm == RSpec => []HandshakesAccounted
<1> QED  BY AccountInit, AccountNext, AccountImplies, PTL DEF RSpec
=============================================================================
