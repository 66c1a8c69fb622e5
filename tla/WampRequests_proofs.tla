------------------------- MODULE WampRequests_proofs -------------------------
(***************************************************************************)
(* Theorems about the requests of wamp_session, for every number of        *)
(* threads and requests and every peer: an id is drawn on one thread, goes *)
(* through the queue of the io_service, the table of its kind and the wire;*)
(* what the tables hold is unanswered, and a handler installed once.  At   *)
(* the end, the replies of wamp_invocation.                                *)
(***************************************************************************)
EXTENDS WampSession_proofs

\* A lambda that runs run for i is in the queue q; a message of a type of T
\* with id i is on the wire o.
Queued(run, q, i) == \E n \in DOMAIN q : q[n].run = run /\ q[n].id = i
OnWire(T, o, i) == \E n \in DOMAIN o : o[n].type \in T /\ o[n].id = i

\* No id is queued twice, or is on the wire twice.
QueuedOnce(run, q) ==
    \A n, m \in DOMAIN q : q[n].run = run /\ q[m].run = run /\ q[n].id = q[m].id => n = m
OnWireOnce(T, o) ==
    \A n, m \in DOMAIN o : o[n].type \in T /\ o[m].type \in T /\ o[n].id = o[m].id => n = m

Tables == m_calls \cup m_subscribe_requests \cup m_unsubscribe_requests
          \cup m_register_requests

\* An id that has been drawn and not yet used, and one that has been used.
Waits(i) == (\E t \in Threads : thread[t] = i) \/ Queued("request", ioq, i)
Spent(i) == OnWire(RequestOps, out, i) \/ i \in Tables \/ response[i] # "unset"

\* RequestIdsUnique is not inductive: it holds because an id waits in one place
\* only, the counter is never behind, and what waits has not been used.
IdInv ==
    /\ \A t, u \in Threads : thread[t] # 0 /\ thread[t] = thread[u] => t = u
    /\ \A t \in Threads : thread[t] # 0 => ~Queued("request", ioq, thread[t])
    /\ QueuedOnce("request", ioq)
    /\ OnWireOnce(RequestOps, out)
    /\ \A i \in Ids : i > m_request_id => ~Waits(i) /\ ~Spent(i)
    /\ \A i \in Ids : Waits(i) => ~Spent(i)

\* What a table holds was requested with its operation; with PendingUnanswered
\* and HandlersInstalledOnce this is inductive.
TableOps ==
    /\ \A i \in m_calls : request[i].op = "CALL"
    /\ \A i \in m_subscribe_requests : request[i].op = "SUBSCRIBE"
    /\ \A i \in m_unsubscribe_requests : request[i].op = "UNSUBSCRIBE"
    /\ \A i \in m_register_requests : request[i].op = "REGISTER"
TableInv == TableOps /\ PendingUnanswered /\ HandlersInstalledOnce
-----------------------------------------------------------------------------
(***************************************************************************)
(* The queue and the wire                                                  *)
(***************************************************************************)

\* r holds no lambda that q does not hold, and none twice unless q does.
NoMoreQueued(run, q, r) == /\ \A i : Queued(run, r, i) => Queued(run, q, i)
                           /\ QueuedOnce(run, q) => QueuedOnce(run, r)

LEMMA QueueTail ==
    ASSUME NEW run, NEW q \in Seq(Handler), q # <<>>
    PROVE  NoMoreQueued(run, q, Tail(q))
<1>1. /\ DOMAIN Tail(q) = 1..Len(q) - 1 /\ DOMAIN q = 1..Len(q) /\ Len(q) \in Nat
      /\ \A n \in DOMAIN Tail(q) : n + 1 \in DOMAIN q /\ Tail(q)[n] = q[n + 1]
  OBVIOUS
<1>2. \A i : Queued(run, Tail(q), i) => Queued(run, q, i)
  BY <1>1 DEF Queued
<1>3. ASSUME QueuedOnce(run, q), NEW n \in DOMAIN Tail(q), NEW m \in DOMAIN Tail(q),
             Tail(q)[n].run = run, Tail(q)[m].run = run, Tail(q)[n].id = Tail(q)[m].id
      PROVE  n = m
  <2>1. n + 1 = m + 1
    BY <1>1, <1>3 DEF QueuedOnce
  <2> QED  BY <1>1, <2>1
<1> QED  BY <1>2, <1>3 DEF NoMoreQueued, QueuedOnce

LEMMA QueueAppend ==
    ASSUME NEW run, NEW q \in Seq(Handler), NEW h, h.run # run
    PROVE  NoMoreQueued(run, q, Append(q, h))
<1>1. /\ DOMAIN Append(q, h) = 1..Len(q) + 1 /\ DOMAIN q = 1..Len(q) /\ Len(q) \in Nat
      /\ \A n \in 1..Len(q) : Append(q, h)[n] = q[n]
      /\ Append(q, h)[Len(q) + 1] = h
  OBVIOUS
<1>2. \A n \in DOMAIN Append(q, h) :
         Append(q, h)[n].run = run => n \in DOMAIN q /\ Append(q, h)[n] = q[n]
  BY <1>1
<1> QED  BY <1>2 DEF NoMoreQueued, Queued, QueuedOnce

\* A lambda of a new id is the only one of that id.
LEMMA QueueLambda ==
    ASSUME NEW run, NEW q \in Seq(Handler), NEW id, ~Queued(run, q, id)
    PROVE  LET r == Append(q, Lambda(run, id))
           IN  /\ \A i : Queued(run, r, i) => Queued(run, q, i) \/ i = id
               /\ QueuedOnce(run, q) => QueuedOnce(run, r)
<1> DEFINE h == Lambda(run, id)
           r == Append(q, h)
<1>1. /\ DOMAIN r = 1..Len(q) + 1 /\ DOMAIN q = 1..Len(q) /\ Len(q) \in Nat
      /\ \A n \in 1..Len(q) : r[n] = q[n]
      /\ r[Len(q) + 1] = h
  OBVIOUS
<1>2. h.id = id
  BY DEF Lambda
<1> HIDE DEF h, r
<1>3. \A n \in DOMAIN r : \/ n \in DOMAIN q /\ r[n] = q[n]
                          \/ n = Len(q) + 1 /\ r[n].id = id
  BY <1>1, <1>2
<1>4. \A n \in DOMAIN q : ~(q[n].run = run /\ q[n].id = id)
  BY DEF Queued
<1>5. \A i : Queued(run, r, i) => Queued(run, q, i) \/ i = id
  BY <1>3 DEF Queued
<1>6. QueuedOnce(run, q) => QueuedOnce(run, r)
  BY <1>3, <1>4 DEF QueuedOnce
<1> QED  BY <1>5, <1>6 DEF h, r

\* The lambda at the head is the only one of its id.
LEMMA QueueTaken ==
    ASSUME NEW q \in Seq(Handler), q # <<>>, QueuedOnce(Head(q).run, q)
    PROVE  /\ Queued(Head(q).run, q, Head(q).id)
           /\ ~Queued(Head(q).run, Tail(q), Head(q).id)
<1>1. /\ 1 \in DOMAIN q /\ Head(q) = q[1]
      /\ DOMAIN Tail(q) = 1..Len(q) - 1 /\ Len(q) \in Nat
      /\ \A n \in DOMAIN Tail(q) : n + 1 \in DOMAIN q /\ Tail(q)[n] = q[n + 1]
  OBVIOUS
<1>2. \A n \in DOMAIN Tail(q) : n + 1 # 1
  BY <1>1
<1> QED  BY <1>1, <1>2 DEF Queued, QueuedOnce

LEMMA QueueSame == ASSUME NEW run, NEW q PROVE NoMoreQueued(run, q, q)
  BY DEF NoMoreQueued

LEMMA QueueTransitive ==
    ASSUME NEW run, NEW q, NEW r, NEW s, NoMoreQueued(run, q, r), NoMoreQueued(run, r, s)
    PROVE  NoMoreQueued(run, q, s)
  BY DEF NoMoreQueued

\* async_read, closing the streams and the end of a message add completions.
LEMMA QueueCompletions ==
    ASSUME TypeOK, NEW q \in Seq(Handler), NEW run \in {"request", "reply"}
    PROVE  /\ \A h \in ReadHandlers : AsyncRead(h, q) => NoMoreQueued(run, q, ioq')
           /\ CloseStreams(q) => NoMoreQueued(run, q, ioq')
           /\ ReceiveNext(q) => NoMoreQueued(run, q, ioq')
<1>1. \A h \in ReadHandlers : \A ec, f : Completion(h, ec, f).run # run
  BY DEF Completion, ReadHandlers
<1>2. ASSUME NEW h \in ReadHandlers, AsyncRead(h, q) PROVE NoMoreQueued(run, q, ioq')
  BY <1>1, <1>2, QueueAppend, QueueSame DEF AsyncRead
<1>3. CloseStreams(q) => NoMoreQueued(run, q, ioq')
  BY <1>1, QueueAppend, QueueSame DEF CloseStreams, TypeOK, TypeQueue
<1>4. ReceiveNext(q) => NoMoreQueued(run, q, ioq')
  BY <1>2, QueueSame DEF ReceiveNext, ReadHandlers
<1> QED  BY <1>2, <1>3, <1>4

\* The same for the wire: a message of another type adds none.
NoMoreSent(T, o, p) == /\ \A i : OnWire(T, p, i) => OnWire(T, o, i)
                       /\ OnWireOnce(T, o) => OnWireOnce(T, p)

LEMMA WireSame == ASSUME NEW T, NEW o PROVE NoMoreSent(T, o, o)
  BY DEF NoMoreSent

LEMMA WireSent ==
    ASSUME TypeOK, NEW T, NEW type, NEW id, NEW arg, type \notin T
    PROVE  NoMoreSent(T, out, Sent(type, id, arg))
<1> DEFINE m == [type |-> type, id |-> id, arg |-> arg]
<1>1. /\ DOMAIN Append(out, m) = 1..Len(out) + 1 /\ DOMAIN out = 1..Len(out)
      /\ Len(out) \in Nat
      /\ \A n \in 1..Len(out) : Append(out, m)[n] = out[n]
      /\ Append(out, m)[Len(out) + 1] = m
  BY DEF TypeOK, TypeOut
<1>2. m.type \notin T
  OBVIOUS
<1>3. \A n \in DOMAIN Append(out, m) :
         Append(out, m)[n].type \in T => n \in DOMAIN out /\ Append(out, m)[n] = out[n]
  <2> HIDE DEF m
  <2> QED  BY <1>1, <1>2
<1>4. NoMoreSent(T, out, Append(out, m))
  <2> HIDE DEF m
  <2> QED  BY <1>3 DEF NoMoreSent, OnWire, OnWireOnce
<1> QED  BY <1>4, WireSame DEF Sent
\* A message with a new id is the only one of that id.
LEMMA WireMessage ==
    ASSUME TypeOK, NEW T, NEW type, NEW id, NEW arg, ~OnWire(T, out, id)
    PROVE  /\ \A i : OnWire(T, Sent(type, id, arg), i) => OnWire(T, out, i) \/ i = id
           /\ OnWireOnce(T, out) => OnWireOnce(T, Sent(type, id, arg))
<1> DEFINE m == [type |-> type, id |-> id, arg |-> arg]
           p == Append(out, m)
<1>1. /\ DOMAIN p = 1..Len(out) + 1 /\ DOMAIN out = 1..Len(out) /\ Len(out) \in Nat
      /\ \A n \in 1..Len(out) : p[n] = out[n]
      /\ p[Len(out) + 1] = m
  BY DEF TypeOK, TypeOut
<1>2. m.id = id
  OBVIOUS
<1>3. Sent(type, id, arg) \in {out, p}
  BY DEF Sent
<1> HIDE DEF m, p
<1>4. \A n \in DOMAIN p : \/ n \in DOMAIN out /\ p[n] = out[n]
                          \/ n = Len(out) + 1 /\ p[n].id = id
  BY <1>1, <1>2
<1>5. \A n \in DOMAIN out : ~(out[n].type \in T /\ out[n].id = id)
  BY DEF OnWire
<1>6. \A i : OnWire(T, p, i) => OnWire(T, out, i) \/ i = id
  BY <1>4 DEF OnWire
<1>7. OnWireOnce(T, out) => OnWireOnce(T, p)
  BY <1>4, <1>5 DEF OnWireOnce
<1> QED  BY <1>3, <1>6, <1>7
-----------------------------------------------------------------------------
(***************************************************************************)
(* Steps that neither draw nor use an id                                   *)
(***************************************************************************)

Calm ==
    /\ UNCHANGED app
    /\ NoMoreQueued("request", ioq, ioq')
    /\ NoMoreSent(RequestOps, out, out')
    /\ Tables' \subseteq Tables
    /\ \A i \in Ids : response'[i] # response[i] => i \in Tables

LEMMA CalmIds == ASSUME TypeOK, IdInv, Calm PROVE IdInv'
<1>1. \A i \in Ids : Queued("request", ioq', i) => Queued("request", ioq, i)
  BY DEF Calm, NoMoreQueued
<1>2. \A i \in Ids : Waits(i)' => Waits(i)
  BY <1>1 DEF Calm, Waits, app
<1>3. \A i \in Ids : Spent(i)' => Spent(i)
  BY DEF Calm, Spent, NoMoreSent
<1>4. QueuedOnce("request", ioq') /\ OnWireOnce(RequestOps, out')
  BY DEF Calm, NoMoreQueued, NoMoreSent, IdInv
<1>5. m_request_id' = m_request_id /\ thread' = thread
  BY DEF Calm, app
<1>6. \A t \in Threads : thread[t] # 0 => thread[t] \in Ids
  BY DEF TypeOK, TypeRequests
<1>7. \A t \in Threads : thread'[t] # 0 => ~Queued("request", ioq', thread'[t])
  BY <1>1, <1>5, <1>6 DEF IdInv
<1>8. /\ \A i \in Ids : i > m_request_id' => ~Waits(i)' /\ ~Spent(i)'
      /\ \A i \in Ids : Waits(i)' => ~Spent(i)'
  BY <1>2, <1>3, <1>5 DEF IdInv
<1> QED  BY <1>4, <1>5, <1>7, <1>8 DEF IdInv

\* The tables, the promises and the counter are left alone.
LEMMA CalmFrame ==
    ASSUME UNCHANGED <<app, pending, response>>,
           NoMoreQueued("request", ioq, ioq'), NoMoreSent(RequestOps, out, out')
    PROVE  Calm
  BY DEF Calm, Tables, pending

\* join(), leave() and stop(), queued by a thread, inline and run.
LEMMA CalmLifecycle ==
    ASSUME TypeOK, NEW op \in LifecycleOps,
           Ask(op) \/ AskInline(op) \/ RunLifecycle(op)
    PROVE  Calm
<1>1. UNCHANGED <<app, pending, response>>
  BY DEF Ask, AskInline, RunLifecycle
<1>2. ioq \in Seq(Handler)
  BY DEF TypeOK, TypeQueue
<1>3. ASSUME NEW q \in Seq(Handler), Effect(op, q), NoMoreQueued("request", ioq, q)
      PROVE  NoMoreQueued("request", ioq, ioq') /\ NoMoreSent(RequestOps, out, out')
  <2>1. CASE op = "join" /\ JoinEffect(q)
    BY <1>3, <2>1, WireSent DEF JoinEffect, RequestOps
  <2>2. CASE op = "leave" /\ LeaveEffect(q)
    BY <1>3, <2>2, WireSent DEF LeaveEffect, RequestOps
  <2>3. CASE op = "stop" /\ StopEffect(q)
    BY <1>3, <2>3, WireSame, QueueCompletions, QueueTransitive DEF StopEffect
  <2> QED  BY <1>3, <2>1, <2>2, <2>3 DEF Effect
<1>4. CASE Ask(op)
  <2>1. Lambda(op, 0).run # "request"
    BY DEF Lambda, LifecycleOps
  <2> QED  BY <1>1, <1>2, <1>4, <2>1, CalmFrame, QueueAppend, WireSame DEF Ask
<1>5. CASE AskInline(op)
  BY <1>1, <1>2, <1>3, <1>5, CalmFrame, QueueSame DEF AskInline
<1>6. CASE RunLifecycle(op)
  <2>1. Tail(ioq) \in Seq(Handler) /\ NoMoreQueued("request", ioq, Tail(ioq))
    BY <1>2, <1>6, QueueTail DEF RunLifecycle, Runs
  <2> QED  BY <1>1, <1>3, <1>6, <2>1, CalmFrame, WireSame DEF RunLifecycle
<1> QED  BY <1>4, <1>5, <1>6

\* handleRxError().
LEMMA CalmRxError ==
    ASSUME TypeOK, ioq # <<>>, NEW ec, handleRxError(ec)
    PROVE  Calm
<1>1. Tail(ioq) \in Seq(Handler) /\ NoMoreQueued("request", ioq, Tail(ioq))
  BY QueueTail DEF TypeOK, TypeQueue
<1>2. NoMoreQueued("request", ioq, ioq')
  BY <1>1, QueueCompletions, QueueTransitive DEF handleRxError
<1>3. NoMoreSent(RequestOps, out, out')
  BY WireSent, WireSame DEF handleRxError, RequestOps
<1> QED  BY <1>2, <1>3, CalmFrame DEF handleRxError

\* Replies to invocations, the reads and the ends of callbacks.
LEMMA CalmReply ==
    ASSUME TypeOK, NEW k, Reply(k) \/ ReplyReturns(k) \/ ReplyInline(k)
    PROVE  Calm
<1>1. ioq \in Seq(Handler) /\ Lambda("reply", k).run # "request"
  BY DEF TypeOK, TypeQueue, Lambda
<1>2. CASE Reply(k)
  BY <1>1, <1>2, CalmFrame, QueueAppend, WireSame DEF Reply
<1>3. CASE ReplyReturns(k)
  BY <1>3, CalmFrame, QueueSame, WireSame DEF ReplyReturns
<1>4. CASE ReplyInline(k)
  BY <1>4, CalmFrame, QueueSame, WireSent DEF ReplyInline, RequestOps
<1> QED  BY <1>2, <1>3, <1>4

LEMMA CalmRead ==
    ASSUME TypeOK,
           \/ start \/ run_reply \/ got_handshake_reply \/ got_message_header \/ CallbackEnds
           \/ \E ec, f : ReadCompletes(ec, f)
    PROVE  Calm
<1>1. ioq \in Seq(Handler)
  BY DEF TypeOK, TypeQueue
<1>2. ASSUME ioq # <<>>
      PROVE  Tail(ioq) \in Seq(Handler) /\ NoMoreQueued("request", ioq, Tail(ioq))
  BY <1>1, <1>2, QueueTail
<1>3. CASE start
  BY <1>3, CalmFrame, QueueSame, WireSame DEF start
<1>4. CASE run_reply
  BY <1>2, <1>4, CalmFrame, WireSent DEF run_reply, Runs, RequestOps
<1>5. CASE got_handshake_reply
  <2>1. NoMoreQueued("request", ioq, ioq')
    BY <1>2, <1>5, QueueCompletions, QueueTransitive DEF got_handshake_reply, Runs, ReadHandlers
  <2> QED  BY <1>5, <2>1, CalmFrame, WireSame DEF got_handshake_reply
<1>6. CASE got_message_header
  <2>1. CASE handleRxError(Head(ioq).ec)
    BY <1>6, <2>1, CalmRxError DEF got_message_header, Runs
  <2>2. CASE AsyncRead("got_message_body", Tail(ioq)) /\ UNCHANGED <<pending, app, response, out>>
    BY <1>2, <1>6, <2>2, CalmFrame, QueueCompletions, QueueTransitive, WireSame
    DEF got_message_header, Runs, ReadHandlers
  <2> QED  BY <1>6, <2>1, <2>2 DEF got_message_header
<1>7. CASE CallbackReturns
  <2>1. NoMoreQueued("request", ioq, ioq')
    BY <1>1, <1>7, QueueCompletions, QueueSame DEF CallbackReturns
  <2> QED  BY <1>7, <2>1, CalmFrame, WireSame DEF CallbackReturns
<1>8. CASE CallbackThrows
  <2>1. NoMoreQueued("request", ioq, ioq')
    BY <1>1, <1>8, QueueCompletions DEF CallbackThrows
  <2>2. NoMoreSent(RequestOps, out, out')
    BY <1>8, WireSent, WireSame DEF CallbackThrows, RequestOps
  <2> QED  BY <1>8, <2>1, <2>2, CalmFrame DEF CallbackThrows
<1>9. ASSUME NEW ec, NEW f, ReadCompletes(ec, f) PROVE Calm
  <2>1. Completion(read, ec, f).run # "request"
    BY <1>9 DEF ReadCompletes, Completion, TypeOK, TypeQueue, ReadHandlers
  <2> QED  BY <1>1, <1>9, <2>1, CalmFrame, QueueAppend, WireSame DEF ReadCompletes
<1>10. CASE CatchThrows
  BY <1>10, CalmFrame, QueueSame, WireSame DEF CatchThrows
<1> QED  BY <1>3, <1>4, <1>5, <1>6, <1>7, <1>8, <1>9, <1>10 DEF CallbackEnds

\* A message: it answers what a table holds, and takes it out at most.
LEMMA CalmMessage ==
    ASSUME TypeOK, ioq # <<>>, got_message
    PROVE  Calm
<1>1. Tail(ioq) \in Seq(Handler) /\ NoMoreQueued("request", ioq, Tail(ioq))
  BY QueueTail DEF TypeOK, TypeQueue
<1>2. ASSUME NEW e, Done \/ Throws(e) PROVE NoMoreQueued("request", ioq, ioq')
  BY <1>1, <1>2, QueueCompletions, QueueTransitive DEF Done, Throws
<1>3. UNCHANGED app
  BY DEF got_message
<1>4. ASSUME NoMoreQueued("request", ioq, ioq'), NoMoreSent(RequestOps, out, out'),
             UNCHANGED <<pending, response>>
      PROVE  Calm
  BY <1>3, <1>4, CalmFrame
<1>5. ASSUME NoMoreQueued("request", ioq, ioq'), out' = out, Tables' \subseteq Tables,
             NEW id \in Tables, NEW v, response' \in {response, [response EXCEPT ![id] = v]}
      PROVE  Calm
  <2>1. \A i \in Ids : response'[i] # response[i] => i = id
    BY <1>5 DEF TypeOK, TypeRequests
  <2> QED  BY <1>3, <1>5, <2>1, WireSame DEF Calm
<1>6. CASE process_welcome
  <2>1. NoMoreQueued("request", ioq, ioq')
    BY <1>2, <1>6 DEF process_welcome
  <2> QED  BY <1>4, <1>6, <2>1, WireSame DEF process_welcome
<1>7. CASE process_goodbye
  <2>1. NoMoreQueued("request", ioq, ioq')
    BY <1>2, <1>7 DEF process_goodbye
  <2>2. NoMoreSent(RequestOps, out, out')
    BY <1>7, WireSent, WireSame DEF process_goodbye, RequestOps
  <2> QED  BY <1>4, <1>7, <2>1, <2>2 DEF process_goodbye
<1>8. CASE process_error \/ process_call_result \/ process_registered
  <2>1. NoMoreQueued("request", ioq, ioq')
    BY <1>2, <1>8 DEF process_error, process_call_result, process_registered
  <2>2. UNCHANGED <<pending, out>>
    BY <1>8 DEF process_error, process_call_result, process_registered
  <2>3. \/ response' = response
        \/ /\ Message.id \in m_calls \cup m_register_requests
           /\ \/ response' = [response EXCEPT ![Message.id] = "error"]
              \/ response' = [response EXCEPT ![Message.id] = "value"]
    BY <1>8 DEF process_error, process_call_result, process_registered
  <2>4. CASE response' = response
    BY <1>4, <2>1, <2>2, <2>4, WireSame
  <2>5. CASE response' # response
    <3>1. Message.id \in Tables /\ Tables' = Tables
      BY <2>2, <2>3, <2>5 DEF Tables, pending
    <3>2. /\ out' = out /\ Tables' \subseteq Tables
          /\ \/ response' \in {response, [response EXCEPT ![Message.id] = "error"]}
             \/ response' \in {response, [response EXCEPT ![Message.id] = "value"]}
      BY <2>2, <2>3, <2>5, <3>1
    <3> QED  BY <1>5, <2>1, <3>1, <3>2
  <2> QED  BY <2>4, <2>5
<1>9. CASE process_subscribed \/ process_unsubscribed
  <2>1. NoMoreQueued("request", ioq, ioq') /\ out' = out
    BY <1>2, <1>9 DEF process_subscribed, process_unsubscribed
  <2>2. Tables' \subseteq Tables
    BY <1>9 DEF process_subscribed, process_unsubscribed, Tables
  <2>3. \/ UNCHANGED <<pending, response>>
        \/ /\ Message.id \in Tables
           /\ response' = [response EXCEPT ![Message.id] = "value"]
    BY <1>9 DEF process_subscribed, process_unsubscribed, Tables, pending
  <2> QED  BY <1>4, <1>5, <2>1, <2>2, <2>3, WireSame
<1>10. CASE process_event \/ process_invocation \/ process_other
  <2>1. NoMoreQueued("request", ioq, ioq')
    BY <1>1, <1>2, <1>10 DEF process_event, process_invocation, process_other
  <2> QED
    BY <1>4, <1>10, <2>1, WireSame DEF process_event, process_invocation, process_other
<1> QED  BY <1>6, <1>7, <1>8, <1>9, <1>10 DEF got_message
-----------------------------------------------------------------------------
(***************************************************************************)
(* The life of an id                                                       *)
(***************************************************************************)

\* The ids at hand when the next one is drawn.
LEMMA NextId ==
    ASSUME TypeOK, IdInv, m_request_id < MaxRequests
    PROVE  /\ m_request_id + 1 \in Ids /\ m_request_id + 1 # 0
           /\ ~Waits(m_request_id + 1) /\ ~Spent(m_request_id + 1)
<1>1. m_request_id + 1 \in Ids /\ m_request_id + 1 > m_request_id /\ m_request_id + 1 # 0
  BY BoundsAssumption DEF TypeOK, TypeRequests, Ids
<1> QED  BY <1>1 DEF IdInv

\* A thread draws an id.
LEMMA IdDrawn ==
    ASSUME TypeOK, IdInv, NEW t \in Threads, NEW op, NEW sub, DrawOnThread(t, op, sub)
    PROVE  IdInv'
<1> DEFINE new == m_request_id + 1
<1>1. /\ new \in Ids /\ new # 0 /\ ~Waits(new) /\ ~Spent(new)
  BY NextId DEF DrawOnThread, Draw
<1>2. /\ m_request_id' = new
      /\ thread'[t] = new /\ \A u \in Threads : u # t => thread'[u] = thread[u]
      /\ UNCHANGED <<pending, ioq, out, response>>
  BY DEF DrawOnThread, Draw, TypeOK, TypeRequests
<1>3. \A i \in Ids : Spent(i)' <=> Spent(i)
  BY <1>2 DEF Spent, Tables, pending
<1>4. \A i \in Ids : Waits(i)' => Waits(i) \/ i = new
  BY <1>2 DEF Waits
<1>5. \A i \in Ids : i > new => i > m_request_id
  BY BoundsAssumption DEF TypeOK, TypeRequests, Ids
<1>6. new \notin {i \in Ids : i > new}
  BY BoundsAssumption DEF TypeOK, TypeRequests, Ids
<1> HIDE DEF new
<1>7. \A u, w \in Threads : thread'[u] # 0 /\ thread'[u] = thread'[w] => u = w
  BY <1>1, <1>2 DEF IdInv, Waits
<1>8. \A u \in Threads : thread'[u] # 0 => ~Queued("request", ioq', thread'[u])
  BY <1>1, <1>2 DEF IdInv, Waits
<1>9. /\ \A i \in Ids : i > m_request_id' => ~Waits(i)' /\ ~Spent(i)'
      /\ \A i \in Ids : Waits(i)' => ~Spent(i)'
  BY <1>1, <1>2, <1>3, <1>4, <1>5, <1>6 DEF IdInv
<1> QED  BY <1>2, <1>7, <1>8, <1>9 DEF IdInv

\* The thread dispatches the lambda: the id moves from the thread to the queue.
LEMMA IdDispatched ==
    ASSUME TypeOK, IdInv, NEW t \in Threads, Dispatch(t)
    PROVE  IdInv'
<1> DEFINE id == thread[t]
<1>1. /\ id \in Ids /\ id # 0 /\ ~Queued("request", ioq, id)
      /\ ioq \in Seq(Handler) /\ 0 \notin Ids
  BY IdsNat DEF Dispatch, IdInv, TypeOK, TypeRequests, TypeQueue
<1>2. /\ \A i : Queued("request", ioq', i) => Queued("request", ioq, i) \/ i = id
      /\ QueuedOnce("request", ioq')
  BY <1>1, QueueLambda DEF Dispatch, IdInv
<1>3. /\ thread'[t] = 0 /\ \A u \in Threads : u # t => thread'[u] = thread[u]
      /\ UNCHANGED <<pending, out, response, m_request_id>>
  BY DEF Dispatch, TypeOK, TypeRequests
<1>4. \A i \in Ids : Spent(i)' <=> Spent(i)
  BY <1>3 DEF Spent, Tables, pending
<1>5. \A i \in Ids : Waits(i)' => Waits(i)
  BY <1>1, <1>2, <1>3 DEF Waits
<1>6. \A u, w \in Threads : thread'[u] # 0 /\ thread'[u] = thread'[w] => u = w
  BY <1>3 DEF IdInv
<1>7. \A u \in Threads : thread'[u] # 0 => ~Queued("request", ioq', thread'[u])
  <2>1. \A u \in Threads : u # t => thread[u] = 0 \/ thread[u] # thread[t]
    BY DEF IdInv
  <2> QED  BY <1>2, <1>3, <2>1 DEF IdInv
<1>8. /\ \A i \in Ids : i > m_request_id' => ~Waits(i)' /\ ~Spent(i)'
      /\ \A i \in Ids : Waits(i)' => ~Spent(i)'
  BY <1>3, <1>4, <1>5 DEF IdInv
<1>9. OnWireOnce(RequestOps, out')
  BY <1>3 DEF IdInv
<1> QED  BY <1>2, <1>6, <1>7, <1>8, <1>9 DEF IdInv

\* A request enters its table and its message the wire.
LEMMA IdUsed ==
    ASSUME TypeOK, IdInv, NEW id \in Ids, ~Spent(id), NEW op, NEW sub,
           response' = response,
           UNCHANGED <<pending, out>> \/ EmplaceAndSend(id, op, sub)
    PROVE  /\ OnWireOnce(RequestOps, out')
           /\ \A i \in Ids : i # id => (Spent(i)' => Spent(i))
<1>1. /\ OnWireOnce(RequestOps, out')
      /\ \A i : OnWire(RequestOps, out', i) => OnWire(RequestOps, out, i) \/ i = id
  <2>1. ~OnWire(RequestOps, out, id)
    BY DEF Spent
  <2> QED  BY <2>1, WireMessage DEF EmplaceAndSend, IdInv
<1>2. Tables' \subseteq Tables \cup {id}
  BY DEF EmplaceAndSend, Tables, pending
<1> QED  BY <1>1, <1>2 DEF Spent

\* The io thread runs the lambda of a request: the id leaves the queue for good.
LEMMA RequestTaken ==
    ASSUME TypeOK, IdInv, run_request
    PROVE  LET id == Head(ioq).id
           IN  /\ id \in Ids /\ Waits(id) /\ ~Spent(id)
               /\ \A t \in Threads : thread'[t] # id
               /\ ~Queued("request", ioq', id) /\ NoMoreQueued("request", ioq, ioq')
<1> DEFINE id == Head(ioq).id
<1>1. /\ ioq \in Seq(Handler) /\ ioq # <<>> /\ Head(ioq).run = "request"
      /\ ioq' = Tail(ioq) /\ thread' = thread
  BY DEF run_request, Runs, app, TypeOK, TypeQueue
<1>2. Head(ioq) \in Handler
  BY <1>1
<1>3. id \in Ids
  BY <1>1, <1>2 DEF Handler, LifecycleOps, ReadHandlers
<1>4. Queued("request", ioq, id) /\ ~Queued("request", ioq', id)
  BY <1>1, QueueTaken DEF IdInv
<1>5. Waits(id) /\ ~Spent(id)
  BY <1>3, <1>4 DEF Waits, IdInv
<1>7. \A t \in Threads : thread'[t] # id
  BY <1>1, <1>3, <1>4, IdsNat DEF IdInv
<1>8. NoMoreQueued("request", ioq, ioq')
  BY <1>1, QueueTail
<1> QED  BY <1>3, <1>4, <1>5, <1>7, <1>8

LEMMA IdRun == ASSUME TypeOK, IdInv, run_request PROVE IdInv'
<1> PICK id \in Ids : /\ id = Head(ioq).id /\ ~Spent(id)
                      /\ \A t \in Threads : thread'[t] # id
                      /\ ~Queued("request", ioq', id) /\ Waits(id)
  BY RequestTaken
<1>1. /\ NoMoreQueued("request", ioq, ioq') /\ UNCHANGED <<thread, m_request_id, response>>
  BY RequestTaken DEF run_request, app
<1>2. UNCHANGED <<pending, out>> \/ EmplaceAndSend(id, request[id].op, request[id].sub)
  BY DEF run_request
<1>3. OnWireOnce(RequestOps, out') /\ \A i \in Ids : i # id => (Spent(i)' => Spent(i))
  <2> DEFINE op == request[id].op
             sub == request[id].sub
  <2> HIDE DEF op, sub
  <2>1. UNCHANGED <<pending, out>> \/ EmplaceAndSend(id, op, sub)
    BY <1>2 DEF op, sub
  <2> QED  BY <1>1, <2>1, IdUsed
<1>4. \A i \in Ids : Waits(i)' => Waits(i) /\ i # id
  BY <1>1 DEF Waits, NoMoreQueued
<1>5. \A i \in Ids : i > m_request_id => i # id
  BY DEF IdInv
<1>6. /\ \A i \in Ids : i > m_request_id' => ~Waits(i)' /\ ~Spent(i)'
      /\ \A i \in Ids : Waits(i)' => ~Spent(i)'
  BY <1>1, <1>3, <1>4, <1>5 DEF IdInv
<1>7. \A t \in Threads : thread'[t] # 0 => ~Queued("request", ioq', thread'[t])
  BY <1>1 DEF IdInv, NoMoreQueued, TypeOK, TypeRequests
<1> QED  BY <1>1, <1>3, <1>6, <1>7 DEF IdInv, NoMoreQueued

\* A callback makes a request: the id is drawn and used in one step.
LEMMA IdInline ==
    ASSUME TypeOK, IdInv, NEW op, NEW sub, RequestInline(op, sub)
    PROVE  IdInv'
<1> PICK new \in Ids : /\ new = m_request_id + 1 /\ ~Waits(new) /\ ~Spent(new)
  BY NextId DEF RequestInline, Draw
<1>1. /\ UNCHANGED <<thread, ioq, response>> /\ m_request_id' = new
      /\ UNCHANGED <<pending, out>> \/ EmplaceAndSend(new, op, sub)
  BY DEF RequestInline, Draw
<1>2. OnWireOnce(RequestOps, out') /\ \A i \in Ids : i # new => (Spent(i)' => Spent(i))
  BY <1>1, IdUsed
<1>3. \A i \in Ids : Waits(i)' <=> Waits(i)
  BY <1>1 DEF Waits
<1>4. \A i \in Ids : i > new => i > m_request_id /\ i # new
  BY BoundsAssumption DEF TypeOK, TypeRequests, Ids
<1>5. /\ \A i \in Ids : i > m_request_id' => ~Waits(i)' /\ ~Spent(i)'
      /\ \A i \in Ids : Waits(i)' => ~Spent(i)'
  BY <1>1, <1>2, <1>3, <1>4 DEF IdInv
<1> QED  BY <1>1, <1>2, <1>5 DEF IdInv
-----------------------------------------------------------------------------
(***************************************************************************)
(* Every step                                                              *)
(***************************************************************************)

LEMMA IdInit == Init => IdInv
<1> SUFFICES ASSUME Init PROVE IdInv
  OBVIOUS
<1>1. \A i \in Ids : ~Waits(i) /\ ~Spent(i)
  BY IdsNat DEF Init, Waits, Spent, Queued, OnWire, Tables
<1> QED  BY <1>1 DEF Init, IdInv, QueuedOnce, OnWireOnce

\* The steps that are Calm: all but those of a request.
LEMMA CalmSteps ==
    ASSUME TypeOK, [Next]_vars
    PROVE  \/ Calm
           \/ \E t \in Threads : Dispatch(t)
           \/ run_request
           \/ \E op \in Ops : \E sub \in Argument(op) :
                 RequestInline(op, sub) \/ \E t \in Threads : DrawOnThread(t, op, sub)
<1>1. CASE UNCHANGED vars
  BY <1>1, CalmFrame, QueueSame, WireSame DEF vars
<1>2. CASE PeerStep
  BY <1>2, CalmRead DEF PeerStep
<1>3. CASE IoStep
  <2>1. CASE got_message_body
    <3>1. ioq # <<>>
      BY <2>1 DEF got_message_body, Runs
    <3> QED  BY <2>1, <3>1, CalmMessage, CalmRxError DEF got_message_body
  <2> QED  BY <1>3, <2>1, CalmLifecycle, CalmRead DEF IoStep
<1>4. CASE CallbackEnds
  BY <1>4, CalmRead
<1>5. CASE AppStep
  BY <1>5, CalmRead, CalmLifecycle, CalmReply DEF AppStep
<1> QED  BY <1>1, <1>2, <1>3, <1>4, <1>5 DEF Next

LEMMA IdNext == TypeOK /\ IdInv /\ [Next]_vars => IdInv'
  BY CalmSteps, CalmIds, IdDispatched, IdRun, IdInline, IdDrawn

\* However the threads interleave between ++m_request_id and dispatch, and
\* whatever callbacks request inline, no request id goes out twice: for every
\* number of threads and requests.
THEOREM RequestIdsUniqueThm == Spec => []RequestIdsUnique
<1>1. IdInv => RequestIdsUnique
  BY DEF IdInv, OnWireOnce, RequestIdsUnique
<1> QED  BY <1>1, IdInit, IdNext, TypeInit, TypeNext, PTL DEF Spec
-----------------------------------------------------------------------------
(***************************************************************************)
(* The tables and the answers                                              *)
(***************************************************************************)

tableVars == <<pending, response, request, m_subscription_handlers>>

LEMMA TablesUnchanged == TableInv /\ UNCHANGED tableVars => TableInv'
  BY DEF TableInv, TableOps, PendingUnanswered, HandlersInstalledOnce, tableVars, pending

\* A new request: its id is in no table, and nothing has answered it.
LEMMA TableRequested ==
    ASSUME TypeOK, TableInv, NEW id \in Ids, ~Spent(id), NEW op, NEW sub,
           \A i \in Ids : i # id => request'[i] = request[i],
           request'[id].op = op,
           UNCHANGED <<response, m_subscription_handlers>>,
           UNCHANGED pending \/ EmplaceAndSend(id, op, sub)
    PROVE  TableInv'
<1>1. id \notin Tables /\ response[id] = "unset"
  BY DEF Spent
<1>2. m_calls \subseteq Ids /\ m_register_requests \subseteq Ids
      /\ m_subscribe_requests \subseteq Ids /\ m_unsubscribe_requests \subseteq Ids
  BY DEF TypeOK, TypeRequests
<1>3. TableOps'
  BY <1>1, <1>2 DEF TableInv, TableOps, EmplaceAndSend, Tables, pending
<1>4. PendingUnanswered'
  BY <1>1 DEF TableInv, PendingUnanswered, EmplaceAndSend, pending
<1>5. HandlersInstalledOnce'
  <2>1. \A i \in Ids : (request'[i].op = "SUBSCRIBE" /\ response'[i] = "value")
                       <=> (request[i].op = "SUBSCRIBE" /\ response[i] = "value")
    BY <1>1
  <2> QED  BY <2>1 DEF TableInv, HandlersInstalledOnce
<1> QED  BY <1>3, <1>4, <1>5 DEF TableInv

\* An answer to a request that is no subscribe().
LEMMA TableAnswered ==
    ASSUME TypeOK, TableInv, NEW id \in Ids, NEW v,
           request[id].op # "SUBSCRIBE",
           response' = [response EXCEPT ![id] = v],
           id \notin m_subscribe_requests, id \notin m_unsubscribe_requests',
           UNCHANGED <<m_calls, m_subscribe_requests, m_register_requests>>,
           m_unsubscribe_requests' \subseteq m_unsubscribe_requests,
           UNCHANGED <<request, m_subscription_handlers>>
    PROVE  TableInv'
<1>1. \A i \in Ids : i # id => response'[i] = response[i]
  BY DEF TypeOK, TypeRequests
<1>2. m_subscribe_requests \subseteq Ids /\ m_unsubscribe_requests \subseteq Ids
  BY DEF TypeOK, TypeRequests
<1>3. TableOps' /\ PendingUnanswered'
  BY <1>1, <1>2 DEF TableInv, TableOps, PendingUnanswered
<1>4. \A i \in Ids : (request'[i].op = "SUBSCRIBE" /\ response'[i] = "value")
                     <=> (request[i].op = "SUBSCRIBE" /\ response[i] = "value")
  BY <1>1
<1>5. HandlersInstalledOnce'
  BY <1>4 DEF TableInv, HandlersInstalledOnce
<1> QED  BY <1>3, <1>5 DEF TableInv

\* SUBSCRIBED: the handler is installed as the future resolves.
LEMMA TableSubscribed ==
    ASSUME TypeOK, TableInv, ioq # <<>>, process_subscribed, UNCHANGED request
    PROVE  TableInv'
<1>1. CASE UNCHANGED <<m_subscription_handlers, response, m_subscribe_requests>>
  BY <1>1, TablesUnchanged DEF process_subscribed, tableVars, pending
<1>2. CASE Message.shape = "ok" /\ Message.id \in m_subscribe_requests
  <2> DEFINE id == Message.id
             s == Message.arg
             H == m_subscription_handlers
  <2>1. /\ id \in m_subscribe_requests /\ id \in Ids
        /\ request[id].op = "SUBSCRIBE" /\ response[id] = "unset"
    BY <1>2 DEF TypeOK, TypeRequests, TableInv, TableOps, PendingUnanswered
  <2>2. s \in SubIds
    BY MessageFields, FrameFields DEF process_subscribed
  <2>3. /\ H' = [H EXCEPT ![s] = Append(@, id)]
        /\ response' = [response EXCEPT ![id] = "value"]
        /\ m_subscribe_requests' = m_subscribe_requests \ {id}
        /\ UNCHANGED <<m_calls, m_unsubscribe_requests, m_register_requests, request>>
    BY <1>2, <2>1 DEF process_subscribed
  <2> HIDE DEF id, s
  <2>4. /\ response'[id] = "value" /\ \A i \in Ids : i # id => response'[i] = response[i]
    BY <2>1, <2>3 DEF TypeOK, TypeRequests
  <2>5. TableOps'
    BY <2>3 DEF TableInv, TableOps
  <2>6. PendingUnanswered'
    <3>1. id \notin m_subscribe_requests' \cup m_unsubscribe_requests'
      BY <2>1, <2>3 DEF TableInv, TableOps
    <3>2. m_subscribe_requests' \cup m_unsubscribe_requests'
            \subseteq m_subscribe_requests \cup m_unsubscribe_requests
      BY <2>3
    <3>3. m_subscribe_requests \cup m_unsubscribe_requests \subseteq Ids
      BY DEF TypeOK, TypeRequests
    <3> QED  BY <2>4, <3>1, <3>2, <3>3 DEF TableInv, PendingUnanswered
  <2>7. /\ H \in [SubIds -> Seq(Ids)] /\ H[s] \in Seq(Ids)
        /\ H'[s] = Append(H[s], id) /\ \A r \in SubIds : r # s => H'[r] = H[r]
    BY <2>2, <2>3 DEF TypeOK, TypeCallees
  <2>8. /\ DOMAIN H'[s] = 1..Len(H[s]) + 1 /\ DOMAIN H[s] = 1..Len(H[s]) /\ Len(H[s]) \in Nat
        /\ \A n \in 1..Len(H[s]) : H'[s][n] = H[s][n]
        /\ H'[s][Len(H[s]) + 1] = id
    BY <2>1, <2>7
  <2>9. \A r \in SubIds : \A n \in DOMAIN H'[r] :
           \/ n \in DOMAIN H[r] /\ H'[r][n] = H[r][n]
           \/ r = s /\ n = Len(H[s]) + 1 /\ H'[r][n] = id
    BY <2>7, <2>8
  <2>10. \A r \in SubIds : \A n \in DOMAIN H[r] :
           n \in DOMAIN H'[r] /\ H'[r][n] = H[r][n]
    BY <2>7, <2>8
  <2>11. \A r \in SubIds : \A n \in DOMAIN H[r] : H[r][n] # id
    BY <2>1 DEF TableInv, HandlersInstalledOnce
  <2>12. /\ Len(H[s]) + 1 \in DOMAIN H'[s]
    BY <2>8
  <2>13. \A i \in Ids :
           (\E r \in SubIds : \E n \in DOMAIN H'[r] : H'[r][n] = i)
           <=> (\E r \in SubIds : \E n \in DOMAIN H[r] : H[r][n] = i) \/ i = id
    BY <2>2, <2>8, <2>9, <2>10, <2>12
  <2>14. \A i \in Ids :
           (request'[i].op = "SUBSCRIBE" /\ response'[i] = "value")
           <=> (request[i].op = "SUBSCRIBE" /\ response[i] = "value") \/ i = id
    BY <2>1, <2>3, <2>4
  <2>15. \A r, u \in SubIds : \A n \in DOMAIN H'[r], m \in DOMAIN H'[u] :
            H'[r][n] = H'[u][m] => r = u /\ n = m
    BY <2>9, <2>11 DEF TableInv, HandlersInstalledOnce
  <2>16. HandlersInstalledOnce'
    BY <2>13, <2>14, <2>15 DEF TableInv, HandlersInstalledOnce
  <2> QED  BY <2>5, <2>6, <2>16 DEF TableInv
<1> QED  BY <1>1, <1>2 DEF process_subscribed

\* A message: what it answers, if it answers anything.
LEMMA TableMessage ==
    ASSUME TypeOK, TableInv, ioq # <<>>, got_message
    PROVE  TableInv'
<1>1. UNCHANGED request
  BY DEF got_message, app
<1>2. CASE UNCHANGED tableVars
  BY <1>2, TablesUnchanged
<1>3. CASE process_subscribed
  BY <1>1, <1>3, TableSubscribed
<1>4. CASE process_unsubscribed /\ ~UNCHANGED tableVars
  <2>1. Message.id \in m_unsubscribe_requests
    BY <1>1, <1>4 DEF process_unsubscribed, tableVars, pending, callees
  <2>2. /\ Message.id \in Ids /\ request[Message.id].op = "UNSUBSCRIBE"
        /\ response[Message.id] = "unset" /\ Message.id \notin m_subscribe_requests
    BY <2>1 DEF TypeOK, TypeRequests, TableInv, TableOps, PendingUnanswered
  <2>3. /\ response' = [response EXCEPT ![Message.id] = "value"]
        /\ m_unsubscribe_requests' = m_unsubscribe_requests \ {Message.id}
        /\ UNCHANGED <<m_calls, m_subscribe_requests, m_register_requests,
                       m_subscription_handlers>>
    BY <1>1, <1>4, <2>1, <2>2 DEF process_unsubscribed, callees, tableVars, pending
  <2>4. PICK i \in Ids : i = Message.id
    BY <2>2
  <2> QED  BY <1>1, <2>2, <2>3, <2>4, TableAnswered
<1>5. CASE (process_error \/ process_call_result \/ process_registered)
           /\ ~UNCHANGED tableVars
  <2>1. /\ UNCHANGED <<pending, m_subscription_handlers>>
        /\ Message.id \in m_calls \cup m_register_requests
        /\ \/ response' = [response EXCEPT ![Message.id] = "error"]
           \/ response' = [response EXCEPT ![Message.id] = "value"]
    BY <1>1, <1>5
    DEF process_error, process_call_result, process_registered, tableVars, callees
  <2>2. PICK i \in Ids : i = Message.id
    BY <2>1 DEF TypeOK, TypeRequests
  <2>3. /\ request[i].op \in {"CALL", "REGISTER"}
        /\ i \notin m_subscribe_requests /\ i \notin m_unsubscribe_requests
    BY <2>1, <2>2 DEF TableInv, TableOps
  <2> QED  BY <1>1, <2>1, <2>2, <2>3, TableAnswered DEF pending
<1>6. CASE process_welcome \/ process_goodbye \/ process_event \/ process_invocation
           \/ process_other
  <2>1. UNCHANGED tableVars
    BY <1>1, <1>6
    DEF process_welcome, process_goodbye, process_event, process_invocation,
        process_other, tableVars, callees
  <2> QED  BY <2>1, TablesUnchanged
<1> QED  BY <1>2, <1>3, <1>4, <1>5, <1>6 DEF got_message

\* A request, drawn, run by the io thread or made by a callback.
LEMMA TableRequest ==
    ASSUME TypeOK, IdInv, TableInv, NEW op, NEW sub,
           \/ \E t \in Threads : DrawOnThread(t, op, sub)
           \/ RequestInline(op, sub)
           \/ run_request
    PROVE  TableInv'
<1>1. CASE (\E t \in Threads : DrawOnThread(t, op, sub)) \/ RequestInline(op, sub)
  <2>1. PICK new \in Ids : /\ new = m_request_id + 1 /\ ~Spent(new)
    BY <1>1, NextId DEF DrawOnThread, RequestInline, Draw
  <2>2. /\ request' = [request EXCEPT ![new] = [op |-> op, sub |-> sub]]
        /\ UNCHANGED <<response, m_subscription_handlers>>
        /\ UNCHANGED pending \/ EmplaceAndSend(new, op, sub)
    BY <1>1, <2>1 DEF DrawOnThread, RequestInline, Draw, callees
  <2>3. request'[new].op = op /\ \A i \in Ids : i # new => request'[i] = request[i]
    BY <2>2 DEF TypeOK, TypeRequests
  <2> QED  BY <2>1, <2>2, <2>3, TableRequested
<1>2. CASE run_request
  <2>1. PICK id \in Ids : id = Head(ioq).id /\ ~Spent(id)
    BY <1>2, RequestTaken
  <2>2. PICK o, u : o = request[id].op /\ u = request[id].sub
    OBVIOUS
  <2>3. /\ UNCHANGED <<request, response, m_subscription_handlers>>
        /\ UNCHANGED pending \/ EmplaceAndSend(id, o, u)
    BY <1>2, <2>1, <2>2 DEF run_request, app, callees
  <2> QED  BY <2>1, <2>2, <2>3, TableRequested
<1> QED  BY <1>1, <1>2

LEMMA TableNext == TypeOK /\ IdInv /\ TableInv /\ [Next]_vars => TableInv'
<1> SUFFICES ASSUME TypeOK, IdInv, TableInv, [Next]_vars PROVE TableInv'
  OBVIOUS
<1>1. CASE UNCHANGED vars
  BY <1>1, TablesUnchanged DEF vars, app, callees, tableVars
<1>2. CASE PeerStep \/ CallbackEnds
  BY <1>2, TablesUnchanged
  DEF PeerStep, ReadCompletes, CallbackEnds, CallbackReturns, CallbackThrows, CatchThrows, app,
      callees, tableVars
<1>3. CASE IoStep
  <2>1. ASSUME NEW ec, handleRxError(ec) PROVE TableInv'
    BY <2>1, TablesUnchanged DEF handleRxError, app, callees, tableVars
  <2>2. CASE got_message_body
    <3>1. ioq # <<>>
      BY <2>2 DEF got_message_body, Runs
    <3> QED  BY <2>1, <2>2, <3>1, TableMessage DEF got_message_body
  <2>3. CASE got_message_header \/ got_handshake_reply \/ run_reply
    BY <2>1, <2>3, TablesUnchanged
    DEF got_message_header, got_handshake_reply, run_reply, app, callees, tableVars
  <2>4. CASE \E op \in LifecycleOps : RunLifecycle(op)
    BY <2>4, TablesUnchanged DEF RunLifecycle, app, callees, tableVars
  <2> QED  BY <1>3, <2>2, <2>3, <2>4, TableRequest DEF IoStep
<1>4. CASE AppStep
  <2>1. CASE start \/ (\E op \in LifecycleOps : Ask(op) \/ AskInline(op))
             \/ (\E t \in Threads : Dispatch(t))
             \/ (\E k \in DOMAIN invocation : Reply(k) \/ ReplyReturns(k) \/ ReplyInline(k))
    BY <2>1, TablesUnchanged
    DEF start, Ask, AskInline, Dispatch, Reply, ReplyReturns, ReplyInline, app, callees,
        tableVars
  <2> QED  BY <1>4, <2>1, TableRequest DEF AppStep
<1> QED  BY <1>1, <1>2, <1>3, <1>4 DEF Next

LEMMA TableInit == Init => TableInv
<1> SUFFICES ASSUME Init PROVE TableInv
  OBVIOUS
<1>1. TableOps /\ PendingUnanswered
  BY DEF Init, TableOps, PendingUnanswered
<1>2. \A s \in SubIds : m_subscription_handlers[s] = <<>>
  BY DEF Init
<1>3. \A i \in Ids : response[i] = "unset"
  BY DEF Init
<1>4. HandlersInstalledOnce
  BY <1>2, <1>3 DEF HandlersInstalledOnce
<1> QED  BY <1>1, <1>4 DEF TableInv

\* set_response() cannot throw for a SUBSCRIBED or UNSUBSCRIBED that finds its
\* request: what m_subscribe_requests and m_unsubscribe_requests hold has not
\* been answered, whatever the peer sends and however often.
THEOREM PendingUnansweredThm == Spec => []PendingUnanswered
<1>1. TableInv => PendingUnanswered
  BY DEF TableInv
<1> QED
  BY <1>1, IdInit, IdNext, TableInit, TableNext, TypeInit, TypeNext, PTL DEF Spec

\* A handler is in m_subscription_handlers, under one subscription and once,
\* exactly when the future of its subscribe() has resolved.
THEOREM HandlersInstalledOnceThm == Spec => []HandlersInstalledOnce
<1>1. TableInv => HandlersInstalledOnce
  BY DEF TableInv
<1> QED
  BY <1>1, IdInit, IdNext, TableInit, TableNext, TypeInit, TypeNext, PTL DEF Spec
-----------------------------------------------------------------------------
(***************************************************************************)
(* The replies of wamp_invocation: when no thread replies before the       *)
(* procedure that handed it the invocation has ended, an INVOCATION gets   *)
(* one reply.  With early replies it may get two (run found_double_reply). *)
(***************************************************************************)

Answer == {"REPLY"}
Replying(k) == Queued("reply", ioq, k)
Replied(k) == OnWire(Answer, out, k)

\* OneReply is not inductive: what is still sendable has no reply queued or
\* sent, and no thread is sending the invocation the io thread is in.
ReplyInv ==
    /\ QueuedOnce("reply", ioq)
    /\ OnWireOnce(Answer, out)
    /\ \A k : ~(Replying(k) /\ Replied(k))
    /\ \A k : Replying(k) \/ Replied(k) => k \in DOMAIN invocation /\ invocation[k] # "sendable"
    /\ InCallback /\ callback.inv # 0 => invocation[callback.inv] # "sending"
-----------------------------------------------------------------------------
(***************************************************************************)
(* Steps that have nothing to do with replies                              *)
(***************************************************************************)

Mute ==
    /\ invocation' = invocation
    /\ NoMoreQueued("reply", ioq, ioq')
    /\ NoMoreSent(Answer, out, out')
    /\ InCallback' => callback'.inv = 0 \/ (InCallback /\ callback'.inv = callback.inv)

LEMMA MuteReplies == ASSUME ReplyInv, Mute PROVE ReplyInv'
<1>1. QueuedOnce("reply", ioq') /\ OnWireOnce(Answer, out')
  BY DEF Mute, ReplyInv, NoMoreQueued, NoMoreSent
<1>2. \A k : (Replying(k)' => Replying(k)) /\ (Replied(k)' => Replied(k))
  BY DEF Mute, Replying, Replied, NoMoreQueued, NoMoreSent
<1> QED  BY <1>1, <1>2 DEF Mute, ReplyInv

\* The step stays in the same user code, or in none.
LEMMA MuteFrame ==
    ASSUME UNCHANGED <<invocation, callback>>,
           NoMoreQueued("reply", ioq, ioq'), NoMoreSent(Answer, out, out')
    PROVE  Mute
  BY DEF Mute, InCallback

LEMMA MuteLifecycle ==
    ASSUME TypeOK, NEW op \in LifecycleOps,
           Ask(op) \/ AskInline(op) \/ RunLifecycle(op)
    PROVE  Mute
<1>1. UNCHANGED <<invocation, callback>>
  BY DEF Ask, AskInline, RunLifecycle, callees
<1>2. ioq \in Seq(Handler)
  BY DEF TypeOK, TypeQueue
<1>3. ASSUME NEW q \in Seq(Handler), Effect(op, q), NoMoreQueued("reply", ioq, q)
      PROVE  NoMoreQueued("reply", ioq, ioq') /\ NoMoreSent(Answer, out, out')
  <2>1. CASE op = "join" /\ JoinEffect(q)
    BY <1>3, <2>1, WireSent DEF JoinEffect, Answer
  <2>2. CASE op = "leave" /\ LeaveEffect(q)
    BY <1>3, <2>2, WireSent DEF LeaveEffect, Answer
  <2>3. CASE op = "stop" /\ StopEffect(q)
    BY <1>3, <2>3, WireSame, QueueCompletions, QueueTransitive DEF StopEffect
  <2> QED  BY <1>3, <2>1, <2>2, <2>3 DEF Effect
<1>4. CASE Ask(op)
  <2>1. Lambda(op, 0).run # "reply"
    BY DEF Lambda, LifecycleOps
  <2> QED  BY <1>1, <1>2, <1>4, <2>1, MuteFrame, QueueAppend, WireSame DEF Ask
<1>5. CASE AskInline(op)
  BY <1>1, <1>2, <1>3, <1>5, MuteFrame, QueueSame DEF AskInline
<1>6. CASE RunLifecycle(op)
  <2>1. Tail(ioq) \in Seq(Handler) /\ NoMoreQueued("reply", ioq, Tail(ioq))
    BY <1>2, <1>6, QueueTail DEF RunLifecycle, Runs
  <2> QED  BY <1>1, <1>3, <1>6, <2>1, MuteFrame, WireSame DEF RunLifecycle
<1> QED  BY <1>4, <1>5, <1>6

LEMMA MuteRxError ==
    ASSUME TypeOK, ioq # <<>>, NEW ec, handleRxError(ec)
    PROVE  Mute
<1>1. Tail(ioq) \in Seq(Handler) /\ NoMoreQueued("reply", ioq, Tail(ioq))
  BY QueueTail DEF TypeOK, TypeQueue
<1>2. NoMoreQueued("reply", ioq, ioq')
  BY <1>1, QueueCompletions, QueueTransitive DEF handleRxError
<1>3. NoMoreSent(Answer, out, out')
  BY WireSent, WireSame DEF handleRxError, Answer
<1> QED  BY <1>2, <1>3, MuteFrame DEF handleRxError, callees

\* A request is no reply, in the queue and on the wire.
LEMMA MuteRequest ==
    ASSUME TypeOK,
           \/ \E t \in Threads : Dispatch(t)
           \/ run_request
           \/ \E op \in Ops : \E sub \in Argument(op) :
                 RequestInline(op, sub) \/ \E t \in Threads : DrawOnThread(t, op, sub)
    PROVE  Mute
<1>1. ioq \in Seq(Handler)
  BY DEF TypeOK, TypeQueue
<1>2. ASSUME NEW id, NEW op \in RequestOps \cup {"none"}, NEW sub,
             UNCHANGED out \/ EmplaceAndSend(id, op, sub)
      PROVE  NoMoreSent(Answer, out, out')
  BY <1>2, WireSent, WireSame DEF EmplaceAndSend, RequestOps, Answer
<1>3. ASSUME NEW t \in Threads, Dispatch(t) PROVE Mute
  <2>1. Lambda("request", thread[t]).run # "reply"
    BY DEF Lambda
  <2> QED  BY <1>1, <1>3, <2>1, MuteFrame, QueueAppend, WireSame DEF Dispatch, callees
<1>4. CASE run_request
  <2>1. NoMoreQueued("reply", ioq, ioq')
    BY <1>1, <1>4, QueueTail DEF run_request, Runs
  <2>2. PICK id, op, sub : /\ op \in RequestOps \cup {"none"}
                           /\ UNCHANGED out \/ EmplaceAndSend(id, op, sub)
    <3>1. CASE UNCHANGED out
      BY <3>1
    <3>2. CASE m_session_id # 0
      <4>1. Head(ioq).id \in Ids
        BY <1>1, <1>4 DEF run_request, Runs, Handler, LifecycleOps, ReadHandlers
      <4>2. request[Head(ioq).id].op \in RequestOps \cup {"none"}
        BY <4>1 DEF TypeOK, TypeRequests
      <4> QED  BY <1>4, <3>2, <4>2 DEF run_request
    <3> QED  BY <1>4, <3>1, <3>2 DEF run_request
  <2> QED  BY <1>2, <1>4, <2>1, <2>2, MuteFrame DEF run_request, callees
<1>5. ASSUME NEW op \in Ops, NEW sub, RequestInline(op, sub) PROVE Mute
  <2>1. NoMoreSent(Answer, out, out')
    BY <1>2, <1>5, UseAssumption DEF RequestInline
  <2> QED  BY <1>5, <2>1, MuteFrame, QueueSame DEF RequestInline, callees
<1>6. ASSUME NEW op, NEW sub, NEW t \in Threads, DrawOnThread(t, op, sub) PROVE Mute
  BY <1>6, MuteFrame, QueueSame, WireSame DEF DrawOnThread, callees
<1> QED  BY <1>3, <1>4, <1>5, <1>6

\* The reads and the handler that returns.
LEMMA MuteRead ==
    ASSUME TypeOK,
           \/ start \/ got_handshake_reply \/ got_message_header \/ CallbackReturns
           \/ \E ec, f : ReadCompletes(ec, f)
    PROVE  Mute
<1>1. ioq \in Seq(Handler)
  BY DEF TypeOK, TypeQueue
<1>2. ASSUME ioq # <<>>
      PROVE  Tail(ioq) \in Seq(Handler) /\ NoMoreQueued("reply", ioq, Tail(ioq))
  BY <1>1, <1>2, QueueTail
<1>3. CASE start
  BY <1>3, MuteFrame, QueueSame, WireSame DEF start, callees
<1>4. CASE got_handshake_reply
  <2>1. NoMoreQueued("reply", ioq, ioq')
    BY <1>2, <1>4, QueueCompletions, QueueTransitive DEF got_handshake_reply, Runs, ReadHandlers
  <2> QED  BY <1>4, <2>1, MuteFrame, WireSame DEF got_handshake_reply, callees
<1>5. CASE got_message_header
  <2>1. CASE handleRxError(Head(ioq).ec)
    BY <1>5, <2>1, MuteRxError DEF got_message_header, Runs
  <2>2. CASE AsyncRead("got_message_body", Tail(ioq)) /\ UNCHANGED <<callees, callback, out>>
    BY <1>2, <1>5, <2>2, MuteFrame, QueueCompletions, QueueTransitive, WireSame
    DEF got_message_header, Runs, ReadHandlers, callees
  <2> QED  BY <1>5, <2>1, <2>2 DEF got_message_header
<1>6. CASE CallbackReturns
  <2>1. NoMoreQueued("reply", ioq, ioq')
    BY <1>1, <1>6, QueueCompletions, QueueSame DEF CallbackReturns
  <2> QED  BY <1>6, <2>1, WireSame DEF CallbackReturns, Mute, callees
<1>7. ASSUME NEW ec, NEW f, ReadCompletes(ec, f) PROVE Mute
  <2>1. Completion(read, ec, f).run # "reply"
    BY <1>7 DEF ReadCompletes, Completion, TypeOK, TypeQueue, ReadHandlers
  <2> QED  BY <1>1, <1>7, <2>1, MuteFrame, QueueAppend, WireSame DEF ReadCompletes, callees
<1> QED  BY <1>3, <1>4, <1>5, <1>6, <1>7

\* A message that is no INVOCATION.
LEMMA MuteMessage ==
    ASSUME TypeOK, Runs("got_message_body"), got_message, ~process_invocation
    PROVE  Mute
<1>1. /\ ~InCallback /\ ioq # <<>>
      /\ Tail(ioq) \in Seq(Handler) /\ NoMoreQueued("reply", ioq, Tail(ioq))
  BY QueueTail DEF Runs, TypeOK, TypeQueue
<1>2. ASSUME NEW e, Done \/ Throws(e) PROVE NoMoreQueued("reply", ioq, ioq')
  BY <1>1, <1>2, QueueCompletions, QueueTransitive DEF Done, Throws
<1>3. CASE process_welcome \/ process_error \/ process_call_result \/ process_other
  <2>1. NoMoreQueued("reply", ioq, ioq')
    BY <1>2, <1>3 DEF process_welcome, process_error, process_call_result, process_other
  <2> QED
    BY <1>3, <2>1, MuteFrame, WireSame
    DEF process_welcome, process_error, process_call_result, process_other, callees
<1>4. CASE process_goodbye
  <2>1. NoMoreQueued("reply", ioq, ioq')
    BY <1>2, <1>4 DEF process_goodbye
  <2>2. NoMoreSent(Answer, out, out')
    BY <1>4, WireSent, WireSame DEF process_goodbye, Answer
  <2> QED  BY <1>4, <2>1, <2>2, MuteFrame DEF process_goodbye, callees
<1>5. CASE process_subscribed \/ process_unsubscribed \/ process_registered
  <2>1. NoMoreQueued("reply", ioq, ioq')
    BY <1>2, <1>5 DEF process_subscribed, process_unsubscribed, process_registered
  <2> QED
    BY <1>5, <2>1, MuteFrame, WireSame
    DEF process_subscribed, process_unsubscribed, process_registered, callees
<1>6. CASE process_event
  <2>1. NoMoreQueued("reply", ioq, ioq')
    BY <1>1, <1>2, <1>6 DEF process_event
  <2>2. callback'.inv = 0 \/ callback' = callback
    BY <1>6 DEF process_event
  <2> QED  BY <1>6, <2>1, <2>2, WireSame DEF process_event, Mute, callees, InCallback
<1> QED  BY <1>3, <1>4, <1>5, <1>6 DEF got_message
-----------------------------------------------------------------------------
(***************************************************************************)
(* The life of an invocation                                               *)
(***************************************************************************)

\* It arrives: nobody has replied to it.
LEMMA ReplyInvocation ==
    ASSUME TypeOK, ReplyInv, Runs("got_message_body"), process_invocation
    PROVE  ReplyInv'
<1>1. CASE UNCHANGED <<invocation, callback>>
  <2>1. /\ ioq # <<>> /\ Tail(ioq) \in Seq(Handler)
        /\ NoMoreQueued("reply", ioq, Tail(ioq))
    BY QueueTail DEF Runs, TypeOK, TypeQueue
  <2>2. ASSUME NEW e, Throws(e) PROVE NoMoreQueued("reply", ioq, ioq')
    BY <2>1, <2>2 DEF Throws
  <2>3. NoMoreQueued("reply", ioq, ioq')
    BY <2>1, <2>2 DEF process_invocation
  <2> QED  BY <1>1, <2>3, MuteFrame, MuteReplies, WireSame DEF process_invocation
<1>2. CASE /\ invocation' = Append(invocation, "sendable")
           /\ callback'.inv = Len(invocation) + 1
           /\ ioq' = Tail(ioq)
  <2>1. /\ DOMAIN invocation' = 1..Len(invocation) + 1 /\ Len(invocation) \in Nat
        /\ DOMAIN invocation = 1..Len(invocation)
        /\ \A k \in DOMAIN invocation : invocation'[k] = invocation[k]
        /\ invocation'[Len(invocation) + 1] = "sendable"
    BY <1>2 DEF TypeOK, TypeCallees
  <2>2. NoMoreQueued("reply", ioq, ioq') /\ out' = out
    BY <1>2, QueueTail DEF Runs, TypeOK, TypeQueue, process_invocation
  <2>3. \A k : (Replying(k)' => Replying(k)) /\ (Replied(k)' => Replied(k))
    BY <2>2 DEF Replying, Replied, NoMoreQueued
  <2>4. QueuedOnce("reply", ioq') /\ OnWireOnce(Answer, out')
    BY <2>2 DEF ReplyInv, NoMoreQueued
  <2>5. \A k : Replying(k)' \/ Replied(k)'
               => k \in DOMAIN invocation' /\ invocation'[k] # "sendable"
    BY <2>1, <2>3 DEF ReplyInv
  <2>6. invocation'[callback'.inv] # "sending"
    BY <1>2, <2>1
  <2> QED  BY <2>3, <2>4, <2>5, <2>6 DEF ReplyInv
<1>3. \/ UNCHANGED <<invocation, callback>>
      \/ /\ invocation' = Append(invocation, "sendable")
         /\ callback'.inv = Len(invocation) + 1
         /\ ioq' = Tail(ioq)
  BY DEF process_invocation
<1> QED  BY <1>1, <1>2, <1>3

\* A thread calls m_send_result_fn; it is not in the procedure of the io thread.
LEMMA ReplySends ==
    ASSUME TypeOK, ReplyInv, ~EarlyReplies, NEW k \in DOMAIN invocation, Reply(k)
    PROVE  ReplyInv'
<1>1. /\ invocation[k] = "sendable" /\ invocation' = [invocation EXCEPT ![k] = "sending"]
      /\ ioq' = Append(ioq, Lambda("reply", k)) /\ ioq \in Seq(Handler)
      /\ UNCHANGED <<callback, out>> /\ ~(InCallback /\ callback.inv = k)
  BY DEF Reply, TypeOK, TypeQueue
<1>2. ~Replying(k) /\ ~Replied(k)
  BY <1>1 DEF ReplyInv
<1>3. /\ \A i : Replying(i)' => Replying(i) \/ i = k
      /\ QueuedOnce("reply", ioq')
  BY <1>1, <1>2, QueueLambda DEF Replying, ReplyInv
<1>4. \A i : Replied(i)' <=> Replied(i)
  BY <1>1 DEF Replied
<1>5. /\ DOMAIN invocation' = DOMAIN invocation /\ invocation'[k] = "sending"
      /\ \A i \in DOMAIN invocation : i # k => invocation'[i] = invocation[i]
  BY <1>1 DEF TypeOK, TypeCallees
<1>6. OnWireOnce(Answer, out')
  BY <1>1 DEF ReplyInv
<1>7. \A i : ~(Replying(i)' /\ Replied(i)')
  BY <1>2, <1>3, <1>4 DEF ReplyInv
<1>8. \A i : Replying(i)' \/ Replied(i)'
             => i \in DOMAIN invocation' /\ invocation'[i] # "sendable"
  BY <1>3, <1>4, <1>5 DEF ReplyInv
<1>9. InCallback' /\ callback'.inv # 0 => invocation'[callback'.inv] # "sending"
  <2>1. InCallback /\ callback.inv # 0 => callback.inv \in DOMAIN invocation
    BY DEF TypeOK, TypeCallees
  <2> QED  BY <1>1, <1>5, <2>1 DEF ReplyInv, InCallback
<1> QED  BY <1>3, <1>6, <1>7, <1>8, <1>9 DEF ReplyInv

\* It clears m_send_result_fn.
LEMMA ReplyCleared ==
    ASSUME TypeOK, ReplyInv, NEW k \in DOMAIN invocation, ReplyReturns(k)
    PROVE  ReplyInv'
<1>1. /\ DOMAIN invocation' = DOMAIN invocation /\ invocation'[k] = "replied"
      /\ \A i \in DOMAIN invocation : i # k => invocation'[i] = invocation[i]
      /\ UNCHANGED <<ioq, out, callback>>
  BY DEF ReplyReturns, TypeOK, TypeCallees
<1>2. \A i : (Replying(i)' <=> Replying(i)) /\ (Replied(i)' <=> Replied(i))
  BY <1>1 DEF Replying, Replied
<1>3. \A i : Replying(i)' \/ Replied(i)'
             => i \in DOMAIN invocation' /\ invocation'[i] # "sendable"
  BY <1>1, <1>2 DEF ReplyInv
<1>4. InCallback' /\ callback'.inv # 0 => invocation'[callback'.inv] # "sending"
  <2>1. InCallback /\ callback.inv # 0 => callback.inv \in DOMAIN invocation
    BY DEF TypeOK, TypeCallees
  <2> QED  BY <1>1, <2>1 DEF ReplyInv, InCallback
<1> QED  BY <1>1, <1>2, <1>3, <1>4 DEF ReplyInv

\* The io thread replies at once: in a callback, or because the procedure threw.
LEMMA ReplyAtOnce ==
    ASSUME TypeOK, ReplyInv, NEW k \in DOMAIN invocation, invocation[k] = "sendable",
           invocation' = [invocation EXCEPT ![k] = "replied"],
           out' = Sent("REPLY", k, 0), NoMoreQueued("reply", ioq, ioq'),
           InCallback' => InCallback /\ callback'.inv = callback.inv
    PROVE  ReplyInv'
<1>1. ~Replying(k) /\ ~Replied(k)
  BY DEF ReplyInv
<1>2. /\ \A i : Replied(i)' => Replied(i) \/ i = k
      /\ OnWireOnce(Answer, out')
  BY <1>1, WireMessage DEF Replied, ReplyInv
<1>3. /\ QueuedOnce("reply", ioq') /\ \A i : Replying(i)' => Replying(i)
  BY DEF ReplyInv, NoMoreQueued, Replying
<1>4. /\ DOMAIN invocation' = DOMAIN invocation /\ invocation'[k] = "replied"
      /\ \A i \in DOMAIN invocation : i # k => invocation'[i] = invocation[i]
  BY DEF TypeOK, TypeCallees
<1>5. \A i : ~(Replying(i)' /\ Replied(i)')
  BY <1>1, <1>2, <1>3 DEF ReplyInv
<1>6. \A i : Replying(i)' \/ Replied(i)'
             => i \in DOMAIN invocation' /\ invocation'[i] # "sendable"
  BY <1>2, <1>3, <1>4 DEF ReplyInv
<1>7. InCallback' /\ callback'.inv # 0 => invocation'[callback'.inv] # "sending"
  <2>1. InCallback /\ callback.inv # 0 => callback.inv \in DOMAIN invocation
    BY DEF TypeOK, TypeCallees
  <2> QED  BY <1>4, <2>1 DEF ReplyInv
<1> QED  BY <1>2, <1>3, <1>5, <1>6, <1>7 DEF ReplyInv

LEMMA ReplyThrown ==
    ASSUME TypeOK, ReplyInv, CallbackThrows
    PROVE  ReplyInv'
<1> PICK k : k = callback.inv
  OBVIOUS
<1>1. /\ NoMoreQueued("reply", ioq, ioq') /\ ~InCallback'
  BY QueueCompletions DEF CallbackThrows, TypeOK, TypeQueue, InCallback
<1>2. CASE k # 0 /\ invocation[k] # "replied"
  <2>1. k \in DOMAIN invocation /\ invocation[k] = "sendable"
    BY <1>2 DEF TypeOK, TypeCallees, ReplyInv, CallbackThrows
  <2>2. out' = Sent("REPLY", k, 0) /\ invocation' = [invocation EXCEPT ![k] = "replied"]
    BY <1>2 DEF CallbackThrows
  <2> QED  BY <1>1, <2>1, <2>2, ReplyAtOnce
<1>3. CASE ~(k # 0 /\ invocation[k] # "replied")
  <2>1. out' = out /\ invocation' = invocation
    BY <1>3 DEF CallbackThrows
  <2> QED  BY <1>1, <2>1, MuteReplies, WireSame DEF Mute
<1> QED  BY <1>2, <1>3

\* The lambda of a thread's reply runs: the reply goes from the queue to the wire.
LEMMA ReplyRun ==
    ASSUME TypeOK, ReplyInv, run_reply
    PROVE  ReplyInv'
<1> PICK k : k = Head(ioq).id
  OBVIOUS
<1>1. /\ ioq \in Seq(Handler) /\ ioq # <<>> /\ Head(ioq).run = "reply" /\ ioq' = Tail(ioq)
      /\ out' = Sent("REPLY", k, 0) /\ UNCHANGED <<invocation, callback>>
  BY DEF run_reply, Runs, TypeOK, TypeQueue, callees
<1>2. Replying(k) /\ ~Replying(k)' /\ ~Replied(k)
  BY <1>1, QueueTaken DEF ReplyInv, Replying
<1>3. NoMoreQueued("reply", ioq, ioq')
  BY <1>1, QueueTail
<1>4. /\ \A i : Replied(i)' => Replied(i) \/ i = k
      /\ OnWireOnce(Answer, out')
  BY <1>1, <1>2, WireMessage DEF Replied, ReplyInv
<1>5. /\ QueuedOnce("reply", ioq') /\ \A i : Replying(i)' => Replying(i)
  BY <1>3 DEF ReplyInv, NoMoreQueued, Replying
<1>6. \A i : ~(Replying(i)' /\ Replied(i)')
  BY <1>2, <1>4, <1>5 DEF ReplyInv
<1>7. \A i : Replying(i)' \/ Replied(i)'
             => i \in DOMAIN invocation' /\ invocation'[i] # "sendable"
  BY <1>1, <1>2, <1>4, <1>5 DEF ReplyInv
<1>8. InCallback' /\ callback'.inv # 0 => invocation'[callback'.inv] # "sending"
  BY <1>1 DEF ReplyInv, InCallback
<1> QED  BY <1>4, <1>5, <1>6, <1>7, <1>8 DEF ReplyInv
-----------------------------------------------------------------------------
(***************************************************************************)
(* Every step                                                              *)
(***************************************************************************)

LEMMA ReplyInit == Init => ReplyInv
  BY DEF Init, ReplyInv, Replying, Replied, Queued, OnWire, QueuedOnce, OnWireOnce, InCallback

LEMMA ReplyNext ==
    ASSUME TypeOK, ReplyInv, ~EarlyReplies, [Next]_vars
    PROVE  ReplyInv'
<1>1. CASE UNCHANGED vars
  BY <1>1, MuteFrame, MuteReplies, QueueSame, WireSame DEF vars, callees
<1>2. CASE PeerStep
  BY <1>2, MuteRead, MuteReplies DEF PeerStep
<1>3. CASE CallbackEnds
  BY <1>3, MuteRead, MuteReplies, ReplyThrown DEF CallbackEnds, CatchThrows
<1>4. CASE IoStep
  <2>1. CASE got_message_body
    <3>1. Runs("got_message_body") /\ ioq # <<>>
      BY <2>1 DEF got_message_body, Runs
    <3>2. CASE handleRxError(Head(ioq).ec)
      BY <3>1, <3>2, MuteRxError, MuteReplies
    <3>3. CASE got_message /\ process_invocation
      BY <3>1, <3>3, ReplyInvocation
    <3>4. CASE got_message /\ ~process_invocation
      BY <3>1, <3>4, MuteMessage, MuteReplies
    <3> QED  BY <2>1, <3>2, <3>3, <3>4 DEF got_message_body
  <2> QED
    BY <1>4, <2>1, MuteLifecycle, MuteRequest, MuteRead, MuteReplies, ReplyRun DEF IoStep
<1>5. CASE AppStep
  <2>1. ASSUME NEW k \in DOMAIN invocation, ReplyInline(k) PROVE ReplyInv'
    BY <2>1, ReplyAtOnce, QueueSame DEF ReplyInline, InCallback
  <2> QED
    BY <1>5, <2>1, MuteRead, MuteLifecycle, MuteRequest, MuteReplies, ReplySends, ReplyCleared
    DEF AppStep
<1> QED  BY <1>1, <1>2, <1>3, <1>4, <1>5 DEF Next

\* Unless a thread replies while the procedure still runs, an INVOCATION gets at
\* most one YIELD or ERROR, whichever of the procedure, its exception and the
\* thread it handed the invocation to replies.
THEOREM OneReplyThm == ASSUME ~EarlyReplies PROVE Spec => []OneReply
<1>1. ReplyInv => OneReply
  BY DEF ReplyInv, OnWireOnce, Answer, OneReply
<1>2. TypeOK /\ ReplyInv /\ [Next]_vars => ReplyInv'
  BY ReplyNext
<1> QED  BY <1>1, <1>2, ReplyInit, TypeInit, TypeNext, PTL DEF Spec
=============================================================================
