# AutobahnCpp in TLA+

A verification development of AutobahnCpp, a C++ WAMP client: TLA+ modules of
its core, TLC configurations that check them on small instances, and TLAPS
proofs for every instance. Line numbers refer to files under `src/`.

To use it: `tlc -config <run>.cfg <MC module>` for a run of the table below,
`tlapm <module>_proofs.tla` for the proofs.

## 1. The system and its parts

| Component | State | Operations | Modelled |
|---|---|---|---|
| `wamp_session` (`autobahn/wamp_session.{hpp,ipp}`) | request counter, session id, flags, four promises, tables of pending requests, handlers, procedures, read buffer | `start`, `join`, `leave`, `stop`, `call`, `subscribe`, `unsubscribe`, `provide`, `publish`; the completion handlers `got_handshake_reply`, `got_message_header`, `got_message_body`; `process_*` for each message; `handleRxError` | `WampSession` |
| request objects (`wamp_call`, `wamp_subscribe_request`, ...) | one promise, a handler or procedure | `set_response` / `result().set_value` | in `WampSession` |
| `wamp_invocation` | arguments, details, `m_send_result_fn` | `result`, `empty_result`, `error`, `sendable`; accessors | reply in `WampSession`, accessors in `WampArguments` |
| `wamp_call_result` | arguments, the msgpack zone it owns | special member functions; accessors | `WampCallResult`, `WampArguments` |
| `wamp_event` | arguments, not owned | accessors | `WampArguments` |
| the programs of `examples/` and the router they talk to | the future chain of `main` | start, join, use, leave, stop | `WampRouter` |
| `wamp_tcp_client` (`autobahn/wamp_tcp_client.hpp`) | socket, session, the promise of `launch`, `m_isConnected` | `launch` and its continuations, `handleRxError`, `operator->`, the destructor | `WampTcpClient`, `ClientLife` |
| domain discovery (`examples/acs/CDomainDiscoveryManager`, `CInterfaceChangeNotifier`) | queue of announcements, timers, known interfaces, known domains | `launch`, `sendToAllInterfaces`, `sendHeartBeat`, `resolveInterfaces`, `joinGroup`, `onReceive`, `erase` | `DomainDiscovery`; `onReceive` and `erase` in `Backplane` |
| backplane (`examples/acs/CBackplane`) | map of clients, outstanding futures, listener, announcer | `main`, `launchClient`, `connectToNewDomain`, `proxy` | `Backplane` |
| `wamp_publication`, interface addresses, parameters, tests | - | - | no: no state, system calls, command lines, experiments with `boost::future` |

How they interact. The application's threads call the public operations, which
draw a request id (`++m_request_id`), `dispatch` a lambda to the `io_service`
and return a future. One thread runs the `io_service`: the lambdas, the
completions of `async_read`, and from them the event handlers and procedures of
the application. These may call the session again, and then `dispatch` runs the
lambda on the spot. A procedure may hand its invocation to a thread that replies
later. What an exception does depends on where it is thrown: from a queued
handler it leaves `io_service::run` (the examples' `main` then returns 1); from
an inline lambda it goes to the callback; from a callback it is caught by the
session, which logs it or answers with ERROR.

A `wamp_tcp_client` owns a socket and a session over it. `launch` connects on
the io thread; `start` and `join` follow in continuations, which run on threads
of their own; a read error of the session becomes `m_onDisconnect` on the io
thread. The backplane keeps one client for its local router and one for each
domain it hears of. The listener's datagrams, the clients' signals, the
procedures and dispatched lambdas touch its map on the io thread; the
continuations of `launch` provide a prefix at the local router or dispatch an
erase; each proxied call is waited for by a detached thread. Announcer and
notifier are launched from a continuation and live on in handlers of the io
thread.

What is hard here, and what makes each part correct:

- *the session's life*: `join`, `leave`, `stop`, GOODBYEs of both sides and read
  errors arrive in any order, and each promise can be set once. Said goodbye, the
  session is not joined again; `leave` resolves; a reported error finds
  everything shut down.
- *the read loop*: it is re-armed from several places, and two reads would share
  one buffer. There is one read at a time, and `stop` ends the loop.
- *requests*: ids are drawn on one thread and used on another, answers come in
  any order, twice, or wrongly. Ids are unique on the wire, what is pending is
  unanswered, handlers are installed once.
- *invocations*: a reply may race with the end of its procedure. There is one
  reply for each, as long as one at a time replies.
- *results*: pointers into memory another object may own. Nothing dangles, and
  results behave as values.

- *the client*: three statements of a continuation race with the signals of the io
  thread, the application may use the session before the client has joined it,
  and the socket may go before the session. `launch` resolves once and rightly,
  and only a client that was joined reports a disconnect.
- *discovery*: a chain of handlers begun on another thread than it runs on, over
  interfaces that vanish, appear and flap. There is one chain, its queue is
  bounded, and an interface that stays up is announced and joined.
- *the backplane*: a domain is known in two containers that are erased from two
  places, and its client fails, disconnects and is replaced at any time. Both
  agree, no erase hits a newer client, and a domain that announces itself is
  connected and its prefix provided.

`PROJECT.json` lists the hazards, line by line, and the properties that cover
them.

## 2. The modules

| Module | What it is |
|---|---|
| `WampSession` | the session with an arbitrary peer and an arbitrary application |
| `MCSession` | instances of it |
| `WampSession_proofs`, `WampRequests_proofs` | theorems about it: types, life and read loop; requests, handlers and replies to invocations |
| `WampRouter` | `WampSession` composed with a conforming router, a connection that may be lost, and an application that uses the session as the examples do |
| `MCRouter` | instances of it |
| `WampRouter_proofs`, `WampRouterExchange_proofs` | what carries over from the session, and the invariant of the exchange; that it is inductive, action by action, and what follows |
| `ResultValues` | abstract: what a result promises, as a value |
| `WampCallResult` | the special member functions of `wamp_call_result` and who owns which zone; implements `ResultValues` |
| `WampArguments` | the accessors of the arguments of a `WampCallResult`, compared with the list and the dictionary as functions |
| `MCCallResult`, `WampCallResult_proofs` | instances of both, and theorems about both |
| `ClientLife` | abstract: what a client shows of its life to the program that launched it |
| `WampTcpClient` | `launch`, its continuations and the destructor on top of `WampSession`; implements `ClientLife` |
| `MCTcpClient`, `WampTcpClient_proofs` | instances and theorems |
| `DomainDiscovery` | announcer, interface notifier and the listener's multicast group |
| `MCDiscovery`, `DomainDiscovery_proofs` | instances and theorems |
| `Backplane` | the backplane over many clients, each a `ClientLife` |
| `MCBackplane`, `Backplane_proofs` | instances and theorems |

`WampRouter` and `WampTcpClient` extend `WampSession`; `WampArguments` extends
`WampCallResult`. `Backplane` uses a client through `ClientLife` alone, which is
sound because `WampTcpClient` is proved to implement it, and assumes of the
announcements what `KeepsAnnouncing` says of `DomainDiscovery`. Each `MC` module
extends one of these and adds the constants of its instances.

### WampSession

The variables `m_*` are the members of the class. A promise is "unset" or what
it was set to; a request is its id, and `response[id]` is its promise; a handler
or procedure is named by the request that supplied it. `ioq` is the queue of the
`io_service`, `read` the outstanding `async_read`, `callback` the user code the io
thread is in, `thread[t]` the id thread `t` has drawn and not yet dispatched,
`out` every message handed to the output stream, `io` the exception that left
`io_service::run`.

| Action | Code |
|---|---|
| `start`, `Ask(op)`, `RunLifecycle(op)` | a public operation on a thread: queueing, then its lambda |
| `AskInline(op)`, `RequestInline(op, sub)` | the same from a callback, where `dispatch` is immediate |
| `DrawOnThread`, `Dispatch`, `run_request` | the three steps of a request: id, dispatch, lambda |
| `Reply`, `ReplyReturns`, `ReplyInline`, `run_reply` | `wamp_invocation::result` and the like: calling `m_send_result_fn` and clearing it are two steps |
| `ReadCompletes` | the reactor completes the read with a frame or an error |
| `got_handshake_reply`, `got_message_header`, `got_message_body` | the completion handlers |
| `process_*` | one for each kind of message, its checks in the order of the code |
| `handleRxError` | promise, leave, stop, signal, with every point at which it may throw |
| `CallbackReturns`, `CallbackThrows`, `CatchThrows` | the end of a handler or procedure; in the last, a thread takes the reply between the `sendable()` and the `error()` of a catch block |

Data is reduced to what the control flow tells apart: a frame is its type, the
id and argument it carries, and a shape that says whether a field check fails
before or after the lookup.

Assumptions: one io thread; the session object outlives its handlers (every
`weak_ptr::lock` succeeds); `start` is called once; a frame carries one message;
one thread at a time holds an invocation besides the callbacks, and whether it
may reply while one of them can reply too is `EarlyReplies`; an exception
from `io_service::run` ends the program. A write to a lost connection is
swallowed by `send`, so `out` is what was handed to the stream, not what
arrived. An inline call that is refused changes nothing and has no step.

### WampRouter

Adds the wire, the router's bookkeeping, the loss of the connection and the main
program. The router is external: it answers HELLO with WELCOME and GOODBYE with
GOODBYE, answers each request once and in any order with the right message or
ERROR, pushes events and invocations for what is subscribed and registered, and
says nothing after its GOODBYE. Its constants choose whether it may refuse,
close by itself, or lose the connection. The main program is the future chain of
`examples/caller.cpp` and `examples/callee2.cpp`: join after the handshake,
requests while joined, `stop` after `leave` has resolved. It joins whatever
`start` came to, as the examples do.

### WampCallResult and ResultValues

`m_zone[s]` is the zone object `s` owns, `m_arguments[s]` and
`m_kw_arguments[s]` are where its two msgpack objects are: a zone, or the static
empty ones. A freed zone's address may be given out again at once, which is what
makes a dangling reference visible as a changed value. `ValueOf` maps each object
to what it reads, and `ValueSemantics` says that under this mapping every special
member function is a creation, a copy, a move or a destruction.

### WampArguments

In every state of `WampCallResult`, for every object: a result whose list is the
static empty one reads as the empty list, any other as every list of up to
`MaxItems` items, and dictionaries alike. Keys are sequences so that one may be a
prefix of another; an argument is its type and position; `as<T>` succeeds exactly
on the same type. `AccessorsExact` says what is found, where, and what a missing
key or index gives. A dictionary has a key once. The overloads for `char*` are the
same loops, but for `kw_argument_or`: the one with a `char*` key throws its
fallback (`wamp_invocation.ipp:183`, `wamp_call_result.ipp:189`,
`wamp_event.ipp:135`) instead of returning it, so there are two operators;
`AccessorsExact` states both as they are.

### ClientLife and WampTcpClient

`ClientLife` is relations between two states of a record: whether `launch` is
pending, false or true, `isConnected`, joined, gone. Its surprises are the
code's: the flag rises on failure too and never falls, it starts uninitialised
in one constructor, and a disconnect may come before `launch` resolves.

| Action of `WampTcpClient` | Code |
|---|---|
| `Launch`, `ConnectFails`, `ConnectSucceeds` | `launch` and the handler of `async_connect`; writing the handshake may throw on the io thread |
| `StartContinues` | the continuation of `start`, which does not look at the outcome; its `join` throws there when the application has joined already |
| `JoinContinues` | the continuation of `join`: flag, promise and signal as three steps; the signal is still there when the client is dropped after the second, as `~m_joinFuture` waits for the continuation and `m_onConnect` is destroyed after it |
| `SessionStep` | any step of the session; when it emits `m_onRxError`, `m_onDisconnect` follows |
| `AppUses` | the application through `operator->`, anything but `start` |
| `Destroy` | `~wamp_tcp_client` of a launched client, which frees the socket; the session lives on in its handlers, and a use of the socket then is the state "misused" |

### DomainDiscovery

Two threads, `launch` (the continuation of `main`) and `io`, each at one of the
steps `fill`, `heartbeat`, `pop` of the announcer and `resolve`, `join` of the
notifier, so that they interleave between the statements that matter:
`async_send_to` and `pop_front`, the query and the joins. `pop_front` on an empty
deque sets `crashed`. The two threads' accesses to the deque are taken as
atomic and in order; in the code they race. Interfaces go and come at any time;
`set_option` throws for one that is gone. A round is queued in the order of the
set the query returns (`InOrder`); there are finitely many interfaces. `flapped` is a history variable: the
interfaces that went and came back since the last query, hidden by the cache.

### Backplane

A client is a number, in the order of `make_shared`; `m_sessionMap` maps names to
numbers. `continuation[k]` is how far the continuation of `launchClient` has
come, `invocation[p]` a call that came from the local router. A proxied call
takes its client when it is made, as the code does with `itt->second`. The
detached thread refers to `callFuture`, a local variable of `proxy`
(`CBackplane.cpp:39`), which may be gone when it calls `get`: the program ends
there, or the thread waits for ever, or it takes the result of another call whose
future lies in the same place (`CallAnswered(p, q)`, on which there is no
fairness). The lambda that erases refers to the name in the closure of the
continuation (`:67`). `m_outstandingFutures` keeps that of a remote client; that of
the local client goes with the future `main` has passed on (`:106`), and `RunErase`
may then find the name, find none, or end the program. A datagram with an address
that is none is known to the listener when it throws (`onReceive_Throws`), so
`KnownAreMapped` is about a program that runs. `boost::bind(proxy, NewClient, _1)`
(`CBackplane.cpp:64`) does not name a member function with its object; it is read
as `this->proxy`. The two calls of `connected.get()` (`:60`) are allowed by the
default version of boost's futures. A provide that is refused leaves its
continuation in `wait()` for ever, as the session drops the ERROR.

## 3. The runs

| Run | Question | Properties | Bounds, and why they are enough |
|---|---|---|---|
| `session_requests` | requests of two threads and of callbacks, drawn and dispatched in every order, answers repeated, reordered and invented, invocations replied to from anywhere at any time | `TypeOK`, `OneReadAtATime`, `ReadLoopGoesOn`, `PendingUnanswered`, `HandlersInstalledOnce`, `RequestIdsUnique` | two threads with a request each: one draws its id while the other has not dispatched (reduced by symmetry, as no liveness is checked); 2 requests make two handlers under one id or an unsubscription; `CALL`s are left to `router`, and a RESULT here matches no call; 4 frames: WELCOME, two answers, one push; two subscription ids, so that an answer can be repeated under another; the application asks for `leave` and `stop`, once each (`Asks`, `MaxAsks`): without a `join` of its own the peer's WELCOME is what makes the session joined, and the runs `tcp_client` and `router` have `join` asked |
| `tcp_client` | `launch` against every peer while the application joins, leaves, stops and drops the client | `GoodbyeEndsSession`, `ReportedMeansShutDown`, `LaunchGoesOn`, `StopEndsReadLoop`, `LivesAsClient`, `LaunchAnswered` | each operation of the application once, to which the client's `join` and `handleRxError` add the second call, whose `get_future` throws; 3 frames: WELCOME, GOODBYE and a second WELCOME; session ids 0 and 1, as nothing excludes 0 |
| `router` | does a disciplined application see nothing but answers, while the router closes or the connection is lost at any time? | `RTypeOK`, `NoProtocolError`, `WireOrder`, `IoKeepsRunning`, `RequestsAccounted`, `HandshakesAccounted`, `OneReply`, `JoinCompletes`, `LeaveCompletes`, `RequestsAnswered` | a thread and the io thread's callbacks, every operation, 2 requests: one in flight while another is drawn; one push, so that a procedure is running when the session closes; two threads are left to `session_requests`, and so are replies of two at a time (`EarlyReplies`); the procedure, another callback, a thread and the exception path still compete for each reply |
| `call_result` | ownership of memory, and what is read from it | `NothingDangles`, `AccessorsExact`, `ValueSemantics` | three objects (an original, its copy, a bystander), four zones: one more than the objects can hold; all lists and dictionaries of up to 2 items, one key the prefix of another, a key that is no string; objects and zones are interchangeable and reduced by symmetry, which is sound as no fairness is involved |
| `discovery` | one chain of announcements and one of queries, on two threads, over changing interfaces | `DTypeOK`, `OneChain`, `QueueBounded`, `JoinedUnlessFlapped`, `OnlyStallsSilence`, `KeepsAnnouncing`, `KeepsJoining` | two interfaces: one queued behind another, which may vanish; they go and come without bound |
| `backplane` | domains found, lost and found again, and calls proxied to them | `BTypeOK`, `MapAccurate`, `KnownAreMapped`, `ErasesItsOwn`, `NoneStranded`, `Reconnects`, `DomainsServed` | four clients: the local one, and three of one remote domain, so that a first may fail, a second disconnect and a third serve; two invocations, one of which may take the result of the other |

`CHECK_DEADLOCK FALSE` stands in the session and client runs because a session
may come to rest, stopped or dead of an exception, and in those of discovery and
the backplane, where the program may end. `WampRouter` has a `Finished` step
instead, so its runs do check that nothing is stuck before the session is
stopped or the io thread has died.

The properties of `router` on answers are conditional on what the environment
gave: `IoKeepsRunning` excuses a lost connection and a lambda that finds its
session closed, `RequestsAnswered` and `RequestsAccounted` a session that was
closed and, where the router may refuse, the refusals the session drops
(`wamp_session.ipp:692`), `HandshakesAccounted` a lost connection. `KeepsAnnouncing`
excuses the stall that `found_announcer` shows, and `OnlyStallsSilence` says that
nothing else silences the announcer; `JoinedUnlessFlapped` and
`KeepsJoining` the interfaces the cache hides, `LaunchAnswered` and `LaunchGoesOn` an application
that joins by itself. `OneReply` and `IoKeepsRunning` are about invocations that one
at a time replies to: `found_double_reply` shows what becomes of the first when two
do, and `CatchThrows` is what becomes of the second. `QueueBounded` is two rounds and
not one, because the tick that stalls queues a round on top of what a failed send
has left (`<<2, 1, 2>>` for two interfaces). `DomainsServed` says that the prefix of a
domain is provided, not that the calls of `proxy` come back.

The other six runs show where the code departs from what it says of itself.
TLC finds a violation in each.

| Run | Property | What TLC shows |
|---|---|---|
| `found_rx_error` | `RxErrorsReported` | an error of the stream does not reach `m_onRxError` (`wamp_session.hpp:200`: "passes all others to m_onRxError signal") when an earlier step of `handleRxError` throws |
| `found_subscribe` | `SubscribeResolves` | a refused `subscribe` never resolves: `process_error` drops the ERROR (`wamp_session.ipp:692`) |
| `found_unsubscribe` | `UnsubscribedHandlersSilent` | a handler runs after its `unsubscribe` is confirmed: nothing removes it (`wamp_session.ipp:888`) |
| `found_double_reply` | `OneReply` | a procedure hands its invocation to a thread and throws: two replies, as `m_send_result_fn` is unguarded (`wamp_invocation.ipp:211`) |
| `found_announcer` | `AnnouncementsPaced` | an interface vanishes while it is queued, its `set_option` throws, and no announcement is ever sent again (`CDomainDiscoveryManager.cpp:45`), though the timer is "used to pace announcement by the m_broadcastPeriod interval" |
| `found_client_reset` | `SocketOutlivesUse` | a launched client is dropped, as in `proxyCaller.cpp:54`; its socket is freed while read handlers hold the session ("need to be sure this is destructed before m_pSocket", `wamp_tcp_client.hpp:127`, but the members are declared in the other order) |

One more departure from the documentation needs no run of its own, because the
passing run `call_result` states it: for a key that is missing, `kw_argument_or`
with a `char*` key *throws* the fallback (`AccessorsExact`, the case of a missing key;
`wamp_call_result.ipp:189`, `wamp_event.ipp:135`, `wamp_invocation.ipp:183`), where
`wamp_call_result.hpp:129` says of both overloads that the value is returned "or the
given @p fallback if no such key was passed". A caller that relies on the
documentation meets an exception of the fallback's type.

More gaps have no property because the code makes no claim about them: the
requests pending when the connection is lost keep their promises unset; ABORT,
the router's refusal of HELLO, is ignored (`wamp_session.ipp:1086`), so the
future of `join` never resolves; `m_calls`, the "outstanding" calls
(`wamp_session.hpp:290`), keeps every call that was answered, so that a repeated
RESULT throws; a datagram that does not unpack ends `io_service::run`
(`CDomainDiscoveryManager.cpp:138`); a proxied call that fails, or is answered after
`proxy` has returned, may end the program in its detached thread or never be
answered (`CBackplane.cpp:41`); a RESULT or REGISTERED that the peer repeats throws;
a reply made after `leave` goes out after the GOODBYE; an interface that flaps between two
queries is not joined again.

Each property of a passing run is tested by a wrong version of a definition,
named after the slip (`LeaveEffect_StillJoined`, `CallbackReturns_RearmsEach`):
with it TLC finds the property violated.

### Fairness

`Spec` assumes that the io thread goes on running handlers (`io_service::run`)
and that callbacks return, and nothing of the peer or the application. `RSpec`
adds what a live connection and a conforming router give (delivery, reading,
answering), that a thread that has drawn an id goes on to `dispatch` (two
statements of the same function), and that the main program starts, joins, and
stops after `leave` has resolved (the chain of continuations in the examples).
Requests, replies and `leave` are never forced. `CSpec` adds to `Spec` that the
threads of the continuations run and that an attempt to connect ends, one way or
the other. `BSpec` assumes that dispatched lambdas run, that continuations go on,
that the local router answers a REGISTER while the session lives, and that
domains announce themselves; a client need never connect, join or fail, and a
proxied call need never be answered. All of
this is weak fairness.

`DSpec` assumes weak fairness of each thread's next statement and strong fairness
of the three completions (the send and the two timers): they share the io thread,
so that each is disabled while another runs, and the queue of the `io_service`
is first in, first out, so that none is passed over for ever.

## 4. What is proved

For any threads, interfaces, domains, objects, bounds and ids, from the named
assumptions of the modules (the bounds are naturals, ids and the finitely many
interfaces positive naturals, the local domain is none of the remote ones, the static objects are not
zones, data is not null; with the conforming router, session ids are not 0):

| Theorem | Statement | Argument |
|---|---|---|
| `TypeCorrect` | `Spec => []TypeOK` | `TypeOK` is inductive; one lemma for each action |
| `GoodbyeEndsSessionThm` | `Spec => []GoodbyeEndsSession` | not inductive: a WELCOME after the GOODBYE would join again. `LifeInv` adds that a joined session, and one that said goodbye, has set its join promise, so that this WELCOME throws |
| `OneReadAtATimeThm` | `Spec => []OneReadAtATime` | `ReadInv` adds that reads, queued completions and callbacks exclude each other, and that before `start` there is none of them; rests on `TypeCorrect` |
| `ReportedMeansShutDownThm` | `Spec => []ReportedMeansShutDown` | `Reported`: with `ReadInv`, the error came from the only completion there was, and nothing arms a read once the loop is at rest |
| `ReadLoopGoesOnThm` | `Spec => []ReadLoopGoesOn` | `LoopInv` adds what `handleRxError` relies on when it filters `operation_aborted` out: only a stopped session has an aborted read queued. A handler that fails then either finds the session stopped or throws |
| `RequestIdsUniqueThm` | `Spec => []RequestIdsUnique` | `IdInv`: an id waits in one place, a thread or the queue; the counter is never behind; what waits was neither sent, filed nor answered. Steps that touch no id are `Calm` and preserve it together |
| `PendingUnansweredThm`, `HandlersInstalledOnceThm` | `Spec => []PendingUnanswered`, `Spec => []HandlersInstalledOnce` | together inductive with `TableOps`: what a table holds was requested with its operation. A new request is unanswered by `IdInv` |
| `OneReplyThm` | `~EarlyReplies`: `Spec => []OneReply` | `ReplyInv`: a sendable invocation has no reply queued or sent, none is both, and no thread is sending the invocation whose procedure the io thread is in; this last part is what early replies break |
| `RTypeCorrect`, `RouterSessionThm` | `RSpec => []RTypeOK`; `RSpec => []` of `RequestIdsUnique`, `OneReadAtATime`, `GoodbyeEndsSession`, `PendingUnanswered` and `HandlersInstalledOnce` | every step of `WampRouter` is one of `WampSession` or delivers a frame, so the session's invariants carry over. `WireInv` adds that a body that is due, read or with its header queued, is on the wire (a header is read only when a frame is there, and `ReadInv` has one read at a time), and that the requests on the stream have a drawn id |
| `RouterReadLoopThm`, `RouterOneReplyThm` | `RSpec => []ReadLoopGoesOn`; `~EarlyReplies`: `RSpec => []OneReply` | by the same lemma on the steps |
| `NoProtocolErrorThm`, `WireOrderThm` | `RSpec => []` of each | `NetInv`, described below |
| `IoKeepsRunningThm` | `~EarlyReplies`: `RSpec => []IoKeepsRunning` | `NetInv`; with early replies `CatchThrows` ends the io thread as well |
| `RequestsAccountedThm`, `HandshakesAccountedThm` | `RSpec => []` of each | `AccountInv`, described below |
| `NothingDanglesThm` | `Spec => []NothingDangles` | `RInv`: a result refers to its own zone only, and a zone has one owner |
| `ValueSemanticsThm` | `Spec => ValueSemantics` | the refinement, step by step, under `RInv`: an unused zone may be written because nobody reads it |
| `AccessorsExactThm` | `Spec => []AccessorsExact` | an argument is found at its own index alone because the items of a list differ; for keys, for every list and dictionary a result may hold, of any length: the loop over the entries is a recursive function; that it finds the first match is shown from a least counterexample (the least number of entries left at which the two differ), as natural numbers are well-founded |
| `LivesAsClientThm` | `CSpec => LivesAsClient` | the refinement of `ClientLife`. `CInv` is the session's invariants, carried over to `CNext` by the session's lemmas and two more for `ConnectSucceeds` and `Destroy`, and `ChainInv`: the chain goes no further than the promises it waits for. Each change of what is shown (flag, launch, joined, gone) is traced to its only action |
| `ClientGoodbyeThm`, `ClientReportedThm` | `CSpec => []GoodbyeEndsSession`, `CSpec => []ReportedMeansShutDown` | from `CInv` |
| `ClientRequestsThm`, `ClientOneReplyThm` | `CSpec => []` of `RequestIdsUnique`, `PendingUnanswered`, `HandlersInstalledOnce` and `OneReadAtATime`; `~EarlyReplies`: `CSpec => []OneReply` | every step of the client is one of the session or is `Outside`: it queues `join`, aborts the read or ends the io thread, and touches no request, table or invocation |
| `ClientReadLoopThm` | `CSpec => [](socket = "open" => ReadLoopGoesOn)` | `LoopInv` as long as the client is held; `Destroy` breaks it, as it aborts the read of a session that was not stopped |
| `LaunchGoesOnThm` | `CSpec => []LaunchGoesOn` | `ChainInv`, and `HandshakeInv`: before the handshake is known nothing is read, queued or handled that could be a WELCOME, and no user code runs, because the read loop is entered by the handler that resolves the handshake |
| `DTypeCorrect`, `QueueBoundedThm` | `DSpec => []DTypeOK`, `DSpec => []QueueBounded` | `Rounds`: a handler that sends finds at most one round in the queue, one that queues a round, or the timer, less than one; a stall adds a round to a rest, and nothing follows it. That the sequence of a round is as long as the set of its interfaces is `InOrderSequence`, from the cardinality theorems |
| `OnlyStallsSilenceThm` | `DSpec => OnlyStallsSilence` | an action property, under the queue's invariant and `LaunchFirst`: `launch` queues its round before anything else does, so that only the io thread can stall |
| `OneChainThm` | `DSpec => []OneChain` | the announcer's part is inductive with the types of `at`: a thread that announces holds the only token, `sending` or `txTimer` the token of nobody; the notifier's is part of `GroupInv`: the thread of `launch` holds the only query until it has armed the timer, and never comes back to it |
| `JoinedUnlessFlappedThm` | `DSpec => []JoinedUnlessFlapped` | `GroupInv` adds that the notifier is one chain, that the cache is the last query outside of `join`, and what the cache covers during it |
| `MapAccurateThm`, `KnownAreMappedThm`, `ErasesItsOwnThm` | `BSpec => []...` | `MapInv`: a failed launch never joined and only a joined client is gone (`LivesApart`), an erase is queued once, for a client whose launch failed (`ErasesOnce`), and a client stays in the map until it disconnects or its erase has run (`StaysMapped`); only together are these inductive |
| `NoneStrandedThm` | `BSpec => []NoneStranded` | the local client excepted where its erase may be lost; under `MapInv`, with `Launched`: only a launched client provides, and its lambda ran while the local client was joined, which once gone never comes back |
| `BTypeCorrect` | `BSpec => []BTypeOK` | the types of `MapInv`, and `RestTypes` for what the map does not depend on |

The exchange with a router is where the session's invariants are not enough: that
no message is refused depends on everything that is on its way. `NetInv` says
that while the io thread runs (`PeerInv`):

- the frames on their way, the one that was read and waits to be handled
  included, are well-formed; a WELCOME is the first of them and is there only
  before the session has joined; a GOODBYE is the last and is there only before
  `leave` has resolved (`FramesInv`);
- a request on the stream is in one place: unread by the router, owed by it, or
  answered by exactly one frame that is on its way; in each it is in the table of
  its operation with its promise unset, and the answer is of its kind
  (`AnswersInv`);
- an INVOCATION finds its procedure installed or is preceded by the REGISTERED
  that installs it (`ProceduresInv`);
- the lambdas are queued in the order of the program (no request after `leave`,
  `leave` before `stop`), and flags, promises and stream are what the program's
  place says (`ProgramInv`);
- a read fails only after the connection was lost or the session stopped
  (`CompletionsInv`);

and, once it does not run, why. Each part excludes a way to be refused: a second
WELCOME or GOODBYE, or a second answer, would set a promise twice; an answer of
another kind, or an INVOCATION too early, would find nothing in its table; a
`leave` after the program's own would find no session.

That nothing is lost either is `AccountInv`. For a request it follows the id from
place to place: each step of the exchange that takes it out of one (the thread
that drew it, the queue, the stream unread, the router's debts, the frames on
their way) puts it into the next or resolves its future, and no other step
touches it. Handling a frame is where this could fail: the answer must find its
request in the table of its kind, which is `AnswersInv`, and the request must
have gone out as what it was drawn for (`SentAs`). For `join` and `leave` it is
`HandshakesInv`: a router that has not answered HELLO has read nothing, one that is
joined has read no GOODBYE, and one that has left has its GOODBYE on the way until
`leave` has resolved. That the frame on its way is handled, and not shadowed by
another, is `FramesInv`.

The read loop, and who may abort it, was the other strengthening that was not
evident: `ReadLoopGoesOn` by itself allows an aborted read on a session that was
not stopped, whose handler would end the loop in silence; under a client that is
exactly what `Destroy` does.

Only model-checked are the liveness properties, as fairness and ENABLED are
outside the prover's reach. Of most, the part that is not fairness is proved, for
every value of the constants: that what is waited for is always at a step some
fairness condition is about.

| Liveness, checked by TLC | Proved of it |
|---|---|
| `StopEndsReadLoop` | `ReadLoopGoesOn` |
| `RequestsAnswered` | `RequestsAccounted` |
| `JoinCompletes`, `LeaveCompletes` | `HandshakesAccounted`, `ReadLoopGoesOn` |
| `LaunchAnswered` | `LaunchGoesOn` |
| `KeepsAnnouncing` | `OnlyStallsSilence`, `OneChain` |
| `KeepsJoining` | `OneChain` (its part `NotifierGoesOn`), `JoinedUnlessFlapped` |
| `Reconnects`, `DomainsServed` | `NoneStranded`, `KnownAreMapped` |

Every invariant, every other action property and both refinements the passing
runs check are theorems. The properties of the `found_` runs do not hold.

## 5. What is left out

- of the session: several messages in one frame, partial frames and the growth of
  the unpacker; WELCOME and GOODBYE arrays too short for the index the code uses;
  the options and details of messages; authentication fields;
- `get_arguments`, `get_each_argument` and the conversions to user types, which
  are msgpack's; dictionaries with a key twice;
- `wamp_event`: a copy of it outlives the zone its arguments are in; the class
  says nothing about copies, and an event is valid in its handler;
- destruction of a session while lambdas are queued; a client dropped before its
  launch has resolved;
- of discovery: the contents and the count of datagrams; errors of the timer and
  the send, which the code only logs; a query that fails;
- of the backplane: a GOODBYE of the local router, after which the local client is
  neither gone nor joined; the detail "procedure" and its splitting at "/", which
  only select the domain or lead to an ERROR; two names for one router; the vector
  of outstanding futures, which only grows;
- `wamp_publication` (a value no code uses), interface addresses and parameters
  (system calls and command lines), the tests of `boost::future`.

## 6. Plan

Done, in this order: `WampSession`; `WampRouter`; `ResultValues` and
`WampCallResult`; `WampArguments`; `ClientLife` and `WampTcpClient`;
`DomainDiscovery`; `Backplane`; the theorems of section 4.

What would add most next: several messages in one frame, and with them the growth
of the unpacker, in `WampSession`; ABORT, once the session handles it; a query or a
timer of discovery that fails. The liveness properties will stay with TLC.
