----------------------------- MODULE ClientLife -----------------------------
(***************************************************************************)
(* What a wamp_tcp_client shows of its life to the program that launched   *)
(* it: the future of launch(), the flag isConnected() returns, whether the *)
(* session has been joined, and whether m_onDisconnect has been emitted.   *)
(* The transitions are relations between two states of a client, so that a *)
(* program with many clients can use them for each.                        *)
(***************************************************************************)

VARIABLE client

Client == [launch : {"no", "pending", "false", "true"},
           isConnected : BOOLEAN, joined : BOOLEAN, gone : BOOLEAN]

\* The second constructor leaves the flag uninitialised.
NewClients == {c \in Client : c.launch = "no" /\ ~c.joined /\ ~c.gone}

Launches(c, d) == /\ c.launch = "no"
                  /\ d = [c EXCEPT !.launch = "pending"]

\* The connection is refused: the flag is set on this path too.
ConnectFails(c, d) == /\ c.launch = "pending" /\ ~c.joined
                      /\ d = [c EXCEPT !.launch = "false", !.isConnected = TRUE]

Joins(c, d) == /\ c.launch = "pending" /\ ~c.joined
               /\ d = [c EXCEPT !.joined = TRUE]

\* The continuation of join(): the flag, then the promise.
FlagRises(c, d) == /\ c.launch = "pending" /\ c.joined
                   /\ d = [c EXCEPT !.isConnected = TRUE]

LaunchResolves(c, d) == /\ c.launch = "pending" /\ c.joined /\ c.isConnected
                        /\ d = [c EXCEPT !.launch = "true"]

\* m_onDisconnect: once, and not before the session was joined.  It may come
\* before the future of launch() is resolved.
Disconnects(c, d) == /\ c.joined /\ ~c.gone
                     /\ d = [c EXCEPT !.gone = TRUE]

LInit == client \in NewClients
LNext == \/ Launches(client, client') \/ ConnectFails(client, client')
         \/ Joins(client, client') \/ FlagRises(client, client')
         \/ LaunchResolves(client, client') \/ Disconnects(client, client')

LSpec == LInit /\ [][LNext]_client
=============================================================================
