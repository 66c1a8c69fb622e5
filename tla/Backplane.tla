----------------------------- MODULE Backplane -----------------------------
(***************************************************************************)
(* examples/acs/CBackplane: connects a local router with the routers of    *)
(* the domains it hears of.  The listener's datagrams, the clients'        *)
(* handlers, procedures and dispatched lambdas run on the io thread, the   *)
(* continuations of launch() on threads of their own, and each proxied     *)
(* call is waited for by a detached thread.  A client is what ClientLife   *)
(* says, which WampTcpClient implements.                                   *)
(***************************************************************************)
EXTENDS Naturals, Sequences, FiniteSets

CONSTANTS
    Local,          \* name of the domain of the local router
    Remotes,        \* names of other domains
    MaxClients,     \* bound on the clients ever made
    MaxInvocations  \* bound on the invocations of the local router

ASSUME BackplaneAssumption == /\ Local \notin Remotes
                              /\ MaxClients \in Nat \ {0}
                              /\ MaxInvocations \in Nat

Names   == Remotes \cup {Local}
Clients == 1..MaxClients    \* in the order in which they were made
m_localClient == 1

VARIABLES
    made,           \* how many clients were made
    client,         \* the life of each
    domain,         \* the domain it was made for
    m_sessionMap,   \* name -> client, or 0
    m_knownDomains, \* of the listener
    continuation,   \* of the launch of each client: "waits" for it, has queued
                    \* the request to "provide", "registers" at the router,
                    \* "refused" (and waits for ever), "done"
    ioq,            \* lambdas dispatched to the io thread
    registered,     \* prefixes the local session provides
    discovering,    \* announcer and listener have been launched
    invocation,     \* of the local session: "none", "called" (through the client
                    \* "by", or 0) or "answered"
    io              \* "running", "threw" or "terminated"

bvars == <<made, client, domain, m_sessionMap, m_knownDomains, continuation, ioq,
           registered, discovering, invocation, io>>

Life(k) == INSTANCE ClientLife WITH client <- client[k]

Lambda(run, k) == [run |-> run, client |-> k]
Invocation(state, k) == [state |-> state, by |-> k]

\* main(): the local client is launched and entered in the map.
BInit ==
    /\ made = m_localClient
    /\ client = [k \in Clients |->
                   [launch |-> IF k = m_localClient THEN "pending" ELSE "no",
                    isConnected |-> FALSE, joined |-> FALSE, gone |-> FALSE]]
    /\ domain = [k \in Clients |-> Local]
    /\ m_sessionMap = [n \in Names |-> IF n = Local THEN m_localClient ELSE 0]
    /\ m_knownDomains = {}
    /\ continuation = [k \in Clients |-> "waits"]
    /\ ioq = <<>> /\ registered = {} /\ discovering = FALSE
    /\ invocation = [p \in 1..MaxInvocations |-> Invocation("none", 0)]
    /\ io = "running"

LocalJoined == client[m_localClient].joined /\ ~client[m_localClient].gone
-----------------------------------------------------------------------------
(***************************************************************************)
(* The clients                                                             *)
(***************************************************************************)

Becomes(k, c) == client' = [client EXCEPT ![k] = c]

\* A client connects or fails to, joins, and resolves its launch().
ClientAdvances(k) ==
    /\ \E c \in Life(k)!Client :
          /\ \/ Life(k)!ConnectFails(client[k], c) \/ Life(k)!Joins(client[k], c)
             \/ Life(k)!FlagRises(client[k], c)    \/ Life(k)!LaunchResolves(client[k], c)
          /\ Becomes(k, c)
    /\ UNCHANGED <<made, domain, m_sessionMap, m_knownDomains, continuation, ioq,
                   registered, discovering, invocation, io>>

\* m_sessionMap.erase(name); m_listener->erase(name)
Forgets(name) == /\ m_sessionMap' = [m_sessionMap EXCEPT ![name] = 0]
                 /\ m_knownDomains' = m_knownDomains \ {name}

\* A disconnect slot that erases from the map only, or from the listener only.
ClientDisconnects_StaysKnown(k) ==
    /\ \E c \in Life(k)!Client : Life(k)!Disconnects(client[k], c) /\ Becomes(k, c)
    /\ m_sessionMap' = IF k = m_localClient THEN m_sessionMap
                       ELSE [m_sessionMap EXCEPT ![domain[k]] = 0]
    /\ registered' = IF k = m_localClient THEN {} ELSE registered
    /\ UNCHANGED <<made, domain, m_knownDomains, continuation, ioq, discovering,
                   invocation, io>>
ClientDisconnects_StaysMapped(k) ==
    /\ \E c \in Life(k)!Client : Life(k)!Disconnects(client[k], c) /\ Becomes(k, c)
    /\ m_knownDomains' = IF k = m_localClient THEN m_knownDomains
                         ELSE m_knownDomains \ {domain[k]}
    /\ registered' = IF k = m_localClient THEN {} ELSE registered
    /\ UNCHANGED <<made, domain, m_sessionMap, continuation, ioq, discovering,
                   invocation, io>>

\* m_onDisconnect: the slot of a remote client forgets its domain; the local
\* client has no slot, and its registrations end with its session.
ClientDisconnects(k) ==
    /\ \E c \in Life(k)!Client : Life(k)!Disconnects(client[k], c) /\ Becomes(k, c)
    /\ IF k = m_localClient
       THEN registered' = {} /\ UNCHANGED <<m_sessionMap, m_knownDomains>>
       ELSE Forgets(domain[k]) /\ registered' = registered
    /\ UNCHANGED <<made, domain, continuation, ioq, discovering, invocation, io>>

\* A session throws on the io thread, as WampSession shows: a connection lost
\* before the join, a message taken for a protocol error.
ClientThrows(k) ==
    /\ client[k].launch \in {"pending", "true"} /\ ~client[k].gone
    /\ io' = "threw"
    /\ UNCHANGED <<made, client, domain, m_sessionMap, m_knownDomains, continuation,
                   ioq, registered, discovering, invocation>>
-----------------------------------------------------------------------------
(***************************************************************************)
(* launchClient()                                                          *)
(***************************************************************************)

\* The continuation of k is done; that of the local client starts discovery.
Finishes(k) == /\ continuation' = [continuation EXCEPT ![k] = "done"]
               /\ discovering' = (discovering \/ k = m_localClient)

\* The failure path that erases from the map at once, and dispatches as well.
LaunchContinues_ErasesTwice(k) ==
    /\ continuation[k] = "waits"
    /\ \/ /\ client[k].launch = "true"
          /\ continuation' = [continuation EXCEPT ![k] = "provide"]
          /\ ioq' = Append(ioq, Lambda("provide", k))
          /\ UNCHANGED <<discovering, m_sessionMap, m_knownDomains>>
       \/ /\ client[k].launch = "false"
          /\ ioq' = Append(ioq, Lambda("erase", k))
          /\ Forgets(domain[k])
          /\ Finishes(k)
    /\ UNCHANGED <<made, client, domain, registered, invocation, io>>

\* A continuation that provides the prefix of the local domain only.
LaunchContinues_LocalOnly(k) ==
    /\ continuation[k] = "waits"
    /\ \/ /\ client[k].launch = "true" /\ k = m_localClient
          /\ continuation' = [continuation EXCEPT ![k] = "provide"]
          /\ ioq' = Append(ioq, Lambda("provide", k))
          /\ discovering' = discovering
       \/ /\ client[k].launch = "true" /\ k # m_localClient
          /\ Finishes(k) /\ ioq' = ioq
       \/ /\ client[k].launch = "false"
          /\ ioq' = Append(ioq, Lambda("erase", k))
          /\ Finishes(k)
    /\ UNCHANGED <<made, client, domain, m_sessionMap, m_knownDomains, registered,
                   invocation, io>>

\* launch() has resolved: the prefix of the domain is provided by the local
\* session, and waited for, or the domain is to be erased.
LaunchContinues(k) ==
    /\ continuation[k] = "waits"
    /\ \/ /\ client[k].launch = "true"
          /\ continuation' = [continuation EXCEPT ![k] = "provide"]
          /\ ioq' = Append(ioq, Lambda("provide", k))
          /\ discovering' = discovering
       \/ /\ client[k].launch = "false"
          /\ ioq' = Append(ioq, Lambda("erase", k))
          /\ Finishes(k)
    /\ UNCHANGED <<made, client, domain, m_sessionMap, m_knownDomains, registered,
                   invocation, io>>

\* The lambda of provide(): without a session it throws on the io thread.
RunProvide ==
    /\ ioq # <<>> /\ Head(ioq).run = "provide"
    /\ ioq' = Tail(ioq)
    /\ IF LocalJoined
       THEN /\ continuation' = [continuation EXCEPT ![Head(ioq).client] = "registers"]
            /\ io' = io
       ELSE /\ io' = "threw"
            /\ continuation' = continuation
    /\ UNCHANGED <<made, client, domain, m_sessionMap, m_knownDomains, registered,
                   discovering, invocation>>

\* The router accepts a prefix once.  A second REGISTER of it, after the domain
\* has been found again, is answered with ERROR, which the session drops.
RouterRegisters(k) ==
    /\ continuation[k] = "registers" /\ LocalJoined
    /\ registered' = registered \cup {domain[k]}
    /\ IF domain[k] \in registered
       THEN /\ continuation' = [continuation EXCEPT ![k] = "refused"]
            /\ discovering' = discovering
       ELSE Finishes(k)
    /\ UNCHANGED <<made, client, domain, m_sessionMap, m_knownDomains, ioq, invocation, io>>

\* A lambda refers to the name by a reference to the continuation that has
\* dispatched it, which m_outstandingFutures keeps for the remote clients.  That
\* of the local client belongs to a future main() has passed on: it may be gone,
\* and what is read instead is no name in the map, or ends the program.
RunErase ==
    /\ ioq # <<>> /\ Head(ioq).run = "erase"
    /\ ioq' = Tail(ioq)
    /\ \/ Forgets(domain[Head(ioq).client]) /\ io' = io
       \/ /\ Head(ioq).client = m_localClient
          /\ io' \in {io, "terminated"}
          /\ UNCHANGED <<m_sessionMap, m_knownDomains>>
    /\ UNCHANGED <<made, client, domain, continuation, registered, discovering,
                   invocation>>
-----------------------------------------------------------------------------
(***************************************************************************)
(* Datagrams and invocations                                               *)
(***************************************************************************)

\* connectToNewDomain(), for a domain that is not in the map: a client is made,
\* entered and launched.
Connects(n) ==
    LET k == made + 1
    IN  /\ made < MaxClients
        /\ made' = k
        /\ \E c \in Life(k)!NewClients, d \in Life(k)!Client :
              Life(k)!Launches(c, d) /\ Becomes(k, d)
        /\ domain' = [domain EXCEPT ![k] = n]
        /\ m_sessionMap' = [m_sessionMap EXCEPT ![n] = k]

\* The announcement of a domain that is not known.
onReceive(n) ==
    /\ discovering
    /\ n \notin m_knownDomains
    /\ m_knownDomains' = m_knownDomains \cup {n}
    /\ IF m_sessionMap[n] # 0
       THEN UNCHANGED <<made, client, domain, m_sessionMap>>
       ELSE Connects(n)
    /\ UNCHANGED <<continuation, ioq, registered, discovering, invocation, io>>

\* A datagram of the right version that does not unpack to a CDomainInfo, or the
\* announcement of a domain to connect to under an address that is none, which
\* the listener knows by then: the exception leaves io_service::run.
onReceive_Throws ==
    /\ discovering
    /\ io' = "threw"
    /\ \/ m_knownDomains' = m_knownDomains
       \/ \E n \in Names : /\ n \notin m_knownDomains /\ m_sessionMap[n] = 0
                           /\ m_knownDomains' = m_knownDomains \cup {n}
    /\ UNCHANGED <<made, client, domain, m_sessionMap, continuation, ioq, registered,
                   discovering, invocation>>

\* proxy() without its else: an invocation for a domain it cannot reach.
proxy_NoElse(p, n) ==
    /\ LocalJoined /\ n \in registered /\ invocation[p].state = "none"
    /\ LET k == m_sessionMap[n]
           reaches == k # 0 /\ client[k].isConnected
       IN  \/ /\ ~reaches
              /\ invocation' = [invocation EXCEPT ![p].state = "unanswered"]
              /\ io' = io
           \/ /\ reaches /\ ~client[k].joined
              /\ invocation' = [invocation EXCEPT ![p].state = "answered"]
              /\ io' = io
           \/ /\ reaches /\ client[k].joined
              /\ invocation' = [invocation EXCEPT ![p] = Invocation("called", k)]
              /\ io' \in {io, "terminated"}
    /\ UNCHANGED <<made, client, domain, m_sessionMap, m_knownDomains, continuation,
                   ioq, registered, discovering>>

\* proxy(), for a procedure under the prefix n: an ERROR when the domain is not
\* in the map, is not connected, or is not joined whatever its flag says (call()
\* throws); otherwise a detached thread waits for the call.  The thread refers
\* to the future by a reference to a local variable, and may come too late: get()
\* on what is left of the variable throws, which ends the program, waits for
\* ever, or waits for the future that a later call has put in the same place.
proxy(p, n) ==
    /\ LocalJoined /\ n \in registered /\ invocation[p].state = "none"
    /\ LET k == m_sessionMap[n]
           calls == k # 0 /\ client[k].isConnected /\ client[k].joined
       IN  \/ /\ ~calls
              /\ invocation' = [invocation EXCEPT ![p].state = "answered"]
              /\ io' = io
           \/ /\ calls
              /\ invocation' = [invocation EXCEPT ![p] = Invocation("called", k)]
              /\ io' \in {io, "terminated"}
    /\ UNCHANGED <<made, client, domain, m_sessionMap, m_knownDomains, continuation,
                   ioq, registered, discovering>>

\* The detached thread of p has a result, of its own call or of one that proxy()
\* has made for q, or an exception, and then ends the program.  It may also wait
\* for ever: nothing obliges this action to be taken.
CallAnswered(p, q) ==
    /\ invocation[p].state = "called"
    /\ invocation[q].by # 0 /\ ~client[invocation[q].by].gone
    /\ invocation' = [invocation EXCEPT ![p].state = "answered"]
    /\ io' \in {io, "terminated"}
    /\ UNCHANGED <<made, client, domain, m_sessionMap, m_knownDomains, continuation,
                   ioq, registered, discovering>>
-----------------------------------------------------------------------------
BNext ==
    /\ io = "running"
    /\ \/ \E k \in Clients : \/ ClientAdvances(k) \/ ClientDisconnects(k)
                             \/ ClientThrows(k)
                             \/ LaunchContinues(k) \/ RouterRegisters(k)
       \/ RunProvide \/ RunErase
       \/ \E n \in Names : onReceive(n)
       \/ onReceive_Throws
       \/ \E p \in 1..MaxInvocations :
             \/ \E n \in Names : proxy(p, n)
             \/ \E q \in 1..MaxInvocations : CallAnswered(p, q)

\* The io thread runs what is dispatched to it, continuations go on, the local
\* router answers a REGISTER, and domains keep announcing themselves
\* (DomainDiscovery!KeepsAnnouncing, on their hosts).  Calls need not return.
BFairness ==
    LET Running(A) == io = "running" /\ A
    IN  /\ WF_bvars(Running(RunProvide \/ RunErase))
        /\ \A k \in Clients : /\ WF_bvars(Running(LaunchContinues(k)))
                              /\ WF_bvars(Running(RouterRegisters(k)))
        /\ \A n \in Names : WF_bvars(Running(onReceive(n)))

BSpec == BInit /\ [][BNext]_bvars /\ BFairness
-----------------------------------------------------------------------------
(***************************************************************************)
(* Properties                                                              *)
(***************************************************************************)

BTypeOK ==
    /\ made \in Clients
    /\ \A k \in Clients : client[k] \in Life(k)!Client
    /\ domain \in [Clients -> Names]
    /\ m_sessionMap \in [Names -> 0..made]
    /\ m_knownDomains \subseteq Names
    /\ continuation \in [Clients -> {"waits", "provide", "registers", "refused", "done"}]
    /\ \A i \in DOMAIN ioq : ioq[i].run \in {"provide", "erase"} /\ ioq[i].client \in 1..made
    /\ registered \subseteq Names /\ discovering \in BOOLEAN
    /\ \A p \in 1..MaxInvocations :
          /\ invocation[p].state \in {"none", "called", "answered"}
          /\ invocation[p].by \in 0..made
    /\ io \in {"running", "threw", "terminated"}

\* The client proxy() finds under a name was made for that domain, and, unless it
\* is the local one, has not reported that it is disconnected.
MapAccurate ==
    \A n \in Names :
        LET k == m_sessionMap[n]
        IN  k # 0 => domain[k] = n /\ (k # m_localClient => ~client[k].gone)

\* A domain the listener takes for known has a client: one that was forgotten by
\* one of the two only would never be connected again.
KnownAreMapped == io = "running" => \A n \in m_knownDomains : m_sessionMap[n] # 0

\* A lambda that erases the domain of a client whose launch failed, however late
\* it runs, finds that client in the map and not a newer one of the same domain.
ErasesItsOwn ==
    \A i \in DOMAIN ioq :
        ioq[i].run = "erase" => m_sessionMap[domain[ioq[i].client]] = ioq[i].client

\* No client is left half-way.  One whose launch() succeeded has its prefix
\* provided as long as the local session lives, or the io thread will do so; one
\* whose launch() failed is not in the map, or the io thread will erase it: its
\* domain would never be connected again.  The local client is left out of the
\* latter (see RunErase).
Dispatched(run, k) == \E i \in DOMAIN ioq : ioq[i] = Lambda(run, k)
NoneStranded ==
    io = "running" =>
        \A k \in Clients :
            /\ continuation[k] = "provide" => Dispatched("provide", k)
            /\ continuation[k] \in {"refused", "done"} /\ client[k].launch = "true"
               => domain[k] \in registered \/ ~LocalJoined
            /\ k # m_localClient /\ continuation[k] = "done" /\ client[k].launch = "false"
               => m_sessionMap[domain[k]] # k \/ Dispatched("erase", k)

\* Every domain that announces itself gets a client, the first time and after
\* each failure and each disconnect.
Reconnects ==
    \A n \in Names :
        discovering /\ m_sessionMap[n] = 0
        ~> m_sessionMap[n] # 0 \/ made = MaxClients \/ io # "running"

\* A domain whose client is joined is served under its prefix as long as the
\* local session lives: also when it has come back and its second registration
\* is refused, because proxy() looks for the client by name.  That a call which
\* proxy() makes there is answered, the code does not ensure (see proxy).
DomainsServed ==
    \A k \in Clients :
        client[k].launch = "true"
        ~> domain[k] \in registered \/ ~LocalJoined \/ io # "running"
=============================================================================
