-------------------------- MODULE DomainDiscovery --------------------------
(***************************************************************************)
(* examples/acs: how a backplane makes its domain known.                   *)
(* CDomainDiscoveryAnnouncer sends one datagram over each network          *)
(* interface, one after the other, and waits for the next period.          *)
(* CInterfaceChangeNotifier looks for new interfaces periodically, and     *)
(* CDomainDiscoveryListener joins the multicast group on those.            *)
(* Both are launched on the thread of a continuation, while the io thread  *)
(* already runs their completion handlers.  Interfaces come and go.        *)
(***************************************************************************)
EXTENDS Integers, Sequences, FiniteSets, SequencesExt

CONSTANT Interfaces    \* IPv4 addresses of the host, ordered as in std::set

ASSUME InterfacesAssumption == /\ Interfaces \subseteq Nat \ {0} /\ Interfaces # {}
                               /\ IsFiniteSet(Interfaces)

VARIABLES
    up,         \* the interfaces the host has now
    group,      \* those m_rxSocket is a member of the multicast group on
    m_outgoingAnnouncements,
    sending,    \* interface of the async_send_to that uses m_txBuffer, or 0
    txTimer,    \* m_txTimer is being waited for
    current,    \* what the notifier's last query returned
    m_knownInterfaceCache,
    pollTimer,  \* the notifier's m_timer is being waited for
    flapped,    \* interfaces that went and came back between two queries
    at,         \* the next step of each thread
    sent,       \* the local variable of sendHeartBeat() on each thread
    crashed     \* pop_front() was called on an empty deque

announcer == <<m_outgoingAnnouncements, sending, txTimer, sent, crashed>>
notifier  == <<current, m_knownInterfaceCache, pollTimer, flapped, group>>
dvars     == <<up, announcer, notifier, at>>

Threads == {"launch", "io"}

DInit == /\ up \in SUBSET Interfaces
         /\ group = {}
         /\ m_outgoingAnnouncements = <<>> /\ sending = 0 /\ txTimer = FALSE
         /\ current = {} /\ m_knownInterfaceCache = {} /\ pollTimer = FALSE
         /\ flapped = {}
         /\ at = [t \in Threads |-> IF t = "launch" THEN "fill" ELSE "idle"]
         /\ sent = [t \in Threads |-> FALSE]
         /\ crashed = FALSE
-----------------------------------------------------------------------------
(***************************************************************************)
(* The host                                                                *)
(***************************************************************************)

LinkUp(i) ==
    /\ i \in Interfaces \ up
    /\ up' = up \cup {i}
    /\ flapped' = IF i \in current THEN flapped \cup {i} ELSE flapped
    /\ UNCHANGED <<announcer, current, m_knownInterfaceCache, pollTimer, group, at>>

\* The membership goes with the device, or stays when only the address goes.
LinkDown(i) ==
    /\ i \in up
    /\ up' = up \ {i}
    /\ group' \in {group, group \ {i}}
    /\ UNCHANGED <<announcer, current, m_knownInterfaceCache, pollTimer, flapped, at>>
-----------------------------------------------------------------------------
(***************************************************************************)
(* The announcer                                                           *)
(***************************************************************************)

Goes(t, where) == at' = [at EXCEPT ![t] = where]

\* What the thread does after the announcer: launch() of the listener follows.
AfterAnnouncer(t) == IF t = "launch" THEN "resolve" ELSE "idle"

\* The iteration over the std::set getInterfaceAddresses() has filled.
InOrder(S) == CHOOSE q \in SetToSeqs(S) : \A i, j \in DOMAIN q : i < j => q[i] < q[j]

\* sendToAllInterfaces() that queues the unspecified address as well.
sendToAllInterfaces_AnyAddress(t) ==
    /\ at[t] = "fill"
    /\ m_outgoingAnnouncements' = m_outgoingAnnouncements \o InOrder(up \cup {0})
    /\ Goes(t, IF m_outgoingAnnouncements = <<>> THEN "heartbeat" ELSE AfterAnnouncer(t))
    /\ UNCHANGED <<up, notifier, sending, txTimer, sent, crashed>>

\* sendToAllInterfaces(): a queue that is not empty is being sent already.
sendToAllInterfaces(t) ==
    /\ at[t] = "fill"
    /\ m_outgoingAnnouncements' = m_outgoingAnnouncements \o InOrder(up)
    /\ Goes(t, IF m_outgoingAnnouncements = <<>> THEN "heartbeat" ELSE AfterAnnouncer(t))
    /\ UNCHANGED <<up, notifier, sending, txTimer, sent, crashed>>

\* sendHeartBeat() that returns when there is nothing to send.
sendHeartBeat_Returns(t) ==
    /\ at[t] = "heartbeat"
    /\ IF m_outgoingAnnouncements = <<>>
       THEN Goes(t, AfterAnnouncer(t)) /\ UNCHANGED <<sending, sent>>
       ELSE LET i == Head(m_outgoingAnnouncements)
            IN  /\ sent' = [sent EXCEPT ![t] = i \in up]
                /\ sending' = IF i \in up THEN i ELSE sending
                /\ Goes(t, "pop")
    /\ UNCHANGED <<up, notifier, m_outgoingAnnouncements, txTimer, crashed>>

\* sendHeartBeat(), up to async_send_to(): set_option() throws for an interface
\* that is gone.
sendHeartBeat(t) ==
    /\ at[t] = "heartbeat"
    /\ IF m_outgoingAnnouncements = <<>>
       THEN /\ txTimer' = TRUE
            /\ Goes(t, AfterAnnouncer(t))
            /\ UNCHANGED <<sending, sent>>
       ELSE LET i == Head(m_outgoingAnnouncements)
            IN  /\ sent' = [sent EXCEPT ![t] = i \in up]
                /\ sending' = IF i \in up THEN i ELSE sending
                /\ Goes(t, "pop")
                /\ txTimer' = txTimer
    /\ UNCHANGED <<up, notifier, m_outgoingAnnouncements, crashed>>

\* pop_front() and a timer that is armed whether or not a send goes on.
PopFront_AlwaysArms(t) ==
    /\ at[t] = "pop"
    /\ IF m_outgoingAnnouncements = <<>>
       THEN crashed' = TRUE /\ UNCHANGED m_outgoingAnnouncements
       ELSE crashed' = crashed /\ m_outgoingAnnouncements' = Tail(m_outgoingAnnouncements)
    /\ txTimer' = TRUE
    /\ Goes(t, AfterAnnouncer(t))
    /\ UNCHANGED <<up, notifier, sending, sent>>

\* pop_front(), and the timer when nothing was sent.
PopFront(t) ==
    /\ at[t] = "pop"
    /\ IF m_outgoingAnnouncements = <<>>
       THEN crashed' = TRUE /\ UNCHANGED m_outgoingAnnouncements
       ELSE crashed' = crashed /\ m_outgoingAnnouncements' = Tail(m_outgoingAnnouncements)
    /\ txTimer' = (txTimer \/ ~sent[t])
    /\ Goes(t, AfterAnnouncer(t))
    /\ UNCHANGED <<up, notifier, sending, sent>>

\* The io thread runs the completion of the send, or the handler of the timer.
SendCompletes ==
    /\ at["io"] = "idle" /\ sending # 0
    /\ sending' = 0
    /\ Goes("io", "heartbeat")
    /\ UNCHANGED <<up, notifier, m_outgoingAnnouncements, txTimer, sent, crashed>>

TxTimerExpires ==
    /\ at["io"] = "idle" /\ txTimer
    /\ txTimer' = FALSE
    /\ Goes("io", "fill")
    /\ UNCHANGED <<up, notifier, m_outgoingAnnouncements, sending, sent, crashed>>
-----------------------------------------------------------------------------
(***************************************************************************)
(* The notifier and the listener's group                                   *)
(***************************************************************************)

\* resolveInterfaces(), the query.
resolveInterfaces(t) ==
    /\ at[t] = "resolve"
    /\ current' = up
    /\ flapped' = flapped \cap up
    /\ Goes(t, "join")
    /\ UNCHANGED <<up, announcer, m_knownInterfaceCache, pollTimer, group>>

\* A cache that interfaces are added to only.
joinGroups_CacheGrows(t) ==
    /\ at[t] = "join"
    /\ group' = group \cup ((current \ m_knownInterfaceCache) \cap up)
    /\ m_knownInterfaceCache' = m_knownInterfaceCache \cup current
    /\ pollTimer' = TRUE
    /\ Goes(t, IF t = "launch" THEN "done" ELSE "idle")
    /\ UNCHANGED <<up, announcer, current, flapped>>

\* The timer armed only when a new interface was found.
joinGroups_ArmsIfNew(t) ==
    /\ at[t] = "join"
    /\ group' = group \cup ((current \ m_knownInterfaceCache) \cap up)
    /\ m_knownInterfaceCache' = current
    /\ pollTimer' = (current # m_knownInterfaceCache)
    /\ Goes(t, IF t = "launch" THEN "done" ELSE "idle")
    /\ UNCHANGED <<up, announcer, current, flapped>>

\* resolveInterfaces(), the rest: joinGroup() is called for each new interface
\* and swallows the exception of set_option() when it is gone again; the cache
\* is replaced and the timer armed.
joinGroups(t) ==
    /\ at[t] = "join"
    /\ group' = group \cup ((current \ m_knownInterfaceCache) \cap up)
    /\ m_knownInterfaceCache' = current
    /\ pollTimer' = TRUE
    /\ Goes(t, IF t = "launch" THEN "done" ELSE "idle")
    /\ UNCHANGED <<up, announcer, current, flapped>>

PollTimerExpires ==
    /\ at["io"] = "idle" /\ pollTimer
    /\ pollTimer' = FALSE
    /\ Goes("io", "resolve")
    /\ UNCHANGED <<up, announcer, current, m_knownInterfaceCache, flapped, group>>
-----------------------------------------------------------------------------
Step(t) == \/ sendToAllInterfaces(t) \/ sendHeartBeat(t) \/ PopFront(t)
           \/ resolveInterfaces(t) \/ joinGroups(t)

DNext == /\ ~crashed
         /\ \/ \E i \in Interfaces : LinkUp(i) \/ LinkDown(i)
            \/ \E t \in Threads : Step(t)
            \/ SendCompletes \/ TxTimerExpires \/ PollTimerExpires

\* Both threads go on, a send completes, and the io thread gets round to each
\* timer that expires.
DFairness == /\ \A t \in Threads : WF_dvars(~crashed /\ Step(t))
             /\ SF_dvars(~crashed /\ SendCompletes)
             /\ SF_dvars(~crashed /\ TxTimerExpires)
             /\ SF_dvars(~crashed /\ PollTimerExpires)

DSpec == DInit /\ [][DNext]_dvars /\ DFairness
-----------------------------------------------------------------------------
(***************************************************************************)
(* Properties                                                              *)
(***************************************************************************)

DTypeOK == /\ up \subseteq Interfaces /\ group \subseteq Interfaces
           /\ m_outgoingAnnouncements \in Seq(Interfaces)
           /\ sending \in Interfaces \cup {0}
           /\ current \subseteq Interfaces /\ m_knownInterfaceCache \subseteq Interfaces
           /\ flapped \subseteq current
           /\ txTimer \in BOOLEAN /\ pollTimer \in BOOLEAN /\ crashed \in BOOLEAN
           /\ at \in [Threads -> {"idle", "fill", "heartbeat", "pop", "resolve", "join", "done"}]
           /\ sent \in [Threads -> BOOLEAN]

\* A thread is about to go on with the announcements.
Announces(t) == at[t] \in {"fill", "heartbeat"} \/ (at[t] = "pop" /\ ~sent[t])

\* The announcer is one chain of handlers, although it is started on another
\* thread than the one it runs on: a send in progress, a timer waited for or a
\* thread that goes on with it, never two of them.  Two would share m_txBuffer.
OneAnnouncer ==
    /\ ~(sending # 0 /\ txTimer)
    /\ \A t \in Threads : Announces(t) => sending = 0 /\ ~txTimer
    /\ ~(Announces("launch") /\ Announces("io"))

\* A thread is looking for new interfaces.
Polls(t) == at[t] \in {"resolve", "join"}

\* The notifier never ends: until launch() returns, its own thread makes the first
\* query after the announcer's first send; from then on the io thread makes one or
\* the timer is waited for, never both and never neither, also when a query finds
\* nothing or joining a group fails.
NotifierGoesOn ==
    /\ at["launch"] = "done" => pollTimer \/ Polls("io")
    /\ at["launch"] # "done" => ~pollTimer /\ ~Polls("io")
    /\ ~(pollTimer /\ Polls("io"))

\* Announcer and notifier are one chain of handlers each, and the notifier's goes on.
OneChain == OneAnnouncer /\ NotifierGoesOn

\* The queue never holds two full rounds: no round is queued on top of one that
\* is being sent.  It may hold more than one, when a round is queued on top of
\* what a failed send has left.
QueueBounded == Len(m_outgoingAnnouncements) < 2 * Cardinality(Interfaces)

\* Between two queries the listener is in the group on every interface the last
\* one found, but for those that are gone and those that went and came back
\* between two queries, which the cache hides.
JoinedUnlessFlapped ==
    (\A t \in Threads : at[t] # "join") =>
        (current \cap up) \ flapped \subseteq group

\* A new period begins with announcements left behind by an interface that had
\* vanished when its turn came: they are taken for announcements being sent, and
\* nothing goes on with them.
Stalls == at["io"] = "fill" /\ m_outgoingAnnouncements # <<>>

\* Nothing of the announcer goes on, although nobody has stopped it.
Silent == sending = 0 /\ ~txTimer /\ \A t \in Threads : ~Announces(t)

\* A stall silences the announcer for good, whatever the interfaces do later, and
\* nothing else ever does: no failed send, no empty round, no interleaving of
\* launch() with the handlers loses the chain.
OnlyStallsSilence ==
    [][Silent' <=> Silent \/ (Stalls /\ sendToAllInterfaces("io"))]_dvars

\* An interface that stays up is announced again and again, however the others
\* come and go, unless the announcer stalls.
KeepsAnnouncing ==
    \A i \in Interfaces :
        <>[](i \in up) => []<>(sending = i) \/ <>Stalls \/ <>crashed

\* The listener joins the group on every interface that stays up, however late
\* it comes.
KeepsJoining ==
    \A i \in Interfaces :
        <>[](i \in up /\ i \notin flapped) => <>[](i \in group) \/ <>crashed

\* m_txTimer is "used to pace announcement by the m_broadcastPeriod interval"
\* (CDomainDiscoveryManager.hpp:61): the announcements go on.
AnnouncementsPaced ==
    \A i \in Interfaces : <>[](i \in up) => []<>(sending = i) \/ <>crashed
=============================================================================
