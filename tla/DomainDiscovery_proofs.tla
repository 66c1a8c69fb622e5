----------------------- MODULE DomainDiscovery_proofs -----------------------
(***************************************************************************)
(* The two chains of handlers of the discovery classes, for any interfaces *)
(* of the host, and what the second one achieves: the listener is in the   *)
(* multicast group on every interface it knows.                            *)
(***************************************************************************)
EXTENDS DomainDiscovery, FiniteSetTheorems, FunctionTheorems, TLAPS

\* The threads' steps, as far as the proofs need their types.
AtTypes == /\ at \in [Threads -> {"idle", "fill", "heartbeat", "pop", "resolve",
                                  "join", "done"}]
           /\ sent \in [Threads -> BOOLEAN]

-----------------------------------------------------------------------------
(***************************************************************************)
(* The announcer                                                           *)
(***************************************************************************)

ChainInv == AtTypes /\ OneAnnouncer

LEMMA ChainInit == DInit => ChainInv
  BY DEF DInit, ChainInv, AtTypes, OneAnnouncer, Announces, Threads

\* A step of a thread whose new place is w and whose new local variable is b.
LEMMA ThreadMoves ==
    ASSUME AtTypes, NEW t \in Threads, NEW w, Goes(t, w)
    PROVE  at'[t] = w /\ \A r \in Threads : r # t => at'[r] = at[r]
  BY DEF AtTypes, Goes

LEMMA ChainFill ==
    ASSUME ChainInv, NEW t \in Threads, sendToAllInterfaces(t)
    PROVE  ChainInv'
<1> USE DEF ChainInv
<1>1. PICK w \in {"heartbeat", "resolve", "idle"} : Goes(t, w)
  BY DEF sendToAllInterfaces, AfterAnnouncer
<1>2. at[t] = "fill" /\ UNCHANGED <<sending, txTimer, sent>>
  BY DEF sendToAllInterfaces
<1>3. at'[t] = w /\ \A r \in Threads : r # t => at'[r] = at[r]
  BY <1>1, ThreadMoves
<1>4. AtTypes'
  BY <1>1, <1>2 DEF AtTypes, Goes
<1>5. OneAnnouncer'
  BY <1>2, <1>3 DEF OneAnnouncer, Announces, Threads
<1> QED  BY <1>4, <1>5

\* A send is tried: sent is set on the thread, to TRUE only when it has begun.
LEMMA HeartBeatSends ==
    ASSUME NEW t \in Threads, sendHeartBeat(t), m_outgoingAnnouncements # <<>>
    PROVE  \E b \in BOOLEAN : /\ sent' = [sent EXCEPT ![t] = b]
                              /\ ~b => sending' = sending
                              /\ Goes(t, "pop")
                              /\ txTimer' = txTimer
<1> DEFINE i == Head(m_outgoingAnnouncements)
<1>1. /\ sent' = [sent EXCEPT ![t] = (i \in up)]
      /\ sending' = IF i \in up THEN i ELSE sending
      /\ Goes(t, "pop")
      /\ txTimer' = txTimer
  BY DEF sendHeartBeat
<1>2. (i \in up) \in BOOLEAN
  OBVIOUS
<1>3. i \notin up => sending' = sending
  BY <1>1
<1> HIDE DEF i
<1> QED  BY <1>1, <1>2, <1>3, Zenon

LEMMA ChainHeartBeat ==
    ASSUME ChainInv, NEW t \in Threads, sendHeartBeat(t)
    PROVE  ChainInv'
<1> USE DEF ChainInv
<1>1. at[t] = "heartbeat" /\ Announces(t)
  BY DEF sendHeartBeat, Announces
<1>2. sending = 0 /\ ~txTimer /\ \A r \in Threads : r # t => ~Announces(r)
  BY <1>1 DEF OneAnnouncer, Threads
<1>3. CASE m_outgoingAnnouncements = <<>>
  <2>1. PICK w \in {"resolve", "idle"} : Goes(t, w)
    BY <1>3 DEF sendHeartBeat, AfterAnnouncer
  <2>2. at'[t] = w /\ \A r \in Threads : r # t => at'[r] = at[r]
    BY <2>1, ThreadMoves
  <2>3. UNCHANGED <<sending, sent>>
    BY <1>3 DEF sendHeartBeat
  <2>4. AtTypes'
    BY <2>1, <2>3 DEF AtTypes, Goes
  <2> QED  BY <1>2, <2>2, <2>3, <2>4 DEF OneAnnouncer, Announces, Threads
<1>4. CASE m_outgoingAnnouncements # <<>>
  <2>1. PICK b \in BOOLEAN : /\ sent' = [sent EXCEPT ![t] = b]
                             /\ ~b => sending' = sending
                             /\ Goes(t, "pop")
                             /\ txTimer' = txTimer
    BY <1>4, HeartBeatSends
  <2>2. at'[t] = "pop" /\ \A r \in Threads : r # t => at'[r] = at[r]
    BY <2>1, ThreadMoves
  <2>3. sent'[t] = b /\ \A r \in Threads : r # t => sent'[r] = sent[r]
    BY <2>1 DEF AtTypes
  <2>4. AtTypes'
    BY <2>1 DEF AtTypes, Goes
  <2> QED  BY <1>2, <2>1, <2>2, <2>3, <2>4 DEF OneAnnouncer, Announces, Threads
<1> QED  BY <1>3, <1>4

LEMMA ChainPop ==
    ASSUME ChainInv, NEW t \in Threads, PopFront(t)
    PROVE  ChainInv'
<1> USE DEF ChainInv
<1>1. PICK w \in {"resolve", "idle"} : Goes(t, w)
  BY DEF PopFront, AfterAnnouncer
<1>2. /\ at[t] = "pop" /\ UNCHANGED <<sending, sent>>
      /\ txTimer' = (txTimer \/ ~sent[t])
  BY DEF PopFront
<1>3. at'[t] = w /\ \A r \in Threads : r # t => at'[r] = at[r]
  BY <1>1, ThreadMoves
<1>4. AtTypes'
  BY <1>1, <1>2 DEF AtTypes, Goes
<1>5. \A r \in Threads : Announces(r)' <=> r # t /\ Announces(r)
  BY <1>1, <1>2, <1>3 DEF Announces
<1>6. ~sent[t] => Announces(t)
  BY <1>2 DEF Announces
<1>7. OneAnnouncer'
  BY <1>2, <1>5, <1>6 DEF OneAnnouncer, Threads
<1> QED  BY <1>4, <1>7

\* The completion of a send and the expiry of the timer hand the chain on.
LEMMA ChainHandlers ==
    ASSUME ChainInv, SendCompletes \/ TxTimerExpires
    PROVE  ChainInv'
<1> USE DEF ChainInv
<1>1. PICK w \in {"heartbeat", "fill"} : Goes("io", w)
  BY DEF SendCompletes, TxTimerExpires
<1>2. at'["io"] = w /\ \A r \in Threads : r # "io" => at'[r] = at[r]
  BY <1>1, ThreadMoves DEF Threads
<1>3. AtTypes'
  BY <1>1 DEF AtTypes, Goes, SendCompletes, TxTimerExpires
<1>4. ~Announces("launch") /\ sending' = 0 /\ ~txTimer' /\ sent' = sent
  BY DEF SendCompletes, TxTimerExpires, OneAnnouncer, Threads
<1>5. ~Announces("launch")'
  BY <1>2, <1>4 DEF Announces, Threads
<1> QED  BY <1>3, <1>4, <1>5 DEF OneAnnouncer, Threads

\* Steps of the notifier and of the host.
LEMMA ChainOthers ==
    ASSUME ChainInv,
           \/ \E t \in Threads : resolveInterfaces(t) \/ joinGroups(t)
           \/ PollTimerExpires
    PROVE  ChainInv'
<1> USE DEF ChainInv
<1>1. PICK t \in Threads, w \in {"idle", "resolve", "join", "done"} :
         /\ at[t] \in {"idle", "resolve", "join"} /\ Goes(t, w)
         /\ UNCHANGED <<sending, txTimer, sent>>
  BY DEF resolveInterfaces, joinGroups, PollTimerExpires, announcer, Threads
<1>2. at'[t] = w /\ \A r \in Threads : r # t => at'[r] = at[r]
  BY <1>1, ThreadMoves
<1>3. AtTypes'
  BY <1>1 DEF AtTypes, Goes
<1>4. \A r \in Threads : Announces(r)' => Announces(r)
  BY <1>1, <1>2 DEF Announces
<1> QED  BY <1>1, <1>3, <1>4 DEF OneAnnouncer, Threads

LEMMA ChainNext == ChainInv /\ [DNext]_dvars => ChainInv'
<1> SUFFICES ASSUME ChainInv, [DNext]_dvars PROVE ChainInv'
  OBVIOUS
<1>1. CASE UNCHANGED <<sending, txTimer, sent, at>>
  BY <1>1 DEF ChainInv, AtTypes, OneAnnouncer, Announces
<1>2. ASSUME NEW i \in Interfaces, LinkUp(i) \/ LinkDown(i) PROVE ChainInv'
  BY <1>1, <1>2 DEF LinkUp, LinkDown, announcer
<1>3. CASE UNCHANGED dvars
  BY <1>1, <1>3 DEF dvars, announcer
<1>4. ASSUME NEW t \in Threads, Step(t) PROVE ChainInv'
  BY <1>4, ChainFill, ChainHeartBeat, ChainPop, ChainOthers DEF Step
<1> QED  BY <1>2, <1>3, <1>4, ChainHandlers, ChainOthers DEF DNext

-----------------------------------------------------------------------------
(***************************************************************************)
(* The notifier                                                            *)
(***************************************************************************)

\* launch() never is idle, and the io thread never at its end.
OneNotifier == NotifierGoesOn /\ at["launch"] # "idle" /\ at["io"] # "done"

\* Between the query and the cache being replaced, what was in both is in the
\* group; afterwards all that the query returned is.
GroupInv ==
    /\ AtTypes /\ OneNotifier
    /\ (\A t \in Threads : at[t] # "join") =>
          /\ m_knownInterfaceCache = current
          /\ (current \cap up) \ flapped \subseteq group
    /\ (m_knownInterfaceCache \cap current \cap up) \ flapped \subseteq group

LEMMA GroupInit == DInit => GroupInv
  BY DEF DInit, GroupInv, AtTypes, OneNotifier, NotifierGoesOn, Polls, Threads

\* Steps of the announcer.
LEMMA GroupAnnouncer ==
    ASSUME GroupInv,
           \/ \E t \in Threads : sendToAllInterfaces(t) \/ sendHeartBeat(t) \/ PopFront(t)
           \/ SendCompletes \/ TxTimerExpires
    PROVE  GroupInv'
<1> USE DEF GroupInv
<1>1. UNCHANGED <<up, current, m_knownInterfaceCache, pollTimer, flapped, group>>
  BY DEF sendToAllInterfaces, sendHeartBeat, PopFront, SendCompletes, TxTimerExpires, notifier
<1>2. PICK t \in Threads, w \in {"heartbeat", "pop", "fill", "resolve", "idle"} :
         /\ at[t] \in {"fill", "heartbeat", "pop", "idle"}
         /\ Goes(t, w)
         /\ w = "resolve" => t = "launch"
         /\ w = "idle" => t = "io"
  BY DEF sendToAllInterfaces, sendHeartBeat, PopFront, SendCompletes, TxTimerExpires,
         AfterAnnouncer, Threads
<1>3. at'[t] = w /\ \A r \in Threads : r # t => at'[r] = at[r]
  BY <1>2, ThreadMoves
<1>4. AtTypes'
  <2>1. sent' \in [Threads -> BOOLEAN]
    <3>1. ASSUME NEW r \in Threads, sendHeartBeat(r) PROVE sent' \in [Threads -> BOOLEAN]
      BY <3>1, HeartBeatSends DEF sendHeartBeat, AtTypes
    <3> QED  BY <3>1
         DEF sendToAllInterfaces, PopFront, SendCompletes, TxTimerExpires, AtTypes
  <2> QED  BY <1>2, <2>1 DEF AtTypes, Goes
<1>5. OneNotifier'
  BY <1>1, <1>2, <1>3 DEF OneNotifier, NotifierGoesOn, Polls, Threads
<1>6. (\A r \in Threads : at'[r] # "join") <=> (\A r \in Threads : at[r] # "join")
  BY <1>2, <1>3
<1> QED  BY <1>1, <1>4, <1>5, <1>6

LEMMA GroupLinks ==
    ASSUME GroupInv, NEW i \in Interfaces, LinkUp(i) \/ LinkDown(i)
    PROVE  GroupInv'
<1>1. UNCHANGED <<current, m_knownInterfaceCache, pollTimer, sent, at>>
  BY DEF LinkUp, LinkDown, announcer
<1>2. AtTypes' /\ OneNotifier'
  BY <1>1 DEF GroupInv, AtTypes, OneNotifier, NotifierGoesOn, Polls
<1>3. \A S : S \subseteq current /\ (S \cap up) \ flapped \subseteq group
               => (S \cap up') \ flapped' \subseteq group'
  BY DEF LinkUp, LinkDown
<1>4. (current \cap up) \ flapped \subseteq group
        => (current \cap up') \ flapped' \subseteq group'
  BY <1>3
<1>5. (m_knownInterfaceCache \cap current \cap up) \ flapped \subseteq group
        => (m_knownInterfaceCache \cap current \cap up') \ flapped' \subseteq group'
  BY <1>3
<1> QED  BY <1>1, <1>2, <1>4, <1>5 DEF GroupInv

LEMMA GroupPolls ==
    ASSUME GroupInv,
           \/ \E t \in Threads : resolveInterfaces(t) \/ joinGroups(t)
           \/ PollTimerExpires
    PROVE  GroupInv'
<1> USE DEF GroupInv
<1>1. CASE PollTimerExpires
  <2>1. /\ at["io"] = "idle" /\ pollTimer /\ pollTimer' = FALSE /\ Goes("io", "resolve")
        /\ UNCHANGED <<up, sent, current, m_knownInterfaceCache, flapped, group>>
    BY <1>1 DEF PollTimerExpires, announcer
  <2>2. at'["io"] = "resolve" /\ \A r \in Threads : r # "io" => at'[r] = at[r]
    BY <2>1, ThreadMoves DEF Threads
  <2>3. AtTypes'
    BY <2>1 DEF AtTypes, Goes
  <2>4. OneNotifier'
    BY <2>1, <2>2 DEF OneNotifier, NotifierGoesOn, Polls, Threads
  <2> QED  BY <2>1, <2>2, <2>3, <2>4 DEF Threads
<1>2. ASSUME NEW t \in Threads, resolveInterfaces(t) PROVE GroupInv'
  <2>1. /\ at[t] = "resolve" /\ Goes(t, "join")
        /\ current' = up /\ flapped' = flapped \cap up
        /\ UNCHANGED <<up, sent, pollTimer, m_knownInterfaceCache, group>>
    BY <1>2 DEF resolveInterfaces, announcer
  <2>2. at'[t] = "join" /\ \A r \in Threads : r # t => at'[r] = at[r]
    BY <2>1, ThreadMoves
  <2>3. AtTypes'
    BY <2>1 DEF AtTypes, Goes
  <2>4. OneNotifier'
    BY <2>1, <2>2 DEF OneNotifier, NotifierGoesOn, Polls, Threads
  <2>5. \A r \in Threads : at[r] # "join"
    BY <2>1 DEF OneNotifier, NotifierGoesOn, Polls, Threads
  <2> QED  BY <2>1, <2>2, <2>3, <2>4, <2>5
<1>3. ASSUME NEW t \in Threads, joinGroups(t) PROVE GroupInv'
  <2>1. PICK w \in {"done", "idle"} :
           /\ at[t] = "join" /\ Goes(t, w)
           /\ w = "done" <=> t = "launch"
           /\ group' = group \cup ((current \ m_knownInterfaceCache) \cap up)
           /\ m_knownInterfaceCache' = current /\ pollTimer' = TRUE
           /\ UNCHANGED <<up, sent, current, flapped>>
    BY <1>3 DEF joinGroups, announcer
  <2>2. at'[t] = w /\ \A r \in Threads : r # t => at'[r] = at[r]
    BY <2>1, ThreadMoves
  <2>3. AtTypes'
    BY <2>1 DEF AtTypes, Goes
  <2>4. OneNotifier'
    BY <2>1, <2>2 DEF OneNotifier, NotifierGoesOn, Polls, Threads
  <2>5. (current \cap up) \ flapped \subseteq group'
    BY <2>1
  <2> QED  BY <2>1, <2>3, <2>4, <2>5
<1> QED  BY <1>1, <1>2, <1>3

LEMMA GroupNext == GroupInv /\ [DNext]_dvars => GroupInv'
<1> SUFFICES ASSUME GroupInv, [DNext]_dvars PROVE GroupInv'
  OBVIOUS
<1>1. CASE UNCHANGED dvars
  BY <1>1 DEF dvars, announcer, notifier, GroupInv, AtTypes, OneNotifier, NotifierGoesOn, Polls
<1> QED  BY <1>1, GroupLinks, GroupAnnouncer, GroupPolls DEF DNext, Step

\* Whatever interfaces come and go, between two queries the listener is in the
\* multicast group on all that the last one found, but for those that are gone
\* and those that flapped meanwhile.
THEOREM JoinedUnlessFlappedThm == DSpec => []JoinedUnlessFlapped
<1>1. GroupInv => JoinedUnlessFlapped
  BY DEF GroupInv, JoinedUnlessFlapped
<1> QED  BY <1>1, GroupInit, GroupNext, PTL DEF DSpec

\* One chain of handlers announces the domain and one looks for interfaces,
\* however launch() on its thread interleaves with the handlers on the io thread,
\* and however the interfaces come and go: m_txBuffer is never used by two sends,
\* and there is always exactly one query under way or waited for.
THEOREM OneChainThm == DSpec => []OneChain
<1>1. ChainInv /\ GroupInv => OneChain
  BY DEF ChainInv, GroupInv, OneNotifier, OneChain
<1> QED  BY <1>1, ChainInit, ChainNext, GroupInit, GroupNext, PTL DEF DSpec
-----------------------------------------------------------------------------
(***************************************************************************)
(* The queue of announcements                                              *)
(***************************************************************************)

\* How many interfaces of S are not above x: the place of x in the iteration.
Place(S, x) == Cardinality({y \in S : y <= x})

LEMMA Places ==
    ASSUME NEW S \in SUBSET Interfaces
    PROVE  /\ IsFiniteSet(S) /\ Cardinality(S) \in Nat
           /\ Cardinality(S) <= Cardinality(Interfaces)
           /\ \A x \in S : Place(S, x) \in 1..Cardinality(S)
           /\ \A x, z \in S : x < z => Place(S, x) < Place(S, z)
<1>1. IsFiniteSet(Interfaces) /\ Interfaces \subseteq Nat
  BY InterfacesAssumption
<1>2. /\ IsFiniteSet(S) /\ Cardinality(S) \in Nat
      /\ Cardinality(S) <= Cardinality(Interfaces)
  BY <1>1, FS_Subset, FS_CardinalityType
<1>3. ASSUME NEW x \in S
      PROVE  /\ IsFiniteSet({y \in S : y <= x}) /\ Place(S, x) \in Nat
             /\ Place(S, x) <= Cardinality(S) /\ Place(S, x) # 0
  <2> DEFINE B == {y \in S : y <= x}
  <2>1. B \in SUBSET S /\ x \in B
    BY <1>1
  <2>2. IsFiniteSet(B) /\ Cardinality(B) <= Cardinality(S) /\ Cardinality(B) \in Nat
    BY <1>2, <2>1, FS_Subset, FS_CardinalityType
  <2>3. Cardinality(B) # 0
    BY <2>1, <2>2, FS_EmptySet
  <2> QED  BY <2>2, <2>3 DEF Place
<1>4. ASSUME NEW x \in S, NEW z \in S, x < z
      PROVE  Place(S, x) < Place(S, z)
  <2> DEFINE B == {y \in S : y <= x}
             C == {y \in S : y <= z}
  <2>1. B \in SUBSET C /\ z \in C /\ z \notin B
    <3>1. S \subseteq Nat /\ x \in Nat /\ z \in Nat
      BY <1>1
    <3>2. \A y \in S : y <= x => y <= z
      BY <1>4, <3>1
    <3>3. z <= z /\ ~(z <= x)
      BY <1>4, <3>1
    <3> QED  BY <3>2, <3>3
  <2>2. IsFiniteSet(B) /\ IsFiniteSet(C) /\ Cardinality(B) \in Nat /\ Cardinality(C) \in Nat
    BY <1>3, FS_CardinalityType
  <2> HIDE DEF B, C
  <2>3. Cardinality(B) <= Cardinality(C) /\ Cardinality(B) # Cardinality(C)
    BY <2>1, <2>2, FS_Subset
  <2>4. Cardinality(B) < Cardinality(C)
    BY <2>2, <2>3
  <2> QED  BY <2>4 DEF Place, B, C
<1>5. ASSUME NEW x \in S
      PROVE  Place(S, x) \in 1..Cardinality(S)
  <2>1. \A p, n \in Nat : p <= n /\ p # 0 => p \in 1..n
    OBVIOUS
  <2> QED  BY <1>2, <1>3, <2>1
<1> QED  BY <1>2, <1>4, <1>5

\* The iteration over a set of interfaces visits each of them once, in order.
LEMMA InOrderSequence ==
    ASSUME NEW S \in SUBSET Interfaces
    PROVE  /\ InOrder(S) \in Seq(S)
           /\ Len(InOrder(S)) = Cardinality(S)
           /\ \A i, j \in 1..Cardinality(S) : i < j => InOrder(S)[i] < InOrder(S)[j]
<1> DEFINE n == Cardinality(S)
           place == [x \in S |-> Place(S, x)]
           q == [i \in 1..n |-> CHOOSE x \in S : place[x] = i]
<1>1. /\ IsFiniteSet(S) /\ n \in Nat
      /\ \A x \in S : place[x] \in 1..n
      /\ \A x, z \in S : x < z => place[x] < place[z]
      /\ S \subseteq Nat
  BY Places, InterfacesAssumption
<1>2. place \in Surjection(S, 1..n)
  <2>1. place \in Injection(S, 1..n)
    <3>1. place \in [S -> 1..n]
      BY <1>1
    <3>2. \A x, z \in S : place[x] = place[z] => x = z
      <4> SUFFICES ASSUME NEW x \in S, NEW z \in S, place[x] = place[z], x # z
                   PROVE  FALSE
        OBVIOUS
      <4>1. x < z \/ z < x
        BY <1>1
      <4>2. place[x] < place[z] \/ place[z] < place[x]
        BY <1>1, <4>1
      <4>3. place[x] \in 1..n /\ place[z] \in 1..n
        BY <1>1
      <4> HIDE DEF place
      <4> QED  BY <4>2, <4>3
    <3> HIDE DEF place, n
    <3> QED  BY <3>1, <3>2, Fun_IsInj
  <2>2. IsFiniteSet(1..n) /\ Cardinality(1..n) = n
    <3>1. Cardinality(1..n) = IF 1 > n THEN 0 ELSE n - 1 + 1
      BY <1>1, FS_Interval
    <3> HIDE DEF n
    <3> QED  BY <1>1, <3>1, FS_Interval
  <2> HIDE DEF place
  <2> QED  BY <2>1, <2>2, FS_Injection
<1>3. \A i \in 1..n : \E x \in S : place[x] = i
  <2> HIDE DEF place, n
  <2> QED  BY <1>2, Fun_SurjectionProperties
<1> HIDE DEF place
<1>4. /\ q \in [1..n -> S]
      /\ \A i \in 1..n : place[q[i]] = i
  BY <1>3
<1> HIDE DEF q
<1>5. \A i, j \in 1..n : i < j => q[i] < q[j]
  <2> SUFFICES ASSUME NEW i \in 1..n, NEW j \in 1..n, i < j, ~(q[i] < q[j])
               PROVE  FALSE
    OBVIOUS
  <2>1. q[i] \in S /\ q[j] \in S /\ place[q[i]] = i /\ place[q[j]] = j
    BY <1>4
  <2>2. q[i] = q[j] \/ q[j] < q[i]
    <3>1. q[i] \in Nat /\ q[j] \in Nat
      BY <1>1, <2>1
    <3> QED  BY <3>1
  <2>3. i = j \/ j < i
    BY <1>1, <2>1, <2>2
  <2> QED  BY <1>1, <2>3
<1>6. q \in SetToSeqs(S) /\ DOMAIN q = 1..n
  BY <1>4 DEF SetToSeqs, n
<1>7. /\ InOrder(S) \in SetToSeqs(S)
      /\ \A i, j \in DOMAIN InOrder(S) : i < j => InOrder(S)[i] < InOrder(S)[j]
  BY <1>5, <1>6 DEF InOrder
<1>8. InOrder(S) \in [1..n -> S]
  BY <1>7 DEF SetToSeqs, n
<1> HIDE DEF n
<1>9. InOrder(S) \in Seq(S) /\ Len(InOrder(S)) = n /\ DOMAIN InOrder(S) = 1..n
  BY <1>1, <1>8
<1> QED  BY <1>7, <1>9 DEF n

\* What DTypeOK says of the announcer's queue and timer, and of the rest.
QueueTypes == /\ m_outgoingAnnouncements \in Seq(Interfaces)
              /\ sending \in Interfaces \cup {0}
              /\ txTimer \in BOOLEAN /\ crashed \in BOOLEAN

LinkTypes == /\ up \subseteq Interfaces /\ group \subseteq Interfaces
             /\ current \subseteq Interfaces /\ m_knownInterfaceCache \subseteq Interfaces
             /\ flapped \subseteq current /\ pollTimer \in BOOLEAN

LEMMA LinkTypesInit == DInit => LinkTypes
  BY DEF DInit, LinkTypes

LEMMA LinkTypesNext == LinkTypes /\ [DNext]_dvars => LinkTypes'
<1> SUFFICES ASSUME LinkTypes, [DNext]_dvars PROVE LinkTypes'
  OBVIOUS
<1>1. CASE UNCHANGED <<up, current, m_knownInterfaceCache, pollTimer, flapped, group>>
  BY <1>1 DEF LinkTypes
<1>2. CASE UNCHANGED dvars
  BY <1>1, <1>2 DEF dvars, notifier
<1>3. ASSUME NEW i \in Interfaces, LinkUp(i) \/ LinkDown(i) PROVE LinkTypes'
  <2>1. CASE LinkUp(i)
    BY <2>1 DEF LinkUp, LinkTypes
  <2>2. CASE LinkDown(i)
    BY <2>2 DEF LinkDown, LinkTypes
  <2> QED  BY <1>3, <2>1, <2>2
<1>4. ASSUME NEW t \in Threads, sendToAllInterfaces(t) \/ sendHeartBeat(t) \/ PopFront(t)
      PROVE  LinkTypes'
  BY <1>1, <1>4 DEF sendToAllInterfaces, sendHeartBeat, PopFront, notifier
<1>5. ASSUME NEW t \in Threads, resolveInterfaces(t) PROVE LinkTypes'
  BY <1>5 DEF resolveInterfaces, LinkTypes
<1>6. ASSUME NEW t \in Threads, joinGroups(t) PROVE LinkTypes'
  BY <1>6 DEF joinGroups, LinkTypes
<1>7. CASE SendCompletes \/ TxTimerExpires
  BY <1>1, <1>7 DEF SendCompletes, TxTimerExpires, notifier
<1>8. CASE PollTimerExpires
  BY <1>8 DEF PollTimerExpires, LinkTypes
<1> QED  BY <1>2, <1>3, <1>4, <1>5, <1>6, <1>7, <1>8 DEF DNext, Step

\* A new round is queued with less than one in the queue, the handlers that send
\* never find more than one, and what is queued on top of a rest stays for ever.
Rounds ==
    /\ Len(m_outgoingAnnouncements) < 2 * Cardinality(Interfaces)
    /\ sending # 0 \/ (\E t \in Threads : Announces(t)) =>
          Len(m_outgoingAnnouncements) <= Cardinality(Interfaces)
    /\ txTimer \/ (\E t \in Threads : at[t] = "fill") =>
          Len(m_outgoingAnnouncements) < Cardinality(Interfaces)

QueueInv == ChainInv /\ LinkTypes /\ QueueTypes /\ Rounds

LEMMA SomeInterfaces == Cardinality(Interfaces) \in Nat /\ Cardinality(Interfaces) # 0
  BY InterfacesAssumption, FS_CardinalityType, FS_EmptySet

LEMMA QueueInit == DInit => QueueInv
<1> SUFFICES ASSUME DInit PROVE QueueInv
  OBVIOUS
<1>1. m_outgoingAnnouncements = <<>> /\ sending = 0 /\ txTimer = FALSE /\ crashed = FALSE
  BY DEF DInit
<1>2. Len(m_outgoingAnnouncements) = 0
  BY <1>1
<1>3. Rounds
  BY <1>2, SomeInterfaces DEF Rounds
<1>4. QueueTypes
  <2>1. m_outgoingAnnouncements \in Seq(Interfaces)
    BY <1>1
  <2>2. txTimer \in BOOLEAN /\ crashed \in BOOLEAN
    BY <1>1
  <2> QED  BY <1>1, <2>1, <2>2 DEF QueueTypes
<1> QED  BY <1>3, <1>4, ChainInit, LinkTypesInit DEF QueueInv

\* Steps that leave the queue alone, and where no handler starts to announce.
LEMMA QueueKept ==
    ASSUME QueueInv, UNCHANGED <<m_outgoingAnnouncements, sending, txTimer, sent, crashed>>,
           \A t \in Threads : at'[t] \in {"fill", "heartbeat", "pop"} => at'[t] = at[t]
    PROVE  QueueTypes' /\ Rounds'
<1>1. \A t \in Threads : Announces(t)' => Announces(t)
  BY DEF Announces
<1>2. Rounds'
  BY <1>1 DEF QueueInv, Rounds
<1> QED  BY <1>2 DEF QueueInv, QueueTypes

\* A round is queued: on an empty queue, or on a rest that nothing goes on with.
LEMMA QueueFill ==
    ASSUME QueueInv, NEW t \in Threads, sendToAllInterfaces(t)
    PROVE  QueueTypes' /\ Rounds'
<1> DEFINE q == m_outgoingAnnouncements
           n == Cardinality(Interfaces)
<1>1. /\ at[t] = "fill" /\ UNCHANGED <<sending, txTimer, sent, crashed>>
      /\ q' = q \o InOrder(up)
  BY DEF sendToAllInterfaces
<1>2. /\ InOrder(up) \in Seq(Interfaces) /\ Len(InOrder(up)) \in Nat
      /\ Len(InOrder(up)) <= n
  <2>1. up \in SUBSET Interfaces
    BY DEF QueueInv, LinkTypes
  <2>2. InOrder(up) \in Seq(up) /\ Len(InOrder(up)) = Cardinality(up)
    BY <2>1, InOrderSequence
  <2>3. Cardinality(up) \in Nat /\ Cardinality(up) <= n
    BY <2>1, Places
  <2> QED  BY <2>1, <2>2, <2>3
<1>3. q \in Seq(Interfaces) /\ Len(q) \in Nat /\ n \in Nat /\ n # 0
  BY SomeInterfaces DEF QueueInv, QueueTypes
<1>4. Len(q) < n
  BY <1>1 DEF QueueInv, Rounds
<1>5. q' \in Seq(Interfaces) /\ Len(q') = Len(q) + Len(InOrder(up))
  BY <1>1, <1>2, <1>3
<1>6. Announces(t) /\ sending = 0 /\ ~txTimer /\ \A r \in Threads : r # t => ~Announces(r)
  BY <1>1 DEF Announces, QueueInv, ChainInv, OneAnnouncer, Threads
<1>7. PICK w \in {"heartbeat", "resolve", "idle"} :
         Goes(t, w) /\ (w = "heartbeat" <=> q = <<>>)
  BY DEF sendToAllInterfaces, AfterAnnouncer
<1>8. at'[t] = w /\ \A r \in Threads : r # t => at'[r] = at[r]
  BY <1>7, ThreadMoves DEF QueueInv, ChainInv
<1>9. /\ \A r \in Threads : Announces(r)' => r = t /\ q = <<>>
      /\ \A r \in Threads : at'[r] # "fill"
  BY <1>1, <1>6, <1>7, <1>8 DEF Announces
<1>10. Len(q') < 2 * n
  BY <1>2, <1>3, <1>4, <1>5
<1>11. q = <<>> => Len(q') <= n
  <2>1. q = <<>> => Len(q) = 0
    OBVIOUS
  <2> QED  BY <1>2, <1>3, <1>5, <2>1
<1> HIDE DEF q, n
<1>12. Rounds'
  BY <1>1, <1>6, <1>9, <1>10, <1>11 DEF Rounds, q, n
<1>13. QueueTypes'
  BY <1>1, <1>5 DEF QueueInv, QueueTypes, q
<1> QED  BY <1>12, <1>13

LEMMA QueueHeartBeat ==
    ASSUME QueueInv, NEW t \in Threads, sendHeartBeat(t)
    PROVE  QueueTypes' /\ Rounds'
<1> DEFINE q == m_outgoingAnnouncements
           n == Cardinality(Interfaces)
<1>1. at[t] = "heartbeat" /\ UNCHANGED <<m_outgoingAnnouncements, crashed>>
  BY DEF sendHeartBeat
<1>2. q \in Seq(Interfaces) /\ Len(q) \in Nat /\ n \in Nat /\ n # 0
  BY SomeInterfaces DEF QueueInv, QueueTypes
<1>3. Announces(t) /\ Len(q) <= n /\ Len(q) < 2 * n
  BY <1>1, <1>2 DEF Announces, QueueInv, Rounds
<1>4. \A r \in Threads : at'[r] # "fill"
  <2>1. PICK w \in {"pop", "resolve", "idle"} : Goes(t, w)
    BY DEF sendHeartBeat, AfterAnnouncer
  <2>2. at'[t] = w /\ \A r \in Threads : r # t => at'[r] = at[r]
    BY <2>1, ThreadMoves DEF QueueInv, ChainInv
  <2>3. \A r \in Threads : r # t => at[r] # "fill"
    BY <1>3 DEF Announces, QueueInv, ChainInv, OneAnnouncer, Threads
  <2> QED  BY <2>1, <2>2, <2>3
<1>5. CASE q = <<>>
  <2>1. Len(q) = 0
    BY <1>5
  <2>2. txTimer' = TRUE /\ sending' = sending
    BY <1>5 DEF sendHeartBeat
  <2> QED  BY <1>1, <1>2, <1>3, <2>1, <2>2 DEF QueueInv, QueueTypes, Rounds
<1>6. CASE q # <<>>
  <2>1. Head(q) \in Interfaces
    BY <1>2, <1>6
  <2>2. txTimer' = txTimer /\ sending' \in {Head(q), sending}
    BY <1>6 DEF sendHeartBeat
  <2>3. ~txTimer
    BY <1>3 DEF QueueInv, ChainInv, OneAnnouncer
  <2> QED  BY <1>1, <1>3, <1>4, <2>1, <2>2, <2>3 DEF QueueInv, QueueTypes, Rounds
<1> QED  BY <1>5, <1>6

LEMMA QueuePop ==
    ASSUME QueueInv, NEW t \in Threads, PopFront(t)
    PROVE  QueueTypes' /\ Rounds'
<1> DEFINE q == m_outgoingAnnouncements
           n == Cardinality(Interfaces)
<1>1. /\ at[t] = "pop" /\ UNCHANGED <<sending, sent>>
      /\ txTimer' = (txTimer \/ ~sent[t]) /\ crashed' \in {crashed, TRUE}
      /\ q' = IF q = <<>> THEN q ELSE Tail(q)
  BY DEF PopFront
<1>2. q \in Seq(Interfaces) /\ Len(q) \in Nat /\ n \in Nat /\ n # 0
  BY SomeInterfaces DEF QueueInv, QueueTypes
<1>3. /\ q' \in Seq(Interfaces) /\ Len(q') \in Nat /\ Len(q') <= Len(q)
      /\ Len(q) <= n => Len(q') < n
  BY <1>1, <1>2
<1>4. PICK w \in {"resolve", "idle"} : Goes(t, w)
  BY DEF PopFront, AfterAnnouncer
<1>5. at'[t] = w /\ \A r \in Threads : r # t => at'[r] = at[r]
  BY <1>4, ThreadMoves DEF QueueInv, ChainInv
<1>6. /\ \A r \in Threads : Announces(r)' => Announces(r)
      /\ \A r \in Threads : at'[r] = "fill" => at[r] = "fill"
  BY <1>1, <1>4, <1>5 DEF Announces
<1>7. ~sent[t] => Len(q) <= n
  BY <1>1 DEF Announces, QueueInv, Rounds
<1>8. Len(q') < 2 * n
  BY <1>2, <1>3 DEF QueueInv, Rounds
<1>9. sending' # 0 \/ (\E r \in Threads : Announces(r)') => Len(q') <= n
  BY <1>1, <1>2, <1>3, <1>6 DEF QueueInv, Rounds
<1>10. txTimer' \/ (\E r \in Threads : at'[r] = "fill") => Len(q') < n
  <2>1. CASE ~sent[t]
    BY <1>3, <1>7, <2>1
  <2>2. CASE sent[t]
    <3>1. txTimer' \/ (\E r \in Threads : at'[r] = "fill") => Len(q) < n
      BY <1>1, <1>6, <2>2 DEF QueueInv, Rounds
    <3> QED  BY <1>2, <1>3, <3>1
  <2> QED  BY <2>1, <2>2
<1>11. Rounds'
  BY <1>8, <1>9, <1>10 DEF Rounds
<1>12. QueueTypes'
  <2>1. txTimer' \in BOOLEAN /\ crashed' \in BOOLEAN
    BY <1>1 DEF QueueInv, QueueTypes
  <2> QED  BY <1>1, <1>3, <2>1 DEF QueueInv, QueueTypes
<1> QED  BY <1>11, <1>12

LEMMA QueueHandlers ==
    ASSUME QueueInv, SendCompletes \/ TxTimerExpires
    PROVE  QueueTypes' /\ Rounds'
<1> DEFINE q == m_outgoingAnnouncements
           n == Cardinality(Interfaces)
<1>1. PICK w \in {"heartbeat", "fill"} :
         /\ Goes("io", w)
         /\ w = "heartbeat" => sending # 0 /\ txTimer' = txTimer
         /\ w = "fill" => txTimer /\ txTimer' = FALSE /\ sending' = sending
         /\ sending' \in {0, sending}
         /\ UNCHANGED <<m_outgoingAnnouncements, sent, crashed>>
  BY DEF SendCompletes, TxTimerExpires
<1>2. at'["io"] = w /\ \A r \in Threads : r # "io" => at'[r] = at[r]
  BY <1>1, ThreadMoves DEF Threads, QueueInv, ChainInv
<1>3. q \in Seq(Interfaces) /\ Len(q) \in Nat /\ n \in Nat
  BY SomeInterfaces DEF QueueInv, QueueTypes
<1>4. Len(q) <= n /\ Len(q) < 2 * n /\ (w = "fill" => Len(q) < n)
  BY <1>1, <1>3 DEF QueueInv, Rounds
<1>5. txTimer' \/ (\E r \in Threads : at'[r] = "fill") => Len(q) < n
  BY <1>1, <1>2, <1>4 DEF QueueInv, Rounds, Threads
<1>6. Rounds'
  BY <1>1, <1>4, <1>5 DEF Rounds
<1>7. QueueTypes'
  BY <1>1 DEF QueueInv, QueueTypes
<1> QED  BY <1>6, <1>7

LEMMA QueueOthers ==
    ASSUME QueueInv,
           \/ \E i \in Interfaces : LinkUp(i) \/ LinkDown(i)
           \/ \E t \in Threads : resolveInterfaces(t) \/ joinGroups(t)
           \/ PollTimerExpires
           \/ UNCHANGED dvars
    PROVE  QueueTypes' /\ Rounds'
<1>1. UNCHANGED <<m_outgoingAnnouncements, sending, txTimer, sent, crashed>>
  BY DEF LinkUp, LinkDown, resolveInterfaces, joinGroups, PollTimerExpires, dvars, announcer
<1>2. at' = at \/ \E t \in Threads, w \in {"join", "done", "idle", "resolve"} : Goes(t, w)
  BY DEF LinkUp, LinkDown, resolveInterfaces, joinGroups, PollTimerExpires, dvars, Threads
<1>3. \A t \in Threads : at'[t] \in {"fill", "heartbeat", "pop"} => at'[t] = at[t]
  <2>1. CASE at' = at
    BY <2>1
  <2>2. ASSUME NEW r \in Threads, NEW w \in {"join", "done", "idle", "resolve"}, Goes(r, w)
        PROVE  \A t \in Threads : at'[t] \in {"fill", "heartbeat", "pop"} => at'[t] = at[t]
    <3>1. at'[r] = w /\ \A t \in Threads : t # r => at'[t] = at[t]
      BY <2>2, ThreadMoves DEF QueueInv, ChainInv
    <3> QED  BY <2>2, <3>1
  <2> QED  BY <1>2, <2>1, <2>2
<1> QED  BY <1>1, <1>3, QueueKept

LEMMA QueueNext == QueueInv /\ [DNext]_dvars => QueueInv'
<1> SUFFICES ASSUME QueueInv, [DNext]_dvars PROVE QueueInv'
  OBVIOUS
<1>1. QueueTypes' /\ Rounds'
  BY QueueFill, QueueHeartBeat, QueuePop, QueueHandlers, QueueOthers DEF DNext, Step
<1> QED  BY <1>1, ChainNext, LinkTypesNext DEF QueueInv

\* Only addresses of the host are announced, and every one that is queued, sent
\* to, joined or remembered is one of them.
THEOREM DTypeCorrect == DSpec => []DTypeOK
<1>1. QueueInv => DTypeOK
  BY DEF QueueInv, ChainInv, AtTypes, LinkTypes, QueueTypes, DTypeOK
<1> QED  BY <1>1, QueueInit, QueueNext, PTL DEF DSpec

\* However the interfaces come and go, m_outgoingAnnouncements never holds two
\* full rounds: at most one is queued on top of what a failed send left, and it
\* is the last.
THEOREM QueueBoundedThm == DSpec => []QueueBounded
<1>1. QueueInv => QueueBounded
  BY DEF QueueInv, Rounds, QueueBounded
<1> QED  BY <1>1, QueueInit, QueueNext, PTL DEF DSpec
-----------------------------------------------------------------------------
(***************************************************************************)
(* What silences the announcer                                             *)
(***************************************************************************)

\* launch() queues its round before anything else can be queued.
LaunchFirst == at["launch"] = "fill" => m_outgoingAnnouncements = <<>>

LEMMA LaunchFirstNext == ChainInv /\ LaunchFirst /\ [DNext]_dvars => LaunchFirst'
<1> SUFFICES ASSUME ChainInv, LaunchFirst, [DNext]_dvars PROVE LaunchFirst'
  OBVIOUS
<1> USE DEF ChainInv, LaunchFirst
<1>1. CASE UNCHANGED <<at, m_outgoingAnnouncements>>
  BY <1>1
<1>2. CASE UNCHANGED dvars \/ (\E i \in Interfaces : LinkUp(i) \/ LinkDown(i))
  BY <1>1, <1>2 DEF dvars, announcer, LinkUp, LinkDown
<1>3. ASSUME NEW t \in Threads, NEW w, Goes(t, w), w # "fill", at["launch"] # "fill" \/ t = "launch"
      PROVE  LaunchFirst'
  BY <1>3, ThreadMoves DEF Threads
<1>4. ASSUME NEW t \in Threads, sendToAllInterfaces(t) PROVE LaunchFirst'
  <2>1. PICK w \in {"heartbeat", "resolve", "idle"} : Goes(t, w)
    BY <1>4 DEF sendToAllInterfaces, AfterAnnouncer
  <2>2. at["launch"] # "fill" \/ t = "launch"
    BY <1>4 DEF sendToAllInterfaces, OneAnnouncer, Announces, Threads
  <2> QED  BY <1>3, <2>1, <2>2
<1>5. ASSUME NEW t \in Threads, sendHeartBeat(t) PROVE LaunchFirst'
  <2>1. PICK w \in {"pop", "resolve", "idle"} : Goes(t, w)
    BY <1>5 DEF sendHeartBeat, AfterAnnouncer
  <2>2. at["launch"] # "fill" \/ t = "launch"
    BY <1>5 DEF sendHeartBeat, OneAnnouncer, Announces, Threads
  <2> QED  BY <1>3, <2>1, <2>2
<1>6. ASSUME NEW t \in Threads, PopFront(t) PROVE LaunchFirst'
  <2>1. PICK w \in {"resolve", "idle"} : Goes(t, w)
    BY <1>6 DEF PopFront, AfterAnnouncer
  <2>2. at'[t] = w /\ \A r \in Threads : r # t => at'[r] = at[r]
    BY <2>1, ThreadMoves
  <2>3. m_outgoingAnnouncements = <<>> => m_outgoingAnnouncements' = <<>>
    BY <1>6 DEF PopFront
  <2> QED  BY <2>2, <2>3 DEF Threads
<1>7. ASSUME NEW t \in Threads, resolveInterfaces(t) \/ joinGroups(t) PROVE LaunchFirst'
  <2>1. PICK w \in {"join", "done", "idle"} : Goes(t, w)
    BY <1>7 DEF resolveInterfaces, joinGroups
  <2>2. at'[t] = w /\ \A r \in Threads : r # t => at'[r] = at[r]
    BY <2>1, ThreadMoves
  <2>3. UNCHANGED m_outgoingAnnouncements
    BY <1>7 DEF resolveInterfaces, joinGroups, announcer
  <2> QED  BY <2>2, <2>3 DEF Threads
<1>8. CASE SendCompletes \/ TxTimerExpires \/ PollTimerExpires
  <2>1. PICK w \in {"heartbeat", "fill", "resolve"} : Goes("io", w)
    BY <1>8 DEF SendCompletes, TxTimerExpires, PollTimerExpires
  <2>2. at'["launch"] = at["launch"]
    BY <2>1, ThreadMoves DEF Threads
  <2>3. UNCHANGED m_outgoingAnnouncements
    BY <1>8 DEF SendCompletes, TxTimerExpires, PollTimerExpires, announcer
  <2> QED  BY <2>2, <2>3
<1> QED  BY <1>2, <1>4, <1>5, <1>6, <1>7, <1>8 DEF DNext, Step

SilenceInv == QueueInv /\ LaunchFirst
Silences == Silent' <=> Silent \/ (Stalls /\ sendToAllInterfaces("io"))

\* A step of another kind than the io thread's sendToAllInterfaces().
LEMMA FillMoves ==
    ASSUME AtTypes, at["io"] # "fill" \/ at'["io"] = at["io"]
    PROVE  ~sendToAllInterfaces("io")
<1> SUFFICES ASSUME sendToAllInterfaces("io") PROVE FALSE
  OBVIOUS
<1>1. PICK w \in {"heartbeat", "idle"} : Goes("io", w)
  BY DEF sendToAllInterfaces, AfterAnnouncer
<1>2. at'["io"] = w
  BY <1>1, ThreadMoves DEF Threads
<1> QED  BY <1>2 DEF sendToAllInterfaces

\* A round is queued: the chain goes on, unless the io thread stalls.
LEMMA SilenceFill ==
    ASSUME SilenceInv, NEW t \in Threads, sendToAllInterfaces(t)
    PROVE  Silences
<1> USE DEF SilenceInv, QueueInv, ChainInv
<1>1. at[t] = "fill" /\ Announces(t) /\ UNCHANGED <<sending, txTimer, sent>>
  BY DEF sendToAllInterfaces, Announces
<1>2. /\ sending = 0 /\ ~txTimer /\ \A r \in Threads : r # t => ~Announces(r)
      /\ ~Silent
  BY <1>1 DEF OneAnnouncer, Threads, Silent
<1>3. PICK w : Goes(t, w) /\ w = IF m_outgoingAnnouncements = <<>>
                                THEN "heartbeat" ELSE AfterAnnouncer(t)
  BY DEF sendToAllInterfaces
<1>4. at'[t] = w /\ \A r \in Threads : r # t => at'[r] = at[r]
  BY <1>3, ThreadMoves
<1>5. CASE m_outgoingAnnouncements = <<>>
  <2>1. Announces(t)'
    BY <1>3, <1>4, <1>5 DEF Announces
  <2> QED  BY <1>2, <1>5, <2>1 DEF Silences, Silent, Stalls
<1>6. CASE m_outgoingAnnouncements # <<>>
  <2>1. t = "io"
    BY <1>1, <1>6 DEF LaunchFirst, Threads
  <2>2. \A r \in Threads : ~Announces(r)'
    BY <1>1, <1>2, <1>3, <1>4, <1>6, <2>1 DEF Announces, AfterAnnouncer
  <2>3. Silent'
    BY <1>1, <1>2, <2>2 DEF Silent
  <2> QED  BY <1>1, <1>6, <2>1, <2>3 DEF Silences, Stalls
<1> QED  BY <1>5, <1>6

\* A send that cannot begin is followed by the timer, one that begins by its
\* completion, and an empty round by the timer.
LEMMA SilenceHeartBeat ==
    ASSUME SilenceInv, NEW t \in Threads, sendHeartBeat(t)
    PROVE  Silences
<1> USE DEF SilenceInv, QueueInv, ChainInv
<1>1. at[t] = "heartbeat" /\ Announces(t) /\ ~Silent
  BY DEF sendHeartBeat, Announces, Silent
<1>2. \A r \in Threads : r # t => ~Announces(r)
  BY <1>1 DEF OneAnnouncer, Threads
<1>3. at["io"] # "fill"
  BY <1>1, <1>2 DEF Announces, Threads
<1>4. ~Silent'
  <2>1. CASE m_outgoingAnnouncements = <<>>
    BY <2>1 DEF sendHeartBeat, Silent
  <2>2. CASE m_outgoingAnnouncements # <<>> /\ Head(m_outgoingAnnouncements) \in up
    <3>1. sending' = Head(m_outgoingAnnouncements)
      BY <2>2 DEF sendHeartBeat
    <3>2. sending' # 0
      BY <2>2, <3>1, InterfacesAssumption DEF LinkTypes
    <3> QED  BY <3>2 DEF Silent
  <2>3. CASE m_outgoingAnnouncements # <<>> /\ Head(m_outgoingAnnouncements) \notin up
    <3>1. ~sent'[t]
      <4> DEFINE i == Head(m_outgoingAnnouncements)
      <4>1. sent' = [sent EXCEPT ![t] = (i \in up)] /\ i \notin up
        BY <2>3 DEF sendHeartBeat
      <4>2. (i \in up) \in BOOLEAN
        OBVIOUS
      <4> HIDE DEF i
      <4>3. PICK b \in BOOLEAN : sent' = [sent EXCEPT ![t] = b] /\ ~b
        BY <4>1, <4>2, Zenon
      <4> QED  BY <4>3 DEF AtTypes
    <3>2. at'[t] = "pop"
      BY <2>3, ThreadMoves DEF sendHeartBeat
    <3> QED  BY <3>1, <3>2 DEF Silent, Announces
  <2> QED  BY <2>1, <2>2, <2>3
<1> QED  BY <1>1, <1>3, <1>4 DEF Silences, Stalls

LEMMA SilencePop ==
    ASSUME SilenceInv, NEW t \in Threads, PopFront(t)
    PROVE  Silences
<1> USE DEF SilenceInv, QueueInv, ChainInv
<1>1. PICK w \in {"resolve", "idle"} : Goes(t, w)
  BY DEF PopFront, AfterAnnouncer
<1>2. /\ at[t] = "pop" /\ UNCHANGED <<sending, sent>>
      /\ txTimer' = (txTimer \/ ~sent[t])
  BY DEF PopFront
<1>3. at'[t] = w /\ \A r \in Threads : r # t => at'[r] = at[r]
  BY <1>1, ThreadMoves
<1>4. ~sendToAllInterfaces("io")
  BY <1>2, <1>3, FillMoves DEF Threads
<1>5. \A r \in Threads : Announces(r)' <=> r # t /\ Announces(r)
  BY <1>1, <1>2, <1>3 DEF Announces
<1>6. ~sent[t] <=> Announces(t)
  BY <1>2 DEF Announces
<1> QED  BY <1>2, <1>4, <1>5, <1>6 DEF Silences, Silent

\* The completion of a send and the expiry of the timer are not lost.
LEMMA SilenceHandlers ==
    ASSUME SilenceInv, SendCompletes \/ TxTimerExpires
    PROVE  Silences
<1> USE DEF SilenceInv, QueueInv, ChainInv
<1>1. PICK w \in {"heartbeat", "fill"} : Goes("io", w)
  BY DEF SendCompletes, TxTimerExpires
<1>2. at'["io"] = w
  BY <1>1, ThreadMoves DEF Threads
<1>3. Announces("io")' /\ ~Silent /\ at["io"] # "fill"
  BY <1>2 DEF Announces, SendCompletes, TxTimerExpires, Silent
<1> QED  BY <1>3 DEF Silences, Silent, Stalls, Threads

\* Steps of the notifier.
LEMMA SilenceOthers ==
    ASSUME SilenceInv,
           \/ \E t \in Threads : resolveInterfaces(t) \/ joinGroups(t)
           \/ PollTimerExpires
    PROVE  Silences
<1> USE DEF SilenceInv, QueueInv, ChainInv
<1>1. PICK t \in Threads, w \in {"idle", "resolve", "join", "done"} :
         /\ at[t] \in {"idle", "resolve", "join"} /\ Goes(t, w)
         /\ UNCHANGED <<sending, txTimer, sent>>
  BY DEF resolveInterfaces, joinGroups, PollTimerExpires, announcer, Threads
<1>2. at'[t] = w /\ \A r \in Threads : r # t => at'[r] = at[r]
  BY <1>1, ThreadMoves
<1>3. ~sendToAllInterfaces("io")
  BY <1>1, <1>2, FillMoves DEF Threads
<1>4. \A r \in Threads : Announces(r)' <=> Announces(r)
  BY <1>1, <1>2 DEF Announces
<1> QED  BY <1>1, <1>3, <1>4 DEF Silences, Silent

LEMMA SilenceNext == SilenceInv /\ [DNext]_dvars => [Silences]_dvars
<1> SUFFICES ASSUME SilenceInv, DNext PROVE Silences
  BY DEF dvars
<1>1. ASSUME NEW i \in Interfaces, LinkUp(i) \/ LinkDown(i) PROVE Silences
  <2>1. UNCHANGED <<sending, txTimer, sent, at>>
    BY <1>1 DEF LinkUp, LinkDown, announcer
  <2>2. ~sendToAllInterfaces("io")
    BY <2>1, FillMoves DEF SilenceInv, QueueInv, ChainInv
  <2> QED  BY <2>1, <2>2 DEF Silences, Silent, Announces
<1>2. ASSUME NEW t \in Threads, Step(t) PROVE Silences
  BY <1>2, SilenceFill, SilenceHeartBeat, SilencePop, SilenceOthers DEF Step
<1> QED  BY <1>1, <1>2, SilenceHandlers, SilenceOthers DEF DNext

\* The announcer falls silent at a stall, when the io thread takes announcements
\* left behind for ones that are being sent, and stays silent; nothing else, for
\* any number of interfaces and however they come and go, loses the chain.  With
\* fairness this is why a host that never stalls keeps announcing itself.
THEOREM OnlyStallsSilenceThm == DSpec => OnlyStallsSilence
<1>1. DInit => SilenceInv
  BY QueueInit DEF SilenceInv, LaunchFirst, DInit
<1>2. SilenceInv /\ [DNext]_dvars => SilenceInv'
  BY QueueNext, LaunchFirstNext DEF SilenceInv, QueueInv
<1>3. SilenceInv /\ [DNext]_dvars =>
          [Silent' <=> Silent \/ (Stalls /\ sendToAllInterfaces("io"))]_dvars
  BY SilenceNext DEF Silences
<1> QED  BY <1>1, <1>2, <1>3, PTL DEF DSpec, OnlyStallsSilence
=============================================================================
