-------------------------- MODULE Backplane_proofs --------------------------
(***************************************************************************)
(* The map of the backplane, the listener's known domains and the lambdas  *)
(* that erase from both agree, for any domains, clients and invocations.   *)
(***************************************************************************)
EXTENDS Backplane, TLAPS

ClientRecord == [launch : {"no", "pending", "false", "true"},
                 isConnected : BOOLEAN, joined : BOOLEAN, gone : BOOLEAN]

Lambdas == [run : {"provide", "erase"}, client : 1..made]

MapTypes == /\ made \in Clients
            /\ client \in [Clients -> ClientRecord]
            /\ domain \in [Clients -> Names]
            /\ m_sessionMap \in [Names -> 0..made]
            /\ ioq \in Seq(Lambdas)
            /\ continuation \in
                 [Clients -> {"waits", "provide", "registers", "refused", "done"}]
            /\ domain[m_localClient] = Local

\* The lives of the clients: those not yet made have none, a launch that failed
\* never joined, and only a joined client is gone.
LivesApart ==
    \A k \in Clients :
        /\ k > made => client[k].launch = "no"
        /\ client[k].launch \in {"no", "false"} => ~client[k].joined
        /\ client[k].gone => client[k].joined
        /\ client[k].launch \in {"no", "pending"} => continuation[k] = "waits"

EraseQueued(k) == \E i \in DOMAIN ioq : ioq[i] = Lambda("erase", k)

\* A lambda that erases is queued once for each client, after its launch failed.
ErasesOnce ==
    /\ \A i, j \in DOMAIN ioq :
          /\ ioq[i].run = "erase" /\ ioq[j].run = "erase"
          /\ ioq[i].client = ioq[j].client
          => i = j
    /\ \A k \in Clients :
          EraseQueued(k) => client[k].launch = "false" /\ continuation[k] = "done"
    /\ \A i \in DOMAIN ioq :
          ioq[i].run = "provide" => client[ioq[i].client].launch = "true"

\* A client is in the map from connectToNewDomain() on until it disconnects or
\* the lambda that its failed launch has queued has run.
StaysMapped ==
    \A k \in 1..made :
        /\ ~client[k].gone
        /\ client[k].joined \/ continuation[k] = "waits" \/ EraseQueued(k)
        => m_sessionMap[domain[k]] = k

MapInv == MapTypes /\ LivesApart /\ ErasesOnce /\ StaysMapped /\ MapAccurate /\ KnownAreMapped
-----------------------------------------------------------------------------
(***************************************************************************)
(* Facts about the queue of the io_service and about the lives of clients  *)
(***************************************************************************)

LEMMA AppendEntries ==
    ASSUME NEW S, NEW q \in Seq(S), NEW e
    PROVE  /\ DOMAIN Append(q, e) = 1..Len(q) + 1
           /\ \A i \in 1..Len(q) : Append(q, e)[i] = q[i]
           /\ Append(q, e)[Len(q) + 1] = e
           /\ DOMAIN q = 1..Len(q)
  OBVIOUS

LEMMA TailEntries ==
    ASSUME NEW S, NEW q \in Seq(S), q # <<>>
    PROVE  /\ Tail(q) \in Seq(S)
           /\ DOMAIN Tail(q) = 1..Len(q) - 1
           /\ \A i \in DOMAIN Tail(q) : i + 1 \in DOMAIN q /\ Tail(q)[i] = q[i + 1]
           /\ Head(q) = q[1] /\ 1 \in DOMAIN q
           /\ DOMAIN q = 1..Len(q) /\ Len(q) \in Nat
  OBVIOUS

\* What a step of a client may do to its record.
LEMMA LifeSteps ==
    ASSUME NEW k, NEW c \in ClientRecord, NEW d,
           \/ Life(k)!ConnectFails(c, d) \/ Life(k)!Joins(c, d)
           \/ Life(k)!FlagRises(c, d)    \/ Life(k)!LaunchResolves(c, d)
    PROVE  /\ d \in ClientRecord
           /\ c.launch = "pending" /\ d.launch \in {"pending", "false", "true"}
           /\ d.launch = "false" => ~d.joined
           /\ d.gone = c.gone
           /\ c.joined => d.joined
  BY DEF ClientRecord, Life!ConnectFails, Life!Joins, Life!FlagRises, Life!LaunchResolves
-----------------------------------------------------------------------------
(***************************************************************************)
(* The invariant                                                           *)
(***************************************************************************)

LEMMA MapInit == BInit => MapInv
<1> SUFFICES ASSUME BInit PROVE MapInv
  OBVIOUS
<1>1. MapTypes
  BY BackplaneAssumption
  DEF BInit, MapTypes, Clients, Names, ClientRecord, m_localClient
<1>2. LivesApart /\ ErasesOnce /\ StaysMapped /\ MapAccurate /\ KnownAreMapped
  BY BackplaneAssumption
  DEF BInit, LivesApart, ErasesOnce, StaysMapped, MapAccurate, KnownAreMapped,
      EraseQueued, Clients, Names, m_localClient
<1> QED  BY <1>1, <1>2 DEF MapInv

\* Steps that leave what the invariant is about alone.
mapVars == <<made, client, domain, m_sessionMap, continuation, ioq>>

LEMMA MapUnchanged == MapInv /\ UNCHANGED mapVars /\ KnownAreMapped' => MapInv'
  BY DEF MapInv, mapVars, MapTypes, Lambdas, LivesApart, ErasesOnce, EraseQueued,
         StaysMapped, MapAccurate

\* The numbers of clients.
LEMMA MadeNumbers ==
    ASSUME MapTypes
    PROVE  /\ made \in Nat /\ made \in Clients
           /\ 1..made \subseteq Clients /\ m_localClient \in 1..made
           /\ \A k \in Clients : k <= made => k \in 1..made
           /\ \A n \in Names : m_sessionMap[n] # 0 => m_sessionMap[n] \in 1..made
           /\ \A k \in Clients : domain[k] \in Names
  BY BackplaneAssumption DEF MapTypes, Clients, m_localClient

LEMMA QueueClients ==
    ASSUME MapTypes
    PROVE  \A i \in DOMAIN ioq : ioq[i] \in Lambdas /\ ioq[i].client \in Clients
<1> SUFFICES ASSUME NEW i \in DOMAIN ioq
             PROVE  ioq[i] \in Lambdas /\ ioq[i].client \in Clients
  OBVIOUS
<1>1. ioq[i] \in Lambdas
  BY DEF MapTypes
<1> QED  BY <1>1, MadeNumbers DEF Lambdas

LEMMA MapAdvances ==
    ASSUME MapInv, io = "running", NEW k \in Clients, ClientAdvances(k)
    PROVE  MapInv'
<1> USE DEF MapInv
<1>1. PICK d \in Life(k)!Client :
         /\ \/ Life(k)!ConnectFails(client[k], d) \/ Life(k)!Joins(client[k], d)
            \/ Life(k)!FlagRises(client[k], d)    \/ Life(k)!LaunchResolves(client[k], d)
         /\ client' = [client EXCEPT ![k] = d]
  BY DEF ClientAdvances, Becomes
<1>2. client[k] \in ClientRecord
  BY DEF MapTypes
<1>3. /\ d \in ClientRecord
      /\ client[k].launch = "pending" /\ d.launch \in {"pending", "false", "true"}
      /\ d.launch = "false" => ~d.joined
      /\ d.gone = client[k].gone
      /\ client[k].joined => d.joined
  BY <1>1, <1>2, LifeSteps
<1>4. UNCHANGED <<made, domain, m_sessionMap, m_knownDomains, continuation, ioq>>
  BY DEF ClientAdvances
<1>5. MapTypes'
  BY <1>1, <1>3, <1>4 DEF MapTypes, Lambdas
<1>6. k <= made /\ continuation[k] = "waits" /\ made \in Nat /\ k \in 1..made
  BY <1>3 DEF LivesApart, MapTypes, Clients
<1>7. client'[k] = d /\ \A j \in Clients : j # k => client'[j] = client[j]
  BY <1>1 DEF MapTypes
<1>8. LivesApart'
  BY <1>3, <1>4, <1>6, <1>7 DEF LivesApart
<1>9. ErasesOnce'
  <2>1. \A i \in DOMAIN ioq : ioq[i].client \in Clients
    BY QueueClients
  <2>2. \A i \in DOMAIN ioq :
          ioq[i].run = "provide" => client'[ioq[i].client].launch = "true"
    BY <1>3, <1>7, <2>1 DEF ErasesOnce
  <2>3. \A j \in Clients :
          EraseQueued(j) => client'[j].launch = "false" /\ continuation[j] = "done"
    BY <1>3, <1>6, <1>7 DEF ErasesOnce
  <2> QED  BY <1>4, <2>2, <2>3 DEF ErasesOnce, EraseQueued
<1>10. StaysMapped'
  <2> SUFFICES ASSUME NEW j \in 1..made, ~client'[j].gone,
                      client'[j].joined \/ continuation[j] = "waits" \/ EraseQueued(j)
               PROVE  m_sessionMap[domain[j]] = j
    BY <1>4 DEF StaysMapped, EraseQueued
  <2>1. j \in Clients
    BY MadeNumbers
  <2>2. CASE j = k
    BY <2>2, <1>3, <1>6, <1>7 DEF StaysMapped
  <2>3. CASE j # k
    BY <2>1, <2>3, <1>7 DEF StaysMapped
  <2> QED  BY <2>2, <2>3
<1>11. MapAccurate'
  <2> SUFFICES ASSUME NEW n \in Names, m_sessionMap[n] # 0
               PROVE  /\ domain[m_sessionMap[n]] = n
                      /\ m_sessionMap[n] # m_localClient => ~client'[m_sessionMap[n]].gone
    BY <1>4 DEF MapAccurate
  <2> QED  BY <1>3, <1>7, MadeNumbers DEF MapAccurate
<1>12. KnownAreMapped'
  BY <1>4 DEF KnownAreMapped
<1> QED  BY <1>5, <1>8, <1>9, <1>10, <1>11, <1>12

\* After a domain was forgotten.  The client under whose name it was forgotten
\* is gone, or the lambda that forgets it is no longer queued.
LEMMA MapForgets ==
    ASSUME MapInv, io = "running", NEW k \in 1..made, Forgets(domain[k]),
           m_sessionMap[domain[k]] = k,
           UNCHANGED <<made, domain, continuation>>,
           \A j \in Clients : j # k => client'[j] = client[j],
           \A j \in 1..made : EraseQueued(j)' => EraseQueued(j),
           \/ ~client'[k].joined /\ continuation[k] # "waits" /\ ~EraseQueued(k)'
           \/ client'[k].gone
    PROVE  StaysMapped' /\ MapAccurate' /\ KnownAreMapped'
<1> USE DEF MapInv
<1>1. /\ domain[k] \in Names
      /\ m_sessionMap'[domain[k]] = 0
      /\ \A n \in Names : n # domain[k] => m_sessionMap'[n] = m_sessionMap[n]
      /\ m_knownDomains' = m_knownDomains \ {domain[k]}
  BY MadeNumbers DEF Forgets, MapTypes
<1>2. StaysMapped'
  <2> SUFFICES ASSUME NEW j \in 1..made, ~client'[j].gone,
                      client'[j].joined \/ continuation[j] = "waits" \/ EraseQueued(j)'
               PROVE  m_sessionMap'[domain[j]] = j
    BY DEF StaysMapped
  <2>1. j \in Clients /\ domain[j] \in Names
    BY MadeNumbers
  <2>2. j # k
    OBVIOUS
  <2>3. m_sessionMap[domain[j]] = j
    BY <2>1, <2>2 DEF StaysMapped
  <2> QED  BY <1>1, <2>1, <2>2, <2>3
<1>3. MapAccurate'
  <2> SUFFICES ASSUME NEW n \in Names, m_sessionMap'[n] # 0
               PROVE  /\ domain[m_sessionMap'[n]] = n
                      /\ m_sessionMap'[n] # m_localClient => ~client'[m_sessionMap'[n]].gone
    BY DEF MapAccurate
  <2>1. n # domain[k] /\ m_sessionMap'[n] = m_sessionMap[n]
    BY <1>1
  <2>2. m_sessionMap[n] # k
    BY <2>1 DEF MapAccurate
  <2> QED  BY <2>1, <2>2, MadeNumbers DEF MapAccurate
<1>4. KnownAreMapped'
  <2> SUFFICES ASSUME NEW n \in m_knownDomains' PROVE m_sessionMap'[n] # 0
    BY DEF KnownAreMapped
  <2> QED  BY <1>1 DEF KnownAreMapped, Forgets
<1> QED  BY <1>2, <1>3, <1>4

LEMMA MapDisconnects ==
    ASSUME MapInv, io = "running", NEW k \in Clients, ClientDisconnects(k)
    PROVE  MapInv'
<1> USE DEF MapInv
<1>1. PICK d \in Life(k)!Client :
         Life(k)!Disconnects(client[k], d) /\ client' = [client EXCEPT ![k] = d]
  BY DEF ClientDisconnects, Becomes
<1>2. /\ d \in ClientRecord /\ d.gone /\ d.joined
      /\ d.launch = client[k].launch
      /\ client[k].joined /\ ~client[k].gone
  <2>1. client[k] \in ClientRecord
    BY DEF MapTypes
  <2> QED  BY <1>1, <2>1 DEF Life!Disconnects, ClientRecord
<1>3. UNCHANGED <<made, domain, continuation, ioq>>
  BY DEF ClientDisconnects
<1>4. client'[k] = d /\ \A j \in Clients : j # k => client'[j] = client[j]
  BY <1>1 DEF MapTypes
<1>5. k \in 1..made /\ client[k].launch \notin {"no", "false"}
  BY <1>2, MadeNumbers DEF LivesApart, Clients
<1>6. m_sessionMap[domain[k]] = k
  BY <1>2, <1>5 DEF StaysMapped
<1>7. m_sessionMap' \in [Names -> 0..made]
  <2>1. 0 \in 0..made /\ m_sessionMap \in [Names -> 0..made]
    BY MadeNumbers DEF MapTypes
  <2>2. \/ m_sessionMap' = m_sessionMap
        \/ m_sessionMap' = [m_sessionMap EXCEPT ![domain[k]] = 0]
    BY DEF ClientDisconnects, Forgets
  <2> QED  BY <2>1, <2>2
<1>8. MapTypes'
  BY <1>1, <1>2, <1>3, <1>7 DEF MapTypes, Lambdas
<1>9. LivesApart'
  BY <1>2, <1>3, <1>4, <1>5 DEF LivesApart
<1>10. ErasesOnce'
  <2>1. \A i \in DOMAIN ioq : ioq[i].client \in Clients
    BY QueueClients
  <2>2. \A i \in DOMAIN ioq :
          ioq[i].run = "provide" => client'[ioq[i].client].launch = "true"
    BY <1>2, <1>4, <2>1 DEF ErasesOnce
  <2>3. \A j \in Clients :
          EraseQueued(j) => client'[j].launch = "false" /\ continuation[j] = "done"
    BY <1>2, <1>4 DEF ErasesOnce
  <2> QED  BY <1>3, <2>2, <2>3 DEF ErasesOnce, EraseQueued
<1>11. CASE k = m_localClient
  <2>1. UNCHANGED <<m_sessionMap, m_knownDomains>>
    BY <1>11 DEF ClientDisconnects
  <2>2. StaysMapped'
    BY <1>2, <1>3, <1>4, <2>1, MadeNumbers DEF StaysMapped, EraseQueued
  <2>3. MapAccurate'
    <3> SUFFICES ASSUME NEW n \in Names, m_sessionMap[n] # 0, m_sessionMap[n] # m_localClient
                 PROVE  ~client'[m_sessionMap[n]].gone
      BY <1>3, <2>1 DEF MapAccurate
    <3> QED  BY <1>4, <1>11, MadeNumbers DEF MapAccurate
  <2>4. KnownAreMapped'
    BY <2>1 DEF KnownAreMapped
  <2> QED  BY <1>8, <1>9, <1>10, <2>2, <2>3, <2>4
<1>12. CASE k # m_localClient
  <2>1. Forgets(domain[k])
    BY <1>12 DEF ClientDisconnects
  <2>2. StaysMapped' /\ MapAccurate' /\ KnownAreMapped'
    BY <1>2, <1>3, <1>4, <1>5, <1>6, <2>1, MapForgets DEF EraseQueued
  <2> QED  BY <1>8, <1>9, <1>10, <2>2
<1> QED  BY <1>11, <1>12

LEMMA MapContinues ==
    ASSUME MapInv, io = "running", NEW k \in Clients, LaunchContinues(k)
    PROVE  MapInv'
<1> USE DEF MapInv
<1>1. UNCHANGED <<made, client, domain, m_sessionMap, m_knownDomains>>
  BY DEF LaunchContinues
<1>2. continuation[k] = "waits" /\ client[k].launch \in {"true", "false"}
  BY DEF LaunchContinues
<1>3. PICK run \in {"provide", "erase"} :
         /\ ioq' = Append(ioq, Lambda(run, k))
         /\ run = "provide" <=> client[k].launch = "true"
         /\ continuation' = [continuation EXCEPT
                ![k] = IF run = "provide" THEN "provide" ELSE "done"]
  BY DEF LaunchContinues, Finishes
<1>4. k \in 1..made
  BY <1>2, MadeNumbers DEF LivesApart, Clients
<1>5. Lambda(run, k) \in Lambdas /\ Lambda(run, k).run = run /\ Lambda(run, k).client = k
  BY <1>4 DEF Lambda, Lambdas
<1>6. MapTypes'
  BY <1>1, <1>3, <1>5 DEF MapTypes, Lambdas
<1>7. /\ DOMAIN ioq = 1..Len(ioq) /\ DOMAIN ioq' = 1..Len(ioq) + 1 /\ Len(ioq) \in Nat
      /\ \A i \in DOMAIN ioq : ioq'[i] = ioq[i]
      /\ ioq'[Len(ioq) + 1] = Lambda(run, k)
  BY <1>3, AppendEntries DEF MapTypes
<1>8. /\ continuation'[k] = IF run = "provide" THEN "provide" ELSE "done"
      /\ \A j \in Clients : j # k => continuation'[j] = continuation[j]
  BY <1>3 DEF MapTypes
<1>9. LivesApart'
  BY <1>1, <1>2, <1>8 DEF LivesApart
<1>10. ~EraseQueued(k)
  BY <1>2 DEF ErasesOnce
<1>11. \A j \in Clients : EraseQueued(j)' => EraseQueued(j) \/ (j = k /\ run = "erase")
  BY <1>3, <1>5, <1>7 DEF EraseQueued, Lambda
<1>12. \A i \in DOMAIN ioq : ~(ioq[i].run = "erase" /\ ioq[i].client = k)
  <2> SUFFICES ASSUME NEW i \in DOMAIN ioq, ioq[i].run = "erase", ioq[i].client = k
               PROVE  FALSE
    OBVIOUS
  <2>1. ioq[i] \in Lambdas
    BY DEF MapTypes
  <2>2. ioq[i] = Lambda("erase", k)
    BY <2>1 DEF Lambdas, Lambda
  <2> QED  BY <1>10, <2>2 DEF EraseQueued
<1>13. ErasesOnce'
  <2>1. \A i \in DOMAIN ioq' : i \in DOMAIN ioq \/ i = Len(ioq) + 1
    BY <1>7
  <2>2. ASSUME NEW i \in DOMAIN ioq', NEW j \in DOMAIN ioq',
               ioq'[i].run = "erase", ioq'[j].run = "erase", ioq'[i].client = ioq'[j].client
        PROVE  i = j
    BY <1>5, <1>7, <1>12, <2>1, <2>2 DEF ErasesOnce
  <2>3. ASSUME NEW j \in Clients, EraseQueued(j)'
        PROVE  client[j].launch = "false" /\ continuation'[j] = "done"
    BY <1>2, <1>3, <1>8, <1>10, <1>11, <2>3 DEF ErasesOnce
  <2>4. ASSUME NEW i \in DOMAIN ioq', ioq'[i].run = "provide"
        PROVE  client[ioq'[i].client].launch = "true"
    BY <1>3, <1>5, <1>7, <2>1, <2>4 DEF ErasesOnce
  <2> QED  BY <1>1, <2>2, <2>3, <2>4 DEF ErasesOnce
<1>14. StaysMapped'
  <2> SUFFICES ASSUME NEW j \in 1..made, ~client[j].gone,
                      client[j].joined \/ continuation'[j] = "waits" \/ EraseQueued(j)'
               PROVE  m_sessionMap[domain[j]] = j
    BY <1>1 DEF StaysMapped
  <2>1. j \in Clients
    BY MadeNumbers
  <2> QED  BY <1>2, <1>8, <1>11, <2>1 DEF StaysMapped
<1>15. MapAccurate' /\ KnownAreMapped'
  BY <1>1 DEF MapAccurate, KnownAreMapped
<1> QED  BY <1>6, <1>9, <1>13, <1>14, <1>15

\* The io thread has taken the first of the dispatched lambdas.
LEMMA MapTakes ==
    ASSUME MapInv, ioq # <<>>, ioq' = Tail(ioq), UNCHANGED <<made, client>>
    PROVE  /\ ioq' \in Seq(Lambdas) /\ Lambdas' = Lambdas
           /\ Head(ioq) \in Lambdas
           /\ \A k \in Clients : EraseQueued(k)' => EraseQueued(k)
           /\ \A k \in Clients :
                 Head(ioq) = Lambda("erase", k) => EraseQueued(k) /\ ~EraseQueued(k)'
           /\ Head(ioq).run = "provide" => client[Head(ioq).client].launch = "true"
           /\ \A i, j \in DOMAIN ioq' :
                 /\ ioq'[i].run = "erase" /\ ioq'[j].run = "erase"
                 /\ ioq'[i].client = ioq'[j].client
                 => i = j
           /\ \A i \in DOMAIN ioq' :
                 ioq'[i].run = "provide" => client[ioq'[i].client].launch = "true"
<1> USE DEF MapInv
<1>1. /\ Tail(ioq) \in Seq(Lambdas)
      /\ DOMAIN Tail(ioq) = 1..Len(ioq) - 1
      /\ \A i \in DOMAIN Tail(ioq) : i + 1 \in DOMAIN ioq /\ Tail(ioq)[i] = ioq[i + 1]
      /\ Head(ioq) = ioq[1] /\ 1 \in DOMAIN ioq
      /\ DOMAIN ioq = 1..Len(ioq) /\ Len(ioq) \in Nat
  BY TailEntries DEF MapTypes
<1>2. Head(ioq) \in Lambdas /\ Lambdas' = Lambdas
  BY <1>1, QueueClients DEF Lambdas
<1>3. \A k \in Clients : EraseQueued(k)' => EraseQueued(k)
  BY <1>1 DEF EraseQueued, Lambda
<1>4. ASSUME NEW k \in Clients, Head(ioq) = Lambda("erase", k)
      PROVE  EraseQueued(k) /\ ~EraseQueued(k)'
  <2>1. ASSUME NEW i \in DOMAIN Tail(ioq), Tail(ioq)[i] = Lambda("erase", k)
        PROVE  FALSE
    <3>1. i + 1 \in DOMAIN ioq /\ ioq[i + 1] = ioq[1] /\ i + 1 # 1
      BY <1>1, <1>4, <2>1
    <3>2. ioq[1].run = "erase"
      BY <1>1, <1>4 DEF Lambda
    <3> QED  BY <1>1, <3>1, <3>2 DEF ErasesOnce
  <2> QED  BY <1>1, <1>4, <2>1 DEF EraseQueued
<1>5. Head(ioq).run = "provide" => client[Head(ioq).client].launch = "true"
  BY <1>1 DEF ErasesOnce
<1>6. ASSUME NEW i \in DOMAIN ioq', NEW j \in DOMAIN ioq',
             ioq'[i].run = "erase", ioq'[j].run = "erase", ioq'[i].client = ioq'[j].client
      PROVE  i = j
  <2>1. /\ i + 1 \in DOMAIN ioq /\ ioq[i + 1] = ioq'[i]
        /\ j + 1 \in DOMAIN ioq /\ ioq[j + 1] = ioq'[j]
    BY <1>1
  <2>2. i + 1 = j + 1
    BY <1>6, <2>1 DEF ErasesOnce
  <2>3. i \in Nat /\ j \in Nat
    BY <1>1
  <2> QED  BY <2>2, <2>3
<1>7. ASSUME NEW i \in DOMAIN ioq', ioq'[i].run = "provide"
      PROVE  client[ioq'[i].client].launch = "true"
  BY <1>1, <1>7 DEF ErasesOnce
<1> QED  BY <1>1, <1>2, <1>3, <1>4, <1>5, <1>6, <1>7

LEMMA MapProvides ==
    ASSUME MapInv, io = "running", RunProvide
    PROVE  MapInv'
<1> USE DEF MapInv
<1> DEFINE k == Head(ioq).client
<1>1. /\ ioq # <<>> /\ ioq' = Tail(ioq) /\ Head(ioq).run = "provide"
      /\ UNCHANGED <<made, client, domain, m_sessionMap, m_knownDomains>>
      /\ \/ continuation' = continuation
         \/ continuation' = [continuation EXCEPT ![k] = "registers"]
  BY DEF RunProvide
<1>2. /\ ioq' \in Seq(Lambdas) /\ Lambdas' = Lambdas /\ Head(ioq) \in Lambdas
      /\ \A j \in Clients : EraseQueued(j)' => EraseQueued(j)
      /\ client[k].launch = "true"
      /\ \A i, j \in DOMAIN ioq' :
            /\ ioq'[i].run = "erase" /\ ioq'[j].run = "erase"
            /\ ioq'[i].client = ioq'[j].client
            => i = j
      /\ \A i \in DOMAIN ioq' :
            ioq'[i].run = "provide" => client[ioq'[i].client].launch = "true"
  BY <1>1, MapTakes
<1>3. k \in Clients
  BY <1>2, MadeNumbers DEF Lambdas
<1> HIDE DEF k
<1>4. MapTypes'
  BY <1>1, <1>2, <1>3 DEF MapTypes
<1>5. \A j \in Clients : continuation'[j] = continuation[j]
                           \/ (j = k /\ continuation'[j] = "registers")
  BY <1>1, <1>3 DEF MapTypes
<1>6. LivesApart'
  BY <1>1, <1>2, <1>5 DEF LivesApart
<1>7. ErasesOnce'
  <2>1. ASSUME NEW j \in Clients, EraseQueued(j)'
        PROVE  client[j].launch = "false" /\ continuation'[j] = "done"
    BY <1>2, <1>5, <2>1 DEF ErasesOnce
  <2> QED  BY <1>1, <1>2, <2>1 DEF ErasesOnce
<1>8. StaysMapped'
  <2> SUFFICES ASSUME NEW j \in 1..made, ~client[j].gone,
                      client[j].joined \/ continuation'[j] = "waits" \/ EraseQueued(j)'
               PROVE  m_sessionMap[domain[j]] = j
    BY <1>1 DEF StaysMapped
  <2>1. j \in Clients
    BY MadeNumbers
  <2> QED  BY <1>2, <1>5, <2>1 DEF StaysMapped
<1>9. MapAccurate' /\ KnownAreMapped'
  BY <1>1 DEF MapAccurate, KnownAreMapped
<1> QED  BY <1>4, <1>6, <1>7, <1>8, <1>9

LEMMA MapRegisters ==
    ASSUME MapInv, io = "running", NEW k \in Clients, RouterRegisters(k)
    PROVE  MapInv'
<1> USE DEF MapInv
<1>1. /\ UNCHANGED <<made, client, domain, m_sessionMap, m_knownDomains, ioq>>
      /\ continuation[k] = "registers"
      /\ \/ continuation' = [continuation EXCEPT ![k] = "refused"]
         \/ continuation' = [continuation EXCEPT ![k] = "done"]
  BY DEF RouterRegisters, Finishes
<1>2. \A j \in Clients : IF j = k THEN continuation'[j] # "waits"
                          ELSE continuation'[j] = continuation[j]
  BY <1>1 DEF MapTypes
<1>3. MapTypes'
  BY <1>1 DEF MapTypes, Lambdas
<1>4. LivesApart'
  BY <1>1, <1>2 DEF LivesApart
<1>5. ErasesOnce'
  BY <1>1, <1>2 DEF ErasesOnce, EraseQueued
<1>6. StaysMapped'
  <2> SUFFICES ASSUME NEW j \in 1..made, ~client[j].gone,
                      client[j].joined \/ continuation'[j] = "waits" \/ EraseQueued(j)
               PROVE  m_sessionMap[domain[j]] = j
    BY <1>1 DEF StaysMapped, EraseQueued
  <2>1. j \in Clients
    BY MadeNumbers
  <2> QED  BY <1>2, <2>1 DEF StaysMapped
<1>7. MapAccurate' /\ KnownAreMapped'
  BY <1>1 DEF MapAccurate, KnownAreMapped
<1> QED  BY <1>3, <1>4, <1>5, <1>6, <1>7

LEMMA MapErases ==
    ASSUME MapInv, io = "running", RunErase
    PROVE  MapInv'
<1> USE DEF MapInv
<1>1. /\ ioq # <<>> /\ ioq' = Tail(ioq) /\ Head(ioq).run = "erase"
      /\ \/ Forgets(domain[Head(ioq).client])
         \/ UNCHANGED <<m_sessionMap, m_knownDomains>>
      /\ UNCHANGED <<made, client, domain, continuation>>
  BY DEF RunErase
<1>2. /\ ioq' \in Seq(Lambdas) /\ Lambdas' = Lambdas /\ Head(ioq) \in Lambdas
      /\ \A j \in Clients : EraseQueued(j)' => EraseQueued(j)
      /\ \A j \in Clients :
            Head(ioq) = Lambda("erase", j) => EraseQueued(j) /\ ~EraseQueued(j)'
      /\ \A i, j \in DOMAIN ioq' :
            /\ ioq'[i].run = "erase" /\ ioq'[j].run = "erase"
            /\ ioq'[i].client = ioq'[j].client
            => i = j
      /\ \A i \in DOMAIN ioq' :
            ioq'[i].run = "provide" => client[ioq'[i].client].launch = "true"
  BY <1>1, MapTakes
<1>3. PICK k \in 1..made : Head(ioq) = Lambda("erase", k)
  BY <1>1, <1>2 DEF Lambdas, Lambda
<1>. k \in Clients
  BY <1>3, MadeNumbers
<1>. EraseQueued(k) /\ ~EraseQueued(k)'
  BY <1>2, <1>3
<1>. Forgets(domain[k]) \/ UNCHANGED <<m_sessionMap, m_knownDomains>>
  <2>1. Head(ioq).client = k
    BY <1>3 DEF Lambda
  <2> QED  BY <1>1, <2>1
<1>4. client[k].launch = "false" /\ continuation[k] = "done"
  BY <1>2, <1>3 DEF ErasesOnce
<1>5. ~client[k].joined /\ ~client[k].gone
  BY <1>3, <1>4 DEF LivesApart
<1>6. m_sessionMap[domain[k]] = k
  BY <1>2, <1>3, <1>5 DEF StaysMapped
<1>7. MapTypes'
  <2>1. 0 \in 0..made
    BY MadeNumbers
  <2> QED  BY <1>1, <1>2, <2>1 DEF MapTypes, Forgets
<1>8. LivesApart'
  BY <1>1 DEF LivesApart
<1>9. ErasesOnce'
  BY <1>1, <1>2 DEF ErasesOnce
<1>10. \A j \in 1..made : EraseQueued(j)' => EraseQueued(j)
  <2> SUFFICES ASSUME NEW j \in 1..made, EraseQueued(j)' PROVE EraseQueued(j)
    OBVIOUS
  <2>1. j \in Clients
    BY MadeNumbers
  <2> QED  BY <1>2, <2>1
<1>11. StaysMapped' /\ MapAccurate' /\ KnownAreMapped'
  <2>1. CASE Forgets(domain[k])
    BY <1>1, <1>2, <1>3, <1>4, <1>5, <1>6, <1>10, <2>1, MapForgets
  <2>2. CASE UNCHANGED <<m_sessionMap, m_knownDomains>>
    BY <1>1, <1>10, <2>2 DEF StaysMapped, MapAccurate, KnownAreMapped
  <2> QED  BY <2>1, <2>2
<1> QED  BY <1>7, <1>8, <1>9, <1>11

\* connectToNewDomain() makes a client for a domain that is not in the map.
LEMMA MapConnects ==
    ASSUME MapInv, io = "running", NEW n \in Names, m_sessionMap[n] = 0, Connects(n),
           m_knownDomains' = m_knownDomains \cup {n},
           UNCHANGED <<continuation, ioq>>
    PROVE  MapInv'
<1> USE DEF MapInv
<1> DEFINE k == made + 1
<1>1. /\ made < MaxClients /\ made' = k
      /\ domain' = [domain EXCEPT ![k] = n]
      /\ m_sessionMap' = [m_sessionMap EXCEPT ![n] = k]
  BY DEF Connects
<1>2. PICK d : /\ d \in ClientRecord
               /\ d.launch = "pending" /\ ~d.joined /\ ~d.gone
               /\ client' = [client EXCEPT ![k] = d]
  BY DEF Connects, Becomes, Life!NewClients, Life!Launches, Life!Client, ClientRecord
<1>3. /\ k \in Clients /\ k \notin 1..made /\ k \in Nat \ {0} /\ k \in 1..k
      /\ 1..made \subseteq 1..k /\ 0..made \subseteq 0..k /\ k # m_localClient
      /\ \A j \in 1..k : j \in 1..made \/ j = k
      /\ \A j \in Clients : j > k => j > made /\ j # k
  BY <1>1, MadeNumbers, BackplaneAssumption DEF Clients, m_localClient
<1>4. client[k].launch = "no"
  BY <1>3, MadeNumbers DEF LivesApart
<1> HIDE DEF k
<1>5. client'[k] = d /\ \A j \in Clients : j # k => client'[j] = client[j]
  BY <1>2, <1>3 DEF MapTypes
<1>6. domain'[k] = n /\ \A j \in Clients : j # k => domain'[j] = domain[j]
  BY <1>1, <1>3 DEF MapTypes
<1>7. m_sessionMap'[n] = k /\ \A x \in Names : x # n => m_sessionMap'[x] = m_sessionMap[x]
  BY <1>1 DEF MapTypes
<1>8. Lambdas \subseteq Lambdas'
  BY <1>1, <1>3 DEF Lambdas
<1>9. MapTypes'
  <2>1. client' \in [Clients -> ClientRecord]
    BY <1>2 DEF MapTypes
  <2>2. domain' \in [Clients -> Names]
    BY <1>1 DEF MapTypes
  <2>3. m_sessionMap' \in [Names -> 0..made']
    <3>1. m_sessionMap \in [Names -> 0..k] /\ k \in 0..k
      BY <1>3 DEF MapTypes
    <3> QED  BY <1>1, <3>1
  <2>4. ioq' \in Seq(Lambdas')
    <3>1. ioq \in Seq(Lambdas)
      BY DEF MapTypes
    <3> QED  BY <1>8, <3>1
  <2>5. domain'[m_localClient] = Local
    BY <1>3, <1>6, MadeNumbers DEF MapTypes
  <2> QED  BY <1>1, <1>3, <2>1, <2>2, <2>3, <2>4, <2>5 DEF MapTypes
<1>10. LivesApart'
  BY <1>1, <1>2, <1>3, <1>4, <1>5 DEF LivesApart
<1>11. ErasesOnce'
  <2>1. \A i \in DOMAIN ioq :
          ioq[i].run = "provide" => client'[ioq[i].client].launch = "true"
    BY <1>4, <1>5, QueueClients DEF ErasesOnce
  <2>2. \A j \in Clients :
          EraseQueued(j) => client'[j].launch = "false" /\ continuation[j] = "done"
    BY <1>4, <1>5 DEF ErasesOnce
  <2> QED  BY <2>1, <2>2 DEF ErasesOnce, EraseQueued
<1>12. StaysMapped'
  <2> SUFFICES ASSUME NEW j \in 1..k, ~client'[j].gone,
                      client'[j].joined \/ continuation[j] = "waits" \/ EraseQueued(j)
               PROVE  m_sessionMap'[domain'[j]] = j
    BY <1>1 DEF StaysMapped, EraseQueued
  <2>1. CASE j = k
    BY <2>1, <1>6, <1>7
  <2>2. CASE j # k
    <3>1. j \in 1..made /\ j \in Clients /\ domain[j] \in Names
      BY <1>3, <2>2, MadeNumbers
    <3>2. m_sessionMap[domain[j]] = j
      BY <1>5, <2>2, <3>1 DEF StaysMapped
    <3>3. domain[j] # n
      BY <3>1, <3>2
    <3> QED  BY <1>6, <1>7, <2>2, <3>1, <3>2, <3>3
  <2> QED  BY <2>1, <2>2
<1>13. MapAccurate'
  <2> SUFFICES ASSUME NEW x \in Names, m_sessionMap'[x] # 0
               PROVE  /\ domain'[m_sessionMap'[x]] = x
                      /\ m_sessionMap'[x] # m_localClient => ~client'[m_sessionMap'[x]].gone
    BY DEF MapAccurate
  <2>1. CASE x = n
    BY <2>1, <1>2, <1>5, <1>6, <1>7
  <2>2. CASE x # n
    <3>1. m_sessionMap'[x] = m_sessionMap[x] /\ m_sessionMap[x] \in 1..made
      BY <1>7, <2>2, MadeNumbers
    <3>2. m_sessionMap[x] \in Clients /\ m_sessionMap[x] # k
      BY <1>3, <3>1, MadeNumbers
    <3> QED  BY <1>5, <1>6, <3>1, <3>2 DEF MapAccurate
  <2> QED  BY <2>1, <2>2
<1>14. KnownAreMapped'
  BY <1>1, <1>3, <1>7 DEF KnownAreMapped, MapTypes
<1> QED  BY <1>9, <1>10, <1>11, <1>12, <1>13, <1>14

LEMMA MapReceives ==
    ASSUME MapInv, io = "running", NEW n \in Names, onReceive(n)
    PROVE  MapInv'
<1> USE DEF MapInv
<1>1. CASE m_sessionMap[n] = 0
  BY <1>1, MapConnects DEF onReceive
<1>2. CASE m_sessionMap[n] # 0
  <2>1. /\ UNCHANGED <<made, client, domain, m_sessionMap, continuation, ioq>>
        /\ m_knownDomains' = m_knownDomains \cup {n}
    BY <1>2 DEF onReceive
  <2>2. KnownAreMapped'
    BY <1>2, <2>1 DEF KnownAreMapped
  <2> QED
    BY <2>1, <2>2 DEF MapTypes, Lambdas, LivesApart, ErasesOnce, EraseQueued,
                      StaysMapped, MapAccurate
<1> QED  BY <1>1, <1>2

LEMMA MapNext == MapInv /\ [BNext]_bvars => MapInv'
<1> SUFFICES ASSUME MapInv, [BNext]_bvars PROVE MapInv'
  OBVIOUS
<1>1. CASE UNCHANGED bvars
  BY <1>1, MapUnchanged DEF bvars, mapVars, MapInv, KnownAreMapped
<1>2. ASSUME io = "running", NEW k \in Clients,
             \/ ClientAdvances(k) \/ ClientDisconnects(k) \/ ClientThrows(k)
             \/ LaunchContinues(k) \/ RouterRegisters(k)
      PROVE  MapInv'
  <2>1. CASE ClientThrows(k)
    BY <2>1, MapUnchanged DEF ClientThrows, mapVars, KnownAreMapped
  <2> QED  BY <1>2, <2>1, MapAdvances, MapDisconnects, MapContinues, MapRegisters
<1>3. CASE onReceive_Throws
  BY <1>3, MapUnchanged DEF onReceive_Throws, mapVars, KnownAreMapped
<1>4. ASSUME io = "running", NEW p \in 1..MaxInvocations,
             \/ \E q \in 1..MaxInvocations : CallAnswered(p, q)
             \/ \E n \in Names : proxy(p, n)
      PROVE  MapInv'
  BY <1>4, MapUnchanged DEF CallAnswered, proxy, mapVars, MapInv, KnownAreMapped
<1> QED
  BY <1>1, <1>2, <1>3, <1>4, MapProvides, MapErases, MapReceives DEF BNext

-----------------------------------------------------------------------------
(***************************************************************************)
(* Types                                                                   *)
(***************************************************************************)

\* The variables the map does not depend on.  An invocation keeps the number of
\* the client it was called through, and more clients are made meanwhile.
RestTypes == /\ m_knownDomains \subseteq Names
             /\ registered \subseteq Names /\ discovering \in BOOLEAN
             /\ invocation \in [1..MaxInvocations ->
                   [state : {"none", "called", "answered"}, by : 0..made]]
             /\ io \in {"running", "threw", "terminated"}

LEMMA RestInit == BInit => RestTypes
<1> SUFFICES ASSUME BInit PROVE RestTypes
  OBVIOUS
<1>1. made = 1 /\ 0 \in 0..made
  BY DEF BInit, m_localClient
<1>2. invocation = [p \in 1..MaxInvocations |-> [state |-> "none", by |-> 0]]
  BY DEF BInit, Invocation, m_localClient
<1>3. /\ m_knownDomains = {} /\ registered = {} /\ discovering = FALSE
      /\ io = "running"
  BY DEF BInit
<1> QED  BY <1>1, <1>2, <1>3 DEF RestTypes

LEMMA RestClients ==
    ASSUME MapTypes, RestTypes, NEW k \in Clients,
           ClientAdvances(k) \/ ClientDisconnects(k) \/ ClientThrows(k)
    PROVE  RestTypes'
<1>1. CASE ClientAdvances(k)
  BY <1>1 DEF ClientAdvances, RestTypes
<1>2. CASE ClientDisconnects(k)
  BY <1>2 DEF ClientDisconnects, Forgets, RestTypes
<1>3. CASE ClientThrows(k)
  BY <1>3 DEF ClientThrows, RestTypes
<1> QED  BY <1>1, <1>2, <1>3

LEMMA RestLaunches ==
    ASSUME MapTypes, RestTypes,
           \/ \E k \in Clients : LaunchContinues(k) \/ RouterRegisters(k)
           \/ RunProvide \/ RunErase
    PROVE  RestTypes'
<1>1. ASSUME NEW k \in Clients, LaunchContinues(k) PROVE RestTypes'
  BY <1>1 DEF LaunchContinues, Finishes, RestTypes
<1>2. ASSUME NEW k \in Clients, RouterRegisters(k) PROVE RestTypes'
  <2>1. domain[k] \in Names
    BY MadeNumbers
  <2> QED  BY <1>2, <2>1 DEF RouterRegisters, Finishes, RestTypes
<1>3. CASE RunProvide
  BY <1>3 DEF RunProvide, RestTypes
<1>4. CASE RunErase
  BY <1>4 DEF RunErase, Forgets, RestTypes
<1> QED  BY <1>1, <1>2, <1>3, <1>4

LEMMA RestReceives ==
    ASSUME MapTypes, RestTypes, (\E n \in Names : onReceive(n)) \/ onReceive_Throws
    PROVE  RestTypes'
<1>1. CASE onReceive_Throws
  BY <1>1 DEF onReceive_Throws, RestTypes
<1>2. ASSUME NEW n \in Names, onReceive(n) PROVE RestTypes'
  <2>1. made' \in {made, made + 1} /\ 0..made \subseteq 0..made'
    BY <1>2, MadeNumbers DEF onReceive, Connects
  <2>2. /\ m_knownDomains' = m_knownDomains \cup {n}
        /\ UNCHANGED <<registered, discovering, invocation, io>>
    BY <1>2 DEF onReceive
  <2>3. [state : {"none", "called", "answered"}, by : 0..made]
          \subseteq [state : {"none", "called", "answered"}, by : 0..made']
    BY <2>1
  <2> QED  BY <2>2, <2>3 DEF RestTypes
<1> QED  BY <1>1, <1>2

LEMMA RestInvocations ==
    ASSUME MapTypes, RestTypes, NEW p \in 1..MaxInvocations,
           \/ \E q \in 1..MaxInvocations : CallAnswered(p, q)
           \/ \E n \in Names : proxy(p, n)
    PROVE  RestTypes'
<1>1. CASE \E q \in 1..MaxInvocations : CallAnswered(p, q)
  BY <1>1 DEF CallAnswered, RestTypes
<1>2. ASSUME NEW n \in Names, proxy(p, n) PROVE RestTypes'
  <2>1. m_sessionMap[n] # 0 => m_sessionMap[n] \in 0..made
    BY MadeNumbers
  <2>2. \/ invocation' = [invocation EXCEPT ![p].state = "answered"]
        \/ /\ m_sessionMap[n] # 0
           /\ invocation' = [invocation EXCEPT ![p] = Invocation("called", m_sessionMap[n])]
    BY <1>2 DEF proxy
  <2>3. invocation' \in [1..MaxInvocations ->
                           [state : {"none", "called", "answered"}, by : 0..made]]
    BY <2>1, <2>2 DEF RestTypes, Invocation
  <2>4. io' \in {io, "terminated"}
        /\ UNCHANGED <<made, m_knownDomains, registered, discovering>>
    BY <1>2 DEF proxy
  <2> QED  BY <2>3, <2>4 DEF RestTypes
<1> QED  BY <1>1, <1>2

LEMMA RestNext == MapTypes /\ RestTypes /\ [BNext]_bvars => RestTypes'
<1> SUFFICES ASSUME MapTypes, RestTypes, [BNext]_bvars PROVE RestTypes'
  OBVIOUS
<1>1. CASE UNCHANGED bvars
  BY <1>1 DEF bvars, RestTypes
<1> QED
  BY <1>1, RestClients, RestLaunches, RestReceives, RestInvocations DEF BNext

-----------------------------------------------------------------------------
(***************************************************************************)
(* No client is left half-way                                              *)
(***************************************************************************)

\* A continuation that has gone on to provide() belongs to a client that was
\* launched, and finds, once its lambda has run, that the local client has joined:
\* a local session that is not there any more never comes back.
Launched ==
    \A k \in Clients :
        /\ continuation[k] \in {"provide", "registers", "refused"} => client[k].launch = "true"
        /\ continuation[k] \in {"registers", "refused", "done"} /\ client[k].launch = "true"
           => client[m_localClient].joined

StrandInv == Launched /\ NoneStranded

LEMMA LocalIsClient == m_localClient \in Clients
  BY BackplaneAssumption DEF m_localClient, Clients

LEMMA StrandInit == BInit => StrandInv
  BY DEF BInit, StrandInv, Launched, NoneStranded

\* A step that keeps what is queued, registered and joined.
LEMMA StrandKept ==
    ASSUME MapTypes, StrandInv, io = "running",
           \A k \in Clients : continuation'[k] # "waits" =>
              /\ continuation'[k] = continuation[k]
              /\ client'[k].launch = client[k].launch
              /\ domain'[k] = domain[k]
              /\ m_sessionMap'[domain[k]] = k => m_sessionMap[domain[k]] = k,
           client[m_localClient].joined => client'[m_localClient].joined,
           client[m_localClient].joined /\ LocalJoined' => LocalJoined,
           \A run, k : Dispatched(run, k) => Dispatched(run, k)',
           LocalJoined' => registered \subseteq registered'
    PROVE  StrandInv'
<1>1. Launched'
  BY DEF StrandInv, Launched
<1>2. ASSUME NEW k \in Clients
      PROVE  /\ continuation'[k] = "provide" => Dispatched("provide", k)'
             /\ continuation'[k] \in {"refused", "done"} /\ client'[k].launch = "true"
                => domain'[k] \in registered' \/ ~LocalJoined'
             /\ k # m_localClient /\ continuation'[k] = "done" /\ client'[k].launch = "false"
                => m_sessionMap'[domain'[k]] # k \/ Dispatched("erase", k)'
  <2>1. CASE continuation'[k] = "waits"
    BY <2>1
  <2>2. CASE continuation'[k] # "waits"
    <3>1. continuation'[k] = continuation[k] /\ client'[k].launch = client[k].launch
          /\ domain'[k] = domain[k]
          /\ (m_sessionMap'[domain[k]] = k => m_sessionMap[domain[k]] = k)
      BY <2>2
    <3>2. continuation[k] = "provide" => Dispatched("provide", k)
      BY DEF StrandInv, NoneStranded
    <3>3. continuation[k] \in {"refused", "done"} /\ client[k].launch = "true"
          => /\ domain[k] \in registered \/ ~LocalJoined
             /\ client[m_localClient].joined
      BY DEF StrandInv, NoneStranded, Launched
    <3>4. k # m_localClient /\ continuation[k] = "done" /\ client[k].launch = "false"
          => m_sessionMap[domain[k]] # k \/ Dispatched("erase", k)
      BY DEF StrandInv, NoneStranded
    <3>5. LocalJoined' /\ client[m_localClient].joined
          /\ (domain[k] \in registered \/ ~LocalJoined) => domain[k] \in registered'
      OBVIOUS
    <3> QED  BY <2>2, <3>1, <3>2, <3>3, <3>4, <3>5
  <2> QED  BY <2>1, <2>2
<1> QED  BY <1>1, <1>2 DEF StrandInv, NoneStranded

LEMMA StrandAdvances ==
    ASSUME MapInv, StrandInv, io = "running", NEW k \in Clients, ClientAdvances(k)
    PROVE  StrandInv'
<1>1. PICK d \in Life(k)!Client :
         /\ \/ Life(k)!ConnectFails(client[k], d) \/ Life(k)!Joins(client[k], d)
            \/ Life(k)!FlagRises(client[k], d)    \/ Life(k)!LaunchResolves(client[k], d)
         /\ client' = [client EXCEPT ![k] = d]
  BY DEF ClientAdvances, Becomes
<1>2. client[k] \in ClientRecord /\ MapTypes
  BY DEF MapInv, MapTypes
<1>3. /\ client[k].launch = "pending" /\ d.gone = client[k].gone
      /\ client[k].joined => d.joined
  BY <1>1, <1>2, LifeSteps
<1>4. continuation[k] = "waits"
  BY <1>3 DEF MapInv, LivesApart
<1>5. client'[k] = d /\ \A j \in Clients : j # k => client'[j] = client[j]
  BY <1>1, <1>2 DEF MapTypes
<1>6. UNCHANGED <<domain, m_sessionMap, continuation, ioq, registered>>
  BY DEF ClientAdvances
<1>7. /\ client[m_localClient].joined => client'[m_localClient].joined
      /\ client[m_localClient].joined /\ LocalJoined' => LocalJoined
  BY <1>3, <1>5, LocalIsClient DEF LocalJoined
<1> QED  BY <1>2, <1>4, <1>5, <1>6, <1>7, StrandKept DEF Dispatched

LEMMA StrandDisconnects ==
    ASSUME MapInv, StrandInv, io = "running", NEW k \in Clients, ClientDisconnects(k)
    PROVE  StrandInv'
<1>1. PICK d \in Life(k)!Client :
         Life(k)!Disconnects(client[k], d) /\ client' = [client EXCEPT ![k] = d]
  BY DEF ClientDisconnects, Becomes
<1>2. client[k] \in ClientRecord /\ MapTypes
  BY DEF MapInv, MapTypes
<1>3. d.gone /\ d.joined /\ d.launch = client[k].launch
  BY <1>1, <1>2 DEF Life!Disconnects, ClientRecord
<1>4. client'[k] = d /\ \A j \in Clients : j # k => client'[j] = client[j]
  BY <1>1, <1>2 DEF MapTypes
<1>5. UNCHANGED <<domain, continuation, ioq>>
  BY DEF ClientDisconnects
<1>6. /\ client[m_localClient].joined => client'[m_localClient].joined
      /\ client[m_localClient].joined /\ LocalJoined' => LocalJoined
      /\ LocalJoined' => registered \subseteq registered'
  BY <1>3, <1>4, LocalIsClient DEF LocalJoined, ClientDisconnects
<1>7. \A j \in Clients : m_sessionMap'[domain[j]] = j => m_sessionMap[domain[j]] = j
  <2>1. \A j \in Clients : j # 0 /\ domain[j] \in Names
    BY <1>2, MadeNumbers DEF Clients
  <2>2. \/ m_sessionMap' = m_sessionMap
        \/ m_sessionMap' = [m_sessionMap EXCEPT ![domain[k]] = 0]
    BY DEF ClientDisconnects, Forgets
  <2>3. \A n \in Names : m_sessionMap'[n] \in {0, m_sessionMap[n]}
    BY <1>2, <2>2 DEF MapTypes
  <2> QED  BY <2>1, <2>3
<1>8. \A j \in Clients : client'[j].launch = client[j].launch
  BY <1>3, <1>4
<1> QED  BY <1>2, <1>5, <1>6, <1>7, <1>8, StrandKept DEF Dispatched

\* A lambda is dispatched, or the first one has been taken.
LEMMA DispatchedAppend ==
    ASSUME MapTypes, NEW run, NEW k, ioq' = Append(ioq, Lambda(run, k))
    PROVE  /\ Dispatched(run, k)'
           /\ \A r, j : Dispatched(r, j) => Dispatched(r, j)'
<1>1. /\ DOMAIN ioq' = 1..Len(ioq) + 1 /\ DOMAIN ioq = 1..Len(ioq)
      /\ \A i \in 1..Len(ioq) : ioq'[i] = ioq[i]
      /\ ioq'[Len(ioq) + 1] = Lambda(run, k)
      /\ Len(ioq) \in Nat
  <2>1. ioq \in Seq(Lambdas)
    BY DEF MapTypes
  <2> QED  BY <2>1
<1>2. Len(ioq) + 1 \in DOMAIN ioq' /\ DOMAIN ioq \subseteq DOMAIN ioq'
  BY <1>1
<1> QED  BY <1>1, <1>2 DEF Dispatched

LEMMA DispatchedTail ==
    ASSUME MapTypes, ioq # <<>>, ioq' = Tail(ioq),
           NEW run, NEW k, Dispatched(run, k), Head(ioq) # Lambda(run, k)
    PROVE  Dispatched(run, k)'
<1>1. ioq \in Seq(Lambdas)
  BY DEF MapTypes
<1>2. PICK i \in DOMAIN ioq : ioq[i] = Lambda(run, k)
  BY DEF Dispatched
<1>3. i # 1 /\ i \in 1..Len(ioq) /\ Len(ioq) \in Nat
  BY <1>1, <1>2
<1>4. i - 1 \in DOMAIN Tail(ioq) /\ Tail(ioq)[i - 1] = ioq[i]
  BY <1>1, <1>3
<1> QED  BY <1>2, <1>4 DEF Dispatched

LEMMA StrandContinues ==
    ASSUME MapInv, StrandInv, io = "running", NEW k \in Clients, LaunchContinues(k)
    PROVE  StrandInv'
<1>1. /\ UNCHANGED <<made, client, domain, m_sessionMap, registered, io>>
      /\ continuation[k] = "waits"
  BY DEF LaunchContinues
<1>2. PICK run \in {"provide", "erase"} :
         /\ ioq' = Append(ioq, Lambda(run, k))
         /\ IF run = "provide" THEN client[k].launch = "true" ELSE client[k].launch = "false"
         /\ continuation' = [continuation EXCEPT
                ![k] = IF run = "provide" THEN "provide" ELSE "done"]
  BY DEF LaunchContinues, Finishes
<1>3. MapTypes
  BY DEF MapInv
<1>4. /\ continuation'[k] = IF run = "provide" THEN "provide" ELSE "done"
      /\ \A j \in Clients : j # k => continuation'[j] = continuation[j]
  BY <1>2, <1>3 DEF MapTypes
<1>5. /\ Dispatched(run, k)'
      /\ \A r, j : Dispatched(r, j) => Dispatched(r, j)'
  BY <1>2, <1>3, DispatchedAppend
<1>6. LocalJoined' = LocalJoined
  BY <1>1 DEF LocalJoined
<1>7. Launched'
  BY <1>1, <1>2, <1>4 DEF StrandInv, Launched
<1>8. NoneStranded'
  BY <1>1, <1>2, <1>4, <1>5, <1>6 DEF StrandInv, NoneStranded
<1> QED  BY <1>7, <1>8 DEF StrandInv

LEMMA StrandProvides ==
    ASSUME MapInv, StrandInv, io = "running", RunProvide
    PROVE  StrandInv'
<1> DEFINE k == Head(ioq).client
<1>1. /\ ioq # <<>> /\ ioq' = Tail(ioq) /\ Head(ioq).run = "provide"
      /\ UNCHANGED <<made, client, domain, m_sessionMap, registered>>
  BY DEF RunProvide
<1>2. MapTypes /\ client[k].launch = "true" /\ k \in Clients
  BY <1>1, MapTakes, MadeNumbers DEF MapInv, Lambdas
<1>3. ASSUME NEW run, NEW j, Dispatched(run, j), run # "provide" \/ j # k
      PROVE  Dispatched(run, j)'
  <2>1. Head(ioq) # Lambda(run, j)
    BY <1>1, <1>3 DEF Lambda
  <2> QED  BY <1>1, <1>2, <1>3, <2>1, DispatchedTail
<1>4. CASE io' = "threw" /\ continuation' = continuation
  BY <1>1, <1>4 DEF StrandInv, Launched, NoneStranded
<1>5. CASE LocalJoined /\ continuation' = [continuation EXCEPT ![k] = "registers"]
  <2>1. /\ continuation'[k] = "registers"
        /\ \A j \in Clients : j # k => continuation'[j] = continuation[j]
    BY <1>2, <1>5 DEF MapTypes
  <2>2. LocalJoined' = LocalJoined
    BY <1>1 DEF LocalJoined
  <2> HIDE DEF k
  <2>3. Launched'
    BY <1>1, <1>2, <1>5, <2>1 DEF StrandInv, Launched, LocalJoined
  <2>4. NoneStranded'
    BY <1>1, <1>3, <2>1, <2>2 DEF StrandInv, NoneStranded
  <2> QED  BY <2>3, <2>4 DEF StrandInv
<1> QED  BY <1>4, <1>5 DEF RunProvide

LEMMA StrandRegisters ==
    ASSUME MapInv, StrandInv, io = "running", NEW k \in Clients, RouterRegisters(k)
    PROVE  StrandInv'
<1>1. /\ UNCHANGED <<made, client, domain, m_sessionMap, ioq, io>>
      /\ continuation[k] = "registers" /\ LocalJoined
      /\ registered' = registered \cup {domain[k]}
      /\ \/ continuation' = [continuation EXCEPT ![k] = "refused"]
         \/ continuation' = [continuation EXCEPT ![k] = "done"]
  BY DEF RouterRegisters, Finishes
<1>2. /\ continuation'[k] \in {"refused", "done"}
      /\ \A j \in Clients : j # k => continuation'[j] = continuation[j]
  BY <1>1 DEF MapInv, MapTypes
<1>3. client[k].launch = "true" /\ client[m_localClient].joined
  BY <1>1 DEF StrandInv, Launched, LocalJoined
<1>4. /\ LocalJoined' = LocalJoined
      /\ \A run, j : Dispatched(run, j)' = Dispatched(run, j)
  BY <1>1 DEF LocalJoined, Dispatched
<1>5. Launched'
  BY <1>1, <1>2, <1>3 DEF StrandInv, Launched
<1>6. NoneStranded'
  BY <1>1, <1>2, <1>3, <1>4 DEF StrandInv, NoneStranded
<1> QED  BY <1>5, <1>6 DEF StrandInv

LEMMA StrandErases ==
    ASSUME MapInv, StrandInv, io = "running", RunErase
    PROVE  StrandInv'
<1>1. /\ ioq # <<>> /\ ioq' = Tail(ioq) /\ Head(ioq).run = "erase"
      /\ \/ Forgets(domain[Head(ioq).client])
         \/ Head(ioq).client = m_localClient /\ UNCHANGED m_sessionMap
      /\ UNCHANGED <<made, client, domain, continuation, registered>>
  BY DEF RunErase
<1>2. PICK k \in Clients : Head(ioq) = Lambda("erase", k)
  BY <1>1, MapTakes, MadeNumbers DEF MapInv, Lambdas, Lambda
<1>3. MapTypes /\ k # 0 /\ domain[k] \in Names
  BY MadeNumbers DEF MapInv, Clients
<1>4. ASSUME NEW run, NEW j, Dispatched(run, j), run # "erase" \/ j # k
      PROVE  Dispatched(run, j)'
  <2>1. Head(ioq) # Lambda(run, j)
    BY <1>2, <1>4 DEF Lambda
  <2> QED  BY <1>1, <1>3, <1>4, <2>1, DispatchedTail
<1>5. \/ \A n \in Names : m_sessionMap'[n] = IF n = domain[k] THEN 0 ELSE m_sessionMap[n]
      \/ k = m_localClient /\ m_sessionMap' = m_sessionMap
  BY <1>1, <1>2, <1>3 DEF Forgets, MapTypes, Lambda
<1>6. \A j \in Clients : domain[j] \in Names /\ j # 0
  BY <1>3, MadeNumbers DEF Clients
<1>7. LocalJoined' = LocalJoined
  BY <1>1 DEF LocalJoined
<1>8. Launched'
  BY <1>1 DEF StrandInv, Launched
<1>9. ASSUME NEW j \in Clients, j # m_localClient, continuation[j] = "done", client[j].launch = "false",
             m_sessionMap'[domain[j]] = j
      PROVE  Dispatched("erase", j)'
  <2>1. m_sessionMap[domain[j]] = j /\ j # k
    BY <1>3, <1>5, <1>6, <1>9
  <2>2. Dispatched("erase", j)
    BY <1>9, <2>1 DEF StrandInv, NoneStranded
  <2> QED  BY <1>4, <2>1, <2>2
<1>10. NoneStranded'
  BY <1>1, <1>4, <1>7, <1>9 DEF StrandInv, NoneStranded
<1> QED  BY <1>8, <1>10 DEF StrandInv

LEMMA StrandReceives ==
    ASSUME MapInv, StrandInv, io = "running", NEW n \in Names, onReceive(n)
    PROVE  StrandInv'
<1>1. UNCHANGED <<continuation, ioq, registered>> /\ MapTypes
  BY DEF onReceive, MapInv
<1>2. CASE m_sessionMap[n] # 0
  <2>1. UNCHANGED <<client, domain, m_sessionMap>>
    BY <1>2 DEF onReceive
  <2> QED  BY <1>1, <2>1, StrandKept DEF Dispatched, LocalJoined
<1>3. CASE m_sessionMap[n] = 0
  <2> DEFINE k == made + 1
  <2>1. /\ made < MaxClients
        /\ domain' = [domain EXCEPT ![k] = n]
        /\ m_sessionMap' = [m_sessionMap EXCEPT ![n] = k]
        /\ \E d : client' = [client EXCEPT ![k] = d]
    BY <1>3 DEF onReceive, Connects, Becomes
  <2>2. k \in Clients /\ k > made /\ k # m_localClient
    BY <1>1, <2>1, MadeNumbers, BackplaneAssumption DEF Clients, m_localClient
  <2>3. continuation[k] = "waits"
    BY <2>2 DEF MapInv, LivesApart
  <2> HIDE DEF k
  <2>4. \A j \in Clients : j # k => client'[j] = client[j] /\ domain'[j] = domain[j]
    BY <1>1, <2>1 DEF MapTypes
  <2>5. \A j \in Clients : j # k /\ m_sessionMap'[domain[j]] = j => m_sessionMap[domain[j]] = j
    BY <1>1, <2>1, MadeNumbers DEF MapTypes
  <2>6. client'[m_localClient] = client[m_localClient]
    BY <2>2, <2>4, LocalIsClient
  <2> QED  BY <1>1, <2>3, <2>4, <2>5, <2>6, StrandKept DEF Dispatched, LocalJoined
<1> QED  BY <1>2, <1>3

LEMMA StrandNext == MapInv /\ StrandInv /\ [BNext]_bvars => StrandInv'
<1> SUFFICES ASSUME MapInv, StrandInv, [BNext]_bvars PROVE StrandInv'
  OBVIOUS
<1>1. CASE UNCHANGED <<client, domain, m_sessionMap, continuation, ioq, registered>>
           /\ io = "running"
  BY <1>1, StrandKept DEF MapInv, Dispatched, LocalJoined
<1>2. CASE UNCHANGED bvars
  BY <1>2 DEF bvars, StrandInv, Launched, NoneStranded, Dispatched, LocalJoined
<1>3. ASSUME BNext, NEW k \in Clients,
             \/ ClientAdvances(k) \/ ClientDisconnects(k) \/ ClientThrows(k)
             \/ LaunchContinues(k) \/ RouterRegisters(k)
      PROVE  StrandInv'
  <2>1. io = "running"
    BY <1>3 DEF BNext
  <2>2. CASE ClientThrows(k)
    BY <1>1, <2>1, <2>2 DEF ClientThrows
  <2> QED
    BY <1>3, <2>1, <2>2, StrandAdvances, StrandDisconnects, StrandContinues, StrandRegisters
<1>4. CASE BNext /\ onReceive_Throws
  BY <1>1, <1>4 DEF BNext, onReceive_Throws
<1>5. ASSUME BNext, NEW p \in 1..MaxInvocations,
             \/ \E q \in 1..MaxInvocations : CallAnswered(p, q)
             \/ \E n \in Names : proxy(p, n)
      PROVE  StrandInv'
  BY <1>1, <1>5 DEF BNext, CallAnswered, proxy
<1> QED
  BY <1>2, <1>3, <1>4, <1>5, StrandProvides, StrandErases, StrandReceives DEF BNext

-----------------------------------------------------------------------------
(***************************************************************************)
(* The theorems                                                            *)
(***************************************************************************)

\* proxy() never calls through a client of another domain nor through one that
\* has reported that it is disconnected, the local one excepted.
THEOREM MapAccurateThm == BSpec => []MapAccurate
<1>1. MapInv => MapAccurate
  BY DEF MapInv
<1> QED  BY <1>1, MapInit, MapNext, PTL DEF BSpec

\* The slot of m_onDisconnect and the lambda of a failed launch forget a domain
\* in both places, so that a domain the listener ignores has a client.
THEOREM KnownAreMappedThm == BSpec => []KnownAreMapped
<1>1. MapInv => KnownAreMapped
  BY DEF MapInv
<1> QED  BY <1>1, MapInit, MapNext, PTL DEF BSpec

\* The lambda a failed launch has dispatched finds its own client in the map.
THEOREM ErasesItsOwnThm == BSpec => []ErasesItsOwn
<1>1. MapInv => ErasesItsOwn
  <2> SUFFICES ASSUME MapInv, NEW i \in DOMAIN ioq, ioq[i].run = "erase"
               PROVE  m_sessionMap[domain[ioq[i].client]] = ioq[i].client
    BY DEF ErasesItsOwn
  <2> DEFINE k == ioq[i].client
  <2>1. ioq[i] \in Lambdas /\ k \in Clients /\ k \in 1..made
    BY QueueClients DEF MapInv, Lambdas
  <2>2. EraseQueued(k)
    BY <2>1 DEF EraseQueued, Lambda, Lambdas
  <2>3. client[k].launch = "false"
    BY <2>1, <2>2 DEF MapInv, ErasesOnce
  <2>4. ~client[k].gone
    BY <2>1, <2>3 DEF MapInv, LivesApart
  <2> QED  BY <2>1, <2>2, <2>4 DEF MapInv, StaysMapped
<1> QED  BY <1>1, MapInit, MapNext, PTL DEF BSpec

\* What Reconnects and DomainsServed need besides fairness: the prefix of a client
\* that was launched is provided, or will be by the io thread, and a client whose
\* launch failed has left the map, or will.
THEOREM NoneStrandedThm == BSpec => []NoneStranded
<1>1. StrandInv => NoneStranded
  BY DEF StrandInv
<1> QED  BY <1>1, MapInit, MapNext, StrandInit, StrandNext, PTL DEF BSpec

\* Every name is looked up to 0 or to a client that was made, every lambda
\* refers to one, every invocation to one or to none, and nothing is provided or
\* known but the domains there are.
THEOREM BTypeCorrect == BSpec => []BTypeOK
<1>1. MapInv /\ RestTypes => BTypeOK
  <2> SUFFICES ASSUME MapInv, RestTypes PROVE BTypeOK
    OBVIOUS
  <2>1. \A k \in Clients : client[k] \in Life(k)!Client
    BY DEF MapInv, MapTypes, ClientRecord, Life!Client
  <2>2. \A i \in DOMAIN ioq :
           ioq[i].run \in {"provide", "erase"} /\ ioq[i].client \in 1..made
    BY QueueClients DEF MapInv, Lambdas
  <2>3. \A p \in 1..MaxInvocations :
           /\ invocation[p].state \in {"none", "called", "answered"}
           /\ invocation[p].by \in 0..made
    BY DEF RestTypes
  <2> QED  BY <2>1, <2>2, <2>3 DEF MapInv, MapTypes, RestTypes, BTypeOK
<1>2. MapInv => MapTypes
  BY DEF MapInv
<1> QED  BY <1>1, <1>2, MapInit, MapNext, RestInit, RestNext, PTL DEF BSpec
=============================================================================
