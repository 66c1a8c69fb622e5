----------------------- MODULE WampCallResult_proofs -----------------------
(***************************************************************************)
(* Proofs about wamp_call_result: nothing dangles, results are values, and *)
(* the accessors are the list and the dictionary they read.                *)
(* The inductive invariant is RInv: types, a result refers to its own zone *)
(* only, and no zone has two owners.  Single ownership is what makes the   *)
(* destructor and the assignments, which free a zone, harmless to every    *)
(* other object.                                                           *)
(***************************************************************************)
EXTENDS WampArguments, WellFoundedInduction, FiniteSetTheorems, TLAPS

RInv == TypeInv /\ Ownership

\* What an object reads is a value of the abstract specification.
LEMMA HeldType == ASSUME TypeInv, NEW s \in Objects
                  PROVE  Held(s) \in Contents
  BY DEF TypeInv, Held, Arguments, KwArguments, Contents

\* What an object refers to is not null.
LEMMA RefsNotNull ==
  ASSUME TypeInv, NEW s \in Objects
  PROVE  m_arguments[s] # nullptr /\ m_kw_arguments[s] # nullptr
  BY ResultAssumption DEF TypeInv, Static, nullptr

\* The constructors, assignments and the destructor keep the types.
LEMMA TypeStep == ASSUME TypeInv, Next PROVE TypeInv'
<1> USE DEF TypeInv
<1> PICK s \in Objects :
        \/ Default(s)
        \/ \E size \in 3..5 : \E a, k \in Data : FromMessage(s, size, a, k)
        \/ \E o \in Objects : \/ CopyConstruct(s, o) \/ CopyAssign(s, o)
                              \/ MoveConstruct(s, o) \/ MoveAssign(s, o)
        \/ Destroy(s)
  BY DEF Next
<1>1. CASE Default(s)
  BY <1>1 DEF Default, Becomes
<1>2. ASSUME NEW size \in 3..5, NEW a \in Data, NEW k \in Data,
             FromMessage(s, size, a, k)
      PROVE  TypeInv'
  <2>1. PICK z \in Unused :
          /\ Becomes(s, IF size > 3 THEN z ELSE Static, IF size > 4 THEN z ELSE Static, z)
          /\ memory' = [memory EXCEPT ![z] = [arguments |-> a, kw_arguments |-> k]]
    BY <1>2 DEF FromMessage
  <2>2. z \in Zones /\ [arguments |-> a, kw_arguments |-> k] \in Contents
    BY DEF Unused, Contents
  <2> QED BY <1>2, <2>1, <2>2 DEF FromMessage, Becomes
<1>3. ASSUME NEW o \in Objects, alive' \subseteq Objects, ClonesInto(s, o)
      PROVE  TypeInv'
  BY <1>3, HeldType DEF ClonesInto, Becomes, Unused
<1>4. ASSUME NEW o \in Objects, alive' \subseteq Objects, TakesFrom(s, o)
      PROVE  TypeInv'
  BY <1>4 DEF TakesFrom
<1>5. CASE Destroy(s)
  BY <1>5 DEF Destroy
<1> QED
  BY <1>1, <1>2, <1>3, <1>4, <1>5
  DEF CopyConstruct, CopyAssign, MoveConstruct, MoveAssign

\* An object that becomes the owner of an unused zone disturbs no other.
LEMMA FreshOwner ==
  ASSUME RInv, NEW s \in Objects, NEW z \in Zones \cup {nullptr},
         NEW a \in {Static, z}, NEW k \in {Static, z},
         z \in Unused \/ z = nullptr,
         Becomes(s, a, k, z), alive' = alive \cup {s}
  PROVE  Ownership'
<1>1. \A r \in alive' : r # s => r \in alive /\ Owns(r) /\ m_zone[r] = m_zone'[r]
                                /\ m_arguments'[r] = m_arguments[r]
                                /\ m_kw_arguments'[r] = m_kw_arguments[r]
  BY DEF RInv, Ownership, Becomes, TypeInv
<1>2. m_zone'[s] = z /\ m_arguments'[s] = a /\ m_kw_arguments'[s] = k
  BY DEF RInv, TypeInv, Becomes
<1>3. \A r \in alive' : Owns(r)'
  BY <1>1, <1>2 DEF Owns
<1>4. \A r \in alive : m_zone[r] # z \/ z = nullptr
  BY DEF Unused
<1>5. \A r, q \in alive' : m_zone'[r] = m_zone'[q] => r = q \/ m_zone'[r] = nullptr
  BY <1>1, <1>2, <1>4 DEF RInv, Ownership
<1> QED BY <1>3, <1>5 DEF Ownership

\* A zone that is handed over has one owner before and after.
LEMMA MoveOwner ==
  ASSUME RInv, NEW s \in Objects, NEW o \in alive, s # o,
         TakesFrom(s, o), alive' = alive \cup {s}
  PROVE  Ownership'
<1>0. o \in Objects
  BY DEF RInv, TypeInv
<1>1. \A r \in alive' : r # s /\ r # o =>
         r \in alive /\ Owns(r) /\ m_zone[r] = m_zone'[r]
         /\ m_arguments'[r] = m_arguments[r] /\ m_kw_arguments'[r] = m_kw_arguments[r]
  BY DEF RInv, Ownership, TakesFrom, TypeInv
<1>2. /\ m_zone'[s] = m_zone[o] /\ m_arguments'[s] = m_arguments[o]
      /\ m_kw_arguments'[s] = m_kw_arguments[o]
      /\ m_zone'[o] = nullptr /\ m_arguments'[o] = Static /\ m_kw_arguments'[o] = Static
  BY <1>0 DEF RInv, TypeInv, TakesFrom
<1>3. \A r \in alive' : Owns(r)'
  BY <1>1, <1>2 DEF Owns, RInv, Ownership
<1>4. \A r, q \in alive' : m_zone'[r] = m_zone'[q] => r = q \/ m_zone'[r] = nullptr
  BY <1>1, <1>2 DEF RInv, Ownership
<1> QED BY <1>3, <1>4 DEF Ownership

\* Every step keeps each zone with at most one owner, and every reference with
\* the owner of its zone.
LEMMA OwnershipStep == ASSUME RInv, Next PROVE Ownership'
<1> PICK s \in Objects :
        \/ Default(s)
        \/ \E size \in 3..5 : \E a, k \in Data : FromMessage(s, size, a, k)
        \/ \E o \in Objects : \/ CopyConstruct(s, o) \/ CopyAssign(s, o)
                              \/ MoveConstruct(s, o) \/ MoveAssign(s, o)
        \/ Destroy(s)
  BY DEF Next
<1>1. CASE Default(s)
  BY <1>1, FreshOwner DEF Default
<1>2. ASSUME NEW size \in 3..5, NEW a \in Data, NEW k \in Data,
             FromMessage(s, size, a, k)
      PROVE  Ownership'
  <2>1. PICK z \in Unused :
          Becomes(s, IF size > 3 THEN z ELSE Static, IF size > 4 THEN z ELSE Static, z)
    BY <1>2 DEF FromMessage
  <2>2. z \in Zones \cup {nullptr}
    BY DEF Unused
  <2>3. alive' = alive \cup {s}
    BY <1>2 DEF FromMessage
  <2> DEFINE a1 == IF size > 3 THEN z ELSE Static
             k1 == IF size > 4 THEN z ELSE Static
  <2>4. a1 \in {Static, z} /\ k1 \in {Static, z} /\ Becomes(s, a1, k1, z)
    BY <2>1
  <2> HIDE DEF a1, k1
  <2> QED BY <2>2, <2>3, <2>4, FreshOwner
<1>3. ASSUME NEW o \in Objects, CopyConstruct(s, o) \/ CopyAssign(s, o)
      PROVE  Ownership'
  <2>1. ClonesInto(s, o) /\ alive' = alive \cup {s}
    BY <1>3 DEF CopyConstruct, CopyAssign
  <2>2. PICK z \in Unused : Becomes(s, z, z, z)
    BY <2>1 DEF ClonesInto
  <2>3. z \in Zones \cup {nullptr}
    BY DEF Unused
  <2> QED BY <2>1, <2>2, <2>3, FreshOwner
<1>4. ASSUME NEW o \in Objects, MoveConstruct(s, o) \/ MoveAssign(s, o)
      PROVE  Ownership'
  <2>1. /\ TakesFrom(s, o) /\ alive' = alive \cup {s} /\ s # o /\ o \in alive
    BY <1>4 DEF MoveConstruct, MoveAssign
  <2> QED BY <2>1, MoveOwner
<1>5. CASE Destroy(s)
  BY <1>5 DEF Destroy, RInv, Ownership, Owns
<1> QED BY <1>1, <1>2, <1>3, <1>4, <1>5

\* The inductive invariant of wamp_call_result.
LEMMA RInvariant == Spec => []RInv
<1>1. Init => RInv
  BY DEF Init, RInv, TypeInv, Ownership, Contents, Nothing
<1>2. RInv /\ [Next]_vars => RInv'
  <2> SUFFICES ASSUME RInv, [Next]_vars PROVE RInv' OBVIOUS
  <2>1. CASE Next
    BY <2>1, TypeStep, OwnershipStep DEF RInv
  <2>2. CASE UNCHANGED vars
    BY <2>2 DEF RInv, TypeInv, Ownership, Owns, vars
  <2> QED BY <2>1, <2>2
<1> QED BY <1>1, <1>2, PTL DEF Spec

\* No wamp_call_result refers to freed memory, for any number of objects and
\* zones and any contents.
THEOREM NothingDanglesThm == Spec => []NothingDangles
<1>1. RInv => NothingDangles
  BY RefsNotNull DEF RInv, TypeInv, Ownership, Owns, NothingDangles
<1> QED BY <1>1, RInvariant, PTL

\* An object whose references and zone are untouched, and whose zone nobody
\* writes to, reads what it read before.
LEMMA HeldKept ==
  ASSUME TypeInv, NEW r \in alive, Owns(r),
         NEW z \in Zones, z # m_zone[r],
         \A y \in Zones : y # z => memory'[y] = memory[y],
         m_arguments'[r] = m_arguments[r], m_kw_arguments'[r] = m_kw_arguments[r]
  PROVE  Held(r)' = Held(r)
<1>1. r \in Objects /\ m_arguments[r] \in Zones \cup {Static}
      /\ m_kw_arguments[r] \in Zones \cup {Static}
  BY DEF TypeInv
<1>2. m_arguments[r] # z /\ m_kw_arguments[r] # z
  BY ResultAssumption DEF Owns
<1>3. Arguments(r)' = Arguments(r)
  BY <1>1, <1>2 DEF Arguments
<1>4. KwArguments(r)' = KwArguments(r)
  BY <1>1, <1>2 DEF KwArguments
<1> QED BY <1>3, <1>4 DEF Held

\* Being alive is having a value.
LEMMA AbsentIsDead ==
  ASSUME TypeInv, NEW s \in Objects
  PROVE  ValueOf[s] = Absent <=> s \notin alive
<1>1. Absent \notin Contents
  BY ResultAssumption DEF Absent, Contents, nullptr, EMPTY
<1> QED BY <1>1, HeldType DEF ValueOf

\* When one object alone comes to be alive or to hold something else, the
\* abstract value changes there alone.
LEMMA ValueAt ==
  ASSUME NEW s \in Objects, NEW v,
         s \in alive', Held(s)' = v,
         \A r \in Objects \ {s} : /\ r \in alive' <=> r \in alive
                                  /\ r \in alive => Held(r)' = Held(r)
  PROVE  ValueOf' = [ValueOf EXCEPT ![s] = v]
  BY DEF ValueOf

\* A clone holds what its original holds, and the others what they held.
LEMMA CloneStep ==
  ASSUME RInv, NEW s \in Objects, NEW o \in alive, ClonesInto(s, o),
         alive' = alive \cup {s}
  PROVE  V!Copies(s, o)
<1> USE DEF RInv
<1>0. o \in Objects
  BY DEF TypeInv
<1>1. PICK z \in Unused : /\ Becomes(s, z, z, z)
                          /\ memory' = [memory EXCEPT ![z] = Held(o)]
  BY DEF ClonesInto
<1>2. z \in Zones /\ z # Static /\ \A r \in alive : m_zone[r] # z
  BY ResultAssumption DEF Unused
<1>3. Held(o) \in Contents
  BY <1>0, HeldType
<1>4. memory'[z] = Held(o) /\ \A y \in Zones : y # z => memory'[y] = memory[y]
  BY <1>1, <1>2 DEF TypeInv
<1>5. m_arguments'[s] = z /\ m_kw_arguments'[s] = z
  BY <1>1 DEF Becomes, TypeInv
<1>6. Held(s)' = Held(o)
  BY <1>2, <1>3, <1>4, <1>5 DEF Held, Arguments, KwArguments, Contents
<1>7. ASSUME NEW r \in alive, r # s PROVE Held(r)' = Held(r)
  <2>1. m_arguments'[r] = m_arguments[r] /\ m_kw_arguments'[r] = m_kw_arguments[r]
    BY <1>1, <1>7 DEF Becomes, TypeInv
  <2> QED BY <1>2, <1>4, <2>1, HeldKept DEF Ownership
<1>8. ValueOf' = [ValueOf EXCEPT ![s] = Held(o)]
  <2>1. \A r \in Objects \ {s} : /\ r \in alive' <=> r \in alive
                                 /\ r \in alive => Held(r)' = Held(r)
    BY <1>7
  <2>2. s \in alive'
    OBVIOUS
  <2> HIDE DEF RInv
  <2> QED BY <1>6, <2>1, <2>2, ValueAt
<1>9. ValueOf[o] = Held(o) /\ ValueOf[o] # Absent
  BY <1>0, AbsentIsDead DEF ValueOf
<1> QED BY <1>8, <1>9 DEF V!Copies

\* Moving hands the value over and leaves an empty result behind.
LEMMA MoveStep ==
  ASSUME RInv, NEW s \in Objects, NEW o \in alive, s # o, TakesFrom(s, o),
         alive' = alive \cup {s}
  PROVE  V!Moves(s, o)
<1> USE DEF RInv
<1>0. o \in Objects
  BY DEF TypeInv
<1>1. /\ m_arguments'[s] = m_arguments[o] /\ m_kw_arguments'[s] = m_kw_arguments[o]
      /\ m_arguments'[o] = Static /\ m_kw_arguments'[o] = Static
      /\ \A r \in Objects \ {s, o} : /\ m_arguments'[r] = m_arguments[r]
                                     /\ m_kw_arguments'[r] = m_kw_arguments[r]
  BY <1>0 DEF TakesFrom, TypeInv
<1>2. memory' = memory
  BY DEF TakesFrom
<1>3. Held(s)' = Held(o) /\ Held(o)' = Nothing
  BY <1>1, <1>2 DEF Held, Arguments, KwArguments, Nothing
<1>4. \A r \in Objects \ {s, o} : Held(r)' = Held(r)
  BY <1>1, <1>2 DEF Held, Arguments, KwArguments
<1>5. ValueOf' = [ValueOf EXCEPT ![s] = Held(o), ![o] = Nothing]
  BY <1>0, <1>3, <1>4 DEF ValueOf
<1>6. ValueOf[o] = Held(o) /\ ValueOf[o] # Absent
  BY <1>0, AbsentIsDead DEF ValueOf
<1> QED BY <1>5, <1>6 DEF V!Moves

\* A constructor gives the new object a value and leaves the others theirs.
LEMMA CreateStep ==
  ASSUME RInv, NEW s \in Objects, s \notin alive, alive' = alive \cup {s},
         Held(s)' \in Contents,
         \A r \in alive : Held(r)' = Held(r)
  PROVE  \E v \in Contents : V!Creates(s, v)
<1> USE DEF RInv
<1>1. ValueOf' = [ValueOf EXCEPT ![s] = Held(s)']
  <2>1. \A r \in Objects \ {s} : /\ r \in alive' <=> r \in alive
                                 /\ r \in alive => Held(r)' = Held(r)
    OBVIOUS
  <2> QED BY <2>1, ValueAt
<1>2. ValueOf[s] = Absent
  BY AbsentIsDead
<1> QED BY <1>1, <1>2 DEF V!Creates

\* Every step of wamp_call_result is a step of ResultValues.
LEMMA ValueStep == ASSUME RInv, RInv', Next PROVE V!VNext
<1> PICK s \in Objects :
        \/ Default(s)
        \/ \E size \in 3..5 : \E a, k \in Data : FromMessage(s, size, a, k)
        \/ \E o \in Objects : \/ CopyConstruct(s, o) \/ CopyAssign(s, o)
                              \/ MoveConstruct(s, o) \/ MoveAssign(s, o)
        \/ Destroy(s)
  BY DEF Next
<1>0. ASSUME s \in alive' PROVE Held(s)' \in Contents
  <2>1. TypeInv'
    BY DEF RInv
  <2> QED BY <2>1 DEF TypeInv, Held, Arguments, KwArguments, Contents
<1>1. CASE Default(s)
  <2>1. s \notin alive /\ alive' = alive \cup {s}
    BY <1>1 DEF Default
  <2>2. \A r \in alive : Held(r)' = Held(r)
    BY <1>1, <2>1 DEF Default, Becomes, Held, Arguments, KwArguments, RInv, TypeInv
  <2> QED BY <1>0, <2>1, <2>2, CreateStep DEF V!VNext
<1>2. ASSUME NEW size \in 3..5, NEW a \in Data, NEW k \in Data,
             FromMessage(s, size, a, k)
      PROVE  V!VNext
  <2>1. s \notin alive /\ alive' = alive \cup {s}
    BY <1>2 DEF FromMessage
  <2>2. PICK z \in Unused :
          /\ Becomes(s, IF size > 3 THEN z ELSE Static, IF size > 4 THEN z ELSE Static, z)
          /\ memory' = [memory EXCEPT ![z] = [arguments |-> a, kw_arguments |-> k]]
    BY <1>2 DEF FromMessage
  <2>3. z \in Zones /\ \A r \in alive : m_zone[r] # z
    BY DEF Unused
  <2>4. \A y \in Zones : y # z => memory'[y] = memory[y]
    BY <2>2 DEF RInv, TypeInv
  <2>5. ASSUME NEW r \in alive PROVE Held(r)' = Held(r)
    <3>1. m_arguments'[r] = m_arguments[r] /\ m_kw_arguments'[r] = m_kw_arguments[r]
      BY <2>1, <2>2 DEF Becomes, RInv, TypeInv
    <3> QED BY <2>3, <2>4, <3>1, HeldKept DEF RInv, Ownership
  <2> QED BY <1>0, <2>1, <2>5, CreateStep DEF V!VNext
<1>3. ASSUME NEW o \in Objects, CopyConstruct(s, o) \/ CopyAssign(s, o)
      PROVE  V!VNext
  <2>1. o \in alive /\ ClonesInto(s, o) /\ alive' = alive \cup {s}
    BY <1>3 DEF CopyConstruct, CopyAssign
  <2> QED BY <2>1, CloneStep DEF V!VNext
<1>4. ASSUME NEW o \in Objects, MoveConstruct(s, o) \/ MoveAssign(s, o)
      PROVE  V!VNext
  <2>1. o \in alive /\ s # o /\ TakesFrom(s, o) /\ alive' = alive \cup {s}
    BY <1>4 DEF MoveConstruct, MoveAssign
  <2> QED BY <2>1, MoveStep DEF V!VNext
<1>5. CASE Destroy(s)
  <2>1. \A r \in Objects : Held(r)' = Held(r)
    BY <1>5 DEF Destroy, Held, Arguments, KwArguments
  <2>2. ValueOf' = [ValueOf EXCEPT ![s] = Absent]
    BY <1>5, <2>1 DEF Destroy, ValueOf
  <2>3. ValueOf[s] # Absent
    BY <1>5, AbsentIsDead DEF Destroy, RInv
  <2> QED BY <2>2, <2>3 DEF V!VNext, V!Destroys
<1> QED BY <1>1, <1>2, <1>3, <1>4, <1>5

\* The special member functions of wamp_call_result implement value semantics.
THEOREM ValueSemanticsThm == Spec => ValueSemantics
<1>1. Init => V!VInit
  BY DEF Init, V!VInit, ValueOf
<1>2. RInv /\ RInv' /\ [Next]_vars => [V!VNext]_ValueOf
  <2> SUFFICES ASSUME RInv, RInv', [Next]_vars PROVE [V!VNext]_ValueOf OBVIOUS
  <2>1. CASE Next
    BY <2>1, ValueStep
  <2>2. CASE UNCHANGED vars
    BY <2>2 DEF vars, ValueOf, Held, Arguments, KwArguments
  <2> QED BY <2>1, <2>2
<1> QED BY <1>1, <1>2, RInvariant, PTL DEF Spec, ValueSemantics, V!VSpec
-----------------------------------------------------------------------------
(***************************************************************************)
(* The accessors                                                           *)
(*                                                                         *)
(* What the loop over the map computes is shown by induction on the number *)
(* of entries left, in the form of a least counterexample.                 *)
(***************************************************************************)

LEMMA LeastNumber ==
    ASSUME NEW S \in SUBSET Nat, S # {}
    PROVE  \E x \in S : \A y \in S : x <= y
<1> DEFINE R == OpToRel(<, Nat)
<1>1. IsWellFoundedOn(R, Nat)
  BY NatLessThanWellFounded
<1>2. \A x, y \in Nat : x < y => <<x, y>> \in R
  BY DEF OpToRel
<1> HIDE DEF R
<1>3. PICK x \in S : \A y \in S : <<y, x>> \notin R
  BY <1>1, WFMin
<1>4. \A y \in S : ~(y < x)
  BY <1>2, <1>3
<1>5. \A y \in S : x <= y
  <2>1. \A y, z \in Nat : ~(y < z) => z <= y
    OBVIOUS
  <2> QED  BY <1>4, <2>1
<1> QED  BY <1>5

\* What the loop over the map does with the entries from i on, given what it
\* does with those from i + 1 on.
LoopStep(items, key, T, otherwise, f) ==
    [i \in 1..Len(items) + 1 |->
        IF i > Len(items) THEN otherwise
        ELSE IF Matches(key, items[i]) THEN As(items[i].val, T) ELSE f[i + 1]]

\* The first entry from i on that has the key, and what it is converted to.
HavingFrom(items, key, i) == {j \in 1..Len(items) : j >= i /\ Matches(key, items[j])}
FirstOf(S) == CHOOSE j \in S : \A k \in S : j <= k
FirstFrom(items, key, T, otherwise) ==
    [i \in 1..Len(items) + 1 |->
        IF HavingFrom(items, key, i) = {} THEN otherwise
        ELSE As(items[FirstOf(HavingFrom(items, key, i))].val, T)]

LEMMA FirstIsLeast ==
    ASSUME NEW S \in SUBSET Nat, NEW j \in S, \A k \in S : j <= k
    PROVE  FirstOf(S) = j
<1>1. FirstOf(S) \in S /\ \A k \in S : FirstOf(S) <= k
  BY DEF FirstOf
<1>2. FirstOf(S) <= j /\ j <= FirstOf(S) /\ j \in Nat /\ FirstOf(S) \in Nat
  BY <1>1
<1> QED  BY <1>2

\* The loop finds the first entry ...
LEMMA FirstIsFixpoint ==
    ASSUME NEW items, Len(items) \in Nat, NEW key, NEW T, NEW otherwise
    PROVE  LET g == FirstFrom(items, key, T, otherwise)
           IN  g = LoopStep(items, key, T, otherwise, g)
<1> DEFINE n == Len(items)
           g == FirstFrom(items, key, T, otherwise)
           Later(i) == HavingFrom(items, key, i)
<1> SUFFICES ASSUME NEW i \in 1..n + 1
             PROVE  g[i] = IF i > n THEN otherwise
                           ELSE IF Matches(key, items[i]) THEN As(items[i].val, T)
                           ELSE g[i + 1]
  BY DEF FirstFrom, LoopStep
<1>1. /\ g[i] = IF Later(i) = {} THEN otherwise ELSE As(items[FirstOf(Later(i))].val, T)
      /\ i <= n => g[i + 1] = IF Later(i + 1) = {} THEN otherwise
                              ELSE As(items[FirstOf(Later(i + 1))].val, T)
  BY DEF FirstFrom
<1>2. CASE i > n
  <2>1. Later(i) = {}
    BY <1>2 DEF HavingFrom
  <2> QED  BY <1>1, <1>2, <2>1
<1>3. CASE i <= n /\ Matches(key, items[i])
  <2>1. i \in Later(i) /\ Later(i) \in SUBSET Nat /\ \A k \in Later(i) : i <= k
    BY <1>3 DEF HavingFrom
  <2>2. FirstOf(Later(i)) = i
    BY <2>1, FirstIsLeast
  <2> QED  BY <1>1, <1>3, <2>1, <2>2
<1>4. CASE i <= n /\ ~Matches(key, items[i])
  <2>1. \A j \in 1..n : (j >= i /\ Matches(key, items[j]))
                          <=> (j >= i + 1 /\ Matches(key, items[j]))
    <3> SUFFICES ASSUME NEW j \in 1..n, Matches(key, items[j])
                 PROVE  j >= i <=> j >= i + 1
      OBVIOUS
    <3>1. j # i
      BY <1>4
    <3> QED  BY <3>1
  <2>2. Later(i) = Later(i + 1)
    BY <2>1 DEF HavingFrom
  <2> QED  BY <1>1, <1>4, <2>2
<1> QED  BY <1>2, <1>3, <1>4

\* ... and nothing else satisfies the equation of the loop.
LEMMA FixpointIsFirst ==
    ASSUME NEW items, Len(items) \in Nat, NEW key, NEW T, NEW otherwise,
           NEW f, f = LoopStep(items, key, T, otherwise, f)
    PROVE  f[1] = FirstFrom(items, key, T, otherwise)[1]
<1> DEFINE n == Len(items)
           g == FirstFrom(items, key, T, otherwise)
           B == {k \in 0..n : f[n + 1 - k] # g[n + 1 - k]}
           Step(h, i) == IF i > n THEN otherwise
                         ELSE IF Matches(key, items[i]) THEN As(items[i].val, T)
                         ELSE h[i + 1]
<1>1. \A i \in 1..n + 1 : f[i] = Step(f, i)
  <2>1. \A i \in 1..n + 1 : LoopStep(items, key, T, otherwise, f)[i] = Step(f, i)
    BY DEF LoopStep
  <2> QED  BY <2>1
<1>2. \A i \in 1..n + 1 : g[i] = Step(g, i)
  <2>1. \A i \in 1..n + 1 : LoopStep(items, key, T, otherwise, g)[i] = Step(g, i)
    BY DEF LoopStep
  <2>2. g = LoopStep(items, key, T, otherwise, g)
    BY FirstIsFixpoint
  <2> HIDE DEF g
  <2> QED  BY <2>1, <2>2
<1> HIDE DEF g
<1>3. B = {}
  <2> SUFFICES ASSUME B # {} PROVE FALSE
    OBVIOUS
  <2>1. PICK k \in B : \A j \in B : k <= j
    <3>1. B \in SUBSET Nat
      OBVIOUS
    <3> HIDE DEF B
    <3> QED  BY <3>1, LeastNumber
  <2> DEFINE i == n + 1 - k
  <2>2. i \in 1..n + 1 /\ f[i] # g[i] /\ k \in 0..n
    OBVIOUS
  <2>3. i <= n
    BY <1>1, <1>2, <2>2
  <2>4. k - 1 \in 0..n /\ n + 1 - (k - 1) = i + 1 /\ ~(k <= k - 1)
    BY <2>2, <2>3
  <2>5. f[i + 1] = g[i + 1]
    BY <2>1, <2>4
  <2> HIDE DEF i
  <2> QED  BY <1>1, <1>2, <2>2, <2>3, <2>5
<1>4. n \in 0..n /\ n + 1 - n = 1
  <2>1. \A m \in Nat : m \in 0..m /\ m + 1 - m = 1
    OBVIOUS
  <2> QED  BY <2>1
<1>5. f[n + 1 - n] = g[n + 1 - n]
  BY <1>3, <1>4
<1> HIDE DEF B, n
<1> QED  BY <1>4, <1>5 DEF g

\* KwLookup, whatever the entries are: the first that has the key counts.
LEMMA KwLookupFirst ==
    ASSUME NEW dict, dict.type = "MAP", Len(dict.items) \in Nat,
           NEW key, NEW T, NEW otherwise
    PROVE  /\ HavingFrom(dict.items, key, 1) = {}
                => KwLookup(dict, key, T, otherwise) = otherwise
           /\ \A h \in HavingFrom(dict.items, key, 1) :
                (\A j \in HavingFrom(dict.items, key, 1) : h <= j)
                  => KwLookup(dict, key, T, otherwise) = As(dict.items[h].val, T)
<1> DEFINE items == dict.items
           from == CHOOSE f : f = LoopStep(items, key, T, otherwise, f)
           S == HavingFrom(items, key, 1)
<1>1. KwLookup(dict, key, T, otherwise) = from[1]
  BY Zenon DEF KwLookup, LoopStep
<1>2. \E f : f = LoopStep(items, key, T, otherwise, f)
  BY FirstIsFixpoint, Zenon
<1>3. from = LoopStep(items, key, T, otherwise, from)
  BY <1>2, Zenon
<1> HIDE DEF from
<1>4. from[1] = FirstFrom(items, key, T, otherwise)[1]
  BY <1>3, FixpointIsFirst
<1>5. FirstFrom(items, key, T, otherwise)[1]
        = IF S = {} THEN otherwise ELSE As(items[FirstOf(S)].val, T)
  BY DEF FirstFrom
<1>6. S \in SUBSET Nat
  BY DEF HavingFrom
<1>7. ASSUME NEW h \in S, \A j \in S : h <= j
      PROVE  FirstOf(S) = h
  BY <1>6, <1>7, FirstIsLeast
<1> HIDE DEF S
<1> QED  BY <1>1, <1>4, <1>5, <1>7 DEF S

\* A key is compared with one of a dictionary over its length and its characters:
\* they match when they are the same.
LEMMA MatchesKey ==
    ASSUME NEW key \in Keys, NEW e \in Entry
    PROVE  Matches(key, e) <=> e.str /\ e.key = key
<1>1. Keys \subseteq Seq(Nat)
  BY ArgumentsAssumption
<1>2. CASE e \in [key : Keys, str : {TRUE}, val : Item]
  <2>1. e.str /\ e.key \in Seq(Nat) /\ key \in Seq(Nat)
    BY <1>1, <1>2
  <2>2. \A s, t \in Seq(Nat) : Len(s) = Len(t) /\ IsPrefix(s, t) => s = t
    <3> SUFFICES ASSUME NEW s \in Seq(Nat), NEW t \in Seq(Nat), Len(s) = Len(t),
                        SubSeq(s, 1, Len(s)) = SubSeq(t, 1, Len(s))
                 PROVE  s = t
      BY DEF IsPrefix
    <3> QED  OBVIOUS
  <2>3. IsPrefix(key, key)
    BY <2>1 DEF IsPrefix
  <2> QED  BY <2>1, <2>2, <2>3 DEF Matches
<1>3. CASE e \in [key : {<<>>}, str : {FALSE}, val : Item]
  <2>1. ~e.str
    BY <1>3
  <2> QED  BY <2>1 DEF Matches
<1> QED  BY <1>2, <1>3 DEF Entry

\* What a dictionary of a message is.
LEMMA DictEntries ==
    ASSUME NEW dict \in Dicts
    PROVE  /\ dict.type = "MAP" /\ Len(dict.items) \in Nat
           /\ DOMAIN dict.items = 1..Len(dict.items)
           /\ \A i \in DOMAIN dict.items : dict.items[i] \in Entry
           /\ \A i, j \in DOMAIN dict.items : dict.items[i].key = dict.items[j].key => i = j
<1>1. PICK n \in 0..MaxItems : \E d \in DictOf(n) : dict = Object("MAP", d)
  BY DEF Dicts
<1>. PICK d \in DictOf(n) : dict = Object("MAP", d)
  BY <1>1
<1>2. d \in [1..n -> Entry] /\ \A i, j \in 1..n : d[i].key = d[j].key => i = j
  BY DEF DictOf
<1>3. n \in Nat
  BY ArgumentsAssumption
<1>4. Len(d) = n /\ DOMAIN d = 1..n
  BY <1>2, <1>3
<1>5. dict.type = "MAP" /\ dict.items = d
  BY DEF Object
<1> QED  BY <1>2, <1>3, <1>4, <1>5

\* An empty dictionary is one, too.
LEMMA ResultsDicts ==
    ASSUME NEW s
    PROVE  DictsOf(s) \subseteq Dicts
<1>1. MaxItems \in Nat
  BY ArgumentsAssumption
<1>2. <<>> \in DictOf(0)
  <2>1. <<>> \in [1..0 -> Entry]
    OBVIOUS
  <2> QED  BY <2>1 DEF DictOf
<1>3. <<>> \in UNION {DictOf(n) : n \in 0..MaxItems}
  BY <1>1, <1>2
<1>4. EMPTY_KW_ARGUMENTS \in Dicts
  BY <1>3 DEF EMPTY_KW_ARGUMENTS, Dicts
<1> QED  BY <1>4 DEF DictsOf

\* The lookup of a keyword: the entry that has the key, of which there is one.
LEMMA KwLookupExact ==
    ASSUME NEW dict \in Dicts, NEW key \in Keys, NEW T, NEW otherwise
    PROVE  /\ Having(dict, key) = {} => KwLookup(dict, key, T, otherwise) = otherwise
           /\ \A h \in Having(dict, key) :
                /\ Having(dict, key) = {h}
                /\ KwLookup(dict, key, T, otherwise) = As(dict.items[h].val, T)
<1>1. /\ dict.type = "MAP" /\ Len(dict.items) \in Nat
      /\ DOMAIN dict.items = 1..Len(dict.items)
      /\ \A i \in DOMAIN dict.items : dict.items[i] \in Entry
      /\ \A i, j \in DOMAIN dict.items : dict.items[i].key = dict.items[j].key => i = j
  BY DictEntries
<1>2. \A i \in DOMAIN dict.items :
         Matches(key, dict.items[i]) <=> dict.items[i].str /\ dict.items[i].key = key
  BY <1>1, MatchesKey
<1>3. HavingFrom(dict.items, key, 1) = Having(dict, key)
  BY <1>1, <1>2 DEF HavingFrom, Having
<1>4. \A h \in Having(dict, key) : Having(dict, key) = {h} /\ h \in Nat
  BY <1>1 DEF Having
<1>5. \A h \in Having(dict, key) : \A j \in Having(dict, key) : h <= j
  BY <1>4
<1> QED  BY <1>1, <1>3, <1>4, <1>5, KwLookupFirst

LEMMA HavingOnce ==
    ASSUME NEW dict \in Dicts, NEW key
    PROVE  Cardinality(Having(dict, key)) <= number_of_kw_arguments(dict)
<1> DEFINE n == Len(dict.items)
<1>1. dict.type = "MAP" /\ n \in Nat /\ DOMAIN dict.items = 1..n
  BY DictEntries
<1>2. Having(dict, key) \in SUBSET (1..n)
  BY <1>1 DEF Having
<1> HIDE DEF n
<1>3. IsFiniteSet(1..n) /\ Cardinality(1..n) = n
  <2>1. Cardinality(1..n) = IF 1 > n THEN 0 ELSE n - 1 + 1
    BY <1>1, FS_Interval
  <2> QED  BY <1>1, <2>1, FS_Interval
<1>4. Cardinality(Having(dict, key)) <= n
  BY <1>2, <1>3, FS_Subset
<1> QED  BY <1>1, <1>4 DEF number_of_kw_arguments, n

\* A list of a result is a finite sequence, whose items know their position.
LEMMA ResultsLists ==
    ASSUME NEW s, NEW list \in ListsOf(s)
    PROVE  /\ list.type = "ARRAY" /\ Len(list.items) \in Nat
           /\ DOMAIN list.items = 1..Len(list.items)
           /\ \A n \in DOMAIN list.items : list.items[n].at = n
<1>1. CASE list \in Lists
  <2>1. PICK n \in 0..MaxItems : \E l \in ListOf(n) : list = Object("ARRAY", l)
    BY <1>1 DEF Lists
  <2>. PICK l \in ListOf(n) : list = Object("ARRAY", l)
    BY <2>1
  <2>2. l \in [1..n -> Item] /\ n \in Nat /\ \A m \in 1..n : l[m].at = m
    BY ArgumentsAssumption DEF ListOf
  <2>3. Len(l) = n /\ DOMAIN l = 1..n
    BY <2>2
  <2>4. list.type = "ARRAY" /\ list.items = l
    BY DEF Object
  <2> QED  BY <2>2, <2>3, <2>4
<1>2. CASE list = EMPTY_ARGUMENTS
  BY <1>2 DEF EMPTY_ARGUMENTS, Object
<1> QED  BY <1>1, <1>2 DEF ListsOf

\* A positional argument: it comes back at its own index and for its own type.
LEMMA ArgumentExact ==
    ASSUME NEW s, NEW list \in ListsOf(s), NEW i \in 0..MaxItems, NEW T
    PROVE  /\ argument(list, i, T) = ThrowsA("out_of_range")
                 <=> number_of_arguments(list) <= i
           /\ \A n \in DOMAIN list.items :
                 argument(list, i, T) = Returns(list.items[n])
                   <=> i = n - 1 /\ list.items[n].type = T
<1> DEFINE items == list.items
<1>1. /\ list.type = "ARRAY" /\ Len(items) \in Nat /\ DOMAIN items = 1..Len(items)
      /\ \A n \in DOMAIN items : items[n].at = n
  BY ResultsLists
<1>2. i \in Nat
  BY ArgumentsAssumption
<1>3. number_of_arguments(list) = Len(items)
  BY <1>1 DEF number_of_arguments
<1>4. \A v, w : /\ Returns(v) # ThrowsA(w)
                /\ Returns(v) = Returns(w) <=> v = w
  BY DEF Returns, ThrowsA
<1>5. ThrowsA("type_error") # ThrowsA("out_of_range")
  BY DEF ThrowsA
<1>6. CASE i < Len(items)
  <2>1. i + 1 \in DOMAIN items
    BY <1>1, <1>2, <1>6
  <2>2. argument(list, i, T) = IF items[i + 1].type = T THEN Returns(items[i + 1])
                               ELSE ThrowsA("type_error")
    BY <1>1, <1>2, <1>6 DEF argument, As
  <2>3. argument(list, i, T) # ThrowsA("out_of_range")
    BY <1>4, <1>5, <2>2
  <2>4. ASSUME NEW n \in DOMAIN items
        PROVE  argument(list, i, T) = Returns(items[n]) <=> i = n - 1 /\ items[n].type = T
    <3>1. items[n] = items[i + 1] <=> i = n - 1
      BY <1>1, <1>2, <2>1, <2>4
    <3>2. i = n - 1 <=> n = i + 1
      BY <1>1, <1>2, <2>4
    <3> HIDE DEF items
    <3> QED  BY <1>4, <2>2, <3>1, <3>2
  <2>5. ~(Len(items) <= i)
    BY <1>1, <1>2, <1>6
  <2> QED  BY <1>3, <2>3, <2>4, <2>5
<1>7. CASE ~(i < Len(items))
  <2>1. argument(list, i, T) = ThrowsA("out_of_range")
    BY <1>1, <1>2, <1>7 DEF argument
  <2>2. Len(items) <= i /\ \A n \in DOMAIN items : i # n - 1
    BY <1>1, <1>2, <1>7
  <2> QED  BY <1>3, <1>4, <2>1, <2>2
<1> QED  BY <1>6, <1>7

\* The accessors of a result, an invocation or an event are the list and the
\* dictionary of its message as functions, however long they are and whatever
\* keys they have.
THEOREM AccessorsExactThm == Spec => []AccessorsExact
<1>1. AccessorsExact
  <2>1. ASSUME NEW s \in alive, NEW T \in Types, NEW dict \in DictsOf(s), NEW key \in Keys
        PROVE  LET hits == Having(dict, key)
                   found == {kw_argument(dict, key, T), kw_argument_or(dict, key, T),
                             kw_argument_or_char(dict, key, T), detail(dict, key, T)}
               IN  /\ hits # {} => found = {As(dict.items[i].val, T) : i \in hits}
                   /\ hits = {} => /\ kw_argument(dict, key, T) = ThrowsA("out_of_range")
                                   /\ detail(dict, key, T) = ThrowsA("out_of_range")
                                   /\ kw_argument_or(dict, key, T) = Returns(Fallback)
                                   /\ kw_argument_or_char(dict, key, T) = ThrowsA(Fallback)
                   /\ Cardinality(hits) <= number_of_kw_arguments(dict)
    <3> DEFINE hits == Having(dict, key)
    <3>1. dict \in Dicts
      BY ResultsDicts
    <3>2. Cardinality(hits) <= number_of_kw_arguments(dict)
      BY <3>1, HavingOnce
    <3>3. CASE hits = {}
      BY <3>1, <3>2, <3>3, KwLookupExact
      DEF kw_argument, kw_argument_or, kw_argument_or_char, detail
    <3>4. CASE hits # {}
      <4>1. PICK h \in hits : TRUE
        BY <3>4
      <4>2. hits = {h}
        BY <3>1, KwLookupExact
      <4>3. /\ kw_argument(dict, key, T) = As(dict.items[h].val, T)
            /\ kw_argument_or(dict, key, T) = As(dict.items[h].val, T)
            /\ kw_argument_or_char(dict, key, T) = As(dict.items[h].val, T)
            /\ detail(dict, key, T) = As(dict.items[h].val, T)
        BY <3>1, KwLookupExact
        DEF kw_argument, kw_argument_or, kw_argument_or_char, detail
      <4> HIDE DEF hits
      <4>4. {As(dict.items[i].val, T) : i \in hits} = {As(dict.items[h].val, T)}
        BY <4>2
      <4> QED  BY <3>2, <3>4, <4>3, <4>4 DEF hits
    <3> QED  BY <3>3, <3>4
  <2> QED  BY <2>1, ArgumentExact DEF AccessorsExact
<1> QED  BY <1>1, PTL
=============================================================================
