--------------------------- MODULE WampCallResult ---------------------------
(***************************************************************************)
(* autobahn::wamp_call_result: who owns the memory a result refers to.     *)
(* m_arguments and m_kw_arguments are msgpack objects, that is pointers    *)
(* into a zone: the zone of the RESULT message, which the object owns      *)
(* through m_zone, a zone of its own when it is a copy, or the constants   *)
(* EMPTY_ARGUMENTS and EMPTY_KW_ARGUMENTS.  A zone is freed with its last  *)
(* owner, and its memory may be given out again at once.                   *)
(***************************************************************************)
EXTENDS Naturals

CONSTANTS
    Objects,   \* wamp_call_result objects
    Zones,     \* msgpack::zone objects, by address
    Data       \* contents of a list or dictionary of arguments

EMPTY   == "EMPTY"    \* what EMPTY_ARGUMENTS and EMPTY_KW_ARGUMENTS hold
Static  == "static"   \* where they are
nullptr == "nullptr"

ASSUME ResultAssumption == /\ Static \notin Zones /\ nullptr \notin Zones
                           /\ nullptr \notin Data

VARIABLES
    alive,            \* the objects that exist
    m_arguments, m_kw_arguments,  \* where the two objects of each result are
    m_zone,           \* the zone each result owns
    memory            \* what each zone holds

vars == <<alive, m_arguments, m_kw_arguments, m_zone, memory>>

Contents == [arguments : Data \cup {EMPTY}, kw_arguments : Data \cup {EMPTY}]
Nothing  == [arguments |-> EMPTY, kw_arguments |-> EMPTY]

\* Reading through the two objects.
Arguments(s)   == IF m_arguments[s] = Static THEN EMPTY
                  ELSE memory[m_arguments[s]].arguments
KwArguments(s) == IF m_kw_arguments[s] = Static THEN EMPTY
                  ELSE memory[m_kw_arguments[s]].kw_arguments
Held(s) == [arguments |-> Arguments(s), kw_arguments |-> KwArguments(s)]

\* The addresses operator new may return.
Unused == {z \in Zones : \A s \in alive : m_zone[s] # z}

Init == /\ alive = {}
        /\ m_arguments = [s \in Objects |-> Static]
        /\ m_kw_arguments = [s \in Objects |-> Static]
        /\ m_zone = [s \in Objects |-> nullptr]
        /\ memory = [z \in Zones |-> Nothing]

\* The members of s after a constructor or an assignment.
Becomes(s, arguments, kw_arguments, zone) ==
    /\ m_arguments' = [m_arguments EXCEPT ![s] = arguments]
    /\ m_kw_arguments' = [m_kw_arguments EXCEPT ![s] = kw_arguments]
    /\ m_zone' = [m_zone EXCEPT ![s] = zone]

Default(s) ==
    /\ s \notin alive
    /\ alive' = alive \cup {s}
    /\ Becomes(s, Static, Static, nullptr)
    /\ memory' = memory

\* process_call_result: the result takes the zone of a RESULT of 3, 4 or 5
\* elements, and refers to the arguments the message has.
FromMessage(s, size, arguments, kw_arguments) ==
    /\ s \notin alive
    /\ alive' = alive \cup {s}
    /\ \E z \in Unused :
          /\ Becomes(s, IF size > 3 THEN z ELSE Static, IF size > 4 THEN z ELSE Static, z)
          /\ memory' = [memory EXCEPT ![z] = [arguments |-> arguments,
                                              kw_arguments |-> kw_arguments]]

\* A new zone with a deep copy of what o refers to.
ClonesInto(s, o) ==
    \E z \in Unused : /\ Becomes(s, z, z, z)
                      /\ memory' = [memory EXCEPT ![z] = Held(o)]

CopyConstruct(s, o) ==
    /\ s \notin alive /\ o \in alive
    /\ alive' = alive \cup {s}
    /\ ClonesInto(s, o)

\* operator=(const&) without the test for self-assignment: m_zone.reset() frees
\* the zone the arguments are then copied from.
CopyAssign_NoSelfTest(s, o) ==
    /\ s \in alive /\ o \in alive
    /\ alive' = alive
    /\ IF s # o THEN ClonesInto(s, o)
       ELSE \E z \in Unused : /\ Becomes(s, z, z, z)
                              /\ \E c \in Contents : memory' = [memory EXCEPT ![z] = c]

\* operator=(const&): the new zone is made before m_zone.reset() frees the old.
CopyAssign(s, o) ==
    /\ s \in alive /\ o \in alive
    /\ s # o           \* assignment to itself does nothing
    /\ alive' = alive
    /\ ClonesInto(s, o)

\* Moving that leaves the source pointing into the zone it gave away.
TakesFrom_SourceKept(s, o) ==
    /\ m_arguments' = [m_arguments EXCEPT ![s] = m_arguments[o]]
    /\ m_kw_arguments' = [m_kw_arguments EXCEPT ![s] = m_kw_arguments[o]]
    /\ m_zone' = [m_zone EXCEPT ![s] = m_zone[o], ![o] = nullptr]
    /\ memory' = memory

\* s takes the objects and the zone of o; o is left empty.
TakesFrom(s, o) ==
    /\ m_arguments' = [m_arguments EXCEPT ![s] = m_arguments[o], ![o] = Static]
    /\ m_kw_arguments' = [m_kw_arguments EXCEPT ![s] = m_kw_arguments[o], ![o] = Static]
    /\ m_zone' = [m_zone EXCEPT ![s] = m_zone[o], ![o] = nullptr]
    /\ memory' = memory

MoveConstruct(s, o) ==
    /\ s \notin alive /\ o \in alive
    /\ alive' = alive \cup {s}
    /\ TakesFrom(s, o)

MoveAssign(s, o) ==
    /\ s \in alive /\ o \in alive
    /\ s # o           \* assignment to itself does nothing
    /\ alive' = alive
    /\ TakesFrom(s, o)

\* The destructor frees the zone.
Destroy(s) ==
    /\ s \in alive
    /\ alive' = alive \ {s}
    /\ UNCHANGED <<m_arguments, m_kw_arguments, m_zone, memory>>

Next ==
    \E s \in Objects :
        \/ Default(s)
        \/ \E size \in 3..5 : \E a, k \in Data : FromMessage(s, size, a, k)
        \/ \E o \in Objects : \/ CopyConstruct(s, o) \/ CopyAssign(s, o)
                              \/ MoveConstruct(s, o) \/ MoveAssign(s, o)
        \/ Destroy(s)

Spec == Init /\ [][Next]_vars
-----------------------------------------------------------------------------
(***************************************************************************)
(* Properties                                                              *)
(***************************************************************************)

TypeInv == /\ alive \subseteq Objects
           /\ m_arguments \in [Objects -> Zones \cup {Static}]
           /\ m_kw_arguments \in [Objects -> Zones \cup {Static}]
           /\ m_zone \in [Objects -> Zones \cup {nullptr}]
           /\ memory \in [Zones -> Contents]

\* No result refers to a zone that has been freed, after any sequence of
\* constructions, copies, moves, assignments and destructions of the class:
\* neither through a moved-from object nor through a copy that outlives its
\* original.
NothingDangles ==
    \A s \in alive : \A z \in {m_arguments[s], m_kw_arguments[s]} :
        z = Static \/ \E r \in alive : m_zone[r] = z

\* The inductive form: a result refers to its own zone only, and a zone has one
\* owner.
Owns(s) == {m_arguments[s], m_kw_arguments[s]} \subseteq {Static, m_zone[s]}
Ownership == /\ \A s \in alive : Owns(s)
             /\ \A s, r \in alive : m_zone[s] = m_zone[r] => s = r \/ m_zone[s] = nullptr

\* Results are values: the special member functions of wamp_call_result do what
\* ResultValues says, whatever is shared or freed underneath.
Absent == [arguments |-> nullptr, kw_arguments |-> nullptr]
ValueOf == [s \in Objects |-> IF s \in alive THEN Held(s) ELSE Absent]
V == INSTANCE ResultValues WITH
        Values <- Contents, EmptyValue <- Nothing, NoValue <- Absent, value <- ValueOf
ValueSemantics == V!VSpec
=============================================================================
