---------------------------- MODULE ResultValues ----------------------------
(***************************************************************************)
(* What wamp_call_result promises to the code that holds one: it is a      *)
(* value.  Copying copies it, moving takes it away from its source, which  *)
(* is then an empty result, and nothing done to one object changes what    *)
(* another one holds.                                                      *)
(***************************************************************************)
CONSTANTS
    Objects,   \* wamp_call_result objects
    Values,    \* what a result may hold
    EmptyValue,
    NoValue    \* of an object that does not exist

VARIABLE value

TypeOfValue == value \in [Objects -> Values \cup {NoValue}]

VInit == value = [s \in Objects |-> NoValue]

Creates(s, v) ==
    /\ value[s] = NoValue
    /\ value' = [value EXCEPT ![s] = v]

Copies(s, o) ==
    /\ value[o] # NoValue
    /\ value' = [value EXCEPT ![s] = value[o]]

Moves(s, o) ==
    /\ s # o
    /\ value[o] # NoValue
    /\ value' = [value EXCEPT ![s] = value[o], ![o] = EmptyValue]

Destroys(s) ==
    /\ value[s] # NoValue
    /\ value' = [value EXCEPT ![s] = NoValue]

VNext ==
    \E s \in Objects :
        \/ \E v \in Values : Creates(s, v)
        \/ \E o \in Objects : Copies(s, o) \/ Moves(s, o)
        \/ Destroys(s)

VSpec == VInit /\ [][VNext]_value
=============================================================================
