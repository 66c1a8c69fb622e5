---------------------------- MODULE MCCallResult ----------------------------
(***************************************************************************)
(* WampCallResult and its accessors on a small instance: three objects and *)
(* one zone more, so that an assignment always finds memory, and memory is *)
(* reused; one keyword is a prefix of another.                             *)
(***************************************************************************)
EXTENDS WampArguments, TLC

CONSTANTS r1, r2, r3, z1, z2, z3, z4, d1

MCKeys == {<<1>>, <<1, 2>>}

\* Objects and zones are interchangeable.
Symmetry == Permutations(Objects) \cup Permutations(Zones)
=============================================================================
