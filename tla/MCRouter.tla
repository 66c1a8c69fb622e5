----------------------------- MODULE MCRouter ------------------------------
(***************************************************************************)
(* WampRouter on small instances: one session, its application and a       *)
(* conforming router.                                                      *)
(***************************************************************************)
EXTENDS WampRouter

CONSTANTS t1, t2
=============================================================================
