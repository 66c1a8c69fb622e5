----------------------------- MODULE MCSession -----------------------------
(***************************************************************************)
(* WampSession on small instances, with an unconstrained peer.             *)
(***************************************************************************)
EXTENDS WampSession, TLC

CONSTANTS t1, t2

\* The threads are interchangeable; no liveness is checked under it.
ThreadSymmetry == Permutations(Threads)
=============================================================================
