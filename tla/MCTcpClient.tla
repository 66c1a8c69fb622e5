---------------------------- MODULE MCTcpClient ----------------------------
(***************************************************************************)
(* WampTcpClient on a small instance, with an unconstrained peer.          *)
(***************************************************************************)
EXTENDS WampTcpClient
=============================================================================
