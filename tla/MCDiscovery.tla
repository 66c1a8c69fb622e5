---------------------------- MODULE MCDiscovery ----------------------------
(***************************************************************************)
(* DomainDiscovery on a small instance: a host with two interfaces, so     *)
(* that one is queued behind another.                                      *)
(***************************************************************************)
EXTENDS DomainDiscovery
=============================================================================
