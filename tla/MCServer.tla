------------------------------ MODULE MCServer -------------------------------
(* Instance of Server for TLC: a client that keeps its connection for a      *)
(* second request, one that does not, and the healthcheck, more than the     *)
(* descriptors allow at a time.                                              *)
EXTENDS Server, TLC

CONSTANTS c1, c2, probe

MCClients == {c1, c2, probe}
MCMaxRequests == c1 :> 2 @@ c2 :> 1 @@ probe :> 1
==============================================================================
