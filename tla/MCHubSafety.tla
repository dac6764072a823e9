---------------------------- MODULE MCHubSafety ----------------------------
(* Model values for HubSafety.                                              *)
EXTENDS HubSafety, TLC

CONSTANTS c1, c2

(* For the instances whose controllers are all the clients: nothing tells   *)
(* one client from another.                                                 *)
Symmetry == Permutations(Clients)
=============================================================================
