---------------------------- MODULE MCHubIntents ----------------------------
(* Model values and symmetry for HubIntents.                               *)
EXTENDS HubIntents, TLC

CONSTANTS c1, c2, k1, k2

(* Clients and settings are compared for equality only, and every cfg that *)
(* uses the symmetry lets all keys be tried.                               *)
Symmetry == Permutations(Clients) \cup Permutations(Keys)
=============================================================================
