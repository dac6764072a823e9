---------------------------- MODULE MCHubSigning ----------------------------
(* Model values and symmetry for HubSigning.                               *)
EXTENDS HubSigning, TLC

CONSTANTS s1, s2, c1, c2, n1, n2, n3, a, b

(* Slots, nonces and session ids are compared for equality only.           *)
Symmetry == Permutations(Slots) \cup Permutations(Nonces) \cup Permutations(Sids)
=============================================================================
