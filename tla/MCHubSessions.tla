--------------------------- MODULE MCHubSessions ---------------------------
(* Model values and symmetry for HubSessions.                              *)
EXTENDS HubSessions, TLC

CONSTANTS i1, i2, i3, a, b, c, d

(* Instances and session ids are compared for equality only, so permuting  *)
(* either set maps behaviours to behaviours.                               *)
Symmetry == Permutations(Instances) \cup Permutations(Sids)
=============================================================================
