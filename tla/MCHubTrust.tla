----------------------------- MODULE MCHubTrust -----------------------------
(* Model values and symmetry for HubTrust.                                 *)
EXTENDS HubTrust, TLC

CONSTANTS i1, i2, s1, s2, a, b

(* Devices, slots and session ids are compared for equality only.          *)
Symmetry == Permutations(Instances) \cup Permutations(Sids) \cup Permutations(Slots)
=============================================================================
