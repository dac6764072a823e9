---------------------------- MODULE MCHubStreams ----------------------------
(* A small instance of HubStreams: two sessions, and a ring of twelve ticks *)
(* that the clock goes round.  The fourth array is not increasing, the     *)
(* last one too long.                                                      *)
EXTENDS HubStreams, TLC

CONSTANTS p, q

Arrays == {<<0>>, <<0, 1>>, <<0, 2>>, <<0, 0>>, <<0, 3>>}

LeadSet == {-1, 0, 2}

Symmetry == Permutations(Sessions)
=============================================================================
