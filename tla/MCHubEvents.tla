----------------------------- MODULE MCHubEvents -----------------------------
(* A small instance of HubEvents: one session, one user channel, and a     *)
(* queue shorter than the replay, as 16 is shorter than 32 in the code.    *)
(* Another session reaches this one only as an event the hub posts or as a *)
(* drain of its own queue, and both happen here at any time.               *)
EXTENDS HubEvents

CONSTANTS p, u
=============================================================================
