----------------------------- MODULE MCHubBlob ------------------------------
(* Small instances of HubBlob.                                             *)
EXTENDS HubBlob

CONSTANTS s1

(* Two revisions of one size, and one larger than the receiver takes.      *)
SizeOf == <<3, 3, 5>>
=============================================================================
