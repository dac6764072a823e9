----------------------------- MODULE LatestValue -----------------------------
(***************************************************************************)
(* What the STATE plane of Valence promises a subscriber (SPEC 9.1, 7.3),  *)
(* without sessions, sequence numbers, pacing or frames: of every channel  *)
(* the hub has a latest value, and a client sees values of the channel     *)
(* that were published, never going back to an older one.  Values may be   *)
(* skipped, and a client may forget what it saw and start again.           *)
(***************************************************************************)
EXTENDS Naturals

CONSTANT Channels

VARIABLES
    latest,   \* [Channels -> Nat]: how many values the channel has had
    seen      \* [Channels -> Nat]: which of them the client shows, 0 for none

Init ==
    /\ latest \in [Channels -> Nat]
    /\ seen = [ch \in Channels |-> 0]

Publish(ch) ==
    /\ latest' = [latest EXCEPT ![ch] = @ + 1]
    /\ UNCHANGED seen

Adopt(ch) ==
    /\ \E v \in (seen[ch] + 1) .. latest[ch] : seen' = [seen EXCEPT ![ch] = v]
    /\ UNCHANGED latest

Forget ==
    /\ \E C \in SUBSET Channels :
         seen' = [ch \in Channels |-> IF ch \in C THEN 0 ELSE seen[ch]]
    /\ UNCHANGED latest

Next == Forget \/ \E ch \in Channels : Publish(ch) \/ Adopt(ch)

Spec == Init /\ [][Next]_<<latest, seen>>
=============================================================================
