----------------------------- MODULE MCStateSync -----------------------------
(* A small instance of StateSync: two channels, one of elevated priority.  *)
EXTENDS StateSync

CONSTANTS a, b

OrderAB  == <<a, b>>
PrioNE   == [ch \in {a, b} |-> IF ch = a THEN "normal" ELSE "elevated"]
SetAB    == {a, b}
None     == {}
Anywhere == {"user", "fixed"}
=============================================================================
