----------------------------- MODULE MCLatency -----------------------------
(* A small instance of LatencyCompensation: a cheap and a dear kind.       *)
EXTENDS LatencyCompensation

Prices == [k \in {"Vulture", "Goliath"} |-> IF k = "Vulture" THEN 1 ELSE 2]
First == {0}
=============================================================================
