----------------------------- MODULE MCNetwork -----------------------------
(* A hub and one peer, set up by automation.                               *)
EXTENDS Network

OnePeer == {"peer"}
Both == {"peer", "hub"}
TwoAddresses == {"first", "second"}
ByRole == [n \in Both |-> IF n = "hub" THEN "first" ELSE "second"]
=============================================================================
