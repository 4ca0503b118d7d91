------------------------------ MODULE Handover ------------------------------
(***************************************************************************)
(* What the operator is promised of a primary and its standby              *)
(* (docs/ha-drill.md): one of the two acts at a time, the primary          *)
(* first; once it is fenced it never acts again, and the standby acts only *)
(* then, or not, as it comes and goes.  To act is to take requests and     *)
(* results, to send notifications or to beat.                              *)
(***************************************************************************)
VARIABLE acting     \* who acts

Init == acting = {"primary"}

Fence == "primary" \in acting /\ acting' = acting \ {"primary"}

TakeOver == acting = {} /\ acting' = {"standby"}

\* A crash of the standby, or a promotion that fails.
StandDown == acting = {"standby"} /\ acting' = {}

Next == Fence \/ TakeOver \/ StandDown

Spec == Init /\ [][Next]_acting
=============================================================================
