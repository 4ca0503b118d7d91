-------------------------- MODULE TruthfulMonitor --------------------------
(***************************************************************************)
(* What the coordinator promises about a check, with no probers, quorum or *)
(* concurrency in sight: the status it decides is something the target has *)
(* really been.  An outage is decided only if the target has been down     *)
(* since the last change of status, a warning only if it has been in       *)
(* warning, and a decided outage ends only if the target has answered.     *)
(* "Inconclusive" is never decided: it leaves the status alone.            *)
(***************************************************************************)
CONSTANT Check

Condition == {"up", "warning", "down"}

VARIABLES
    target,     \* target[c]: what the target of c really is
    status,     \* status[c]: the decided status, "unknown" at first
    since       \* since[c]: what the target has been since status[c] changed

vars == <<target, status, since>>

Init ==
    /\ target \in [Check -> Condition]
    /\ status = [c \in Check |-> "unknown"]
    /\ since = [c \in Check |-> {target[c]}]

TargetMoves(c) ==
    \E s \in Condition :
        /\ target' = [target EXCEPT ![c] = s]
        /\ since' = [since EXCEPT ![c] = @ \cup {s}]
        /\ UNCHANGED status

Decide(c) ==
    \E s \in Condition \ {status[c]} :
        /\ s \in {"down", "warning"} => s \in since[c]
        /\ status[c] = "down" => since[c] \cap {"up", "warning"} # {}
        /\ status' = [status EXCEPT ![c] = s]
        /\ since' = [since EXCEPT ![c] = {target[c]}]
        /\ UNCHANGED target

Next == \E c \in Check : TargetMoves(c) \/ Decide(c)

Spec == Init /\ [][Next]_vars
=============================================================================
