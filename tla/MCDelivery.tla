----------------------------- MODULE MCDelivery -----------------------------
(***************************************************************************)
(* IncidentDelivery in two installations, one to a behaviour: one where    *)
(* goroutines, destinations and operators overlap, and one that crashes    *)
(* and loses acknowledgements.  The constants of the configuration bound   *)
(* both.                                                                   *)
(***************************************************************************)
EXTENDS IncidentDelivery

VARIABLE installation

OneSubject == {"web"}
TwoDestinations == {"log", "webhook"}
OnlyLog == {"log"}
AllStatuses == {"up", "warning", "down"}
\* The log, the default, gets everything; the webhook failures and recoveries.
ByKind == [k \in Kind |-> IF k \in {"down", "recovered"} THEN <<"log", "webhook">> ELSE <<"log">>]

\* The webhook refuses everything for as long as it likes.
Overlap == INSTANCE IncidentDelivery WITH
    Statuses <- AllStatuses, Emitters <- 2, MaxCrashes <- 0, MaxLostAcks <- 0
Failing == INSTANCE IncidentDelivery WITH
    Statuses <- {"up", "down"}, Emitters <- 1, MaxCrashes <- 1, MaxLostAcks <- 1

InstallationsInit == Init /\ installation \in {"overlap", "failing"}
InstallationsNext ==
    /\ UNCHANGED installation
    /\ \/ installation = "overlap" /\ Overlap!Next
       \/ installation = "failing" /\ Failing!Next

InstallationsSpec == InstallationsInit /\ [][InstallationsNext]_<<vars, installation>>
=============================================================================
