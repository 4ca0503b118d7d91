------------------------- MODULE MCIncidentDelivery -------------------------
(* Small installations for IncidentDelivery.                               *)
EXTENDS IncidentDelivery

CONSTANTS web, log, webhook

OneSubject == {web}
OneDestination == {webhook}
TwoDestinations == {log, webhook}
OnlyLog == {log}

ToWebhook == [k \in Kind |-> <<webhook>>]
\* To both destinations, the one that may refuse for ever first.
RefusingFirst == [k \in Kind |-> <<webhook, log>>]

UpDown == {"up", "down"}
=============================================================================
