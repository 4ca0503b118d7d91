----------------------------- MODULE StatusPage -----------------------------
(***************************************************************************)
(* The public status page: the coordinator assembles a signed export       *)
(* (export.go), each row at another moment; a renderer off the fleet       *)
(* fetches it, perhaps through storage that answers with an older copy,    *)
(* and replaces the page (parallaxd-status); a reader looks at the page at *)
(* any later time.  One component is over all checks, down if any is.      *)
(***************************************************************************)
EXTENDS Integers, FiniteSets, Sequences

CONSTANTS
    Checks,        \* how many checks there are
    Reported,      \* what the checks report in an instance
    Copies,        \* bound: documents that storage holds
    MaxAge,        \* max_age of the status page
    FetchTimeout,  \* the renderer's http client, 30 seconds
    MaxTime,       \* bound: the clock, that of both hosts and of the reader
    MaxChanges     \* bound: changes of what is reported

Status == {"up", "warning", "down", "unknown"}

Check == 1 .. Checks
Known == Status \ {"unknown"}

PageAssumption ==
    /\ Checks \in Nat \ {0}
    /\ {"up", "down"} \subseteq Reported /\ Reported \subseteq Status /\ Copies \in Nat \ {0}
    /\ MaxAge \in Nat /\ FetchTimeout \in Nat /\ MaxTime \in Nat
    /\ MaxChanges \in Nat

VARIABLES
    clock,
    status,     \* what the coordinator reports of each check
    said,       \* history: when it last reported each known status of each check
    export,     \* the document that is being assembled
    documents,  \* the signed documents that a fetch may be answered with
    run,        \* the renderer
    page,       \* index.html
    changes

vars == <<clock, status, said, export, documents, run, page, changes>>

Idle == [at |-> "idle"]
NoPage == [generated |-> -1]
Rows == [Check -> Status]
Document == [generated : 0 .. MaxTime, checks : Rows, component : Status]
Tone == {"stale", "outage", "degraded", "uncheckable", "operational"}
Page == [generated : 0 .. MaxTime, stale : BOOLEAN, rows : Rows, component : Status, overall : Tone]

TypeOK ==
    /\ clock \in 0 .. MaxTime /\ status \in Rows
    /\ said \in [Check -> [Known -> -1 .. clock]]
    /\ export.at \in {"idle", "checks", "components"}
    /\ documents \subseteq Document
    /\ run.at \in {"idle", "started", "built"}
    /\ page = NoPage \/ page \in Page
    /\ changes \in 0 .. MaxChanges

Init ==
    /\ clock = 0 /\ status = [c \in Check |-> "unknown"]
    /\ said = [c \in Check |-> [s \in Known |-> -1]]
    /\ export = Idle /\ documents = {} /\ run = Idle /\ page = NoPage /\ changes = 0
-----------------------------------------------------------------------------
\* A verdict, or a check that goes stale or is seen again.
Report(c, s) ==
    /\ changes < MaxChanges /\ changes' = changes + 1
    /\ s # status[c] /\ status' = [status EXCEPT ![c] = s]
    /\ said' = IF status[c] = "unknown" THEN said ELSE [said EXCEPT ![c][status[c]] = clock]
    /\ UNCHANGED <<clock, export, documents, run, page>>

Tick ==
    /\ clock < MaxTime /\ clock' = clock + 1
    /\ UNCHANGED <<status, said, export, documents, run, page, changes>>

BeginExport ==
    /\ export = Idle
    /\ export' = [at |-> "checks", asked |-> clock, checks |-> <<>>]
    /\ UNCHANGED <<clock, status, said, documents, run, page, changes>>

\* The rows are read in order, each under the mutex of its check, which may be
\* held for long.
WithNext(rows) == Append(rows, status[Len(rows) + 1])

\* Status
ReadCheck ==
    /\ export.at = "checks" /\ Len(export.checks) < Checks
    /\ export' = [export EXCEPT !.checks = WithNext(@)]
    /\ UNCHANGED <<clock, status, said, documents, run, page, changes>>

\* Export: GeneratedAt is read between the checks and the components.
StampExport ==
    /\ export.at = "checks" /\ Len(export.checks) = Checks
    /\ export' = [at |-> "components", asked |-> export.asked, checks |-> export.checks,
                  generated |-> clock, members |-> <<>>]
    /\ UNCHANGED <<clock, status, said, documents, run, page, changes>>

\* Components, checkStatuses
ReadMember ==
    /\ export.at = "components" /\ Len(export.members) < Checks
    /\ export' = [export EXCEPT !.members = WithNext(@)]
    /\ UNCHANGED <<clock, status, said, documents, run, page, changes>>

\* Component.Roll, when any member that is down makes the component down.
Roll(rows) ==
    LET reported == {rows[c] : c \in Check}
    IN  IF "down" \in reported         THEN "down"
        ELSE IF "unknown" \in reported THEN "unknown"
        ELSE IF "warning" \in reported THEN "warning" ELSE "up"

\* SignedExport; an answer that takes longer than the client waits is lost.
EndExport ==
    /\ export.at = "components" /\ Len(export.members) = Checks
    /\ export' = Idle
    /\ \/ clock - export.asked > FetchTimeout /\ UNCHANGED documents
       \/ /\ clock - export.asked <= FetchTimeout
          /\ \E kept \in SUBSET documents :
                 /\ documents' = kept \cup {[generated |-> export.generated, checks |-> export.checks,
                                            component |-> Roll(export.members)]}
                 /\ Cardinality(documents') <= Copies
    /\ UNCHANGED <<clock, status, said, run, page, changes>>

StartRun ==
    /\ run = Idle /\ run' = [at |-> "started", now |-> clock]
    /\ UNCHANGED <<clock, status, said, export, documents, page, changes>>

Overall(stale, shown) ==
    IF stale                      THEN "stale"
    ELSE IF "down" \in shown      THEN "outage"
    ELSE IF "warning" \in shown   THEN "degraded"
    ELSE IF "unknown" \in shown   THEN "uncheckable" ELSE "operational"

\* Mutant: the page carries the time of its rendering.
BuildRendered(doc, now) ==
    LET stale    == now - doc.generated > MaxAge
        shown(s) == IF stale THEN "unknown" ELSE s
        rows     == [c \in Check |-> shown(doc.checks[c])]
    IN  [generated |-> now, stale |-> stale, rows |-> rows, component |-> shown(doc.component),
         overall |-> Overall(stale, {rows[c] : c \in Check} \cup {shown(doc.component)})]

\* build
Build(doc, now) ==
    LET stale    == now - doc.generated > MaxAge
        shown(s) == IF stale THEN "unknown" ELSE s
        rows     == [c \in Check |-> shown(doc.checks[c])]
    IN  [generated |-> doc.generated, stale |-> stale, rows |-> rows,
         component |-> shown(doc.component),
         overall |-> Overall(stale, {rows[c] : c \in Check} \cup {shown(doc.component)})]

\* fetch and verify: any document that was signed passes.
Fetch(doc) ==
    /\ run.at = "started"
    /\ run' = [at |-> "built", page |-> Build(doc, run.now)]
    /\ UNCHANGED <<clock, status, said, export, documents, page, changes>>

\* writeAtomic
WritePage ==
    /\ run.at = "built" /\ page' = run.page /\ run' = Idle
    /\ UNCHANGED <<clock, status, said, export, documents, changes>>

\* A fetch, a signature or a write fails: the page of before stays.
RunFails ==
    /\ run # Idle /\ run' = Idle
    /\ UNCHANGED <<clock, status, said, export, documents, page, changes>>

Next ==
    \/ \E c \in Check, s \in Reported : Report(c, s)
    \/ Tick \/ BeginExport \/ ReadCheck \/ StampExport \/ ReadMember \/ EndExport
    \/ StartRun \/ WritePage \/ RunFails
    \/ \E doc \in documents : Fetch(doc)

Spec == Init /\ [][Next]_vars
-----------------------------------------------------------------------------
\* What the script of the page does on each view.
Flagged == page.stale \/ clock - page.generated > MaxAge

\* c was reported as s not longer ago than the page and the fetch may be old.
Lately(c, s) ==
    \/ status[c] = s
    \/ said[c][s] >= 0 /\ clock - said[c][s] <= MaxAge + FetchTimeout

\* However old the copy that a run was served, however long a run and an
\* export took, and whichever runs failed since: a page that does not say that
\* it is out of date shows what the coordinator reported within max_age and
\* the time of a fetch, and all is well only if every check was up within it
\* (docs/status-page.md, "the reader-side staleness warning takes over").
PageIsCurrent ==
    page # NoPage /\ ~Flagged =>
        /\ \A c \in Check : page.rows[c] # "unknown" => Lately(c, page.rows[c])
        /\ page.component = "down" => \E c \in Check : Lately(c, "down")
        /\ page.component = "up" \/ page.overall = "operational" =>
               \A c \in Check : Lately(c, "up")
=============================================================================
