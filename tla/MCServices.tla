----------------------------- MODULE MCServices -----------------------------
(***************************************************************************)
(* The machines of the coordinator and its neighbours that share no state  *)
(* with one another (two of one kind where one would not show everything). *)
(* One machine moves in each behaviour, the others keep still: the states  *)
(* of this module are the sum of theirs.  Machines that Services_proofs    *)
(* says something about have constants, which the run gives small values;  *)
(* the others are small here.  An instance is of a module of proofs where  *)
(* Services_proofs cites its lemmas.                                       *)
(***************************************************************************)
EXTENDS Standby, Integers, Sequences

CONSTANTS
    Every, Timeout, Grace, LookEvery, Skew, Offsets, InFlight,     \* the dead-man's switch
    Name, Definition, Required, MaxRevisions, MaxId, MaxCrashes,   \* the monitors
    User, Token, MaxSessions, AccessFaults,                        \* access, of Accounts
    User2, Token2, MaxSessions2, AccessFaults2,                    \* access, of Tokens
    Call,                                                          \* access, of both
    Editor, MaxNotices, MaxUpdates, NoticeRetention, MaxNoticeId,  \* the notices
    MaxExported, MaxExportedUpdates, ExportWindow, TextBudget,
    WindowName, Configured, Period, MaxReportTime,                 \* maintenance
    MaxOutages, MaxPuts,
    Member, Goroutine,                                             \* the mutexes
    Peer, Automated, Home, MaxKeys,                                \* the network, ByHand
    Peer2, Automated2, Home2, MaxKeys2,                            \* the network, Automatic
    Address, MaxFaults,                                            \* the network, of both
    Probed, Version, Asked, Handler, Slots, RequestSkew,           \* the prober
    DocumentLife, RequestLife, Loop, MaxRequestTime, MaxRestarts,
    HistoryRetention, MaxPerCheck, CompactEvery,                   \* the observations
    MaxHistoryTime, MaxObs, HistoryFaults,
    Checks, Reported, Copies, MaxAge, FetchTimeout, MaxPageTime, MaxChanges  \* the status page

VARIABLE machine    \* the one that moves

(* Primary and standby (Standby) have the names of their module.           *)
pairVars == <<primary, taken, pHistory, clock, fenced, up, mem, history, promoted, closed,
    loop, phase, cursor, doc, haMu, lastErr, syncedOnce, file, journal, cleared, faults,
    promise, point, late, delivered>>

(* The dead-man's switch.                                                  *)
VARIABLES
    mode, offset, sinceBeat, asking, answer, failures, unwatched, beats, lastAt, silence,
    alive, sinceLook, mute, calm
switchVars == <<mode, offset, sinceBeat, asking, answer, failures, unwatched, beats, lastAt,
    silence, alive, sinceLook, mute, calm>>
Switch == INSTANCE DeadMansSwitch

(* The monitors.                                                           *)
VARIABLES monitors, revisions, nextRevision, change, stored, crashes, answered, torn
catalogueVars == <<monitors, revisions, nextRevision, change, stored, crashes, answered, torn>>
Monitors == INSTANCE Catalogue

(* Two users and their sessions, or one user and a token.                  *)
VARIABLES users, apiTokens, sessions, calls, accessFile, accessFaults, revocations, raced
accessVars == <<users, apiTokens, sessions, calls, accessFile, accessFaults, revocations, raced>>
Accounts == INSTANCE Access_proofs WITH Faults <- AccessFaults
Tokens == INSTANCE Access_proofs WITH
    User <- User2, Token <- Token2, MaxSessions <- MaxSessions2, Faults <- AccessFaults2
NobodyLogsIn ==
    /\ users = <<>> /\ apiTokens = <<>> /\ sessions = <<>> /\ calls = <<>> /\ accessFile = <<>>
    /\ accessFaults = 0 /\ revocations = {} /\ raced = FALSE

(* The notices of the status page.                                         *)
VARIABLES notices, nextNoticeID, edits, posted, deleted, outdated
noticesVars == <<notices, nextNoticeID, edits, posted, deleted, outdated>>
Page == INSTANCE Notices WITH Retention <- NoticeRetention

(* Outages and windows that recur.                                         *)
VARIABLES now, configured, managed, incidents, windows
uptimeVars == <<now, configured, managed, incidents, windows>>
Report == INSTANCE Uptime WITH
    Name <- WindowName, MaxTime <- MaxReportTime, MaxIncidents <- MaxOutages,
    MaxEdits <- MaxPuts, edits <- windows
NothingToReport ==
    now = 0 /\ configured = <<>> /\ managed = <<>> /\ incidents = <<>> /\ windows = 0

(* Four votes from two providers and three exits.                          *)
VARIABLES provider, proxied, egress, distinct, selected, lefts
votesVars == <<provider, proxied, egress, distinct, selected, lefts>>
Votes == INSTANCE Matching WITH
    Voters <- 4, Providers <- 2, Egress <- {"x", "y", "z"}, NoEgress <- "none"
NoVotes ==
    /\ provider = <<>> /\ proxied = FALSE /\ egress = <<>> /\ distinct = FALSE
    /\ selected = <<>> /\ lefts = <<>>

(* Two results and one of the others.                                      *)
VARIABLES program, holder
mutexVars == <<program, holder>>
Waiting == INSTANCE Mutexes
TwoResultsAndOthers == [v |-> "result", w |-> "result", o |-> "others"]

(* The network: two peers set up by hand, or one by automation.            *)
VARIABLES keys, keyFile, netState, told, requests, config, interface, enabled, install, broken
networkVars == <<keys, keyFile, netState, told, requests, config, interface, enabled, install, broken>>
ByHand == INSTANCE Network_proofs WITH file <- config, state <- netState
Automatic == INSTANCE Network_proofs WITH
    Peer <- Peer2, Automated <- Automated2, Home <- Home2, MaxKeys <- MaxKeys2,
    file <- config, state <- netState
NoHomes == [n \in {"p", "q", "hub"} |-> "a"]
TwoHomes == [p |-> "b", hub |-> "a"]

(* A prober without schedules (MCAgents has them) that serves requests     *)
(* which arrive again and again.                                           *)
VARIABLES time, reply, running, loops, issued, serving, seenRequests, restarts, known, served
proberVars == <<time, reply, running, loops, issued, serving, seenRequests, restarts, known, served>>
Prober == INSTANCE ProberAgent_proofs WITH
    Check <- Probed, Request <- Asked, Skew <- RequestSkew, MaxTime <- MaxRequestTime,
    now <- time

(* The observations of one check.                                          *)
VARIABLES
    historyClock, received, waiting, memory, lines, tornLine, appends, compacting, historyFaults,
    noted, sure
historyVars == <<historyClock, received, waiting, memory, lines, tornLine, appends, compacting,
    historyFaults, noted, sure>>
Observed == INSTANCE History WITH
    Retention <- HistoryRetention, MaxTime <- MaxHistoryTime, Faults <- HistoryFaults,
    clock <- historyClock, journal <- lines, torn <- tornLine, failures <- historyFaults

(* The status page, of two checks and a component over them.               *)
VARIABLES pageClock, shown, said, export, documents, run, page, changes
pageVars == <<pageClock, shown, said, export, documents, run, page, changes>>
Public == INSTANCE StatusPage WITH
    MaxTime <- MaxPageTime, clock <- pageClock, status <- shown

ASSUME Assumptions ==
    /\ Switch!SwitchAssumption /\ Switch!E!SkewAssumption
    /\ Monitors!CatalogueAssumption /\ Accounts!AccessAssumption /\ Tokens!AccessAssumption
    /\ Page!NoticesAssumption /\ Report!UptimeAssumption /\ Votes!MatchingAssumption
    /\ Waiting!MutexesAssumption /\ ByHand!NetworkAssumption /\ Automatic!NetworkAssumption
    /\ Prober!AgentAssumption /\ Observed!HistoryAssumption /\ Public!PageAssumption
-----------------------------------------------------------------------------
ServicesInit ==
    /\ machine \in {"pair", "switch", "catalogue", "accounts", "tokens", "notices", "uptime",
                    "votes", "mutexes", "by hand", "automatic", "prober", "history", "page"}
    /\ Init /\ Switch!Init /\ Monitors!Init /\ Page!Init /\ Waiting!Init /\ Prober!Init
    /\ Observed!Init /\ Public!Init
    /\ machine # "switch" => offset = 0
    /\ CASE machine = "accounts" -> Accounts!Init
         [] machine = "tokens"   -> Tokens!Init
         [] OTHER                -> NobodyLogsIn
    /\ IF machine = "uptime" THEN Report!Init ELSE NothingToReport
    /\ IF machine = "votes" THEN Votes!Init ELSE NoVotes
    /\ IF machine = "by hand" THEN ByHand!Init ELSE Automatic!Init

servicesVars == <<machine, pairVars, switchVars, catalogueVars, accessVars, noticesVars, uptimeVars,
          votesVars, mutexVars, networkVars, proberVars, historyVars, pageVars>>

ServicesNext ==
    /\ UNCHANGED machine
    /\ \/ machine = "pair" /\ Next
          /\ UNCHANGED <<switchVars, catalogueVars, accessVars, noticesVars, uptimeVars, votesVars,
                         mutexVars, networkVars, proberVars, historyVars, pageVars>>
       \/ machine = "switch" /\ Switch!Next
          /\ UNCHANGED <<pairVars, catalogueVars, accessVars, noticesVars, uptimeVars, votesVars,
                         mutexVars, networkVars, proberVars, historyVars, pageVars>>
       \/ machine = "catalogue" /\ Monitors!Next
          /\ UNCHANGED <<pairVars, switchVars, accessVars, noticesVars, uptimeVars, votesVars, mutexVars,
                         networkVars, proberVars, historyVars, pageVars>>
       \/ machine = "accounts" /\ Accounts!Next
          /\ UNCHANGED <<pairVars, switchVars, catalogueVars, noticesVars, uptimeVars, votesVars,
                         mutexVars, networkVars, proberVars, historyVars, pageVars>>
       \/ machine = "tokens" /\ Tokens!Next
          /\ UNCHANGED <<pairVars, switchVars, catalogueVars, noticesVars, uptimeVars, votesVars,
                         mutexVars, networkVars, proberVars, historyVars, pageVars>>
       \/ machine = "notices" /\ Page!Next
          /\ UNCHANGED <<pairVars, switchVars, catalogueVars, accessVars, uptimeVars, votesVars, mutexVars,
                         networkVars, proberVars, historyVars, pageVars>>
       \/ machine = "uptime" /\ Report!Next
          /\ UNCHANGED <<pairVars, switchVars, catalogueVars, accessVars, noticesVars, votesVars,
                         mutexVars, networkVars, proberVars, historyVars, pageVars>>
       \/ machine = "votes" /\ Votes!Next
          /\ UNCHANGED <<pairVars, switchVars, catalogueVars, accessVars, noticesVars, uptimeVars,
                         mutexVars, networkVars, proberVars, historyVars, pageVars>>
       \/ machine = "mutexes" /\ Waiting!Next
          /\ UNCHANGED <<pairVars, switchVars, catalogueVars, accessVars, noticesVars, uptimeVars,
                         votesVars, networkVars, proberVars, historyVars, pageVars>>
       \/ machine = "by hand" /\ ByHand!Next
          /\ UNCHANGED <<pairVars, switchVars, catalogueVars, accessVars, noticesVars, uptimeVars,
                         votesVars, mutexVars, proberVars, historyVars, pageVars>>
       \/ machine = "automatic" /\ Automatic!Next
          /\ UNCHANGED <<pairVars, switchVars, catalogueVars, accessVars, noticesVars, uptimeVars,
                         votesVars, mutexVars, proberVars, historyVars, pageVars>>
       \/ machine = "prober" /\ Prober!Next
          /\ UNCHANGED <<pairVars, switchVars, catalogueVars, accessVars, noticesVars, uptimeVars,
                         votesVars, mutexVars, networkVars, historyVars, pageVars>>
       \/ machine = "history" /\ Observed!Next
          /\ UNCHANGED <<pairVars, switchVars, catalogueVars, accessVars, noticesVars, uptimeVars,
                         votesVars, mutexVars, networkVars, proberVars, pageVars>>
       \/ machine = "page" /\ Public!Next
          /\ UNCHANGED <<pairVars, switchVars, catalogueVars, accessVars, noticesVars, uptimeVars,
                         votesVars, mutexVars, networkVars, proberVars, historyVars>>

ServicesSpec == ServicesInit /\ [][ServicesNext]_servicesVars
-----------------------------------------------------------------------------
(* Each property is that of a machine's module, said of the behaviours in    *)
(* which that machine moves; the modules say more about each.              *)

\* Every machine keeps to its types.
TypesOK ==
    CASE machine = "pair"      -> TypeOK
      [] machine = "switch"    -> Switch!TypeOK
      [] machine = "catalogue" -> Monitors!TypeOK
      [] machine = "accounts"  -> Accounts!TypeOK
      [] machine = "tokens"    -> Tokens!TypeOK
      [] machine = "notices"   -> Page!TypeOK
      [] machine = "uptime"    -> Report!TypeOK
      [] machine = "votes"     -> Votes!TypeOK
      [] machine = "mutexes"   -> Waiting!TypeOK
      [] machine = "by hand"   -> ByHand!TypeOK
      [] machine = "automatic" -> Automatic!TypeOK
      [] machine = "prober"    -> Prober!TypeOK
      [] machine = "history"   -> Observed!TypeOK
      [] machine = "page"      -> Public!TypeOK

\* Of the pair the run checks Standby's own HandsOver, PromotionHolds,
\* RecoveryPointKept and HistoryReplicated.

\* A coordinator that stops is noticed in bounded time (DeadMansSwitch).
DeathIsNoticed == machine = "switch" => Switch!DeathIsNoticed

\* In calm the watcher does not call it dead (DeadMansSwitch).
CalmIsAlive == machine = "switch" => Switch!CalmIsAlive

\* A change of monitors that was answered is not lost, and one that failed is
\* undone whole (Catalogue: mutateMonitors).
AnsweredIsKept == machine = "catalogue" => Monitors!AnsweredIsKept

\* An enabled administrator remains, unless a stale copy came back (Access).
AnAdminRemains == machine = "accounts" => Accounts!AnAdminRemains

\* At rest the state file holds what handlers answered, and a revoked token
\* stays revoked through restarts (Access: persistState).
AnsweredIsStored ==
    /\ machine = "accounts" => Accounts!AnsweredIsStored
    /\ machine = "tokens" => Tokens!AnsweredIsStored

\* Edits that overlap lose no update of a notice, nor the time it was closed
\* (Notices: EditNotice).
TimelineKept == machine = "notices" => Page!TimelineKept

\* Notices go by deletion or retention alone (Notices).
NoticesStay == machine = "notices" => Page!NoticesStay

\* The limits of the export leave out the oldest (Notices: exportNotices).
ExportHoldsTheNewest == machine = "notices" => Page!ExportHoldsTheNewest

\* An unflagged page shows what was lately reported (StatusPage: build).
PageIsCurrent == machine = "page" => Public!PageIsCurrent

\* Memory and journal keep the newest observations (History).
NewestKept == machine = "history" => Observed!NewestKept

\* Each moment of an outage counts once, or not in maintenance (Uptime).
CountedOnce == machine = "uptime" => Report!CountedOnce

\* The matching finds the largest independent set (Matching).
CountsTheLargest == machine = "votes" => Votes!CountsTheLargest

\* No goroutines wait for one another in a circle (Mutexes).
NoCircle == machine = "mutexes" => Waiting!NoCircle

\* A key that was given out is not replaced (Network: reconcile).
KeysStay ==
    /\ machine = "by hand" => ByHand!KeysStay
    /\ machine = "automatic" => Automatic!KeysStay

\* Without a restart a probe request is served once (ProberAgent: acceptRequest).
RunOnce == machine = "prober" => Prober!RunOnce
=============================================================================
