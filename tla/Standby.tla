------------------------------ MODULE Standby ------------------------------
(***************************************************************************)
(* A primary coordinator, its warm standby and the operator who promotes   *)
(* it: ha.go, the parts of persist.go and history.go that replication      *)
(* uses, and the guarded command of internal/haops and cmd/parallaxd-ha.   *)
(*                                                                         *)
(* What a coordinator has decided is a set of items; an item also waits in *)
(* the outbox until its destination has it.  Observations carry the time   *)
(* they were received, taken before the history's mutex.                   *)
(***************************************************************************)
EXTENDS Naturals, FiniteSets, FiniteSetsExt

CONSTANTS
    Item,         \* what the primary may decide
    Own,          \* what the promoted standby may decide
    Obs,          \* observations of the primary
    MaxTime,      \* bound: times of receipt
    GuardedOnly,  \* the operator promotes with parallaxd-ha alone
    Faults        \* bound: failed writes and crashes

ASSUME StandbyAssumption ==
    /\ IsFiniteSet(Item) /\ IsFiniteSet(Own) /\ Item \cap Own = {}
    /\ GuardedOnly \in BOOLEAN /\ MaxTime \in Nat /\ Faults \in Nat

VARIABLES
    primary,    \* [known, outbox] of the primary
    taken,      \* its observations with a time, not yet in its history
    pHistory,   \* its history
    clock,      \* its clock
    fenced,     \* the old primary is stopped for good
    up,         \* the standby's process runs
    mem,        \* [known, outbox] of the standby
    history,    \* its history in memory
    promoted,   \* c.promoted
    closed,     \* promoteCh is closed
    loop,       \* Run: "first" sync, "replica", "active"
    phase,      \* syncReplica
    cursor,     \* history_since of the request under way
    doc,        \* the replica document under way, and what history there was
    haMu,       \* who holds it: "none", "apply", "promote"
    lastErr,    \* lastReplicaErr is set
    syncedOnce, \* lastReplicaSync is set
    file,       \* the state file
    journal,    \* the history file
    cleared,    \* parallaxd-ha: its preflight has passed
    faults,
    promise,    \* history: a promotion has been answered with success
    point,      \* history: what the primary knew at the last sync, its history
    late,       \* history: observations appended behind later ones
    delivered   \* history: what some destination has been told

pvars == <<primary, taken, pHistory, clock, late>>
state == <<mem, promoted, file>>
sync == <<phase, cursor, doc>>
vars == <<pvars, state, sync, fenced, up, history, closed, loop, haMu, lastErr,
          syncedOnce, journal, cleared, faults, promise, point, delivered>>

State == [known : SUBSET (Item \cup Own), outbox : SUBSET (Item \cup Own)]
Observation == [id : Obs, at : 1 .. MaxTime]
Empty == [known |-> {}, outbox |-> {}]
NoDoc == [state |-> Empty, history |-> {}, had |-> {}]

TypeOK ==
    /\ primary \in State /\ mem \in State
    /\ taken \subseteq Observation /\ pHistory \subseteq Observation
    /\ clock \in 1 .. MaxTime /\ late \subseteq Observation
    /\ history \subseteq Observation /\ journal \subseteq Observation
    /\ {fenced, up, promoted, closed, lastErr, syncedOnce, cleared, promise} \subseteq BOOLEAN
    /\ loop \in {"first", "replica", "active"}
    /\ phase \in {"rest", "asked", "answered", "got", "replaced", "appended"}
    /\ cursor \in 0 .. MaxTime
    /\ doc \in [state : State, history : SUBSET Observation, had : SUBSET Observation]
    /\ haMu \in {"none", "apply", "promote"}
    /\ file \in [known : SUBSET (Item \cup Own), outbox : SUBSET (Item \cup Own), promoted : BOOLEAN]
    /\ faults \in 0 .. Faults
    /\ point \in [known : SUBSET Item, history : SUBSET Observation]
    /\ delivered \subseteq Item \cup Own

Init ==
    /\ primary = Empty /\ taken = {} /\ pHistory = {} /\ clock = 1 /\ late = {}
    /\ mem = Empty /\ history = {} /\ journal = {} /\ promoted = FALSE
    /\ file = [known |-> {}, outbox |-> {}, promoted |-> FALSE]
    /\ fenced = FALSE /\ up = TRUE /\ closed = FALSE /\ loop = "first"
    /\ phase = "rest" /\ cursor = 0 /\ doc = NoDoc /\ haMu = "none"
    /\ lastErr = FALSE /\ syncedOnce = FALSE /\ cleared = FALSE /\ faults = 0
    /\ promise = FALSE /\ point = [known |-> {}, history |-> {}] /\ delivered = {}

isStandby == ~promoted

\* persistState: the whole of the memory, with the flag, or nothing.
persistState == file' = [known |-> mem'.known, outbox |-> mem'.outbox, promoted |-> promoted']
WriteFails == faults < Faults /\ faults' = faults + 1 /\ UNCHANGED file
Fault == faults < Faults /\ faults' = faults + 1
-----------------------------------------------------------------------------
(* The primary, until it is fenced.                                        *)

Decide(i) ==
    /\ ~fenced /\ i \notin primary.known
    /\ primary' = [known |-> primary.known \cup {i}, outbox |-> primary.outbox \cup {i}]
    /\ UNCHANGED <<taken, pHistory, clock, late, state, sync, fenced, up, history, closed,
                   loop, haMu, lastErr, syncedOnce, journal, cleared, faults, promise, point, delivered>>

PrimaryDelivers(i) ==
    /\ ~fenced /\ i \in primary.outbox
    /\ primary' = [primary EXCEPT !.outbox = @ \ {i}]
    /\ delivered' = delivered \cup {i}
    /\ UNCHANGED <<taken, pHistory, clock, late, state, sync, fenced, up, history, closed,
                   loop, haMu, lastErr, syncedOnce, journal, cleared, faults, promise, point>>

\* recordObservation gives the observation its time, and then waits for the
\* history's mutex: others may get there first.
Receive(o, t) ==
    /\ ~fenced /\ o \notin {h.id : h \in taken \cup pHistory} /\ t \in clock .. MaxTime
    /\ clock' = t /\ taken' = taken \cup {[id |-> o, at |-> t]}
    /\ UNCHANGED <<primary, pHistory, late, state, sync, fenced, up, history, closed,
                   loop, haMu, lastErr, syncedOnce, journal, cleared, faults, promise, point, delivered>>

AppendObservation(h) ==
    /\ ~fenced /\ h \in taken
    /\ taken' = taken \ {h} /\ pHistory' = pHistory \cup {h}
    /\ late' = IF \E k \in pHistory : k.at > h.at THEN late \cup {h} ELSE late
    /\ UNCHANGED <<primary, clock, state, sync, fenced, up, history, closed, loop, haMu,
                   lastErr, syncedOnce, journal, cleared, faults, promise, point, delivered>>

Fence ==
    /\ ~fenced /\ fenced' = TRUE
    /\ UNCHANGED <<pvars, state, sync, up, history, closed, loop, haMu, lastErr,
                   syncedOnce, journal, cleared, faults, promise, point, delivered>>
-----------------------------------------------------------------------------
(* Replication: one round of syncReplica at a time, in runStandby's loop.  *)

latestHistoryTime == IF history = {} THEN 0 ELSE Max({h.at : h \in history})

Ask ==
    /\ up /\ loop # "active" /\ phase = "rest" /\ ~closed
    /\ phase' = "asked" /\ cursor' = latestHistoryTime
    /\ UNCHANGED <<pvars, state, doc, fenced, up, history, closed, loop, haMu, lastErr,
                   syncedOnce, journal, cleared, faults, promise, point, delivered>>

\* handleReplica reads the state and then the history.
AnswerState ==
    /\ up /\ phase = "asked" /\ ~fenced
    /\ doc' = [NoDoc EXCEPT !.state = primary] /\ phase' = "answered"
    /\ UNCHANGED <<pvars, state, cursor, fenced, up, history, closed, loop, haMu, lastErr,
                   syncedOnce, journal, cleared, faults, promise, point, delivered>>

\* Mutant: what was received after the cursor.
HistoryAfter(t) == {h \in pHistory : h.at > t}

\* History: what was received at the cursor or later.
HistorySince(t) == {h \in pHistory : h.at >= t}

AnswerHistory ==
    /\ up /\ phase = "answered" /\ ~fenced
    /\ doc' = [doc EXCEPT !.history = HistorySince(cursor), !.had = pHistory] /\ phase' = "got"
    /\ UNCHANGED <<pvars, state, cursor, fenced, up, history, closed, loop, haMu, lastErr,
                   syncedOnce, journal, cleared, faults, promise, point, delivered>>

\* The end of a round.  A promoted standby ignores that its request was
\* cancelled.
RoundOver == phase' = "rest" /\ cursor' = 0 /\ doc' = NoDoc
NextLoop == IF loop = "first" THEN IF promoted THEN "active" ELSE "replica"
            ELSE IF closed THEN "active" ELSE loop

NoAnswer ==
    /\ up /\ phase \in {"asked", "answered"}
    /\ RoundOver /\ loop' = NextLoop
    /\ lastErr' = (lastErr \/ ~closed)
    /\ UNCHANGED <<pvars, state, fenced, up, history, closed, haMu, syncedOnce, journal,
                   cleared, faults, promise, point, delivered>>

\* applyReplica, under haMu: the state is replaced but for the promotion,
\* whoever has been promoted since the document was read; then the
\* observations not seen before go to the file and to memory; then the state
\* is saved.
ApplyState ==
    /\ up /\ phase = "got" /\ haMu = "none"
    /\ haMu' = "apply" /\ phase' = "replaced" /\ mem' = doc.state
    /\ UNCHANGED <<pvars, promoted, file, cursor, doc, fenced, up, history, closed, loop,
                   lastErr, syncedOnce, journal, cleared, faults, promise, point, delivered>>

ApplyHistory ==
    /\ up /\ phase = "replaced"
    /\ phase' = "appended"
    /\ journal' = journal \cup doc.history /\ history' = history \cup doc.history
    /\ UNCHANGED <<pvars, state, cursor, doc, fenced, up, closed, loop, haMu, lastErr,
                   syncedOnce, cleared, faults, promise, point, delivered>>

\* Part of the observations reach the file, the oldest first, and none memory.
AppendFails ==
    /\ up /\ phase = "replaced" /\ Fault
    /\ \E t \in 0 .. MaxTime : journal' = journal \cup {h \in doc.history : h.at <= t}
    /\ haMu' = "none" /\ lastErr' = TRUE /\ RoundOver /\ loop' = NextLoop
    /\ UNCHANGED <<pvars, state, fenced, up, history, closed, syncedOnce, cleared,
                   promise, point, delivered>>

SaveReplica ==
    /\ up /\ phase = "appended"
    /\ UNCHANGED <<mem, promoted>> /\ persistState
    /\ lastErr' = FALSE /\ syncedOnce' = TRUE /\ haMu' = "none"
    /\ RoundOver /\ loop' = NextLoop
    /\ point' = [known |-> doc.state.known,
                 history |-> point.history \cup (doc.had \ late)]
    /\ UNCHANGED <<pvars, fenced, up, history, closed, journal, cleared, faults, promise, delivered>>

\* Mutant: the failed write is logged, and the round counted as a success.
SaveFailsLogged ==
    /\ up /\ phase = "appended" /\ WriteFails
    /\ lastErr' = FALSE /\ syncedOnce' = TRUE /\ haMu' = "none"
    /\ RoundOver /\ loop' = NextLoop
    /\ point' = [known |-> doc.state.known, history |-> point.history \cup (doc.had \ late)]
    /\ UNCHANGED <<pvars, mem, promoted, fenced, up, history, closed, journal, cleared,
                   promise, delivered>>

SaveFails ==
    /\ up /\ phase = "appended" /\ WriteFails
    /\ lastErr' = TRUE /\ haMu' = "none" /\ RoundOver /\ loop' = NextLoop
    /\ UNCHANGED <<pvars, mem, promoted, fenced, up, history, closed, syncedOnce, journal,
                   cleared, promise, point, delivered>>

\* runStandby between two rounds.
Leave ==
    /\ up /\ loop = "replica" /\ phase = "rest" /\ closed
    /\ loop' = "active"
    /\ UNCHANGED <<pvars, state, sync, fenced, up, history, closed, haMu, lastErr,
                   syncedOnce, journal, cleared, faults, promise, point, delivered>>
-----------------------------------------------------------------------------
(* The operator.  Confirming that the primary is fenced, he tells the      *)
(* truth.                                                                  *)

Preflight ==
    /\ up /\ ~cleared /\ isStandby /\ loop # "active"
    /\ ~lastErr /\ syncedOnce /\ mem.outbox = {}
    /\ cleared' = TRUE
    /\ UNCHANGED <<pvars, state, sync, fenced, up, history, closed, loop, haMu, lastErr,
                   syncedOnce, journal, faults, promise, point, delivered>>

\* Mutant: the confirmation is not looked at.
ConfirmedAnyway(confirm) == TRUE

\* promote: refused without the confirmation.  From the swap to the end of the
\* write the standby takes itself for promoted.
Confirmed(confirm) == confirm

PromoteSwaps(confirm) ==
    /\ up /\ haMu = "none" /\ isStandby /\ Confirmed(confirm)
    /\ GuardedOnly => cleared
    /\ promoted' = TRUE /\ haMu' = "promote"
    /\ UNCHANGED <<pvars, mem, file, sync, fenced, up, history, closed, loop, lastErr,
                   syncedOnce, journal, cleared, faults, promise, point, delivered>>

\* Mutant: the promotion is answered before it is on disk.
PromoteUnsaved ==
    /\ up /\ haMu = "promote"
    /\ closed' = TRUE /\ haMu' = "none" /\ promise' = TRUE
    /\ UNCHANGED <<pvars, state, sync, fenced, up, history, loop, lastErr, syncedOnce,
                   journal, cleared, faults, point, delivered>>

PromoteSaved ==
    /\ up /\ haMu = "promote"
    /\ UNCHANGED <<mem, promoted>> /\ persistState
    /\ closed' = TRUE /\ haMu' = "none" /\ promise' = TRUE
    /\ UNCHANGED <<pvars, sync, fenced, up, history, loop, lastErr, syncedOnce, journal,
                   cleared, faults, point, delivered>>

PromoteFails ==
    /\ up /\ haMu = "promote" /\ WriteFails
    /\ promoted' = FALSE /\ haMu' = "none"
    /\ UNCHANGED <<pvars, mem, sync, fenced, up, history, closed, loop, lastErr,
                   syncedOnce, journal, cleared, promise, point, delivered>>
-----------------------------------------------------------------------------
(* The promoted standby at work, and its restarts.                         *)

\* A handler that standbyBlocks no longer holds back, and its persist.
Work(i, saved) ==
    /\ up /\ ~isStandby /\ i \notin mem.known
    /\ mem' = [known |-> mem.known \cup {i}, outbox |-> mem.outbox \cup {i}]
    /\ UNCHANGED promoted
    /\ IF saved THEN persistState /\ UNCHANGED faults ELSE WriteFails
    /\ UNCHANGED <<pvars, sync, fenced, up, history, closed, loop, haMu, lastErr,
                   syncedOnce, journal, cleared, promise, point, delivered>>

StandbyDelivers(i) ==
    /\ up /\ loop = "active" /\ i \in mem.outbox
    /\ mem' = [mem EXCEPT !.outbox = @ \ {i}] /\ delivered' = delivered \cup {i}
    /\ UNCHANGED promoted /\ persistState
    /\ UNCHANGED <<pvars, sync, fenced, up, history, closed, loop, haMu, lastErr,
                   syncedOnce, journal, cleared, faults, promise, point>>

Crash ==
    /\ up /\ Fault /\ up' = FALSE
    /\ mem' = Empty /\ history' = {} /\ promoted' = FALSE /\ closed' = FALSE
    /\ loop' = "first" /\ RoundOver /\ haMu' = "none" /\ lastErr' = FALSE
    /\ syncedOnce' = FALSE /\ cleared' = FALSE
    /\ UNCHANGED <<pvars, file, fenced, journal, promise, point, delivered>>

\* Mutant: Run takes a coordinator that has state for an active one.
LoopAfterAny == IF file.known # {} THEN "active" ELSE "first"

\* Run: a standby that was promoted goes straight to work.
LoopAfter == IF file.promoted THEN "active" ELSE "first"

\* restore and loadHistory.
Restart ==
    /\ ~up /\ up' = TRUE
    /\ mem' = [known |-> file.known, outbox |-> file.outbox]
    /\ promoted' = file.promoted /\ history' = journal
    /\ loop' = LoopAfter
    /\ UNCHANGED <<pvars, file, sync, fenced, closed, haMu, lastErr, syncedOnce, journal,
                   cleared, faults, promise, point, delivered>>

Replicate == Ask \/ AnswerState \/ AnswerHistory \/ NoAnswer \/ ApplyState \/ ApplyHistory
             \/ AppendFails \/ SaveReplica \/ SaveFails \/ Leave
Promote(confirm) == PromoteSwaps(confirm) \/ PromoteSaved \/ PromoteFails

Next ==
    \/ \E i \in Item : Decide(i) \/ PrimaryDelivers(i)
    \/ \E o \in Obs, t \in 1 .. MaxTime : Receive(o, t)
    \/ \E h \in taken : AppendObservation(h)
    \/ Fence \/ Replicate \/ Preflight
    \/ \E confirm \in {FALSE, fenced} : Promote(confirm)
    \/ \E i \in Own, saved \in BOOLEAN : Work(i, saved)
    \/ \E i \in mem.outbox : StandbyDelivers(i)
    \/ Crash \/ Restart

Spec == Init /\ [][Next]_vars
\* Go runs the loop, and the operator who has fenced the primary follows the
\* drill with the guarded command until it succeeds.
Fairness ==
    /\ WF_vars(Replicate) /\ WF_vars(Restart)
    /\ WF_vars(fenced /\ Preflight)
    /\ WF_vars(fenced /\ Promote(TRUE))
FairSpec == Spec /\ Fairness
-----------------------------------------------------------------------------
\* Two coordinators never act at once: until the primary is fenced, the
\* standby takes no requests, runs no deliveries and sends no heartbeat
\* (promote, standbyBlocks, runStandby).
OneWriter == ~isStandby \/ loop = "active" => fenced

\* The pair implements Handover: whatever fails in between, the standby takes
\* over after the primary was fenced, and the primary never comes back.
Acting ==
    (IF fenced THEN {} ELSE {"primary"})
        \cup (IF ~isStandby \/ loop = "active" THEN {"standby"} ELSE {})
Hand == INSTANCE Handover WITH acting <- Acting
HandsOver == Hand!Spec

\* A promotion that was answered with success is not taken back: not by a
\* document read before it, nor by a crash at any point (promote persists
\* before it answers; applyPersistedState leaves the flag alone).
PromotionHolds == promise => IF up THEN promoted ELSE file.promoted

\* The recovery point is real: what the last successful round brought is known
\* to the standby, on disk too, and each of its alerts is still to be
\* delivered or has been (applyReplica reports success only after the write).
RecoveryPointKept ==
    /\ point.known \subseteq file.known
    /\ up => point.known \subseteq mem.known
    /\ \A i \in point.known : i \in delivered \cup primary.outbox \cup file.outbox

\* No observation that the primary had when a round read its history is
\* missing afterwards, whatever failed in between, unless it was appended
\* behind a later one (latestHistoryTime, History, applyReplica).
HistoryReplicated ==
    /\ point.history \subseteq journal
    /\ up => point.history \subseteq history

\* docs/ha-drill.md: once the primary is fenced, the guarded command promotes
\* the standby.
FencedIsPromotable == (fenced /\ syncedOnce) ~> promoted
=============================================================================
