--------------------------- MODULE Standby_proofs ---------------------------
(***************************************************************************)
(* Theorems about Standby, for any state, history and number of failures:  *)
(* the primary and the standby never act at once, a promotion that was     *)
(* answered is never taken back, and the recovery point is kept, history   *)
(* and all.                                                                *)
(*                                                                         *)
(* Three inductive invariants carry them.  PromotionInv: whatever a restart  *)
(* or the end of a round would make the standby act on implies that the    *)
(* primary is fenced; and who holds haMu to promote has not been answered. *)
(* CoveredInv: of every state that is kept or under way, an item known is  *)
(* waiting in its outbox or in the primary's, or was delivered.            *)
(* HistoryInv: what is kept of the history is complete up to its newest    *)
(* observation, but for the late ones; so the cursor loses nothing else.   *)
(***************************************************************************)
EXTENDS Standby, WellFoundedInduction, TLAPS

PromotionInv ==
    /\ fenced \in BOOLEAN /\ promoted \in BOOLEAN /\ closed \in BOOLEAN
    /\ up \in BOOLEAN /\ promise \in BOOLEAN /\ file.promoted \in BOOLEAN
    /\ promoted \/ loop = "active" \/ closed \/ file.promoted => fenced
    /\ promise => file.promoted /\ (up => promoted)
    /\ haMu = "promote" => up /\ promoted /\ ~promise

LEMMA PromotionInit == Init => PromotionInv
<1> SUFFICES ASSUME Init PROVE PromotionInv
    OBVIOUS
<1>1. file.promoted = FALSE
    BY DEF Init
<1>2. QED
    BY <1>1 DEF Init, PromotionInv

\* Every write of the state file carries promoted as it is at that time, and
\* nobody promotes, writes or restarts while another holds haMu to promote.
LEMMA PromotionStep == PromotionInv /\ [Next]_vars => PromotionInv'
<1> SUFFICES ASSUME PromotionInv, [Next]_vars PROVE PromotionInv'
    OBVIOUS
<1> USE DEF PromotionInv, isStandby
<1>1. ASSUME NEW i \in Item, Decide(i) \/ PrimaryDelivers(i) PROVE PromotionInv'
    BY <1>1 DEF Decide, PrimaryDelivers, state, sync
<1>2. ASSUME NEW o \in Obs, NEW t \in 1 .. MaxTime, Receive(o, t) PROVE PromotionInv'
    BY <1>2 DEF Receive, state, sync
<1>3. ASSUME NEW h \in taken, AppendObservation(h) PROVE PromotionInv'
    BY <1>3 DEF AppendObservation, state, sync
<1>4. CASE Fence
    BY <1>4 DEF Fence, state, sync
<1>5. CASE Replicate
    <2>1. CASE Ask \/ AnswerState \/ AnswerHistory \/ ApplyState \/ ApplyHistory
        BY <2>1 DEF Ask, AnswerState, AnswerHistory, ApplyState, ApplyHistory, state, sync
    <2>2. CASE NoAnswer
        BY <2>2 DEF NoAnswer, NextLoop, state, sync
    <2>3. CASE AppendFails
        BY <2>3 DEF AppendFails, NextLoop, state, sync
    <2>4. CASE SaveReplica
        BY <2>4 DEF SaveReplica, NextLoop, persistState
    <2>5. CASE SaveFails
        BY <2>5 DEF SaveFails, WriteFails, NextLoop
    <2>6. CASE Leave
        BY <2>6 DEF Leave, state, sync
    <2>7. QED
        BY <1>5, <2>1, <2>2, <2>3, <2>4, <2>5, <2>6 DEF Replicate
<1>6. CASE Preflight
    BY <1>6 DEF Preflight, state, sync
<1>7. ASSUME NEW confirm \in {FALSE, fenced}, Promote(confirm) PROVE PromotionInv'
    <2>1. CASE PromoteSwaps(confirm)
        BY <2>1 DEF PromoteSwaps, Confirmed
    <2>2. CASE PromoteSaved
        BY <2>2 DEF PromoteSaved, persistState
    <2>3. CASE PromoteFails
        BY <2>3 DEF PromoteFails, WriteFails
    <2>4. QED
        BY <1>7, <2>1, <2>2, <2>3 DEF Promote
<1>8. ASSUME NEW i \in Own, NEW saved \in BOOLEAN, Work(i, saved) PROVE PromotionInv'
    <2>1. UNCHANGED <<promoted, fenced, up, closed, loop, haMu, promise>> /\ up /\ promoted
        BY <1>8 DEF Work
    <2>2. file'.promoted = promoted' \/ UNCHANGED file
        <3>1. CASE saved
            <4>1. persistState
                BY <1>8, <3>1, Zenon DEF Work
            <4>2. QED
                BY <4>1 DEF persistState
        <3>2. CASE ~saved
            BY <1>8, <3>2 DEF Work, WriteFails
        <3>3. QED
            BY <3>1, <3>2
    <2>3. QED
        BY <2>1, <2>2
<1>9. ASSUME NEW i \in mem.outbox, StandbyDelivers(i) PROVE PromotionInv'
    BY <1>9 DEF StandbyDelivers, persistState
<1>10. CASE Crash
    BY <1>10 DEF Crash, pvars
<1>11. CASE Restart
    BY <1>11 DEF Restart, LoopAfter
<1>12. CASE UNCHANGED vars
    BY <1>12 DEF vars, state, sync
<1>13. QED
    BY <1>1, <1>2, <1>3, <1>4, <1>5, <1>6, <1>7, <1>8, <1>9, <1>10, <1>11, <1>12 DEF Next

THEOREM PromotionInvariant == Spec => []PromotionInv
BY PromotionInit, PromotionStep, PTL DEF Spec

\* The standby takes no requests, delivers nothing and does not beat before
\* the primary is fenced (promote, standbyBlocks, runStandby).
THEOREM ActsOnlyWhenFenced == Spec => []OneWriter
<1>1. PromotionInv => OneWriter
    BY DEF PromotionInv, OneWriter, isStandby
<1>2. QED
    BY <1>1, PromotionInvariant, PTL

\* A promotion answered with success survives late documents, failed writes
\* and crashes (promote, applyPersistedState).
THEOREM PromotionsHold == Spec => []PromotionHolds
<1>1. PromotionInv => PromotionHolds
    BY DEF PromotionInv, PromotionHolds
<1>2. QED
    BY <1>1, PromotionInvariant, PTL

\* Nobody takes a fence away.
LEMMA FencedStays ==
    ASSUME PromotionInv, [Next]_vars
    PROVE  UNCHANGED fenced \/ (~fenced /\ fenced' /\ UNCHANGED <<promoted, loop>>)
<1>1. CASE Fence
    BY <1>1 DEF Fence, PromotionInv, state
<1>2. CASE Replicate
    BY <1>2 DEF Replicate, Ask, AnswerState, AnswerHistory, NoAnswer, ApplyState, ApplyHistory,
                AppendFails, SaveReplica, SaveFails, Leave
<1>3. ASSUME NEW confirm \in {FALSE, fenced}, Promote(confirm) PROVE UNCHANGED fenced
    BY <1>3 DEF Promote, PromoteSwaps, PromoteSaved, PromoteFails
<1>4. ASSUME NEW i \in Own, NEW saved \in BOOLEAN, Work(i, saved) PROVE UNCHANGED fenced
    BY <1>4 DEF Work
<1>5. QED
    BY <1>1, <1>2, <1>3, <1>4
    DEF Next, vars, Decide, PrimaryDelivers, Receive, AppendObservation, Preflight,
        StandbyDelivers, Crash, pvars, Restart

\* The primary and its standby implement Handover, whatever is lost, written
\* late or restarted.
THEOREM ImplementsHandover == Spec => HandsOver
<1>1. Init => Hand!Init
    BY DEF Init, Hand!Init, Acting, isStandby
<1>2. PromotionInv /\ PromotionInv' /\ [Next]_vars => [Hand!Next]_Acting
    <2> SUFFICES ASSUME PromotionInv, PromotionInv', [Next]_vars
                 PROVE  Hand!Next \/ UNCHANGED Acting
        OBVIOUS
    <2>1. CASE ~fenced /\ ~fenced'
        <3>1. Acting = {"primary"} /\ Acting' = {"primary"}
            BY <2>1 DEF PromotionInv, Acting, isStandby
        <3>2. QED
            BY <3>1
    <2>2. CASE ~fenced /\ fenced'
        <3>1. Acting = {"primary"}
            BY <2>2 DEF PromotionInv, Acting, isStandby
        <3>2. Acting' = {}
            BY <2>2, FencedStays DEF PromotionInv, Acting, isStandby
        <3>3. QED
            BY <3>1, <3>2 DEF Hand!Next, Hand!Fence
    <2>3. CASE fenced
        <3>1. fenced'
            BY <2>3, FencedStays
        <3>2. Acting \in {{}, {"standby"}} /\ Acting' \in {{}, {"standby"}}
            BY <2>3, <3>1 DEF Acting
        <3>3. QED
            BY <3>2 DEF Hand!Next, Hand!TakeOver, Hand!StandDown
    <2>4. QED
        BY <2>1, <2>2, <2>3 DEF PromotionInv
<1>3. QED
    BY <1>1, <1>2, PromotionInvariant, PTL DEF Spec, HandsOver, Hand!Spec
-----------------------------------------------------------------------------
(* The recovery point.                                                     *)

Waits(i, s) == i \in s.outbox \/ i \in primary.outbox \/ i \in delivered
Covered(s) == \A i \in s.known : Waits(i, s)

CoveredInv ==
    /\ up \in BOOLEAN /\ (~up => phase = "rest")
    /\ file.known \subseteq Item \cup Own /\ file.outbox \subseteq Item \cup Own
    /\ primary \in State /\ mem \in State /\ doc.state \in State
    /\ doc = [state |-> doc.state, history |-> doc.history, had |-> doc.had]
    /\ Covered(primary) /\ Covered(mem) /\ Covered(doc.state) /\ Covered(file)
    /\ point.known \subseteq primary.known /\ doc.state.known \subseteq primary.known
    /\ point.known \subseteq file.known
    /\ up => point.known \subseteq mem.known
    /\ phase \in {"answered", "got", "replaced", "appended"} =>
          point.known \subseteq doc.state.known
    /\ phase \in {"replaced", "appended"} => doc.state.known \subseteq mem.known

LEMMA CoveredInit == Init => CoveredInv
<1> SUFFICES ASSUME Init PROVE CoveredInv
    OBVIOUS
<1>1. Empty \in State /\ Empty.known = {}
    BY DEF Empty, State
<1>2. primary = Empty /\ mem = Empty /\ doc.state = Empty /\ file.known = {} /\ file.outbox = {}
      /\ point.known = {}
    BY DEF Init, NoDoc
<1>3. doc = [state |-> doc.state, history |-> doc.history, had |-> doc.had]
    BY DEF Init, NoDoc
<1>4. QED
    BY <1>1, <1>2, <1>3 DEF Init, CoveredInv, Covered

\* What a step leaves alone stays covered when more is delivered or known.
LEMMA StaysCovered ==
    ASSUME CoveredInv, UNCHANGED <<up, primary, mem, doc, file, point, delivered, phase>>
    PROVE  CoveredInv'
BY DEF CoveredInv, Covered, Waits

\* The end of a round, whatever it brought.
LEMMA RoundEnds ==
    ASSUME CoveredInv, RoundOver, UNCHANGED <<up, primary, mem, file, point, delivered>>
    PROVE  CoveredInv'
<1>1. doc'.state = Empty /\ Empty \in State /\ Empty.known = {}
    BY DEF RoundOver, NoDoc, Empty, State
<1>2. doc' = [state |-> doc'.state, history |-> doc'.history, had |-> doc'.had]
    BY DEF RoundOver, NoDoc
<1>3. phase' = "rest"
    BY DEF RoundOver
<1>4. QED
    BY <1>1, <1>2, <1>3 DEF CoveredInv, Covered, Waits

\* A write of the memory, in a step that leaves the rest as it is.
LEMMA Written ==
    ASSUME CoveredInv, up, persistState, UNCHANGED <<up, primary, mem, doc, point, delivered, phase>>
    PROVE  CoveredInv'
<1>1. file'.known = mem.known /\ file'.outbox = mem.outbox
    BY DEF persistState
<1>2. QED
    BY <1>1 DEF CoveredInv, Covered, Waits, State

LEMMA CoveredStep == CoveredInv /\ [Next]_vars => CoveredInv'
<1> SUFFICES ASSUME CoveredInv, [Next]_vars PROVE CoveredInv'
    OBVIOUS
<1>1. ASSUME NEW i \in Item, Decide(i) PROVE CoveredInv'
    <2>1. primary' \in State /\ primary'.known = primary.known \cup {i}
          /\ primary'.outbox = primary.outbox \cup {i}
        BY <1>1 DEF Decide, CoveredInv, State
    <2>2. UNCHANGED <<up, mem, doc, file, point, delivered, phase>>
        BY <1>1 DEF Decide, state, sync
    <2>3. QED
        BY <2>1, <2>2 DEF CoveredInv, Covered, Waits
<1>2. ASSUME NEW i \in Item, PrimaryDelivers(i) PROVE CoveredInv'
    <2>1. primary' \in State /\ primary'.known = primary.known
          /\ primary'.outbox = primary.outbox \ {i} /\ delivered' = delivered \cup {i}
        BY <1>2 DEF PrimaryDelivers, CoveredInv, State
    <2>2. UNCHANGED <<up, mem, doc, file, point, phase>>
        BY <1>2 DEF PrimaryDelivers, state, sync
    <2>3. QED
        BY <2>1, <2>2 DEF CoveredInv, Covered, Waits
<1>3. ASSUME NEW o \in Obs, NEW t \in 1 .. MaxTime, Receive(o, t) PROVE CoveredInv'
    BY <1>3, StaysCovered DEF Receive, state, sync
<1>4. ASSUME NEW h \in taken, AppendObservation(h) PROVE CoveredInv'
    BY <1>4, StaysCovered DEF AppendObservation, state, sync
<1>5. CASE Fence \/ Preflight \/ Leave
    BY <1>5, StaysCovered DEF Fence, Preflight, Leave, pvars, state, sync
<1>6. CASE Ask
    <2>1. UNCHANGED <<up, primary, mem, doc, file, point, delivered>> /\ up /\ phase' = "asked"
        BY <1>6 DEF Ask, pvars, state
    <2>2. QED
        BY <2>1 DEF CoveredInv, Covered, Waits
<1>7. CASE AnswerState
    <2>1. doc' = [state |-> primary, history |-> {}, had |-> {}]
        BY <1>7 DEF AnswerState, NoDoc
    <2>2. UNCHANGED <<up, primary, mem, file, point, delivered>> /\ up /\ phase' = "answered"
        BY <1>7 DEF AnswerState, pvars, state
    <2>3. doc'.state = primary
        BY <2>1
    <2>4. doc' = [state |-> doc'.state, history |-> doc'.history, had |-> doc'.had]
        BY <2>1
    <2>5. QED
        BY <2>2, <2>3, <2>4 DEF CoveredInv, Covered, Waits
<1>8. CASE AnswerHistory
    <2>1. doc' = [doc EXCEPT !.history = HistorySince(cursor), !.had = pHistory]
        BY <1>8 DEF AnswerHistory
    <2>2. doc'.state = doc.state /\ doc' = [state |-> doc'.state, history |-> doc'.history, had |-> doc'.had]
        BY <2>1 DEF CoveredInv
    <2>3. UNCHANGED <<up, primary, mem, file, point, delivered>> /\ up
          /\ phase = "answered" /\ phase' = "got"
        BY <1>8 DEF AnswerHistory, pvars, state
    <2>4. QED
        BY <2>2, <2>3 DEF CoveredInv, Covered, Waits
<1>9. CASE NoAnswer \/ AppendFails \/ SaveFails
    BY <1>9, RoundEnds DEF NoAnswer, AppendFails, SaveFails, WriteFails, pvars, state
<1>10. CASE ApplyState
    <2>1. UNCHANGED <<up, primary, doc, file, point, delivered>> /\ mem' = doc.state
          /\ phase = "got" /\ phase' = "replaced"
        BY <1>10 DEF ApplyState, pvars
    <2>2. QED
        BY <2>1 DEF CoveredInv, Covered, Waits
<1>11. CASE ApplyHistory
    <2>1. UNCHANGED <<up, primary, mem, doc, file, point, delivered>>
          /\ phase = "replaced" /\ phase' = "appended"
        BY <1>11 DEF ApplyHistory, pvars, state
    <2>2. QED
        BY <2>1 DEF CoveredInv, Covered, Waits
<1>12. CASE SaveReplica
    <2>1. UNCHANGED <<up, primary, mem, delivered>> /\ phase = "appended"
          /\ point'.known = doc.state.known
        BY <1>12 DEF SaveReplica, pvars
    <2>2. file'.known = mem.known /\ file'.outbox = mem.outbox
        BY <1>12 DEF SaveReplica, persistState
    <2>3. doc'.state = Empty /\ Empty \in State /\ Empty.known = {} /\ phase' = "rest"
          /\ doc' = [state |-> doc'.state, history |-> doc'.history, had |-> doc'.had]
        BY <1>12 DEF SaveReplica, RoundOver, NoDoc, Empty, State
    <2>4. QED
        BY <2>1, <2>2, <2>3 DEF CoveredInv, Covered, Waits, State
<1>13. ASSUME NEW confirm \in {FALSE, fenced}, Promote(confirm) PROVE CoveredInv'
    <2>1. CASE PromoteSwaps(confirm)
        BY <2>1, StaysCovered DEF PromoteSwaps, pvars, sync
    <2>2. CASE PromoteSaved
        BY <2>2, Written DEF PromoteSaved, pvars, sync
    <2>3. CASE PromoteFails
        BY <2>3, StaysCovered DEF PromoteFails, WriteFails, pvars, sync
    <2>4. QED
        BY <1>13, <2>1, <2>2, <2>3 DEF Promote
<1>14. ASSUME NEW i \in Own, NEW saved \in BOOLEAN, Work(i, saved) PROVE CoveredInv'
    <2>1. UNCHANGED <<up, primary, doc, point, delivered, phase>> /\ up
          /\ mem' = [known |-> mem.known \cup {i}, outbox |-> mem.outbox \cup {i}]
        BY <1>14 DEF Work, pvars, sync
    <2>2. mem' \in State /\ mem'.known = mem.known \cup {i} /\ mem'.outbox = mem.outbox \cup {i}
        BY <2>1 DEF CoveredInv, State
    <2>3. CASE saved
        <3>1. persistState
            BY <1>14, <2>3, Zenon DEF Work
        <3>2. file'.known = mem'.known /\ file'.outbox = mem'.outbox
            BY <3>1 DEF persistState
        <3>3. QED
            BY <2>1, <2>2, <3>2 DEF CoveredInv, Covered, Waits, State
    <2>4. CASE ~saved
        <3>1. UNCHANGED file
            BY <1>14, <2>4 DEF Work, WriteFails
        <3>2. QED
            BY <2>1, <2>2, <3>1 DEF CoveredInv, Covered, Waits
    <2>5. QED
        BY <2>3, <2>4
<1>15. ASSUME NEW i \in mem.outbox, StandbyDelivers(i) PROVE CoveredInv'
    <2>1. UNCHANGED <<up, primary, doc, point, phase>> /\ up
          /\ mem' = [mem EXCEPT !.outbox = @ \ {i}] /\ delivered' = delivered \cup {i}
        BY <1>15 DEF StandbyDelivers, pvars, sync
    <2>2. mem' \in State /\ mem'.known = mem.known /\ mem'.outbox = mem.outbox \ {i}
        BY <2>1 DEF CoveredInv, State
    <2>3. file'.known = mem'.known /\ file'.outbox = mem'.outbox
        BY <1>15 DEF StandbyDelivers, persistState
    <2>4. QED
        BY <2>1, <2>2, <2>3 DEF CoveredInv, Covered, Waits, State
<1>16. CASE Crash
    <2>1. UNCHANGED <<primary, file, point, delivered>> /\ ~up' /\ up' = FALSE
          /\ mem' = Empty /\ phase' = "rest" /\ doc' = NoDoc
        BY <1>16 DEF Crash, pvars, RoundOver
    <2>2. doc'.state = Empty /\ Empty \in State /\ Empty.known = {}
          /\ doc' = [state |-> doc'.state, history |-> doc'.history, had |-> doc'.had]
        BY <2>1 DEF NoDoc, Empty, State
    <2>3. QED
        BY <2>1, <2>2 DEF CoveredInv, Covered, Waits
<1>17. CASE Restart
    <2>1. UNCHANGED <<primary, doc, file, point, delivered, phase>> /\ ~up /\ up'
          /\ mem' = [known |-> file.known, outbox |-> file.outbox]
        BY <1>17 DEF Restart, pvars, sync
    <2>2. mem' \in State /\ mem'.known = file.known /\ mem'.outbox = file.outbox /\ phase' = "rest"
        BY <2>1 DEF CoveredInv, State
    <2>3. QED
        BY <2>1, <2>2 DEF CoveredInv, Covered, Waits
<1>18. CASE UNCHANGED vars
    BY <1>18, StaysCovered DEF vars, pvars, state, sync
<1>19. QED
    BY <1>1, <1>2, <1>3, <1>4, <1>5, <1>6, <1>7, <1>8, <1>9, <1>10, <1>11, <1>12, <1>13,
       <1>14, <1>15, <1>16, <1>17, <1>18
    DEF Next, Replicate

\* What the last successful round brought is known in memory and on disk, and
\* none of its alerts is lost: each waits or was delivered (applyReplica saves
\* before it reports success).
THEOREM RecoveryPoint == Spec => []RecoveryPointKept
<1>1. CoveredInv => RecoveryPointKept
    BY DEF CoveredInv, Covered, Waits, RecoveryPointKept
<1>2. QED
    BY <1>1, CoveredInit, CoveredStep, PTL DEF Spec
-----------------------------------------------------------------------------
(* The history.                                                            *)

LEMMA LeastOf ==
    ASSUME NEW T, T \subseteq Nat, T # {}
    PROVE  \E x \in T : \A y \in T : x <= y
<1>1. IsWellFoundedOn(OpToRel(<, Nat), Nat)
    BY NatLessThanWellFounded
<1>2. PICK x \in T : \A y \in T : ~(<<y, x>> \in OpToRel(<, Nat))
    BY <1>1, WFMin
<1>3. \A y \in T : <<y, x>> \in OpToRel(<, Nat) <=> y < x
    BY DEF OpToRel
<1>4. \A y \in T : ~(y < x)
    BY <1>2, <1>3, Zenon
<1>5. QED
    BY <1>4

\* Of numbers up to some N there is a greatest, the least upper bound.
LEMMA MaxOf ==
    ASSUME NEW S, NEW N \in Nat, S \subseteq 0 .. N, S # {}
    PROVE  Max(S) \in S /\ \A y \in S : y <= Max(S)
<1> DEFINE T == {n \in Nat : \A y \in S : y <= n}
<1>1. N \in T
    OBVIOUS
<1>2. PICK x \in T : \A y \in T : x <= y
    BY <1>1, LeastOf
<1>3. x \in S
    <2>1. SUFFICES ASSUME x \notin S PROVE FALSE
        OBVIOUS
    <2>2. \A y \in S : y \in Nat /\ y <= x /\ y # x
        BY <1>2, <2>1
    <2>3. x # 0
        <3>1. PICK y \in S : TRUE
            OBVIOUS
        <3>2. QED
            BY <2>2, <3>1
    <2>4. x - 1 \in T
        BY <2>2, <2>3
    <2>5. QED
        BY <1>2, <2>4
<1>4. QED
    BY <1>2, <1>3 DEF Max

\* Whatever the primary has from before the newest of S is in S, or was late.
Complete(S) == \A g \in S, h \in pHistory : h.at < g.at => h \in S \/ h \in late

\* The cursor is the time of an observation that the standby has.
CursorKnown == cursor = 0 \/ \E g \in history : g.at = cursor

\* What the answer holds is all there was from the cursor on; what came after
\* it and belongs before some of it was late.
AnswerWhole ==
    /\ doc.had \subseteq pHistory
    /\ doc.history = {h \in doc.had : h.at >= cursor}
    /\ \A h \in doc.had, k \in pHistory \ doc.had : k.at < h.at => k \in late

HistoryInv ==
    /\ up \in BOOLEAN /\ (~up => phase = "rest")
    /\ \A h \in taken \cup pHistory : h.at \in 1 .. MaxTime
    /\ cursor \in Nat
    /\ doc = [state |-> doc.state, history |-> doc.history, had |-> doc.had]
    /\ history \subseteq journal /\ journal \subseteq pHistory
    /\ Complete(history) /\ Complete(journal)
    /\ phase \in {"asked", "answered", "got", "replaced"} => CursorKnown
    /\ phase \in {"got", "replaced"} => AnswerWhole
    /\ phase = "appended" => doc.had \ late \subseteq history
    /\ point.history \subseteq journal
    /\ up => point.history \subseteq history

LEMMA HistoryInit == Init => HistoryInv
<1> SUFFICES ASSUME Init PROVE HistoryInv
    OBVIOUS
<1>1. point.history = {} /\ doc = [state |-> doc.state, history |-> doc.history, had |-> doc.had]
    BY DEF Init, NoDoc
<1>2. QED
    BY <1>1 DEF Init, HistoryInv, Complete

\* Nothing about the history changes.
LEMMA HistoryStays ==
    ASSUME HistoryInv,
           UNCHANGED <<up, phase, taken, pHistory, late, cursor, doc, history, journal, point>>
    PROVE  HistoryInv'
BY DEF HistoryInv, Complete, CursorKnown, AnswerWhole

\* A round ends, and the histories are as they were.
LEMMA HistoryRoundEnds ==
    ASSUME HistoryInv, RoundOver, UNCHANGED <<up, taken, pHistory, late, history, journal, point>>
    PROVE  HistoryInv'
<1>1. doc' = [state |-> doc'.state, history |-> doc'.history, had |-> doc'.had]
      /\ phase' = "rest" /\ cursor' = 0
    BY DEF RoundOver, NoDoc
<1>2. QED
    BY <1>1 DEF HistoryInv, Complete

\* What the standby lacks from before the cursor was late.
LEMMA NothingMissed ==
    ASSUME HistoryInv, CursorKnown, NEW h \in pHistory, h.at < cursor
    PROVE  h \in history \/ h \in late
BY DEF HistoryInv, CursorKnown, Complete

LEMMA HistoryStep == HistoryInv /\ [Next]_vars => HistoryInv'
<1> SUFFICES ASSUME HistoryInv, [Next]_vars PROVE HistoryInv'
    OBVIOUS
<1>1. ASSUME NEW i \in Item, Decide(i) \/ PrimaryDelivers(i) PROVE HistoryInv'
    BY <1>1, HistoryStays DEF Decide, PrimaryDelivers, state, sync
<1>2. ASSUME NEW o \in Obs, NEW t \in 1 .. MaxTime, Receive(o, t) PROVE HistoryInv'
    <2>1. taken' = taken \cup {[id |-> o, at |-> t]}
          /\ UNCHANGED <<up, phase, pHistory, late, cursor, doc, history, journal, point>>
        BY <1>2 DEF Receive, state, sync
    <2>2. \A h \in taken' : h \in taken \/ h.at = t
        BY <2>1
    <2>3. \A h \in (taken \cup pHistory)' : h.at \in 1 .. MaxTime
        BY <2>1, <2>2 DEF HistoryInv
    <2>4. QED
        BY <2>1, <2>3 DEF HistoryInv, Complete, CursorKnown, AnswerWhole
<1>3. ASSUME NEW h \in taken, AppendObservation(h) PROVE HistoryInv'
    <2>1. /\ taken' = taken \ {h} /\ pHistory' = pHistory \cup {h}
          /\ late' = IF \E k \in pHistory : k.at > h.at THEN late \cup {h} ELSE late
          /\ UNCHANGED <<up, phase, cursor, doc, history, journal, point>>
        BY <1>3 DEF AppendObservation, state, sync
    <2>2. \A g \in taken' \cup pHistory' : g.at \in 1 .. MaxTime
        BY <2>1 DEF HistoryInv
    <2>3. ASSUME NEW g \in pHistory, h.at < g.at PROVE h \in late'
        BY <2>1, <2>3 DEF HistoryInv
    <2>4. late \subseteq late'
        BY <2>1
    <2>5. Complete(history)' /\ Complete(journal)'
        <3>1. ASSUME NEW S, S \subseteq pHistory, Complete(S), NEW g \in S, NEW k \in pHistory',
                     k.at < g.at
              PROVE  k \in S \/ k \in late'
            BY <2>1, <2>3, <2>4, <3>1 DEF Complete
        <3>2. QED
            BY <2>1, <3>1 DEF HistoryInv, Complete
    <2>6. phase \in {"got", "replaced"} => AnswerWhole'
        BY <2>1, <2>3, <2>4 DEF HistoryInv, AnswerWhole
    <2>7. QED
        BY <2>1, <2>2, <2>4, <2>5, <2>6 DEF HistoryInv, CursorKnown
<1>4. CASE Fence \/ Preflight \/ Leave
    BY <1>4, HistoryStays DEF Fence, Preflight, Leave, pvars, state, sync
<1>5. CASE Ask
    <2>1. /\ up /\ phase' = "asked" /\ cursor' = latestHistoryTime
          /\ UNCHANGED <<up, taken, pHistory, late, doc, history, journal, point>>
        BY <1>5 DEF Ask, pvars, state
    <2>2. cursor' \in Nat /\ (cursor' = 0 \/ \E g \in history : g.at = cursor')
        <3> DEFINE S == {h.at : h \in history}
        <3>1. S \subseteq 0 .. MaxTime /\ MaxTime \in Nat
            BY StandbyAssumption DEF HistoryInv
        <3>2. CASE history = {}
            BY <2>1, <3>2 DEF latestHistoryTime
        <3>3. CASE history # {}
            <4>1. S # {}
                BY <3>3
            <4>2. Max(S) \in S
                BY <3>1, <4>1, MaxOf
            <4>3. cursor' = Max(S)
                BY <2>1, <3>3 DEF latestHistoryTime
            <4>4. PICK g \in history : g.at = Max(S)
                BY <4>2
            <4>5. g.at \in Nat
                BY <3>1
            <4>6. QED
                BY <4>3, <4>4, <4>5
        <3>4. QED
            BY <3>2, <3>3
    <2>3. QED
        BY <2>1, <2>2 DEF HistoryInv, Complete, CursorKnown
<1>6. CASE AnswerState
    <2>1. /\ up /\ phase = "asked" /\ phase' = "answered" /\ doc' = [state |-> primary, history |-> {}, had |-> {}]
          /\ UNCHANGED <<up, taken, pHistory, late, cursor, history, journal, point>>
        BY <1>6 DEF AnswerState, pvars, state, NoDoc
    <2>2. QED
        BY <2>1 DEF HistoryInv, Complete, CursorKnown
<1>7. CASE AnswerHistory
    <2>1. /\ up /\ phase = "answered" /\ phase' = "got"
          /\ doc' = [doc EXCEPT !.history = HistorySince(cursor), !.had = pHistory]
          /\ UNCHANGED <<up, taken, pHistory, late, cursor, history, journal, point>>
        BY <1>7 DEF AnswerHistory, pvars, state
    <2>2. /\ doc'.history = {h \in pHistory : h.at >= cursor} /\ doc'.had = pHistory
          /\ doc' = [state |-> doc'.state, history |-> doc'.history, had |-> doc'.had]
        BY <2>1 DEF HistoryInv, HistorySince
    <2>3. AnswerWhole'
        BY <2>1, <2>2 DEF AnswerWhole
    <2>4. QED
        BY <2>1, <2>2, <2>3 DEF HistoryInv, Complete, CursorKnown
<1>8. CASE NoAnswer \/ SaveFails
    BY <1>8, HistoryRoundEnds DEF NoAnswer, SaveFails, WriteFails, pvars, state
<1>9. CASE ApplyState
    <2>1. /\ up /\ phase = "got" /\ phase' = "replaced"
          /\ UNCHANGED <<up, taken, pHistory, late, cursor, doc, history, journal, point>>
        BY <1>9 DEF ApplyState, pvars
    <2>2. QED
        BY <2>1 DEF HistoryInv, Complete, CursorKnown, AnswerWhole
<1>10. CASE ApplyHistory
    <2>1. /\ up /\ phase = "replaced" /\ phase' = "appended"
          /\ journal' = journal \cup doc.history /\ history' = history \cup doc.history
          /\ UNCHANGED <<up, taken, pHistory, late, cursor, doc, point>>
        BY <1>10 DEF ApplyHistory, pvars, state
    <2>2. AnswerWhole /\ CursorKnown
        BY <2>1 DEF HistoryInv
    <2>3. ASSUME NEW h \in doc.had, h \notin late PROVE h \in history'
        BY <2>1, <2>2, <2>3, NothingMissed DEF HistoryInv, AnswerWhole
    <2>4. ASSUME NEW g \in doc.history, NEW h \in pHistory, h.at < g.at
          PROVE  h \in history' \/ h \in late
        BY <2>2, <2>3, <2>4 DEF AnswerWhole
    <2>5. Complete(history)' /\ Complete(journal)'
        BY <2>1, <2>4 DEF HistoryInv, Complete
    <2>6. journal' \subseteq pHistory
        BY <2>1, <2>2 DEF HistoryInv, AnswerWhole
    <2>7. QED
        BY <2>1, <2>3, <2>5, <2>6 DEF HistoryInv
<1>11. CASE AppendFails
    <2>1. /\ up /\ phase = "replaced" /\ RoundOver
          /\ UNCHANGED <<up, taken, pHistory, late, history, point>>
        BY <1>11 DEF AppendFails, pvars, state
    <2>2. PICK t \in 0 .. MaxTime : journal' = journal \cup {h \in doc.history : h.at <= t}
        BY <1>11 DEF AppendFails
    <2>3. AnswerWhole /\ CursorKnown
        BY <2>1 DEF HistoryInv
    <2>4. t \in Nat /\ \A h \in pHistory : h.at \in Nat
        BY StandbyAssumption DEF HistoryInv
    <2>5. ASSUME NEW g \in doc.history, g.at <= t, NEW h \in pHistory, h.at < g.at
          PROVE  h \in journal' \/ h \in late
        <3>1. CASE h \notin doc.had
            BY <2>3, <2>5, <3>1 DEF AnswerWhole
        <3>2. CASE h \in doc.had /\ h.at < cursor
            BY <2>2, <2>3, <3>2, NothingMissed DEF HistoryInv
        <3>3. CASE h \in doc.had /\ h.at >= cursor
            <4>1. h.at <= t
                BY <2>3, <2>4, <2>5 DEF AnswerWhole
            <4>2. QED
                BY <2>2, <2>3, <3>3, <4>1 DEF AnswerWhole
        <3>4. QED
            BY <2>4, <3>1, <3>2, <3>3 DEF HistoryInv
    <2>6. Complete(journal)' /\ journal' \subseteq pHistory
        <3>1. ASSUME NEW g \in journal, NEW h \in pHistory, h.at < g.at
              PROVE  h \in journal' \/ h \in late
            BY <2>2, <3>1 DEF HistoryInv, Complete
        <3>2. QED
            BY <2>1, <2>2, <2>3, <2>5, <3>1 DEF HistoryInv, Complete, AnswerWhole
    <2>7. /\ doc' = [state |-> doc'.state, history |-> doc'.history, had |-> doc'.had]
          /\ phase' = "rest" /\ cursor' = 0
        BY <2>1 DEF RoundOver, NoDoc
    <2>8. QED
        BY <2>1, <2>2, <2>6, <2>7 DEF HistoryInv, Complete
<1>12. CASE SaveReplica
    <2>1. /\ up /\ phase = "appended" /\ RoundOver
          /\ point'.history = point.history \cup (doc.had \ late)
          /\ UNCHANGED <<up, taken, pHistory, late, history, journal>>
        BY <1>12 DEF SaveReplica, pvars
    <2>2. /\ doc' = [state |-> doc'.state, history |-> doc'.history, had |-> doc'.had]
          /\ phase' = "rest" /\ cursor' = 0
        BY <2>1 DEF RoundOver, NoDoc
    <2>3. QED
        BY <2>1, <2>2 DEF HistoryInv, Complete
<1>13. ASSUME NEW confirm \in {FALSE, fenced}, Promote(confirm) PROVE HistoryInv'
    BY <1>13, HistoryStays
    DEF Promote, PromoteSwaps, PromoteSaved, PromoteFails, WriteFails, pvars, sync
<1>14. ASSUME NEW i \in Own, NEW saved \in BOOLEAN, Work(i, saved) PROVE HistoryInv'
    BY <1>14, HistoryStays DEF Work, pvars, sync
<1>15. ASSUME NEW i \in mem.outbox, StandbyDelivers(i) PROVE HistoryInv'
    BY <1>15, HistoryStays DEF StandbyDelivers, pvars, sync
<1>16. CASE Crash
    <2>1. /\ up' = FALSE /\ history' = {} /\ RoundOver
          /\ UNCHANGED <<taken, pHistory, late, journal, point>>
        BY <1>16 DEF Crash, pvars
    <2>2. /\ doc' = [state |-> doc'.state, history |-> doc'.history, had |-> doc'.had]
          /\ phase' = "rest" /\ cursor' = 0
        BY <2>1 DEF RoundOver, NoDoc
    <2>3. QED
        BY <2>1, <2>2 DEF HistoryInv, Complete
<1>17. CASE Restart
    <2>1. /\ ~up /\ up' = TRUE /\ history' = journal
          /\ UNCHANGED <<phase, cursor, doc, taken, pHistory, late, journal, point>>
        BY <1>17 DEF Restart, pvars, sync
    <2>2. QED
        BY <2>1 DEF HistoryInv, Complete
<1>18. CASE UNCHANGED vars
    BY <1>18, HistoryStays DEF vars, pvars, state, sync
<1>19. QED
    BY <1>1, <1>2, <1>3, <1>4, <1>5, <1>6, <1>7, <1>8, <1>9, <1>10, <1>11, <1>12, <1>13,
       <1>14, <1>15, <1>16, <1>17, <1>18
    DEF Next, Replicate

\* No observation that the primary had when a round read its history is missed
\* by the standby, through failed appends, failed writes and restarts, but for
\* those that were appended behind later ones (applyReplica, loadHistory).
THEOREM HistoryCarriedOver == Spec => []HistoryReplicated
<1>1. HistoryInv => HistoryReplicated
    BY DEF HistoryInv, HistoryReplicated
<1>2. QED
    BY <1>1, HistoryInit, HistoryStep, PTL DEF Spec
=============================================================================
