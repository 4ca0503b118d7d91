--------------------------- MODULE CheckDecision ---------------------------
(***************************************************************************)
(* How the coordinator turns prober results into the status of a check:    *)
(* admission of scheduled results (handlers.go), the background goroutine  *)
(* that processes each admitted result, corroboration by other probers and *)
(* the state machine of a check (coordinator.go).                          *)
(*                                                                         *)
(* Every admitted result is processed by a goroutine of its own; the       *)
(* goroutines contend for the check's mutex, which decide holds across the *)
(* whole corroboration, and for the fan-out slots.  The environment is the *)
(* target, which changes at will, the probers, and a network that loses,   *)
(* delays, reorders and duplicates results.  Which prober owns a check     *)
(* moves with the mesh, so a result of any prober may be the one its owner *)
(* sent; the rule itself is the subject of another module.                 *)
(*                                                                         *)
(* Probers in Flaky have a broken view of the target and report anything;  *)
(* a prober that reaches no peer sees every target down while it is cut    *)
(* off.  The others report what the target is.                             *)
(*                                                                         *)
(* What no decision reads is left out: suspectedSince, the history of      *)
(* inconclusive attempts, lastVerdict, the observation history, counters.  *)
(***************************************************************************)
EXTENDS Evidence

CONSTANTS
    Check,           \* the monitored checks, none of them in a component
    Flaky,           \* probers whose reports need not match the target
    Owners,          \* probers that own the checks at one time or another
    Cuttable,        \* probers that may lose, and regain, all their peers
    MaxProbe,        \* bound: scheduled probes of each prober for each check
    ResultSlots,     \* capacity of resultSlots
    FanOutSlots,     \* capacity of slots, the concurrent fan-outs
    DrainedRejoin    \* a prober rejoins only with none of its evidence in flight

ASSUME CheckDecisionAssumption ==
    /\ Flaky \subseteq Prober
    /\ Owners \subseteq Prober
    /\ Cuttable \subseteq Prober
    /\ MaxProbe \in Nat \ {0}
    /\ ResultSlots \in Nat \ {0}
    /\ FanOutSlots \in Nat \ {0}
    /\ DrainedRejoin \in BOOLEAN

VARIABLES
    target,          \* target[c]: what the target of c really is
    sent,            \* the scheduled results the probers have submitted
    isolated,        \* the probers the mesh says can reach no peer
    lastScheduled,   \* lastScheduled[p][c]: At of the last admitted result
    jobs,            \* the admitted results being processed
    status,          \* status[c]: entityState.status
    since            \* history: what the target has been since status[c] changed

vars == <<target, sent, isolated, lastScheduled, jobs, status, since>>

Kind == {"none", "down", "recovered", "warning", "warning-cleared"}

Result == [prober: Prober, check: Check, at: 1..MaxProbe, says: Opinion]

(* accepted: the goroutine has not run yet; locking: it waits for the mutex *)
(* of the check; queueing, asking and deciding: it holds that mutex, and    *)
(* waits for a fan-out slot, for corroborators, or for nothing; emitting:   *)
(* the mutex is released and an alert remains to be emitted.                *)
Stage == {"accepted", "locking", "queueing", "asking", "deciding", "emitting"}

Job == [res: Result, stage: Stage, votes: [Prober -> Ballot],
        asked: SUBSET Prober, kind: Kind]

Deciding == {"queueing", "asking", "deciding"}

TypeOK ==
    /\ target \in [Check -> Opinion]
    /\ sent \subseteq Result
    /\ isolated \subseteq Prober
    /\ lastScheduled \in [Prober -> [Check -> 0..MaxProbe]]
    /\ jobs \subseteq Job
    /\ status \in [Check -> Status]
    /\ since \in [Check -> SUBSET Opinion]

Init ==
    /\ target \in [Check -> Opinion]
    /\ sent = {}
    /\ isolated = {}
    /\ lastScheduled = [p \in Prober |-> [c \in Check |-> 0]]
    /\ jobs = {}
    /\ status = [c \in Check |-> "unknown"]
    /\ since = [c \in Check |-> {target[c]}]

-----------------------------------------------------------------------------
(* Environment: the target, the mesh, the probers.                         *)

TargetMoves(c) ==
    \E s \in Opinion \ {target[c]} :
        /\ target' = [target EXCEPT ![c] = s]
        /\ since' = [since EXCEPT ![c] = @ \cup {s}]
        /\ UNCHANGED <<sent, isolated, lastScheduled, jobs, status>>

Isolate(p) ==
    /\ isolated' = isolated \cup {p}
    /\ UNCHANGED <<target, sent, lastScheduled, jobs, status, since>>

HasEvidenceInFlight(p) ==
    \/ \E r \in sent : r.prober = p /\ r.at > lastScheduled[p][r.check]
    \/ \E j \in jobs : j.votes[p] # NoVote

Rejoin(p) ==
    /\ p \in isolated
    /\ DrainedRejoin => ~HasEvidenceInFlight(p)
    /\ isolated' = isolated \ {p}
    /\ UNCHANGED <<target, sent, lastScheduled, jobs, status, since>>

(* What prober p may report of the target of c at this moment.  "Unknown"  *)
(* is left out: it is never a vote, and a scheduled one changes nothing.   *)
Reports(p, c) ==
    IF p \in Flaky THEN Opinion
    ELSE IF p \in isolated THEN {"down"} ELSE {target[c]}

(* runLoop: probe and submit; At is the prober's own clock.                *)
Probe(p, c) ==
    LET taken == {r \in sent : r.prober = p /\ r.check = c} IN
    \E at \in 1..MaxProbe, says \in Reports(p, c) :
        /\ \A r \in taken : r.at < at
        /\ \A earlier \in 1..(at - 1) : \E r \in taken : r.at = earlier
        /\ sent' = sent \cup {[prober |-> p, check |-> c, at |-> at,
                               says |-> says]}
        /\ UNCHANGED <<target, isolated, lastScheduled, jobs, status, since>>

-----------------------------------------------------------------------------
(* The coordinator.                                                        *)

Become(j, k) == jobs' = (jobs \ {j}) \cup {k}
Finish(j)    == jobs' = jobs \ {j}

(* Mutants are named for the slip they stand for, and come just before the *)
(* definition they mutate.                                                 *)
UnlockedWhileWaiting(c) ==
    \A j \in jobs : j.res.check = c => j.stage \notin {"asking", "deciding"}

(* Nobody holds the mutex of this check.                                   *)
Unlocked(c) == \A j \in jobs : j.res.check = c => j.stage \notin Deciding

OnlyVoteOfReporter(r) == [p \in {r.prober} |-> r.says]

OnlyVote(r) == [p \in Prober |-> IF p = r.prober THEN r.says ELSE NoVote]

(* handleResult: a slot must be free, and the result newer than the last   *)
(* one admitted from this prober for this check.                           *)
IsNewer(r) == r.at > lastScheduled[r.prober][r.check]

Accept(r) ==
    /\ Cardinality(jobs) < ResultSlots
    /\ IsNewer(r)
    /\ lastScheduled' = [lastScheduled EXCEPT ![r.prober][r.check] = r.at]
    /\ jobs' = jobs \cup {[res |-> r, stage |-> "accepted",
                           votes |-> OnlyVote(r), asked |-> {},
                           kind |-> "none"]}
    /\ UNCHANGED <<target, sent, isolated, status, since>>

(* Process, up to the mutex: an isolated prober's result goes no further.  *)
Begin(j) ==
    /\ j.stage = "accepted"
    /\ \/ /\ j.res.prober \in isolated
          /\ Finish(j)
       \/ /\ j.res.prober \notin isolated
          /\ Become(j, [j EXCEPT !.stage = "locking"])
    /\ UNCHANGED <<target, sent, isolated, lastScheduled, status, since>>

(* A result that waits longer than ResultMaxAge is no evidence any more.   *)
Expire(j) ==
    /\ j.stage \in {"locking", "queueing", "asking"}
    /\ j.votes[j.res.prober] # NoVote
    /\ Become(j, [j EXCEPT !.votes[j.res.prober] = NoVote])
    /\ UNCHANGED <<target, sent, isolated, lastScheduled, status, since>>

(* A failure is corroborated unless this result alone decides it, a warning *)
(* unless it is already decided, and a recovery unless one vote is a quorum. *)
NeedsCorroboration(j) ==
    LET single == Verdict(j.votes, isolated)
        decided == status[j.res.check]
        says == j.res.says
    IN \/ says = "down" /\ single # "down"
       \/ says = "warning" /\ single # "warning" /\ decided # "warning"
       \/ says = "up" /\ decided \in {"down", "warning"} /\ Agree > 1

(* decide takes the mutex and works out whether to ask anybody.            *)
Lock(j) ==
    /\ j.stage = "locking"
    /\ Unlocked(j.res.check)
    /\ \/ /\ ~NeedsCorroboration(j)
          /\ Become(j, [j EXCEPT !.stage = "deciding"])
       \/ /\ NeedsCorroboration(j)
          /\ \E S \in Corroborators(j.res.prober) :
               Become(j, [j EXCEPT !.stage = IF S = {} THEN "deciding"
                                             ELSE "queueing",
                                   !.asked = S])
    /\ UNCHANGED <<target, sent, isolated, lastScheduled, status, since>>

FanOuts == {j \in jobs : j.stage = "asking"}

StartFanOut(j) ==
    /\ j.stage = "queueing"
    /\ Cardinality(FanOuts) < FanOutSlots
    /\ Become(j, [j EXCEPT !.stage = "asking"])
    /\ UNCHANGED <<target, sent, isolated, lastScheduled, status, since>>

(* No slot came free within FanOutTimeout: decide without corroboration.   *)
FanOutExhausted(j) ==
    /\ j.stage = "queueing"
    /\ Cardinality(FanOuts) >= FanOutSlots
    /\ Become(j, [j EXCEPT !.stage = "deciding", !.asked = {}])
    /\ UNCHANGED <<target, sent, isolated, lastScheduled, status, since>>

HeardOneMore(j, p) == IF j.asked = {} THEN "deciding" ELSE "asking"

(* With the last corroborator heard or given up, wg.Wait returns.          *)
Heard(j, p) == IF j.asked = {p} THEN "deciding" ELSE "asking"

Answer(j, p) ==
    /\ j.stage = "asking"
    /\ p \in j.asked
    /\ \E says \in Reports(p, j.res.check) :
         Become(j, [j EXCEPT !.stage = Heard(j, p), !.asked = @ \ {p},
                             !.votes[p] = says])
    /\ UNCHANGED <<target, sent, isolated, lastScheduled, status, since>>

(* Refused, lost, timed out, not verifiable or "unknown": not a vote.       *)
NoAnswer(j, p) ==
    /\ j.stage = "asking"
    /\ p \in j.asked
    /\ Become(j, [j EXCEPT !.stage = Heard(j, p), !.asked = @ \ {p}])
    /\ UNCHANGED <<target, sent, isolated, lastScheduled, status, since>>

(* The verdict of a decision: the evidence, except that the owner repeating *)
(* a decided warning keeps it, and that ending an outage or a warning takes *)
(* a quorum of probers that the target answered.                            *)
Conclusion(j) ==
    LET decided == status[j.res.check]
        verdict == Verdict(j.votes, isolated)
    IN IF verdict # "up" \/ decided \notin {"down", "warning"} THEN verdict
       ELSE IF decided = "warning" /\ j.res.says = "warning" THEN "warning"
       ELSE IF RecoveryConfirmed(j.votes, isolated) THEN "up"
       ELSE "unknown"

(* apply: the alert that goes with a change of status.                     *)
Transition(from, to) ==
    CASE to = "down" /\ from # "down"                   -> "down"
      [] to \in {"up", "warning"} /\ from = "down"      -> "recovered"
      [] to = "warning" /\ from \in {"up", "unknown"}   -> "warning"
      [] to = "up" /\ from = "warning"                  -> "warning-cleared"
      [] OTHER                                          -> "none"

(* The rest of decide: apply, then release of the mutex.                   *)
Conclude(j) ==
    LET c == j.res.check
        verdict == Conclusion(j)
        decided == IF verdict = "unknown" THEN status[c] ELSE verdict
        kind == Transition(status[c], decided)
    IN /\ j.stage = "deciding"
       /\ status' = [status EXCEPT ![c] = decided]
       /\ since' = IF decided = status[c] THEN since
                   ELSE [since EXCEPT ![c] = {target[c]}]
       /\ IF kind = "none" THEN Finish(j)
          ELSE Become(j, [j EXCEPT !.stage = "emitting", !.kind = kind])
       /\ UNCHANGED <<target, sent, isolated, lastScheduled>>

(* Process, after the mutex: emit the alert, return the result slot.  What *)
(* becomes of an emitted alert is the subject of another module.           *)
Emit(j) ==
    /\ j.stage = "emitting"
    /\ Finish(j)
    /\ UNCHANGED <<target, sent, isolated, lastScheduled, status, since>>

-----------------------------------------------------------------------------
Environment ==
    \/ \E c \in Check : TargetMoves(c)
    \/ \E p \in Cuttable : Isolate(p) \/ Rejoin(p)
    \/ \E p \in Owners, c \in Check : Probe(p, c)

AskStep(j) == \E p \in Prober : Answer(j, p) \/ NoAnswer(j, p)

JobStep(j) ==
    \/ Begin(j)
    \/ StartFanOut(j) \/ FanOutExhausted(j)
    \/ AskStep(j)
    \/ Conclude(j)
    \/ Emit(j)

Next ==
    \/ Environment
    \/ \E r \in sent : Accept(r)
    \/ \E j \in jobs : JobStep(j) \/ Lock(j) \/ Expire(j)

Spec == Init /\ [][Next]_vars

(* A goroutine runs when it can: fan-outs and corroborators are bounded by *)
(* FanOutTimeout, and a sync.Mutex hands over to its longest waiter, which *)
(* is strong fairness of taking it.                                        *)
Fairness ==
    \A p \in Owners, c \in Check, at \in 1..MaxProbe :
        LET mine == {j \in jobs : /\ j.res.prober = p
                                  /\ j.res.check = c
                                  /\ j.res.at = at}
        IN /\ WF_vars(\E j \in mine : JobStep(j))
           /\ SF_vars(\E j \in mine : Lock(j))

FairSpec == Spec /\ Fairness

-----------------------------------------------------------------------------
(* Properties.                                                             *)

(* decide holds the check's mutex from the first look at its status to the *)
(* change of it (coordinator.go:703-706): no two decisions about one check *)
(* overlap, or one would act on a status and a fan-out the other has made  *)
(* obsolete.                                                               *)
OneDecisionAtATime ==
    \A j, k \in jobs :
        /\ j.stage \in Deciding
        /\ k.stage \in Deciding
        /\ j.res.check = k.res.check
        => j = k

(* The promise of TruthfulMonitor: where the probers with a broken view    *)
(* and any one other make no quorum (TrustworthyQuorum), whatever order    *)
(* the goroutines run in and whatever the network does to results, the     *)
(* decided status is something the target has been since the decision      *)
(* before.  The one other is the reporter, whose result may be old.        *)
TrustworthyQuorum == \A p \in Prober : ~HasQuorum(Flaky \cup {p})

Monitor == INSTANCE TruthfulMonitor
    WITH Check <- Check, target <- target, status <- status, since <- since

Truthful == Monitor!Spec

(* A decided outage ends only if the target has answered since it was      *)
(* decided: no old all-clear undoes a newer outage (handlers.go:69-71).    *)
OutagesEndTruly ==
    [][\A c \in Check :
         status[c] = "down" /\ status'[c] # "down" =>
             since[c] \cap {"up", "warning"} # {}]_vars

(* Every admitted result is decided and its alert emitted: no goroutine    *)
(* waits for ever on the mutex, on a fan-out slot or on a corroborator.    *)
AdmittedResultsFinish ==
    \A p \in Owners, c \in Check, at \in 1..MaxProbe :
        (\E j \in jobs : j.res.prober = p /\ j.res.check = c /\ j.res.at = at)
            ~> ~(\E j \in jobs : j.res.prober = p /\ j.res.check = c
                                 /\ j.res.at = at)
=============================================================================
