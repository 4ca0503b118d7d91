------------------------------- MODULE Rollup -------------------------------
(***************************************************************************)
(* A component over checks (component.go, check/component.go): it alerts   *)
(* in the place of its members.  The goroutine that moved a member reads   *)
(* the members one after the other, each under its own mutex, and applies  *)
(* the roll under the component's: rolls of several goroutines interleave. *)
(* What the mutexes make wait is in Mutexes.                               *)
(***************************************************************************)
EXTENDS Naturals, FiniteSets

CONSTANTS
    Member,      \* the members of the component
    DownIf,      \* its rule: "any", "all" or "quorum"
    DownAt,      \* failing members that make it down, under "quorum"
    Worker,      \* goroutines of results and of the watchdog
    MaxMoves     \* bound: moves of what the checks say

RollupAssumption ==
    /\ IsFiniteSet(Member) /\ DownIf \in {"any", "all", "quorum"}
    /\ DownAt \in 1 .. Cardinality(Member) /\ MaxMoves \in Nat

Status == {"unknown", "up", "warning", "down"}

VARIABLES
    decided,     \* the decided status of each check
    stale,       \* the checks flagged as stale
    component,   \* the decided status of the component
    roll,        \* what each goroutine has read of the members
    moves

vars == <<decided, stale, component, roll, moves>>

Idle == [at |-> "idle"]
Reading(read) == [at |-> "reading", read |-> read]

TypeOK ==
    /\ decided \in [Member -> Status] /\ stale \subseteq Member /\ component \in Status
    /\ \A w \in Worker :
          roll[w] = Idle \/ \E S \in SUBSET Member : roll[w].read \in [S -> Status]
    /\ moves \in 0 .. MaxMoves

Init ==
    /\ decided = [c \in Member |-> "unknown"] /\ stale = {} /\ component = "unknown"
    /\ roll = [w \in Worker |-> Idle] /\ moves = 0
-----------------------------------------------------------------------------
\* entityState.reported
Reported(c) == IF c \in stale THEN "unknown" ELSE decided[c]

\* Component.isDown and Component.Roll, of what was read of the members.
IsDown(down) ==
    CASE DownIf = "any"    -> down # {}
      [] DownIf = "all"    -> down = Member
      [] DownIf = "quorum" -> Cardinality(down) >= DownAt

Roll(status) ==
    LET said(s) == {c \in Member : status[c] = s}
    IN  IF IsDown(said("down"))                         THEN "down"
        ELSE IF \/ said("unknown") # {}
                \/ said("up") \cup said("warning") = {} THEN "unknown"
        ELSE IF said("warning") # {}                    THEN "warning"
        ELSE                                                 "up"

\* entityState.apply: what is inconclusive moves nothing.
Applied(old, new) == IF new = "unknown" THEN old ELSE new

RollUp == Reading([c \in {} |-> "unknown"])

\* What follows a decision that moved the check from old to new.
\* Mutant: only what is news about the check is rolled up.
AfterNews(old, new) ==
    IF old = new \/ (old = "unknown" /\ new = "up") THEN Idle ELSE RollUp

AfterDecision(old, new) == RollUp

\* process: a verdict on the check, whose mutex is released before the roll.
Decide(w, c, verdict) ==
    /\ roll[w] = Idle
    /\ decided' = [decided EXCEPT ![c] = Applied(@, verdict)]
    /\ stale' = stale \ {c}
    /\ LET moved == decided' # decided \/ stale' # stale
       IN  /\ moved => moves < MaxMoves
           /\ moves' = IF moved THEN moves + 1 ELSE moves
    /\ roll' = [roll EXCEPT ![w] = AfterDecision(decided[c], decided'[c])]
    /\ UNCHANGED component

\* CheckStaleness: a check that has gone quiet is flagged, and rolled up.
Flag(w, c) ==
    /\ roll[w] = Idle /\ c \notin stale
    /\ moves < MaxMoves /\ moves' = moves + 1
    /\ stale' = stale \cup {c}
    /\ roll' = [roll EXCEPT ![w] = RollUp]
    /\ UNCHANGED <<decided, component>>

\* checkStatuses: one member after the other, in the order configured.
ReadMember(w) ==
    /\ roll[w] # Idle /\ DOMAIN roll[w].read # Member
    /\ LET read == roll[w].read
           c == CHOOSE c \in Member : c \notin DOMAIN read
       IN  roll' = [roll EXCEPT ![w] = Reading(
               [m \in DOMAIN read \cup {c} |-> IF m = c THEN Reported(c) ELSE read[m]])]
    /\ UNCHANGED <<decided, stale, component, moves>>

\* rollUp: the roll was computed before the component's mutex is taken.
ApplyRoll(w) ==
    /\ roll[w] # Idle /\ DOMAIN roll[w].read = Member
    /\ component' = Applied(component, Roll(roll[w].read))
    /\ roll' = [roll EXCEPT ![w] = Idle]
    /\ UNCHANGED <<decided, stale, moves>>

RollStep(w) == ReadMember(w) \/ ApplyRoll(w)
Result == \E w \in Worker, c \in Member, verdict \in Status : Decide(w, c, verdict)

Next ==
    \/ Result
    \/ \E w \in Worker : RollStep(w) \/ \E c \in Member : Flag(w, c)

\* Goroutines come to their end (Mutexes!NoCircle), and results keep coming,
\* about some member at least (ProberAgent!SchedulesRun).
Fairness == (\A w \in Worker : WF_vars(RollStep(w))) /\ WF_vars(Result)

Spec == Init /\ [][Next]_vars
FairSpec == Spec /\ Fairness
-----------------------------------------------------------------------------
\* An older roll may be applied after a newer one, over statuses that never
\* held together (rollUp computes the roll before it takes the component's
\* mutex).  Still, once the checks keep still, the component comes to say what
\* they say, unless they say nothing.
ComponentFollows ==
    LET now == Roll([c \in Member |-> Reported(c)]) IN
    <>[](now = "unknown" \/ component = now)
=============================================================================
