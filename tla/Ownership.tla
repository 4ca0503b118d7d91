----------------------------- MODULE Ownership -----------------------------
(***************************************************************************)
(* Who runs which check: the assignment of checks to probers (assign.go),  *)
(* the mesh reports that isolate a prober (mesh.go), the watchdog that     *)
(* declares probers silent (watchdog.go), and the probers that fetch their *)
(* assignments and run them (internal/prober).                             *)
(*                                                                         *)
(* Time passes in ticks.  In each tick every prober that can do so sends   *)
(* one mesh report, fetches its assignments once and runs each of its      *)
(* checks once, and the watchdog looks once, in any order.  A prober that  *)
(* cannot reach the coordinator does none of it.                           *)
(***************************************************************************)
EXTENDS Naturals, FiniteSets, Functions

CONSTANTS
    Prober,          \* the probers eligible for the checks; the mesh may have more
    Check,           \* the checks
    Preferred,       \* Preferred[c]: baseAssignedTo, the owner while it can
    Rank,            \* Rank[c][p]: the rendezvous weight of p for c
    StaleAfter,      \* ticks a check may go without a verdict
    MeshMaxAge,      \* ticks a mesh report counts
    MaxFaults,       \* bound: changes of what a prober can do
    Calm             \* bound: ticks without a fault that are told apart

ASSUME OwnershipAssumption ==
    /\ IsFiniteSet(Prober)
    /\ Preferred \in [Check -> Prober]
    /\ Rank \in [Check -> [Prober -> Nat]]
    /\ \A c \in Check, p, q \in Prober : Rank[c][p] = Rank[c][q] => p = q
    /\ StaleAfter \in Nat \ {0}
    /\ MeshMaxAge \in Nat
    /\ MaxFaults \in Nat
    /\ Calm \in Nat

VARIABLES
    mode,        \* mode[p]: what prober p can do
    running,     \* running[p]: the checks p has loops for
    todo,        \* what the probers and the watchdog have yet to do in this tick
    admitted,    \* results admitted and not yet processed
    quietFor,    \* quietFor[c]: ticks since lastVerdict, or since the start
    view,        \* view[p]: what the latest mesh report of p says
    viewAge,     \* viewAge[p]: ticks since that report
    announced,   \* meshState.isolated: the isolations alerted on
    silent,      \* the probers declared not to be reporting
    chance,      \* chance[p]: ticks since recoveryStarted, NoChance if unset
    found,       \* the stale checks the watchdog is about to act on
    faults,      \* history: faults[p], how often the mode of p changed
    calm         \* history: ticks since the last fault

vars == <<mode, running, todo, admitted, quietFor, view, viewAge, announced,
          silent, chance, found, faults, calm>>

(* well: the prober reaches everything; cut: it reaches the coordinator    *)
(* and no peer; away: it does not reach the coordinator; stopped: its      *)
(* process does not run.                                                   *)
Mode == {"well", "cut", "away", "stopped"}
Connected == {"well", "cut"}

NoChance == StaleAfter + 2

Report(p)   == [does |-> "report", by |-> p]
Fetch(p)    == [does |-> "fetch", by |-> p]
Run(p, c)   == [does |-> "run", by |-> p, check |-> c]
Look        == [does |-> "look"]
Act         == [does |-> "act"]
Task == {Report(p) : p \in Prober} \cup {Fetch(p) : p \in Prober}
        \cup {Run(p, c) : p \in Prober, c \in Check} \cup {Look, Act}

TypeOK ==
    /\ mode \in [Prober -> Mode]
    /\ running \in [Prober -> SUBSET Check]
    /\ todo \subseteq Task
    /\ admitted \subseteq Prober \X Check
    /\ quietFor \in [Check -> 0..StaleAfter + 1]
    /\ view \in [Prober -> {"none", "sees", "cut"}]
    /\ viewAge \in [Prober -> 0..MeshMaxAge]
    /\ announced \subseteq Prober
    /\ silent \subseteq Prober
    /\ chance \in [Prober -> 0..NoChance]
    /\ found \subseteq Check
    /\ faults \in [Prober -> Nat]
    /\ calm \in 0..Calm

Work(p, its) == {Report(p), Fetch(p)} \cup {Run(p, c) : c \in its}

(* The fleet as it is after it has settled down.                           *)
Init ==
    /\ mode = [p \in Prober |-> "well"]
    /\ running = [p \in Prober |-> {c \in Check : Preferred[c] = p}]
    /\ todo = {Look} \cup UNION {Work(p, running[p]) : p \in Prober}
    /\ admitted = {}
    /\ quietFor = [c \in Check |-> 0]
    /\ view = [p \in Prober |-> "sees"]
    /\ viewAge = [p \in Prober |-> 0]
    /\ announced = {}
    /\ silent = {}
    /\ chance = [p \in Prober |-> NoChance]
    /\ found = {}
    /\ faults = [p \in Prober |-> 0]
    /\ calm = 0

-----------------------------------------------------------------------------
(* Assignment.                                                             *)

(* isolatedProbers: mesh.Evaluate over the reports that are fresh enough.  *)
Isolated == {p \in Prober : view[p] = "cut"}

Unavailable == Isolated \cup silent

(* meshRecoveryActive.                                                     *)
HasChance(p) == chance[p] <= StaleAfter

Heaviest(c, S) == CHOOSE p \in S : \A q \in S : Rank[c][q] <= Rank[c][p]

(* Mutants are named for the slip they stand for, and come just before the *)
(* definition they mutate.                                                 *)
AssignedDespiteSilence(c) ==
    LET others == Prober \ Isolated
    IN IF Preferred[c] \in others THEN {Preferred[c]}
       ELSE IF others = {} THEN {}
       ELSE {Heaviest(c, others)}

(* assignedTo, as the set of the prober it names, if any.                  *)
Assigned(c) ==
    LET owner == Preferred[c]
        others == Prober \ Unavailable
    IN IF owner \notin Unavailable \/ HasChance(owner) THEN {owner}
       ELSE IF others = {} THEN {}
       ELSE {Heaviest(c, others)}

(* handleResult: an owner that comes back may report before it is assigned. *)
Admissible(p, c) ==
    \/ p \in Assigned(c)
    \/ p = Preferred[c] /\ p \in silent

-----------------------------------------------------------------------------
(* Probers.                                                                *)

FetchedButKept(p) == running[p] \cup {c \in Check : p \in Assigned(c)}

(* checksFor.                                                              *)
Fetched(p) == {c \in Check : p \in Assigned(c)}

(* WatchAssignments: a check that is new here is run at once.              *)
FetchAssignments(p) ==
    LET mine == Fetched(p)
        new == {Run(p, c) : c \in mine \ running[p]}
        dropped == {Run(p, c) : c \in Check \ mine}
    IN /\ Fetch(p) \in todo
       /\ running' = [running EXCEPT ![p] = mine]
       /\ todo' = ((todo \ {Fetch(p)}) \ dropped) \cup new
       /\ UNCHANGED <<mode, admitted, quietFor, view, viewAge, announced,
                      silent, chance, found, faults, calm>>

(* runLoop and handleResult: the result is admitted, or lost.              *)
Submit(p, c) ==
    /\ Run(p, c) \in todo
    /\ todo' = todo \ {Run(p, c)}
    /\ admitted' = IF Admissible(p, c) THEN admitted \cup {<<p, c>>}
                   ELSE admitted
    /\ UNCHANGED <<mode, running, quietFor, view, viewAge, announced, silent,
                   chance, found, faults, calm>>

(* Process: the verdict of an isolated prober is not taken; any other      *)
(* result shows that its prober is reporting.                              *)
Process(p, c) ==
    /\ <<p, c>> \in admitted
    /\ admitted' = admitted \ {<<p, c>>}
    /\ IF p \in Isolated
       THEN UNCHANGED <<quietFor, silent, chance>>
       ELSE /\ chance' = [chance EXCEPT ![p] = NoChance]
            /\ silent' = silent \ {p}
            /\ quietFor' = [quietFor EXCEPT ![c] = 0]
    /\ UNCHANGED <<mode, running, todo, view, viewAge, announced, found,
                   faults, calm>>

NoChanceAtAll(p) == chance

(* beginMeshRecovery.                                                      *)
Chance(p) ==
    IF p \in silent /\ chance[p] = NoChance
    THEN [chance EXCEPT ![p] = 0] ELSE chance

ReportMeshEndsSilence(p) ==
    /\ Report(p) \in todo
    /\ todo' = todo \ {Report(p)}
    /\ view' = [view EXCEPT ![p] = IF mode[p] = "cut" THEN "cut" ELSE "sees"]
    /\ viewAge' = [viewAge EXCEPT ![p] = 0]
    /\ announced' = Isolated'
    /\ silent' = silent \ {p}
    /\ UNCHANGED <<mode, running, admitted, quietFor, chance, found, faults,
                   calm>>

(* meshRound and handleMesh: the report is stored, transitions of the mesh *)
(* are alerted on, and a silent prober that is not isolated gets a chance. *)
ReportMesh(p) ==
    /\ Report(p) \in todo
    /\ todo' = todo \ {Report(p)}
    /\ view' = [view EXCEPT ![p] = IF mode[p] = "cut" THEN "cut" ELSE "sees"]
    /\ viewAge' = [viewAge EXCEPT ![p] = 0]
    /\ announced' = Isolated'
    /\ chance' = IF p \in Isolated' THEN chance ELSE Chance(p)
    /\ UNCHANGED <<mode, running, admitted, quietFor, silent, found, faults, calm>>

-----------------------------------------------------------------------------
(* The watchdog.                                                           *)

(* staleChecks: the chance of the preferred owner excuses its checks.      *)
Stale(c) ==
    /\ quietFor[c] > StaleAfter
    /\ ~HasChance(Preferred[c])

WatchdogLooks ==
    /\ Look \in todo
    /\ todo' = (todo \ {Look}) \cup {Act}
    /\ found' = {c \in Check : Stale(c)}
    /\ UNCHANGED <<mode, running, admitted, quietFor, view, viewAge,
                   announced, silent, chance, faults, calm>>

BlamedAsAssigned == UNION {Assigned(c) : c \in found}

(* The preferred owners of the stale checks, whoever else may have them.   *)
Blamed == {Preferred[c] : c \in found}

(* applySilence.                                                           *)
WatchdogActs ==
    /\ Act \in todo
    /\ todo' = todo \ {Act}
    /\ found' = {}
    /\ silent' = silent \cup Blamed
    /\ UNCHANGED <<mode, running, admitted, quietFor, view, viewAge,
                   announced, chance, faults, calm>>

-----------------------------------------------------------------------------
(* The environment: faults and time.                                       *)

Faults == FoldFunction(LAMBDA n, sum : n + sum, 0, faults)

(* A process that starts has no loops, reports and fetches at once; one    *)
(* that finds the coordinator again goes on with the loops it has.         *)
Fault(p) ==
    \E m \in Mode \ {mode[p]} :
        /\ Faults < MaxFaults
        /\ faults' = [faults EXCEPT ![p] = @ + 1]
        /\ calm' = 0
        /\ mode' = [mode EXCEPT ![p] = m]
        /\ running' = IF m = "stopped" THEN [running EXCEPT ![p] = {}]
                      ELSE running
        /\ todo' = IF m \notin Connected THEN todo \ Work(p, Check)
                   ELSE IF mode[p] = "stopped" THEN todo \cup Work(p, {})
                   ELSE todo
        /\ UNCHANGED <<admitted, quietFor, view, viewAge, announced, silent,
                       chance, found>>

OlderForEver(age, limit) == age + 1

Older(age, limit) == IF age < limit THEN age + 1 ELSE age

(* A tick ends when all that is due in it has been done.                   *)
Tick ==
    /\ todo = {}
    /\ admitted = {}
    /\ todo' = {Look} \cup UNION {Work(p, running[p]) :
                                     p \in {q \in Prober : mode[q] \in Connected}}
    /\ quietFor' = [c \in Check |-> Older(quietFor[c], StaleAfter + 1)]
    /\ view' = [p \in Prober |-> IF viewAge[p] < MeshMaxAge THEN view[p]
                                 ELSE "none"]
    /\ viewAge' = [p \in Prober |-> Older(viewAge[p], MeshMaxAge)]
    /\ chance' = [p \in Prober |-> IF chance[p] = NoChance THEN NoChance
                                   ELSE Older(chance[p], StaleAfter + 1)]
    /\ calm' = Older(calm, Calm)
    /\ UNCHANGED <<mode, running, admitted, announced, silent, found, faults>>

Next ==
    \/ \E p \in Prober : FetchAssignments(p) \/ ReportMesh(p) \/ Fault(p)
    \/ \E p \in Prober, c \in Check : Submit(p, c) \/ Process(p, c)
    \/ WatchdogLooks \/ WatchdogActs
    \/ Tick

Spec == Init /\ [][Next]_vars

-----------------------------------------------------------------------------
(* Properties.                                                             *)

(* The one chance of a silent prober has passed without a result.          *)
Spent(p) == p \in silent /\ chance[p] = StaleAfter + 1

Settled == calm = Calm

(* When nothing has failed for a while, every check has a recent verdict   *)
(* as long as one prober can work: a check moves on from owners that are   *)
(* gone to one that is not (assign.go:56, acceptance.md:75).               *)
ChecksAreWatched ==
    Settled /\ (\E p \in Prober : mode[p] = "well" /\ ~Spent(p))
        => \A c \in Check : quietFor[c] <= StaleAfter

(* When nothing has failed for a while, each check is run by one prober,   *)
(* which is the whole cost argument (assign.go:13).                        *)
OneRunner ==
    Settled =>
        \A c \in Check : Cardinality({p \in Prober : /\ mode[p] \in Connected
                                                     /\ c \in running[p]}) <= 1

(* A prober that is well again has its preferred checks back, and is       *)
(* neither silent nor isolated any more, unless it missed its chance       *)
(* (acceptance.md:79-80).                                                  *)
HasItsPlace(p) ==
    /\ p \notin silent \cup Isolated \cup announced
    /\ {c \in Check : Preferred[c] = p} \subseteq running[p]

OwnersReturn ==
    Settled => \A p \in Prober :
        mode[p] = "well" /\ ~Spent(p) => HasItsPlace(p)

(* A prober that has been well all along is never declared silent.         *)
TheWellAreNotBlamed == \A p \in silent : faults[p] > 0

(* When nothing has failed for a while, no prober is declared silent any   *)
(* more: no endless NOT REPORTING/REPORTING oscillation                    *)
(* (coordinator.go:270-274).                                               *)
NoOscillation == [][Settled => silent' \subseteq silent]_vars
=============================================================================
