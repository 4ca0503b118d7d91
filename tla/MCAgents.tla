------------------------------ MODULE MCAgents ------------------------------
(***************************************************************************)
(* What must go on for ever: the schedules of a prober, and the roll-up of *)
(* a component whose members move.  One of the two moves in a behaviour.   *)
(***************************************************************************)
EXTENDS ProberAgent

VARIABLE machine    \* the one that moves

(* The prober has the names of its module: two checks in two versions and  *)
(* a request on one slot; a stopped schedule may outlive its successor.    *)

(* Two members, either of which makes the component fail.                  *)
VARIABLES decided, stale, component, roll, moves
rollupVars == <<decided, stale, component, roll, moves>>
Component == INSTANCE Rollup WITH
    Member <- {"c", "d"}, DownIf <- "any", DownAt <- 1, Worker <- {"v", "w"}, MaxMoves <- 3

ASSUME Assumptions == Component!RollupAssumption

AgentsInit == machine \in {"prober", "rollup"} /\ Init /\ Component!Init
agentsVars == <<machine, vars, rollupVars>>

AgentsNext ==
    /\ UNCHANGED machine
    /\ \/ machine = "prober" /\ Next /\ UNCHANGED rollupVars
       \/ machine = "rollup" /\ Component!Next /\ UNCHANGED vars

\* The Fairness of ProberAgent and of Rollup, of the machine that moves.
InProber(A) == machine = "prober" /\ A /\ UNCHANGED <<machine, rollupVars>>
InRollup(A) == machine = "rollup" /\ A /\ UNCHANGED <<machine, vars>>
AgentsSpec ==
    /\ AgentsInit /\ [][AgentsNext]_agentsVars
    /\ \A l \in Loop :
          /\ WF_agentsVars(InProber(GoesOn(l)))
          /\ SF_agentsVars(InProber(TakeSlot(l))) /\ SF_agentsVars(InProber(Return(l)))
    /\ \A h \in Handler : WF_agentsVars(InProber(AcceptRequest(h) \/ ServeEnds(h)))
    /\ \A w \in {"v", "w"} : WF_agentsVars(InRollup(Component!RollStep(w)))
    /\ WF_agentsVars(InRollup(Component!Result))
-----------------------------------------------------------------------------
(* Of the prober the run checks ProberAgent's own SubmitsWhatIsAssigned and *)
(* SchedulesRun.                                                           *)

\* A component comes to what its members roll up to (Rollup: rollUp).
ComponentFollows == machine = "rollup" => Component!ComponentFollows
=============================================================================
