------------------------------ MODULE Mutexes ------------------------------
(***************************************************************************)
(* Who waits for whom in the coordinator: the mutexes that are held while  *)
(* something slow goes on or while another is taken.  There is one for     *)
(* each check and component (held through the corroboration),              *)
(* deliveryMu (held through the sends), persistMu (through the write of    *)
(* the state), historyMu (through an append), catalogMu and haMu.  A       *)
(* goroutine is the list of what it still has to take, to free or to wait  *)
(* for.  mu, authMu and checksMu are never held while anything is awaited, *)
(* and are left out.                                                       *)
(***************************************************************************)
EXTENDS Naturals, Sequences, SequencesExt, FiniteSets

CONSTANTS
    Member,      \* checks, the members of one component
    Goroutine    \* what runs: a function to the kinds of goroutine, by name

Entity == Member \cup {"component"}
Lone == {"deliveryMu", "persistMu", "historyMu", "catalogMu", "haMu"}
Mutex == Entity \cup Lone

Nobody == "nobody"

MutexesAssumption ==
    /\ IsFiniteSet(Member) /\ Member \cap (Lone \cup {"component"}) = {}
    /\ Nobody \notin DOMAIN Goroutine
    /\ \A g \in DOMAIN Goroutine : Goroutine[g] \in {"result", "others"}

VARIABLES
    program,     \* what is left to do of each goroutine
    holder       \* who holds each mutex

vars == <<program, holder>>

Take(k) == <<[op |-> "take", what |-> k]>>
Free(k) == <<[op |-> "free", what |-> k]>>
Await == <<[op |-> "await", what |-> "answer"]>>
Within(k, ops) == Take(k) \o ops \o Free(k)

\* Each of a set under its own mutex, one at a time, in some fixed order.
OneByOne(set) ==
    [i \in 1 .. 2 * Cardinality(set) |->
        [op |-> IF i % 2 = 1 THEN "take" ELSE "free", what |-> SetToSeq(set)[(i + 1) \div 2]]]

\* persistState: the snapshot takes the entities' mutexes while it holds
\* persistMu, then the file is written.
Persist == Within("persistMu", OneByOne(Entity) \o Await)

\* emit: recordIncident, persist, and deliver: a send, or a failed send queued.
Emit ==
    Within("deliveryMu", <<>>) \o Persist \o Within("deliveryMu", Await \o Persist)

\* checkStatuses, the component's own mutex, and members for the alert.
RollUp == OneByOne(Member) \o Within("component", <<>>)
RollUpAndEmit == RollUp \o OneByOne(Member) \o OneByOne(Member) \o Emit

RecordObservation == Within("historyMu", Await)
Corroborate == Await \o RecordObservation

\* Mutant: the component is rolled up before the check's mutex is released.
RollUpInside(c) ==
    {Within(c, Corroborate \o roll) \o RecordObservation \o Persist :
        roll \in {RollUp, RollUpAndEmit}}

\* Process: the check is decided under its mutex, and rolled up outside it.
Process(c) ==
    {Within(c, Corroborate) \o RecordObservation \o roll \o Persist :
        roll \in {RollUp, RollUpAndEmit}}

\* What a goroutine of each kind may be asked to do.
Programs(kind) ==
    CASE kind = "result"   -> UNION {Process(c) : c \in Member}
      [] kind = "others"   ->  \* courier, acknowledgement, catalogue, promotion, late replica
            {Within("deliveryMu", Persist \o Await \o Persist),
             Within("deliveryMu", Persist), Within("catalogMu", Persist),
             Within("haMu", Persist), Within("haMu", RecordObservation \o Persist)}

TypeOK ==
    /\ \A g \in DOMAIN Goroutine : \A i \in DOMAIN program[g] :
          program[g][i].op = "await" \/ program[g][i].what \in Mutex
    /\ holder \in [Mutex -> DOMAIN Goroutine \cup {Nobody}]

Init ==
    /\ program = [g \in DOMAIN Goroutine |-> <<>>]
    /\ holder = [k \in Mutex |-> Nobody]
-----------------------------------------------------------------------------
Begin(g) ==
    /\ program[g] = <<>>
    /\ \E ops \in Programs(Goroutine[g]) : program' = [program EXCEPT ![g] = ops]
    /\ UNCHANGED holder

Does(g, op) == program[g] # <<>> /\ Head(program[g]).op = op
Goes(g) == program' = [program EXCEPT ![g] = Tail(@)]

Lock(g) ==
    /\ Does(g, "take") /\ holder[Head(program[g]).what] = Nobody
    /\ holder' = [holder EXCEPT ![Head(program[g]).what] = g]
    /\ Goes(g)

Unlock(g) ==
    /\ Does(g, "free")
    /\ holder' = [holder EXCEPT ![Head(program[g]).what] = Nobody]
    /\ Goes(g)

\* The destination, the corroborators or the disk have answered, or a timeout has.
Answered(g) == Does(g, "await") /\ Goes(g) /\ UNCHANGED holder

Next ==
    \E g \in DOMAIN Goroutine : Begin(g) \/ Lock(g) \/ Unlock(g) \/ Answered(g)

Spec == Init /\ [][Next]_vars
-----------------------------------------------------------------------------
\* No goroutines wait for one another in a circle, with mutexes held through
\* corroborations, sends and writes ("two results arriving for sibling checks
\* at the same instant would each want the other's lock"): in every group of
\* goroutines one is not waiting for another of them.
WaitsFor(g) == IF Does(g, "take") THEN holder[Head(program[g]).what] ELSE Nobody

NoCircle ==
    \A group \in (SUBSET DOMAIN Goroutine) \ {{}} : \E g \in group : WaitsFor(g) \notin group
=============================================================================
