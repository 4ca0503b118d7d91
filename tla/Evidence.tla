------------------------------ MODULE Evidence ------------------------------
(***************************************************************************)
(* The evidence rules of internal/quorum: which probers' results count,    *)
(* how many of them are independent of one another, and what status they   *)
(* establish together.  Everything here is pure; the state machines that   *)
(* gather the evidence are in other modules.                               *)
(*                                                                         *)
(* The results given to quorum.Evaluate are at most one per prober (the    *)
(* code keeps the newest), so they are a function from probers to what the *)
(* prober said, NoVote where it said nothing usable.                       *)
(***************************************************************************)
EXTENDS Naturals, FiniteSets

CONSTANTS
    Prober,             \* the registered probers
    Provider,           \* Provider[p]: the hosting provider registered for p
    Exit,               \* Exit[p]: the network exit p's probes leave through
    DistinctProviders,  \* the check's quorum.distinct_providers
    Agree,              \* the check's quorum.agree
    Of,                 \* the check's quorum.of
    NoVote              \* no usable result from this prober

Opinion == {"up", "warning", "down"}
Status == Opinion \cup {"unknown"}
Ballot == Status \cup {NoVote}

ASSUME EvidenceAssumption ==
    /\ IsFiniteSet(Prober)
    /\ DistinctProviders \in BOOLEAN
    /\ Agree \in Nat \ {0}
    /\ Of \in Nat \ {0}
    /\ NoVote \notin Status

-----------------------------------------------------------------------------
(* No two of these probers share an exit, nor a provider where the check   *)
(* asks for distinct ones.                                                 *)
Independent(S) ==
    \A p, q \in S : p # q =>
        /\ Exit[p] # Exit[q]
        /\ DistinctProviders => Provider[p] # Provider[q]

(* satisfies: the largest independent set among S reaches Agree.           *)
HasQuorum(S) ==
    \E W \in SUBSET S : Independent(W) /\ Cardinality(W) >= Agree

(* The probers that are not cut off and whose vote is one of `said`.       *)
Voters(votes, isolated, said) ==
    {p \in Prober \ isolated : votes[p] \in said}

(* Evaluate: down as soon as a quorum says so; a minority of down votes is *)
(* inconclusive; a warning needs the same quorum as an outage.             *)
Verdict(votes, isolated) ==
    LET said(statuses) == Voters(votes, isolated, statuses) IN
    IF HasQuorum(said({"down"}))         THEN "down"
    ELSE IF \/ said(Opinion) = {}
            \/ said({"down"}) # {}       THEN "unknown"
    ELSE IF HasQuorum(said({"warning"})) THEN "warning"
    ELSE                                      "up"

(* A mutant: the slip of taking any one vote for a confirmation.           *)
RecoveryOnOneWord(votes, isolated) ==
    Voters(votes, isolated, {"up", "warning"}) # {}

(* recoveryConfirmed: up and warning both say that the target answered.    *)
RecoveryConfirmed(votes, isolated) ==
    HasQuorum(Voters(votes, isolated, {"up", "warning"}))

-----------------------------------------------------------------------------
(* corroborators: whom to ask beside the reporter.  At most Of - 1 peers,  *)
(* chosen so that as many of them as possible are independent of the       *)
(* reporter and of one another: one prober of each provider not yet        *)
(* represented, and for a proxied check one of each further exit.  Within  *)
(* that rule the code follows the configuration order, left open here.     *)
Corroborators(reporter) ==
    LET candidates == Prober \ {reporter}
        want == IF Of - 1 <= Cardinality(candidates)
                THEN Of - 1 ELSE Cardinality(candidates)
        useful(W) == Independent(W \cup {reporter})
    IN {S \in SUBSET candidates :
          /\ Cardinality(S) = want
          /\ \E W \in SUBSET S :
               /\ useful(W)
               /\ \/ Cardinality(W) = want
                  \/ \A V \in SUBSET candidates :
                       useful(V) => Cardinality(V) <= Cardinality(W)}
=============================================================================
