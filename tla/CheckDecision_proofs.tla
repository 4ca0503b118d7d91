------------------------ MODULE CheckDecision_proofs ------------------------
(***************************************************************************)
(* Proofs about CheckDecision, for every fleet of probers, every quorum    *)
(* and every capacity: the types, mutual exclusion of decisions, and that  *)
(* the coordinator implements TruthfulMonitor.                             *)
(***************************************************************************)
EXTENDS CheckDecision, TLAPS

(* Asking corroborators means asking registered probers.                   *)
LEMMA CorroboratorsAreProbers ==
    ASSUME NEW r \in Prober
    PROVE  Corroborators(r) \subseteq SUBSET Prober
BY DEF Corroborators

(* The verdict on any evidence is a status.                                *)
LEMMA VerdictIsStatus ==
    ASSUME NEW votes, NEW cut
    PROVE  Verdict(votes, cut) \in Status
BY DEF Verdict, Status, Opinion

(* So is what decide makes of it.                                          *)
LEMMA ConclusionIsStatus ==
    ASSUME NEW j
    PROVE  Conclusion(j) \in Status
BY VerdictIsStatus DEF Conclusion, Status, Opinion

(* Every alert is of a known kind.                                         *)
LEMMA TransitionIsKind ==
    ASSUME NEW from, NEW to
    PROVE  Transition(from, to) \in Kind
BY DEF Transition, Kind

(* What a prober reports is an opinion, as long as targets have one.       *)
LEMMA ReportsAreOpinions ==
    ASSUME TypeOK, NEW p \in Prober, NEW c \in Check
    PROVE  Reports(p, c) \subseteq Opinion
BY DEF Reports, TypeOK, Opinion

-----------------------------------------------------------------------------
(* Replacing a job by a well-typed one, or dropping it, keeps jobs typed.  *)
LEMMA BecomeTyped ==
    ASSUME jobs \subseteq Job, NEW j, NEW k \in Job, Become(j, k)
    PROVE  jobs' \subseteq Job
BY DEF Become

LEMMA InitTyped == Init => TypeOK
BY CheckDecisionAssumption DEF Init, TypeOK, Opinion, Status

LEMMA NextTyped == TypeOK /\ [Next]_vars => TypeOK'
<1> SUFFICES ASSUME TypeOK, [Next]_vars PROVE TypeOK'
    OBVIOUS
<1> USE CheckDecisionAssumption, EvidenceAssumption
<1>1. ASSUME NEW c \in Check, TargetMoves(c) PROVE TypeOK'
    BY <1>1 DEF TargetMoves, TypeOK
<1>2. ASSUME NEW p \in Cuttable, Isolate(p) \/ Rejoin(p) PROVE TypeOK'
    BY <1>2 DEF Isolate, Rejoin, TypeOK
<1>3. ASSUME NEW p \in Owners, NEW c \in Check, Probe(p, c) PROVE TypeOK'
    <2>1. PICK at \in 1..MaxProbe, says \in Reports(p, c) :
            sent' = sent \cup {[prober |-> p, check |-> c, at |-> at,
                                says |-> says]}
        BY <1>3 DEF Probe
    <2>2. says \in Opinion
        BY ReportsAreOpinions
    <2>3. sent' \subseteq Result
        BY <2>1, <2>2 DEF TypeOK, Result
    <2> QED
        BY <1>3, <2>3 DEF Probe, TypeOK
<1>4. ASSUME NEW r \in sent, Accept(r) PROVE TypeOK'
    <2>1. r \in Result
        BY DEF TypeOK
    <2>2. OnlyVote(r) \in [Prober -> Ballot]
        BY <2>1 DEF OnlyVote, Result, Ballot, Status
    <2>3. [res |-> r, stage |-> "accepted", votes |-> OnlyVote(r),
           asked |-> {}, kind |-> "none"] \in Job
        BY <2>1, <2>2 DEF Job, Stage, Kind
    <2>4. jobs' \subseteq Job
        BY <1>4, <2>3 DEF Accept, TypeOK
    <2>5. lastScheduled' \in [Prober -> [Check -> 0..MaxProbe]]
        BY <1>4, <2>1 DEF Accept, TypeOK, Result
    <2> QED
        BY <1>4, <2>4, <2>5 DEF Accept, TypeOK
<1>5. ASSUME NEW j \in jobs, JobStep(j) \/ Lock(j) \/ Expire(j) PROVE TypeOK'
    <2>1. j \in Job
        BY DEF TypeOK
    <2>2. /\ j.res \in Result
          /\ j.stage \in Stage
          /\ j.votes \in [Prober -> Ballot]
          /\ j.asked \subseteq Prober
          /\ j.kind \in Kind
        BY <2>1 DEF Job
    <2>3. j.res.prober \in Prober /\ j.res.check \in Check
        BY <2>2 DEF Result
    <2>4. CASE Begin(j) \/ StartFanOut(j) \/ FanOutExhausted(j) \/ Emit(j)
        <3>1. /\ [j EXCEPT !.stage = "locking"] \in Job
              /\ [j EXCEPT !.stage = "asking"] \in Job
              /\ [j EXCEPT !.stage = "deciding", !.asked = {}] \in Job
            BY <2>1 DEF Job, Stage
        <3>2. jobs' \subseteq Job
            BY <2>4, <3>1, BecomeTyped DEF Begin, StartFanOut,
                FanOutExhausted, Emit, Finish, TypeOK
        <3> QED
            BY <2>4, <3>2 DEF Begin, StartFanOut, FanOutExhausted, Emit, TypeOK
    <2>5. ASSUME NEW p \in Prober, Answer(j, p) PROVE TypeOK'
        <3>1. PICK says \in Reports(p, j.res.check) :
                Become(j, [j EXCEPT !.stage = Heard(j, p), !.asked = @ \ {p},
                                    !.votes[p] = says])
            BY <2>5 DEF Answer
        <3>2. says \in Ballot
            BY <2>3, ReportsAreOpinions DEF Ballot, Status
        <3>3. Heard(j, p) \in Stage
            BY DEF Heard, Stage
        <3>4. [j EXCEPT !.stage = Heard(j, p), !.asked = @ \ {p},
                        !.votes[p] = says] \in Job
            BY <2>1, <2>2, <3>2, <3>3 DEF Job
        <3>5. jobs' \subseteq Job
            BY <3>1, <3>4, BecomeTyped DEF TypeOK
        <3> QED
            BY <2>5, <3>5 DEF Answer, TypeOK
    <2>6. ASSUME NEW p \in Prober, NoAnswer(j, p) PROVE TypeOK'
        <3>1. Heard(j, p) \in Stage
            BY DEF Heard, Stage
        <3>2. [j EXCEPT !.stage = Heard(j, p), !.asked = @ \ {p}] \in Job
            BY <2>1, <2>2, <3>1 DEF Job
        <3>3. jobs' \subseteq Job
            BY <2>6, <3>2, BecomeTyped DEF NoAnswer, TypeOK
        <3> QED
            BY <2>6, <3>3 DEF NoAnswer, TypeOK
    <2>7. CASE Conclude(j)
        <3> DEFINE c == j.res.check
                   decided == IF Conclusion(j) = "unknown" THEN status[c]
                              ELSE Conclusion(j)
        <3>1. decided \in Status
            BY <2>3, ConclusionIsStatus DEF TypeOK
        <3>2. Transition(status[c], decided) \in Kind
            BY TransitionIsKind
        <3>3. [j EXCEPT !.stage = "emitting",
                        !.kind = Transition(status[c], decided)] \in Job
            BY <2>1, <2>2, <3>2 DEF Job, Stage
        <3>4. jobs' \subseteq Job
            BY <2>7, <3>3, BecomeTyped DEF Conclude, Finish, TypeOK
        <3>5. status' \in [Check -> Status]
            BY <2>7, <3>1 DEF Conclude, TypeOK
        <3>6. since' \in [Check -> SUBSET Opinion]
            BY <2>3, <2>7 DEF Conclude, TypeOK
        <3> QED
            BY <2>7, <3>4, <3>5, <3>6 DEF Conclude, TypeOK
    <2>8. CASE Lock(j)
        <3>1. ASSUME NEW S \in Corroborators(j.res.prober)
              PROVE  [j EXCEPT !.stage = IF S = {} THEN "deciding"
                                         ELSE "queueing",
                               !.asked = S] \in Job
            <4>1. S \subseteq Prober
                BY <2>3, CorroboratorsAreProbers
            <4> QED
                BY <2>1, <4>1 DEF Job, Stage
        <3>2. [j EXCEPT !.stage = "deciding"] \in Job
            BY <2>1 DEF Job, Stage
        <3>3. jobs' \subseteq Job
            BY <2>8, <3>1, <3>2, BecomeTyped DEF Lock, TypeOK
        <3> QED
            BY <2>8, <3>3 DEF Lock, TypeOK
    <2>9. CASE Expire(j)
        <3>1. [j EXCEPT !.votes[j.res.prober] = NoVote] \in Job
            BY <2>1, <2>2 DEF Job, Ballot
        <3>2. jobs' \subseteq Job
            BY <2>9, <3>1, BecomeTyped DEF Expire, TypeOK
        <3> QED
            BY <2>9, <3>2 DEF Expire, TypeOK
    <2> QED
        BY <1>5, <2>4, <2>5, <2>6, <2>7, <2>8, <2>9 DEF JobStep, AskStep
<1>6. CASE UNCHANGED vars
    BY <1>6 DEF vars, TypeOK
<1> QED
    BY <1>1, <1>2, <1>3, <1>4, <1>5, <1>6 DEF Next, Environment

(* Every variable keeps to its type: no handler builds a malformed job.    *)
THEOREM TypeCorrect == Spec => []TypeOK
BY InitTyped, NextTyped, PTL DEF Spec

-----------------------------------------------------------------------------
(* Mutual exclusion of decisions.                                          *)

(* A step that replaces a job by one of the same check cannot bring two    *)
(* decisions together, unless it starts one.                               *)
LEMMA BecomeExclusive ==
    ASSUME OneDecisionAtATime, NEW j \in jobs, NEW k, Become(j, k),
           k.res = j.res,
           k.stage \in Deciding =>
               j.stage \in Deciding \/ Unlocked(j.res.check)
    PROVE  OneDecisionAtATime'
BY DEF OneDecisionAtATime, Become, Unlocked

(* Nor does a step that only drops jobs or leaves them alone.              *)
LEMMA FewerJobsExclusive ==
    ASSUME OneDecisionAtATime, jobs' \subseteq jobs
    PROVE  OneDecisionAtATime'
BY DEF OneDecisionAtATime

LEMMA InitExclusive == Init => OneDecisionAtATime
BY DEF Init, OneDecisionAtATime

LEMMA NextExclusive ==
    TypeOK /\ OneDecisionAtATime /\ [Next]_vars => OneDecisionAtATime'
<1> SUFFICES ASSUME TypeOK, OneDecisionAtATime, [Next]_vars
             PROVE  OneDecisionAtATime'
    OBVIOUS
<1>1. CASE Environment \/ UNCHANGED vars
    <2>1. jobs' = jobs
        BY <1>1 DEF Environment, TargetMoves, Isolate, Rejoin, Probe, vars
    <2> QED
        BY <2>1, FewerJobsExclusive
<1>2. ASSUME NEW r \in sent, Accept(r) PROVE OneDecisionAtATime'
    BY <1>2 DEF Accept, OneDecisionAtATime, Deciding
<1>3. ASSUME NEW j \in jobs, JobStep(j) \/ Lock(j) \/ Expire(j)
      PROVE  OneDecisionAtATime'
    <2>1. j \in Job
        BY DEF TypeOK
    <2>2. ASSUME NEW k, Become(j, k), k.res = j.res,
                 k.stage \in Deciding =>
                     j.stage \in Deciding \/ Unlocked(j.res.check)
          PROVE  OneDecisionAtATime'
        BY <2>2, BecomeExclusive
    <2>3. ASSUME Finish(j) PROVE OneDecisionAtATime'
        BY <2>3, FewerJobsExclusive DEF Finish
    <2>4. CASE Begin(j)
        <3>1. /\ [j EXCEPT !.stage = "locking"].res = j.res
              /\ [j EXCEPT !.stage = "locking"].stage \notin Deciding
            BY <2>1 DEF Job, Deciding
        <3> QED
            BY <2>2, <2>3, <2>4, <3>1 DEF Begin
    <2>5. CASE StartFanOut(j) \/ FanOutExhausted(j)
        <3>1. /\ [j EXCEPT !.stage = "asking"].res = j.res
              /\ [j EXCEPT !.stage = "deciding", !.asked = {}].res = j.res
            BY <2>1 DEF Job
        <3>2. j.stage \in Deciding
            BY <2>5 DEF StartFanOut, FanOutExhausted, Deciding
        <3> QED
            BY <2>2, <2>5, <3>1, <3>2 DEF StartFanOut, FanOutExhausted
    <2>6. ASSUME NEW p \in Prober, Answer(j, p) \/ NoAnswer(j, p)
          PROVE  OneDecisionAtATime'
        <3>0. ASSUME NEW says
              PROVE  /\ [j EXCEPT !.stage = Heard(j, p), !.asked = @ \ {p},
                                  !.votes[p] = says].res = j.res
                     /\ [j EXCEPT !.stage = Heard(j, p),
                                  !.asked = @ \ {p}].res = j.res
            BY <2>1 DEF Job
        <3>1. PICK k : Become(j, k) /\ k.res = j.res
            BY <2>6, <3>0 DEF Answer, NoAnswer
        <3>2. j.stage \in Deciding
            BY <2>6 DEF Answer, NoAnswer, Deciding
        <3> QED
            BY <2>2, <3>1, <3>2
    <2>7. CASE Conclude(j)
        <3>1. PICK kind : LET k == [j EXCEPT !.stage = "emitting",
                                             !.kind = kind]
                          IN Finish(j) \/ Become(j, k)
            BY <2>7 DEF Conclude
        <3>2. /\ [j EXCEPT !.stage = "emitting", !.kind = kind].res = j.res
              /\ [j EXCEPT !.stage = "emitting", !.kind = kind].stage
                    \notin Deciding
            BY <2>1 DEF Job, Deciding
        <3> QED
            BY <2>2, <2>3, <3>1, <3>2
    <2>8. CASE Emit(j)
        BY <2>3, <2>8 DEF Emit
    <2>9. CASE Lock(j)
        <3>0. ASSUME NEW S
              PROVE  /\ [j EXCEPT !.stage = "deciding"].res = j.res
                     /\ [j EXCEPT !.stage = IF S = {} THEN "deciding"
                                            ELSE "queueing",
                                  !.asked = S].res = j.res
            BY <2>1 DEF Job
        <3>1. PICK k : Become(j, k) /\ k.res = j.res
            BY <2>9, <3>0 DEF Lock
        <3> QED
            BY <2>2, <2>9, <3>1 DEF Lock
    <2>10. CASE Expire(j)
        <3>1. LET k == [j EXCEPT !.votes[j.res.prober] = NoVote]
              IN k.res = j.res /\ k.stage = j.stage
            BY <2>1 DEF Job
        <3> QED
            BY <2>2, <2>10, <3>1 DEF Expire
    <2> QED
        BY <1>3, <2>4, <2>5, <2>6, <2>7, <2>8, <2>9, <2>10
           DEF JobStep, AskStep
<1> QED
    BY <1>1, <1>2, <1>3 DEF Next

(* The mutex of a check covers the whole of decide: two results about one  *)
(* check are never decided together.                                       *)
THEOREM DecisionsExclude == Spec => []OneDecisionAtATime
BY TypeCorrect, InitExclusive, NextExclusive, PTL DEF Spec
-----------------------------------------------------------------------------
(* The votes behind a decision.                                            *)

(* A prober whose word can be taken: neither broken nor cut off, nor the   *)
(* reporter, whose result may have waited while the target changed.        *)
Witness(j) == Prober \ (Flaky \cup isolated \cup {j.res.prober})

(* Nobody but the reporter has voted before a decision starts; what a      *)
(* witness said while the decision lasts, the target has been.             *)
VotesOf(j) ==
    /\ \A p \in Prober :
         j.stage \in {"accepted", "locking"} /\ p # j.res.prober
            => j.votes[p] = NoVote
    /\ \A p \in Witness(j) :
         j.stage \in Deciding /\ j.votes[p] # NoVote
            => j.votes[p] \in since[j.res.check]

VotesTrue ==
    /\ \A c \in Check : target[c] \in since[c]
    /\ \A j \in jobs : VotesOf(j)

(* A step that leaves target, isolation and history alone need only look   *)
(* at the job it replaces.                                                 *)
LEMMA BecomeTrue ==
    ASSUME VotesTrue, NEW j \in jobs, NEW k, Become(j, k), VotesOf(k),
           UNCHANGED <<target, isolated, since>>
    PROVE  VotesTrue'
<1>1. \A l \in jobs' : VotesOf(l)
    BY DEF VotesTrue, Become
<1>2. \A l : VotesOf(l)' = VotesOf(l)
    BY DEF VotesOf, Witness
<1> QED
    BY <1>1, <1>2 DEF VotesTrue

(* Votes stay true when the history grows and no witness is gained.        *)
LEMMA SameJobsTrue ==
    ASSUME VotesTrue, jobs' \subseteq jobs, isolated \subseteq isolated',
           \A c \in Check : target'[c] \in since'[c],
           \A c \in Check : since[c] \subseteq since'[c],
           TypeOK
    PROVE  VotesTrue'
<1>1. ASSUME NEW j \in jobs' PROVE VotesOf(j)'
    <2>1. j \in jobs /\ VotesOf(j) /\ j.res.check \in Check
        BY <1>1 DEF VotesTrue, TypeOK, Job, Result
    <2> QED
        BY <2>1 DEF VotesOf, Witness
<1> QED
    BY <1>1 DEF VotesTrue

(* What a prober that is neither broken nor cut off answers is the truth.  *)
LEMMA WitnessTruthful ==
    ASSUME VotesTrue, NEW p \in Prober \ (Flaky \cup isolated),
           NEW c \in Check, NEW says \in Reports(p, c)
    PROVE  says \in since[c]
BY DEF VotesTrue, Reports

LEMMA InitTrue == Init => VotesTrue
BY DEF Init, VotesTrue

LEMMA NextTrue ==
    ASSUME DrainedRejoin
    PROVE  TypeOK /\ OneDecisionAtATime /\ VotesTrue /\ [Next]_vars
             => VotesTrue'
<1> SUFFICES ASSUME TypeOK, OneDecisionAtATime, VotesTrue, [Next]_vars
             PROVE  VotesTrue'
    OBVIOUS
<1>1. ASSUME NEW c \in Check, TargetMoves(c) PROVE VotesTrue'
    BY <1>1, SameJobsTrue DEF TargetMoves, VotesTrue, TypeOK
<1>2. ASSUME NEW p \in Cuttable, Isolate(p) PROVE VotesTrue'
    BY <1>2, SameJobsTrue DEF Isolate, VotesTrue
<1>3. ASSUME NEW p \in Cuttable, Rejoin(p) PROVE VotesTrue'
    <2>1. ASSUME NEW j \in jobs PROVE VotesOf(j)'
        <3>1. VotesOf(j) /\ j.votes[p] = NoVote
            BY <1>3 DEF VotesTrue, Rejoin, HasEvidenceInFlight
        <3> QED
            BY <1>3, <3>1 DEF Rejoin, VotesOf, Witness
    <2> QED
        BY <1>3, <2>1 DEF Rejoin, VotesTrue
<1>4. ASSUME NEW p \in Owners, NEW c \in Check, Probe(p, c) PROVE VotesTrue'
    BY <1>4, SameJobsTrue DEF Probe, VotesTrue
<1>5. ASSUME NEW r \in sent, Accept(r) PROVE VotesTrue'
    <2> DEFINE new == [res |-> r, stage |-> "accepted",
                       votes |-> OnlyVote(r), asked |-> {}, kind |-> "none"]
    <2>1. VotesOf(new)
        BY DEF VotesOf, OnlyVote, Deciding, Witness
    <2>2. \A l \in jobs' : VotesOf(l)
        BY <1>5, <2>1 DEF Accept, VotesTrue
    <2>3. \A l : VotesOf(l)' = VotesOf(l)
        BY <1>5 DEF Accept, VotesOf, Witness
    <2> QED
        BY <1>5, <2>2, <2>3 DEF Accept, VotesTrue
<1>6. ASSUME NEW j \in jobs, JobStep(j) \/ Lock(j) \/ Expire(j)
      PROVE  VotesTrue'
    <2>1. j \in Job /\ VotesOf(j)
        BY DEF TypeOK, VotesTrue
    <2>2. j.res.prober \in Prober /\ j.res.check \in Check
        BY <2>1 DEF Job, Result
    <2>3. CASE Begin(j)
        <3>1. VotesOf([j EXCEPT !.stage = "locking"])
            BY <2>1, <2>3 DEF Begin, VotesOf, Deciding, Witness, Job
        <3> QED
            BY <2>3, <3>1, BecomeTrue, SameJobsTrue
               DEF Begin, Finish, VotesTrue
    <2>4. CASE StartFanOut(j)
        <3>1. VotesOf([j EXCEPT !.stage = "asking"])
            BY <2>1, <2>4 DEF StartFanOut, VotesOf, Deciding, Witness, Job
        <3> QED
            BY <2>4, <3>1, BecomeTrue DEF StartFanOut
    <2>5. CASE FanOutExhausted(j)
        <3>1. VotesOf([j EXCEPT !.stage = "deciding", !.asked = {}])
            BY <2>1, <2>5 DEF FanOutExhausted, VotesOf, Deciding, Witness, Job
        <3> QED
            BY <2>5, <3>1, BecomeTrue DEF FanOutExhausted
    <2>6. ASSUME NEW p \in Prober, Answer(j, p) PROVE VotesTrue'
        <3>1. PICK says \in Reports(p, j.res.check) :
                Become(j, [j EXCEPT !.stage = Heard(j, p), !.asked = @ \ {p},
                                    !.votes[p] = says])
            BY <2>6 DEF Answer
        <3> DEFINE k == [j EXCEPT !.stage = Heard(j, p), !.asked = @ \ {p},
                                  !.votes[p] = says]
        <3>2. /\ k.res = j.res
              /\ k.stage = Heard(j, p)
              /\ k.votes = [j.votes EXCEPT ![p] = says]
              /\ j.votes \in [Prober -> Ballot]
            BY <2>1 DEF Job
        <3>3. k.stage \in {"asking", "deciding"} /\ j.stage = "asking"
            BY <2>6, <3>2 DEF Answer, Heard
        <3>4. Witness(k) = Witness(j)
            BY <3>2 DEF Witness
        <3>5. ASSUME NEW q \in Witness(j), k.votes[q] # NoVote
              PROVE  k.votes[q] \in since[k.res.check]
            <4>1. CASE q = p
                BY <2>2, <3>2, <4>1, WitnessTruthful DEF Witness
            <4>2. CASE q # p
                BY <2>1, <3>2, <3>3, <3>5, <4>2
                   DEF VotesOf, Deciding, Witness
            <4> QED
                BY <4>1, <4>2
        <3>6. VotesOf(k)
            BY <3>3, <3>4, <3>5 DEF VotesOf
        <3> QED
            BY <2>6, <3>1, <3>6, BecomeTrue DEF Answer
    <2>7. ASSUME NEW p \in Prober, NoAnswer(j, p) PROVE VotesTrue'
        <3> DEFINE k == [j EXCEPT !.stage = Heard(j, p), !.asked = @ \ {p}]
        <3>1. /\ k.res = j.res
              /\ k.stage \in {"asking", "deciding"}
              /\ k.votes = j.votes
              /\ j.stage = "asking"
            BY <2>1, <2>7 DEF Job, NoAnswer, Heard
        <3>2. VotesOf(k)
            BY <2>1, <3>1 DEF VotesOf, Deciding, Witness
        <3> QED
            BY <2>7, <3>2, BecomeTrue DEF NoAnswer
    <2>8. CASE Conclude(j)
        \* The history of this check starts afresh, and no other decision
        \* about the check is in progress to be misled by that.
        <3>1. PICK kind : LET k == [j EXCEPT !.stage = "emitting",
                                             !.kind = kind]
                          IN Finish(j) \/ Become(j, k)
            BY <2>8 DEF Conclude
        <3> DEFINE k == [j EXCEPT !.stage = "emitting", !.kind = kind]
        <3>2. k.stage = "emitting"
            BY <2>1 DEF Job
        <3>3. jobs' \subseteq (jobs \ {j}) \cup {k}
            BY <3>1 DEF Finish, Become
        <3>4. ASSUME NEW l \in jobs' PROVE VotesOf(l)'
            <4>1. CASE l = k
                BY <3>2, <4>1 DEF VotesOf, Deciding
            <4>2. CASE l # k
                <5>1. l \in jobs /\ l # j /\ VotesOf(l)
                    BY <3>3, <3>4, <4>2 DEF VotesTrue
                <5>2. CASE l.stage \in Deciding
                    <6>1. l.res.check # j.res.check
                        BY <2>8, <5>1, <5>2
                           DEF OneDecisionAtATime, Conclude, Deciding
                    <6>2. since'[l.res.check] = since[l.res.check]
                        BY <2>8, <6>1 DEF Conclude, TypeOK
                    <6> QED
                        BY <2>8, <5>1, <6>2 DEF Conclude, VotesOf, Witness
                <5>3. CASE l.stage \notin Deciding
                    BY <5>1, <5>3 DEF VotesOf
                <5> QED
                    BY <5>2, <5>3
            <4> QED
                BY <4>1, <4>2
        <3>5. \A c \in Check : target'[c] \in since'[c]
            BY <2>8 DEF Conclude, VotesTrue, TypeOK
        <3> QED
            BY <3>4, <3>5 DEF VotesTrue
    <2>9. CASE Emit(j)
        BY <2>9, SameJobsTrue DEF Emit, Finish, VotesTrue
    <2>10. CASE Lock(j)
        <3>1. VotesOf([j EXCEPT !.stage = "deciding"])
            BY <2>1, <2>10 DEF Lock, VotesOf, Deciding, Witness, Job
        <3>2. ASSUME NEW S
              PROVE  VotesOf([j EXCEPT !.stage = IF S = {} THEN "deciding"
                                                 ELSE "queueing",
                                       !.asked = S])
            BY <2>1, <2>10 DEF Lock, VotesOf, Deciding, Witness, Job
        <3> QED
            BY <2>10, <3>1, <3>2, BecomeTrue DEF Lock
    <2>11. CASE Expire(j)
        <3> DEFINE k == [j EXCEPT !.votes[j.res.prober] = NoVote]
        <3>1. /\ k.res = j.res
              /\ k.stage = j.stage
              /\ k.votes = [j.votes EXCEPT ![j.res.prober] = NoVote]
              /\ j.votes \in [Prober -> Ballot]
            BY <2>1 DEF Job
        <3>2. VotesOf(k)
            BY <2>1, <3>1 DEF VotesOf, Witness
        <3> QED
            BY <2>11, <3>2, BecomeTrue DEF Expire
    <2> QED
        BY <1>6, <2>3, <2>4, <2>5, <2>6, <2>7, <2>8, <2>9, <2>10, <2>11
           DEF JobStep, AskStep
<1>7. CASE UNCHANGED vars
    BY <1>7, SameJobsTrue DEF vars, VotesTrue
<1> QED
    BY <1>1, <1>2, <1>3, <1>4, <1>5, <1>6, <1>7 DEF Next, Environment
-----------------------------------------------------------------------------
(* The coordinator implements TruthfulMonitor.                             *)

(* More evidence never loses a quorum.                                     *)
LEMMA QuorumGrows ==
    ASSUME NEW S, NEW T, S \subseteq T, HasQuorum(S)
    PROVE  HasQuorum(T)
BY DEF HasQuorum

(* A quorum of votes contains the true word of a witness.                  *)
LEMMA QuorumHasWitness ==
    ASSUME TrustworthyQuorum, TypeOK, VotesTrue, NEW j \in jobs,
           j.stage = "deciding", NEW said, NoVote \notin said,
           HasQuorum(Voters(j.votes, isolated, said))
    PROVE  \E s \in said : s \in since[j.res.check]
<1>1. j.res.prober \in Prober
    BY DEF TypeOK, Job, Result
<1>2. ~(Voters(j.votes, isolated, said) \subseteq Flaky \cup {j.res.prober})
    <2>1. ~HasQuorum(Flaky \cup {j.res.prober})
        BY <1>1 DEF TrustworthyQuorum
    <2> QED
        BY <2>1, QuorumGrows
<1>3. PICK p \in Witness(j) : j.votes[p] \in said
    BY <1>2 DEF Voters, Witness
<1>4. j.votes[p] \in since[j.res.check]
    BY <1>3 DEF VotesTrue, VotesOf, Deciding
<1> QED
    BY <1>3, <1>4

(* What decide concludes, the target has been.                             *)
LEMMA ConclusionTrue ==
    ASSUME TrustworthyQuorum, TypeOK, VotesTrue, NEW j \in jobs,
           j.stage = "deciding",
           Conclusion(j) # "unknown", Conclusion(j) # status[j.res.check]
    PROVE  /\ Conclusion(j) \in {"up", "warning", "down"}
           /\ Conclusion(j) \in {"down", "warning"}
                => Conclusion(j) \in since[j.res.check]
           /\ status[j.res.check] = "down"
                => since[j.res.check] \cap {"up", "warning"} # {}
<1> DEFINE c == j.res.check
           verdict == Verdict(j.votes, isolated)
<1>1. NoVote \notin Status
    BY EvidenceAssumption
<1>2. Conclusion(j) = "down" => verdict = "down"
    BY DEF Conclusion
<1>3. Conclusion(j) = "warning" => verdict = "warning"
    BY DEF Conclusion
<1>4. verdict = "down" => "down" \in since[c]
    <2>1. verdict = "down"
            => HasQuorum(Voters(j.votes, isolated, {"down"}))
        BY DEF Verdict
    <2> QED
        BY <1>1, <2>1, QuorumHasWitness DEF Status, Opinion
<1>5. verdict = "warning" => "warning" \in since[c]
    <2>1. verdict = "warning"
            => HasQuorum(Voters(j.votes, isolated, {"warning"}))
        BY DEF Verdict
    <2> QED
        BY <1>1, <2>1, QuorumHasWitness DEF Status, Opinion
<1>6. Conclusion(j) = "up" /\ status[c] = "down"
        => since[c] \cap {"up", "warning"} # {}
    <2>1. Conclusion(j) = "up" /\ status[c] = "down"
            => HasQuorum(Voters(j.votes, isolated, {"up", "warning"}))
        BY DEF Conclusion, RecoveryConfirmed
    <2> QED
        BY <1>1, <2>1, QuorumHasWitness DEF Status, Opinion
<1>7. Conclusion(j) \in {"up", "warning", "down"}
    BY ConclusionIsStatus DEF Status, Opinion
<1> QED
    BY <1>2, <1>3, <1>4, <1>5, <1>6, <1>7

LEMMA InitRefines == Init => Monitor!Init
BY DEF Init, Monitor!Init, Monitor!Condition, Opinion

LEMMA NextRefines ==
    ASSUME TrustworthyQuorum
    PROVE  TypeOK /\ VotesTrue /\ [Next]_vars => [Monitor!Next]_(Monitor!vars)
<1> SUFFICES ASSUME TypeOK, VotesTrue, [Next]_vars
             PROVE  Monitor!Next \/ UNCHANGED Monitor!vars
    OBVIOUS
<1>1. ASSUME NEW c \in Check, TargetMoves(c) PROVE Monitor!TargetMoves(c)
    BY <1>1 DEF TargetMoves, Monitor!TargetMoves, Opinion, Monitor!Condition
<1>2. ASSUME NEW j \in jobs, Conclude(j)
      PROVE  Monitor!Next \/ UNCHANGED Monitor!vars
    <2> DEFINE c == j.res.check
               decided == IF Conclusion(j) = "unknown" THEN status[c]
                          ELSE Conclusion(j)
    <2>1. c \in Check /\ j.stage = "deciding"
        BY <1>2 DEF Conclude, TypeOK, Job, Result
    <2>2. CASE decided = status[c]
        BY <1>2, <2>2 DEF Conclude, TypeOK, Monitor!vars
    <2>3. CASE decided # status[c]
        <3>1. /\ Conclusion(j) # "unknown"
              /\ Conclusion(j) # status[c]
              /\ decided = Conclusion(j)
            BY <2>3
        <3>2. /\ decided \in Monitor!Condition \ {status[c]}
              /\ decided \in {"down", "warning"} => decided \in since[c]
              /\ status[c] = "down" => since[c] \cap {"up", "warning"} # {}
            BY <2>1, <3>1, ConclusionTrue DEF Monitor!Condition
        <3>3. /\ status' = [status EXCEPT ![c] = decided]
              /\ since' = [since EXCEPT ![c] = {target[c]}]
              /\ UNCHANGED target
            BY <1>2, <2>3 DEF Conclude
        <3>4. Monitor!Decide(c)
            BY <3>2, <3>3 DEF Monitor!Decide
        <3> QED
            BY <2>1, <3>4 DEF Monitor!Next
    <2> QED
        BY <2>2, <2>3
<1>3. CASE \/ \E p \in Cuttable : Isolate(p) \/ Rejoin(p)
           \/ \E p \in Owners, c \in Check : Probe(p, c)
           \/ \E r \in sent : Accept(r)
           \/ UNCHANGED vars
    BY <1>3 DEF Isolate, Rejoin, Probe, Accept, vars, Monitor!vars
<1>4. ASSUME NEW j \in jobs, JobStep(j) \/ Lock(j) \/ Expire(j), ~Conclude(j)
      PROVE  UNCHANGED Monitor!vars
    BY <1>4 DEF JobStep, AskStep, Begin, StartFanOut, FanOutExhausted, Answer,
                NoAnswer, Emit, Lock, Expire, Monitor!vars
<1> QED
    BY <1>1, <1>2, <1>3, <1>4 DEF Next, Environment, Monitor!Next

(* The status the coordinator decides is always one the target has been in *)
(* since the last decision, whatever the network, the goroutines and the   *)
(* broken probers do: provided that the broken probers and one other never *)
(* make a quorum, and that a cut-off prober's evidence does not outlive    *)
(* its isolation.                                                          *)
THEOREM ImplementsTruthfulMonitor ==
    ASSUME TrustworthyQuorum, DrainedRejoin
    PROVE  Spec => Truthful
<1>1. Spec => []VotesTrue
    BY TypeCorrect, DecisionsExclude, InitTrue, NextTrue, PTL DEF Spec
<1>2. TypeOK /\ VotesTrue /\ [Next]_vars => [Monitor!Next]_(Monitor!vars)
    BY NextRefines
<1> QED
    BY <1>1, <1>2, TypeCorrect, InitRefines, PTL
       DEF Spec, Truthful, Monitor!Spec
=============================================================================
