---------------------------- MODULE ProberAgent ----------------------------
(***************************************************************************)
(* One prober: the loop that reconciles its schedules with what the        *)
(* coordinator assigns (assignments.go), a goroutine for each scheduled    *)
(* check (prober.go, runLoop), and the handlers of the coordinator's       *)
(* requests, which share the probe slots with the schedules.               *)
(***************************************************************************)
EXTENDS Integers, FiniteSets, Functions

CONSTANTS
    Check, Version,  \* checks, and the definitions that a check may have
    Request, Handler,\* probe requests; handlers that serve them at one time
    Slots,           \* MaxConcurrent
    Skew, DocumentLife, RequestLife,
    Loop,            \* bound: goroutines of schedules at one time
    MaxTime, MaxRestarts  \* bounds

ASSUME AgentAssumption ==
    /\ Slots \in Nat \ {0} /\ RequestLife \in Nat \ {0} /\ MaxTime \in Nat /\ MaxRestarts \in Nat

Assignments == UNION {[S -> Version] : S \in SUBSET Check}

VARIABLES
    now,
    reply,       \* the signed assignments on their way, or NoReply
    running,     \* WatchAssignments: the goroutine of each scheduled check
    loops,       \* what each goroutine is at, or Free
    issued,      \* when each request was signed, or -1
    serving,     \* what each handler is at, or Free
    seenRequests,\* ids of requests accepted, until when
    restarts,
    known,       \* history: the assignments last reconciled
    served       \* history: how often a request was accepted in its lifetime

vars == <<now, reply, running, loops, issued, serving, seenRequests, restarts, known, served>>

E == INSTANCE Envelopes
Ring == [coordinator |-> "key"]
NoReply == [peer |-> "nobody"]
Free == [at |-> "free"]
None == [c \in {} |-> 0]

TypeOK ==
    /\ now \in 0 .. MaxTime /\ known \in Assignments
    /\ running \in UNION {[S -> Loop] : S \in SUBSET Check}
    /\ \A l \in Loop : loops[l] = Free \/
          /\ loops[l].check \in Check /\ loops[l].version \in Version
          /\ loops[l].cancelled \in BOOLEAN
          /\ loops[l].at \in {"waiting", "queued", "probing", "submitting"}
    /\ \A h \in Handler : serving[h].at \in {"free", "opened", "queued", "probing"}
    /\ Cardinality({l \in Loop : loops[l].at = "probing"})
          + Cardinality({h \in Handler : serving[h].at = "probing"}) <= Slots
    /\ restarts \in 0 .. MaxRestarts

Init ==
    /\ now = 0 /\ reply = NoReply
    /\ running = None /\ loops = [l \in Loop |-> Free]
    /\ issued = [r \in Request |-> -1] /\ serving = [h \in Handler |-> Free]
    /\ seenRequests = None /\ restarts = 0
    /\ known = None /\ served = [r \in Request |-> 0]
-----------------------------------------------------------------------------
(* Reconciling.                                                            *)

\* The coordinator answers with what it assigns at the time: Ownership says how.
FetchAssignments ==
    /\ reply = NoReply
    /\ \E checks \in Assignments :
          reply' = E!Seal("key", "document", "coordinator", [audience |-> "prober",
                       kind |-> "assignments", issued |-> now, checks |-> checks])
    /\ UNCHANGED <<now, running, loops, issued, serving, seenRequests, restarts, known, served>>

\* checksEqual: schedules that go on as they are.
Kept(next) ==
    {c \in DOMAIN running : c \in DOMAIN next /\ loops[running[c]].version = next[c]}

Reconcile ==
    /\ reply # NoReply
    /\ E!OpenPublishedDocument(Ring, reply, "coordinator", "prober", "assignments", now)
    /\ LET next == reply.doc.checks
           kept == Kept(next)
           stopped == {running[c] : c \in DOMAIN running \ kept}
           places == Injection(DOMAIN next \ kept, {l \in Loop : loops[l] = Free})
       IN  /\ places # {}
           /\ LET start == CHOOSE f \in places : TRUE IN
              /\ running' = [c \in DOMAIN next |-> IF c \in kept THEN running[c] ELSE start[c]]
              /\ loops' = [l \in Loop |->
                    IF l \in Range(start)
                    THEN LET c == CHOOSE c \in DOMAIN start : start[c] = l
                         IN  [check |-> c, version |-> next[c], cancelled |-> FALSE, at |-> "queued"]
                    ELSE IF l \in stopped THEN [loops[l] EXCEPT !.cancelled = TRUE]
                    ELSE loops[l]]
              /\ known' = next
    /\ reply' = NoReply
    /\ UNCHANGED <<now, issued, serving, seenRequests, restarts, served>>

\* The coordinator is not there, or its answer too old: all stays as it is.
FetchFails ==
    /\ reply # NoReply /\ reply' = NoReply
    /\ UNCHANGED <<now, running, loops, issued, serving, seenRequests, restarts, known, served>>
-----------------------------------------------------------------------------
(* The schedules.  A new one probes at once, then at every tick.           *)

Live(l) == loops[l] # Free /\ ~loops[l].cancelled

SlotFree ==
    Cardinality({l \in Loop : loops[l].at = "probing"})
        + Cardinality({h \in Handler : serving[h].at = "probing"}) < Slots

Move(l, from, to) ==
    /\ loops[l].at = from /\ loops' = [loops EXCEPT ![l].at = to]
    /\ UNCHANGED <<now, reply, running, issued, serving, seenRequests, restarts, known, served>>

Due(l) == Move(l, "waiting", "queued")
TakeSlot(l) == SlotFree /\ Move(l, "queued", "probing")

\* Mutant: the result is submitted under the context of the agent, not that
\* of the schedule.
SubmitAnyhow(l) == Move(l, "probing", "submitting")

\* The probe ends, by its timeout at the latest, and the slot is free again.
Submit(l) == Live(l) /\ Move(l, "probing", "submitting")

\* Under a cancelled context the probe gives up, and Submit sends nothing.
Interrupted(l) == ~Live(l) /\ Move(l, "probing", "waiting")

\* Mutant: when the schedule is stopped, its submission hangs.
SubmittedIfLive(l) == Live(l) /\ Move(l, "submitting", "waiting")

\* The coordinator has answered, or the client has given up on it.
Submitted(l) == Move(l, "submitting", "waiting")

Return(l) ==
    /\ loops[l].at \in {"waiting", "queued"} /\ loops[l].cancelled
    /\ loops' = [loops EXCEPT ![l] = Free]
    /\ UNCHANGED <<now, reply, running, issued, serving, seenRequests, restarts, known, served>>
-----------------------------------------------------------------------------
(* Requests.  The network may deliver one more than once.                  *)

Issue(r) ==
    /\ issued[r] = -1 /\ issued' = [issued EXCEPT ![r] = now]
    /\ UNCHANGED <<now, reply, running, loops, serving, seenRequests, restarts, known, served>>

Envelope(r) == E!Seal("key", "request", "coordinator",
                   [id |-> r, issued |-> issued[r], expires |-> issued[r] + RequestLife])

Serve(h, task) ==
    /\ serving' = [serving EXCEPT ![h] = task]
    /\ UNCHANGED <<now, reply, running, loops, issued, restarts, known>>

\* handleProbe, OpenRequest
Arrives(h, r) ==
    /\ serving[h] = Free /\ issued[r] # -1
    /\ E!OpenRequest(Ring, Envelope(r), now)
    /\ Serve(h, [at |-> "opened", id |-> r])
    /\ UNCHANGED <<seenRequests, served>>

\* Mutant: an id is forgotten at the last instant of its request.
RememberedBefore == {r \in DOMAIN seenRequests : now < seenRequests[r]}

Remembered == {r \in DOMAIN seenRequests : now <= seenRequests[r]}

\* acceptRequest, which reads the clock anew
AcceptRequest(h) ==
    /\ serving[h].at = "opened"
    /\ LET r == serving[h].id
           expires == issued[r] + RequestLife
       IN  IF r \in Remembered
           THEN /\ Serve(h, Free)
                /\ seenRequests' = Restrict(seenRequests, Remembered)
                /\ UNCHANGED served
           ELSE /\ Serve(h, [serving[h] EXCEPT !.at = "queued"])
                /\ seenRequests' = [s \in Remembered \cup {r} |->
                       IF s = r THEN expires ELSE seenRequests[s]]
                /\ served' = IF now <= expires THEN [served EXCEPT ![r] = @ + 1] ELSE served

ServeTakesSlot(h) ==
    /\ serving[h].at = "queued" /\ SlotFree
    /\ Serve(h, [serving[h] EXCEPT !.at = "probing"])
    /\ UNCHANGED <<seenRequests, served>>

\* The answer is written, or the coordinator has hung up.
ServeEnds(h) ==
    /\ serving[h].at \in {"queued", "probing"}
    /\ Serve(h, Free)
    /\ UNCHANGED <<seenRequests, served>>
-----------------------------------------------------------------------------
Tick ==
    /\ now < MaxTime /\ now' = now + 1
    /\ UNCHANGED <<reply, running, loops, issued, serving, seenRequests, restarts, known, served>>

\* The agent is restarted and remembers nothing.
Restart ==
    /\ restarts < MaxRestarts /\ restarts' = restarts + 1
    /\ reply' = NoReply /\ running' = None /\ loops' = [l \in Loop |-> Free]
    /\ serving' = [h \in Handler |-> Free] /\ seenRequests' = None
    /\ known' = None /\ served' = [r \in Request |-> 0]
    /\ UNCHANGED <<now, issued>>

Schedules(l) ==
    Due(l) \/ TakeSlot(l) \/ Submit(l) \/ Interrupted(l) \/ Submitted(l) \/ Return(l)
Serves(h) ==
    \/ \E r \in Request : Arrives(h, r)
    \/ AcceptRequest(h) \/ ServeTakesSlot(h) \/ ServeEnds(h)

Next ==
    \/ FetchAssignments \/ Reconcile \/ FetchFails
    \/ \E l \in Loop : Schedules(l)
    \/ \E h \in Handler : Serves(h)
    \/ \E r \in Request : Issue(r)
    \/ Tick \/ Restart

\* Tickers tick, probes and submissions end by their timeouts, the runtime
\* runs every goroutine, and a channel serves who waits at it in their order,
\* so that nobody waits for a slot for ever while slots become free.
GoesOn(l) == Due(l) \/ Submit(l) \/ Interrupted(l) \/ Submitted(l)
Fairness ==
    /\ \A l \in Loop : WF_vars(GoesOn(l)) /\ SF_vars(TakeSlot(l)) /\ SF_vars(Return(l))
    /\ \A h \in Handler : WF_vars(AcceptRequest(h) \/ ServeEnds(h))

Spec == Init /\ [][Next]_vars
FairSpec == Spec /\ Fairness
-----------------------------------------------------------------------------
SubmitsAssigned ==
    \A l \in Loop : loops[l].at = "probing" /\ loops'[l].at = "submitting" =>
        loops[l].check \in DOMAIN known /\ known[loops[l].check] = loops[l].version
\* What is submitted was assigned, with that definition, as far as the prober
\* knew: an interrupted probe is no evidence (runLoop submits under the
\* schedule's own context).
SubmitsWhatIsAssigned == [][SubmitsAssigned]_vars

\* A request is run once in its lifetime, its last instant included, however
\* often it is delivered (acceptRequest), as long as the agent is not restarted.
RunOnce == \A r \in Request : served[r] <= 1

\* A scheduled check is submitted again and again until it is told to stop,
\* though it shares the slots with others and with requests, and then its
\* goroutine ends.
SchedulesRun ==
    \A l \in Loop :
        /\ Live(l) ~> loops[l].at = "submitting" \/ ~Live(l)
        /\ loops[l] # Free /\ ~Live(l) ~> loops[l] = Free
=============================================================================
