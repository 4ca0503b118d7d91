------------------------- MODULE ProberAgent_proofs -------------------------
(***************************************************************************)
(* Theorems about ProberAgent, for any checks, requests, slots and         *)
(* restarts: a prober submits only what it was assigned, and serves a      *)
(* request once in its lifetime.                                           *)
(***************************************************************************)
EXTENDS ProberAgent, TLAPS

Schedule == [check : Check, version : Version, cancelled : BOOLEAN,
             at : {"waiting", "queued", "probing", "submitting"}]

\* Each assigned check has one live schedule, of the version assigned; every
\* other schedule has been cancelled.
ScheduledInv ==
    /\ known \in Assignments
    /\ reply = NoReply \/ reply.doc.checks \in Assignments
    /\ loops \in [Loop -> Schedule \cup {Free}]
    /\ running \in [DOMAIN known -> Loop]
    /\ \A c \in DOMAIN known :
          /\ Live(running[c]) /\ loops[running[c]].check = c
          /\ loops[running[c]].version = known[c]
    /\ \A l \in Loop : Live(l) =>
          loops[l].check \in DOMAIN known /\ running[loops[l].check] = l

LEMMA SchedulesAreNotFree == \A s \in Schedule : s # Free /\ s.at # "free"
BY DEF Schedule, Free

LEMMA ScheduledInit == Init => ScheduledInv
<1> SUFFICES ASSUME Init PROVE ScheduledInv
    OBVIOUS
<1>1. known = None /\ running = None /\ DOMAIN known = {}
    BY DEF Init, None
<1>2. known \in Assignments
    <2>1. known \in [{} -> Version]
        BY DEF Init, None
    <2>2. QED
        BY <2>1 DEF Assignments
<1>3. running \in [DOMAIN known -> Loop]
    BY <1>1 DEF None
<1>4. loops \in [Loop -> Schedule \cup {Free}] /\ \A l \in Loop : ~Live(l)
    BY DEF Init, Live
<1>5. QED
    BY <1>1, <1>2, <1>3, <1>4 DEF ScheduledInv, Init

LEMMA ToldToStop ==
    ASSUME NEW s \in Schedule
    PROVE  LET t == [s EXCEPT !.cancelled = TRUE] IN t \in Schedule /\ t.cancelled
BY DEF Schedule

LEMMA NewSchedule ==
    ASSUME NEW c \in Check, NEW v \in Version
    PROVE  LET t == [check |-> c, version |-> v, cancelled |-> FALSE, at |-> "queued"]
           IN  /\ t \in Schedule /\ t # Free
               /\ ~t.cancelled /\ t.check = c /\ t.version = v
BY DEF Schedule, Free

\* A step that moves one schedule on, under the same definition.
LEMMA Moved ==
    ASSUME ScheduledInv, NEW l \in Loop, loops[l] # Free,
           NEW to \in {"waiting", "queued", "probing", "submitting"},
           loops' = [loops EXCEPT ![l].at = to], UNCHANGED <<known, running, reply>>
    PROVE  ScheduledInv'
<1>1. loops[l] \in Schedule
    BY DEF ScheduledInv
<1>2. /\ loops'[l] \in Schedule /\ loops'[l].check = loops[l].check
      /\ loops'[l].version = loops[l].version /\ loops'[l].cancelled = loops[l].cancelled
    BY <1>1 DEF ScheduledInv, Schedule
<1>3. \A k \in Loop : k # l => loops'[k] = loops[k]
    BY DEF ScheduledInv
<1>4. loops' \in [Loop -> Schedule \cup {Free}]
    BY <1>2, <1>3 DEF ScheduledInv
<1>5. \A k \in Loop : /\ Live(k)' <=> Live(k)
                      /\ Live(k) => loops'[k].check = loops[k].check /\ loops'[k].version = loops[k].version
    BY <1>2, <1>3, SchedulesAreNotFree DEF Live
<1>6. QED
    BY <1>4, <1>5 DEF ScheduledInv

LEMMA ScheduledStays ==
    ASSUME ScheduledInv, UNCHANGED <<loops, known, running>>,
           reply' = reply \/ reply' = NoReply \/ reply'.doc.checks \in Assignments
    PROVE  ScheduledInv'
BY DEF ScheduledInv, Live

LEMMA SchedulesMove ==
    ASSUME ScheduledInv, NEW l \in Loop, Schedules(l)
    PROVE  ScheduledInv'
<1>1. ASSUME NEW from \in {"waiting", "queued", "probing", "submitting"},
             NEW to \in {"waiting", "queued", "probing", "submitting"}, Move(l, from, to)
      PROVE  ScheduledInv'
    <2>1. loops[l] # Free
        BY <1>1 DEF Move, Free
    <2>2. QED
        BY <1>1, <2>1, Moved DEF Move
<1>2. CASE Return(l)
    <2>1. loops' = [loops EXCEPT ![l] = Free] /\ UNCHANGED <<known, running, reply>> /\ ~Live(l)
        BY <1>2 DEF Return, Live
    <2>2. /\ loops'[l] = Free /\ \A k \in Loop : k # l => loops'[k] = loops[k]
          /\ loops' \in [Loop -> Schedule \cup {Free}]
        BY <2>1 DEF ScheduledInv
    <2>3. \A k \in Loop : (Live(k)' <=> Live(k)) /\ (Live(k) => loops'[k] = loops[k])
        BY <2>1, <2>2 DEF Live
    <2>4. QED
        BY <2>1, <2>2, <2>3 DEF ScheduledInv
<1>3. QED
    BY <1>1, <1>2 DEF Schedules, Due, TakeSlot, Submit, Interrupted, Submitted

LEMMA Reconciled ==
    ASSUME ScheduledInv, Reconcile
    PROVE  ScheduledInv'
<1> DEFINE next == reply.doc.checks
           kept == Kept(next)
           stopped == {running[c] : c \in DOMAIN running \ kept}
           places == Injection(DOMAIN next \ kept, {l \in Loop : loops[l] = Free})
           start == CHOOSE f \in places : TRUE
           StartedFor(l) == CHOOSE c \in DOMAIN start : start[c] = l
<1>1. next \in Assignments /\ DOMAIN next \subseteq Check /\ \A c \in DOMAIN next : next[c] \in Version
    BY DEF Reconcile, ScheduledInv, Assignments
<1>2. start \in places
    BY DEF Reconcile
<1>3. /\ start \in [DOMAIN next \ kept -> {l \in Loop : loops[l] = Free}]
      /\ \A a, b \in DOMAIN next \ kept : start[a] = start[b] => a = b
    <2>1. start \in [DOMAIN next \ kept -> {l \in Loop : loops[l] = Free}] /\ IsInjective(start)
        BY <1>2 DEF Injection
    <2>2. DOMAIN start = DOMAIN next \ kept
        BY <2>1
    <2>3. QED
        BY <2>1, <2>2 DEF IsInjective
<1>4. /\ running' = [c \in DOMAIN next |-> IF c \in kept THEN running[c] ELSE start[c]]
      /\ loops' = [l \in Loop |->
            IF l \in Range(start)
            THEN [check |-> StartedFor(l), version |-> next[StartedFor(l)],
                  cancelled |-> FALSE, at |-> "queued"]
            ELSE IF l \in stopped THEN [loops[l] EXCEPT !.cancelled = TRUE]
            ELSE loops[l]]
      /\ known' = next /\ reply' = NoReply
    BY DEF Reconcile
<1>5. DOMAIN running = DOMAIN known /\ kept \subseteq DOMAIN known /\ kept \subseteq DOMAIN next
      /\ \A c \in kept : loops[running[c]].version = next[c]
    BY DEF Kept, ScheduledInv
<1>6. \A c \in DOMAIN next \ kept : start[c] \in Loop /\ loops[start[c]] = Free
    BY <1>3
<1>7. \A l \in Loop : l \in Range(start) => loops[l] = Free
    BY <1>3, <1>6 DEF Range
<1>8. ASSUME NEW c \in DOMAIN next \ kept
      PROVE  loops'[start[c]] = [check |-> c, version |-> next[c], cancelled |-> FALSE, at |-> "queued"]
    <2>1. start[c] \in Range(start) /\ start[c] \in Loop /\ c \in DOMAIN start
        BY <1>3, <1>6 DEF Range
    <2>2. StartedFor(start[c]) = c
        BY <1>3, <2>1
    <2>3. QED
        BY <1>4, <2>1, <2>2
<1>9. ASSUME NEW l \in Loop, l \in Range(start)
      PROVE  \E c \in DOMAIN next \ kept : start[c] = l
    BY <1>3, <1>9 DEF Range
<1>10. ASSUME NEW l \in Loop, l \notin Range(start)
       PROVE  \/ l \notin stopped /\ loops'[l] = loops[l]
              \/ l \in stopped /\ loops'[l] = [loops[l] EXCEPT !.cancelled = TRUE]
    BY <1>4, <1>10
<1> HIDE DEF next, kept, places, start, StartedFor, stopped
<1>11. ASSUME NEW l \in stopped
       PROVE  l \in Loop /\ loops[l] \in Schedule /\ loops[l] # Free
    <2>1. PICK c \in DOMAIN running \ kept : l = running[c]
        BY DEF stopped
    <2>2. l \in Loop /\ Live(l)
        BY <1>5, <2>1 DEF ScheduledInv
    <2>3. QED
        BY <2>2 DEF ScheduledInv, Live
<1>12. loops' \in [Loop -> Schedule \cup {Free}]
    <2>1. ASSUME NEW l \in Loop PROVE loops'[l] \in Schedule \cup {Free}
        <3>1. CASE l \in Range(start)
            <4>1. PICK c \in DOMAIN next \ kept : start[c] = l
                BY <1>9, <3>1
            <4>2. c \in Check /\ next[c] \in Version
                BY <1>1
            <4>3. loops'[l] = [check |-> c, version |-> next[c], cancelled |-> FALSE, at |-> "queued"]
                BY <1>8, <4>1
            <4>4. QED
                BY <4>2, <4>3, NewSchedule
        <3>2. CASE l \notin Range(start)
            <4>1. CASE l \in stopped
                BY <1>10, <1>11, <3>2, <4>1, ToldToStop
            <4>2. CASE l \notin stopped
                BY <1>10, <3>2, <4>2 DEF ScheduledInv
            <4>3. QED
                BY <4>1, <4>2
        <3>3. QED
            BY <3>1, <3>2
    <2>2. QED
        BY <1>4, <2>1
<1>13. ASSUME NEW c \in kept
       PROVE  /\ running'[c] = running[c] /\ running[c] \in Loop /\ loops'[running[c]] = loops[running[c]]
              /\ Live(running[c])' /\ loops[running[c]].check = c /\ loops[running[c]].version = next[c]
    <2>1. running[c] \in Loop /\ Live(running[c]) /\ loops[running[c]].check = c
        BY <1>5 DEF ScheduledInv
    <2>2. running[c] \notin Range(start)
        BY <1>7, <2>1 DEF Live
    <2>3. running[c] \notin stopped
        <3>1. \A d \in DOMAIN running \ kept : loops[running[d]].check = d
            BY <1>5 DEF ScheduledInv
        <3>2. QED
            BY <2>1, <3>1 DEF stopped
    <2>4. loops'[running[c]] = loops[running[c]]
        BY <1>10, <2>1, <2>2, <2>3
    <2>5. QED
        BY <1>4, <1>5, <2>1, <2>4 DEF Live
<1>14. ASSUME NEW c \in DOMAIN next \ kept
       PROVE  /\ running'[c] = start[c] /\ start[c] \in Loop /\ Live(running[c])'
              /\ loops'[start[c]].check = c /\ loops'[start[c]].version = next[c]
    <2>1. running'[c] = start[c] /\ start[c] \in Loop
        BY <1>4, <1>6
    <2>2. loops'[start[c]] = [check |-> c, version |-> next[c], cancelled |-> FALSE, at |-> "queued"]
        BY <1>8
    <2>3. c \in Check /\ next[c] \in Version
        BY <1>1
    <2>4. /\ loops'[start[c]] # Free /\ ~loops'[start[c]].cancelled
          /\ loops'[start[c]].check = c /\ loops'[start[c]].version = next[c]
        BY <2>2, <2>3, NewSchedule
    <2>5. Live(running[c])'
        BY <2>1, <2>4 DEF Live
    <2>6. QED
        BY <2>1, <2>4, <2>5
<1>15. running' \in [DOMAIN known' -> Loop]
    BY <1>4, <1>13, <1>14
<1>16. \A c \in DOMAIN known' :
          /\ Live(running[c])' /\ loops'[running'[c]].check = c /\ loops'[running'[c]].version = known'[c]
    <2>1. SUFFICES ASSUME NEW c \in DOMAIN next
                   PROVE  /\ Live(running[c])' /\ loops'[running'[c]].check = c
                          /\ loops'[running'[c]].version = next[c]
        BY <1>4
    <2>2. CASE c \in kept
        BY <1>13, <2>2
    <2>3. CASE c \notin kept
        BY <1>14, <2>3
    <2>4. QED
        BY <2>2, <2>3
<1>17. ASSUME NEW l \in Loop, Live(l)'
       PROVE  loops'[l].check \in DOMAIN known' /\ running'[loops'[l].check] = l
    <2>1. CASE l \in Range(start)
        <3>1. PICK c \in DOMAIN next \ kept : start[c] = l
            BY <1>9, <2>1
        <3>2. QED
            BY <1>4, <1>14, <3>1
    <2>2. CASE l \notin Range(start)
        <3>1. l \notin stopped
            <4>1. SUFFICES ASSUME l \in stopped PROVE FALSE
                OBVIOUS
            <4>2. loops'[l].cancelled = TRUE
                BY <1>10, <1>11, <2>2, <4>1, ToldToStop
            <4>3. QED
                BY <1>17, <4>2 DEF Live
        <3>2. loops'[l] = loops[l] /\ Live(l)
            BY <1>10, <1>17, <2>2, <3>1 DEF Live
        <3>3. loops[l].check \in DOMAIN running /\ running[loops[l].check] = l
            BY <1>5, <3>2 DEF ScheduledInv
        <3>4. loops[l].check \in kept
            BY <3>1, <3>3 DEF stopped
        <3>5. QED
            BY <1>4, <1>5, <1>13, <3>2, <3>3, <3>4
    <2>3. QED
        BY <2>1, <2>2
<1>18. QED
    BY <1>1, <1>4, <1>12, <1>15, <1>16, <1>17 DEF ScheduledInv

LEMMA ScheduledStep == ScheduledInv /\ [Next]_vars => ScheduledInv'
<1> SUFFICES ASSUME ScheduledInv, [Next]_vars PROVE ScheduledInv'
    OBVIOUS
<1>1. CASE FetchAssignments
    <2>1. PICK checks \in Assignments :
              reply' = E!Seal("key", "document", "coordinator", [audience |-> "prober",
                           kind |-> "assignments", issued |-> now, checks |-> checks])
        BY <1>1 DEF FetchAssignments
    <2>2. reply'.doc.checks \in Assignments
        BY <2>1 DEF E!Seal
    <2>3. QED
        BY <1>1, <2>2, ScheduledStays DEF FetchAssignments
<1>2. CASE Reconcile
    BY <1>2, Reconciled
<1>3. CASE FetchFails
    BY <1>3, ScheduledStays DEF FetchFails
<1>4. ASSUME NEW l \in Loop, Schedules(l) PROVE ScheduledInv'
    BY <1>4, SchedulesMove
<1>5. ASSUME NEW h \in Handler, Serves(h) PROVE ScheduledInv'
    BY <1>5, ScheduledStays
    DEF Serves, Arrives, AcceptRequest, ServeTakesSlot, ServeEnds, Serve
<1>6. ASSUME NEW r \in Request, Issue(r) PROVE ScheduledInv'
    BY <1>6, ScheduledStays DEF Issue
<1>7. CASE Tick
    BY <1>7, ScheduledStays DEF Tick
<1>8. CASE Restart
    <2>1. known' = None /\ running' = None /\ loops' = [l \in Loop |-> Free] /\ reply' = NoReply
        BY <1>8 DEF Restart
    <2>2. DOMAIN known' = {} /\ known' \in [{} -> Version] /\ running' \in [DOMAIN known' -> Loop]
        BY <2>1 DEF None
    <2>3. known' \in Assignments
        BY <2>2 DEF Assignments
    <2>4. loops' \in [Loop -> Schedule \cup {Free}] /\ \A l \in Loop : ~Live(l)'
        BY <2>1 DEF Live
    <2>5. QED
        BY <2>1, <2>2, <2>3, <2>4 DEF ScheduledInv
<1>9. CASE UNCHANGED vars
    BY <1>9, ScheduledStays DEF vars
<1>10. QED
    BY <1>1, <1>2, <1>3, <1>4, <1>5, <1>6, <1>7, <1>8, <1>9 DEF Next

\* Only Submit takes a schedule from its probe to the submission of a result.
LEMMA OnlySubmitSubmits ==
    ASSUME ScheduledInv, Next, NEW l \in Loop,
           loops[l].at = "probing", loops'[l].at = "submitting"
    PROVE  Live(l)
<1>1. \A k \in Loop : loops[k] \in Schedule \cup {Free}
    BY DEF ScheduledInv
<1>2. loops' # loops
    OBVIOUS
<1>3. ~(\E h \in Handler : Serves(h)) /\ ~(\E r \in Request : Issue(r))
      /\ ~Tick /\ ~FetchAssignments /\ ~FetchFails
    BY <1>2 DEF Serves, Arrives, AcceptRequest, ServeTakesSlot, ServeEnds, Serve, Issue, Tick,
                FetchAssignments, FetchFails
<1>4. ~Restart
    BY DEF Restart, Free
<1>5. ~Reconcile
    <2>1. SUFFICES ASSUME Reconcile PROVE FALSE
        OBVIOUS
    <2>2. PICK fresh, stopped, Check_, Version_ :
              loops'[l] = IF l \in fresh
                          THEN [check |-> Check_, version |-> Version_, cancelled |-> FALSE, at |-> "queued"]
                          ELSE IF l \in stopped THEN [loops[l] EXCEPT !.cancelled = TRUE]
                          ELSE loops[l]
        BY <2>1 DEF Reconcile
    <2>3. loops[l] \in Schedule
        BY <1>1 DEF Free
    <2>4. QED
        BY <2>2, <2>3 DEF Schedule
<1>6. PICK k \in Loop : Schedules(k)
    BY <1>3, <1>4, <1>5 DEF Next
<1>7. k = l
    <2>1. SUFFICES ASSUME k # l PROVE FALSE
        OBVIOUS
    <2>2. loops'[l] = loops[l]
        BY <1>6, <2>1 DEF ScheduledInv, Schedules, Due, TakeSlot, Submit, Interrupted, Submitted,
                          Return, Move
    <2>3. QED
        BY <2>2
<1>8. loops \in [Loop -> Schedule \cup {Free}] /\ loops[l] \in Schedule
    BY <1>1 DEF ScheduledInv, Free
<1>9. CASE Submit(l)
    BY <1>9 DEF Submit
<1>10. CASE Interrupted(l)
    BY <1>8, <1>10 DEF Interrupted, Move, Schedule
<1>11. CASE Due(l) \/ TakeSlot(l) \/ Submitted(l) \/ Return(l)
    BY <1>11 DEF Due, TakeSlot, Submitted, Return, Move
<1>12. QED
    BY <1>6, <1>7, <1>9, <1>10, <1>11 DEF Schedules

\* A result that is submitted is of a check that is assigned, made with the
\* definition assigned, whatever has been stopped, replaced or restarted since
\* (WatchAssignments, runLoop).
THEOREM SubmitsTheAssigned == Spec => SubmitsWhatIsAssigned
<1>1. ScheduledInv /\ [Next]_vars => [SubmitsAssigned]_vars
    <2> SUFFICES ASSUME ScheduledInv, Next PROVE SubmitsAssigned
        OBVIOUS
    <2>1. ASSUME NEW l \in Loop, loops[l].at = "probing", loops'[l].at = "submitting"
          PROVE  loops[l].check \in DOMAIN known /\ known[loops[l].check] = loops[l].version
        <3>1. Live(l)
            BY <2>1, OnlySubmitSubmits
        <3>2. QED
            BY <3>1 DEF ScheduledInv
    <2>2. QED
        BY <2>1 DEF SubmitsAssigned
<1>2. QED
    BY <1>1, ScheduledInit, ScheduledStep, PTL DEF Spec, SubmitsWhatIsAssigned
-----------------------------------------------------------------------------
\* A request accepted in its lifetime is remembered for as long as it could be
\* accepted again.
ServedInv ==
    /\ now \in Int /\ issued \in [Request -> Int]
    /\ served \in [Request -> {0, 1}]
    /\ serving = [h \in Handler |-> serving[h]]
    /\ \A h \in Handler : serving[h].at = "opened" =>
          serving[h].id \in Request /\ issued[serving[h].id] # -1
    /\ \A r \in Request : served[r] = 1 => issued[r] # -1
    /\ \A r \in Request : served[r] = 1 /\ now <= issued[r] + RequestLife =>
          r \in DOMAIN seenRequests /\ seenRequests[r] = issued[r] + RequestLife

LEMMA ServedInit == Init => ServedInv
BY DEF Init, ServedInv, Free

LEMMA ServedStays ==
    ASSUME ServedInv, UNCHANGED <<now, issued, served, serving, seenRequests>>
    PROVE  ServedInv'
BY DEF ServedInv

\* A handler does something else than accept a request.
LEMMA HandlerStep ==
    ASSUME ServedInv, NEW h \in Handler, NEW task, Serve(h, task),
           task.at = "opened" => task.id \in Request /\ issued[task.id] # -1,
           UNCHANGED <<seenRequests, served>>
    PROVE  ServedInv'
BY DEF ServedInv, Serve

LEMMA Accepted ==
    ASSUME ServedInv, NEW h \in Handler, AcceptRequest(h)
    PROVE  ServedInv'
<1> DEFINE r == serving[h].id
           expires == issued[r] + RequestLife
<1>1. r \in Request /\ issued[r] # -1 /\ issued[r] \in Int /\ expires \in Int /\ RequestLife \in Int
    BY AgentAssumption DEF AcceptRequest, ServedInv
<1>2. UNCHANGED <<now, issued>>
    BY DEF AcceptRequest, Serve
<1>3. \A s \in Request : served[s] = 1 /\ now <= issued[s] + RequestLife => s \in Remembered
    BY <1>1 DEF ServedInv, Remembered
<1>4. CASE r \in Remembered
    <2>1. seenRequests' = Restrict(seenRequests, Remembered) /\ UNCHANGED served
          /\ serving' = [serving EXCEPT ![h] = Free]
        BY <1>4 DEF AcceptRequest, Serve
    <2>2. \A s \in Remembered : s \in DOMAIN seenRequests' /\ seenRequests'[s] = seenRequests[s]
        BY <2>1 DEF Restrict
    <2>3. Free.at # "opened"
        BY DEF Free
    <2>4. QED
        BY <1>2, <1>3, <2>1, <2>2, <2>3 DEF ServedInv
<1>5. CASE r \notin Remembered
    <2>1. /\ serving' = [serving EXCEPT ![h] = [serving[h] EXCEPT !.at = "queued"]]
          /\ seenRequests' = [s \in Remembered \cup {r} |-> IF s = r THEN expires ELSE seenRequests[s]]
          /\ served' = IF now <= expires THEN [served EXCEPT ![r] = @ + 1] ELSE served
        BY <1>5 DEF AcceptRequest, Serve
    <2>2. now <= expires => served[r] = 0
        BY <1>1, <1>3, <1>5 DEF ServedInv
    <2>3. served' \in [Request -> {0, 1}] /\ \A s \in Request : s # r => served'[s] = served[s]
        BY <1>1, <2>1, <2>2 DEF ServedInv
    <2>4. /\ \A s \in Remembered \ {r} : s \in DOMAIN seenRequests' /\ seenRequests'[s] = seenRequests[s]
          /\ r \in DOMAIN seenRequests' /\ seenRequests'[r] = expires
        BY <2>1
    <2>5. \A g \in Handler : serving'[g].at = "opened" => serving'[g] = serving[g]
        BY <2>1 DEF ServedInv
    <2>6. \A s \in Request : served'[s] = 1 /\ now <= issued[s] + RequestLife =>
              s \in DOMAIN seenRequests' /\ seenRequests'[s] = issued[s] + RequestLife
        BY <1>1, <1>3, <2>3, <2>4 DEF ServedInv
    <2>7. QED
        BY <1>1, <1>2, <2>1, <2>3, <2>5, <2>6 DEF ServedInv
<1>6. QED
    BY <1>4, <1>5

LEMMA ServedStep == ServedInv /\ [Next]_vars => ServedInv'
<1> SUFFICES ASSUME ServedInv, [Next]_vars PROVE ServedInv'
    OBVIOUS
<1>1. CASE FetchAssignments \/ Reconcile \/ FetchFails
    BY <1>1, ServedStays DEF FetchAssignments, Reconcile, FetchFails
<1>2. ASSUME NEW l \in Loop, Schedules(l) PROVE ServedInv'
    BY <1>2, ServedStays
    DEF Schedules, Due, TakeSlot, Submit, Interrupted, Submitted, Return, Move
<1>3. ASSUME NEW h \in Handler, Serves(h) PROVE ServedInv'
    <2>1. ASSUME NEW r \in Request, Arrives(h, r) PROVE ServedInv'
        BY <2>1, HandlerStep DEF Arrives
    <2>2. CASE AcceptRequest(h)
        BY <2>2, Accepted
    <2>3. CASE ServeTakesSlot(h)
        <3>1. Serve(h, [serving[h] EXCEPT !.at = "probing"]) /\ UNCHANGED <<seenRequests, served>>
              /\ serving[h].at = "queued"
            BY <2>3 DEF ServeTakesSlot
        <3>2. \A g \in Handler : serving'[g].at = "opened" => serving'[g] = serving[g]
            BY <3>1 DEF Serve, ServedInv
        <3>3. QED
            BY <3>1, <3>2 DEF Serve, ServedInv
    <2>4. CASE ServeEnds(h)
        BY <2>4, HandlerStep DEF ServeEnds, Free
    <2>5. QED
        BY <1>3, <2>1, <2>2, <2>3, <2>4 DEF Serves
<1>4. ASSUME NEW r \in Request, Issue(r) PROVE ServedInv'
    <2>1. /\ issued[r] = -1 /\ issued' = [issued EXCEPT ![r] = now]
          /\ UNCHANGED <<now, served, serving, seenRequests>>
        BY <1>4 DEF Issue
    <2>2. served[r] = 0 /\ \A s \in Request : s # r => issued'[s] = issued[s]
        BY <2>1 DEF ServedInv
    <2>3. \A h \in Handler : serving[h].at = "opened" => serving[h].id # r
        BY <2>1 DEF ServedInv
    <2>4. QED
        BY <2>1, <2>2, <2>3 DEF ServedInv
<1>5. CASE Tick
    BY <1>5, AgentAssumption DEF Tick, ServedInv
<1>6. CASE Restart
    BY <1>6 DEF Restart, ServedInv, Free
<1>7. CASE UNCHANGED vars
    BY <1>7, ServedStays DEF vars
<1>8. QED
    BY <1>1, <1>2, <1>3, <1>4, <1>5, <1>6, <1>7 DEF Next

LEMMA ServedThen == ServedInv => RunOnce
BY DEF ServedInv, RunOnce

\* However often a request is delivered, to however many handlers at a time,
\* it is run once in its lifetime (acceptRequest: ids are kept until after
\* their last instant).
THEOREM ServedOnce == Spec => []RunOnce
BY ServedInit, ServedStep, ServedThen, PTL DEF Spec
=============================================================================
