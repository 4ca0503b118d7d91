-------------------------- MODULE Ownership_proofs --------------------------
(***************************************************************************)
(* Theorems about Ownership, for any fleet, checks, weights and bounds.    *)
(* A prober that has been well all along is never declared silent,         *)
(* whatever becomes of the others (WellNotBlamed).  And a fleet in which   *)
(* nothing fails any more settles: its owners return, each check has one   *)
(* runner and is watched, and nobody is declared silent any more.          *)
(*                                                                         *)
(* That it settles is shown without any liveness: calm counts the ticks    *)
(* since the last fault, and the invariant (Sorted /\ Orderly) says how    *)
(* far each prober is on its way when calm has come to some value.         *)
(***************************************************************************)
EXTENDS Ownership, TLAPS, FiniteSetTheorems, WellFoundedInduction

-----------------------------------------------------------------------------
(* The types.                                                              *)

\* An age grows to its limit and stays there.
LEMMA OlderBounds ==
    ASSUME NEW limit \in Nat, NEW age \in 0 .. limit
    PROVE  /\ Older(age, limit) \in 0 .. limit
           /\ age < limit => Older(age, limit) = age + 1
           /\ age = limit => Older(age, limit) = limit
BY DEF Older

LEMMA Limits ==
    /\ StaleAfter \in Nat /\ StaleAfter >= 1 /\ StaleAfter + 1 \in Nat /\ NoChance \in Nat
    /\ MeshMaxAge \in Nat /\ Calm \in Nat
    /\ NoChance > StaleAfter + 1
BY OwnershipAssumption DEF NoChance

LEMMA TypesInit == Init => TypeOK
<1> SUFFICES ASSUME Init PROVE TypeOK
    OBVIOUS
<1>1. running \in [Prober -> SUBSET Check]
    BY DEF Init
<1>2. \A p \in Prober : Work(p, running[p]) \subseteq Task
    BY <1>1 DEF Work, Task
<1>3. todo \subseteq Task
    <2>1. UNION {Work(p, running[p]) : p \in Prober} \subseteq Task /\ Look \in Task
        BY <1>2 DEF Task
    <2>2. QED
        BY <2>1 DEF Init
<1>4. QED
    BY <1>1, <1>3, Limits DEF Init, TypeOK, Mode

LEMMA TypesStep == TypeOK /\ [Next]_vars => TypeOK'
<1> SUFFICES ASSUME TypeOK, [Next]_vars PROVE TypeOK'
    OBVIOUS
<1> USE Limits
<1>1. ASSUME NEW p \in Prober, FetchAssignments(p) PROVE TypeOK'
    <2>1. Fetched(p) \in SUBSET Check /\ {Run(p, c) : c \in Fetched(p) \ running[p]} \subseteq Task
        BY DEF Fetched, Task
    <2>2. running' \in [Prober -> SUBSET Check] /\ todo' \subseteq Task
        BY <1>1, <2>1 DEF FetchAssignments, TypeOK
    <2>3. QED
        BY <1>1, <2>2 DEF FetchAssignments, TypeOK
<1>2. ASSUME NEW p \in Prober, ReportMesh(p) PROVE TypeOK'
    <2>1. view' \in [Prober -> {"none", "sees", "cut"}] /\ viewAge' \in [Prober -> 0 .. MeshMaxAge]
        BY <1>2 DEF ReportMesh, TypeOK
    <2>2. announced' \subseteq Prober
        BY <1>2 DEF ReportMesh, Isolated
    <2>3. chance' \in [Prober -> 0 .. NoChance]
        BY <1>2 DEF ReportMesh, Chance, TypeOK
    <2>4. QED
        BY <1>2, <2>1, <2>2, <2>3 DEF ReportMesh, TypeOK
<1>3. ASSUME NEW p \in Prober, Fault(p) PROVE TypeOK'
    <2>1. PICK m \in Mode :
             /\ faults' = [faults EXCEPT ![p] = @ + 1] /\ calm' = 0
             /\ mode' = [mode EXCEPT ![p] = m]
             /\ running' = IF m = "stopped" THEN [running EXCEPT ![p] = {}] ELSE running
             /\ todo' \subseteq todo \cup Work(p, {})
             /\ UNCHANGED <<admitted, quietFor, view, viewAge, announced, silent, chance, found>>
        BY <1>3 DEF Fault
    <2>2. Work(p, {}) \subseteq Task
        BY DEF Work, Task
    <2>3. todo' \subseteq Task
        BY <2>1, <2>2 DEF TypeOK
    <2>4. faults' \in [Prober -> Nat] /\ mode' \in [Prober -> Mode]
          /\ running' \in [Prober -> SUBSET Check]
        BY <2>1 DEF TypeOK
    <2>5. QED
        BY <2>1, <2>3, <2>4 DEF TypeOK
<1>4. ASSUME NEW p \in Prober, NEW c \in Check, Submit(p, c) PROVE TypeOK'
    BY <1>4 DEF Submit, TypeOK
<1>5. ASSUME NEW p \in Prober, NEW c \in Check, Process(p, c) PROVE TypeOK'
    BY <1>5 DEF Process, TypeOK
<1>6. CASE WatchdogLooks
    BY <1>6 DEF WatchdogLooks, TypeOK, Task
<1>7. CASE WatchdogActs
    <2>1. Blamed \subseteq Prober
        BY OwnershipAssumption DEF Blamed, TypeOK
    <2>2. QED
        BY <1>7, <2>1 DEF WatchdogActs, TypeOK
<1>8. CASE Tick
    <2>1. todo' \subseteq Task
        <3>1. \A p \in Prober : Work(p, running[p]) \subseteq Task
            BY DEF Work, Task, TypeOK
        <3>2. QED
            BY <1>8, <3>1 DEF Tick, Task
    <2>2. quietFor' \in [Check -> 0 .. StaleAfter + 1]
        BY <1>8, OlderBounds DEF Tick, TypeOK
    <2>3. viewAge' \in [Prober -> 0 .. MeshMaxAge] /\ calm' \in 0 .. Calm
        BY <1>8, OlderBounds DEF Tick, TypeOK
    <2>4. view' \in [Prober -> {"none", "sees", "cut"}]
        BY <1>8 DEF Tick, TypeOK
    <2>5. chance' \in [Prober -> 0 .. NoChance]
        <3>1. ASSUME NEW p \in Prober, chance[p] # NoChance
              PROVE  Older(chance[p], StaleAfter + 1) \in 0 .. NoChance
            <4>1. chance[p] \in 0 .. StaleAfter + 1
                BY <3>1 DEF TypeOK, NoChance
            <4>2. Older(chance[p], StaleAfter + 1) \in 0 .. StaleAfter + 1
                BY <4>1, OlderBounds
            <4>3. QED
                BY <4>2
        <3>2. QED
            BY <1>8, <3>1 DEF Tick, TypeOK
    <2>6. QED
        BY <1>8, <2>1, <2>2, <2>3, <2>4, <2>5 DEF Tick, TypeOK
<1>9. CASE UNCHANGED vars
    BY <1>9 DEF vars, TypeOK
<1>10. QED
    BY <1>1, <1>2, <1>3, <1>4, <1>5, <1>6, <1>7, <1>8, <1>9 DEF Next

\* TypeOK of the module: no action leaves the ranges of the variables, since the
\* ages of reports, verdicts and chances saturate.
THEOREM TypeCorrect == Spec => []TypeOK
BY TypesInit, TypesStep, PTL DEF Spec

-----------------------------------------------------------------------------
(* What each action does to the tasks of the tick.                         *)

\* A run is no other task, and tells its prober and its check.
LEMMA TasksDiffer ==
    ASSUME NEW p, NEW q, NEW c, NEW d
    PROVE  /\ Run(p, c) = Run(q, d) => p = q /\ c = d
           /\ Run(p, c) # Report(q) /\ Run(p, c) # Fetch(q) /\ Run(p, c) # Look /\ Run(p, c) # Act
<1>1. /\ Run(p, c).does = "run" /\ Run(p, c).by = p /\ Run(p, c).check = c
      /\ Run(q, d).by = q /\ Run(q, d).check = d
    BY DEF Run
<1>2. Report(q).does = "report" /\ Fetch(q).does = "fetch" /\ Look.does = "look" /\ Act.does = "act"
    BY DEF Report, Fetch, Look, Act
<1>3. QED
    BY <1>1, <1>2

\* The other tasks differ too.
LEMMA Tasks ==
    /\ \A p, q : /\ Report(p) = Report(q) => p = q
                 /\ Fetch(p) = Fetch(q) => p = q
                 /\ Report(p) # Fetch(q)
    /\ \A p : Report(p) # Look /\ Report(p) # Act /\ Fetch(p) # Look /\ Fetch(p) # Act
    /\ Look # Act
<1>1. \A p : /\ Report(p).by = p /\ Fetch(p).by = p
             /\ Report(p).does = "report" /\ Fetch(p).does = "fetch"
    BY DEF Report, Fetch
<1>2. Look.does = "look" /\ Act.does = "act"
    BY DEF Look, Act
<1>3. "report" # "fetch" /\ "report" # "look" /\ "report" # "act" /\ "fetch" # "look"
      /\ "fetch" # "act" /\ "look" # "act"
    OBVIOUS
<1>4. QED
    BY <1>1, <1>2, <1>3

Same(task) == task \in todo' <=> task \in todo

LEMMA FetchTasks ==
    ASSUME NEW q \in Prober, FetchAssignments(q)
    PROVE  /\ Same(Look) /\ Same(Act)
           /\ \A p \in Prober : /\ Same(Report(p))
                                /\ Fetch(p) \in todo' <=> Fetch(p) \in todo /\ p # q
                                /\ p # q => \A c \in Check : Same(Run(p, c))
           /\ \A c \in Check : Run(q, c) \in todo' <=>
                  c \in Fetched(q) /\ (Run(q, c) \in todo \/ c \notin running[q])
<1> DEFINE new == {Run(q, c) : c \in Fetched(q) \ running[q]}
           dropped == {Run(q, c) : c \in Check \ Fetched(q)}
<1>1. todo' = ((todo \ {Fetch(q)}) \ dropped) \cup new
    BY DEF FetchAssignments
<1>2. /\ Look \notin dropped \cup new /\ Act \notin dropped \cup new
      /\ \A p : Report(p) \notin dropped \cup new /\ Fetch(p) \notin dropped \cup new
    BY TasksDiffer
<1>3. \A p, c : p # q => Run(p, c) \notin dropped \cup new
    BY TasksDiffer
<1>4. ASSUME NEW c \in Check
      PROVE  /\ Run(q, c) \in dropped <=> c \notin Fetched(q)
             /\ Run(q, c) \in new <=> c \in Fetched(q) /\ c \notin running[q]
    BY TasksDiffer
<1>5. \A p, c : Run(p, c) # Fetch(q)
    BY TasksDiffer
<1> HIDE DEF new, dropped
<1>6. QED
    BY <1>1, <1>2, <1>3, <1>4, <1>5, Tasks DEF Same

\* What the steps of a tick take away; the watchdog adds its Act.
LEMMA ReportTasks ==
    ASSUME NEW q \in Prober, ReportMesh(q)
    PROVE  /\ Same(Look) /\ Same(Act)
           /\ \A p \in Prober : /\ Report(p) \in todo' <=> Report(p) \in todo /\ p # q
                                /\ Same(Fetch(p))
                                /\ \A c \in Check : Same(Run(p, c))
BY Tasks, TasksDiffer DEF ReportMesh, Same

LEMMA SubmitTasks ==
    ASSUME NEW q \in Prober, NEW d \in Check, Submit(q, d)
    PROVE  /\ Same(Look) /\ Same(Act)
           /\ \A p \in Prober : /\ Same(Report(p)) /\ Same(Fetch(p))
                                /\ \A c \in Check : Run(p, c) \in todo' <=>
                                       Run(p, c) \in todo /\ (p # q \/ c # d)
BY TasksDiffer DEF Submit, Same

LEMMA LookTasks ==
    ASSUME WatchdogLooks
    PROVE  /\ Look \notin todo' /\ Act \in todo'
           /\ \A p \in Prober : /\ Same(Report(p)) /\ Same(Fetch(p))
                                /\ \A c \in Check : Same(Run(p, c))
BY Tasks, TasksDiffer DEF WatchdogLooks, Same

LEMMA ActTasks ==
    ASSUME WatchdogActs
    PROVE  /\ Same(Look) /\ Act \notin todo'
           /\ \A p \in Prober : /\ Same(Report(p)) /\ Same(Fetch(p))
                                /\ \A c \in Check : Same(Run(p, c))
BY Tasks, TasksDiffer DEF WatchdogActs, Same

LEMMA WorkOf ==
    ASSUME NEW p \in Prober, NEW q \in Prober, NEW its \in SUBSET Check
    PROVE  /\ Look \notin Work(q, its) /\ Act \notin Work(q, its)
           /\ Report(p) \in Work(q, its) <=> p = q
           /\ Fetch(p) \in Work(q, its) <=> p = q
           /\ \A c \in Check : Run(p, c) \in Work(q, its) <=> p = q /\ c \in its
<1> DEFINE R == {Run(q, c) : c \in its}
<1>1. Work(q, its) = {Report(q), Fetch(q)} \cup R
    BY DEF Work
<1>2. Look \notin R /\ Act \notin R /\ Report(p) \notin R /\ Fetch(p) \notin R
    BY TasksDiffer
<1>3. \A c \in Check : Run(p, c) \in R <=> p = q /\ c \in its
    BY TasksDiffer
<1>4. \A c : Run(p, c) # Report(q) /\ Run(p, c) # Fetch(q)
    BY TasksDiffer
<1> HIDE DEF R
<1>5. QED
    BY <1>1, <1>2, <1>3, <1>4, Tasks

\* All is due again, for those that are there.
LEMMA TickTasks ==
    ASSUME TypeOK, Tick
    PROVE  /\ \A task : task \notin todo
           /\ Look \in todo' /\ Act \notin todo'
           /\ \A p \in Prober :
                 /\ Report(p) \in todo' <=> mode[p] \in Connected
                 /\ Fetch(p) \in todo' <=> mode[p] \in Connected
                 /\ \A c \in Check : Run(p, c) \in todo' <=>
                        mode[p] \in Connected /\ c \in running[p]
<1> DEFINE U == UNION {Work(p, running[p]) : p \in {q \in Prober : mode[q] \in Connected}}
<1>1. todo = {} /\ todo' = {Look} \cup U
    BY DEF Tick
<1>2. \A q \in Prober : running[q] \in SUBSET Check
    BY DEF TypeOK
<1>3. Act \notin U
    BY <1>2, WorkOf
<1>4. ASSUME NEW p \in Prober
      PROVE  /\ Report(p) \in U <=> mode[p] \in Connected
             /\ Fetch(p) \in U <=> mode[p] \in Connected
             /\ \A c \in Check : Run(p, c) \in U <=> mode[p] \in Connected /\ c \in running[p]
    BY <1>2, WorkOf
<1> HIDE DEF U
<1>5. \A p, c : Run(p, c) # Look
    BY TasksDiffer
<1>6. QED
    BY <1>1, <1>3, <1>4, <1>5, Tasks

LEMMA FaultTasks ==
    ASSUME TypeOK, NEW q \in Prober, Fault(q)
    PROVE  /\ Same(Look) /\ Same(Act)
           /\ \A p \in Prober : p # q =>
                 Same(Report(p)) /\ Same(Fetch(p)) /\ \A c \in Check : Same(Run(p, c))
           /\ mode'[q] \notin Connected =>
                 /\ Report(q) \notin todo' /\ Fetch(q) \notin todo'
                 /\ \A c \in Check : Run(q, c) \notin todo'
           /\ mode'[q] \in Connected => \A c \in Check : Same(Run(q, c))
<1>1. PICK m \in Mode :
         /\ mode' = [mode EXCEPT ![q] = m]
         /\ todo' = IF m \notin Connected THEN todo \ Work(q, Check)
                    ELSE IF mode[q] = "stopped" THEN todo \cup Work(q, {})
                    ELSE todo
    BY DEF Fault
<1>2. mode'[q] = m
    BY <1>1 DEF TypeOK
<1>3. /\ \A p \in Prober, its \in {Check, {}} :
            /\ Look \notin Work(q, its) /\ Act \notin Work(q, its)
            /\ Report(p) \in Work(q, its) <=> p = q
            /\ Fetch(p) \in Work(q, its) <=> p = q
            /\ \A c \in Check : Run(p, c) \in Work(q, its) <=> p = q /\ c \in its
    BY WorkOf
<1>4. QED
    BY <1>1, <1>2, <1>3 DEF Same

-----------------------------------------------------------------------------
(* A prober that has been well all along.                                  *)

\* A check of a well prober has had its verdict in this tick, or is to have it.
Attended(p, c) ==
    /\ c \in running[p]
    /\ \/ quietFor[c] = 0
       \/ quietFor[c] = 1 /\ (Run(p, c) \in todo \/ <<p, c>> \in admitted)
    /\ c \notin found

\* A prober without a fault is connected, seen by its peers and not silent, so
\* that all checks that prefer it are assigned to it, and each is attended to.
WellKept(p) ==
    /\ mode[p] = "well" /\ view[p] # "cut" /\ p \notin silent
    /\ \A c \in Check : Preferred[c] = p => Attended(p, c)

FleetInv ==
    /\ TypeOK
    /\ \A p \in Prober : faults[p] = 0 => WellKept(p)

\* What prefers a prober that is well is assigned to it.
LEMMA WellIsAssigned ==
    ASSUME NEW p \in Prober, WellKept(p), NEW c \in Check, Preferred[c] = p
    PROVE  Assigned(c) = {p} /\ Admissible(p, c)
BY DEF WellKept, Assigned, Unavailable, Isolated, Admissible

\* A step that leaves the mode, the view and the silence of the well alone has
\* only to attend to their checks.
LEMMA StillWell ==
    ASSUME FleetInv, TypeOK',
           \A p \in Prober : faults'[p] = 0 =>
               /\ faults[p] = 0
               /\ mode'[p] = mode[p] /\ view'[p] \in {view[p], "sees", "none"}
               /\ p \notin silent'
               /\ \A c \in Check : Preferred[c] = p => Attended(p, c)'
    PROVE  FleetInv'
BY DEF FleetInv, WellKept

LEMMA FleetInit == Init => FleetInv
<1> SUFFICES ASSUME Init PROVE FleetInv
    OBVIOUS
<1>1. TypeOK
    BY TypesInit
<1>2. ASSUME NEW p \in Prober PROVE WellKept(p)
    <2>1. mode[p] = "well" /\ view[p] = "sees" /\ silent = {}
        BY DEF Init
    <2>2. ASSUME NEW c \in Check, Preferred[c] = p PROVE Attended(p, c)
        <3>1. quietFor[c] = 0 /\ found = {} /\ c \in running[p]
            BY <2>2 DEF Init
        <3>2. QED
            BY <3>1 DEF Attended
    <2>3. QED
        BY <2>1, <2>2 DEF WellKept
<1>3. QED
    BY <1>1, <1>2 DEF FleetInv

LEMMA FleetStep == FleetInv /\ [Next]_vars => FleetInv'
<1> SUFFICES ASSUME FleetInv, [Next]_vars PROVE FleetInv'
    OBVIOUS
<1>0. TypeOK /\ TypeOK' /\ \A p \in Prober : faults[p] = 0 => WellKept(p)
    BY TypesStep DEF FleetInv
<1>1. ASSUME NEW q \in Prober, FetchAssignments(q) PROVE FleetInv'
    <2>1. ASSUME NEW p \in Prober, faults[p] = 0, NEW c \in Check, Preferred[c] = p
          PROVE  Attended(p, c)'
        <3>1. Attended(p, c) /\ Assigned(c) = {p}
            BY <1>0, <2>1, WellIsAssigned DEF WellKept
        <3>2. c \in running'[p]
            BY <1>0, <1>1, <3>1 DEF FetchAssignments, Fetched, TypeOK, Attended
        <3>3. Run(p, c) \in todo => Run(p, c) \in todo'
            <4>1. Run(p, c) # Fetch(q)
                BY TasksDiffer
            <4>2. Run(p, c) \notin {Run(q, d) : d \in Check \ Fetched(q)}
                BY <3>1, TasksDiffer DEF Fetched
            <4>3. QED
                BY <1>1, <4>1, <4>2 DEF FetchAssignments
        <3>4. QED
            BY <1>1, <3>1, <3>2, <3>3 DEF Attended, FetchAssignments
    <2>2. QED
        BY <1>0, <1>1, <2>1, StillWell DEF FetchAssignments, WellKept
<1>2. ASSUME NEW q \in Prober, ReportMesh(q) PROVE FleetInv'
    <2>1. ASSUME NEW p \in Prober, faults[p] = 0, NEW c \in Check, Preferred[c] = p
          PROVE  Attended(p, c)'
        <3>1. Run(p, c) # Report(q)
            BY TasksDiffer
        <3>2. Attended(p, c)
            BY <1>0, <2>1 DEF WellKept
        <3>3. QED
            BY <1>2, <3>1, <3>2 DEF Attended, ReportMesh
    <2>2. ASSUME NEW p \in Prober, faults[p] = 0 PROVE view'[p] \in {view[p], "sees"}
        <3>1. mode[p] # "cut"
            BY <1>0, <2>2 DEF WellKept
        <3>2. QED
            BY <1>0, <1>2, <3>1 DEF TypeOK, ReportMesh
    <2>3. QED
        BY <1>0, <1>2, <2>1, <2>2, StillWell DEF ReportMesh, WellKept
<1>3. ASSUME NEW q \in Prober, Fault(q) PROVE FleetInv'
    <2>1. PICK m \in Mode \ {mode[q]} :
             /\ faults' = [faults EXCEPT ![q] = @ + 1]
             /\ mode' = [mode EXCEPT ![q] = m]
             /\ running' = IF m = "stopped" THEN [running EXCEPT ![q] = {}] ELSE running
             /\ todo' = IF m \notin Connected THEN todo \ Work(q, Check)
                        ELSE IF mode[q] = "stopped" THEN todo \cup Work(q, {})
                        ELSE todo
             /\ UNCHANGED <<admitted, quietFor, view, silent, found>>
        BY <1>3 DEF Fault
    <2>2. ASSUME NEW p \in Prober, faults'[p] = 0 PROVE p # q /\ faults[p] = 0
        BY <1>0, <2>1, <2>2 DEF TypeOK
    <2>3. ASSUME NEW p \in Prober, faults'[p] = 0, NEW c \in Check, Preferred[c] = p
          PROVE  Attended(p, c)'
        <3>1. p # q /\ Attended(p, c)
            BY <1>0, <2>2, <2>3 DEF WellKept
        <3>2. Run(p, c) \notin Work(q, Check)
            BY <3>1, TasksDiffer DEF Work
        <3>3. Run(p, c) \in todo => Run(p, c) \in todo'
            BY <2>1, <3>2
        <3>4. running'[p] = running[p]
            BY <1>0, <2>1, <3>1 DEF TypeOK
        <3>5. QED
            BY <2>1, <3>1, <3>3, <3>4 DEF Attended
    <2>4. ASSUME NEW p \in Prober, faults'[p] = 0
          PROVE  mode'[p] = mode[p] /\ view'[p] = view[p] /\ p \notin silent'
        BY <1>0, <2>1, <2>2, <2>4 DEF TypeOK, WellKept
    <2>5. QED
        BY <1>0, <2>2, <2>3, <2>4, StillWell
<1>4. ASSUME NEW q \in Prober, NEW d \in Check, Submit(q, d) PROVE FleetInv'
    <2>1. ASSUME NEW p \in Prober, faults[p] = 0, NEW c \in Check, Preferred[c] = p
          PROVE  Attended(p, c)'
        <3>1. Attended(p, c) /\ Admissible(p, c)
            BY <1>0, <2>1, WellIsAssigned DEF WellKept
        <3>2. CASE p = q /\ c = d
            BY <1>4, <3>1, <3>2 DEF Submit, Attended
        <3>3. CASE ~(p = q /\ c = d)
            <4>1. Run(p, c) # Run(q, d)
                BY <3>3, TasksDiffer
            <4>2. QED
                BY <1>4, <3>1, <4>1 DEF Submit, Attended
        <3>4. QED
            BY <3>2, <3>3
    <2>2. QED
        BY <1>0, <1>4, <2>1, StillWell DEF Submit, WellKept
<1>5. ASSUME NEW q \in Prober, NEW d \in Check, Process(q, d) PROVE FleetInv'
    <2>1. ASSUME NEW p \in Prober, faults[p] = 0, NEW c \in Check, Preferred[c] = p
          PROVE  Attended(p, c)'
        <3>1. Attended(p, c) /\ p \notin Isolated
            BY <1>0, <2>1 DEF WellKept, Isolated
        <3>2. UNCHANGED <<running, todo, found>>
            BY <1>5 DEF Process
        <3>3. CASE p = q /\ c = d
            <4>1. quietFor'[c] = 0
                BY <1>0, <1>5, <3>1, <3>3 DEF Process, TypeOK
            <4>2. QED
                BY <3>1, <3>2, <4>1 DEF Attended
        <3>4. CASE ~(p = q /\ c = d)
            <4>1. quietFor'[c] \in {quietFor[c], 0}
                BY <1>0, <1>5 DEF Process, TypeOK
            <4>2. <<p, c>> \in admitted => <<p, c>> \in admitted'
                BY <1>5, <3>4 DEF Process
            <4>3. QED
                BY <3>1, <3>2, <4>1, <4>2 DEF Attended
        <3>5. QED
            BY <3>3, <3>4
    <2>2. silent' \subseteq silent /\ UNCHANGED <<faults, mode, view>>
        BY <1>5 DEF Process
    <2>3. QED
        BY <1>0, <2>1, <2>2, StillWell DEF WellKept
<1>6. CASE WatchdogLooks
    <2>1. ASSUME NEW p \in Prober, faults[p] = 0, NEW c \in Check, Preferred[c] = p
          PROVE  Attended(p, c)'
        <3>1. Attended(p, c) /\ Run(p, c) # Look
            BY <1>0, <2>1, TasksDiffer DEF WellKept
        <3>2. ~Stale(c)
            BY <3>1, OwnershipAssumption DEF Attended, Stale
        <3>3. c \notin found'
            BY <1>6, <3>2 DEF WatchdogLooks
        <3>4. QED
            BY <1>6, <3>1, <3>3 DEF WatchdogLooks, Attended
    <2>2. QED
        BY <1>0, <1>6, <2>1, StillWell DEF WatchdogLooks, WellKept
<1>7. CASE WatchdogActs
    <2>1. ASSUME NEW p \in Prober, faults[p] = 0
          PROVE  p \notin silent' /\ \A c \in Check : Preferred[c] = p => Attended(p, c)'
        <3>1. WellKept(p)
            BY <1>0, <2>1
        <3>2. p \notin Blamed
            BY <1>0, <3>1 DEF Blamed, WellKept, Attended, TypeOK
        <3>3. \A c \in Check : Run(p, c) # Act
            BY TasksDiffer
        <3>4. QED
            BY <1>7, <3>1, <3>2, <3>3 DEF WatchdogActs, WellKept, Attended
    <2>2. QED
        BY <1>0, <1>7, <2>1, StillWell DEF WatchdogActs
<1>8. CASE Tick
    <2>1. ASSUME NEW p \in Prober, faults[p] = 0, NEW c \in Check, Preferred[c] = p
          PROVE  Attended(p, c)'
        <3>1. mode[p] \in Connected /\ Attended(p, c) /\ todo = {} /\ admitted = {}
            BY <1>0, <1>8, <2>1 DEF WellKept, Connected, Tick
        <3>2. quietFor[c] = 0
            BY <3>1 DEF Attended
        <3>3. quietFor'[c] = 1
            BY <1>8, <3>2, OwnershipAssumption DEF Tick, Older
        <3>4. Run(p, c) \in todo'
            BY <1>8, <3>1 DEF Tick, Work, Attended
        <3>5. QED
            BY <1>8, <3>1, <3>3, <3>4 DEF Tick, Attended
    <2>2. \A p \in Prober : view'[p] \in {view[p], "none"}
        BY <1>8 DEF Tick
    <2>3. UNCHANGED <<faults, mode, silent>>
        BY <1>8 DEF Tick
    <2>4. QED
        BY <1>0, <2>1, <2>2, <2>3, StillWell DEF WellKept
<1>9. CASE UNCHANGED vars
    BY <1>9 DEF vars, FleetInv, TypeOK, WellKept, Attended
<1>10. QED
    BY <1>1, <1>2, <1>3, <1>4, <1>5, <1>6, <1>7, <1>8, <1>9 DEF Next

\* A prober that has been well all along is never declared silent
\* (applySilence), however many of the others fail and whoever is isolated.
THEOREM WellNotBlamed == Spec => []TheWellAreNotBlamed
<1>1. FleetInv => TheWellAreNotBlamed
    BY DEF FleetInv, TypeOK, WellKept, TheWellAreNotBlamed
<1>2. QED
    BY <1>1, FleetInit, FleetStep, PTL DEF Spec

-----------------------------------------------------------------------------
(* What holds at all times.                                                *)

\* A prober that is not connected has nothing to do, loops only run what they
\* have, the watchdog acts upon what it found, and it gives chances to the
\* silent alone, which it found by a check that prefers them.
Ordinary ==
    /\ \A p \in Prober : mode[p] \notin Connected =>
          /\ Report(p) \notin todo /\ Fetch(p) \notin todo
          /\ \A c \in Check : Run(p, c) \notin todo
    /\ \A p \in Prober, c \in Check : Run(p, c) \in todo => c \in running[p]
    /\ Act \notin todo => found = {}
    /\ \A p \in Prober : chance[p] # NoChance => p \in silent
    /\ \A p \in silent : \E c \in Check : Preferred[c] = p

LEMMA OrdinaryInit == Init => Ordinary
<1> SUFFICES ASSUME Init PROVE Ordinary
    OBVIOUS
<1>1. \A p \in Prober : mode[p] \in Connected
    BY DEF Init, Connected
<1>2. ASSUME NEW p \in Prober, NEW c \in Check, Run(p, c) \in todo PROVE c \in running[p]
    <2>1. \A q \in Prober : running[q] \in SUBSET Check
        BY DEF Init
    <2>2. Run(p, c) # Look
        BY TasksDiffer
    <2>3. PICK q \in Prober : Run(p, c) \in Work(q, running[q])
        BY <1>2, <2>2 DEF Init
    <2>4. QED
        BY <2>1, <2>3, WorkOf
<1>3. QED
    BY <1>1, <1>2 DEF Init, Ordinary

LEMMA OrdinaryStep == TypeOK /\ Ordinary /\ [Next]_vars => Ordinary'
<1> SUFFICES ASSUME TypeOK, Ordinary, [Next]_vars PROVE Ordinary'
    OBVIOUS
<1> USE DEF Ordinary
<1>1. ASSUME NEW q \in Prober, FetchAssignments(q) PROVE Ordinary'
    <2>1. \A p \in Prober, c \in Check : Run(p, c) \in todo' => c \in running'[p]
        <3>1. running' = [running EXCEPT ![q] = Fetched(q)] /\ DOMAIN running = Prober
            BY <1>1 DEF FetchAssignments, TypeOK
        <3>2. QED
            BY <1>1, <3>1, FetchTasks DEF Same
    <2>2. mode' = mode /\ found' = found /\ chance' = chance /\ silent' = silent
        BY <1>1 DEF FetchAssignments
    <2>3. ASSUME NEW p \in Prober, mode[p] \notin Connected, NEW c \in Check
          PROVE  Run(p, c) \notin todo'
        BY <1>1, <2>3, FetchTasks DEF Same, FetchAssignments
    <2>4. QED
        BY <1>1, <2>1, <2>2, <2>3, FetchTasks DEF Same
<1>2. ASSUME NEW q \in Prober, ReportMesh(q) PROVE Ordinary'
    <2>1. \A p \in Prober : chance'[p] # NoChance => p \in silent
        BY <1>2 DEF ReportMesh, Chance, TypeOK
    <2>2. mode' = mode /\ found' = found /\ running' = running /\ silent' = silent
        BY <1>2 DEF ReportMesh
    <2>3. QED
        BY <1>2, <2>1, <2>2, ReportTasks DEF Same
<1>3. ASSUME NEW q \in Prober, Fault(q) PROVE Ordinary'
    <2>1. PICK m \in Mode :
             /\ mode' = [mode EXCEPT ![q] = m]
             /\ running' = IF m = "stopped" THEN [running EXCEPT ![q] = {}] ELSE running
             /\ UNCHANGED <<silent, chance, found>>
        BY <1>3 DEF Fault
    <2>2. /\ mode'[q] = m /\ \A p \in Prober : p # q => mode'[p] = mode[p] /\ running'[p] = running[p]
          /\ m \in Connected => running'[q] = running[q]
        BY <2>1 DEF TypeOK, Connected
    <2>3. QED
        BY <1>3, <2>1, <2>2, FaultTasks DEF Same
<1>4. ASSUME NEW q \in Prober, NEW d \in Check, Submit(q, d) PROVE Ordinary'
    <2>1. UNCHANGED <<mode, running, found, chance, silent>>
        BY <1>4 DEF Submit
    <2>2. QED
        BY <1>4, <2>1, SubmitTasks DEF Same
<1>5. ASSUME NEW q \in Prober, NEW d \in Check, Process(q, d) PROVE Ordinary'
    <2>1. UNCHANGED <<mode, running, found, todo>> /\ silent' \subseteq silent
        BY <1>5 DEF Process
    <2>2. \A p \in Prober : chance'[p] # NoChance => p \in silent'
        BY <1>5 DEF Process, TypeOK
    <2>3. QED
        BY <2>1, <2>2
<1>6. CASE WatchdogLooks
    <2>1. UNCHANGED <<mode, running, chance, silent>>
        BY <1>6 DEF WatchdogLooks
    <2>2. QED
        BY <1>6, <2>1, LookTasks DEF Same
<1>7. CASE WatchdogActs
    <2>1. UNCHANGED <<mode, running, chance>> /\ found' = {} /\ silent' = silent \cup Blamed
        BY <1>7 DEF WatchdogActs
    <2>2. \A p \in Blamed : \E c \in Check : Preferred[c] = p
        BY DEF Blamed, TypeOK
    <2>3. QED
        BY <1>7, <2>1, <2>2, ActTasks DEF Same
<1>8. CASE Tick
    <2>1. UNCHANGED <<mode, running, found, silent>>
        BY <1>8 DEF Tick
    <2>2. \A p \in Prober : chance'[p] # NoChance => chance[p] # NoChance
        BY <1>8 DEF Tick
    <2>3. QED
        BY <1>8, <2>1, <2>2, TickTasks
<1>9. CASE UNCHANGED vars
    BY <1>9 DEF vars
<1>10. QED
    BY <1>1, <1>2, <1>3, <1>4, <1>5, <1>6, <1>7, <1>8, <1>9 DEF Next

-----------------------------------------------------------------------------
(* What is known of the probers.                                           *)

\* The tick from which the mesh shows the probers as they are.
Seen == MeshMaxAge + 1

Looked(p) == IF mode[p] = "cut" THEN "cut" ELSE "sees"

\* Connected probers report within a tick, and the reports of others run out.
SeenAsItIs(p) ==
    /\ mode[p] \in Connected =>
         /\ calm >= 1 => Report(p) \in todo \/ (view[p] = Looked(p) /\ viewAge[p] = 0)
         /\ calm >= 2 => view[p] = Looked(p) /\ viewAge[p] <= 1
    /\ mode[p] \notin Connected =>
         /\ viewAge[p] >= calm \/ viewAge[p] = MeshMaxAge
         /\ calm >= Seen => view[p] = "none"
         /\ calm >= 1 => \A c \in Check : <<p, c>> \notin admitted
    /\ mode[p] = "well" =>
         /\ calm >= Seen => Report(p) \in todo \/ p \notin announced
         /\ calm >= Seen + 1 => p \notin announced

\* The reports count for more than a tick, and a check may miss one: "has to
\* comfortably exceed the probers' mesh interval" (mesh.go:26), "a multiple of
\* the interval" (watchdog.go:246), by default three.
Paced == MeshMaxAge >= 1 /\ StaleAfter >= 2

\* From then on, the isolated are those that are cut off.
LEMMA IsolatedAreCut ==
    ASSUME Paced, TypeOK, \A p \in Prober : SeenAsItIs(p), calm >= Seen
    PROVE  Isolated = {p \in Prober : mode[p] = "cut"}
<1>1. calm >= 2 /\ calm \in Nat
    BY Limits DEF Paced, Seen, TypeOK
<1>2. ASSUME NEW p \in Prober PROVE view[p] = "cut" <=> mode[p] = "cut"
    <2>1. CASE mode[p] \in Connected
        BY <1>1, <2>1 DEF SeenAsItIs, Looked
    <2>2. CASE mode[p] \notin Connected
        BY <1>1, <2>2 DEF SeenAsItIs, Connected
    <2>3. QED
        BY <2>1, <2>2
<1>3. QED
    BY <1>2 DEF Isolated

LEMMA SeenInit == Init => \A p \in Prober : SeenAsItIs(p)
<1> SUFFICES ASSUME Init, NEW p \in Prober PROVE SeenAsItIs(p)
    OBVIOUS
<1>1. calm = 0 /\ mode[p] = "well" /\ Seen \in Nat /\ Seen >= 1
    BY Limits DEF Init, Seen
<1>2. QED
    BY <1>1 DEF SeenAsItIs, Connected

LEMMA SeenStays ==
    ASSUME NEW p \in Prober, SeenAsItIs(p), calm' = calm, mode'[p] = mode[p],
           view'[p] = view[p], viewAge'[p] = viewAge[p], announced' = announced,
           Same(Report(p)),
           \A c \in Check : mode[p] \notin Connected /\ <<p, c>> \in admitted' => <<p, c>> \in admitted
    PROVE  SeenAsItIs(p)'
BY DEF SeenAsItIs, Looked, Same

LEMMA SeenStep ==
    ASSUME Paced, TypeOK, Ordinary, \A p \in Prober : SeenAsItIs(p), [Next]_vars
    PROVE  \A p \in Prober : SeenAsItIs(p)'
<1> SUFFICES ASSUME NEW p \in Prober PROVE SeenAsItIs(p)'
    OBVIOUS
<1>0. SeenAsItIs(p) /\ calm \in Nat /\ Seen \in Nat /\ Seen >= 2 /\ MeshMaxAge \in Nat
    BY Limits DEF TypeOK, Paced, Seen
<1>1. ASSUME NEW q \in Prober, FetchAssignments(q) PROVE SeenAsItIs(p)'
    <2>1. Same(Report(p))
        BY <1>1, FetchTasks
    <2>2. QED
        BY <1>0, <1>1, <2>1, SeenStays DEF FetchAssignments
<1>2. ASSUME NEW q \in Prober, ReportMesh(q) PROVE SeenAsItIs(p)'
    <2>1. /\ view' = [view EXCEPT ![q] = IF mode[q] = "cut" THEN "cut" ELSE "sees"]
          /\ viewAge' = [viewAge EXCEPT ![q] = 0]
          /\ announced' = Isolated'
          /\ UNCHANGED <<mode, admitted, calm>>
          /\ Report(q) \in todo
        BY <1>2 DEF ReportMesh
    <2>2. DOMAIN view = Prober /\ DOMAIN viewAge = Prober
        BY DEF TypeOK
    <2>3. mode[q] \in Connected
        BY <2>1 DEF Ordinary
    <2>4. calm >= Seen /\ mode[p] = "well" => p \notin announced'
        <3>1. calm >= Seen /\ mode[p] = "well" => view'[p] = "sees"
            BY <1>0, <2>1, <2>2 DEF SeenAsItIs, Looked, Connected
        <3>2. QED
            BY <2>1, <3>1 DEF Isolated
    <2>5. CASE p = q
        <3>1. view'[p] = Looked(p) /\ viewAge'[p] = 0 /\ Looked(p)' = Looked(p)
            BY <2>1, <2>2, <2>5 DEF Looked
        <3>2. mode[p] \in Connected
            BY <2>3, <2>5
        <3>3. QED
            BY <1>0, <2>1, <2>4, <3>1, <3>2 DEF SeenAsItIs
    <2>6. CASE p # q
        <3>1. Same(Report(p)) /\ view'[p] = view[p] /\ viewAge'[p] = viewAge[p]
            BY <1>2, <2>1, <2>2, <2>6, ReportTasks DEF Same
        <3>2. QED
            BY <1>0, <2>1, <2>4, <3>1 DEF SeenAsItIs, Looked, Same
    <2>7. QED
        BY <2>5, <2>6
<1>3. ASSUME NEW q \in Prober, Fault(q) PROVE SeenAsItIs(p)'
    <2>1. calm' = 0 /\ viewAge' = viewAge
        BY <1>3 DEF Fault
    <2>2. viewAge'[p] >= 0
        BY <2>1, <1>0 DEF TypeOK
    <2>3. QED
        BY <1>0, <2>1, <2>2 DEF SeenAsItIs
<1>4. ASSUME NEW q \in Prober, NEW d \in Check, Submit(q, d) PROVE SeenAsItIs(p)'
    <2>1. Same(Report(p)) /\ mode[q] \in Connected
        BY <1>4, SubmitTasks DEF Submit, Ordinary
    <2>2. ASSUME NEW c \in Check, mode[p] \notin Connected, <<p, c>> \in admitted'
          PROVE  <<p, c>> \in admitted
        BY <1>4, <2>1, <2>2 DEF Submit
    <2>3. QED
        BY <1>0, <1>4, <2>1, <2>2, SeenStays DEF Submit
<1>5. ASSUME NEW q \in Prober, NEW d \in Check, Process(q, d) PROVE SeenAsItIs(p)'
    BY <1>0, <1>5, SeenStays DEF Process, Same
<1>6. CASE WatchdogLooks
    <2>1. Same(Report(p))
        BY <1>6, LookTasks
    <2>2. QED
        BY <1>0, <1>6, <2>1, SeenStays DEF WatchdogLooks
<1>7. CASE WatchdogActs
    <2>1. Same(Report(p))
        BY <1>7, ActTasks
    <2>2. QED
        BY <1>0, <1>7, <2>1, SeenStays DEF WatchdogActs
<1>8. CASE Tick
    <2>1. /\ mode' = mode /\ announced' = announced /\ admitted' = {} /\ Report(p) \notin todo
          /\ viewAge'[p] = Older(viewAge[p], MeshMaxAge)
          /\ view'[p] = IF viewAge[p] < MeshMaxAge THEN view[p] ELSE "none"
          /\ calm' = Older(calm, Calm)
        BY <1>8 DEF Tick
    <2>2. calm' = calm \/ calm' = calm + 1
        BY <2>1 DEF Older
    <2>3. viewAge[p] \in 0 .. MeshMaxAge
        BY DEF TypeOK
    <2>4. CASE mode[p] \in Connected
        <3>1. calm >= 1 => view[p] = Looked(p) /\ viewAge[p] = 0
            BY <1>0, <2>1, <2>4 DEF SeenAsItIs
        <3>2. Report(p) \in todo'
            BY <1>8, <2>4, TickTasks
        <3>3. calm' >= 2 => calm >= 1
            BY <1>0, <2>2
        <3>4. calm >= 1 => view'[p] = view[p] /\ viewAge'[p] <= 1
            BY <1>0, <2>1, <3>1 DEF Paced, Older
        <3>5. Looked(p)' = Looked(p)
            BY <2>1 DEF Looked
        <3>6. ASSUME mode[p] = "well", calm' >= Seen + 1 PROVE p \notin announced'
            BY <1>0, <2>1, <2>2, <3>6 DEF SeenAsItIs
        <3>7. QED
            BY <2>1, <2>4, <3>1, <3>2, <3>3, <3>4, <3>5, <3>6 DEF SeenAsItIs
    <2>5. CASE mode[p] \notin Connected
        <3>1. viewAge[p] >= calm \/ viewAge[p] = MeshMaxAge
            BY <1>0, <2>5 DEF SeenAsItIs
        <3>2. viewAge'[p] >= calm' \/ viewAge'[p] = MeshMaxAge
            BY <1>0, <2>1, <2>2, <2>3, <3>1 DEF Older
        <3>3. ASSUME calm' >= Seen PROVE view'[p] = "none"
            <4>1. calm >= MeshMaxAge
                BY <1>0, <2>2, <3>3 DEF Seen
            <4>2. ~(viewAge[p] < MeshMaxAge)
                BY <1>0, <2>3, <3>1, <4>1
            <4>3. QED
                BY <2>1, <4>2
        <3>4. mode'[p] # "well" /\ mode'[p] \notin Connected
            BY <2>1, <2>5 DEF Connected
        <3>5. QED
            BY <2>1, <3>2, <3>3, <3>4 DEF SeenAsItIs
    <2>6. QED
        BY <2>4, <2>5
<1>9. CASE UNCHANGED vars
    BY <1>0, <1>9, SeenStays DEF vars, Same
<1>10. QED
    BY <1>1, <1>2, <1>3, <1>4, <1>5, <1>6, <1>7, <1>8, <1>9 DEF Next

-----------------------------------------------------------------------------
(* Assignment.                                                             *)

LEMMA LeastOf ==
    ASSUME NEW T, T \subseteq Nat, T # {}
    PROVE  \E x \in T : \A y \in T : x <= y
<1>1. IsWellFoundedOn(OpToRel(<, Nat), Nat)
    BY NatLessThanWellFounded, Zenon
<1>2. PICK x \in T : \A y \in T : ~(<<y, x>> \in OpToRel(<, Nat))
    BY <1>1, WFMin, Zenon
<1>3. \A y \in T : <<y, x>> \in OpToRel(<, Nat) <=> y < x
    BY DEF OpToRel
<1>4. \A y \in T : ~(y < x)
    BY <1>2, <1>3, Zenon
<1>5. QED
    BY <1>4

\* The heaviest is the one that fewest outweigh.
LEMMA HeaviestIsThere ==
    ASSUME NEW c \in Check, NEW S \in SUBSET Prober, S # {}
    PROVE  Heaviest(c, S) \in S
<1> DEFINE Above(p) == {q \in S : Rank[c][p] <= Rank[c][q]}
           sizes == {Cardinality(Above(p)) : p \in S}
<1>1. IsFiniteSet(S) /\ \A p \in S : Rank[c][p] \in Nat
    BY OwnershipAssumption, FS_Subset
<1>2. \A p \in S : IsFiniteSet(Above(p)) /\ Cardinality(Above(p)) \in Nat
    <2>1. ASSUME NEW p \in S PROVE IsFiniteSet(Above(p)) /\ Cardinality(Above(p)) \in Nat
        <3>1. Above(p) \in SUBSET S
            OBVIOUS
        <3> HIDE DEF Above
        <3>2. IsFiniteSet(Above(p))
            BY <1>1, <3>1, FS_Subset
        <3>3. QED
            BY <3>2, FS_CardinalityType
    <2>2. QED
        BY <2>1
<1>3. sizes \subseteq Nat /\ sizes # {}
    BY <1>2
<1>4. PICK n \in sizes : \A m \in sizes : n <= m
    BY <1>3, LeastOf
<1>5. PICK p \in S : n = Cardinality(Above(p))
    BY <1>4
<1>6. ASSUME NEW q \in S PROVE Rank[c][q] <= Rank[c][p]
    <2> SUFFICES ASSUME Rank[c][p] < Rank[c][q] PROVE FALSE
        BY <1>1
    <2>1. Above(q) \in SUBSET Above(p) /\ p \in Above(p) /\ p \notin Above(q)
        BY <1>1
    <2>2. Cardinality(Above(p)) <= Cardinality(Above(q))
        BY <1>4, <1>5
    <2>3. IsFiniteSet(Above(p)) /\ Cardinality(Above(p)) \in Nat /\ Cardinality(Above(q)) \in Nat
        BY <1>2
    <2> HIDE DEF Above
    <2>4. Cardinality(Above(q)) <= Cardinality(Above(p))
          /\ (Cardinality(Above(p)) = Cardinality(Above(q)) => Above(p) = Above(q))
        BY <2>1, <2>3, FS_Subset
    <2>5. QED
        BY <2>1, <2>2, <2>3, <2>4
<1>7. QED
    BY <1>6 DEF Heaviest

\* A well prober that is seen to be has what prefers it, unless it is silent
\* and has no chance; then it has nothing.  Its results always count.
LEMMA WhatTheWellHave ==
    ASSUME NEW p \in Prober, p \notin Isolated
    PROVE  /\ p \notin silent \/ HasChance(p) => \A c \in Check : Preferred[c] = p => c \in Fetched(p)
           /\ p \in silent /\ ~HasChance(p) => Fetched(p) = {}
           /\ \A c \in Check : Preferred[c] = p => Admissible(p, c)
<1>1. ASSUME NEW c \in Check, Preferred[c] = p
      PROVE  Admissible(p, c) /\ (p \notin silent \/ HasChance(p) => p \in Assigned(c))
    BY <1>1 DEF Admissible, Assigned, Unavailable
<1>2. ASSUME NEW c \in Check, p \in silent, ~HasChance(p) PROVE p \notin Assigned(c)
    <2> DEFINE others == Prober \ Unavailable
    <2>1. p \notin others /\ others \in SUBSET Prober
        BY <1>2 DEF Unavailable
    <2> HIDE DEF others
    <2>2. others # {} => Heaviest(c, others) # p
        BY <2>1, HeaviestIsThere
    <2>3. Preferred[c] = p => ~(Preferred[c] \notin Unavailable \/ HasChance(Preferred[c]))
        BY <1>2 DEF Unavailable
    <2>4. QED
        BY <2>2, <2>3 DEF Assigned, others
<1>3. QED
    BY <1>1, <1>2 DEF Fetched

-----------------------------------------------------------------------------
(* How a well prober comes to its place: the stages it goes through, one   *)
(* or more with each tick, once the mesh shows it as it is.                *)

Due(p, c) == Run(p, c) \in todo \/ <<p, c>> \in admitted

\* Nothing runs there, or will count from it.
Starved(p) == running[p] = {} /\ \A c \in Check : <<p, c>> \notin admitted

\* What prefers it runs there, and has or will have had its verdict when the
\* tick ends.
Fed(p) ==
    \A c \in Check : Preferred[c] = p => c \in running[p] /\ (Due(p, c) \/ quietFor[c] = 0)

\* What prefers it and runs there has, or will have, at least that.
Spared(p) ==
    \A c \in Check : Preferred[c] = p /\ c \in running[p] => Due(p, c) \/ quietFor[c] = 0

\* If it is silent, then only until one of its results is processed.
FedIfHeard(p) ==
    Fed(p) /\ (p \in silent => \A c \in Check : Preferred[c] = p => Due(p, c))

\* What prefers it had its verdict within n ticks, and nobody thinks otherwise.
Rested(p, n) == \A c \in Check : Preferred[c] = p => quietFor[c] <= n /\ c \notin found

\* It has fetched what prefers it in this tick.
Served(p) == Fetch(p) \notin todo /\ Fed(p)

\* The last stage.
Kept(p) == p \notin silent /\ Rested(p, 1) /\ Fed(p)
Lost(p) == Spent(p) /\ Starved(p)

\* It has its chance, or needs none, will fetch, and is not blamed meanwhile.
Fetching(p) ==
    /\ Rested(p, 2) /\ (p \notin silent \/ HasChance(p))
    /\ (Fetch(p) \in todo /\ Starved(p)) \/ FedIfHeard(p)

\* It was served in the tick before.  If it was blamed even so, it may fetch
\* before it has its chance, and come away with nothing once more.
Returned(p) ==
    /\ Rested(p, 1)
    /\ \/ FedIfHeard(p) /\ (p \in silent /\ chance[p] = NoChance => Report(p) \in todo)
       \/ /\ Fetch(p) \notin todo /\ running[p] = {}
          /\ \/ p \notin silent
             \/ chance[p] \in {0, StaleAfter + 1}
             \/ Report(p) \in todo /\ chance[p] = NoChance

\* It has its chance and will fetch, or has.
Tried(p) ==
    \/ Fetch(p) \in todo /\ Starved(p) /\ p \in silent /\ HasChance(p)
    \/ Served(p)

\* It will have its chance when it reports, or has it from this tick.
Waiting(p) ==
    \/ /\ Starved(p) /\ p \in silent
       /\ chance[p] = 0 \/ (Report(p) \in todo /\ chance[p] = NoChance)
    \/ Served(p)

\* It will fetch, unless it is blamed before.
Called(p) ==
    \/ /\ Starved(p)
       /\ \/ p \notin silent /\ Fetch(p) \in todo
          \/ p \in silent /\ chance[p] \in {0, NoChance}
    \/ Served(p)

\* Whatever was before, the fetch of this tick gives all or nothing.
Entered(p) ==
    \/ Fetch(p) \in todo /\ Spared(p)
    \/ Fed(p)
    \/ running[p] = {} /\ (p \notin silent \/ chance[p] \in {0, StaleAfter + 1, NoChance})

Stage(p, n) ==
    \/ n = 0 /\ Entered(p)
    \/ n = 1 /\ Called(p)
    \/ n = 2 /\ Waiting(p)
    \/ n = 3 /\ Tried(p)
    \/ n = 4 /\ Returned(p)
    \/ n = 5 /\ Fetching(p)
    \/ n = 6 /\ (Kept(p) \/ Lost(p))

\* The steps of a tick, as far as they concern p.
UntouchedTasks(p) == Same(Fetch(p)) /\ Same(Report(p)) /\ \A c \in Check : Same(Run(p, c))
UntouchedResults(p) == \A c \in Check : <<p, c>> \in admitted' <=> <<p, c>> \in admitted
Quieter == \A c \in Check : quietFor'[c] \in {quietFor[c], 0}
NewlyFound == \A c \in Check : c \in found' => c \in found \/ quietFor'[c] > StaleAfter

\* Nothing of p changes, but that others may give its checks a verdict, and
\* that the watchdog blames it for a check that has had none.
Others(p) ==
    /\ UntouchedTasks(p) /\ UntouchedResults(p) /\ Quieter /\ NewlyFound
    /\ running'[p] = running[p] /\ chance'[p] = chance[p]
    /\ p \in silent => p \in silent'
    /\ p \in silent' => p \in silent \/ \E c \in Check : Preferred[c] = p /\ c \in found

Fetches(p) ==
    /\ Fetch(p) \in todo /\ Fetch(p) \notin todo' /\ Same(Report(p))
    /\ UntouchedResults(p)
    /\ (p \in silent' <=> p \in silent) /\ chance'[p] = chance[p]
    /\ quietFor' = quietFor /\ found' = found
    /\ IF p \notin silent \/ HasChance(p)
       THEN \A c \in Check : Preferred[c] = p =>
               /\ c \in running'[p]
               /\ Run(p, c) \in todo' <=> Run(p, c) \in todo \/ c \notin running[p]
       ELSE running'[p] = {}

Reports(p) ==
    /\ Report(p) \in todo /\ Report(p) \notin todo' /\ Same(Fetch(p))
    /\ \A c \in Check : Same(Run(p, c))
    /\ UntouchedResults(p)
    /\ running'[p] = running[p] /\ (p \in silent' <=> p \in silent)
    /\ quietFor' = quietFor /\ found' = found
    /\ chance'[p] = IF p \in silent /\ chance[p] = NoChance THEN 0 ELSE chance[p]

Submits(p) ==
    /\ running[p] # {} /\ Same(Fetch(p)) /\ Same(Report(p))
    /\ \A c \in Check : Preferred[c] = p => (Due(p, c)' <=> Due(p, c))
    /\ running'[p] = running[p] /\ (p \in silent' <=> p \in silent) /\ chance'[p] = chance[p]
    /\ quietFor' = quietFor /\ found' = found

IsProcessed(p) ==
    /\ UntouchedTasks(p) /\ Quieter /\ found' = found
    /\ \E d \in Check : /\ <<p, d>> \in admitted /\ quietFor'[d] = 0
                        /\ \A c \in Check : c # d => (<<p, c>> \in admitted' <=> <<p, c>> \in admitted)
    /\ running'[p] = running[p] /\ p \notin silent' /\ chance'[p] = NoChance

InTick(p) == Others(p) \/ Fetches(p) \/ Reports(p) \/ Submits(p) \/ IsProcessed(p)

\* The checks of a prober stay rested: their verdicts are too recent to be stale.
LEMMA RestedStays ==
    ASSUME Paced, TypeOK, NEW p \in Prober, InTick(p), NEW n \in {1, 2}, Rested(p, n)
    PROVE  Rested(p, n)'
<1>1. Quieter /\ NewlyFound
    BY DEF InTick, Others, Fetches, Reports, Submits, IsProcessed, Quieter, NewlyFound
<1>2. ASSUME NEW c \in Check, Preferred[c] = p PROVE quietFor'[c] <= n /\ c \notin found'
    <2>1. quietFor[c] \in Nat /\ quietFor[c] <= n /\ c \notin found
        BY <1>2 DEF TypeOK, Rested
    <2>2. quietFor'[c] <= n /\ quietFor'[c] \in Nat
        BY <1>1, <2>1 DEF Quieter
    <2>3. ~(quietFor'[c] > StaleAfter)
        BY <2>2, Limits DEF Paced
    <2>4. QED
        BY <1>1, <2>1, <2>2, <2>3 DEF NewlyFound
<1>3. QED
    BY <1>2 DEF Rested

LEMMA DueStays ==
    ASSUME NEW p \in Prober, NEW c \in Check, Same(Run(p, c)), <<p, c>> \in admitted' <=> <<p, c>> \in admitted
    PROVE  Due(p, c)' <=> Due(p, c)
BY DEF Due, Same

\* What prefers p stays fed, and is fed by a fetch for which there was nothing to drop.
LEMMA FedStays ==
    ASSUME TypeOK, NEW p \in Prober, InTick(p), Fed(p),
           Fetches(p) => p \notin silent \/ HasChance(p)
    PROVE  Fed(p)'
<1> SUFFICES ASSUME NEW c \in Check, Preferred[c] = p
             PROVE  c \in running'[p] /\ (Due(p, c)' \/ quietFor'[c] = 0)
    BY DEF Fed
<1>0. c \in running[p] /\ (Due(p, c) \/ quietFor[c] = 0)
    BY DEF Fed
<1>1. CASE Others(p)
    <2>1. Due(p, c)' <=> Due(p, c)
        BY <1>1, DueStays DEF Others, UntouchedTasks, UntouchedResults
    <2>2. QED
        BY <1>0, <1>1, <2>1 DEF Others, Quieter
<1>2. CASE Fetches(p)
    BY <1>0, <1>2 DEF Fetches, Due, UntouchedResults
<1>3. CASE Reports(p)
    BY <1>0, <1>3, DueStays DEF Reports, UntouchedResults
<1>4. CASE Submits(p)
    BY <1>0, <1>4 DEF Submits
<1>5. CASE IsProcessed(p)
    BY <1>0, <1>5, DueStays DEF IsProcessed, UntouchedTasks, Quieter
<1>6. QED
    BY <1>1, <1>2, <1>3, <1>4, <1>5 DEF InTick

LEMMA SparedStays ==
    ASSUME TypeOK, NEW p \in Prober, InTick(p), Spared(p), ~Fetches(p)
    PROVE  Spared(p)'
<1> SUFFICES ASSUME NEW c \in Check, Preferred[c] = p, c \in running'[p]
             PROVE  Due(p, c)' \/ quietFor'[c] = 0
    BY DEF Spared
<1>0. c \in running[p]
    BY DEF InTick, Others, Reports, Submits, IsProcessed
<1>1. Due(p, c) \/ quietFor[c] = 0
    BY <1>0 DEF Spared
<1>2. CASE Others(p)
    BY <1>1, <1>2, DueStays DEF Others, UntouchedTasks, UntouchedResults, Quieter
<1>3. CASE Reports(p)
    BY <1>1, <1>3, DueStays DEF Reports, UntouchedResults
<1>4. CASE Submits(p)
    BY <1>1, <1>4 DEF Submits
<1>5. CASE IsProcessed(p)
    BY <1>1, <1>5, DueStays DEF IsProcessed, UntouchedTasks, Quieter
<1>6. QED
    BY <1>2, <1>3, <1>4, <1>5 DEF InTick

\* A fetch by a prober that is not silent, or has its chance, feeds it.
LEMMA FetchFeeds ==
    ASSUME NEW p \in Prober, Fetches(p), p \notin silent \/ HasChance(p),
           Spared(p)
    PROVE  Served(p)' /\ (Starved(p) \/ FedIfHeard(p) => FedIfHeard(p)')
<1>1. ASSUME NEW c \in Check, Preferred[c] = p
      PROVE  /\ c \in running'[p] /\ (Due(p, c)' \/ quietFor'[c] = 0)
             /\ Due(p, c) \/ c \notin running[p] => Due(p, c)'
    BY <1>1 DEF Fetches, Spared, Due, UntouchedResults
<1>2. Fed(p)'
    BY <1>1 DEF Fed
<1>3. Fetch(p) \notin todo' /\ (p \in silent' <=> p \in silent)
    BY DEF Fetches
<1>4. ASSUME Starved(p) \/ FedIfHeard(p), p \in silent, NEW c \in Check, Preferred[c] = p
      PROVE  Due(p, c)'
    BY <1>1, <1>4 DEF Starved, FedIfHeard
<1>5. QED
    BY <1>2, <1>3, <1>4 DEF Served, FedIfHeard

LEMMA ServedStays ==
    ASSUME TypeOK, NEW p \in Prober, InTick(p), Served(p)
    PROVE  Served(p)'
<1>1. ~Fetches(p)
    BY DEF Served, Fetches
<1>2. Fetch(p) \notin todo'
    BY <1>1 DEF InTick, Served, Others, Reports, Submits, IsProcessed, UntouchedTasks, Same
<1>3. QED
    BY <1>1, <1>2, FedStays DEF Served

LEMMA FedIfHeardStays ==
    ASSUME TypeOK, NEW p \in Prober, InTick(p), FedIfHeard(p), Rested(p, 2),
           Fetches(p) => p \notin silent \/ HasChance(p)
    PROVE  FedIfHeard(p)'
<1>1. Fed(p)'
    BY FedStays DEF FedIfHeard
<1>2. ASSUME p \in silent', NEW c \in Check, Preferred[c] = p PROVE Due(p, c)'
    <2>1. CASE Others(p)
        <3>1. p \in silent
            BY <1>2, <2>1 DEF Others, Rested
        <3>2. Due(p, c)' <=> Due(p, c)
            BY <2>1, DueStays DEF Others, UntouchedTasks, UntouchedResults
        <3>3. QED
            BY <1>2, <3>1, <3>2 DEF FedIfHeard
    <2>2. CASE Fetches(p)
        BY <1>2, <2>2, FetchFeeds DEF FedIfHeard, Fed, Spared
    <2>3. CASE Reports(p)
        BY <1>2, <2>3, DueStays DEF Reports, UntouchedResults, FedIfHeard
    <2>4. CASE Submits(p)
        BY <1>2, <2>4 DEF Submits, FedIfHeard
    <2>5. CASE IsProcessed(p)
        BY <1>2, <2>5 DEF IsProcessed
    <2>6. QED
        BY <2>1, <2>2, <2>3, <2>4, <2>5 DEF InTick
<1>3. QED
    BY <1>1, <1>2 DEF FedIfHeard

LEMMA StarvedStays ==
    ASSUME NEW p \in Prober, InTick(p), Starved(p), ~Fetches(p)
    PROVE  Starved(p)' /\ (Others(p) \/ Reports(p))
BY DEF InTick, Starved, Others, Reports, Submits, IsProcessed, UntouchedResults

\* What happens within a tick leaves a well prober in its stage.
LEMMA StageStays ==
    ASSUME Paced, TypeOK, Ordinary, NEW p \in Prober, InTick(p), NEW n \in 0 .. 6, Stage(p, n)
    PROVE  Stage(p, n)'
<1>0. /\ chance[p] # NoChance => p \in silent
      /\ chance[p] \in Nat /\ StaleAfter \in Nat /\ NoChance = StaleAfter + 2
    BY Limits DEF Ordinary, TypeOK, NoChance
<1>1. ASSUME Entered(p) PROVE Entered(p)'
    <2>1. CASE Fetches(p) /\ ~(p \notin silent \/ HasChance(p))
        <3>1. running'[p] = {} /\ chance'[p] = chance[p] /\ chance[p] \in {StaleAfter + 1, NoChance}
            BY <1>0, <2>1 DEF Fetches, HasChance, TypeOK
        <3>2. QED
            BY <3>1 DEF Entered
    <2>2. CASE Fetches(p) /\ (p \notin silent \/ HasChance(p))
        <3>1. Spared(p)
            BY <1>1 DEF Entered, Fed, Spared
        <3>2. QED
            BY <2>2, <3>1, FetchFeeds DEF Entered, Served
    <2>3. CASE ~Fetches(p)
        <3>1. CASE Fetch(p) \in todo /\ Spared(p)
            <4>1. Fetch(p) \in todo'
                BY <2>3, <3>1 DEF InTick, Others, Reports, Submits, IsProcessed, UntouchedTasks, Same
            <4>2. Spared(p)'
                BY <2>3, <3>1, SparedStays
            <4>3. QED
                BY <4>1, <4>2 DEF Entered
        <3>2. CASE Fed(p)
            BY <2>3, <3>2, FedStays DEF Entered
        <3>3. CASE running[p] = {} /\ (p \notin silent \/ chance[p] \in {0, StaleAfter + 1, NoChance})
            BY <1>0, <2>3, <3>3 DEF InTick, Others, Reports, Submits, IsProcessed, Entered
        <3>4. QED
            BY <1>1, <3>1, <3>2, <3>3 DEF Entered
    <2>4. QED
        BY <2>1, <2>2, <2>3
<1>2. ASSUME Called(p) PROVE Called(p)'
    <2>1. CASE Served(p)
        BY <2>1, ServedStays DEF Called
    <2>2. CASE ~Served(p) /\ Fetches(p)
        <3>1. Starved(p)
            BY <1>2, <2>2 DEF Called
        <3>2. CASE p \notin silent \/ HasChance(p)
            BY <2>2, <3>1, <3>2, FetchFeeds DEF Called, Starved, Spared
        <3>3. CASE ~(p \notin silent \/ HasChance(p))
            <4>1. Starved(p)' /\ p \in silent' /\ chance'[p] = chance[p]
                BY <2>2, <3>1, <3>3 DEF Fetches, Starved, UntouchedResults
            <4>2. QED
                BY <1>2, <2>2, <3>3, <4>1 DEF Called
        <3>4. QED
            BY <3>2, <3>3
    <2>3. CASE ~Served(p) /\ ~Fetches(p)
        <3>1. Starved(p) /\ Starved(p)' /\ (Others(p) \/ Reports(p))
            BY <1>2, <2>3, StarvedStays DEF Called
        <3>2. CASE Others(p)
            BY <1>0, <1>2, <2>3, <3>1, <3>2 DEF Called, Others, UntouchedTasks, Same
        <3>3. CASE Reports(p)
            BY <1>0, <1>2, <2>3, <3>1, <3>3 DEF Called, Reports, Same
        <3>4. QED
            BY <3>1, <3>2, <3>3
    <2>4. QED
        BY <2>1, <2>2, <2>3
<1>3. ASSUME Waiting(p) PROVE Waiting(p)'
    <2>1. CASE Served(p)
        BY <2>1, ServedStays DEF Waiting
    <2>2. CASE ~Served(p) /\ Fetches(p)
        <3>1. Starved(p)
            BY <1>3, <2>2 DEF Waiting
        <3>2. CASE p \notin silent \/ HasChance(p)
            BY <2>2, <3>1, <3>2, FetchFeeds DEF Waiting, Starved, Spared
        <3>3. CASE ~(p \notin silent \/ HasChance(p))
            <4>1. Starved(p)' /\ p \in silent' /\ chance'[p] = chance[p] /\ Same(Report(p))
                BY <2>2, <3>1, <3>3 DEF Fetches, Starved, UntouchedResults
            <4>2. QED
                BY <1>3, <2>2, <3>3, <4>1 DEF Waiting, Same
        <3>4. QED
            BY <3>2, <3>3
    <2>3. CASE ~Served(p) /\ ~Fetches(p)
        <3>1. Starved(p) /\ Starved(p)' /\ (Others(p) \/ Reports(p))
            BY <1>3, <2>3, StarvedStays DEF Waiting
        <3>2. CASE Others(p)
            BY <1>3, <2>3, <3>1, <3>2 DEF Waiting, Others, UntouchedTasks, Same
        <3>3. CASE Reports(p)
            BY <1>0, <1>3, <2>3, <3>1, <3>3 DEF Waiting, Reports
        <3>4. QED
            BY <3>1, <3>2, <3>3
    <2>4. QED
        BY <2>1, <2>2, <2>3
<1>4. ASSUME Tried(p) PROVE Tried(p)'
    <2>1. CASE Served(p)
        BY <2>1, ServedStays DEF Tried
    <2>2. CASE ~Served(p) /\ Fetches(p)
        BY <1>4, <2>2, FetchFeeds DEF Tried, Starved, Spared
    <2>3. CASE ~Served(p) /\ ~Fetches(p)
        <3>1. Starved(p) /\ Starved(p)' /\ (Others(p) \/ Reports(p))
            BY <1>4, <2>3, StarvedStays DEF Tried
        <3>2. QED
            BY <1>0, <1>4, <2>3, <3>1 DEF Tried, Others, Reports, UntouchedTasks, Same, HasChance
    <2>4. QED
        BY <2>1, <2>2, <2>3
<1>5. ASSUME Returned(p) PROVE Returned(p)'
    <2>0. Rested(p, 1)' /\ Rested(p, 2) /\ Rested(p, 1)
        BY <1>5, RestedStays DEF Returned, Rested, TypeOK
    <2>1. CASE FedIfHeard(p) /\ (p \in silent /\ chance[p] = NoChance => Report(p) \in todo)
        <3>1. CASE Fetches(p) /\ ~(p \notin silent \/ HasChance(p))
            <4>1. running'[p] = {} /\ chance'[p] = chance[p] /\ chance[p] \in {StaleAfter + 1, NoChance}
                  /\ Same(Report(p)) /\ Fetch(p) \notin todo'
                BY <1>0, <3>1 DEF Fetches, HasChance, TypeOK
            <4>2. QED
                BY <2>0, <2>1, <3>1, <4>1 DEF Returned, Same
        <3>2. CASE Fetches(p) => p \notin silent \/ HasChance(p)
            <4>1. FedIfHeard(p)'
                BY <2>0, <2>1, <3>2, FedIfHeardStays
            <4>2. ASSUME p \in silent', chance'[p] = NoChance PROVE Report(p) \in todo'
                <5>1. CASE Others(p)
                    BY <2>0, <2>1, <4>2, <5>1 DEF Others, Rested, UntouchedTasks, Same
                <5>2. CASE Fetches(p) \/ Submits(p)
                    BY <2>1, <4>2, <5>2 DEF Fetches, Submits, Same
                <5>3. CASE Reports(p)
                    BY <1>0, <2>1, <4>2, <5>3 DEF Reports
                <5>4. CASE IsProcessed(p)
                    BY <4>2, <5>4 DEF IsProcessed
                <5>5. QED
                    BY <5>1, <5>2, <5>3, <5>4 DEF InTick
            <4>3. QED
                BY <2>0, <4>1, <4>2 DEF Returned
        <3>3. QED
            BY <3>1, <3>2
    <2>2. CASE /\ Fetch(p) \notin todo /\ running[p] = {}
               /\ \/ p \notin silent
                  \/ chance[p] \in {0, StaleAfter + 1}
                  \/ Report(p) \in todo /\ chance[p] = NoChance
        <3>1. CASE Others(p)
            BY <2>0, <2>2, <3>1 DEF Others, Rested, UntouchedTasks, Same, Returned
        <3>2. CASE Fetches(p) \/ Submits(p)
            BY <2>2, <3>2 DEF Fetches, Submits
        <3>3. CASE Reports(p)
            BY <1>0, <2>0, <2>2, <3>3 DEF Reports, Returned, Same
        <3>4. CASE IsProcessed(p)
            BY <2>0, <2>2, <3>4 DEF IsProcessed, Returned, UntouchedTasks, Same
        <3>5. QED
            BY <3>1, <3>2, <3>3, <3>4 DEF InTick
    <2>3. QED
        BY <1>5, <2>1, <2>2 DEF Returned
<1>6. ASSUME Fetching(p) PROVE Fetching(p)'
    <2>0. Rested(p, 2)' /\ Rested(p, 2)
        BY <1>6, RestedStays DEF Fetching
    <2>1. p \notin silent' \/ HasChance(p)'
        <3>1. CASE p \notin silent
            BY <2>0, <3>1 DEF InTick, Others, Fetches, Reports, Submits, IsProcessed, Rested
        <3>2. CASE HasChance(p) /\ p \in silent
            BY <1>0, <3>2 DEF InTick, Others, Fetches, Reports, Submits, IsProcessed, HasChance
        <3>3. QED
            BY <1>6, <3>1, <3>2 DEF Fetching
    <2>2. CASE FedIfHeard(p)
        BY <1>6, <2>0, <2>1, <2>2, FedIfHeardStays DEF Fetching
    <2>3. CASE Fetch(p) \in todo /\ Starved(p) /\ Fetches(p)
        BY <1>6, <2>0, <2>1, <2>3, FetchFeeds DEF Fetching, Starved, Spared
    <2>4. CASE Fetch(p) \in todo /\ Starved(p) /\ ~Fetches(p)
        <3>1. Starved(p)' /\ (Others(p) \/ Reports(p))
            BY <2>4, StarvedStays
        <3>2. Fetch(p) \in todo'
            BY <2>4, <3>1 DEF Others, Reports, UntouchedTasks, Same
        <3>3. QED
            BY <2>0, <2>1, <3>1, <3>2 DEF Fetching
    <2>5. QED
        BY <1>6, <2>2, <2>3, <2>4 DEF Fetching
<1>7. ASSUME Kept(p) PROVE Kept(p)'
    <2>1. Rested(p, 1)' /\ Fed(p)'
        BY <1>7, RestedStays, FedStays DEF Kept
    <2>2. p \notin silent'
        BY <1>7 DEF Kept, Rested, InTick, Others, Fetches, Reports, Submits, IsProcessed
    <2>3. QED
        BY <2>1, <2>2 DEF Kept
<1>8. ASSUME Lost(p) PROVE Lost(p)'
    <2>1. p \in silent /\ chance[p] = StaleAfter + 1 /\ Starved(p) /\ ~HasChance(p)
        BY <1>0, <1>8 DEF Lost, Spent, HasChance
    <2>2. CASE Fetches(p)
        BY <2>1, <2>2 DEF Fetches, Starved, Lost, Spent, UntouchedResults
    <2>3. CASE ~Fetches(p)
        <3>1. Starved(p)' /\ (Others(p) \/ Reports(p))
            BY <2>1, <2>3, StarvedStays
        <3>2. p \in silent' /\ chance'[p] = chance[p]
            BY <1>0, <2>1, <3>1 DEF Others, Reports
        <3>3. QED
            BY <2>1, <3>1, <3>2 DEF Lost, Spent
    <2>4. QED
        BY <2>2, <2>3
<1>9. QED
    BY <1>1, <1>2, <1>3, <1>4, <1>5, <1>6, <1>7, <1>8 DEF Stage

\* Every other action is a step of the tick for a well prober.
Within ==
    \/ \E q \in Prober : FetchAssignments(q) \/ ReportMesh(q)
    \/ \E q \in Prober, d \in Check : Submit(q, d) \/ Process(q, d)
    \/ WatchdogLooks \/ WatchdogActs \/ UNCHANGED vars

Known == TypeOK /\ Ordinary /\ \A p \in Prober : SeenAsItIs(p)

LEMMA StepInTick ==
    ASSUME Paced, Known, calm >= Seen, NEW p \in Prober, mode[p] = "well", Within
    PROVE  InTick(p)
<1>0. TypeOK /\ Ordinary /\ Isolated = {q \in Prober : mode[q] = "cut"} /\ p \notin Isolated
    BY IsolatedAreCut DEF Known
<1>1. /\ DOMAIN running = Prober /\ DOMAIN chance = Prober /\ DOMAIN view = Prober
      /\ DOMAIN quietFor = Check
    BY <1>0 DEF TypeOK
<1>2. ASSUME NEW q \in Prober, FetchAssignments(q) PROVE InTick(p)
    <2>1. UNCHANGED <<admitted, quietFor, silent, chance, found>>
          /\ running' = [running EXCEPT ![q] = Fetched(q)] /\ Fetch(q) \in todo
        BY <1>2 DEF FetchAssignments
    <2>2. CASE p = q
        <3>1. running'[p] = Fetched(p)
            BY <1>1, <2>1, <2>2
        <3>2. p \notin silent \/ HasChance(p) => \A c \in Check : Preferred[c] = p =>
                 /\ c \in running'[p]
                 /\ Run(p, c) \in todo' <=> Run(p, c) \in todo \/ c \notin running[p]
            BY <1>0, <1>2, <2>2, <3>1, FetchTasks, WhatTheWellHave
        <3>3. ~(p \notin silent \/ HasChance(p)) => running'[p] = {}
            BY <1>0, <3>1, WhatTheWellHave
        <3>4. Fetch(p) \in todo /\ Fetch(p) \notin todo' /\ Same(Report(p))
            BY <1>2, <2>1, <2>2, FetchTasks
        <3>5. Fetches(p)
            BY <2>1, <3>2, <3>3, <3>4 DEF Fetches, UntouchedResults
        <3>6. QED
            BY <3>5 DEF InTick
    <2>3. CASE p # q
        <3>1. UntouchedTasks(p)
            BY <1>2, <2>3, FetchTasks DEF UntouchedTasks, Same
        <3>2. running'[p] = running[p]
            BY <1>1, <2>1, <2>3
        <3>3. Others(p)
            BY <2>1, <3>1, <3>2 DEF Others, UntouchedResults, Quieter, NewlyFound
        <3>4. QED
            BY <3>3 DEF InTick
    <2>4. QED
        BY <2>2, <2>3
<1>3. ASSUME NEW q \in Prober, ReportMesh(q) PROVE InTick(p)
    <2>1. /\ UNCHANGED <<running, admitted, quietFor, silent, found>>
          /\ view' = [view EXCEPT ![q] = IF mode[q] = "cut" THEN "cut" ELSE "sees"]
          /\ chance' = IF q \in Isolated' THEN chance ELSE Chance(q)
          /\ Report(q) \in todo
        BY <1>3 DEF ReportMesh
    <2>2. CASE p = q
        <3>1. view'[p] = "sees"
            BY <1>1, <2>1, <2>2
        <3>2. chance' = Chance(p)
            BY <2>1, <2>2, <3>1 DEF Isolated
        <3>3. chance'[p] = IF p \in silent /\ chance[p] = NoChance THEN 0 ELSE chance[p]
            BY <1>1, <3>2 DEF Chance
        <3>4. /\ Report(p) \in todo /\ Report(p) \notin todo' /\ Same(Fetch(p))
              /\ \A c \in Check : Same(Run(p, c))
            BY <1>3, <2>1, <2>2, ReportTasks
        <3>5. Reports(p)
            BY <2>1, <3>3, <3>4 DEF Reports, UntouchedResults
        <3>6. QED
            BY <3>5 DEF InTick
    <2>3. CASE p # q
        <3>1. UntouchedTasks(p)
            BY <1>3, <2>3, ReportTasks DEF UntouchedTasks, Same
        <3>2. chance'[p] = chance[p]
            BY <1>1, <2>1, <2>3 DEF Chance
        <3>3. Others(p)
            BY <2>1, <3>1, <3>2 DEF Others, UntouchedResults, Quieter, NewlyFound
        <3>4. QED
            BY <3>3 DEF InTick
    <2>4. QED
        BY <2>2, <2>3
<1>4. ASSUME NEW q \in Prober, NEW d \in Check, Submit(q, d) PROVE InTick(p)
    <2>1. /\ UNCHANGED <<running, quietFor, silent, chance, found>>
          /\ Run(q, d) \in todo
          /\ admitted' = IF Admissible(q, d) THEN admitted \cup {<<q, d>>} ELSE admitted
        BY <1>4 DEF Submit
    <2>2. CASE p = q
        <3>1. running[p] # {}
            BY <1>0, <2>1, <2>2 DEF Ordinary
        <3>2. ASSUME NEW c \in Check, Preferred[c] = p PROVE Due(p, c)' <=> Due(p, c)
            <4>1. Run(p, c) \in todo' <=> Run(p, c) \in todo /\ c # d
                BY <1>4, <2>2, SubmitTasks
            <4>2. c = d => <<p, c>> \in admitted' /\ Due(p, c)
                BY <1>0, <2>1, <2>2, <3>2, WhatTheWellHave DEF Due
            <4>3. c # d => (<<p, c>> \in admitted' <=> <<p, c>> \in admitted)
                BY <2>1
            <4>4. QED
                BY <4>1, <4>2, <4>3 DEF Due
        <3>3. Same(Fetch(p)) /\ Same(Report(p))
            BY <1>4, SubmitTasks
        <3>4. Submits(p)
            BY <2>1, <3>1, <3>2, <3>3 DEF Submits
        <3>5. QED
            BY <3>4 DEF InTick
    <2>3. CASE p # q
        <3>1. UntouchedTasks(p)
            BY <1>4, <2>3, SubmitTasks DEF UntouchedTasks, Same
        <3>2. UntouchedResults(p)
            BY <2>1, <2>3 DEF UntouchedResults
        <3>3. Others(p)
            BY <2>1, <3>1, <3>2 DEF Others, Quieter, NewlyFound
        <3>4. QED
            BY <3>3 DEF InTick
    <2>4. QED
        BY <2>2, <2>3
<1>5. ASSUME NEW q \in Prober, NEW d \in Check, Process(q, d) PROVE InTick(p)
    <2>1. /\ UNCHANGED <<running, todo, found>>
          /\ <<q, d>> \in admitted /\ admitted' = admitted \ {<<q, d>>}
          /\ IF q \in Isolated THEN UNCHANGED <<quietFor, silent, chance>>
             ELSE /\ chance' = [chance EXCEPT ![q] = NoChance]
                  /\ silent' = silent \ {q}
                  /\ quietFor' = [quietFor EXCEPT ![d] = 0]
        BY <1>5 DEF Process
    <2>2. UntouchedTasks(p) /\ Quieter
        BY <1>1, <2>1 DEF UntouchedTasks, Same, Quieter
    <2>3. CASE p = q
        <3>1. quietFor'[d] = 0 /\ p \notin silent' /\ chance'[p] = NoChance
            BY <1>0, <1>1, <2>1, <2>3
        <3>2. \A c \in Check : c # d => (<<p, c>> \in admitted' <=> <<p, c>> \in admitted)
            BY <2>1
        <3>3. IsProcessed(p)
            BY <2>1, <2>2, <2>3, <3>1, <3>2 DEF IsProcessed
        <3>4. QED
            BY <3>3 DEF InTick
    <2>4. CASE p # q
        <3>1. UntouchedResults(p)
            BY <2>1, <2>4 DEF UntouchedResults
        <3>2. chance'[p] = chance[p] /\ (p \in silent' <=> p \in silent)
            BY <1>1, <2>1, <2>4
        <3>3. Others(p)
            BY <2>1, <2>2, <3>1, <3>2 DEF Others, NewlyFound
        <3>4. QED
            BY <3>3 DEF InTick
    <2>5. QED
        BY <2>3, <2>4
<1>6. CASE WatchdogLooks
    <2>1. UntouchedTasks(p)
        BY <1>6, LookTasks DEF UntouchedTasks
    <2>2. Others(p)
        BY <1>6, <2>1 DEF WatchdogLooks, Others, UntouchedResults, Quieter, NewlyFound, Stale
    <2>3. QED
        BY <2>2 DEF InTick
<1>7. CASE WatchdogActs
    <2>1. UntouchedTasks(p)
        BY <1>7, ActTasks DEF UntouchedTasks
    <2>2. p \in Blamed => \E c \in Check : Preferred[c] = p /\ c \in found
        BY <1>0 DEF Blamed, TypeOK
    <2>3. Others(p)
        BY <1>7, <2>1, <2>2 DEF WatchdogActs, Others, UntouchedResults, Quieter, NewlyFound
    <2>4. QED
        BY <2>3 DEF InTick
<1>8. CASE UNCHANGED vars
    <2>1. Others(p)
        BY <1>8 DEF vars, Others, UntouchedTasks, Same, UntouchedResults, Quieter, NewlyFound
    <2>2. QED
        BY <2>1 DEF InTick
<1>9. QED
    BY <1>2, <1>3, <1>4, <1>5, <1>6, <1>7, <1>8 DEF Within

\* The tick itself, as far as it concerns a well prober.
Ticks(p) ==
    /\ Fetch(p) \notin todo /\ Report(p) \notin todo /\ \A c \in Check : ~Due(p, c)
    /\ Fetch(p) \in todo' /\ Report(p) \in todo'
    /\ found' = {} /\ \A c \in Check : <<p, c>> \notin admitted'
    /\ \A c \in Check : Due(p, c)' <=> c \in running[p]
    /\ running'[p] = running[p] /\ (p \in silent' <=> p \in silent)
    /\ \A c \in Check : /\ quietFor[c] = 0 => quietFor'[c] <= 1
                        /\ quietFor[c] <= 1 => quietFor'[c] <= 2
    /\ chance[p] = 0 => chance'[p] = 1
    /\ chance[p] \in {StaleAfter + 1, NoChance} => chance'[p] = chance[p]

LEMMA TickTicks ==
    ASSUME Known, NEW p \in Prober, mode[p] = "well", Tick
    PROVE  Ticks(p)
<1>0. TypeOK /\ Ordinary /\ mode[p] \in Connected
    BY DEF Known, Connected
<1>1. /\ Fetch(p) \notin todo /\ Report(p) \notin todo
      /\ \A c \in Check : ~Due(p, c) /\ <<p, c>> \notin admitted'
    BY DEF Tick, Due
<1>2. /\ Fetch(p) \in todo' /\ Report(p) \in todo'
      /\ \A c \in Check : Due(p, c)' <=> c \in running[p]
    BY <1>0, <1>1, TickTasks DEF Due
<1>3. found' = {} /\ running' = running /\ silent' = silent
    BY <1>0, TickTasks DEF Tick, Ordinary
<1>4. ASSUME NEW c \in Check
      PROVE  /\ quietFor[c] = 0 => quietFor'[c] <= 1
             /\ quietFor[c] <= 1 => quietFor'[c] <= 2
    <2>1. quietFor[c] \in Nat /\ quietFor'[c] = Older(quietFor[c], StaleAfter + 1)
        BY <1>0 DEF Tick, TypeOK
    <2>2. quietFor'[c] = quietFor[c] \/ quietFor'[c] = quietFor[c] + 1
        BY <2>1 DEF Older
    <2>3. QED
        BY <2>1, <2>2
<1>5. /\ chance[p] = 0 => chance'[p] = 1
      /\ chance[p] \in {StaleAfter + 1, NoChance} => chance'[p] = chance[p]
    <2>1. chance'[p] = IF chance[p] = NoChance THEN NoChance ELSE Older(chance[p], StaleAfter + 1)
        BY DEF Tick
    <2>2. QED
        BY <2>1, Limits DEF Older
<1>6. QED
    BY <1>1, <1>2, <1>3, <1>4, <1>5 DEF Ticks

\* What was fed is rested after the tick, and fed again.
LEMMA FedTicks ==
    ASSUME NEW p \in Prober, Ticks(p), Fed(p)
    PROVE  /\ Rested(p, 1)' /\ FedIfHeard(p)'
           /\ p \notin silent => Kept(p)'
<1>1. ASSUME NEW c \in Check, Preferred[c] = p
      PROVE  c \in running'[p] /\ Due(p, c)' /\ quietFor'[c] <= 1 /\ c \notin found'
    BY <1>1 DEF Ticks, Fed
<1>2. Rested(p, 1)' /\ FedIfHeard(p)'
    BY <1>1 DEF Rested, FedIfHeard, Fed
<1>3. QED
    BY <1>2 DEF Kept, FedIfHeard, Ticks

LEMMA EntersAtTick ==
    ASSUME NEW p \in Prober, Ticks(p)
    PROVE  Entered(p)'
<1>1. Fetch(p) \in todo' /\ Spared(p)'
    BY DEF Ticks, Spared
<1>2. QED
    BY <1>1 DEF Entered

\* Each tick takes a well prober on.
LEMMA StageTicks ==
    ASSUME Paced, TypeOK, Ordinary, NEW p \in Prober, Ticks(p), NEW n \in 0 .. 6, Stage(p, n)
    PROVE  \E m \in 0 .. 6 : (m = 6 \/ m > n) /\ Stage(p, m)'
<1>0. /\ chance[p] # NoChance => p \in silent
      /\ p \in silent => \E c \in Check : Preferred[c] = p
      /\ chance[p] \in Nat /\ StaleAfter \in Nat /\ StaleAfter >= 2 /\ NoChance = StaleAfter + 2
    BY Limits DEF Paced, Ordinary, TypeOK, NoChance
<1>1. Fed(p) => Returned(p)'
    BY FedTicks DEF Returned, Ticks
<1>2. running[p] = {} => Starved(p)'
    BY DEF Ticks, Starved
<1>3. ASSUME running[p] = {}, p \notin silent PROVE Called(p)'
    BY <1>2, <1>3 DEF Called, Ticks
<1>4. ASSUME running[p] = {}, p \in silent, chance[p] = NoChance PROVE Waiting(p)'
    BY <1>2, <1>4 DEF Waiting, Ticks
<1>5. ASSUME running[p] = {}, chance[p] = 0 PROVE Tried(p)'
    BY <1>0, <1>2, <1>5 DEF Tried, Ticks, HasChance
<1>6. ASSUME running[p] = {}, p \in silent, chance[p] = StaleAfter + 1 PROVE Lost(p)'
    BY <1>0, <1>2, <1>6 DEF Lost, Spent, Ticks
<1>7. FedIfHeard(p) => Kept(p)'
    BY <1>0, FedTicks DEF FedIfHeard, Ticks
<1>8. Entered(p) => Returned(p)' \/ Called(p)' \/ Waiting(p)' \/ Tried(p)' \/ Lost(p)'
    BY <1>0, <1>1, <1>3, <1>4, <1>5, <1>6 DEF Entered, Ticks
<1>9. Called(p) => Returned(p)' \/ Waiting(p)' \/ Tried(p)'
    BY <1>0, <1>1, <1>4, <1>5 DEF Called, Served, Starved, Ticks
<1>10. Waiting(p) => Returned(p)' \/ Tried(p)'
    BY <1>0, <1>1, <1>5 DEF Waiting, Served, Starved, Ticks
<1>11. Tried(p) => Returned(p)'
    BY <1>1 DEF Tried, Served, Ticks
<1>12. Returned(p) => Kept(p)' \/ Fetching(p)' \/ Lost(p)'
    <2>1. ASSUME Rested(p, 1), running[p] = {}, p \notin silent \/ chance[p] = 0
          PROVE  Fetching(p)'
        <3>1. Rested(p, 2)'
            BY <2>1 DEF Rested, Ticks
        <3>2. p \notin silent' \/ HasChance(p)'
            BY <1>0, <2>1 DEF Ticks, HasChance
        <3>3. QED
            BY <1>2, <2>1, <3>1, <3>2 DEF Fetching, Ticks
    <2>2. QED
        BY <1>0, <1>6, <1>7, <2>1 DEF Returned, Ticks
<1>13. Fetching(p) => Kept(p)'
    BY <1>7 DEF Fetching, Ticks
<1>14. Kept(p) => Kept(p)'
    BY FedTicks DEF Kept
<1>15. Lost(p) => Lost(p)'
    BY <1>6 DEF Lost, Spent, Starved
<1>16. QED
    BY <1>8, <1>9, <1>10, <1>11, <1>12, <1>13, <1>14, <1>15 DEF Stage

\* A well prober is no more than the stages it has left from its place.
OnItsWay(p) == \E n \in 0 .. 6 : (n = 6 \/ n + Seen >= calm) /\ Stage(p, n)

WellPlaced == calm >= Seen => \A p \in Prober : mode[p] = "well" => OnItsWay(p)

LEMMA NextIs == [Next]_vars => Within \/ Tick \/ \E q \in Prober : Fault(q)
BY DEF Next, Within

\* Each tick takes a well prober a stage further, and nothing within it back.
LEMMA PlacedStep ==
    ASSUME Paced, Known, WellPlaced, [Next]_vars
    PROVE  WellPlaced'
<1> SUFFICES ASSUME calm' >= Seen, NEW p \in Prober, mode'[p] = "well" PROVE OnItsWay(p)'
    BY DEF WellPlaced, Seen
<1>0. calm \in Nat /\ Seen \in Nat /\ Seen >= 2 /\ TypeOK /\ Ordinary /\ Seen' = Seen
    BY Limits DEF Known, TypeOK, Paced, Seen
<1>1. CASE Within
    <2>1. mode' = mode /\ calm' = calm
        BY <1>1 DEF Within, FetchAssignments, ReportMesh, Submit, Process, WatchdogLooks,
                    WatchdogActs, vars
    <2>2. InTick(p) /\ OnItsWay(p)
        BY <1>1, <2>1, StepInTick DEF WellPlaced
    <2>3. PICK n \in 0 .. 6 : (n = 6 \/ n + Seen >= calm) /\ Stage(p, n)
        BY <2>2 DEF OnItsWay
    <2>4. Stage(p, n)'
        BY <1>0, <2>2, <2>3, StageStays
    <2>5. QED
        BY <2>1, <2>3, <2>4, <1>0 DEF OnItsWay
<1>2. CASE Tick
    <2>1. mode' = mode /\ calm' = Older(calm, Calm)
        BY <1>2 DEF Tick
    <2>2. calm' = calm \/ calm' = calm + 1
        BY <2>1 DEF Older
    <2>3. Ticks(p)
        BY <1>2, <2>1, TickTicks
    <2>4. CASE calm >= Seen
        <3>1. OnItsWay(p)
            BY <2>1, <2>4 DEF WellPlaced
        <3>2. PICK n \in 0 .. 6 : (n = 6 \/ n + Seen >= calm) /\ Stage(p, n)
            BY <3>1 DEF OnItsWay
        <3>3. PICK m \in 0 .. 6 : (m = 6 \/ m > n) /\ Stage(p, m)'
            BY <1>0, <2>3, <3>2, StageTicks
        <3>4. m = 6 \/ m + Seen >= calm'
            BY <1>0, <2>2, <3>2, <3>3
        <3>5. QED
            BY <1>0, <3>3, <3>4 DEF OnItsWay
    <2>5. CASE calm < Seen
        <3>1. Stage(p, 0)'
            BY <2>3, EntersAtTick DEF Stage
        <3>2. 0 + Seen >= calm'
            BY <1>0, <2>2, <2>5
        <3>3. QED
            BY <1>0, <3>1, <3>2 DEF OnItsWay
    <2>6. QED
        BY <1>0, <2>4, <2>5
<1>3. ASSUME NEW q \in Prober, Fault(q) PROVE FALSE
    BY <1>0, <1>3 DEF Fault
<1>4. QED
    BY <1>1, <1>2, <1>3, NextIs

LEMMA PlacedInit == Paced /\ Init => WellPlaced
BY Limits DEF Init, WellPlaced, Seen

LEMMA KnownHolds == Spec /\ Paced => [](Known /\ WellPlaced)
<1> SUFFICES ASSUME Paced PROVE Spec => [](Known /\ WellPlaced)
    OBVIOUS
<1>1. Init => Known /\ WellPlaced
    BY TypesInit, OrdinaryInit, SeenInit, PlacedInit DEF Known
<1>2. (Known /\ WellPlaced) /\ [Next]_vars => (Known /\ WellPlaced)'
    BY TypesStep, OrdinaryStep, SeenStep, PlacedStep DEF Known
<1>3. QED
    BY <1>1, <1>2, PTL DEF Spec

\* After the six stages, the well have their place, or missed their chance.
LEMMA KeptOrLost ==
    ASSUME Paced, Known, WellPlaced, calm >= Seen + 6, NEW p \in Prober, mode[p] = "well"
    PROVE  Kept(p) \/ Lost(p)
<1>0. calm \in Nat /\ Seen \in Nat /\ calm >= Seen
    BY Limits DEF Known, TypeOK, Seen
<1>1. PICK n \in 0 .. 6 : (n = 6 \/ n + Seen >= calm) /\ Stage(p, n)
    BY <1>0 DEF WellPlaced, OnItsWay
<1>2. n = 6
    BY <1>0, <1>1
<1>3. QED
    BY <1>1, <1>2 DEF Stage

\* OwnersReturn of the module: a prober that is well again has its preferred
\* checks back (acceptance.md:79-80), when the calm is as long as the mesh takes
\* to show it and the six stages take.
THEOREM OwnersHaveReturned ==
    ASSUME Paced, Calm >= MeshMaxAge + 7
    PROVE  Spec => []OwnersReturn
<1>1. Known /\ WellPlaced => OwnersReturn
    <2> SUFFICES ASSUME Known, WellPlaced, calm = Calm, NEW p \in Prober, mode[p] = "well", ~Spent(p)
                 PROVE  HasItsPlace(p)
        BY DEF OwnersReturn, Settled
    <2>0. calm >= Seen + 6 /\ calm >= Seen /\ calm >= Seen + 1
        BY Limits DEF Seen
    <2>1. Kept(p)
        BY <2>0, KeptOrLost DEF Lost
    <2>2. p \notin Isolated /\ p \notin announced
        BY <2>0, IsolatedAreCut DEF Known, SeenAsItIs
    <2>3. QED
        BY <2>1, <2>2 DEF HasItsPlace, Kept, Fed
<1>2. QED
    BY <1>1, KnownHolds, PTL

-----------------------------------------------------------------------------
(* How the others come to be set aside.                                    *)

\* c has no verdict since the tick `since`, so that it is found in time.
Unwatched(c, since) ==
    /\ \A q \in Prober : mode[q] = "well" => <<q, c>> \notin admitted
    /\ quietFor[c] + since >= calm \/ quietFor[c] = StaleAfter + 1
    /\ calm >= since + StaleAfter + 1 => Look \in todo \/ c \in found
    /\ calm < since + StaleAfter + 2

\* Its chance runs out, and it is declared silent if it does not report.
Out(p) ==
    /\ chance[p] + Seen >= calm \/ chance[p] > StaleAfter
    /\ mode[p] \notin Connected =>
          p \in silent \/ \A c \in Check : Preferred[c] = p => Unwatched(c, Seen)

OthersOut == calm >= Seen => \A p \in Prober : mode[p] # "well" => Out(p)

\* A step without a fault.
Calmly == Within \/ Tick

LEMMA CalmSteps ==
    ASSUME TypeOK, Calmly
    PROVE  /\ mode' = mode
           /\ calm' = calm \/ (Tick /\ calm' = calm + 1)
           /\ Within => calm' = calm
<1>1. CASE Within
    BY <1>1 DEF Within, FetchAssignments, ReportMesh, Submit, Process, WatchdogLooks,
                WatchdogActs, vars
<1>2. CASE Tick
    <2>1. mode' = mode /\ calm' = Older(calm, Calm)
        BY <1>2 DEF Tick
    <2>2. ASSUME Within PROVE calm' = calm
        BY <1>1, <2>2
    <2>3. QED
        BY <1>2, <2>1, <2>2 DEF Older
<1>3. QED
    BY <1>1, <1>2 DEF Calmly

\* Only a result that is taken ends a silence, or gives a verdict.
LEMMA OnlyTheWellCount ==
    ASSUME Paced, Known, calm >= Seen, Within
    PROVE  /\ \A p \in Prober : mode[p] # "well" /\ p \in silent => p \in silent'
           /\ \A c \in Check : (\A q \in Prober : mode[q] = "well" => <<q, c>> \notin admitted)
                                  => quietFor'[c] = quietFor[c]
<1>0. TypeOK /\ Isolated = {q \in Prober : mode[q] = "cut"} /\ calm >= 1
      /\ DOMAIN quietFor = Check
    BY IsolatedAreCut, Limits DEF Known, TypeOK, Paced, Seen
<1>1. ASSUME NEW q \in Prober, NEW d \in Check, Process(q, d)
      PROVE  \/ UNCHANGED <<silent, quietFor>>
             \/ /\ mode[q] = "well" /\ <<q, d>> \in admitted
                /\ silent' = silent \ {q} /\ quietFor' = [quietFor EXCEPT ![d] = 0]
    <2>1. <<q, d>> \in admitted
        BY <1>1 DEF Process
    <2>2. mode[q] \in Connected
        BY <1>0, <2>1 DEF Known, SeenAsItIs
    <2>3. QED
        BY <1>0, <1>1, <2>1, <2>2 DEF Process, Connected
<1>2. CASE \E q \in Prober, d \in Check : Process(q, d)
    BY <1>0, <1>1, <1>2
<1>3. CASE ~ \E q \in Prober, d \in Check : Process(q, d)
    <2>1. quietFor' = quietFor /\ silent \subseteq silent'
        BY <1>3 DEF Within, FetchAssignments, ReportMesh, Submit, WatchdogLooks, WatchdogActs, vars
    <2>2. QED
        BY <2>1
<1>4. QED
    BY <1>2, <1>3

\* Whoever is not well does not come out of its silence.
LEMMA SilenceStays ==
    ASSUME Paced, Known, calm >= Seen, Calmly, NEW p \in Prober, mode[p] # "well", p \in silent
    PROVE  p \in silent'
<1>1. CASE Within
    BY <1>1, OnlyTheWellCount
<1>2. CASE Tick
    BY <1>2 DEF Tick
<1>3. QED
    BY <1>1, <1>2 DEF Calmly

\* While nobody well has the check, the watchdog comes to find it.
LEMMA UnwatchedStays ==
    ASSUME Paced, Known, calm >= Seen, Calmly,
           NEW since \in Nat, calm >= since,
           NEW c \in Check, Unwatched(c, since), Preferred[c] \notin silent,
           \A q \in Prober : mode[q] = "well" => q \notin Assigned(c)
    PROVE  Preferred[c] \in silent' \/ Unwatched(c, since)'
<1>0. /\ TypeOK /\ Ordinary /\ calm \in Nat /\ StaleAfter \in Nat
      /\ quietFor[c] \in 0 .. StaleAfter + 1
    BY Limits DEF Known, TypeOK
<1>1. mode' = mode /\ (Within => calm' = calm) /\ (calm' = calm \/ calm' = calm + 1)
    BY <1>0, CalmSteps
<1>2. ~HasChance(Preferred[c])
    <2>1. Preferred[c] \in Prober
        BY OwnershipAssumption
    <2>2. chance[Preferred[c]] = NoChance
        BY <1>0, <2>1 DEF Ordinary
    <2>3. QED
        BY <2>2, Limits DEF HasChance
<1>3. CASE Within
    <2>1. ASSUME NEW q \in Prober, mode[q] = "well", <<q, c>> \in admitted' PROVE FALSE
        <3>1. <<q, c>> \notin admitted
            BY <2>1 DEF Unwatched
        <3>3. PICK r \in Prober, d \in Check : Submit(r, d)
            BY <1>3, <2>1, <3>1 DEF Within, FetchAssignments, ReportMesh, Process, WatchdogLooks,
                                    WatchdogActs, vars
        <3>4. <<q, c>> = <<r, d>> /\ Admissible(q, c)
            BY <2>1, <3>1, <3>3 DEF Submit
        <3>5. QED
            BY <2>1, <3>4 DEF Admissible
    <2>2. quietFor'[c] = quietFor[c]
        BY <1>3, OnlyTheWellCount DEF Unwatched
    <2>3. ASSUME calm >= since + StaleAfter + 1
          PROVE  Preferred[c] \in silent' \/ Look \in todo' \/ c \in found'
        <3>0. Look \in todo \/ c \in found
            BY <2>3 DEF Unwatched
        <3>1. CASE WatchdogLooks
            <4>1. quietFor[c] > StaleAfter
                BY <1>0, <2>3 DEF Unwatched
            <4>2. QED
                BY <1>2, <3>1, <4>1 DEF WatchdogLooks, Stale
        <3>2. CASE WatchdogActs
            BY <3>0, <3>2, ActTasks DEF WatchdogActs, Blamed, Same
        <3>3. CASE ~WatchdogLooks /\ ~WatchdogActs
            <4>1. found' = found /\ Same(Look)
                <5>1. ASSUME NEW q \in Prober, FetchAssignments(q) PROVE found' = found /\ Same(Look)
                    BY <5>1, FetchTasks DEF FetchAssignments
                <5>2. ASSUME NEW q \in Prober, ReportMesh(q) PROVE found' = found /\ Same(Look)
                    BY <5>2, ReportTasks DEF ReportMesh
                <5>3. ASSUME NEW q \in Prober, NEW d \in Check, Submit(q, d)
                      PROVE  found' = found /\ Same(Look)
                    BY <5>3, SubmitTasks DEF Submit
                <5>4. ASSUME NEW q \in Prober, NEW d \in Check, Process(q, d)
                      PROVE  found' = found /\ Same(Look)
                    BY <5>4 DEF Process, Same
                <5>5. CASE UNCHANGED vars
                    BY <5>5 DEF vars, Same
                <5>6. QED
                    BY <1>3, <3>3, <5>1, <5>2, <5>3, <5>4, <5>5 DEF Within
            <4>2. QED
                BY <3>0, <4>1 DEF Same
        <3>4. QED
            BY <3>1, <3>2, <3>3
    <2>4. QED
        BY <1>1, <1>3, <2>1, <2>2, <2>3 DEF Unwatched
<1>4. CASE Tick
    <2>1. todo = {} /\ admitted' = {} /\ found = {}
        BY <1>0, <1>4 DEF Tick, Ordinary
    <2>2. Look \in todo'
        BY <1>0, <1>4, TickTasks
    <2>3. calm < since + StaleAfter + 1
        BY <1>0, <2>1 DEF Unwatched
    <2>4. quietFor'[c] = Older(quietFor[c], StaleAfter + 1)
        BY <1>4 DEF Tick
    <2>5. quietFor'[c] + since >= calm' \/ quietFor'[c] = StaleAfter + 1
        BY <1>0, <1>1, <2>4 DEF Unwatched, Older
    <2>6. calm' < since + StaleAfter + 2
        BY <1>0, <1>1, <2>3
    <2>7. QED
        BY <2>1, <2>2, <2>5, <2>6 DEF Unwatched
<1>5. QED
    BY <1>3, <1>4 DEF Calmly

\* Only the well are given a chance.
LEMMA NoNewChance ==
    ASSUME Paced, Known, calm >= Seen, Within, NEW p \in Prober, mode[p] # "well"
    PROVE  chance'[p] \in {chance[p], NoChance}
<1>0. TypeOK /\ Ordinary /\ DOMAIN chance = Prober /\ DOMAIN view = Prober
    BY DEF Known, TypeOK
<1>1. ASSUME NEW q \in Prober, ReportMesh(q) PROVE chance'[p] = chance[p]
    <2>1. /\ Report(q) \in todo
          /\ view' = [view EXCEPT ![q] = IF mode[q] = "cut" THEN "cut" ELSE "sees"]
          /\ chance' = IF q \in Isolated' THEN chance ELSE Chance(q)
        BY <1>1 DEF ReportMesh
    <2>2. CASE p # q
        BY <1>0, <2>1, <2>2 DEF Chance
    <2>3. CASE p = q
        <3>1. mode[p] = "cut"
            BY <1>0, <2>1, <2>3 DEF Ordinary, Connected
        <3>2. p \in Isolated'
            BY <1>0, <2>1, <2>3, <3>1 DEF Isolated
        <3>3. QED
            BY <2>1, <2>3, <3>2
    <2>4. QED
        BY <2>2, <2>3
<1>2. ASSUME NEW q \in Prober, NEW d \in Check, Process(q, d) PROVE chance'[p] \in {chance[p], NoChance}
    BY <1>0, <1>2 DEF Process
<1>3. CASE ~(\E q \in Prober : ReportMesh(q)) /\ ~(\E q \in Prober, d \in Check : Process(q, d))
    BY <1>3 DEF Within, FetchAssignments, Submit, WatchdogLooks, WatchdogActs, vars
<1>4. QED
    BY <1>1, <1>2, <1>3

\* The checks of a prober that is gone stay with it until it is silent.
LEMMA GoneIsAssigned ==
    ASSUME Paced, Known, calm >= Seen, NEW c \in Check,
           mode[Preferred[c]] \notin Connected, Preferred[c] \notin silent
    PROVE  Assigned(c) = {Preferred[c]}
<1>1. Preferred[c] \notin Isolated
    BY IsolatedAreCut DEF Known, Connected
<1>2. QED
    BY <1>1 DEF Assigned, Unavailable

LEMMA OutStep ==
    ASSUME Paced, Known, OthersOut, [Next]_vars
    PROVE  OthersOut'
<1> SUFFICES ASSUME calm' >= Seen, NEW p \in Prober, mode'[p] # "well" PROVE Out(p)'
    BY DEF OthersOut, Seen
<1>0. /\ calm \in Nat /\ Seen \in Nat /\ Seen >= 2 /\ TypeOK /\ Ordinary /\ Seen' = Seen
      /\ StaleAfter \in Nat /\ chance[p] \in Nat /\ NoChance = StaleAfter + 2
      /\ chance'[p] \in Nat /\ \A c \in Check : quietFor'[c] \in Nat
    <2>1. TypeOK'
        BY TypesStep DEF Known
    <2>2. QED
        BY <2>1, Limits DEF Known, TypeOK, Paced, Seen, NoChance
<1>1. \A q \in Prober : ~Fault(q)
    BY <1>0 DEF Fault
<1>2. Calmly
    BY <1>1, NextIs DEF Calmly
<1>3. /\ mode' = mode /\ (Within => calm' = calm)
      /\ calm' = calm \/ (Tick /\ calm' = calm + 1)
    BY <1>0, <1>2, CalmSteps
<1>4. CASE calm >= Seen
    <2>0. Out(p)
        BY <1>3, <1>4 DEF OthersOut
    <2>1. chance'[p] + Seen >= calm' \/ chance'[p] > StaleAfter
        <3>1. CASE Within
            <4>1. chance'[p] \in {chance[p], NoChance}
                BY <1>3, <1>4, <3>1, NoNewChance
            <4>2. QED
                BY <1>0, <1>3, <2>0, <3>1, <4>1 DEF Out
        <3>2. CASE Tick
            <4>1. chance'[p] = IF chance[p] = NoChance THEN NoChance ELSE Older(chance[p], StaleAfter + 1)
                BY <3>2 DEF Tick
            <4>2. chance[p] <= StaleAfter => chance'[p] = chance[p] + 1
                BY <1>0, <4>1 DEF Older
            <4>3. chance[p] > StaleAfter => chance'[p] > StaleAfter
                BY <1>0, <4>1 DEF Older
            <4>4. QED
                BY <1>0, <1>3, <2>0, <4>2, <4>3 DEF Out
        <3>3. QED
            BY <1>2, <3>1, <3>2 DEF Calmly
    <2>2. ASSUME mode[p] \notin Connected, p \notin silent', NEW c \in Check, Preferred[c] = p
          PROVE  Unwatched(c, Seen)'
        <3>1. p \notin silent
            BY <1>2, <1>3, <1>4, <2>2, SilenceStays
        <3>2. Unwatched(c, Seen)
            BY <2>0, <2>2, <3>1 DEF Out
        <3>3. Assigned(c) = {p}
            BY <1>4, <2>2, <3>1, GoneIsAssigned
        <3>4. \A q \in Prober : mode[q] = "well" => q \notin Assigned(c)
            BY <1>3, <3>3
        <3>5. QED
            BY <1>0, <1>2, <1>4, <2>2, <3>1, <3>2, <3>4, UnwatchedStays
    <2>3. QED
        BY <1>0, <1>3, <2>1, <2>2 DEF Out
<1>5. CASE calm < Seen
    <2>1. calm' = Seen /\ Tick
        BY <1>0, <1>3, <1>5
    <2>2. admitted' = {}
        BY <2>1 DEF Tick
    <2>3. \A c \in Check : Unwatched(c, Seen)'
        BY <1>0, <2>1, <2>2 DEF Unwatched
    <2>4. QED
        BY <1>0, <2>1, <2>3 DEF Out
<1>6. QED
    BY <1>0, <1>4, <1>5

-----------------------------------------------------------------------------
(* When all are placed or set aside, who has what no longer changes.       *)

Decided == MeshMaxAge + StaleAfter + 5

Sorted == Known /\ WellPlaced /\ OthersOut

LEMMA DecidedIs ==
    ASSUME Paced
    PROVE  /\ Decided \in Nat /\ Seen \in Nat /\ Seen >= 2 /\ StaleAfter \in Nat
           /\ Decided >= Seen + 6 /\ Decided = Seen + StaleAfter + 4
BY Limits DEF Paced, Decided, Seen

LEMMA NobodyHasAChance ==
    ASSUME Paced, Sorted, calm >= Decided
    PROVE  \A p \in Prober : ~HasChance(p)
<1> SUFFICES ASSUME NEW p \in Prober PROVE ~HasChance(p)
    OBVIOUS
<1>0. /\ calm \in Nat /\ calm >= Seen + 6 /\ calm >= Seen /\ chance[p] \in Nat
      /\ calm >= Seen + StaleAfter + 4 /\ Seen \in Nat /\ StaleAfter \in Nat
      /\ NoChance = StaleAfter + 2
    BY DecidedIs, Limits DEF Sorted, Known, TypeOK, NoChance
<1>1. CASE mode[p] = "well"
    <2>1. Kept(p) \/ Lost(p)
        BY <1>0, <1>1, KeptOrLost DEF Sorted
    <2>2. chance[p] \in {NoChance, StaleAfter + 1}
        BY <2>1 DEF Kept, Lost, Spent, Sorted, Known, Ordinary
    <2>3. QED
        BY <1>0, <2>2 DEF HasChance
<1>2. CASE mode[p] # "well"
    BY <1>0, <1>2 DEF Sorted, OthersOut, Out, HasChance
<1>3. QED
    BY <1>1, <1>2

\* Whoever is gone and is preferred by a check is silent.
LEMMA TheGoneAreSilent ==
    ASSUME Paced, Sorted, calm >= Decided, NEW c \in Check, mode[Preferred[c]] \notin Connected
    PROVE  Preferred[c] \in silent
<1>0. /\ calm \in Nat /\ calm >= Seen + StaleAfter + 2 /\ calm >= Seen
      /\ Seen \in Nat /\ StaleAfter \in Nat
    BY DecidedIs DEF Sorted, Known, TypeOK
<1>1. Preferred[c] \in Prober /\ mode[Preferred[c]] # "well"
    BY OwnershipAssumption DEF Connected
<1>2. Preferred[c] \in silent \/ Unwatched(c, Seen)
    BY <1>0, <1>1 DEF Sorted, OthersOut, Out
<1>3. ~Unwatched(c, Seen)
    BY <1>0 DEF Unwatched
<1>4. QED
    BY <1>2, <1>3

\* From here on a well prober is not declared silent, and one that is remains so.
LEMMA TheWellStayAsTheyAre ==
    ASSUME Paced, Sorted, calm >= Decided, Calmly, NEW p \in Prober, mode[p] = "well"
    PROVE  p \in silent' <=> p \in silent
<1>0. calm \in Nat /\ calm >= Seen + 6 /\ calm >= Seen /\ Seen \in Nat
    BY DecidedIs DEF Sorted, Known, TypeOK
<1>1. Kept(p) \/ Lost(p)
    BY <1>0, KeptOrLost DEF Sorted
<1>2. CASE Within
    <2>1. InTick(p)
        BY <1>0, <1>2, StepInTick DEF Sorted
    <2>2. Kept(p) => p \notin silent /\ p \notin silent'
        BY <2>1 DEF Kept, Rested, InTick, Others, Fetches, Reports, Submits, IsProcessed
    <2>3. Lost(p) => p \in silent /\ p \in silent'
        BY <2>1 DEF Lost, Spent, Starved, InTick, Others, Fetches, Reports, Submits, IsProcessed
    <2>4. QED
        BY <1>1, <2>2, <2>3
<1>3. CASE Tick
    BY <1>3 DEF Tick
<1>4. QED
    BY <1>2, <1>3 DEF Calmly

\* The lemmas before, as formulas that hold after a step as well.
LEMMA IsolatedNow ==
    Paced /\ Sorted /\ calm >= Decided => Isolated = {p \in Prober : mode[p] = "cut"}
<1> SUFFICES ASSUME Paced, Sorted, calm >= Decided
             PROVE  Isolated = {p \in Prober : mode[p] = "cut"}
    OBVIOUS
<1>1. calm >= Seen
    BY DecidedIs DEF Sorted, Known, TypeOK
<1>2. QED
    BY <1>1, IsolatedAreCut DEF Sorted, Known

LEMMA NoChanceNow ==
    Paced /\ Sorted /\ calm >= Decided => \A p \in Prober : ~HasChance(p)
BY NobodyHasAChance

\* The unavailable and so the assignments stay.
LEMMA AssignedStay ==
    ASSUME Paced, Sorted, Sorted', calm >= Decided, Calmly
    PROVE  /\ \A c \in Check : Assigned(c)' = Assigned(c)
           /\ \A p \in Prober : /\ p \in silent => p \in silent'
                                /\ Fetched(p)' = Fetched(p)
<1>0. calm \in Nat /\ calm >= Seen /\ TypeOK
    BY DecidedIs DEF Sorted, Known, TypeOK
<1>1. mode' = mode /\ calm' >= Decided /\ Decided' = Decided
    BY <1>0, CalmSteps, DecidedIs DEF Decided
<1>2. /\ Isolated = {p \in Prober : mode[p] = "cut"} /\ \A p \in Prober : ~HasChance(p)
    BY IsolatedNow, NoChanceNow
<1>3. /\ Isolated' = {p \in Prober : mode[p] = "cut"} /\ \A p \in Prober : ~HasChance(p)'
    <2>1. (Paced /\ Sorted /\ calm >= Decided => Isolated = {p \in Prober : mode[p] = "cut"})'
        BY IsolatedNow, PTL
    <2>2. (Paced /\ Sorted /\ calm >= Decided => \A p \in Prober : ~HasChance(p))'
        BY NoChanceNow, PTL
    <2>3. QED
        BY <1>1, <2>1, <2>2 DEF Paced
<1>4. ASSUME NEW p \in Prober
      PROVE  (p \in silent => p \in silent') /\ (mode[p] # "cut" => (p \in silent' <=> p \in silent))
    <2>1. CASE mode[p] = "well"
        BY <2>1, TheWellStayAsTheyAre
    <2>2. CASE mode[p] # "well"
        <3>1. p \in silent => p \in silent'
            BY <1>0, <2>2, SilenceStays DEF Sorted
        <3>2. ASSUME mode[p] # "cut", p \in silent' PROVE p \in silent
            <4>1. PICK c \in Check : Preferred[c] = p
                BY <3>2 DEF Sorted, Known, Ordinary
            <4>2. mode[p] \notin Connected
                BY <2>2, <3>2 DEF Connected
            <4>3. QED
                BY <4>1, <4>2, TheGoneAreSilent
        <3>3. QED
            BY <3>1, <3>2
    <2>3. QED
        BY <2>1, <2>2
<1>5. Unavailable' = Unavailable
    <2>1. silent \subseteq Prober /\ silent' \subseteq Prober
        BY DEF Sorted, Known, TypeOK
    <2>2. QED
        BY <1>2, <1>3, <1>4, <2>1 DEF Unavailable
<1>6. ASSUME NEW c \in Check PROVE Assigned(c)' = Assigned(c)
    <2>1. Preferred[c] \in Prober
        BY OwnershipAssumption
    <2>2. QED
        BY <1>2, <1>3, <1>5, <2>1 DEF Assigned
<1>7. QED
    BY <1>4, <1>6 DEF Fetched

\* What q has is what it fetched or is about to fetch, and if it is well, its
\* checks have their verdict with every tick.
Serves(q) ==
    /\ Fetch(q) \in todo \/ running[q] = Fetched(q)
    /\ calm > Decided => running[q] = Fetched(q)
    /\ mode[q] = "well" =>
         \A c \in Fetched(q) : /\ c \in running[q] => Due(q, c) \/ quietFor[c] = 0
                               /\ calm > Decided => quietFor[c] <= 1 /\ c \notin found

\* A check nobody can run has its owner declared silent, as far as it was not.
Heeded(c) == \E q \in Assigned(c) : mode[q] = "well"

Orderly ==
    calm >= Decided =>
        /\ \A q \in Prober : mode[q] \in Connected => Serves(q)
        /\ \A c \in Check : Heeded(c) \/ Preferred[c] \in silent \/ Unwatched(c, Decided)

\* A result of the assigned prober stays due until it is the verdict.
LEMMA DueTillVerdict ==
    ASSUME Paced, Known, calm >= Seen, Within, NEW q \in Prober, mode[q] = "well",
           NEW c \in Fetched(q), c \in running'[q],
           c \in running[q] => Due(q, c) \/ quietFor[c] = 0
    PROVE  Due(q, c)' \/ quietFor'[c] = 0
<1>0. TypeOK /\ c \in Check /\ q \in Assigned(c) /\ q \notin Isolated
    BY IsolatedAreCut DEF Known, Fetched
<1>1. ASSUME NEW r \in Prober, FetchAssignments(r) PROVE Due(q, c)' \/ quietFor'[c] = 0
    <2>1. UNCHANGED <<admitted, quietFor>> /\ running' = [running EXCEPT ![r] = Fetched(r)]
        BY <1>1 DEF FetchAssignments
    <2>2. CASE r = q
        <3>1. Run(q, c) \in todo' <=> Run(q, c) \in todo \/ c \notin running[q]
            BY <1>0, <1>1, <2>2, FetchTasks
        <3>2. QED
            BY <2>1, <3>1 DEF Due
    <2>3. CASE r # q
        <3>1. Same(Run(q, c)) /\ c \in running[q]
            BY <1>0, <1>1, <2>1, <2>3, FetchTasks DEF TypeOK
        <3>2. QED
            BY <2>1, <3>1 DEF Due, Same
    <2>4. QED
        BY <2>2, <2>3
<1>2. ASSUME NEW r \in Prober, ReportMesh(r) PROVE Due(q, c)' \/ quietFor'[c] = 0
    <2>1. Same(Run(q, c)) /\ UNCHANGED <<running, admitted, quietFor>>
        BY <1>0, <1>2, ReportTasks DEF ReportMesh
    <2>2. QED
        BY <2>1 DEF Due, Same
<1>3. ASSUME NEW r \in Prober, NEW d \in Check, Submit(r, d) PROVE Due(q, c)' \/ quietFor'[c] = 0
    <2>1. /\ UNCHANGED <<running, quietFor>> /\ admitted \subseteq admitted'
          /\ Admissible(r, d) => <<r, d>> \in admitted'
        BY <1>3 DEF Submit
    <2>2. CASE r = q /\ d = c
        BY <1>0, <2>1, <2>2 DEF Admissible, Due
    <2>3. CASE ~(r = q /\ d = c)
        <3>1. Run(q, c) \in todo' <=> Run(q, c) \in todo
            BY <1>0, <1>3, <2>3, SubmitTasks
        <3>2. QED
            BY <2>1, <3>1 DEF Due
    <2>4. QED
        BY <2>2, <2>3
<1>4. ASSUME NEW r \in Prober, NEW d \in Check, Process(r, d) PROVE Due(q, c)' \/ quietFor'[c] = 0
    <2>1. /\ UNCHANGED <<running, todo>> /\ admitted' = admitted \ {<<r, d>>}
          /\ r \notin Isolated => quietFor' = [quietFor EXCEPT ![d] = 0]
          /\ quietFor' = quietFor \/ quietFor' = [quietFor EXCEPT ![d] = 0]
        BY <1>4 DEF Process
    <2>2. CASE r = q /\ d = c
        BY <1>0, <2>1, <2>2 DEF TypeOK
    <2>3. CASE ~(r = q /\ d = c)
        <3>1. <<q, c>> \in admitted' <=> <<q, c>> \in admitted
            BY <2>1, <2>3
        <3>2. quietFor[c] = 0 => quietFor'[c] = 0
            BY <1>0, <2>1 DEF TypeOK
        <3>3. QED
            BY <2>1, <3>1, <3>2 DEF Due
    <2>4. QED
        BY <2>2, <2>3
<1>5. CASE WatchdogLooks \/ WatchdogActs
    <2>1. Same(Run(q, c)) /\ UNCHANGED <<running, admitted, quietFor>>
        BY <1>0, <1>5, LookTasks, ActTasks DEF WatchdogLooks, WatchdogActs
    <2>2. QED
        BY <2>1 DEF Due, Same
<1>6. CASE UNCHANGED vars
    BY <1>6 DEF vars, Due
<1>7. QED
    BY <1>1, <1>2, <1>3, <1>4, <1>5, <1>6 DEF Within

LEMMA ServesWithin ==
    ASSUME Paced, Sorted, calm >= Decided, Within, NEW q \in Prober,
           Fetched(q)' = Fetched(q), Serves(q)
    PROVE  Serves(q)'
<1>0. /\ Known /\ TypeOK /\ calm \in Nat /\ calm >= Seen /\ StaleAfter >= 2 /\ StaleAfter \in Nat
      /\ Fetched(q) \subseteq Check /\ \A c \in Check : quietFor[c] \in Nat
    BY DecidedIs DEF Sorted, Known, TypeOK, Paced, Fetched
<1>1. mode' = mode /\ calm' = calm /\ Decided' = Decided
    BY <1>0, CalmSteps DEF Calmly, Decided
<1>2. \/ running'[q] = running[q] /\ Same(Fetch(q))
      \/ running'[q] = Fetched(q)
    <2>1. ASSUME NEW r \in Prober, FetchAssignments(r)
          PROVE  \/ running'[q] = running[q] /\ Same(Fetch(q))
                 \/ running'[q] = Fetched(q)
        <3>1. running' = [running EXCEPT ![r] = Fetched(r)] /\ DOMAIN running = Prober
            BY <1>0, <2>1 DEF FetchAssignments, TypeOK
        <3>2. QED
            BY <2>1, <3>1, FetchTasks DEF Same
    <2>2. ASSUME NEW r \in Prober, ReportMesh(r) PROVE running'[q] = running[q] /\ Same(Fetch(q))
        BY <2>2, ReportTasks DEF ReportMesh
    <2>3. ASSUME NEW r \in Prober, NEW d \in Check, Submit(r, d)
          PROVE  running'[q] = running[q] /\ Same(Fetch(q))
        BY <2>3, SubmitTasks DEF Submit
    <2>4. ASSUME NEW r \in Prober, NEW d \in Check, Process(r, d)
          PROVE  running'[q] = running[q] /\ Same(Fetch(q))
        BY <2>4 DEF Process, Same
    <2>5. CASE WatchdogLooks \/ WatchdogActs
        BY <2>5, LookTasks, ActTasks DEF WatchdogLooks, WatchdogActs
    <2>6. CASE UNCHANGED vars
        BY <2>6 DEF vars, Same
    <2>7. QED
        BY <2>1, <2>2, <2>3, <2>4, <2>5, <2>6 DEF Within
<1>3. ASSUME mode[q] = "well", NEW c \in Fetched(q)
      PROVE  /\ c \in running'[q] => Due(q, c)' \/ quietFor'[c] = 0
             /\ calm' > Decided => quietFor'[c] <= 1 /\ c \notin found'
    <2>1. c \in running[q] => Due(q, c) \/ quietFor[c] = 0
        BY <1>3 DEF Serves
    <2>2. calm > Decided => quietFor[c] <= 1 /\ c \notin found
        BY <1>3 DEF Serves
    <2>3. Quieter /\ NewlyFound
        <3>1. InTick(q)
            BY <1>0, <1>3, StepInTick
        <3>2. QED
            BY <3>1 DEF InTick, Others, Fetches, Reports, Submits, IsProcessed, Quieter, NewlyFound
    <2>4. c \in running'[q] => Due(q, c)' \/ quietFor'[c] = 0
        BY <1>0, <1>3, <2>1, DueTillVerdict
    <2>5. c \in Check /\ quietFor'[c] \in {quietFor[c], 0}
        BY <1>0, <2>3 DEF Quieter
    <2>6. calm' > Decided => quietFor'[c] <= 1
        BY <1>1, <2>2, <2>5
    <2>7. calm' > Decided => c \notin found'
        BY <1>0, <1>1, <2>2, <2>3, <2>5, <2>6 DEF NewlyFound
    <2>8. QED
        BY <2>4, <2>6, <2>7
<1>4. QED
    BY <1>1, <1>2, <1>3 DEF Serves, Same

LEMMA ServesTick ==
    ASSUME Paced, Sorted, Tick, NEW q \in Prober, mode[q] \in Connected,
           calm' >= Decided, calm >= Decided => Serves(q) /\ Fetched(q)' = Fetched(q)
    PROVE  Serves(q)'
<1>0. /\ TypeOK /\ Ordinary /\ calm \in Nat /\ Decided \in Nat /\ Decided' = Decided
    BY DecidedIs DEF Sorted, Known, TypeOK, Decided
<1>1. mode' = mode /\ (calm' = calm \/ calm' = calm + 1)
    BY <1>0, CalmSteps DEF Calmly
<1>2. /\ running' = running /\ found' = {} /\ Fetch(q) \in todo' /\ Fetch(q) \notin todo
      /\ \A c \in Check : ~Due(q, c) /\ (c \in running[q] => Due(q, c)')
    BY <1>0, TickTasks DEF Tick, Ordinary, Due
<1>3. ASSUME calm' > Decided PROVE calm >= Decided
    BY <1>0, <1>1, <1>3
<1>4. ASSUME calm' > Decided, mode[q] = "well", NEW c \in Fetched(q)' PROVE quietFor'[c] <= 1
    <2>1. Serves(q) /\ c \in Fetched(q) /\ c \in Check
        BY <1>3, <1>4 DEF Fetched
    <2>2. quietFor[c] = 0
        BY <1>2, <1>4, <2>1 DEF Serves
    <2>3. QED
        BY <2>1, <2>2, Limits DEF Tick, Older
<1>5. ASSUME calm' > Decided PROVE running'[q] = Fetched(q)'
    BY <1>2, <1>3, <1>5 DEF Serves
<1>6. \A c \in Fetched(q)' : c \in running'[q] => Due(q, c)'
    BY <1>2 DEF Fetched
<1>7. QED
    BY <1>1, <1>2, <1>4, <1>5, <1>6, <1>0 DEF Serves

\* Once decided, who has what is kept to.
LEMMA OrderlyStep ==
    ASSUME Paced, Sorted, Sorted', Orderly, [Next]_vars
    PROVE  Orderly'
<1> SUFFICES ASSUME calm' >= Decided
             PROVE  /\ \A q \in Prober : mode'[q] \in Connected => Serves(q)'
                    /\ \A c \in Check : Heeded(c)' \/ Preferred[c] \in silent' \/ Unwatched(c, Decided)'
    BY DEF Orderly, Decided
<1>0. /\ calm \in Nat /\ TypeOK /\ Decided' = Decided
      /\ \A c \in Check : quietFor'[c] \in Nat
      /\ Decided \in Nat /\ Seen \in Nat /\ Seen >= 2 /\ StaleAfter \in Nat /\ Decided >= Seen
    BY DecidedIs DEF Sorted, Known, TypeOK, Decided
<1>1. \A q \in Prober : ~Fault(q)
    BY <1>0 DEF Fault
<1>2. Calmly
    BY <1>1, NextIs DEF Calmly
<1>3. /\ mode' = mode /\ (Within => calm' = calm)
      /\ calm' = calm \/ (Tick /\ calm' = calm + 1)
    BY <1>0, <1>2, CalmSteps
<1>4. CASE calm >= Decided
    <2>1. /\ \A q \in Prober : mode[q] \in Connected => Serves(q)
          /\ \A c \in Check : Heeded(c) \/ Preferred[c] \in silent \/ Unwatched(c, Decided)
        BY <1>4 DEF Orderly
    <2>2. /\ \A c \in Check : Assigned(c)' = Assigned(c)
          /\ \A p \in Prober : (p \in silent => p \in silent') /\ Fetched(p)' = Fetched(p)
        BY <1>2, <1>4, AssignedStay
    <2>3. ASSUME NEW q \in Prober, mode[q] \in Connected PROVE Serves(q)'
        <3>1. CASE Within
            BY <1>4, <2>1, <2>2, <2>3, <3>1, ServesWithin
        <3>2. CASE Tick
            BY <2>1, <2>2, <2>3, <3>2, ServesTick
        <3>3. QED
            BY <1>2, <3>1, <3>2 DEF Calmly
    <2>4. ASSUME NEW c \in Check
          PROVE  Heeded(c)' \/ Preferred[c] \in silent' \/ Unwatched(c, Decided)'
        <3>0. Preferred[c] \in Prober
            BY OwnershipAssumption
        <3>1. CASE Heeded(c)
            BY <1>3, <2>2, <3>1 DEF Heeded
        <3>2. CASE Preferred[c] \in silent
            BY <2>2, <3>0, <3>2
        <3>3. CASE ~Heeded(c) /\ Preferred[c] \notin silent
            <4>1. Unwatched(c, Decided)
                BY <2>1, <3>3
            <4>2. \A q \in Prober : mode[q] = "well" => q \notin Assigned(c)
                BY <3>3 DEF Heeded
            <4>3. Known /\ calm >= Seen
                BY <1>0, <1>4 DEF Sorted
            <4>4. Preferred[c] \in silent' \/ Unwatched(c, Decided)'
                BY <1>0, <1>2, <1>4, <3>3, <4>1, <4>2, <4>3, UnwatchedStays
            <4>5. QED
                BY <4>4
        <3>4. QED
            BY <3>1, <3>2, <3>3
    <2>5. QED
        BY <1>3, <2>3, <2>4
<1>5. CASE calm < Decided
    <2>1. calm' = Decided /\ Tick
        BY <1>0, <1>3, <1>5
    <2>2. ASSUME NEW q \in Prober, mode[q] \in Connected PROVE Serves(q)'
        BY <1>0, <1>5, <2>1, <2>2, ServesTick
    <2>3. admitted' = {}
        BY <2>1 DEF Tick
    <2>4. \A c \in Check : Unwatched(c, Decided)'
        BY <1>0, <2>1, <2>3 DEF Unwatched
    <2>5. QED
        BY <1>3, <2>2, <2>4
<1>6. QED
    BY <1>0, <1>4, <1>5

LEMMA OrderHolds == Spec /\ Paced => [](Sorted /\ Orderly)
<1> SUFFICES ASSUME Paced PROVE Spec => [](Sorted /\ Orderly)
    OBVIOUS
<1>1. Init => Sorted /\ Orderly
    <2> SUFFICES ASSUME Init PROVE Sorted /\ Orderly
        OBVIOUS
    <2>1. calm = 0 /\ ~(calm >= Seen) /\ ~(calm >= Decided)
        BY DecidedIs DEF Init
    <2>2. QED
        BY <2>1, TypesInit, OrdinaryInit, SeenInit DEF Sorted, Known, WellPlaced, OthersOut, Orderly
<1>2. Sorted /\ [Next]_vars => Sorted'
    BY TypesStep, OrdinaryStep, SeenStep, PlacedStep, OutStep DEF Sorted, Known
<1>3. (Sorted /\ Orderly) /\ [Next]_vars => (Sorted /\ Orderly)'
    BY <1>2, OrderlyStep
<1>4. QED
    BY <1>1, <1>3, PTL DEF Spec

\* A check has one assignee at most, and one that is available if there is any.
LEMMA Assignees ==
    ASSUME Paced, Sorted, calm >= Decided, NEW c \in Check
    PROVE  /\ Assigned(c) = {} \/ \E q \in Prober : Assigned(c) = {q}
           /\ Prober \ Unavailable # {} => \E q \in Prober \ Unavailable : Assigned(c) = {q}
<1>1. Preferred[c] \in Prober /\ ~HasChance(Preferred[c])
    BY NobodyHasAChance, OwnershipAssumption
<1>2. Prober \ Unavailable # {} => Heaviest(c, Prober \ Unavailable) \in Prober \ Unavailable
    <2> DEFINE others == Prober \ Unavailable
    <2>1. others \in SUBSET Prober
        OBVIOUS
    <2> HIDE DEF others
    <2>2. others # {} => Heaviest(c, others) \in others
        BY <2>1, HeaviestIsThere
    <2>3. QED
        BY <2>2 DEF others
<1>3. QED
    BY <1>1, <1>2 DEF Assigned

\* OneRunner of the module: each check is run by one prober (assign.go:13), when
\* the calm also lets the chances run out, and the last fetch follow.
THEOREM EachCheckHasOneRunner ==
    ASSUME Paced, Calm >= MeshMaxAge + StaleAfter + 6
    PROVE  Spec => []OneRunner
<1>1. Sorted /\ Orderly => OneRunner
    <2> SUFFICES ASSUME Sorted, Orderly, calm = Calm, NEW c \in Check
                 PROVE  Cardinality({p \in Prober : mode[p] \in Connected /\ c \in running[p]}) <= 1
        BY DEF OneRunner, Settled
    <2> DEFINE runners == {p \in Prober : mode[p] \in Connected /\ c \in running[p]}
    <2>1. calm > Decided /\ calm >= Decided
        BY DecidedIs, Limits DEF Decided
    <2>2. runners \subseteq Assigned(c)
        BY <2>1 DEF Orderly, Serves, Fetched
    <2>3. Assigned(c) = {} \/ \E q \in Prober : Assigned(c) = {q}
        BY <2>1, Assignees
    <2>4. runners = {} \/ \E q \in Prober : runners = {q}
        BY <2>2, <2>3
    <2> HIDE DEF runners
    <2>5. Cardinality(runners) <= 1
        BY <2>4, FS_EmptySet, FS_Singleton
    <2>6. QED
        BY <2>5 DEF runners
<1>2. QED
    BY <1>1, OrderHolds, PTL

\* ChecksAreWatched of the module: every check has a recent verdict as long as
\* one prober can work (assign.go:56), if each prober is the owner of some check:
\* nobody would declare the others silent.
THEOREM EveryCheckIsWatched ==
    ASSUME Paced, Calm >= MeshMaxAge + StaleAfter + 6,
           \A p \in Prober : \E c \in Check : Preferred[c] = p
    PROVE  Spec => []ChecksAreWatched
<1>1. Sorted /\ Orderly => ChecksAreWatched
    <2> SUFFICES ASSUME Sorted, Orderly, calm = Calm, NEW p \in Prober, mode[p] = "well", ~Spent(p),
                        NEW c \in Check
                 PROVE  quietFor[c] <= StaleAfter
        BY DEF ChecksAreWatched, Settled
    <2>1. calm > Decided /\ calm >= Decided /\ calm >= Seen + 6 /\ quietFor[c] \in Nat
          /\ StaleAfter \in Nat /\ StaleAfter >= 2
        BY DecidedIs, Limits DEF Decided, Seen, Sorted, Known, TypeOK
    <2>2. Isolated = {q \in Prober : mode[q] = "cut"}
        BY <2>1, IsolatedNow
    <2>3. p \in Prober \ Unavailable
        <3>1. Kept(p)
            BY <2>1, KeptOrLost DEF Sorted, Lost
        <3>2. QED
            BY <2>2, <3>1 DEF Kept, Unavailable
    <2>4. PICK q \in Prober \ Unavailable : Assigned(c) = {q}
        BY <2>1, <2>3, Assignees
    <2>5. mode[q] = "well"
        <3>1. PICK d \in Check : Preferred[d] = q
            OBVIOUS
        <3>2. mode[q] \in Connected
            BY <2>1, <2>4, <3>1, TheGoneAreSilent DEF Unavailable
        <3>3. QED
            BY <2>2, <2>4, <3>2 DEF Unavailable, Connected
    <2>6. c \in Fetched(q) /\ Serves(q)
        BY <2>1, <2>4, <2>5 DEF Orderly, Fetched, Connected
    <2>7. quietFor[c] <= 1
        BY <2>1, <2>5, <2>6 DEF Serves
    <2>8. QED
        BY <2>1, <2>7
<1>2. QED
    BY <1>1, OrderHolds, PTL

\* NoOscillation of the module: no prober is declared silent any more
\* (coordinator.go:270-274), when the calm also leaves the watchdog the time to
\* find what nobody runs.
THEOREM SilenceSettles ==
    ASSUME Paced, Calm >= MeshMaxAge + 2 * StaleAfter + 7
    PROVE  Spec => NoOscillation
<1>1. Sorted /\ Orderly /\ [Next]_vars => [Settled => silent' \subseteq silent]_vars
    <2> SUFFICES ASSUME Sorted, Orderly, [Next]_vars, calm = Calm,
                        NEW p \in silent', p \notin silent
                 PROVE  FALSE
        BY DEF Settled
    <2>1. calm > Decided /\ calm >= Decided /\ calm >= Decided + StaleAfter + 2
        BY DecidedIs, Limits DEF Decided
    <2>2. p \in Blamed
        BY DEF Next, vars, FetchAssignments, ReportMesh, Fault, Submit, Process, WatchdogLooks,
               WatchdogActs, Tick
    <2>3. PICK c \in found : Preferred[c] = p
        BY <2>2 DEF Blamed
    <2>4. c \in Check
        BY DEF Sorted, Known, TypeOK
    <2>5. ~Heeded(c)
        <3> SUFFICES ASSUME Heeded(c) PROVE FALSE
            OBVIOUS
        <3>1. PICK q \in Assigned(c) : mode[q] = "well"
            BY DEF Heeded
        <3>2. q \in Prober
            BY <2>1, <2>4, <3>1, Assignees
        <3>3. c \in Fetched(q) /\ Serves(q)
            BY <2>1, <2>4, <3>1, <3>2 DEF Orderly, Fetched, Connected
        <3>4. QED
            BY <2>1, <2>3, <3>1, <3>3 DEF Serves
    <2>6. ~Unwatched(c, Decided)
        BY <2>1, DecidedIs DEF Unwatched, Sorted, Known, TypeOK
    <2>7. QED
        BY <2>1, <2>3, <2>4, <2>5, <2>6 DEF Orderly
<1>2. QED
    BY <1>1, OrderHolds, PTL DEF Spec, NoOscillation
=============================================================================
