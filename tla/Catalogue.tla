----------------------------- MODULE Catalogue -----------------------------
(***************************************************************************)
(* The monitors, their revisions and the state file (catalog.go with the   *)
(* snapshots of persist.go).  One change runs at a time, under catalogMu,  *)
(* but its steps lie open to the handlers and goroutines that persist the  *)
(* state for reasons of their own, and to a crash.                         *)
(***************************************************************************)
EXTENDS Naturals, Sequences, FiniteSets, SequencesExt

CONSTANTS
    Name,          \* names of monitors
    Definition,    \* what a monitor may say, besides being enabled
    Required,      \* names that components roll up
    MaxRevisions,  \* maxMonitorRevisions
    MaxId,         \* bound: revisions
    MaxCrashes     \* bound: crashes

CatalogueAssumption ==
    /\ Required \subseteq Name
    /\ MaxRevisions \in Nat \ {0} /\ MaxId \in Nat \ {0} /\ MaxCrashes \in Nat

Monitor == [is : Definition, enabled : BOOLEAN]
Catalogues == UNION {[S -> Monitor] : S \in SUBSET Name}

\* validateMonitorCatalog: as far as monitors depend on one another, the
\* monitors of the components are there and enabled.
Valid(catalogue) ==
    \A n \in Required : n \in DOMAIN catalogue /\ catalogue[n].enabled

VARIABLES
    monitors,    \* c.monitors, and c.checks with it
    revisions,   \* c.monitorRevisions, the oldest first: [id, catalogue]
    nextRevision,\* c.nextMonitorRevision: the last id given
    change,      \* the change under way, or NoChange
    stored,      \* the state file
    crashes,
    answered,    \* history: the catalogue of each revision answered with success
    torn         \* history: a snapshot was taken in the middle of a change

vars == <<monitors, revisions, nextRevision, change, stored, crashes, answered, torn>>

NoChange == [step |-> "none"]
Snapshot == [monitors |-> monitors, revisions |-> revisions, next |-> nextRevision]
Revisions == [id : 1 .. MaxId, catalogue : Catalogues]

TypeOK ==
    /\ monitors \in Catalogues
    /\ Len(revisions) \in 1 .. MaxRevisions
    /\ \A i \in 1 .. Len(revisions) :
          revisions[i] \in Revisions /\ Valid(revisions[i].catalogue)
    /\ \A i \in 1 .. Len(revisions) - 1 : revisions[i].id < revisions[i + 1].id
    /\ nextRevision = Last(revisions).id
    /\ change.step \in {"none", "replaced", "recorded", "undoing"}
    /\ crashes \in 0 .. MaxCrashes /\ torn \in BOOLEAN

\* New: the configured monitors are the baseline revision, and not yet stored.
Init ==
    /\ monitors \in {c \in Catalogues : Valid(c) /\ Cardinality(DOMAIN c) = 1}
    /\ revisions = <<[id |-> 1, catalogue |-> monitors]>> /\ nextRevision = 1
    /\ change = NoChange /\ stored = Snapshot
    /\ crashes = 0 /\ answered = [i \in {} |-> monitors] /\ torn = FALSE
-----------------------------------------------------------------------------
Put(n, m) == [k \in DOMAIN monitors \cup {n} |-> IF k = n THEN m ELSE monitors[k]]
Without(n) == [k \in DOMAIN monitors \ {n} |-> monitors[k]]

\* What the handlers ask for: handleCreateMonitor, handleUpdateMonitor,
\* handleDeleteMonitor, handleRollbackMonitors.
Created == {Put(n, m) : n \in Name \ DOMAIN monitors, m \in Monitor}
Updated == {Put(n, m) : n \in DOMAIN monitors, m \in Monitor}
Deleted == {Without(n) : n \in DOMAIN monitors}
RolledBack == {revisions[i].catalogue : i \in 1 .. Len(revisions)}

\* mutateMonitors: the catalogue is replaced first, by one that is valid.
Replace ==
    /\ change = NoChange /\ nextRevision < MaxId
    /\ \E wanted \in Created \cup Updated \cup Deleted \cup RolledBack :
          /\ Valid(wanted)
          /\ monitors' = wanted
          /\ change' = [step |-> "replaced", old |-> Snapshot]
    /\ UNCHANGED <<revisions, nextRevision, stored, crashes, answered, torn>>

Trimmed(log) == IF Len(log) > MaxRevisions THEN Tail(log) ELSE log

Record ==
    /\ change.step = "replaced"
    /\ nextRevision' = nextRevision + 1
    /\ revisions' = Trimmed(Append(revisions, [id |-> nextRevision + 1, catalogue |-> monitors]))
    /\ change' = [change EXCEPT !.step = "recorded"]
    /\ UNCHANGED <<monitors, stored, crashes, answered, torn>>

Save ==
    /\ change.step = "recorded"
    /\ stored' = Snapshot /\ change' = NoChange
    /\ answered' = [i \in DOMAIN answered \cup {nextRevision} |->
                       IF i = nextRevision THEN monitors ELSE answered[i]]
    /\ UNCHANGED <<monitors, revisions, nextRevision, crashes, torn>>

\* The write fails: first the catalogue is put back, then the revisions.
Undo ==
    /\ change.step = "recorded"
    /\ monitors' = change.old.monitors
    /\ change' = [change EXCEPT !.step = "undoing"]
    /\ UNCHANGED <<revisions, nextRevision, stored, crashes, answered, torn>>

\* Mutant: the revision of a failed change stays.
UndoNumber ==
    /\ change.step = "undoing"
    /\ nextRevision' = change.old.next /\ change' = NoChange
    /\ UNCHANGED <<monitors, revisions, stored, crashes, answered, torn>>

UndoRevisions ==
    /\ change.step = "undoing"
    /\ revisions' = change.old.revisions /\ nextRevision' = change.old.next
    /\ change' = NoChange
    /\ UNCHANGED <<monitors, stored, crashes, answered, torn>>

\* Any other persistState: of a result, an incident, a session.
PersistOther ==
    /\ stored' = Snapshot
    /\ torn' = (torn \/ change # NoChange)
    /\ UNCHANGED <<monitors, revisions, nextRevision, change, crashes, answered>>

\* A crash, and the restart from the file.
Restart ==
    /\ crashes < MaxCrashes /\ crashes' = crashes + 1
    /\ monitors' = stored.monitors /\ revisions' = stored.revisions
    /\ nextRevision' = stored.next /\ change' = NoChange
    /\ UNCHANGED <<stored, answered, torn>>

Next == Replace \/ Record \/ Save \/ Undo \/ UndoRevisions \/ PersistOther \/ Restart

Spec == Init /\ [][Next]_vars
-----------------------------------------------------------------------------
Newest(log) == Last(log).catalogue

\* A change that was answered with success stays: its revision is in memory
\* and in the file with the catalogue it was answered for, until enough newer
\* ones have pushed it out (mutateMonitors persists before it answers, and
\* undoes no more than its own).  Between changes the monitors in force are
\* those of the newest revision: a failed change is undone whole, and a restart
\* brings back both or neither, as long as nobody persisted the state in the
\* middle of a change.
AnsweredIsKept ==
    /\ \A id \in DOMAIN answered, log \in {revisions, stored.revisions} :
          \/ \E i \in 1 .. Len(log) : log[i] = [id |-> id, catalogue |-> answered[id]]
          \/ Len(log) = MaxRevisions /\ id < Head(log).id
    /\ change = NoChange /\ ~torn =>
          monitors = Newest(revisions) /\ stored.monitors = Newest(stored.revisions)

\* docs/architecture.md: changes are versioned and audited.  Between changes,
\* the monitors in force are those of the newest revision.
ChangesAreAudited == change = NoChange => monitors = Newest(revisions)
=============================================================================
