------------------------------ MODULE History ------------------------------
(***************************************************************************)
(* The observations that a coordinator keeps of one check: the newest in   *)
(* memory, and all in a journal that is compacted now and then             *)
(* (history.go).  Both change under historyMu.  An append may fail and     *)
(* leave part of a line, which the next append continues; a crash loses    *)
(* the memory.                                                             *)
(***************************************************************************)
EXTENDS Integers, Sequences, FiniteSets, SequencesExt

CONSTANTS
    Retention,     \* historyRetention
    MaxPerCheck,   \* historyMaxPerCheck
    CompactEvery,  \* historyCompactEvery
    MaxTime, MaxObs, Faults  \* bounds: clock, observations, failures and crashes

HistoryAssumption ==
    /\ MaxPerCheck \in Nat \ {0} /\ CompactEvery \in Nat \ {0} /\ Retention \in Nat
    /\ MaxTime \in Nat /\ MaxObs \in Nat /\ Faults \in Nat

VARIABLES
    clock,
    received,    \* how many observations there were
    waiting,     \* those that have their ReceivedAt, before historyMu
    memory,      \* c.history of the check
    journal,     \* the lines of the history file
    torn,        \* its last line has no end
    appends,     \* historyAppends
    compacting,  \* that many were appended, and the journal is due
    failures,
    noted,       \* history: the observations recorded since the last start
    sure         \* history: the observations with a line of their own

vars == <<clock, received, waiting, memory, journal, torn, appends, compacting, failures, noted, sure>>

Observation == [id : 1 .. MaxObs, at : 0 .. MaxTime]
Garbage == [id |-> 0, at |-> 0]     \* a line that cannot be parsed

TypeOK ==
    /\ clock \in 0 .. MaxTime /\ received \in 0 .. MaxObs /\ failures \in 0 .. Faults
    /\ waiting \cup noted \cup sure \cup Range(memory) \subseteq Observation
    /\ Len(memory) <= MaxPerCheck
    /\ Range(journal) \subseteq Observation \cup {Garbage}
    /\ torn => journal # <<>> /\ Last(journal) = Garbage
    /\ compacting => appends >= CompactEvery

Init ==
    /\ clock = 0 /\ received = 0 /\ waiting = {} /\ memory = <<>> /\ journal = <<>> /\ torn = FALSE
    /\ appends = 0 /\ compacting = FALSE /\ failures = 0 /\ noted = {} /\ sure = {}

Fault == failures < Faults /\ failures' = failures + 1
Expired(o) == o.at < clock - Retention

\* What is left of items in their order: from the first that is not too old, and
\* no more than there is room for.
Fresh(items) ==
    SubSeq(items, 1 + Cardinality({i \in 1 .. Len(items) : Expired(items[i])}), Len(items))
Newest(items) ==
    SubSeq(items, 1 + (IF Len(items) > MaxPerCheck THEN Len(items) - MaxPerCheck ELSE 0), Len(items))
-----------------------------------------------------------------------------
\* recordObservation gives an observation its time before it waits for
\* historyMu: later ones may get there first.
Receive ==
    /\ received < MaxObs /\ received' = received + 1
    /\ waiting' = waiting \cup {[id |-> received', at |-> clock]}
    /\ UNCHANGED <<clock, memory, journal, torn, appends, compacting, failures, noted, sure>>

\* Mutant: the observation goes to the end, wherever it belongs.
InsertedLast(items, o) == Append(items, o)

\* appendHistoryLocked: behind those received no later.
Inserted(items, o) ==
    InsertAt(items, 1 + Cardinality({i \in 1 .. Len(items) : items[i].at <= o.at}), o)

\* The line continues a torn one.
WithLine(o) == IF torn THEN journal ELSE Append(journal, o)
WithPart == IF torn THEN journal ELSE Append(journal, Garbage)

Note(o) ==
    /\ o \in waiting /\ ~compacting
    /\ waiting' = waiting \ {o} /\ noted' = noted \cup {o}
    /\ memory' = Newest(Fresh(Inserted(memory, o)))
    /\ UNCHANGED <<clock, received>>

\* recordObservation: memory first, then the journal.
Record(o) ==
    /\ Note(o)
    /\ journal' = WithLine(o) /\ torn' = FALSE
    /\ sure' = IF torn THEN sure ELSE sure \cup {o}
    /\ appends' = appends + 1 /\ compacting' = (appends' >= CompactEvery)
    /\ UNCHANGED failures

\* appendObservations fails before, in or after the write of the line.
AppendFails(o) ==
    /\ Note(o) /\ Fault
    /\ \/ UNCHANGED <<journal, torn>>
       \/ journal' = WithPart /\ torn' = TRUE
       \/ journal' = WithLine(o) /\ torn' = FALSE
    /\ UNCHANGED <<appends, compacting, sure>>

\* compactHistoryLocked: the memory is written to a new file, which is renamed.
Compact ==
    /\ compacting /\ compacting' = FALSE
    /\ journal' = memory /\ torn' = FALSE /\ appends' = 0
    /\ sure' = sure \cup Range(memory)
    /\ UNCHANGED <<clock, received, waiting, memory, failures, noted>>

\* It fails before the rename or after it, and is tried again after the next
\* append that succeeds.
CompactFails ==
    /\ compacting /\ compacting' = FALSE /\ Fault
    /\ UNCHANGED <<journal, torn>> \/ (journal' = memory /\ torn' = FALSE)
    /\ UNCHANGED <<clock, received, waiting, memory, appends, noted, sure>>

\* The lines of a set in the order of receipt, those received at once as written.
Before(lines, i, j) == lines[i].at < lines[j].at \/ (lines[i].at = lines[j].at /\ i < j)
Place(lines, S, i) == 1 + Cardinality({j \in S : Before(lines, j, i)})
InOrder(lines, S) ==
    [k \in 1 .. Cardinality(S) |-> lines[CHOOSE i \in S : Place(lines, S, i) = k]]

\* The lines that can be parsed and are not too old.
Kept(lines) == {i \in DOMAIN lines : lines[i] # Garbage /\ ~Expired(lines[i])}

\* loadHistory
Loaded(lines) == Newest(InOrder(lines, Kept(lines)))

\* A crash and a restart; the journal is compacted if anything was dropped.
Restart ==
    /\ Fault
    /\ waiting' = {} /\ noted' = {} /\ memory' = Loaded(journal)
    /\ IF Len(memory') < Len(journal)
       THEN journal' = memory' /\ torn' = FALSE
       ELSE UNCHANGED <<journal, torn>>
    /\ appends' = 0 /\ compacting' = FALSE
    /\ UNCHANGED <<clock, received, sure>>

Tick ==
    /\ clock < MaxTime /\ clock' = clock + 1
    /\ UNCHANGED <<received, waiting, memory, journal, torn, appends, compacting, failures, noted, sure>>

Next ==
    \/ Receive \/ Compact \/ CompactFails \/ Restart \/ Tick
    \/ \E o \in waiting : Record(o) \/ AppendFails(o)

Spec == Init /\ [][Next]_vars
-----------------------------------------------------------------------------
\* An observation is missing only if it is too old, or as many received no
\* earlier fill the room there is.
Holds(items, o) ==
    \/ o \in Range(items)
    \/ Expired(o)
    \/ Len(items) = MaxPerCheck /\ \A i \in Range(items) : i.at >= o.at

\* Whatever order observations come in, and whatever appends and compactions
\* fail: the memory holds the newest since the last start and the newest of
\* those with a line of their own, in the order of their receipt, and a
\* restart would find the latter in the journal (recordObservation,
\* loadHistory).
NewestKept ==
    /\ \A o \in noted \cup sure : Holds(memory, o)
    /\ \A o \in sure : Holds(Loaded(journal), o)
    /\ \A i \in 1 .. Len(memory) - 1 : memory[i].at <= memory[i + 1].at
=============================================================================
