------------------------------- MODULE Uptime -------------------------------
(***************************************************************************)
(* Maintenance windows (operations.go) and the uptime reported of a        *)
(* subject (uptime.go).  A window tells twice when it is open: Active      *)
(* decides whether an alert is suppressed now, Occurrences how much of an  *)
(* outage is no downtime.  Time is in whole units: t stands for [t, t+1).  *)
(***************************************************************************)
EXTENDS Naturals, Sequences, SequencesExt, FiniteSets, FiniteSetsExt

CONSTANTS
    Name,         \* names of windows
    Configured,   \* those named in the configuration file
    Period,       \* periods after which a window may recur, 0 if it does not
    MaxTime,      \* bound: the clock
    MaxIncidents, \* bound: outages
    MaxEdits      \* bound: windows put

UptimeAssumption ==
    /\ Configured \subseteq Name /\ IsFiniteSet(Name)
    /\ Period \subseteq Nat /\ MaxTime \in Nat /\ MaxIncidents \in Nat /\ MaxEdits \in Nat

Time == 0 .. MaxTime

\* Maintenance.Validate
Window ==
    {w \in [starts : Time, ends : Time, every : Period] :
        /\ w.ends > w.starts
        /\ w.every # 0 => w.ends - w.starts < w.every}

VARIABLES
    now,
    configured,   \* the windows of the configuration, by name
    managed,      \* the windows operators made, by name
    incidents,    \* the outages of the subject: opened and resolved, Open if not
    edits

vars == <<now, configured, managed, incidents, edits>>

Open == MaxTime + 1    \* later than any time: not resolved

TypeOK ==
    /\ now \in Time /\ configured \in [Configured -> Window]
    /\ \E names \in SUBSET (Name \ Configured) : managed \in [names -> Window]
    /\ \A i \in DOMAIN incidents :
          /\ incidents[i].opened \in Time /\ incidents[i].resolved \in Time \cup {Open}
          /\ incidents[i].resolved = Open => i = Len(incidents)
    /\ edits \in 0 .. MaxEdits

Init ==
    /\ now = 0 /\ configured \in [Configured -> Window]
    /\ managed = <<>> /\ incidents = <<>> /\ edits = 0

Overwritten(f, name, window) ==
    [n \in DOMAIN f \cup {name} |-> IF n = name THEN window ELSE f[n]]
-----------------------------------------------------------------------------
\* PutMaintenance creates or replaces a managed window.
PutMaintenance(name, window) ==
    /\ name \notin Configured
    /\ edits < MaxEdits /\ edits' = edits + 1
    /\ managed' = Overwritten(managed, name, window)
    /\ UNCHANGED <<now, configured, incidents>>

DeleteMaintenance(name) ==
    /\ name \in DOMAIN managed
    /\ managed' = [n \in DOMAIN managed \ {name} |-> managed[n]]
    /\ UNCHANGED <<now, configured, incidents, edits>>

IsDown == incidents # <<>> /\ Last(incidents).resolved = Open

Down ==
    /\ ~IsDown /\ Len(incidents) < MaxIncidents
    /\ incidents' = Append(incidents, [opened |-> now, resolved |-> Open])
    /\ UNCHANGED <<now, configured, managed, edits>>

Recovered ==
    /\ IsDown
    /\ incidents' = [incidents EXCEPT ![Len(incidents)].resolved = now]
    /\ UNCHANGED <<now, configured, managed, edits>>

Tick ==
    /\ now < MaxTime /\ now' = now + 1
    /\ UNCHANGED <<configured, managed, incidents, edits>>

Next ==
    \/ \E name \in Name :
          (\E w \in Window : PutMaintenance(name, w)) \/ DeleteMaintenance(name)
    \/ Down \/ Recovered \/ Tick

Spec == Init /\ [][Next]_vars
-----------------------------------------------------------------------------
\* maintenanceLocked
Windows == {configured[n] : n \in Configured} \cup {managed[n] : n \in DOMAIN managed}

\* Maintenance.active: within the occurrence that a recurring window is in.
Active(w, t) ==
    /\ t >= w.starts
    /\ LET shift == IF w.every = 0 THEN 0 ELSE ((t - w.starts) \div w.every) * w.every
       IN  t - shift < w.ends

Clip(i, from, to) ==
    [from |-> IF i.from < from THEN from ELSE i.from, to |-> IF i.to > to THEN to ELSE i.to]
Lasts(i) == i.to > i.from

\* Mutant: a recurring window that opened before the outage is taken up only
\* at its next occurrence.
OccurrencesFromNext(w, span) ==
    LET start == IF span.from > w.starts
                 THEN w.starts + ((span.from - w.starts + w.every - 1) \div w.every) * w.every
                 ELSE w.starts
        once == [from |-> w.starts, to |-> w.ends]
        all == IF w.every = 0 THEN {once}
               ELSE {[from |-> s, to |-> s + w.ends - w.starts] :
                        s \in {t \in start .. span.to - 1 : (t - start) % w.every = 0}}
    IN  {i \in {Clip(o, span.from, span.to) : o \in all} : Lasts(i)}

\* occurrences: from the last start not after the outage's.
Occurrences(w, span) ==
    LET start == IF span.from > w.starts
                 THEN w.starts + ((span.from - w.starts) \div w.every) * w.every
                 ELSE w.starts
        once == [from |-> w.starts, to |-> w.ends]
        all == IF w.every = 0 THEN {once}
               ELSE {[from |-> s, to |-> s + w.ends - w.starts] :
                        s \in {t \in start .. span.to - 1 : (t - start) % w.every = 0}}
    IN  {i \in {Clip(o, span.from, span.to) : o \in all} : Lasts(i)}

\* totalDuration: in the order of their beginnings, overlapping time once.
TotalDuration(intervals) ==
    FoldLeft(LAMBDA sum, i :
                 LET rest == Clip(i, sum.end, Open)
                 IN  IF Lasts(rest)
                     THEN [total |-> sum.total + rest.to - rest.from, end |-> rest.to]
                     ELSE sum,
             [total |-> 0, end |-> 0],
             SetToSortSeq(intervals, LAMBDA a, b : a.from < b.from)).total

\* UptimeReport over [from, to), to at the latest now.
Outages(from, to) ==
    SelectSeq([k \in DOMAIN incidents |->
                  LET i == incidents[k]
                  IN  Clip([from |-> i.opened, to |-> IF i.resolved = Open THEN to ELSE i.resolved],
                           from, to)], Lasts)
Excluded(outage) == TotalDuration(UNION {Occurrences(w, outage) : w \in Windows})
MaintenanceSeconds(from, to) ==
    FoldLeft(LAMBDA sum, o : sum + Excluded(o), 0, Outages(from, to))
DowntimeSeconds(from, to) ==
    FoldLeft(LAMBDA sum, o : sum + (o.to - o.from) - Excluded(o), 0, Outages(from, to))
-----------------------------------------------------------------------------
\* "Outage time inside a maintenance window is excluded from downtime and
\* reported separately" (uptime.go): whatever windows overlap, recur, or were
\* opened before the outage, each instant of it counts once, as maintenance
\* when an alert would have been suppressed then, and as downtime otherwise.
CountedOnce ==
    \A from \in 0 .. now : \A to \in from + 1 .. now :
        LET out == {t \in from .. to - 1 :
                \E i \in DOMAIN incidents :
                    incidents[i].opened <= t /\ t < incidents[i].resolved}
            muted == {t \in out : \E w \in Windows : Active(w, t)}
        IN  /\ MaintenanceSeconds(from, to) = Cardinality(muted)
            /\ DowntimeSeconds(from, to) = Cardinality(out \ muted)
=============================================================================
