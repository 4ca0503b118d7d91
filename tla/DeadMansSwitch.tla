-------------------------- MODULE DeadMansSwitch --------------------------
(***************************************************************************)
(* The coordinator's heartbeat (runHeartbeat, beat, beatFailed and         *)
(* beatSucceeded of watchdog.go) and the watcher outside the fleet that    *)
(* misses it (internal/watch and cmd/parallaxd-watch).                     *)
(*                                                                         *)
(* Time passes in ticks.  The two processes keep their timers: a beat that *)
(* is due is sent, a request that has run out of time has failed and the   *)
(* watcher looks at its clock before time goes on.  The network may delay  *)
(* a beat for any time, lose it, or deliver it again.  Times are kept      *)
(* relative to now, and those too old to be told apart are made equal.     *)
(***************************************************************************)
EXTENDS Integers, FiniteSets, TLC

CONSTANTS
    Every,          \* Heartbeat.Interval
    Timeout,        \* Heartbeat.timeout(): well inside the interval
    Grace,          \* Watcher.Grace
    LookEvery,      \* the interval of watchLoop
    Skew,           \* maxClockSkew
    Offsets,        \* bound: how far ahead the coordinator's clock may be
    InFlight        \* bound: beats in the network

SwitchAssumption ==
    /\ Timeout \in Nat /\ Every \in Nat /\ Timeout < Every
    /\ Grace \in Nat /\ Grace >= Every + Timeout   \* "a small multiple"
    /\ LookEvery \in Nat \ {0}
    /\ Skew \in Nat /\ Offsets \subseteq 0 .. Skew
    /\ InFlight \in Nat \ {0}

E == INSTANCE Envelopes WITH DocumentLife <- 0
Ring == "coordinator" :> "key"

UnwatchedAfter == 3
Far == Grace + Skew + 1                  \* older than any beat that counts
NoticedWithin == 2 * Grace + Skew + LookEvery
CalmFor == Every + Timeout + Skew + 1

VARIABLES
    mode,        \* the coordinator: "up", "wedged" (it cannot read its state) or "down"
    offset,      \* how far its clock is ahead
    sinceBeat,   \* ticks since the timer of runHeartbeat fired
    asking,      \* ticks the POST of a beat has been waiting, or Idle
    answer,      \* the status on its way back: "none", "accepted", "rejected"
    failures,    \* beatFailures, up to one more than UnwatchedAfter
    unwatched,   \* KindUnwatched was the last of its two alerts
    beats,       \* the beats in the network: [at, waited]
    lastAt,      \* last.At, or NoBeat without haveOne
    silence,     \* ticks since receivedAt, or since the watcher started
    alive,       \* what the watcher last alerted on
    sinceLook,   \* ticks since watchLoop looked
    mute,        \* history: ticks since the coordinator last signed a beat
    calm         \* history: ticks since anything went wrong

vars == <<mode, offset, sinceBeat, asking, answer, failures, unwatched, beats,
          lastAt, silence, alive, sinceLook, mute, calm>>
coordinator == <<mode, offset, sinceBeat, asking, answer, failures, unwatched>>
watcher == <<lastAt, silence, alive, sinceLook>>

Idle == -1
NoBeat == -Far - 1

TypeOK ==
    /\ mode \in {"up", "wedged", "down"} /\ offset \in Offsets
    /\ sinceBeat \in 0 .. Every /\ asking \in Idle .. Timeout
    /\ answer \in {"none", "accepted", "rejected"}
    /\ failures \in 0 .. UnwatchedAfter + 1 /\ unwatched \in BOOLEAN
    /\ beats \subseteq [at : -Far .. Skew, waited : BOOLEAN]
    /\ lastAt \in NoBeat .. Skew /\ silence \in 0 .. Grace + 1
    /\ alive \in BOOLEAN /\ sinceLook \in 0 .. LookEvery
    /\ mute \in 0 .. NoticedWithin + 1 /\ calm \in 0 .. CalmFor

\* New: both come up, and the watcher counts from its own start.
Init ==
    /\ mode = "up" /\ offset \in Offsets /\ sinceBeat = Every /\ asking = Idle
    /\ answer = "none" /\ failures = 0 /\ unwatched = FALSE /\ beats = {}
    /\ lastAt = NoBeat /\ silence = 0 /\ alive = TRUE /\ sinceLook = 0
    /\ mute = 0 /\ calm = 0

UpTo(n, limit) == IF n < limit THEN n + 1 ELSE limit
Older(at) == IF at > -Far THEN at - 1 ELSE at
Disturbed == calm' = 0

\* Every timer that is due has been served.
Tick ==
    /\ ~(mode # "down" /\ asking = Idle /\ sinceBeat = Every)
    /\ asking # Timeout /\ answer = "none" /\ sinceLook < LookEvery
    /\ sinceBeat' = UpTo(sinceBeat, Every)
    /\ asking' = IF asking = Idle THEN Idle ELSE asking + 1
    /\ beats' = {[b EXCEPT !.at = Older(@)] : b \in beats}
    /\ lastAt' = IF lastAt = NoBeat THEN NoBeat ELSE Older(lastAt)
    /\ silence' = UpTo(silence, Grace + 1)
    /\ sinceLook' = sinceLook + 1
    /\ mute' = UpTo(mute, NoticedWithin + 1)
    /\ calm' = IF mode = "up" THEN UpTo(calm, CalmFor) ELSE 0
    /\ UNCHANGED <<mode, offset, answer, failures, unwatched, alive>>

\* beat: the export is read first, so that a coordinator that cannot do its
\* job skips the beat, and counts no failure.
Beat ==
    /\ mode = "up" /\ asking = Idle /\ sinceBeat = Every
    /\ Cardinality(beats) < InFlight
    /\ beats' = beats \cup {[at |-> offset, waited |-> TRUE]}
    /\ asking' = 0 /\ sinceBeat' = 0 /\ mute' = 0
    /\ UNCHANGED <<mode, offset, answer, failures, unwatched, watcher, calm>>

SkipBeat ==
    /\ mode = "wedged" /\ asking = Idle /\ sinceBeat = Every
    /\ sinceBeat' = 0
    /\ UNCHANGED <<mode, offset, asking, answer, failures, unwatched, beats, watcher, mute, calm>>

\* beatFailed: the alert goes out with the third failure in a row, and with
\* no other.
beatFailed ==
    /\ failures' = UpTo(failures, UnwatchedAfter + 1)
    /\ unwatched' = (unwatched \/ failures + 1 = UnwatchedAfter)

\* Mutant: a success forgives one failure.
beatSucceededOnce ==
    /\ failures' = failures - 1
    /\ unwatched' = (unwatched /\ ~(failures >= UnwatchedAfter))

\* Mutant: the threshold is one higher on the way back.
beatSucceededLate ==
    /\ failures' = 0
    /\ unwatched' = (unwatched /\ ~(failures > UnwatchedAfter))

\* beatSucceeded: KindWatched only after KindUnwatched.
beatSucceeded ==
    /\ failures' = 0
    /\ unwatched' = (unwatched /\ ~(failures >= UnwatchedAfter))

Answered ==
    /\ asking # Idle /\ answer # "none"
    /\ IF answer = "accepted" THEN beatSucceeded ELSE beatFailed
    /\ asking' = Idle /\ answer' = "none"
    /\ calm' = IF answer = "accepted" THEN calm ELSE 0
    /\ UNCHANGED <<mode, offset, sinceBeat, beats, watcher, mute>>

\* The request's context is done, or the connection fails.  The beat may be on
\* its way, or have arrived and its answer be lost.
TimedOut ==
    /\ asking # Idle
    /\ beatFailed
    /\ asking' = Idle /\ answer' = "none"
    /\ beats' = {[b EXCEPT !.waited = FALSE] : b \in beats}
    /\ Disturbed
    /\ UNCHANGED <<mode, offset, sinceBeat, watcher, mute>>

\* Record: what is not newer than the last is an older view, and changes nothing.
Record(at) ==
    IF lastAt # NoBeat /\ ~(at > lastAt)
    THEN UNCHANGED <<lastAt, silence, alive>>
    ELSE lastAt' = at /\ silence' = 0 /\ alive' = TRUE

\* The heartbeat handler.  `again`: a copy stays behind in the network.
Arrives(b, again) ==
    LET envelope == E!Seal("key", "heartbeat", "coordinator",
                           [prober |-> "coordinator", at |-> b.at])
        accepted == E!OpenHeartbeat(Ring, envelope, 0, Grace)
    IN /\ IF accepted THEN Record(b.at) ELSE UNCHANGED <<lastAt, silence, alive>>
       /\ answer' = IF ~b.waited THEN answer
                    ELSE IF accepted THEN "accepted" ELSE "rejected"
       /\ beats' = (beats \ {b}) \cup (IF again THEN {[b EXCEPT !.waited = FALSE]} ELSE {})
       /\ UNCHANGED <<mode, offset, sinceBeat, asking, failures, unwatched, sinceLook, mute, calm>>

Lost(b) ==
    /\ beats' = beats \ {b}
    /\ Disturbed
    /\ UNCHANGED <<coordinator, watcher, mute>>

\* watchLoop and Check: one alert for each death.
Look ==
    /\ sinceLook = LookEvery
    /\ alive' = (alive /\ silence <= Grace)
    /\ sinceLook' = 0
    /\ UNCHANGED <<coordinator, beats, lastAt, silence, mute, calm>>

\* The coordinator's process: it crashes, wedges, recovers or starts again,
\* with its failures forgotten and its first beat due.
CoordinatorTurns(m) ==
    /\ m # mode
    /\ mode' = m
    /\ IF "down" \in {m, mode}
       THEN /\ asking' = Idle /\ answer' = "none" /\ failures' = 0 /\ unwatched' = FALSE
            /\ sinceBeat' = Every
            /\ beats' = {[b EXCEPT !.waited = FALSE] : b \in beats}
       ELSE UNCHANGED <<asking, answer, failures, unwatched, sinceBeat, beats>>
    /\ Disturbed
    /\ UNCHANGED <<offset, watcher, mute>>

\* The coordinator's clock is set.
ClockSet(o) ==
    /\ o # offset /\ offset' = o
    /\ Disturbed
    /\ UNCHANGED <<mode, sinceBeat, asking, answer, failures, unwatched, beats, watcher, mute>>

\* The watcher keeps nothing on disk: it starts with the benefit of the doubt.
WatcherRestarts ==
    /\ lastAt' = NoBeat /\ silence' = 0 /\ alive' = TRUE /\ sinceLook' = 0
    /\ mute' = 0 /\ Disturbed
    /\ UNCHANGED <<coordinator, beats>>

Next ==
    \/ Tick \/ Beat \/ SkipBeat \/ Answered \/ TimedOut \/ Look \/ WatcherRestarts
    \/ \E b \in beats, again \in BOOLEAN : Arrives(b, again)
    \/ \E b \in beats : Lost(b)
    \/ \E m \in {"up", "wedged", "down"} : CoordinatorTurns(m)
    \/ \E o \in Offsets : ClockSet(o)

Spec == Init /\ [][Next]_vars
-----------------------------------------------------------------------------
\* A coordinator that no longer signs beats, because it is down or cannot read
\* its own state, is declared dead within two grace periods, the skew and one
\* look of the watcher, however late, often or out of order the network
\* delivers what it signed before (OpenHeartbeat's maxAge, Record, Check).
DeathIsNoticed == alive => mute <= NoticedWithin

\* Once nothing has gone wrong for a beat, its answer and the skew, both ends
\* agree that all is well: the watcher holds the coordinator alive, and the coordinator
\* has taken back that nobody watches it (beatSucceeded at its threshold).
CalmIsAlive ==
    calm = CalmFor => alive /\ ~unwatched
=============================================================================
