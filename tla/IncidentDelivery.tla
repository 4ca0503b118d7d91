-------------------------- MODULE IncidentDelivery --------------------------
(***************************************************************************)
(* What becomes of an alert: the incident it opens or closes, suppression  *)
(* by maintenance and silences (operations.go, lifecycle.go), delivery to  *)
(* the notification destinations, the durable outbox with its retries and  *)
(* escalations (delivery.go), and the state file behind them.              *)
(*                                                                         *)
(* Each alert is emitted by the goroutine that decided it, concurrently    *)
(* with the delivery loop, the watch loop and the operators' requests.     *)
(* deliveryMu serialises what touches the outbox and the escalations; a    *)
(* goroutine holds it through its network calls, one destination after     *)
(* the other.  Instants are left out: a window is open or not, and whether *)
(* a retry or an escalation is due is left to chance.                      *)
(***************************************************************************)
EXTENDS Naturals, Sequences, FiniteSets, SequencesExt

CONSTANTS
    Subject,          \* the checks that alert
    Destination,      \* the notification destinations
    Route,            \* Route[k]: deliveryTargets of an alert of kind k, in order
    Healthy,          \* destinations that do not refuse for ever
    Pager,            \* the destination of the escalation policy
    Statuses,         \* the statuses checks take here, among those of Severity
    Emitters,         \* how many goroutines may be emitting (resultSlots)
    MaxTransitions,   \* bound: transitions of status decided
    MaxCrashes,       \* bound: crashes
    MaxLostAcks,      \* bound: arrivals of one notification that count as failed
    PersistMayFail    \* whether writing the state file may fail

Opening == {"down", "warning"}
Closing == {"recovered", "warning-cleared"}
Kind == Opening \cup Closing

ASSUME IncidentDeliveryAssumption ==
    /\ IsFiniteSet(Subject)
    /\ Route \in [Kind -> Seq(Destination)]
    /\ \A k \in Kind : IsInjective(Route[k])    \* names are unique (SetDestinations)
    /\ Healthy \subseteq Destination
    /\ Pager \in Destination
    /\ Statuses \subseteq {"up", "warning", "down"}
    /\ Emitters \in Nat \ {0}
    /\ MaxTransitions \in Nat
    /\ MaxCrashes \in Nat
    /\ MaxLostAcks \in Nat
    /\ PersistMayFail \in BOOLEAN

VARIABLES
    status,      \* status[s]: entityState.status
    decided,     \* history: the transitions decided, each with its alert
    emitters,    \* the goroutines inside emit or releaseSuppressions
    quiet,       \* a maintenance window or a silence covers the subjects
    incidents,   \* the incidents, by id
    outbox,      \* the deliveries waiting, in the order of their ids
    escalated,   \* the incidents the policy has fired for
    round,       \* the round of processDeliveries that is under way
    disk,        \* the state file
    handed,      \* history: the alerts deliver took charge of, in order
    received,    \* received[d]: what has arrived at destination d
    crashes      \* how many times the coordinator has crashed

vars == <<status, decided, emitters, quiet, incidents, outbox, escalated,
          round, disk, handed, received, crashes>>

-----------------------------------------------------------------------------
(* alone: no earlier transition of the subject was still being emitted.    *)
Transition == [subject: Subject, kind: Kind, alone: BOOLEAN]
Transitions == 1..MaxTransitions

(* An incident refers to its alert by the number of the transition.        *)
Incident == [n: Transitions, active: BOOLEAN, acked: BOOLEAN,
             suppressed: BOOLEAN]

(* Why an alert is sent: it is news, it was suppressed until now, or its   *)
(* incident is escalated.                                                  *)
Note == {"news", "released", "escalation"}
Message == [n: Transitions, note: Note]
Delivery == [to: Destination, msg: Message, tried: BOOLEAN]

(* reading: about to look for a suppression; recording: about to change    *)
(* the incidents; saving: about to persist; waiting: for deliveryMu;       *)
(* sending: it holds deliveryMu and has the destinations `left` to go;     *)
(* finishing: about to persist once more.  It delivers `next` after `msg`. *)
Emitter == [msg: Message,
            stage: {"reading", "recording", "saving", "waiting", "sending",
                    "finishing"},
            hushed: BOOLEAN, left: Seq(Destination), next: Seq(Message)]

Idle == [stage |-> "idle"]
Round == {Idle} \cup
    [stage: {"next", "trying", "sent", "refused"}, items: Seq(Delivery),
     blocked: SUBSET Destination]

StateFile == [status: [Subject -> Statuses], incidents: Seq(Incident),
              outbox: Seq(Delivery), escalated: SUBSET Nat]

TypeOK ==
    /\ status \in [Subject -> Statuses]
    /\ decided \in Seq(Transition)
    /\ emitters \subseteq Emitter
    /\ quiet \in BOOLEAN
    /\ incidents \in Seq(Incident)
    /\ outbox \in Seq(Delivery)
    /\ escalated \subseteq DOMAIN incidents
    /\ round \in Round
    /\ disk \in StateFile
    /\ handed \in Seq(Message)
    /\ received \in [Destination -> Seq(Message)]
    /\ crashes \in 0..MaxCrashes

Snapshot == [status |-> status, incidents |-> incidents, outbox |-> outbox,
             escalated |-> escalated]

Init ==
    /\ "up" \in Statuses
    /\ status = [s \in Subject |-> "up"]
    /\ decided = <<>>
    /\ emitters = {}
    /\ quiet \in BOOLEAN
    /\ incidents = <<>>
    /\ outbox = <<>>
    /\ escalated = {}
    /\ round = Idle
    /\ disk = Snapshot
    /\ handed = <<>>
    /\ received = [d \in Destination |-> <<>>]
    /\ crashes = 0

-----------------------------------------------------------------------------
(* persist logs a failure to write and goes on.                            *)
Persist ==
    \/ disk' = Snapshot'
    \/ PersistMayFail /\ disk' = disk

(* Nobody holds deliveryMu.                                                *)
DeliveryMuFree ==
    /\ round = Idle
    /\ \A e \in emitters : e.stage # "sending"

Replace(e, f) == emitters' = (emitters \ {e}) \cup {f}
Leave(e)      == emitters' = emitters \ {e}

SubjectOf(incident) == decided[incident.n].subject
KindOf(msg)         == decided[msg.n].kind

(* Mutants are named for the slip they stand for, and come just before the *)
(* definition they mutate.                                                 *)
AlertForAnyEnd(from, to) == IF to = "up" THEN "up" ELSE to

(* apply, entityState: the alert that goes with a change of status.        *)
AlertFor(from, to) ==
    CASE to = "down"                        -> "down"
      [] from = "down"                      -> "recovered"
      [] to = "warning"                     -> "warning"
      [] from = "warning" /\ to = "up"      -> "warning-cleared"

(* A goroutine has decided a transition, and released the entity's mutex   *)
(* before it emits the alert.                                              *)
Decide(s) ==
    \E to \in Statuses \ {status[s]} :
        /\ Len(decided) < MaxTransitions
        /\ Cardinality({e \in emitters : e.msg.note = "news"}) < Emitters
        /\ status' = [status EXCEPT ![s] = to]
        /\ decided' = Append(decided,
               [subject |-> s, kind |-> AlertFor(status[s], to),
                alone |-> \A e \in emitters : e.msg.note = "news" => decided[e.msg.n].subject # s])
        /\ emitters' = emitters \cup
               {[msg |-> [n |-> Len(decided'), note |-> "news"],
                 stage |-> "reading", hushed |-> FALSE, left |-> <<>>,
                 next |-> <<>>]}
        /\ UNCHANGED <<quiet, incidents, outbox, escalated, round, disk,
                       handed, received, crashes>>

(* A window opens or closes, by the clock or by an operator.               *)
ChangeSuppression ==
    /\ quiet' = ~quiet
    /\ UNCHANGED <<status, decided, emitters, incidents, outbox, escalated,
                   round, disk, handed, received, crashes>>

(* emit: activeMaintenance and activeSilence.                              *)
ReadSuppression(e) ==
    /\ e.stage = "reading"
    /\ Replace(e, [e EXCEPT !.stage = "recording", !.hushed = quiet])
    /\ UNCHANGED <<status, decided, quiet, incidents, outbox, escalated,
                   round, disk, handed, received, crashes>>

-----------------------------------------------------------------------------
(* Incidents.                                                              *)

Opens(alert) == alert.kind \in Opening

(* The incidents of a subject that are open; a closing alert ends the last. *)
Open(s) == {i \in DOMAIN incidents : incidents[i].active
                                     /\ SubjectOf(incidents[i]) = s}
Latest(S) == CHOOSE i \in S : \A k \in S : k <= i

IncidentOf(delivery) ==
    CHOOSE i \in DOMAIN incidents : incidents[i].n = delivery.msg.n

(* What a sequence has at the positions S, in their order.                 *)
InOrder(S) ==
    [k \in 1..Cardinality(S) |->
        CHOOSE i \in S : Cardinality({j \in S : j < i}) = k - 1]
At(S, seq) ==
    LET order == InOrder(S) IN [k \in 1..Cardinality(S) |-> seq[order[k]]]

(* cancelEscalationsLocked.                                                *)
WithoutEscalations(i) ==
    At({k \in DOMAIN outbox : ~(/\ outbox[k].msg.note = "escalation"
                                /\ outbox[k].msg.n = incidents[i].n)}, outbox)

Close(i) ==
    /\ incidents' = [incidents EXCEPT ![i].active = FALSE]
    /\ outbox' = WithoutEscalations(i)

RecordIncident(e) ==
    LET alert == decided[e.msg.n]
        open == Open(alert.subject)
    IN /\ e.stage = "recording"
       /\ DeliveryMuFree
       /\ IF Opens(alert)
          THEN /\ incidents' = Append(incidents,
                                 [n |-> e.msg.n, active |-> TRUE,
                                  acked |-> FALSE, suppressed |-> e.hushed])
               /\ UNCHANGED outbox
          ELSE IF open # {} THEN Close(Latest(open))
          ELSE UNCHANGED <<incidents, outbox>>
       /\ Replace(e, [e EXCEPT !.stage = "saving"])
       /\ UNCHANGED <<status, decided, quiet, escalated, round, disk, handed,
                      received, crashes>>

SaveIncidentLater(e) ==
    /\ e.stage = "saving"
    /\ Replace(e, [e EXCEPT !.stage = IF e.hushed THEN "finishing"
                                      ELSE "waiting"])
    /\ UNCHANGED <<status, decided, quiet, incidents, outbox, escalated,
                   round, disk, handed, received, crashes>>

(* emit persists, and returns here if the alert is suppressed.             *)
SaveIncident(e) ==
    /\ e.stage = "saving"
    /\ Replace(e, [e EXCEPT !.stage = IF e.hushed THEN "finishing"
                                      ELSE "waiting"])
    /\ UNCHANGED <<status, decided, quiet, incidents, outbox, escalated,
                   round, handed, received, crashes>>
    /\ Persist

AcknowledgeUnlocked(i) ==
    /\ incidents[i].active
    /\ incidents' = [incidents EXCEPT ![i].acked = TRUE]
    /\ outbox' = WithoutEscalations(i)
    /\ UNCHANGED <<status, decided, emitters, quiet, escalated, round, handed,
                   received, crashes>>
    /\ Persist

(* AcknowledgeIncident and ResolveIncident, by an operator.                *)
Acknowledge(i) ==
    /\ DeliveryMuFree
    /\ incidents[i].active
    /\ incidents' = [incidents EXCEPT ![i].acked = TRUE]
    /\ outbox' = WithoutEscalations(i)
    /\ UNCHANGED <<status, decided, emitters, quiet, escalated, round, handed,
                   received, crashes>>
    /\ Persist

Resolve(i) ==
    /\ DeliveryMuFree
    /\ incidents[i].active
    /\ Close(i)
    /\ UNCHANGED <<status, decided, emitters, quiet, escalated, round, handed,
                   received, crashes>>
    /\ Persist

(* releaseSuppressions, up to the point where it delivers: the flags are   *)
(* cleared, and the alerts copied, without deliveryMu.  The loop, like     *)
(* each request that ends a suppression, is a goroutine.                   *)
Held == {i \in DOMAIN incidents : incidents[i].active
                                  /\ incidents[i].suppressed}

Released ==
    [k \in 1..Cardinality(Held) |->
        [n |-> At(Held, incidents)[k].n, note |-> "released"]]

ReleaseSuppressions ==
    /\ ~quiet
    /\ Held # {}
    /\ incidents' = [i \in DOMAIN incidents |->
                       IF i \in Held
                       THEN [incidents[i] EXCEPT !.suppressed = FALSE]
                       ELSE incidents[i]]
    /\ emitters' = emitters \cup
           {[msg |-> Head(Released), stage |-> "waiting", hushed |-> FALSE,
             left |-> <<>>, next |-> Tail(Released)]}
    /\ UNCHANGED <<status, decided, quiet, outbox, escalated, round, disk,
                   handed, received, crashes>>

-----------------------------------------------------------------------------
(* Delivery.                                                               *)

(* destinationPending.                                                     *)
IsPending(d) == \E k \in DOMAIN outbox : outbox[k].to = d

Receive(d, msg) == received' = [received EXCEPT ![d] = Append(@, msg)]

(* A failed attempt, which the destination may have seen all the same.     *)
Refuse(d, msg) ==
    \/ UNCHANGED received
    \/ /\ Cardinality({k \in DOMAIN received[d] : received[d][k] = msg})
            < MaxLostAcks
       /\ Receive(d, msg)

(* deliver takes deliveryMu and looks up the routes.                       *)
StartDelivery(e) ==
    /\ e.stage = "waiting"
    /\ DeliveryMuFree
    /\ handed' = Append(handed, e.msg)
    /\ Replace(e, [e EXCEPT !.stage = "sending",
                            !.left = Route[KindOf(e.msg)]])
    /\ UNCHANGED <<status, decided, quiet, incidents, outbox, escalated,
                   round, disk, received, crashes>>

Queue(e, tried) ==
    /\ outbox' = Append(outbox, [to |-> Head(e.left), msg |-> e.msg,
                                 tried |-> tried])
    /\ Persist

SendToNextAtOnce(e) ==
    /\ e.stage = "sending"
    /\ e.left # <<>>
    /\ Replace(e, [e EXCEPT !.left = Tail(@)])
    /\ UNCHANGED <<status, decided, quiet, incidents, escalated, round,
                   handed, crashes>>
    /\ \/ Receive(Head(e.left), e.msg) /\ UNCHANGED <<outbox, disk>>
       \/ Queue(e, TRUE) /\ Refuse(Head(e.left), e.msg)

(* One destination of deliver: behind what is queued for it already, or at *)
(* once, and into the queue if that fails.                                 *)
SendToNext(e) ==
    /\ e.stage = "sending"
    /\ e.left # <<>>
    /\ Replace(e, [e EXCEPT !.left = Tail(@)])
    /\ UNCHANGED <<status, decided, quiet, incidents, escalated, round,
                   handed, crashes>>
    /\ IF IsPending(Head(e.left))
       THEN Queue(e, FALSE) /\ UNCHANGED received
       ELSE \/ /\ Receive(Head(e.left), e.msg)
               /\ UNCHANGED <<outbox, disk>>
            \/ Queue(e, TRUE) /\ Refuse(Head(e.left), e.msg)

(* deliver returns.  releaseSuppressions goes on with its next alert; then *)
(* it persists, as Process does after emit.                                *)
EndDelivery(e) ==
    /\ e.stage = "sending"
    /\ e.left = <<>>
    /\ Replace(e, IF e.next = <<>> THEN [e EXCEPT !.stage = "finishing"]
                  ELSE [e EXCEPT !.stage = "waiting",
                                 !.msg = Head(e.next), !.next = Tail(e.next)])
    /\ UNCHANGED <<status, decided, quiet, incidents, outbox, escalated,
                   round, disk, handed, received, crashes>>

Finish(e) ==
    /\ e.stage = "finishing"
    /\ Leave(e)
    /\ UNCHANGED <<status, decided, quiet, incidents, outbox, escalated,
                   round, handed, received, crashes>>
    /\ Persist

-----------------------------------------------------------------------------
(* processDeliveries.                                                      *)

(* escalationRelevant: the incident is open, nobody has taken it on, and   *)
(* it is not suppressed.                                                   *)
PageWorthy(i) ==
    /\ incidents[i].active
    /\ ~incidents[i].acked
    /\ ~incidents[i].suppressed

EscalatableAgain ==
    {i \in DOMAIN incidents : PageWorthy(i) /\ KindOf(incidents[i]) = "down"}

(* scheduleEscalations: the policy's delay has passed for some of them; a  *)
(* policy that does not name warnings does not escalate them.              *)
Escalatable ==
    {i \in DOMAIN incidents \ escalated :
        PageWorthy(i) /\ KindOf(incidents[i]) = "down"}

Escalations(due) ==
    [k \in 1..Cardinality(due) |->
        [to |-> Pager, tried |-> FALSE,
         msg |-> [n |-> At(due, incidents)[k].n, note |-> "escalation"]]]

StartRound ==
    /\ DeliveryMuFree
    /\ UNCHANGED <<status, decided, emitters, quiet, incidents, handed,
                   received, crashes>>
    /\ \E due \in SUBSET Escalatable :
         /\ escalated' = escalated \cup due
         /\ outbox' = outbox \o Escalations(due)
         /\ outbox' # <<>>
         /\ IF due = {} THEN UNCHANGED disk ELSE Persist
    /\ round' = [stage |-> "next", items |-> outbox', blocked |-> {}]

Item == Head(round.items)
AtItem(stage) == round.stage = stage /\ round.items # <<>>

BlockAll == Destination

(* A destination is left alone after its first item that is not due or is  *)
(* refused, so that nothing overtakes it.                                  *)
Block == round.blocked \cup {Item.to}

Skip ==
    /\ AtItem("next")
    /\ \/ /\ Item.to \in round.blocked
          /\ round' = [round EXCEPT !.items = Tail(@)]
       \/ /\ Item.to \notin round.blocked
          /\ Item.tried
          /\ round' = [round EXCEPT !.items = Tail(@),
                                    !.blocked = Block]
    /\ UNCHANGED <<status, decided, emitters, quiet, incidents, outbox,
                   escalated, disk, handed, received, crashes>>

Relevant(item) ==
    item.msg.note = "escalation" => PageWorthy(IncidentOf(item))

(* Where an item is in the outbox: its id names it.                        *)
PositionOf(item) ==
    CHOOSE k \in DOMAIN outbox : outbox[k].to = item.to
                                 /\ outbox[k].msg = item.msg

(* processDeliveries drops an escalation that is not relevant any more; no *)
(* such item is ever in the outbox: what ends the relevance cancels it.    *)
Select ==
    /\ AtItem("next")
    /\ Item.to \notin round.blocked
    /\ Relevant(Item)
    /\ round' = [round EXCEPT !.stage = "trying"]
    /\ UNCHANGED <<status, decided, emitters, quiet, incidents, outbox,
                   escalated, disk, handed, received, crashes>>

(* The destination answers, and may be the only one to know it.            *)
Attempt ==
    /\ AtItem("trying")
    /\ \/ /\ Receive(Item.to, Item.msg)
          /\ round' = [round EXCEPT !.stage = "sent"]
       \/ /\ Refuse(Item.to, Item.msg)
          /\ round' = [round EXCEPT !.stage = "refused"]
    /\ UNCHANGED <<status, decided, emitters, quiet, incidents, outbox,
                   escalated, disk, handed, crashes>>

SettleAcceptedInMemory ==
    /\ AtItem("sent")
    /\ outbox' = RemoveAt(outbox, PositionOf(Item))
    /\ round' = [round EXCEPT !.stage = "next", !.items = Tail(@)]
    /\ UNCHANGED <<status, decided, emitters, quiet, incidents, escalated,
                   disk, handed, received, crashes>>

(* The outcome goes into the outbox, and the outbox into the state file.   *)
SettleAccepted ==
    /\ AtItem("sent")
    /\ outbox' = RemoveAt(outbox, PositionOf(Item))
    /\ round' = [round EXCEPT !.stage = "next", !.items = Tail(@)]
    /\ UNCHANGED <<status, decided, emitters, quiet, incidents, escalated,
                   handed, received, crashes>>
    /\ Persist

SettleRefused ==
    /\ AtItem("refused")
    /\ outbox' = [outbox EXCEPT ![PositionOf(Item)].tried = TRUE]
    /\ round' = [round EXCEPT !.stage = "next", !.items = Tail(@),
                              !.blocked = Block]
    /\ UNCHANGED <<status, decided, emitters, quiet, incidents, escalated,
                   handed, received, crashes>>
    /\ Persist

EndRound ==
    /\ round # Idle
    /\ round.items = <<>>
    /\ round' = Idle
    /\ UNCHANGED <<status, decided, emitters, quiet, incidents, outbox,
                   escalated, disk, handed, received, crashes>>

-----------------------------------------------------------------------------
(* Another goroutine persists: the snapshot is of the whole state.  Left   *)
(* out where no crash can follow that would read the file.                 *)
PersistElsewhere ==
    /\ crashes < MaxCrashes
    /\ disk' = Snapshot
    /\ disk' # disk
    /\ UNCHANGED <<status, decided, emitters, quiet, incidents, outbox,
                   escalated, round, handed, received, crashes>>

(* The coordinator dies and is started again from the state file.          *)
Crash ==
    /\ crashes < MaxCrashes
    /\ crashes' = crashes + 1
    /\ status' = disk.status
    /\ incidents' = disk.incidents
    /\ outbox' = disk.outbox
    /\ escalated' = disk.escalated
    /\ emitters' = {}
    /\ round' = Idle
    /\ UNCHANGED <<decided, quiet, disk, handed, received>>

EmitterStep(e) ==
    \/ ReadSuppression(e) \/ SaveIncident(e)
    \/ SendToNext(e) \/ EndDelivery(e) \/ Finish(e)

RoundStep ==
    \/ Skip \/ Select \/ Attempt
    \/ SettleAccepted \/ SettleRefused
    \/ EndRound

Next ==
    \/ \E s \in Subject : Decide(s)
    \/ ChangeSuppression
    \/ \E e \in emitters :
         EmitterStep(e) \/ RecordIncident(e) \/ StartDelivery(e)
    \/ \E i \in DOMAIN incidents : Acknowledge(i) \/ Resolve(i)
    \/ ReleaseSuppressions
    \/ StartRound \/ RoundStep
    \/ PersistElsewhere
    \/ Crash

Spec == Init /\ [][Next]_vars

(* Goroutines run and get deliveryMu in their turn (some goroutine, which  *)
(* is enough: there are finitely many), the ticker starts rounds, a retry  *)
(* falls due (its delay is bounded by retryMax), and a healthy destination *)
(* accepts one of its retries.                                             *)
Fairness ==
    /\ WF_vars(\E e \in emitters : EmitterStep(e))
    /\ SF_vars(\E e \in emitters : RecordIncident(e) \/ StartDelivery(e))
    /\ SF_vars(StartRound)
    /\ WF_vars(RoundStep)
    /\ \A d \in Healthy :
         /\ SF_vars(Select /\ Item.to = d)
         /\ SF_vars(Attempt /\ Item.to = d /\ round'.stage = "sent")

FairSpec == Spec /\ Fairness

-----------------------------------------------------------------------------
(* Properties.                                                             *)

Regular(m) == m.note # "escalation"

(* Where something arrives at d for another reason than a retry: what      *)
(* arrived before it was something else.                                   *)
Afresh(d) ==
    {k \in DOMAIN received[d] : k = 1 \/ received[d][k] # received[d][k - 1]}

(* What has arrived at d, and what waits for d.  An item that has arrived  *)
(* but is not yet out of the queue is not waited for.                      *)
Arrived(d) == At({k \in Afresh(d) : Regular(received[d][k])}, received[d])

HasArrived(d, m) == \E k \in DOMAIN received[d] : received[d][k] = m
Waits(k, d) ==
    /\ outbox[k].to = d
    /\ Regular(outbox[k].msg)
    /\ ~HasArrived(d, outbox[k].msg)
Waiting(d) == At({k \in DOMAIN outbox : Waits(k, d)}, [k \in DOMAIN outbox |-> outbox[k].msg])

(* What deliver has taken charge of for d, up to now: of what it is about, *)
(* only what it is done with.                                              *)
ToBeSent(d) == \E e \in emitters : e.stage = "sending" /\ d \in ToSet(e.left)
IsTaken(k, d) ==
    /\ d \in ToSet(Route[KindOf(handed[k])])
    /\ ~(k = Len(handed) /\ ToBeSent(d))
TakenFor(d) == At({k \in DOMAIN handed : IsTaken(k, d)}, handed)

(* Nothing handed to deliver is lost or overtaken, nor sent again once it  *)
(* was accepted: while the coordinator lives, what each destination got    *)
(* and what waits for it are together what was handed over for it, in that *)
(* order (delivery.go:206, 294).                                           *)
DeliveredInOrder ==
    crashes = 0 => \A d \in Destination : Arrived(d) \o Waiting(d) = TakenFor(d)

Arrives(d, m) == received'[d] # received[d] /\ Last(received'[d]) = m

PagesWorthy ==
    \A i \in DOMAIN incidents, d \in Destination :
        Arrives(d, [n |-> incidents[i].n, note |-> "escalation"]) => PageWorthy(i)

(* An escalation reaches nobody after its incident was acknowledged,       *)
(* resolved or closed, not even one whose network call was waited for      *)
(* (delivery.go:356, lifecycle.go:136).                                    *)
EscalationsRelevant == [][PagesWorthy]_vars

Page(n) == [n |-> n, note |-> "escalation"]
PageStarts(n) == {k \in Afresh(Pager) : received[Pager][k] = Page(n)}

(* One escalation per incident, retries of it aside, and one more for a    *)
(* crash between the call and the state file (delivery.go:36-37).          *)
EscalatedAtMostOnce ==
    \A n \in DOMAIN decided : Cardinality(PageStarts(n)) <= 1 + crashes

(* Every destination learns of the transitions of a check in the order     *)
(* they were decided, crash or no crash (acceptance.md:100-101): of one    *)
(* that was decided when the earlier ones had been emitted, after them.    *)
InDecidedOrder ==
    \A d \in Destination : \A j, k \in DOMAIN received[d] :
        LET m == received[d][j]
            later == received[d][k]
        IN (/\ j < k /\ m.note = "news" /\ later.note = "news"
            /\ decided[m.n].subject = decided[later.n].subject
            /\ decided[m.n].alone)
           => m.n <= later.n

ToldIsOnDisk ==
    \A n \in DOMAIN decided, d \in Destination :
        (/\ decided[n].kind \in Opening
         /\ Arrives(d, [n |-> n, note |-> "news"]))
        => \E i \in DOMAIN disk.incidents : disk.incidents[i].n = n

(* The state file names an outage or a warning before anybody is told of   *)
(* it (architecture.md:30): after a crash the coordinator knows what it    *)
(* has said.                                                               *)
PersistedFirst == [][ToldIsOnDisk]_vars

(* When nothing is being emitted, a check that is up has no open incident: *)
(* an outage that ended does not count as downtime for ever                *)
(* (operations.md:192, operations.go:199).                                 *)
IncidentsFollowStatus ==
    \A s \in Subject : emitters = {} /\ status[s] = "up" => Open(s) = {}

(* Every alert handed over for a destination that does not refuse for ever *)
(* arrives there, though another destination be down for good, unless the  *)
(* coordinator crashes; and what the state file has in its outbox arrives  *)
(* even then (delivery.go:304-337, persist.go).                            *)
EventuallyServed ==
    \A d \in Healthy, m \in Message :
        /\ m \in ToSet(handed) /\ d \in ToSet(Route[KindOf(m)])
              ~> m \in ToSet(received[d]) \/ crashes > 0
        /\ (\E item \in ToSet(disk.outbox) :
                 item.to = d /\ item.msg = m /\ m.note # "escalation")
              ~> m \in ToSet(received[d])
=============================================================================
