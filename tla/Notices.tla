------------------------------ MODULE Notices ------------------------------
(***************************************************************************)
(* The notices of the status page (notices.go).  Every operation runs      *)
(* under mu, but an edit lets go of it to validate what it will write.     *)
(* Texts, kinds and announced times are left out; of a state the module    *)
(* knows whether it closes the notice.                                     *)
(***************************************************************************)
EXTENDS Integers, Sequences, FiniteSets, SequencesExt, FiniteSetsExt

CONSTANTS
    Editor,      \* handlers that edit at the same time
    MaxNotices, MaxUpdates, Retention,
    MaxExported, MaxExportedUpdates, ExportWindow,
    TextBudget,  \* maxExportNoticeText; a title and a message are of length one
    MaxNoticeId  \* bound: notices created

NoticesAssumption ==
    /\ MaxNotices \in Nat \ {0} /\ MaxUpdates \in Nat \ {0} /\ Retention \in Nat
    /\ MaxExported \in Nat \ {0} /\ MaxExportedUpdates \in Nat /\ TextBudget \in Nat
    /\ ExportWindow \in 0 .. Retention /\ MaxNoticeId \in Nat

State == {"open", "closed"}

VARIABLES
    notices,      \* c.notices, by id: the slice is in the order of the ids
    nextNoticeID,
    edits,        \* the copy that each editor validates, or none
    posted,       \* history: the updates that were accepted, of each notice
    deleted,      \* history: notices that an operator deleted
    outdated      \* history: notices that have been closed for longer than Retention

vars == <<notices, nextNoticeID, edits, posted, deleted, outdated>>

\* ResolvedAt is kept as an age, and is Never for an open notice.
Never == Retention + 2
Notice == [state : State, public : BOOLEAN, updates : Seq(State), resolved : 0 .. Never]
NoEdit == [id |-> 0]

TypeOK ==
    /\ nextNoticeID \in 0 .. MaxNoticeId
    /\ DOMAIN notices \subseteq 1 .. nextNoticeID /\ Cardinality(DOMAIN notices) <= MaxNotices
    /\ \A id \in DOMAIN notices :
          notices[id] \in Notice /\ Len(notices[id].updates) \in 1 .. MaxUpdates
    /\ edits \in [Editor -> [id : 1 .. nextNoticeID, copy : Notice] \cup {NoEdit}]
    /\ DOMAIN posted = 1 .. nextNoticeID
    /\ deleted \subseteq 1 .. nextNoticeID /\ outdated \subseteq 1 .. nextNoticeID

Init ==
    /\ notices = [id \in {} |-> NoEdit] /\ nextNoticeID = 0
    /\ edits = [e \in Editor |-> NoEdit]
    /\ posted = <<>> /\ deleted = {} /\ outdated = {}
-----------------------------------------------------------------------------
ResolvedNow(state) == IF state = "closed" THEN 0 ELSE Never

\* Mutant: a zero ResolvedAt is long ago.
RetainedIfRecent(n) == n.resolved <= Retention

Retained(n) == n.resolved = Never \/ n.resolved <= Retention

CreateNotice(state, public) ==
    /\ nextNoticeID < MaxNoticeId
    /\ LET kept == {id \in DOMAIN notices : Retained(notices[id])}
           new  == [state |-> state, public |-> public, updates |-> <<state>>,
                    resolved |-> ResolvedNow(state)]
       IN  \/ /\ Cardinality(kept) >= MaxNotices       \* errNoticeFull
              /\ notices' = [id \in kept |-> notices[id]]
              /\ UNCHANGED <<nextNoticeID, posted>>
           \/ /\ Cardinality(kept) < MaxNotices
              /\ nextNoticeID' = nextNoticeID + 1 /\ posted' = Append(posted, <<state>>)
              /\ notices' = [id \in kept \cup {nextNoticeID'} |->
                                IF id = nextNoticeID' THEN new ELSE notices[id]]
    /\ UNCHANGED <<edits, deleted, outdated>>

PostNoticeUpdate(id, state) ==
    /\ Len(notices[id].updates) < MaxUpdates
    /\ notices' = [notices EXCEPT ![id].updates = Append(@, state), ![id].state = state,
           ![id].resolved = IF state = "closed" /\ @ # Never THEN @ ELSE ResolvedNow(state)]
    /\ posted' = [posted EXCEPT ![id] = Append(@, state)]
    /\ outdated' = IF state = "closed" THEN outdated ELSE outdated \ {id}
    /\ UNCHANGED <<nextNoticeID, edits, deleted>>

BeginEdit(e, id) ==
    /\ edits[e] = NoEdit
    /\ edits' = [edits EXCEPT ![e] = [id |-> id, copy |-> notices[id]]]
    /\ UNCHANGED <<notices, nextNoticeID, posted, deleted, outdated>>

\* Mutant: what was read is written back.
EditedCopy(copy, now, public) == [copy EXCEPT !.public = public]

Edited(copy, now, public) ==
    [copy EXCEPT !.public = public, !.updates = now.updates, !.state = now.state,
                 !.resolved = now.resolved]

\* EditNotice: the copy is written over the notice, which may be gone by now.
EndEdit(e, public) ==
    /\ edits[e] # NoEdit
    /\ notices' = [id \in DOMAIN notices |->
           IF id = edits[e].id THEN Edited(edits[e].copy, notices[id], public) ELSE notices[id]]
    /\ edits' = [edits EXCEPT ![e] = NoEdit]
    /\ UNCHANGED <<nextNoticeID, posted, deleted, outdated>>

DeleteNotice(id) ==
    /\ notices' = [i \in DOMAIN notices \ {id} |-> notices[i]]
    /\ deleted' = deleted \cup {id}
    /\ UNCHANGED <<nextNoticeID, edits, posted, outdated>>

Tick ==
    /\ notices' = [id \in DOMAIN notices |->
           [notices[id] EXCEPT !.resolved = IF @ > Retention THEN @ ELSE @ + 1]]
    /\ outdated' = outdated \cup
           {id \in DOMAIN notices : notices[id].state = "closed" /\ notices[id].resolved >= Retention}
    /\ UNCHANGED <<nextNoticeID, edits, posted, deleted>>

Next ==
    \/ \E state \in State, public \in BOOLEAN : CreateNotice(state, public)
    \/ \E id \in DOMAIN notices :
          \/ \E state \in State : PostNoticeUpdate(id, state)
          \/ \E e \in Editor : BeginEdit(e, id)
          \/ DeleteNotice(id)
    \/ \E e \in Editor, public \in BOOLEAN : EndEdit(e, public)
    \/ Tick

Spec == Init /\ [][Next]_vars
-----------------------------------------------------------------------------
(* What leaves the fleet in the signed export (export.go).                 *)

Exportable(n) == n.public /\ (n.resolved = Never \/ n.resolved <= ExportWindow)
Published == {id \in DOMAIN notices : Exportable(notices[id])}

\* Mutant: in the order in which they are stored.
Stored == SetToSortSeq(Published, <)

NewestFirst == SetToSortSeq(Published, >)

\* exportNotices: one notice after the other, each with its newest updates,
\* until there are enough or the text has used up the budget.
ExportNotices ==
    FoldLeft(LAMBDA sum, id :
                 LET updates == notices[id].updates
                     wanted == Min({Len(updates), MaxExportedUpdates})
                     room   == sum.budget - 1
                     fits   == IF wanted <= room THEN wanted ELSE room
                 IN  IF sum.full \/ room < 0 THEN [sum EXCEPT !.full = TRUE]
                     ELSE [out    |-> Append(sum.out, [id |-> id, updates |->
                                          SubSeq(Reverse(updates), 1, fits)]),
                           budget |-> room - wanted,
                           full   |-> Len(sum.out) + 1 = MaxExported \/ wanted > room],
             [out |-> <<>>, budget |-> TextBudget, full |-> FALSE],
             NewestFirst).out
-----------------------------------------------------------------------------
\* Whatever edits overlap, the timeline of a notice holds every update that
\* was accepted for it, in order, the notice is in the state of the last, and it
\* has a time of resolution, from which its retention counts, exactly when that
\* closed it ("Keep updates posted while this edit was being validated").
TimelineKept ==
    \A id \in DOMAIN notices :
        /\ notices[id].updates = posted[id] /\ notices[id].state = Last(posted[id])
        /\ notices[id].state = "closed" <=> notices[id].resolved # Never

\* A notice stays until an operator deletes it or it has been closed for
\* longer than Retention, and none comes back through an edit that overlaps.
NoticesStay ==
    \A id \in 1 .. nextNoticeID :
        /\ id \in deleted => id \notin DOMAIN notices
        /\ id \in DOMAIN notices \/ id \in deleted \/ id \in outdated

\* "At most 20 notices, the 10 newest updates of each, and 128 KiB of text"
\* (docs/operations.md): a public notice that is open or not long closed is
\* left out only where newer ones have taken its place or its text's, and what
\* is left out of a notice is its oldest updates.
ExportHoldsTheNewest ==
    LET newer(id)  == {i \in Published : i > id}
        length(id) == 1 + Min({Len(notices[id].updates), MaxExportedUpdates})
        room(id)   == TextBudget - MapThenSumSet(length, newer(id)) - 1
        newest(s, k) == SubSeq(s, Len(s) - k + 1, Len(s))
        chosen     == {id \in Published : Cardinality(newer(id)) < MaxExported /\ room(id) >= 0}
    IN  {<<e.id, Reverse(e.updates)>> : e \in Range(ExportNotices)}
            = {<<id, newest(notices[id].updates, Min({length(id) - 1, room(id)}))>> : id \in chosen}
=============================================================================
