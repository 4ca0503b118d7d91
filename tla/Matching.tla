------------------------------ MODULE Matching ------------------------------
(***************************************************************************)
(* How quorum counts independent votes (IndependentResults): a bipartite   *)
(* matching by augmenting paths between hosting providers, or probers, and *)
(* the exits that the votes left through.  Evidence states what is meant:  *)
(* the size of the largest set of votes without a provider or an exit in   *)
(* common.  Here is how the code finds it, one left side a step.           *)
(***************************************************************************)
EXTENDS Naturals, Sequences, SequencesExt, FiniteSets, FiniteSetsExt, TLC

CONSTANTS
    Voters,      \* how many probers said the same
    Providers,   \* hosting providers; provider 0 stands for the unnamed one
    Egress,      \* exits behind the proxies
    NoEgress     \* a vote registered for no exit of the proxy profile

Voter == 1 .. Voters      \* probers, in the order of their names
MatchingAssumption == Voters \in Nat /\ Providers \in Nat /\ NoEgress \notin Egress

VARIABLES
    provider, proxied, egress, distinct,     \* the votes, and the check's rule
    selected,    \* the vote that each exit is matched with
    lefts        \* the left sides still to visit

votes == <<provider, proxied, egress, distinct>>
vars == <<votes, selected, lefts>>

\* usable drops a vote that went through the proxy without a known exit.
Usable(p) == ~proxied \/ egress[p] # NoEgress
Left(p) == IF distinct THEN provider[p] ELSE p
Right(p) == IF proxied THEN <<"proxy", egress[p]>> ELSE <<"direct", p>>
Edges(left) == SetToSortSeq({p \in Voter : Usable(p) /\ Left(p) = left}, <)

\* TypeOK: what is matched are votes, each under its own exit.
TypeOK ==
    /\ \A exit \in DOMAIN selected : selected[exit] \in Voter /\ Right(selected[exit]) = exit
    /\ lefts \in Seq(Nat)

Init ==
    /\ provider \in [Voter -> 0 .. Providers] /\ distinct \in BOOLEAN
    /\ \/ proxied = TRUE /\ egress \in [Voter -> Egress \cup {NoEgress}]
       \/ proxied = FALSE /\ egress = [p \in Voter |-> NoEgress]
    /\ selected = <<>>
    /\ lefts = SetToSortSeq({Left(p) : p \in {p \in Voter : Usable(p)}}, <)

\* What is known while a left side looks for an exit.
Exits == {Right(p) : p \in Voter}
Search == [selected : UNION {[S -> Voter] : S \in SUBSET Exits}, seen : SUBSET Exits,
           found : BOOLEAN]

\* Mutant: an exit that is taken is left to who has it.
MatchedGreedily(left) ==
    LET free == {i \in DOMAIN Edges(left) : Right(Edges(left)[i]) \notin DOMAIN selected}
        vote == Edges(left)[Min(free)]
    IN  IF free = {} THEN selected ELSE (Right(vote) :> vote) @@ selected

\* visit: along the votes of a left side, taking an exit that is free or whose
\* holder can be moved to another one.
Matched(left) ==
    LET visit[from \in Nat, edges \in Seq(Voter), at \in Search] ==
            IF edges = <<>> THEN [at EXCEPT !.found = FALSE]
            ELSE LET vote == Head(edges)
                     exit == Right(vote)
                     marked == [at EXCEPT !.seen = @ \cup {exit}]
                     other == Left(at.selected[exit])
                     freed == IF exit \in DOMAIN at.selected
                              THEN visit[other, Edges(other), marked]
                              ELSE [marked EXCEPT !.found = TRUE]
                 IN  IF exit \in at.seen THEN visit[from, Tail(edges), at]
                     ELSE IF freed.found
                          THEN [freed EXCEPT !.selected = (exit :> vote) @@ @]
                          ELSE visit[from, Tail(edges), freed]
    IN  visit[left, Edges(left), [selected |-> selected, seen |-> {}, found |-> FALSE]].selected

MatchLeft ==
    /\ lefts # <<>>
    /\ selected' = Matched(Head(lefts))
    /\ lefts' = Tail(lefts)
    /\ UNCHANGED votes

Next == MatchLeft
Spec == Init /\ [][Next]_vars
-----------------------------------------------------------------------------
\* What Evidence!HasQuorum means by independent votes.
Independent(S) == \A p, q \in S : p # q => Left(p) # Left(q) /\ Right(p) # Right(q)
Largest(S) == Max({Cardinality(T) : T \in {U \in SUBSET S : Independent(U)}})

\* The votes counted are independent in both dimensions, and no larger choice
\* among the left sides visited would be: "counting the two dimensions
\* separately is insufficient" (quorum.go).
CountsTheLargest ==
    LET visited == {p \in Voter : Usable(p) /\ ~Contains(lefts, Left(p))}
        counted == {selected[exit] : exit \in DOMAIN selected}
    IN  /\ counted \subseteq visited /\ Independent(counted)
        /\ Cardinality(counted) = Largest(visited)
=============================================================================
