-------------------------- MODULE MCCheckDecision --------------------------
(* Small fleets for CheckDecision.                                         *)
EXTENDS CheckDecision, TLC

CONSTANTS ann, bob, cyd, web, mail

\* Three probers, or two of them, on networks of their own.
Three == {ann, bob, cyd}
FirstTwo == {ann, bob}
OnlyAnn == {ann}
Nobody == {}
Own == [p \in Three |-> p]
OwnOfTwo == [p \in FirstTwo |-> p]

SwapFirstTwo == Permutations(FirstTwo)

OneCheck == {web}
TwoChecks == {web, mail}
=============================================================================
