---------------------------- MODULE MCOwnership ----------------------------
(* Small fleets for Ownership.                                             *)
EXTENDS Ownership

CONSTANTS ann, bob, cyd, web, mail

Two == {ann, bob}
Three == {ann, bob, cyd}
OneCheck == {web}
TwoChecks == {web, mail}

\* ann prefers web, and bob mail where there is any.
OwnOne == [chk \in OneCheck |-> ann]
OwnEachOfTwo == [chk \in TwoChecks |-> IF chk = web THEN ann ELSE bob]

\* web goes from ann to bob to cyd; mail from bob to ann.
Weight(chk, p) ==
    CASE p = ann -> IF chk = web THEN 3 ELSE 1
      [] p = bob -> 2
      [] p = cyd -> 0
RankOfOne == [chk \in OneCheck |-> [p \in Two |-> Weight(chk, p)]]
RankOfOneInThree == [chk \in OneCheck |-> [p \in Three |-> Weight(chk, p)]]
RankOfTwo == [chk \in TwoChecks |-> [p \in Two |-> Weight(chk, p)]]
=============================================================================
