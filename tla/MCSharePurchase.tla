--------------------------- MODULE MCSharePurchase --------------------------
(***************************************************************************)
(* Instances of SharePurchase for TLC.                                     *)
(***************************************************************************)
EXTENDS SharePurchase, TLC

CONSTANTS r1, r2, r3, i1, i2

TwoRequests == {r1, r2}
ThreeRequests == {r1, r2, r3}
TwoInvestors == {i1, i2}

SymmetryTwo == Permutations(TwoRequests) \cup Permutations(TwoInvestors)
SymmetryThree == Permutations(ThreeRequests) \cup Permutations(TwoInvestors)
=============================================================================
