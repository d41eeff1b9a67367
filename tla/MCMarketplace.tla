---------------------------- MODULE MCMarketplace ---------------------------
(***************************************************************************)
(* Instances of Marketplace for TLC.                                       *)
(***************************************************************************)
EXTENDS Marketplace, TLC

CONSTANTS u1, u2, h1, h2, l1, l2, c1, p1, p2

TwoUsers == {u1, u2}
OneHolding == {h1}
TwoHoldings == {h1, h2}
OneListing == {l1}
TwoListings == {l1, l2}
OneCancel == {c1}
OnePurchase == {p1}
TwoPurchases == {p1, p2}

Symmetry == Permutations(TwoUsers) \cup Permutations(TwoHoldings)
              \cup Permutations(TwoListings) \cup Permutations(TwoPurchases)
=============================================================================
