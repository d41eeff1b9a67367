--------------------------- MODULE MCWalletService --------------------------
(***************************************************************************)
(* Instances of WalletService for TLC.                                     *)
(***************************************************************************)
EXTENDS WalletService

CONSTANTS r1, r2, b1

TwoRoutes == {r1, r2}

OneProbe == {b1}

\* The misuse the comment of the class warns of: action 2 enqueues action 3
\* and awaits it.
LastNests == {<<2, 3>>}
=============================================================================
