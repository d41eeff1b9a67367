--------------------------- MODULE MCShareRecords ---------------------------
(***************************************************************************)
(* An instance of Bootstrap and ShareRecords for TLC: a mint, three transfers.*)
(***************************************************************************)
EXTENDS Bootstrap, TLC

CONSTANTS t0, t1, t2, t3

Transfers == {t1, t2, t3}

AllTxids == {t0} \cup Transfers

Symmetry == Permutations(Transfers)
=============================================================================
