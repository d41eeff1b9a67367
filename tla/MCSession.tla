------------------------------ MODULE MCSession -----------------------------
(***************************************************************************)
(* Instances of Session for TLC.                                           *)
(***************************************************************************)
EXTENDS Session, TLC

CONSTANTS t1, t2, alice, bob

OneTab == {t1}

TwoTabs == {t1, t2}

TwoIdentities == {alice, bob}

=============================================================================
