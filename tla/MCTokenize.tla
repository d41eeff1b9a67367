----------------------------- MODULE MCTokenize -----------------------------
(***************************************************************************)
(* Instances of Tokenize for TLC.                                          *)
(***************************************************************************)
EXTENDS Tokenize, TLC

CONSTANTS c1, c2

TwoClicks == {c1, c2}

OneClick == {c1}

\* A form that is in order, one with no percentage, one whose investors only
\* the schema refuses, one that the route refuses, and one with too many
\* features.
AllForms ==
  {[percentToSell |-> p, investors |-> i, features |-> 20] :
     p \in {0, 50}, i \in {0, 101}} \cup
  {[percentToSell |-> 100, investors |-> 100, features |-> 21],
   [percentToSell |-> 101, investors |-> 0, features |-> 0],
   [percentToSell |-> 1, investors |-> 10000001, features |-> 0]}

\* One form in order, and one that the schema refuses.
TwoForms ==
  {[percentToSell |-> 50, investors |-> i, features |-> 0] : i \in {0, 101}}
=============================================================================
