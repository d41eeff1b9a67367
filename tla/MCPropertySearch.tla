-------------------------- MODULE MCPropertySearch --------------------------
(***************************************************************************)
(* Instance of PropertySearch for TLC.                                     *)
(***************************************************************************)
EXTENDS PropertySearch, TLC

CONSTANTS a, b, c

\* b and c have the same price, a and c the same yield.
ThreeProperties == {a, b, c}
ThePrice == a :> 0 @@ b :> 1 @@ c :> 1
TheYield == a :> 1 @@ b :> 0 @@ c :> 1

\* Everything is on sale, or one property only.
SomeStatus == {[p \in ThreeProperties |-> "open"],
               [p \in ThreeProperties |-> IF p = a THEN "open" ELSE "absent"]}
OneInput == {1}

\* An address kept from an earlier visit, on the second page of a tab.
SecondPage == [DefaultView EXCEPT !.page = 2, !.activeStatus = "open", !.sortBy = "gross_yield_desc"]
OneLink == {SecondPage}
=============================================================================
