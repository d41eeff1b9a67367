-------------------------------- MODULE Deeds -------------------------------
(***************************************************************************)
(* What the secondary market promises about a holding, with nothing of     *)
(* transactions, records or clients: at any time it has one deed, in one   *)
(* user's name.  The holder may offer it, and an offered deed is withdrawn *)
(* or sold; each of these replaces the deed by a new one.                  *)
(*                                                                         *)
(* Marketplace implements this module twice: on the chain, and in the      *)
(* share records, which follow the chain at a distance.                    *)
(***************************************************************************)
CONSTANTS Titles, Users

VARIABLE deeds      \* the deeds in force

Deed == [title : Titles, holder : Users, offered : BOOLEAN]

DInit ==
  /\ deeds \subseteq Deed
  /\ \A d \in deeds : ~d.offered
  /\ \A d1, d2 \in deeds : d1.title = d2.title => d1 = d2

\* `old` is void from now on, and `new`, a deed with a title of its own, holds.
Replace(old, new) ==
  /\ \A d \in deeds : d.title # new.title
  /\ deeds' = (deeds \ {old}) \cup {new}

Offer(d, t) ==
  /\ ~d.offered
  /\ Replace(d, [title |-> t, holder |-> d.holder, offered |-> TRUE])

Withdraw(d, t) ==
  /\ d.offered
  /\ Replace(d, [title |-> t, holder |-> d.holder, offered |-> FALSE])

Sell(d, t, buyer) ==
  /\ d.offered
  /\ Replace(d, [title |-> t, holder |-> buyer, offered |-> FALSE])

DNext ==
  \E d \in deeds, t \in Titles :
    Offer(d, t) \/ Withdraw(d, t) \/ \E u \in Users : Sell(d, t, u)

DSpec == DInit /\ [][DNext]_deeds
=============================================================================
