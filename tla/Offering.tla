------------------------------ MODULE Offering ------------------------------
(***************************************************************************)
(* What the primary sale promises, with nothing of requests, documents,    *)
(* locks or queues: what a property offers is handed out in transfers, one *)
(* at a time, and each of them may be entered in the register of           *)
(* shareholders some time after it was made.                               *)
(*                                                                         *)
(* An output is a pair, of the transfer that made it and an index.         *)
(***************************************************************************)
EXTENDS Naturals

CONSTANTS
  Buyers,
  Outputs,
  Origin,             \* the output that holds the supply
  Supply              \* how much of the property is offered

VARIABLES
  unsold,             \* what has not been handed out
  ledger,             \* the transfers made
  register            \* the transfers entered

Transfers ==
  [investorId : Buyers, amount : Nat \ {0}, parentTxid : Outputs, transferTxid : Outputs]

OInit == unsold = Supply /\ ledger = {} /\ register = {}

\* A transfer takes from the origin or from what an earlier one left over,
\* and from nothing that another has taken from.
Follows(t) ==
  /\ t.parentTxid = Origin \/ \E u \in ledger : u.transferTxid[1] = t.parentTxid[1]
  /\ \A u \in ledger : u.parentTxid # t.parentTxid /\ u.transferTxid # t.transferTxid

HandOut(t) ==
  /\ t \in Transfers /\ Follows(t)
  /\ t.amount <= unsold
  /\ unsold' = unsold - t.amount
  /\ ledger' = ledger \cup {t}
  /\ UNCHANGED register

Enter(t) ==
  /\ register' = register \cup {t}
  /\ UNCHANGED <<unsold, ledger>>

ONext == (\E t \in ledger' \ ledger : HandOut(t)) \/ (\E t \in ledger \ register : Enter(t))

OSpec == OInit /\ [][ONext]_<<unsold, ledger, register>>
=============================================================================
