--------------------------- MODULE SerialExecutor ---------------------------
(***************************************************************************)
(* What the wallet queue promises to its callers, with nothing of how it   *)
(* does it: actions run one at a time, in the order they were submitted,   *)
(* and an action that fails is as finished as one that succeeds.           *)
(*                                                                         *)
(* Actions are numbered in the order of submission.  WalletQueue           *)
(* implements this module (see WalletQueue!Executor), and the route        *)
(* modules rely on it when they let only the head of a queue touch the     *)
(* wallet.                                                                 *)
(***************************************************************************)
EXTENDS Integers

CONSTANT MaxActions     \* how many actions are ever submitted

Actions == 1 .. MaxActions

Settled == {"fulfilled", "rejected"}

Phases == {"unborn", "waiting", "running"} \cup Settled

VARIABLE phase          \* phase[a]: how far action a has come

SInit == phase = [a \in Actions |-> "unborn"]

Submit(a) ==
  /\ phase[a] = "unborn"
  /\ \A b \in Actions : b < a => phase[b] # "unborn"
  /\ phase' = [phase EXCEPT ![a] = "waiting"]

Begin(a) ==
  /\ phase[a] = "waiting"
  /\ \A b \in Actions : b < a => phase[b] \in Settled
  /\ phase' = [phase EXCEPT ![a] = "running"]

End(a) ==
  /\ phase[a] = "running"
  /\ \E outcome \in Settled : phase' = [phase EXCEPT ![a] = outcome]

SNext == \E a \in Actions : Submit(a) \/ Begin(a) \/ End(a)

SSpec == SInit /\ [][SNext]_phase
=============================================================================
