----------------------------- MODULE ShareChain -----------------------------
(***************************************************************************)
(* server/lib/shareChain.ts: the walk from a share back to the mint.       *)
(*                                                                         *)
(* An outpoint is a pair <<txid, vout>>.  A share record says that its     *)
(* transferTxid was created by spending its parentTxid.  The walk is a     *)
(* function of the set of records of one property; it is written as a      *)
(* recursive function so that modules with proofs can use it.              *)
(***************************************************************************)
EXTENDS Integers

\* The outpoints a walk from `leaf` over `records` can visit.
Visitable(records, leaf) ==
  {leaf} \cup {s.transferTxid : s \in records} \cup {s.parentTxid : s \in records}

HasRecord(records, outpoint) == \E s \in records : s.transferTxid = outpoint

\* findOne({ propertyId, transferTxid }): unique, by the index on the pair.
RecordOf(records, outpoint) == CHOOSE s \in records : s.transferTxid = outpoint

\* Output 0 of the transaction that has `outpoint` as its change.
TransferBeside(outpoint) == <<outpoint[1], 0>>

\* Mutant of IsChangeOfRecord: the change is looked for at output 0.
IsTransferOfRecord(records, outpoint) ==
  outpoint[2] = 0 /\ HasRecord(records, TransferBeside(outpoint))

IsChangeOfRecord(records, outpoint) ==
  outpoint[2] = 1 /\ HasRecord(records, TransferBeside(outpoint))

\* One turn of the loop of traceShareChain: what the walk returns, or where
\* it goes on.
Turn(walk, records, mint, visited, current) ==
  IF current \in visited THEN "cycle"
  ELSE IF HasRecord(records, current)
  THEN LET parent == RecordOf(records, current).parentTxid
       IN IF parent = mint THEN "valid" ELSE walk[<<visited \cup {current}, parent>>]
  ELSE IF current = mint THEN "valid"
  ELSE IF IsChangeOfRecord(records, current)
  THEN walk[<<visited \cup {current}, RecordOf(records, TransferBeside(current)).parentTxid>>]
  ELSE "missing"

\* traceShareChain(leaf): "valid", "cycle" or "missing".
TraceShareChain(records, mint, leaf) ==
  LET walk[at \in (SUBSET Visitable(records, leaf)) \X Visitable(records, leaf)] ==
        Turn(walk, records, mint, at[1], at[2])
  IN walk[<<{}, leaf>>]

IsTraced(records, mint, leaf) == TraceShareChain(records, mint, leaf) = "valid"
=============================================================================
