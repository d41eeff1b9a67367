---------------------------- MODULE ShareRecords ----------------------------
(***************************************************************************)
(* The shares collection of one property, to which the routes only ever    *)
(* add records, and the lineage that ShareChain reads from it.             *)
(***************************************************************************)
EXTENDS ShareChain, FiniteSets

CONSTANTS
  Txids,          \* the transactions there are
  Mint,           \* the one that minted the property's tokens
  MaxShares       \* bound on the number of records

ASSUME MintAssumption == Mint \in Txids

VARIABLE shares

MintOutpoint == <<Mint, 0>>

Outpoints == Txids \X {0, 1}

\* Routes record output 0 of a transaction as a share; the parent may be
\* output 0 of an earlier one or its change at output 1.
Records == [transferTxid : (Txids \ {Mint}) \X {0}, parentTxid : Outpoints]

Init == shares = {}

\* insertOne into a collection whose index on (propertyId, transferTxid) is
\* missing, or not unique.
InsertUnindexed(record) ==
  /\ Cardinality(shares) < MaxShares
  /\ shares' = shares \cup {record}

\* insertOne, under the unique index (propertyId, transferTxid).
Insert(record) ==
  /\ Cardinality(shares) < MaxShares
  /\ ~HasRecord(shares, record.transferTxid)
  /\ shares' = shares \cup {record}

Next == \E record \in Records : Insert(record)

Spec == Init /\ [][Next]_shares
-----------------------------------------------------------------------------
\* One step of lineage: a share comes from its parent, and so does the
\* change beside it.
ComesFrom ==
  {<<s.transferTxid, s.parentTxid>> : s \in shares}
    \cup {<<<<s.transferTxid[1], 1>>, s.parentTxid>> : s \in shares}

\* What lies on the way back from `leaf`: every set that holds it and is
\* closed under ComesFrom holds its ancestors.
HasAncestor(leaf, outpoint) ==
  \A S \in SUBSET Outpoints :
    (leaf \in S /\ \A step \in ComesFrom : step[1] \in S => step[2] \in S) => outpoint \in S

\* The records have their type.
RecordsOK == shares \subseteq Records

\* traceShareChain accepts an outpoint exactly when the mint is among its
\* ancestors, whatever the records look like: gaps, cycles, change outputs.
TraceIsLineage ==
  \A leaf \in Outpoints :
    IsTraced(shares, MintOutpoint, leaf) <=> HasAncestor(leaf, MintOutpoint)

\* A share that traces to the mint goes on tracing to it, with the same
\* ancestry, however many records are added.
TraceIsStable ==
  [][\A leaf \in Outpoints :
       IsTraced(shares, MintOutpoint, leaf) => IsTraced(shares', MintOutpoint, leaf)]_shares
=============================================================================
