---------------------------- MODULE BootstrapProofs -------------------------
(***************************************************************************)
(* Proofs about Bootstrap for any transactions, bounds and interleaving of *)
(* migrations with starts of the server: whoever serves has the indexes,   *)
(* and about the records it keeps: the walk over them finds the lineage.   *)
(***************************************************************************)
EXTENDS Bootstrap, ShareChainProofs, SequenceTheorems, TLAPS

\* A server that got past its check has what it checked for: nothing drops a
\* required index, so one look, before anything is served, is enough.
Checked == server \in {"wallet", "listening"} => Required \subseteq indexes

IInv == TypeOK /\ Checked

\* The plan is a sequence of steps over known collections.
LEMMA PlanType ==
  /\ Len(Plan) = 13
  /\ \A i \in 1 .. Len(Plan) : Plan[i] \in {"collection", "index"} \X Collections
PROOF BY DEF Plan, Collections, Validated

LEMMA InitIInv == ASSUME BootInit PROVE IInv
PROOF BY PlanType DEF BootInit, Init, IInv, TypeOK, RecordsOK, Checked, Records

\* The migration stays within its plan.
LEMMA PlanKept ==
  ASSUME TypeOK, migration # 0, Proceed \/ GiveUp
  PROVE  migration' \in 0 .. Len(Plan) /\ existing' \subseteq Collections
PROOF BY PlanType DEF TypeOK, Proceed, GiveUp

\* An insert adds one of the records there are.
LEMMA InsertType ==
  ASSUME NEW record \in Records, RecordsOK, Insert(record) \/ InsertUnindexed(record)
  PROVE  RecordsOK'
PROOF BY DEF RecordsOK, Insert, InsertUnindexed

\* What a step of the migration does: indexes are only ever added.
LEMMA MigrationStep ==
  ASSUME IInv,
         \/ BeginMigration
         \/ \E name \in Collections : MakeCollection(name) \/ MakeIndex(name)
         \/ MigrationCallFails \/ MigrationDies
  PROVE  IInv'
<1>1. CASE BeginMigration
  BY <1>1, PlanType DEF IInv, TypeOK, Checked, RecordsOK, BeginMigration, schema, process
<1>2. ASSUME NEW name \in Collections, MakeCollection(name) PROVE IInv'
  <2>1. migration' \in 0 .. Len(Plan) /\ existing' \subseteq Collections
    BY <1>2, PlanKept DEF IInv, MakeCollection, At
  <2> QED
    BY <1>2, <2>1 DEF IInv, TypeOK, Checked, RecordsOK, MakeCollection, process
<1>3. ASSUME NEW name \in Collections, MakeIndex(name) PROVE IInv'
  <2>1. migration' \in 0 .. Len(Plan) /\ existing' \subseteq Collections
    BY <1>3, PlanKept DEF IInv, MakeIndex, At
  <2> QED
    BY <1>3, <2>1 DEF IInv, TypeOK, Checked, RecordsOK, MakeIndex, process
<1>4. CASE MigrationCallFails
  <2>1. migration' \in 0 .. Len(Plan) /\ existing' \subseteq Collections
    BY <1>4, PlanKept DEF IInv, MigrationCallFails
  <2> QED
    BY <1>4, <2>1 DEF IInv, TypeOK, Checked, RecordsOK, MigrationCallFails, schema, process
<1>5. CASE MigrationDies
  <2>1. migration' \in 0 .. Len(Plan) /\ existing' \subseteq Collections
    BY <1>5, PlanKept DEF IInv, MigrationDies
  <2> QED
    BY <1>5, <2>1 DEF IInv, TypeOK, Checked, RecordsOK, MigrationDies, schema, process
<1> QED
  BY <1>1, <1>2, <1>3, <1>4, <1>5

\* What a step of the server does: it passes the check only with the indexes.
LEMMA ServerStep ==
  ASSUME IInv, StartServer \/ Connect \/ AssertIndexes \/ BuildQueue \/ BootFails \/ ServerDies
  PROVE  IInv'
PROOF BY PlanType
      DEF IInv, TypeOK, Checked, RecordsOK, StartServer, Connect, AssertIndexes, BuildQueue,
          BootFails, ServerDies, ServerGoto, schema, migrator

LEMMA RecordStep ==
  ASSUME IInv, NEW record \in Records, RecordShare(record)
  PROVE  IInv'
<1>1. RecordsOK'
  BY InsertType DEF IInv, TypeOK, RecordShare
<1> QED
  BY <1>1, PlanType DEF IInv, TypeOK, Checked, RecordShare, schema, migrator, process

LEMMA StepIInv == ASSUME IInv, [BootNext]_bootVars PROVE IInv'
<1>1. CASE BootNext
  BY <1>1, MigrationStep, ServerStep, RecordStep DEF BootNext
<1>2. CASE UNCHANGED bootVars
  BY <1>2, PlanType DEF bootVars, schema, migrator, process, IInv, TypeOK, Checked, RecordsOK
<1> QED
  BY <1>1, <1>2

LEMMA AlwaysIInv == BootSpec => []IInv
<1>1. BootInit => IInv
  BY InitIInv
<1>2. IInv /\ [BootNext]_bootVars => IInv'
  BY StepIInv
<1> QED
  BY <1>1, <1>2, PTL DEF BootSpec
-----------------------------------------------------------------------------
\* Every variable keeps its type (mongo.ts, db-migrate.ts, boot.ts).
THEOREM TypeCorrect == BootSpec => []TypeOK
<1>1. IInv => TypeOK
  BY DEF IInv
<1> QED
  BY <1>1, AlwaysIInv, PTL

\* A server that serves has every required unique index (mongo.ts:227),
\* however migrations and starts overlap, fail and die.
THEOREM ServesWithIndexes == BootSpec => [](server = "listening" => Required \subseteq indexes)
<1>1. IInv => (server = "listening" => Required \subseteq indexes)
  BY DEF IInv, Checked
<1> QED
  BY <1>1, AlwaysIInv, PTL

\* So the share records under a migrating, crashing and restarting system are
\* those of ShareRecords: one insert at a time, one record per outpoint.
THEOREM Refinement == BootSpec => ImplementsShareRecords
<1>1. BootInit => Init
  BY DEF BootInit
<1>2. IInv /\ [BootNext]_bootVars => [Next]_shares
  <2> SUFFICES ASSUME IInv, [BootNext]_bootVars PROVE [Next]_shares
    OBVIOUS
  <2>1. ASSUME NEW record \in Records, RecordShare(record) PROVE Next
    <3>1. "shares" \in indexes
      BY <2>1 DEF IInv, Checked, RecordShare, Required
    <3> QED
      BY <2>1, <3>1 DEF RecordShare, Next
  <2>2. CASE UNCHANGED bootVars
    BY <2>2 DEF bootVars
  <2>3. CASE \/ BeginMigration \/ MigrationCallFails \/ MigrationDies
             \/ \E name \in Collections : MakeCollection(name) \/ MakeIndex(name)
    BY <2>3 DEF BeginMigration, MigrationCallFails, MigrationDies, MakeCollection, MakeIndex
  <2>4. CASE StartServer \/ Connect \/ AssertIndexes \/ BuildQueue \/ BootFails \/ ServerDies
    BY <2>4 DEF StartServer, Connect, AssertIndexes, BuildQueue, BootFails, ServerDies, ServerGoto
  <2> QED
    BY <2>1, <2>2, <2>3, <2>4 DEF BootNext
<1> QED
  BY <1>1, <1>2, AlwaysIInv, PTL DEF BootSpec, ImplementsShareRecords, Spec
-----------------------------------------------------------------------------
\* The records one insert at a time makes: finitely many, one per outpoint.
RecordsInv == RecordsOK /\ IsFiniteSet(shares) /\ NoDuplicates

LEMMA InsertKeeps ==
  ASSUME RecordsInv, [Next]_shares
  PROVE  RecordsInv' /\ shares \subseteq shares'
<1>1. CASE UNCHANGED shares
  BY <1>1 DEF RecordsInv, RecordsOK, NoDuplicates
<1>2. ASSUME NEW record \in Records, Insert(record)
      PROVE  RecordsInv' /\ shares \subseteq shares'
  <2>1. shares' = shares \cup {record} /\ \A s \in shares : s.transferTxid # record.transferTxid
    BY <1>2 DEF Insert, HasRecord
  <2>2. IsFiniteSet(shares \cup {record})
    BY FS_AddElement DEF RecordsInv
  <2>3. RecordsOK'
    BY <1>2, InsertType DEF RecordsInv
  <2>4. NoDuplicates'
    BY <2>1 DEF RecordsInv, NoDuplicates
  <2> QED
    BY <2>1, <2>2, <2>3, <2>4 DEF RecordsInv
<1> QED
  BY <1>1, <1>2 DEF Next

LEMMA AlwaysRecordsInv == Spec => []RecordsInv
<1>1. Init => RecordsInv
  BY FS_EmptySet DEF Init, RecordsInv, RecordsOK, NoDuplicates
<1>2. RecordsInv /\ [Next]_shares => RecordsInv'
  BY InsertKeeps
<1> QED
  BY <1>1, <1>2, PTL DEF Spec

LEMMA RecordsWellFormed ==
  ASSUME RecordsInv
  PROVE  /\ WellFormed(shares, MintOutpoint)
         /\ \A s \in shares : s.transferTxid \in Outpoints /\ s.parentTxid \in Outpoints
<1>1. \A s \in shares : /\ s.transferTxid \in (Txids \ {Mint}) \X {0}
                        /\ s.parentTxid \in Outpoints
  BY DEF RecordsInv, RecordsOK, Records
<1>2. \A s \in shares : s.transferTxid = <<s.transferTxid[1], 0>> /\ s.transferTxid[1] # Mint
  BY <1>1
<1>3. MintOutpoint = <<MintOutpoint[1], 0>>
  BY DEF MintOutpoint
<1> QED
  BY <1>1, <1>2, <1>3 DEF RecordsInv, NoDuplicates, WellFormed, Outpoints, MintOutpoint

\* Ancestry, as ShareRecords states it, is descent as ShareChainProofs does.
LEMMA AncestryIsDescent ==
  ASSUME RecordsInv, NEW leaf \in Outpoints
  PROVE  HasAncestor(leaf, MintOutpoint) <=> Descends(shares, MintOutpoint, leaf, Outpoints)
<1>1. ASSUME NEW S PROVE (\A step \in ComesFrom : step[1] \in S => step[2] \in S) <=> Closed(shares, S)
  <2>1. ASSUME Closed(shares, S), NEW step \in ComesFrom, step[1] \in S PROVE step[2] \in S
    <3>1. PICK s \in shares : \/ step = <<s.transferTxid, s.parentTxid>>
                             \/ step = <<<<s.transferTxid[1], 1>>, s.parentTxid>>
      BY DEF ComesFrom
    <3>2. step[2] = s.parentTxid
          /\ (step[1] = s.transferTxid \/ step[1] = <<s.transferTxid[1], 1>>)
      BY <3>1
    <3> QED
      BY <2>1, <3>2 DEF Closed
  <2>2. ASSUME \A step \in ComesFrom : step[1] \in S => step[2] \in S PROVE Closed(shares, S)
    <3> SUFFICES ASSUME NEW s \in shares,
                        s.transferTxid \in S \/ <<s.transferTxid[1], 1>> \in S
                 PROVE  s.parentTxid \in S
      BY DEF Closed
    <3>1. /\ <<s.transferTxid, s.parentTxid>> \in ComesFrom
          /\ <<<<s.transferTxid[1], 1>>, s.parentTxid>> \in ComesFrom
      BY DEF ComesFrom
    <3> QED
      BY <2>2, <3>1
  <2> QED
    BY <2>1, <2>2
<1> QED
  BY <1>1 DEF HasAncestor, Descends

LEMMA LineageHolds == ASSUME RecordsInv PROVE TraceIsLineage
<1> SUFFICES ASSUME NEW leaf \in Outpoints
             PROVE  IsTraced(shares, MintOutpoint, leaf) <=> HasAncestor(leaf, MintOutpoint)
  BY DEF TraceIsLineage
<1>1. Visitable(shares, leaf) \subseteq Outpoints
  BY RecordsWellFormed DEF Visitable
<1>2. leaf = <<leaf[1], leaf[2]>>
      /\ \A s \in shares : s.parentTxid = <<s.parentTxid[1], s.parentTxid[2]>>
  BY RecordsWellFormed DEF Outpoints
<1> QED
  BY <1>1, <1>2, RecordsWellFormed, AncestryIsDescent, TraceFinds DEF RecordsInv

\* Whatever records the routes make, with gaps, cycles and change outputs,
\* traceShareChain finds exactly the lineage (shareChain.ts:23).
THEOREM WalkIsLineage == Spec => []TraceIsLineage
BY AlwaysRecordsInv, LineageHolds, PTL

\* A share that traces goes on tracing, whatever is recorded after it
\* (shareChain.ts:74): a record takes no ancestor away.
THEOREM LineageIsStable == Spec => TraceIsStable
<1>1. RecordsInv /\ [Next]_shares
      => [\A leaf \in Outpoints : IsTraced(shares, MintOutpoint, leaf)
                                 => IsTraced(shares', MintOutpoint, leaf)]_shares
  <2> SUFFICES ASSUME RecordsInv, [Next]_shares, NEW leaf \in Outpoints,
                      IsTraced(shares, MintOutpoint, leaf)
               PROVE  IsTraced(shares', MintOutpoint, leaf)
    OBVIOUS
  <2>1. RecordsInv' /\ shares \subseteq shares' /\ MintOutpoint' = MintOutpoint
    BY InsertKeeps DEF MintOutpoint
  <2>2. Descends(shares, MintOutpoint, leaf, Outpoints)
    BY LineageHolds, AncestryIsDescent DEF TraceIsLineage
  <2>3. Descends(shares', MintOutpoint, leaf, Outpoints)
    BY <2>1, <2>2, DescendsMonotone
  <2>4. (\A s \in shares : s.transferTxid \in Outpoints /\ s.parentTxid \in Outpoints)'
    BY <2>1, RecordsWellFormed, PTL
  <2>5. WellFormed(shares, MintOutpoint)'
    BY <2>1, RecordsWellFormed, PTL
  <2>6. Visitable(shares', leaf) \subseteq Outpoints
    BY <2>4 DEF Visitable, Outpoints
  <2> QED
    BY <2>1, <2>3, <2>5, <2>6, DescendsTraced DEF WellFormed
<1> QED
  BY <1>1, AlwaysRecordsInv, PTL DEF Spec, TraceIsStable

\* So it does under a migrating, crashing and restarting system (boot.ts).
THEOREM LineageSurvives == BootSpec => []TraceIsLineage /\ TraceIsStable
BY Refinement, WalkIsLineage, LineageIsStable, PTL DEF ImplementsShareRecords
=============================================================================
