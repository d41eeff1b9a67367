------------------------------ MODULE Bootstrap -----------------------------
(***************************************************************************)
(* How the database gets its indexes and the server gets to serve:         *)
(* scripts/db-migrate.ts, server/lib/mongo.ts, server/boot.ts and          *)
(* server/index.ts, over the share records of ShareRecords.                *)
(*                                                                         *)
(* The migration creates; the server only checks, once, when it connects,  *)
(* and exits when a required unique index is missing.  Nothing orders the  *)
(* two: the operator may start the server before, during or after a        *)
(* migration, and either may die at any step and be run again.             *)
(***************************************************************************)
EXTENDS ShareRecords, Sequences

CONSTANTS
  MaxMigrations,      \* bound: runs of db:migrate
  MaxStarts,          \* bound: starts of the server
  MaxFaults           \* bound: database or wallet calls that fail

ASSUME BoundsAssumption == {MaxMigrations, MaxStarts, MaxFaults} \subseteq Nat

Validated == {"properties", "shares", "property_descriptions", "market_items"}
Collections == Validated \cup {"share_locks", "listing_beefs", "auth_nonces"}

\* Mutant of Required: only the replay protection is asserted.
RequiredForReplay == {"auth_nonces"}

\* The collections whose unique index the server insists on.
Required == {"auth_nonces", "shares", "share_locks"}

\* ensureSchema, in its order: collections, then their unique indexes.
Plan ==
  << <<"collection", "properties">>, <<"collection", "shares">>,
     <<"collection", "property_descriptions">>, <<"collection", "market_items">>,
     <<"collection", "share_locks">>, <<"collection", "listing_beefs">>,
     <<"index", "properties">>, <<"index", "shares">>, <<"index", "property_descriptions">>,
     <<"index", "share_locks">>, <<"index", "listing_beefs">>,
     <<"collection", "auth_nonces">>, <<"index", "auth_nonces">> >>

VARIABLES
  collections,        \* the collections that exist
  validators,         \* those that have the validator of this release
  indexes,            \* those that have their unique index
  existing,           \* what the migration saw when it listed the collections
  migration,          \* the step it is at, 0 when it is not running
  server,             \* where the server process is
  migrations, starts, faults      \* bounds

schema == <<collections, validators, indexes>>
migrator == <<existing, migration, migrations>>
process == <<server, starts>>

bootVars == <<shares, schema, migrator, process, faults>>

\* A new database, or one whose collections an earlier release created.
BootInit ==
  /\ Init
  /\ collections \in {{}, Collections}
  /\ validators = {}
  /\ indexes \in {{}, {"auth_nonces"}}
  /\ indexes \subseteq collections
  /\ existing = {}
  /\ migration = 0
  /\ server = "down"
  /\ migrations = 0 /\ starts = 0 /\ faults = 0
-----------------------------------------------------------------------------
Fault == faults < MaxFaults /\ faults' = faults + 1

\* connectRaw and the list of the collections that there are.
BeginMigration ==
  /\ migration = 0 /\ migrations < MaxMigrations
  /\ migrations' = migrations + 1
  /\ existing' = collections
  /\ migration' = 1
  /\ UNCHANGED <<shares, schema, process, faults>>

\* The call returns; the last one ends the script.
Proceed ==
  /\ migration' = IF migration = Len(Plan) THEN 0 ELSE migration + 1
  /\ existing' = IF migration = Len(Plan) THEN {} ELSE existing
  /\ UNCHANGED migrations

\* The script exits with an error.
GiveUp == migration' = 0 /\ existing' = {} /\ UNCHANGED migrations

At(kind, name) == migration # 0 /\ Plan[migration] = <<kind, name>>

\* createCollection with the validator, or collMod of one that was listed.
MakeCollection(name) ==
  /\ At("collection", name)
  /\ collections' = collections \cup {name}
  /\ validators' = validators \cup ({name} \cap Validated)
  /\ Proceed
  /\ UNCHANGED <<shares, indexes, process, faults>>

\* No two share records have the same transferTxid.
NoDuplicates == \A s, t \in shares : s.transferTxid = t.transferTxid => s = t

\* createIndex, which makes the collection if need be.  The one on
\* properties first drops its predecessors.
MakeIndex(name) ==
  /\ At("index", name)
  /\ name = "shares" => NoDuplicates
  /\ indexes' = indexes \cup {name}
  /\ collections' = collections \cup {name}
  /\ Proceed
  /\ UNCHANGED <<shares, validators, process, faults>>

\* Calls of the migration whose failure is logged, "will continue".
Tolerated ==
  \/ \E name \in Validated \cap existing : At("collection", name)
  \/ At("index", "properties")

\* A call fails, or takes effect and its reply is lost; or the script dies.
MigrationCallFails ==
  /\ migration # 0
  /\ Fault
  /\ \/ UNCHANGED schema
     \/ \E name \in Collections :
          /\ At("index", name) /\ (name = "shares" => NoDuplicates)
          /\ indexes' = indexes \cup {name} /\ collections' = collections \cup {name}
          /\ UNCHANGED validators
  /\ IF Tolerated THEN Proceed ELSE GiveUp
  /\ UNCHANGED <<shares, process>>

MigrationDies ==
  /\ migration # 0
  /\ GiveUp
  /\ UNCHANGED <<shares, schema, process, faults>>
-----------------------------------------------------------------------------
ServerGoto(label) == server' = label /\ UNCHANGED <<shares, schema, migrator, starts>>

\* The process starts and boot() connects.
StartServer ==
  /\ server = "down" /\ starts < MaxStarts
  /\ starts' = starts + 1
  /\ server' = "connecting"
  /\ UNCHANGED <<shares, schema, migrator, faults>>

\* connectRaw: the handles are there.
Connect == server = "connecting" /\ ServerGoto("asserting") /\ UNCHANGED faults

\* assertRequiredIndexes: one is missing, and boot() rejects.
AssertIndexes ==
  /\ server = "asserting"
  /\ ServerGoto(IF Required \subseteq indexes THEN "wallet" ELSE "down")
  /\ UNCHANGED faults

\* getWalletQueue, and the routes are served.
BuildQueue == server = "wallet" /\ ServerGoto("listening") /\ UNCHANGED faults

\* A call of boot() fails: an index list that cannot be read is taken for an
\* empty one, and anything else rejects as well.
BootFails ==
  /\ server \in {"connecting", "asserting", "wallet"}
  /\ ServerGoto("down")
  /\ Fault

ServerDies == server # "down" /\ ServerGoto("down") /\ UNCHANGED faults

\* A route records a share.
RecordShare(record) ==
  /\ server = "listening"
  /\ IF "shares" \in indexes THEN Insert(record) ELSE InsertUnindexed(record)
  /\ UNCHANGED <<schema, migrator, process, faults>>

BootNext ==
  \/ BeginMigration
  \/ \E name \in Collections : MakeCollection(name) \/ MakeIndex(name)
  \/ MigrationCallFails \/ MigrationDies
  \/ StartServer \/ Connect \/ AssertIndexes \/ BuildQueue \/ BootFails \/ ServerDies
  \/ \E record \in Records : RecordShare(record)

BootSpec == BootInit /\ [][BootNext]_bootVars
-----------------------------------------------------------------------------
\* Every variable has its type.
TypeOK ==
  /\ RecordsOK
  /\ validators \subseteq collections /\ indexes \subseteq collections
  /\ collections \subseteq Collections /\ existing \subseteq Collections
  /\ migration \in 0 .. Len(Plan)
  /\ server \in {"down", "connecting", "asserting", "wallet", "listening"}

\* Whatever dies, fails or overlaps, records are only ever inserted as
\* ShareRecords says, one per outpoint: the server checks for the index only
\* once, and no order between it and the migration is enforced.
ImplementsShareRecords == Spec
=============================================================================
