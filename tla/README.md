# Fractionalized: a verification development

The program sells shares of real-estate properties as tokens on the BSV chain.
An admin tokenizes a property (a mint transaction holds all its tokens in one
output, and a prefunded output pays the fees of later transfers); investors buy
percentages of it from the server (the primary sale); they may list a share and
sell it to one another (the secondary sale). One Express process holds one
server wallet and one MongoDB database; a client in the browser holds the
user's wallet; an overlay service indexes transactions by id.

What makes it hard is that one operation touches four things that cannot be
changed together: the chain, the database, the wallet's baskets and the
overlay. Each handler is a sequence of awaits, between which any other handler
may run and at which the process may die.

## 1. Inventory

| Component | Code | State | Operations | Modelled in |
|---|---|---|---|---|
| Wallet queue | `server/lib/walletQueue.ts` | `tail`, `pending`, the memo | `enqueue`, `depth`, `getWalletQueue` | `WalletQueue`, `WalletService` |
| Server wallet memo | `server/lib/serverWallet.ts`, `makeWallet.ts` | `walletPromise` | `getServerWallet` | `WalletService` |
| Share lineage | `server/lib/shareChain.ts` | the `shares` collection | `traceShareChain` | `ShareChain`, `ShareRecords` |
| Database bootstrap | `scripts/db-migrate.ts`, `server/lib/mongo.ts`, `validators.ts`, `server/boot.ts` | collections, validators, unique indexes | migrate, connect, assert | `Bootstrap` |
| Tokenization | `server/routes/tokenize.ts`, client `admin.tsx` | property document, descriptions | `POST /api/tokenize/create-property` and the Submit button | `Tokenize` |
| Primary sale | `server/routes/sharePurchase.ts`, `shared/calcTokenTransfer.ts` | property document, `shares`, `share_locks` | `POST /api/share-purchase` | `SharePurchase` |
| Listings | `server/routes/listings.ts`, client `marketplace.tsx`, `useCancelListing.ts` | `market_items`, `listing_beefs`, `share_locks` | `POST /api/new-listing`, `/api/cancel-listing` | `Marketplace` |
| Listing purchase | `server/routes/listingPurchase.ts`, client `marketplace.tsx` | as above, `shares` | `POST /api/listing-purchase` | `Marketplace` |
| Authentication | `server/routes/auth.ts`, `middleware/*`, `authNonceStore.ts`, client `walletContext.tsx`, `login.tsx`, `ProtectedRoute.tsx`, `navbar.tsx`, `apiFetch.ts` | `auth_nonces`, the cookie, each page's status and memo | login, logout, check-session, the two guards | `Session` |
| Property list | `server/routes/properties.ts`, `propertiesPipeline.ts`, client `properties.tsx`, `filter-sort-modal.tsx` | the page's view, its address, requests in flight | search, page, filter, go back | `PropertySearch` |
| Pending key material | client `lib/pendingKeyMaterial.ts` | `localStorage` | save, attach, clear | in `Tokenize` and `Marketplace` |
| Overlay client | `shared/overlay.ts`, `server/lib/fetchTokenSourceTx.ts` | the index (external) | push, lookup | in `SharePurchase`, `Marketplace`, `Tokenize` |
| Read routes, pages, scripts | `routes/shares.ts`, `shared/bsv/*`, client pages | none of their own | queries, rendering, byte-level templates | section 8 |

How they interact: the routes call the wallet only through the queue; a route
reads the property document, builds a transaction that spends
`txids.currentOutpoint` (the unsold tokens) and `txids.paymentTxid` (the fee
pool), has the wallet sign and broadcast it, and only then writes what happened
to the database, answers, and pushes the transaction to the overlay. Nothing
locks the property: `share_locks` has one record per property *and investor*.
Two investors are kept apart by the chain alone, which accepts one spender of
an output.

Hard behaviours, each listed in `PROJECT.json` under `hazards` at its line: a
document read before the transfer and written back after it; a lock that
outlives its process; writes of which the second fails; a reply that is lost;
an index that lags; a pool that runs dry; an action that waits for itself; two
first calls that both see an empty memo; a migration that overlaps a server; a
mint that the schema then refuses; a proof sent twice; a cookie that an older
answer clears; an answer that overtakes a later one.

What makes each component right, in a line: the queue runs one action at a time
and there is one queue; a share traces to the mint and keeps doing so; a server
only serves under its unique indexes; a paid prefund keeps its nonce and a mint
its document; the unsold tokens are whole in one output however purchases race;
title moves only by lawful steps, on the chain and in the records; a proof acts
once and a dead session redirects once; the list shows the answer to the view it
is in.

## 2. Modules

| Module | What it is |
|---|---|
| `SerialExecutor` | The abstract specification of a queue that runs actions one at a time, in order. |
| `WalletQueue` | The promise chain, with the microtasks the engine runs for it. Refines `SerialExecutor` with `phase <- result`. |
| `WalletService` | Extends `WalletQueue` with the two memos through which the routes come by the queue. |
| `ShareChain` | `traceShareChain` as a recursive function of a set of records. |
| `ShareRecords` | The abstract collection the walk reads: one record per outpoint, only ever added. |
| `Bootstrap` | The migration and the start of the server over that collection. Refines `ShareRecords`. |
| `Tokenize` | How a property comes to be on sale: both halves of a submission, chain, database, local storage, failures and crashes. |
| `Offering` | The abstract specification of a sale: tokens handed out one transfer at a time, each entered in a register some time later. |
| `SharePurchase` | The primary sale: requests, property document, records, locks, chain, overlay, wallet queue, failures and crashes. Refines `Offering`. |
| `Deeds` | The abstract specification of title: one deed per holding, offered, withdrawn or sold. |
| `Marketplace` | The secondary sale: both halves of listing, cancelling and buying, chain, records, overlay, local storage, failures and crashes. Refines `Deeds` twice. |
| `Session` | Sessions and proofs: the tabs of one browser, its cookie jar, the wallet, requests that are lost, doubled and overtaken. |
| `PropertySearch` | The list of properties: the query, the page with its overlapping requests, the dialog, the address. |
| `...Proofs` | Proofs about `WalletQueue`, `WalletService`, `Bootstrap`, `Tokenize`, `SharePurchase`, `Marketplace`, `Session`, `PropertySearch`. |
| `MC...` | Instances for TLC. |

Definitions whose comment begins with *Mutant of* are not part of the model.
Each is a plausible mistake in the code; putting it in place of the definition
it names breaks a property, which shows that the property can fail.

How the modules compose. `WalletService` is the queue with those who use it; a
route that resumes with the queue in its hands enqueues in the same step.
`SharePurchase`, `Marketplace` and `Tokenize` use the queue as `SerialExecutor`
promises: only its head touches the wallet. `Bootstrap` guarantees the unique
indexes that `AcquireLock` (both sales) and `Fresh` (`Session`) rely on.
`Tokenize` ends where `SharePurchase` begins: `DocumentIsSellable` is the
initial state of the latter.

### WalletQueue

`enqueue()` registers three reactions and returns. `result[a]` is the promise it
returned, `tail` the action whose tail promise is `this.tail`, `after[a]` the
tail it chained off, `jobs` the microtask queue. `Enqueue` is the body of the
method, `Start`, `Advance` and `Settle` are the callbacks of lines 27, 30 and
35, `Reply` resumes the caller, and `Finish` is the moment at which the promise
of an action settles, either way. Nothing is assumed of when callers call.

### WalletService

`getServerWallet()` and `getWalletQueue()` memoise promises that may still be
pending. What decides whether a failure can be retried is the order of the
reactions, so the model keeps it: `hooks[p]` are the reactions registered with a
pending promise, `reactions` those whose turn it is, and a settling promise
appends the first to the second.

| Action | Code |
|---|---|
| `BorrowMemo`, `BorrowAfresh` | `getServerWallet()`, `serverWallet.ts:13`, with and without a memo |
| `AskMemo`, `AskOverWallet`, `AskAfresh` | `getWalletQueue()`, `walletQueue.ts:51`: memo, no memo over a memoised wallet, neither |
| `Handshake` | `makeWallet()` returns or throws |
| `Clear` | the two `catch` callbacks that drop the memo |
| `Derive` | `then(w => new WalletQueue(w))` |
| `Resume` | whoever awaited goes on; a route enqueues |
| `QueueStep` | `WalletQueue`'s own steps |

How the reactions of the memos interleave with the microtasks of the queue is
left open, which admits more orders than the engine has.

### ShareChain and ShareRecords

A record says that `transferTxid` was made by spending `parentTxid`. The walk
follows records back, steps from a change (output 1) to the parent of the share
beside it (output 0), and answers `valid`, `cycle` or `missing`. `TraceIsLineage`
compares it with a definition of ancestry that has no walk in it: an outpoint is
an ancestor if every set closed under "comes from" that holds the leaf holds it.

### Bootstrap

The migration creates collections and indexes one call at a time (`Plan` is the
order of `ensureSchema`); the server only looks, once, when it connects. Nothing
orders the two.

| Action | Code |
|---|---|
| `BeginMigration` | `db-migrate.ts` connects and lists the collections |
| `MakeCollection`, `MakeIndex` | one call of `ensureSchema` each |
| `MigrationCallFails`, `MigrationDies` | a call fails or its reply is lost; some failures are logged and passed over (`Tolerated`) |
| `StartServer`, `Connect`, `AssertIndexes`, `BuildQueue`, `BootFails`, `ServerDies` | `boot()` |
| `RecordShare` | a route inserts a share, under the index if there is one |

The initial database is new or was made by an earlier release: collections
without validators, and with or without the index of `auth_nonces`. No run and
no proof assumes that a migration ever ends.

### Tokenize

A flow is one click on Submit. Its three transactions are the prefund the
administrator pays, the property token, and the mint that spends the prefund.

| Action | Code |
|---|---|
| `Click`, `Pay`, `Hear`, `ClientCallFails` | `handleSubmit` of `admin.tsx` |
| `SavePending`, `Attach`, `ClearPending` | `pendingKeyMaterial.ts`: a read that fails yields an empty entry, which the next write keeps |
| `Admit`, `CheckLimits` | the guards and `tokenize.ts:54` and below |
| `CreateProperty`, `SignMint`, `Internalize` | the one enqueued action |
| `InsertProperty`, `InsertDescription` | the two inserts and their different answers to failure |
| `PushToOverlay`, `Abort` | the two places of the push, after the answer |
| `ServerCallFails`, `ServerCrash`, `CloseTab` | a call throws, the process dies, the tab is closed |

A form has a percentage, a number of investors and a number of features: what
the route and the schema refuse differently. Uploads and the texts are left out.

### Offering and SharePurchase

One process per request; `pc` says at which await it is. An action is the code
from the return of one await to the next. A transaction has the name of the
request that built it; output 0 is the investor's, output 1 the token change
(or the payment change when there is none), output 2 the payment change.

| Action | Code |
|---|---|
| `Arrive` | lines 79-94, validation |
| `AcquireLock` | 96-112, the insert under the unique index of `mongo.ts:206` |
| `ReadProperty`, `SumShares` | 114-142 |
| `FetchSources` | 153-237, `calcTokenTransfer`, the overlay lookup, and the enqueue |
| `SignAction`, `SignRefused`, `Internalize` | 331-403, inside the queue |
| `AdvanceOutpoints` | 410-435 |
| `CheckInvestor`, `InsertShare`, `UpdateSale` | 437-487 |
| `ReleaseLock` | 540-547 |
| `PushToOverlay` | 495-516 and 520-539, run by nobody's await |
| `CallFails` | the catch block, from any await |
| `Crash` | the process dies; the database, the chain and the overlay stay |

A write may also take effect and throw all the same (`WriteReturns`). The queue
is used as `SerialExecutor` promises: only its head touches the wallet.

Abstractions. Token amounts are whole percents. A transfer costs `Fee` of the
pool, whatever its size. The carried BEEF is always there (the tokenize route
and `AdvanceOutpoints` store it), so the token source needs no overlay. The
document has `sell.percentToSell` and its outpoints, as tokenize leaves it;
requests carry the session's own `investorId`. `sold` is a history variable:
what has left the issuer's outputs.

`Offering` is implemented by the chain and the records together: its ledger is what
spent the issuer's outputs (`ChainTransfers`), its register the share records
(`ImplementsOffering`). A signature hands out, an insert enters; everything else a
request does, the writes to the document included, stutters.

### Deeds and Marketplace

A flow is one click; it has a half in the browser and, once posted, a half on the
server. `client[f]` and `server[f]` say at which await each half is. A listing
moves a share to a multisig of seller and server, a cancellation moves it back,
a purchase moves it on to the buyer; listings and cancellations are on the
chain *before* the server hears of them, and a purchase is signed by the server.
The transaction of a flow has the flow's name and one token output.

| Action | Code |
|---|---|
| `ChooseShare`, `LookupSource`, `SignListing`, `PushListing` | `handleNewListing`, `marketplace.tsx:144-404` |
| `ChooseOwnListing`, `SignCancel`, `PushCancel` | `useCancelListing.ts:45-184` |
| `ChooseListing`, `Pay` | `handlePurchase`, `marketplace.tsx:410-470` |
| `Hear`, `ClientCallFails` | the answer, and the catch blocks of all three |
| `Check`, `AcquireLock` | the reads before the lock, and the insert, of the three handlers |
| `FetchSource`, `SignTransfer`, `SignTransferRefused` | `listingPurchase.ts:123-275` |
| `RecordShare`, `InsertItem`, `BackUpBeef` | `listings.ts:309-352` |
| `DropBeef`, `RemoveItem` | `listings.ts:151-162` |
| `DropBeef`, `MarkSold` | `listingPurchase.ts:322-341` |
| `ReleaseLock`, `PushToOverlay`, `ServerCallFails` | finally, the push, catch |
| `ServerCrash`, `CloseTab` | a half dies; chain, database, overlay and storage stay |

Things the model keeps because they decide what happens: the leaf check is made
before the lock and not again (`MayList`); a cancellation and a purchase ask
only whether the item exists (`MayCancel`, `MayBuy`; the lineage answer of
`listingPurchase.ts:91` is an object, so its guard never fires); `updateOne` of
an item that is sold already modifies nothing and throws; the push of a listing
must succeed before it is posted, that of a cancellation need not; storage that
refuses a nonce does not stop the flow (`unsaved` remembers that it did).

`Deeds` is implemented by the chain, whose deeds are its unspent outputs
(`ChainKeepsDeeds`), and by the share records, whose deeds are the records
without a child (`RecordsKeepDeeds`). The second lags behind the first and
reaches each title later or never, but takes only lawful steps.

Abstractions. A holding is listed whole, as the client does it; prices are left
out. Clients send what they built. Keys are not modelled: the multisig can be
spent by either party and a P2PKH output by its owner's template. Primary
purchases are over, recorded and in the overlay when the market begins.

### Session

The tabs of one browser share a jar with one cookie and talk to one wallet. A
request carries the cookie of the moment it was sent; its answer changes the jar
when it arrives, whatever has happened since and whether or not the page that
asked is still there. Proof `r` is the one request `r` carries, and session `r`
the one it makes.

| Action | Code |
|---|---|
| `Reload`, `CheckSession`, `CheckFails`, `Restore` | a page load and `AuthContextProvider`'s effect, `walletContext.tsx` |
| `ClickLogin`, `Mount`, `EnsureWallet`, `Connect`, `Sign` | `ensureWallet()` and those who await it |
| `Ask` | reads, the preflight of a flow that spends, and Logout |
| `RequireSession`, `RequireAuthProof`, `Consume` | the guards and `consumeNonce` |
| `Login`, `Unguarded` | `auth.ts` |
| `Deliver`, `NavigateToLogin` | `apiFetch` and its siblings; `LogoutLocally` is `logout()` |
| `Duplicate`, `Lose`, `ServerFails`, `Expire`, `SwitchWallet` | the network, the server, time and the user's wallet |

A proof is who signed it and for whom; its bytes and its minutes of validity are
left out, so every stale proof is still accepted by the model and single use
rests on the nonce alone. `NavigateToLogin` loads the new page in the same step,
while a browser lets the old one run on until it unloads: a second 401 that arrives
in between navigates to the same address again, which the model takes for one
navigation.

### PropertySearch

The page asks again whenever its view changes and cancels nothing, so answers
may arrive in any order (`overtaken` remembers when they did).

| Action | Code |
|---|---|
| `Mount`, `Leave` | the two effects of the first render, `properties.tsx:37` and `:56`; unmounting |
| `Show`, `Ask` | the effect on the view: the address takes it, a request is sent |
| `ChooseTab`, `TurnPage` | tabs, and Previous and Next |
| `OpenDialog`, `ToggleStatus`, `TypeBound`, `ChooseSort`, `CloseDialog` | `filter-sort-modal.tsx` |
| `Apply`, `ShowDraft` | `onApply`, `properties.tsx:229`: filters that were edited are a new object and are asked for again even if they are the same as before |
| `Serve` | `GET /api/properties` with `buildFacetPipeline`: `Match`, `PercentMatch`, `Sorted`, `PageOf`, `Total` |
| `Deliver`, `RequestFails` | the answer, or the catch block |
| `Write` | a property is stored or funded meanwhile |

A property has a price and a yield, which stand for the five ranges: the one is
matched before the facets, the other in each of them after a conversion. Equal
sort keys come in any order, as MongoDB leaves it. The address holds a view, and
reading it back is the identity: the model has no malformed addresses. A view is
set and asked for in one step; that React paints once before the effects of a first
render, an empty list without `loading` included, is left out.

## 3. Runs

| Run | Instance | Shows |
|---|---|---|
| `queue` | two routes, a probe, two wallets begun, three actions of which the second enqueues and awaits the third | one queue; a failed handshake is forgotten before anyone can retry; exact `depth()`; the refinement of `SerialExecutor`; every caller is answered but those behind the action that waits for itself |
| `share_records` | a mint and three transfers, three records, two migrations, two starts, one fault | the walk is ancestry, adding records never un-traces a share, and records are only inserted under the unique index |
| `tokenize` | two clicks, seven forms, one fault, one crash or closed tab | a paid prefund keeps its nonce, an unrecorded mint is explained, what got past the queue is indexed, the administrator hears |
| `purchase` | three requests, two investors, three tokens, one failed call or lost reply, one crash, a pool for three | the safety of the sale, and its refinement of `Offering` |
| `purchase_liveness` | two requests, two investors, no stored `remainingPercent`, a list with room for one investor, one failure | answers and locks, and the fallback of `sharePurchase.ts:127` |
| `market` | one holding, two listings, one cancellation, two purchases, two users | races, when nothing fails |
| `market_failures` | one flow of each kind, one failure, one crash or closed tab | what failures leave behind, and liveness |
| `session` | two tabs, one of them in full use, two identities, two requests, two handshakes, one event or fault | single use of a proof, one redirect per dead session, whose answer may clear a live cookie, and that every page load and login is over in the end |
| `search` | three properties with equal prices and yields among them, two per page, two visits, one change of view, one edit, one disturbance | pages that cover the matches, a settled page that is current, "nothing found" only when so or while the view is still asked for, coming back, an end to loading |
| `final_sale`, `cancel_conflict`, `tokenize_limits` | two requests, three flows, one form | disagreements with the documentation (section 6) |

Bounds. Three requests are the least for which one request may read between the
writes of a second and be overtaken by a third; two investors, so that two
requests share a lock and one does not. Three tokens let a sale end exactly, be
overshot and be left open. The pool pays for just as many
transfers as there are requests, so the last leaves no payment change and the
pointer to the pool stays on a spent output. One failure and one crash can each fall on
any await of any request; what a second failure adds is more dead requests, for
which the theorems of section 5 have no bound. In the market one cancellation
and two purchases compete for one listing, which is the least where a loser may
lose to either kind; two listings let a holding be listed again after it was
bought or reclaimed, and be listed twice at once.

Three actions are the least for which one has a predecessor and nests a
successor, and two builds let a handshake fail and be retried while others still
await the first; three callers with four actions were checked once by hand
(891,318 states). Two migrations and two starts let one of each overlap the
other's death and retry. The forms of `tokenize` have one member on each side of
every limit of the route, the schema and the minting code. Two requests in
`session`, besides the check of each page load, are a login with a duplicate or
a logout with a read sent under the older cookie; the second tab only logs out,
which is all it can do to the first. Three properties on pages of two are the
least with a page to turn and a last page that is not full; two have the same price
and two the same yield, so there are views with and without equal sort keys. A visit
through an address sends two requests, which with one change of view makes three in
flight: enough for the answer to an earlier view to end the loading of the last one
(without its last disjunct `NothingFoundIsTrue` fails in five states). Two visits are
the least to come back. The safety properties were checked once by hand with two
changes of view, on two properties (2,355,106 states).

Requests, investors, users, holdings and transfers are interchangeable, so the
safety runs of the sales and of the records use symmetry; no run with a liveness
property does. Deadlock is not checked: in every run the requests, clicks or
events come to an end, and then the system may stop.

## 4. Fairness

* `WalletQueue!Fairness`: the engine runs a queued microtask (weak fairness of
  the engine as a whole; it is the only one to take jobs), and an action that
  runs settles, because the calls it makes return or throw. No caller need ever
  call. `WalletService!ServiceFairness` adds that a queued reaction runs and a
  handshake ends.
* `SharePurchase!FairSpec`: a handler that can take its next step takes it, since
  the event loop resumes it when its call returns. `Marketplace!FairSpec` and
  `Tokenize!FairSpec` say the same of the two halves of a flow, each by itself,
  the latter of the push as well.
* `Session!FairSpec`: what was sent is served and its answer arrives, unless it
  is lost, and the wallet answers or declines.
* `PropertySearch!FairSpec`: some request in flight is always served or
  delivered next, in no particular order.

Neither arrivals, clicks, failures, crashes nor the closing of tabs are fair.

## 5. Proofs

TLAPS checks, for any constants that satisfy the assumptions:

* `WalletProofs`, about the queue: `TypeCorrect`, `OneAtATime`, `DepthCorrect`,
  `NestedIsStuck`, `Refinement`; about the service that builds it: `ServiceTypes`,
  `QueueIsOne`, `FailuresForgotten`, `ServiceIsSerial`, `ServiceKeepsCount`.
* `ShareChainProofs`: `TraceFinds`, and the lemmas on lineage that the next ones
  need.
* `BootstrapProofs`: `WalkIsLineage`, `LineageIsStable`, of the abstract records;
  `TypeCorrect`, `ServesWithIndexes`, `Refinement`, `LineageSurvives`.
* `TokenizeProofs`: `TypeCorrect`, `NoncesKept`, `UnrecordedExplained`,
  `DocumentsSellable`, `PushesOnce`, `ActionsAreServed`.
* `SharePurchaseProofs`: `TypeCorrect`, `NeverOversold`, `StaleIsExplained`,
  `AdvanceIsForward`, `LockExcludes`, `RecordsAreTrue`, `SharesTrace`,
  `SaleIsOffering`, `RecordsSumUp`, `RefusalsAreTrue`, `FundedIsTrue`, `InvestorsAreCounted`,
  `LocksHaveHolders`, `ActionsAreServed`.
* `MarketplaceProofs`: `TypeCorrect`, `RecordsFollow`, `ItemsAgree`,
  `ListedResolves`, `SpendersProceed`, `NoncesSurvive`, `ChainImplementsDeeds`,
  `RecordsImplementDeeds`, `RecordsAlwaysTrace`, `LosersLostTheRace`.
* `SessionProofs`: `TypeCorrect`, `ActsOnce`, `NoLoop`, `HandshakesDeduped`,
  `SessionsStay`.
* `PropertySearchProofs`: `TypeCorrect`, `SettledShowsView`, `BackRestores`,
  `PagesCover`, `NothingFoundIsSo`.

Every invariant, action property and refinement that a passing run checks is one of
these theorems.

The argument of `WalletProofs`. The invariant of the queue says that each action
chains off the one before it (`Chained`), that the job that starts an action is in
the microtask queue only when its predecessor has advanced (`TurnsInOrder`), and at
most once (`Once`). `DepthInv` says that the counter is the number of actions that
have not settled, or have but wait for their decrement to run (`Counted`); with an
empty microtask queue these are the unsettled ones. `Stuck` says of nested actions that the inner one waits
and the outer one runs: the inner one's turn comes after the outer one has ended, and
the outer one ends after its own await of the inner one, so neither step is ever
enabled. In the service, `OneQueue` holds because only a memoised promise is alive
(`MemosInv`), and `FailureIsForgotten` because of the order in which reactions run,
so the invariant speaks of that order: `Kept` says that the
first reaction kept with a pending promise is the one that clears its memo, and
`InTurn` that of the reactions to be run none is doubled, that a rejected
promise is still in its memo exactly while its clearing is to come, and that
nobody awaiting it resumes before that. Each reaction stands for one promise
(`Of`), so what one promise's settling appends is apart from what is there. As
every step of the service is a step or a stutter of the queue, `ServiceIsSerial`
follows from the theorem `Refinement` of the queue, and `ServiceKeepsCount` from
the two before it.

The argument of `ShareChainProofs`. `TraceShareChain` is a recursive function, and
the provers have no induction over data. In its place stands the least set: the
states of the walk from which it goes on to "valid" are the least set of states
that holds the last turn and is closed under going back (`LeadTo`), and a walk that
fails has visited a set that is closed under parents and misses the mint
(`Reached`). That is the definition of lineage (`Descends`), so `TraceFinds` holds
for any records, gaps and cycles included. `RankedDescends` shows the other way
how a lineage is established: each record leads to one of lower rank, and of the
ranks there is a least. The same device serves for every recursion below.

The argument of `BootstrapProofs`. Nothing drops a required index, so a server
that got past its one look has what it looked for (`Checked`), and `RecordShare`
is then the abstract insert. `RecordsInv` is what the index adds to any set of
records: one record for one output. With it `ShareChainProofs` gives
`WalkIsLineage`, and as more records close under no fewer parents
(`DescendsMonotone`), `LineageIsStable`. `LineageSurvives` carries both over the
refinement to a server that really runs.

The argument of `TokenizeProofs`. `Kept` follows the nonce: nothing is paid
before it was saved, and only a mint makes it superfluous. `HandledAt` bounds
how far a handler can be given the browser, the chain and `minted`; `AnsweredAt`
what it has answered and pushed once it is done; `Documented` says that each
document was inserted for a mint on chain.

The argument of `SharePurchaseProofs`. The properties are not inductive: they
do not say why two requests cannot both spend the unsold tokens. `ChainInv`
adds it. *UpToDate*: what a request has read is still in the document, or is
spent. *Signed*: between the signature and the update the document still has
the outpoints that were spent, and they name this request as their spender; so
at most one request is there. *Unreached*: a request that has not got there has
no outputs anyone knows of. *Pointers*: token pointers point to the issuer's
outputs and payment pointers do not, so the two inputs differ. *Enough*,
*Positive* and *Final* carry the guards of the handler to where they matter.
Only `SignAction`, `AdvanceOutpoints` and `ReadProperty` touch what the
invariant speaks of; every other action is covered by one lemma (`QuietStep`)
from what `StepMoves` proves of the control. `Locked` is the invariant for the
lock record.

`BackedInv` is the invariant for the records: who has signed spent what it read, all
of it, and a record is the one its request would write (`ShareOf`); the document may
have moved on meanwhile, which is why the handler keeps what it read. Without
failures each signed transfer has its record or is on the way to it, and tokens only
get fewer down the chain, so `RankedDescends` gives `SharesTrace`. `SaleIsOffering`
needs the converse too, that whatever spent an issuer's output is a transfer that read
it (`SpentInv`): the fee pool never becomes one. With it the ledger on the chain is the
set of records of all who signed, which a signature extends by one. `CountInv` adds
the investors: at most one request of an investor is between its check and its
update (`Locked`), so `investors` and those still to be counted are never more than
the holders, and are exactly these while nothing has failed.

`RecordsSumUp` is about the sum in `sharePurchase.ts:131`. `TotalSold` folds over a
set in an order nobody knows; `TotalOfAny` shows that any record may be taken out
first and `TotalOfPart` that a part does not sum up to more, each by the least set
for which it would fail. `SumInv` says that the records of all who signed, those
never inserted included, sum up to what the chain has transferred. `RemainingInv`
says that every percentage a request goes by, stored, summed up or defaulted, is at
least what is unsold: lost updates err to one side only, which is why a sold-out
property may stay open and never the converse. `RefusalsAreTrue` and `FundedIsTrue`
follow, for a property with a stored percentage and for one without.

`LocksHaveHolders` and the two theorems `ActionsAreServed` are the safety behind
`LocksReleased`, `EveryRequestAnswered` and `EveryAdminHears`. A lock that outlives
its request, or a wallet action that nobody awaits at the head of the queue, would
hold up everyone after it however fair the scheduler is. `LocksAreHeld` needs a
failure for the first. `QueueInv` excludes the second even with failures and
crashes: who awaits an action has it in the queue once, only the action at the head
has begun, and every way out of it takes it off the queue. In a submission `PaidFirst`
adds that signing finds the prefund, which no other mint can have spent.

The argument of `MarketplaceProofs`. The chain accepts one spender of an
output, so of all the flows with one source at most one is made; only a flow
that was made is recorded, and at most once; hence each record has at most one
child, and the records repeat what the chain has done. No property says this by
itself, and `IInv` adds the steps between. *Control*: how far each half of a
flow can be, given the other. *Made*: a listing or cancellation is on chain
before the server hears of it, a purchase only once the server has signed it;
so a server half that is past its checks has its transaction. *Chosen*: what a
flow spends was recorded when it was chosen, and still is. *Spending*: an output
and its spender name each other. *Records*: one record for one transaction, at
the output its kind pays the share to. *Items*, *Answered* and *Stored* tie the
items, the answers and the browser's storage to these. `FlowStep` lists what one
step can do to the two halves of a flow and `DataStep` what it can do to the
rest; both are proved once, action by action (`Steps`), and each part of the
invariant then follows from them. For the refinements, `Publish` is the only
step that changes deeds on the chain and `RecordShare` the only one that changes
them in the records; every other step stutters. What the market starts from
traces, and a record is only ever added below a recorded one, so descent from the
mint is inductive (`Lineage`) and `RecordsAlwaysTrace` holds without any condition,
unlike in the primary sale. For `LosersLostTheRace`, `Holders` says that whoever holds a lock has
been past it: a conflict therefore names another flow of the same user. That a
source is found is `ListedIsResolvable`; that an output which is gone was taken by
another is *Spending*; an error needs a failure, which is counted.

The argument of `SessionProofs`. `ActsInv`: a proof acts when its nonce is fresh,
which consumes it. `CookieInv`: an answer that clears the cookie is that of a
logout or the refusal of a dead one. `MemoInv`: the handshake in flight is the
memoised one unless the user has logged out of the page. `LoopInv` is the part
that no test would find: a page that was taken to `/login`, and has not been let
in since, has only logins in flight and makes them from there, because leaving
the page orphans whatever it had asked before.

The argument of `PropertySearchProofs`. From the first request on the address
and the last request are those of the view (`AddressInv`), and that request is
in flight or was the last to be applied unless an answer came out of order
(`LatestInv`). For the types, a page is a sequence of properties whatever page
an old address asks for. For `PagesCover`, matches with different sort keys have
one sorted sequence only (`SortedIsUnique`: the first place where two differ leads
to an order both ways round), so the pages are slices of the same sequence whoever
sorted it, and its length is the number of matches; that no page is empty needs
no such uniqueness. The invariant of
`NothingFoundIsSo` is `QuietInv`: as long as nothing is written, answers and what
is shown are pages of the query they were asked for, and the page asked for exists
unless it came from an old address or an earlier answer; a page that exists is not
empty. If the request for the view on screen is no longer in flight, its answer is
what is shown (`LatestInv`), so a false notice needs that request to be unanswered;
the theorem makes no assumption about the others in flight.

The assumptions are those of the modules: flows of the three kinds are disjoint
from each other and from the initial holdings, names that stand for nothing are
not among the things they stand beside, an address holds a query, there are
finitely many properties and initial holdings, and all constants are otherwise
free. `Deeds` and `Offering` have no failures: that the proofs hold with any number of failed
calls, lost replies, crashes and closed tabs is what they add to the runs.

Proved and in no run, because the runs' properties are about something else:
the type invariants, `Serial`, `ServesWithIndexes` (as the invariant `Checked`),
`DocumentIsSellable`, `PushedOnce`, `SharesBackedByChain` (which `ImplementsOffering`
implies), `OneTransferPerInvestor`,
`FundedOnlyWhenSoldOut`, `RecordsFollowChain`, `SpenderIsNotRefused` and
`OneHandshake`.

Only model-checked: the nine liveness properties (`EveryCallerAnswered`,
`EveryRequestAnswered`, `LocksReleased`, `MarketSettles`, `EveryClientHears`,
`MintIsIndexed`, `EveryAdminHears`, `EveryPageSettles`, `SearchSettles`): they need
fairness, hence `ENABLED`, which the prover does not handle. That nothing stands in
the way of a fair scheduler is proved for some of them (`LocksHaveHolders`,
`ActionsAreServed`).

## 6. Where the code and its documentation disagree

| Run | Documented | What happens |
|---|---|---|
| `final_sale` | README:42, a final sale marks the property `funded` | Two concurrent purchases sell everything and one update of `remainingPercent` is lost (`sharePurchase.ts:461`): the status stays open, and later buyers fail on chain. |
| `cancel_conflict` | README:47, on Cancel the server removes the listing | The lock is asked for after the cancellation is on chain (`listings.ts:127`). When the seller has another transfer in progress the answer is 409: the reclaimed share is never recorded, and the item stays on offer to buyers who will pay the fee and be refused by the network. |
| `tokenize_limits` | `tokenize.ts:54`, the limits match `validators.ts` | The route admits 10^7 investors, the schema 100 (`validators.ts:42`), and the insert comes after the mint: such a form is minted and can never be sold. |

Others that no run shows, met while modelling:

* README:26 calls the overlay a fallback only; the payment source has no other
  path (`sharePurchase.ts:234`).
* README:50 has each share trace to the original mint; an insert that fails after
  the document advanced cuts off every later share (`QuietSharesTrace` is about
  the quiet case).
* `sharePurchase.ts:108` answers that a transfer is in progress; the lock record of
  a request that died answers so for ever.
* README:61 says that the push to the overlay is best effort; `marketplace.tsx:331`
  returns without posting a listing whose push failed, although it is on chain
  (the model has it so; the nonce stays in local storage).
* README:21-24 has the nonce of a share in the database; from the signature of a
  primary purchase to `sharePurchase.ts:457` it is only in memory.
* `login.tsx:64` says that an authenticated visitor never sees the login form; one
  whose check-session request failed does.
* `properties.tsx:86` applies whichever answer comes last: an answer to an earlier
  view may stay on screen until the next click (`overtaken`).
* `properties.tsx:93` ends the loading with whichever answer comes first: click an
  empty tab and then another, and the page says "No properties found." until the
  second answer comes, with answers in order and matches in the database
  (`NothingFoundIsTrue` confines the false notice to that time).
* `requireSession.ts:46` clears the cookie with the refusal of one that has expired,
  whenever that answer arrives: also the one a login has set meanwhile
  (`LiveSessionStays` names this case).
* `pendingKeyMaterial.ts:41` rewrites the whole entry from what it could read: after
  an unreadable entry the earlier nonces are gone (`lost`, in `Tokenize`).
* `propertiesPipeline.ts:166` tests `$ne` null, which holds of a field that is not
  there, so a document without `remainingPercent` is listed without a percentage
  instead of with the computed one.
* `pendingKeyMaterial.ts:75` calls the records that survive operations that
  broadcast; those whose payment was declined survive as well.

## 7. Plan

Done: every component that keeps state has its module, and eight modules have
proofs. What would come next:

1. The primary and the secondary sale in one module: where `remainingPercent` is
   not stored, `sharePurchase.ts:131` also sums the shares of secondary sales.
   No property covers that hazard. Two others have none because what can go wrong
   does (section 6): a share insert that fails (`sharePurchase.ts:457`) and a storage
   entry that is rewritten after an unreadable one (`pendingKeyMaterial.ts:41`).
2. Two browsers in `Tokenize` and `Marketplace`, each with its own storage.

## 8. Not modelled

* Byte-level script templates, key derivation and signatures (`shared/bsv`): pure
  functions of cryptographic values, out of a model checker's reach. The models
  keep who holds which output and who signed what.
* The numbers of a single property (`properties.ts:83`): arithmetic on one
  document. `my-shares`, `my-listings` and the probes: they read and keep no
  state; what they select is what the flows of `Marketplace` start from.
* `reindexFromBasket`: it has no caller.
* Uploads, rendering, logging and message texts.
