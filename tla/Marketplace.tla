----------------------------- MODULE Marketplace ----------------------------
(***************************************************************************)
(* The secondary market of one property: new-listing, cancel-listing and   *)
(* listing-purchase, each with the half that runs in a browser.            *)
(*                                                                         *)
(* A listing and a cancellation are built, signed and put on the chain by  *)
(* the client, which then asks the server to record them; a purchase is    *)
(* signed by the server.  A listed share is locked to a 1-of-2 multisig of *)
(* seller and server, so both a cancellation and a purchase can spend it,  *)
(* and the chain alone decides between them.                               *)
(*                                                                         *)
(* A flow is one click: a listing, a cancellation or a purchase.  It makes *)
(* at most one token transaction, which bears its name and whose output 0  *)
(* carries the whole holding.  client[f] and server[f] are where its two   *)
(* halves are; each yields at every await.                                 *)
(***************************************************************************)
EXTENDS Integers, FiniteSets, ShareChain

CONSTANTS
  Users,
  Held,               \* transactions of primary purchases, one per holding
  Listings, Cancels, Purchases,   \* the flows
  MaxFaults,          \* bound: calls that fail or whose reply is lost
  MaxCrashes          \* bound: server crashes and closed browser tabs

Mint == "mint"
Nobody == "nobody"

Flows == Listings \cup Cancels \cup Purchases
Txids == Held \cup Flows
Out(t) == <<t, 0>>

ASSUME FlowsAssumption ==
  /\ Listings \cap Cancels = {} /\ Listings \cap Purchases = {} /\ Cancels \cap Purchases = {}
  /\ Held \cap Flows = {} /\ Mint \notin Txids /\ Nobody \notin Txids
\* The database holds finitely many records.
ASSUME HoldingsAssumption == IsFiniteSet(Held)
ASSUME BoundsAssumption == MaxFaults \in Nat /\ MaxCrashes \in Nat

VARIABLES
  \* the chain and the overlay
  made,       \* the token transactions the chain has accepted
  spentBy,    \* spentBy[t]: the transaction that spent output 0 of t
  paid,       \* the purchases whose fee payment is on chain
  overlay,    \* the transactions the overlay can return
  \* the database
  shares,     \* share records of the property
  items,      \* items[l]: the market item of l, "removed" once deleted
  beefs,      \* the listings that have a record in listing_beefs
  locks,      \* locks[u]: the flow that inserted u's share_locks record
  \* the flows
  user,       \* user[f]: who clicked; user[h]: who bought h
  source,     \* source[f]: the transaction whose output 0 f spends
  client, server,
  outcome,    \* outcome[f]: the server's response
  pushing,    \* the purchases the server is pushing to the overlay
  \* the browser's local storage
  pending,    \* the flows whose nonce is in pendingKeyMaterial
  unsaved,    \* history: the flows whose nonce storage refused
  \* bounds
  faults, crashes

chain == <<made, spentBy, paid>>
database == <<shares, items, beefs, locks>>
flow == <<user, source>>
storage == <<pending, unsaved>>
bounds == <<faults, crashes>>

vars == <<chain, overlay, database, flow, client, server, outcome, pushing, storage, bounds>>

\* Primary purchases have spent the mint one after the other, each the
\* change of the one before; all were recorded.
FirstShares(parentOf) ==
  {[investorId |-> user[h], parentTxid |-> parentOf[h], transferTxid |-> Out(h)] : h \in Held}

Init ==
  /\ made = Held
  /\ spentBy = [t \in Txids |-> Nobody]
  /\ paid = {}
  /\ overlay = Held
  /\ user \in [Txids -> Users \cup {Nobody}]
  /\ \A t \in Txids : user[t] = Nobody <=> t \in Flows
  /\ source = [f \in Flows |-> Nobody]
  /\ \E parentOf \in [Held -> {Out(Mint)} \cup (Held \X {1})] :
       /\ \A g, h \in Held : parentOf[g] = parentOf[h] => g = h
       /\ shares = FirstShares(parentOf)
       /\ \A h \in Held : IsTraced(FirstShares(parentOf), Out(Mint), Out(h))
  /\ items = [l \in Listings |-> "none"]
  /\ beefs = {}
  /\ locks = [u \in Users |-> Nobody]
  /\ client = [f \in Flows |-> "idle"]
  /\ server = [f \in Flows |-> "idle"]
  /\ outcome = [f \in Flows |-> "none"]
  /\ pushing = {}
  /\ pending = {}
  /\ unsaved = {}
  /\ faults = 0
  /\ crashes = 0
-----------------------------------------------------------------------------
Fault == faults < MaxFaults /\ faults' = faults + 1 /\ UNCHANGED crashes

ClientGoto(f, label) == client' = [client EXCEPT ![f] = label]

ServerGoto(f, label) == server' = [server EXCEPT ![f] = label]

HasChild(outpoint) == \E s \in shares : s.parentTxid = outpoint

Recorded(t) == HasRecord(shares, Out(t))

Unspent(t) == t \in made /\ spentBy[t] = Nobody

\* savePendingKeyMaterial, before the wallet is called: it never throws, so
\* a storage that refuses does not stop the flow.
SavePending(f) ==
  \/ pending' = pending \cup {f} /\ UNCHANGED <<unsaved, bounds>>
  \/ Fault /\ unsaved' = unsaved \cup {f} /\ UNCHANGED pending

\* The network accepts f's transaction, which spends output 0 of source[f].
Publish(f) ==
  /\ made' = made \cup {f}
  /\ spentBy' = [spentBy EXCEPT ![source[f]] = f]
  /\ UNCHANGED paid

\* The request is sent, and passes requireSession and requireAuthProof.
Post(f) == ClientGoto(f, "waiting") /\ ServerGoto(f, "check")
-----------------------------------------------------------------------------
(***************************************************************************)
(* The clients: marketplace.tsx and useCancelListing.ts.                   *)
(***************************************************************************)

\* The seller picks one of the shares my-shares returns, those of the user
\* that have no child, and test-chain finds that it traces to the mint.
ChooseShare(l) ==
  /\ client[l] = "idle"
  /\ \E s \in shares :
       /\ ~HasChild(s.transferTxid)
       /\ IsTraced(shares, Out(Mint), s.transferTxid)
       /\ user' = [user EXCEPT ![l] = s.investorId]
       /\ source' = [source EXCEPT ![l] = s.transferTxid[1]]
  /\ ClientGoto(l, "lookup")
  /\ UNCHANGED <<chain, overlay, database, server, outcome, pushing, storage, bounds>>

\* The transaction that holds the share is asked of the overlay.
LookupSource(l) ==
  /\ client[l] = "lookup"
  /\ IF source[l] \in overlay
     THEN SavePending(l) /\ ClientGoto(l, "sign")
     ELSE ClientGoto(l, "failed") /\ UNCHANGED <<storage, bounds>>
  /\ UNCHANGED <<chain, overlay, database, flow, server, outcome, pushing>>

\* The seller picks a listing of theirs that my-listings returns with its
\* BEEF; without one the cancellation is refused at once.
ChooseOwnListing(c) ==
  /\ client[c] = "idle"
  /\ \E l \in Listings :
       /\ items[l] = "listed" /\ l \in beefs
       /\ user' = [user EXCEPT ![c] = user[l]]
       /\ source' = [source EXCEPT ![c] = l]
  /\ SavePending(c)
  /\ ClientGoto(c, "sign")
  /\ UNCHANGED <<chain, overlay, database, server, outcome, pushing>>

\* Mutant of IsHeldByKey: the P2PKH template is taken to unlock anything.
IsHeldAnyhow(t) == t \in Txids

\* OrdinalsP2PKH unlocks a holding; a listing is locked by OrdinalsP2MS.
IsHeldByKey(t) == t \notin Listings

\* The client's wallet returns from signAction; when its reply is lost the
\* flow ends with nothing but the saved nonce.
SignReturns(f) ==
  \/ ClientGoto(f, "push") /\ UNCHANGED bounds
  \/ Fault /\ ClientGoto(f, "failed")

\* createAction and signAction of the seller's wallet, which puts the
\* transfer to the multisig on the chain.
SignListing(l) ==
  /\ client[l] = "sign"
  /\ Unspent(source[l]) /\ IsHeldByKey(source[l])
  /\ Publish(l)
  /\ SignReturns(l)
  /\ UNCHANGED <<overlay, database, flow, server, outcome, pushing, storage>>

\* The same for the transfer from the multisig back to the seller.
SignCancel(c) ==
  /\ client[c] = "sign"
  /\ Unspent(source[c])
  /\ Publish(c)
  /\ SignReturns(c)
  /\ UNCHANGED <<overlay, database, flow, server, outcome, pushing, storage>>

\* The wallet or the network refuses.
SignRefused(f) ==
  /\ client[f] = "sign"
  /\ ~(Unspent(source[f]) /\ (f \in Listings => IsHeldByKey(source[f])))
  /\ ClientGoto(f, "failed")
  /\ UNCHANGED <<chain, overlay, database, flow, server, outcome, pushing, storage, bounds>>

\* Mutant of PushListing: the listing is posted while the push is under way.
PostWithoutPush(l) ==
  /\ client[l] = "push"
  /\ overlay' \in {overlay, overlay \cup {l}}
  /\ Post(l)
  /\ UNCHANGED <<chain, database, flow, outcome, pushing, storage, bounds>>

\* broadcastTX must succeed, or the server never hears of the listing.
PushListing(l) ==
  /\ client[l] = "push"
  /\ \/ overlay' = overlay \cup {l} /\ Post(l) /\ UNCHANGED bounds
     \/ /\ Fault
        /\ overlay' \in {overlay, overlay \cup {l}}
        /\ ClientGoto(l, "failed")
        /\ UNCHANGED server
  /\ UNCHANGED <<chain, database, flow, outcome, pushing, storage>>

\* broadcastTX may fail: the cancellation is posted all the same.
PushCancel(c) ==
  /\ client[c] = "push"
  /\ \/ overlay' = overlay \cup {c} /\ UNCHANGED bounds
     \/ Fault /\ UNCHANGED overlay
  /\ Post(c)
  /\ UNCHANGED <<chain, database, flow, outcome, pushing, storage>>

\* The buyer picks one of the unsold items that /api/listings returns.
ChooseListing(p) ==
  /\ client[p] = "idle"
  /\ \E u \in Users, l \in Listings :
       /\ items[l] = "listed"
       /\ user' = [user EXCEPT ![p] = u]
       /\ source' = [source EXCEPT ![p] = l]
  /\ SavePending(p)
  /\ ClientGoto(p, "pay")
  /\ UNCHANGED <<chain, overlay, database, server, outcome, pushing>>

\* createAction of the fee payment, which is on the chain when it returns.
Pay(p) ==
  /\ client[p] = "pay"
  /\ paid' = paid \cup {p}
  /\ \/ Post(p) /\ UNCHANGED bounds
     \/ Fault /\ ClientGoto(p, "failed") /\ UNCHANGED server
  /\ UNCHANGED <<made, spentBy, overlay, database, flow, outcome, pushing, storage>>

\* Mutant of Hear: the nonce is dropped whatever the answer.
HearAndForget(f) ==
  /\ client[f] = "waiting" /\ (outcome[f] # "none" \/ server[f] = "dead")
  /\ ClientGoto(f, IF outcome[f] = "ok" THEN "done" ELSE "failed")
  /\ pending' = pending \ {f}
  /\ UNCHANGED <<chain, overlay, database, flow, server, outcome, pushing, unsaved, bounds>>

\* The answer, or a broken connection.  The nonce is dropped only when the
\* server has confirmed; otherwise the user is told to keep it.
Hear(f) ==
  /\ client[f] = "waiting" /\ (outcome[f] # "none" \/ server[f] = "dead")
  /\ IF outcome[f] = "ok"
     THEN ClientGoto(f, "done") /\ pending' = pending \ {f}
     ELSE ClientGoto(f, "failed") /\ UNCHANGED pending
  /\ UNCHANGED <<chain, overlay, database, flow, server, outcome, pushing, unsaved, bounds>>

\* A call of the client throws, or its answer is lost.
ClientCallFails(f) ==
  /\ Fault
  /\ client[f] \in {"lookup", "sign", "pay", "waiting"}
  /\ ClientGoto(f, "failed")
  /\ UNCHANGED <<chain, overlay, database, flow, server, outcome, pushing, storage>>
-----------------------------------------------------------------------------
(***************************************************************************)
(* The server: listings.ts and listingPurchase.ts.                         *)
(***************************************************************************)

Respond(f, code) == outcome' = [outcome EXCEPT ![f] = code]

\* Mutant of Abort: the catch block does not answer.
AbortSilently(f, code) ==
  ServerGoto(f, "release") /\ Respond(f, "none") /\ UNCHANGED pushing

\* A throw: respond and run the finally block; the catch block of the
\* purchase pushes a transfer that was made to the overlay.
Abort(f, code) ==
  /\ ServerGoto(f, "release")
  /\ Respond(f, code)
  /\ pushing' = IF f \in Purchases \cap made THEN pushing \cup {f} ELSE pushing

Continue(f, label) == ServerGoto(f, label) /\ UNCHANGED <<outcome, pushing, bounds>>

\* A write takes effect; its reply may be lost, and then the call throws.
WriteReturns(f, label) == Continue(f, label) \/ (Fault /\ Abort(f, "error"))

\* The last write takes effect: respond, then run the finally block.
WriteAndRespond(f) ==
  \/ /\ ServerGoto(f, "release") /\ Respond(f, "ok")
     /\ pushing' = IF f \in Purchases THEN pushing \cup {f} ELSE pushing
     /\ UNCHANGED bounds
  \/ Fault /\ Abort(f, "error")

\* The share is recorded as the seller's and has no child.
MayList(l) ==
  /\ \E s \in shares : s.transferTxid = Out(source[l]) /\ s.investorId = user[l]
  /\ ~HasChild(Out(source[l]))

\* The market item still exists; whether it is sold is not asked.
MayCancel(c) == items[source[c]] \in {"listed", "sold"}

\* The same; the lineage of the share is traced, but any answer will do.
MayBuy(p) == items[source[p]] \in {"listed", "sold"}

MayProceed(f) ==
  /\ f \in Listings => MayList(f)
  /\ f \in Cancels => MayCancel(f)
  /\ f \in Purchases => MayBuy(f)

\* The reads and checks before the lock is taken.
Check(f) ==
  /\ server[f] = "check"
  /\ IF MayProceed(f)
     THEN Continue(f, "lock")
     ELSE ServerGoto(f, "done") /\ Respond(f, "refused") /\ UNCHANGED <<pushing, bounds>>
  /\ UNCHANGED <<chain, overlay, database, flow, client, storage>>

\* insertOne into share_locks, unique per property and user.
AcquireLock(f) ==
  /\ server[f] = "lock"
  /\ IF locks[user[f]] = Nobody
     THEN /\ locks' = [locks EXCEPT ![user[f]] = f]
          /\ \/ Continue(f, IF f \in Purchases THEN "source" ELSE "record")
             \/ Fault /\ ServerGoto(f, "done") /\ Respond(f, "error") /\ UNCHANGED pushing
     ELSE /\ ServerGoto(f, "done")
          /\ Respond(f, "conflict")
          /\ UNCHANGED <<locks, pushing, bounds>>
  /\ UNCHANGED <<chain, overlay, shares, items, beefs, flow, client, storage>>

\* Mutant of Resolvable: there is no fallback.
ResolvableFromBackup(p) == source[p] \in beefs

\* fetchTokenSourceTx: the backed-up BEEF, or the overlay.
Resolvable(p) == source[p] \in beefs \cup overlay

FetchSource(p) ==
  /\ server[p] = "source"
  /\ IF Resolvable(p) THEN Continue(p, "sign") ELSE Abort(p, "unresolved") /\ UNCHANGED bounds
  /\ UNCHANGED <<chain, overlay, database, flow, client, storage>>

\* The enqueued createAction and signAction; a reply that is lost leaves
\* the transfer on the chain and `transfer` unset.
SignTransfer(p) ==
  /\ server[p] = "sign"
  /\ Unspent(source[p])
  /\ Publish(p)
  /\ \/ Continue(p, "record")
     \/ Fault /\ ServerGoto(p, "release") /\ Respond(p, "error") /\ UNCHANGED pushing
  /\ UNCHANGED <<overlay, database, flow, client, storage>>

\* Mutant of SignTransferRefused: the rejection is swallowed in the enqueue.
SignTransferSwallowed(p) ==
  /\ server[p] = "sign"
  /\ ~Unspent(source[p])
  /\ Continue(p, "record")
  /\ UNCHANGED <<chain, overlay, database, flow, client, storage>>

\* The listing is spent already: the network refuses.
SignTransferRefused(p) ==
  /\ server[p] = "sign"
  /\ ~Unspent(source[p])
  /\ Abort(p, "lost")
  /\ UNCHANGED <<chain, overlay, database, flow, client, storage, bounds>>

\* Mutant of ShareOf: parent and transfer are confused.
ShareOfItself(f) ==
  [investorId |-> user[f], parentTxid |-> Out(f), transferTxid |-> Out(f)]

\* The seller's share in the multisig, the reclaimed one, or the buyer's.
ShareOf(f) ==
  [investorId |-> user[f], parentTxid |-> Out(source[f]), transferTxid |-> Out(f)]

\* insertOne of the share; new-listing has traced its parent to the mint.
RecordShare(f) ==
  /\ server[f] = "record"
  /\ f \in Listings => IsTraced(shares, Out(Mint), Out(source[f]))
  /\ shares' = shares \cup {ShareOf(f)}
  /\ WriteReturns(f, IF f \in Listings THEN "item" ELSE "beef")
  /\ UNCHANGED <<chain, overlay, items, beefs, locks, flow, client, storage>>

InsertItem(l) ==
  /\ l \in Listings /\ server[l] = "item"
  /\ items' = [items EXCEPT ![l] = "listed"]
  /\ WriteReturns(l, "beef")
  /\ UNCHANGED <<chain, overlay, shares, beefs, locks, flow, client, storage>>

BackUpBeef(l) ==
  /\ l \in Listings /\ server[l] = "beef"
  /\ beefs' = beefs \cup {l}
  /\ WriteAndRespond(l)
  /\ UNCHANGED <<chain, overlay, shares, items, locks, flow, client, storage>>

\* deleteOne of the listing's BEEF.
DropBeef(f) ==
  /\ f \in Cancels \cup Purchases /\ server[f] = "beef"
  /\ beefs' = beefs \ {source[f]}
  /\ WriteReturns(f, "item")
  /\ UNCHANGED <<chain, overlay, shares, items, locks, flow, client, storage>>

\* Mutant of RemoveItem: the id is compared as a string and matches nothing.
RemoveNothing(c) ==
  /\ c \in Cancels /\ server[c] = "item"
  /\ WriteAndRespond(c)
  /\ UNCHANGED <<chain, overlay, shares, items, beefs, locks, flow, client, storage>>

\* deleteOne of the cancelled market item.
RemoveItem(c) ==
  /\ c \in Cancels /\ server[c] = "item"
  /\ items' = [items EXCEPT ![source[c]] = "removed"]
  /\ WriteAndRespond(c)
  /\ UNCHANGED <<chain, overlay, shares, beefs, locks, flow, client, storage>>

\* updateOne { sold: true } with upsert.  An item that is sold is not
\* modified, and the validator rejects one made of `sold` alone: both throw.
MarkSold(p) ==
  /\ p \in Purchases /\ server[p] = "item"
  /\ IF items[source[p]] = "listed"
     THEN items' = [items EXCEPT ![source[p]] = "sold"] /\ WriteAndRespond(p)
     ELSE Abort(p, "error") /\ UNCHANGED <<items, bounds>>
  /\ UNCHANGED <<chain, overlay, shares, beefs, locks, flow, client, storage>>

\* finally: deleteOne of the lock record f inserted.  A failure is swallowed,
\* or, in new-listing, thrown when the answer has been sent.
ReleaseLock(f) ==
  /\ server[f] = "release"
  /\ ServerGoto(f, "done")
  /\ \/ /\ locks' = [u \in Users |-> IF locks[u] = f THEN Nobody ELSE locks[u]]
        /\ UNCHANGED bounds
     \/ Fault /\ UNCHANGED locks
  /\ UNCHANGED <<chain, overlay, shares, items, beefs, flow, client, outcome, pushing, storage>>

PushToOverlay(p) ==
  /\ p \in pushing
  /\ pushing' = pushing \ {p}
  /\ \/ overlay' = overlay \cup {p} /\ UNCHANGED bounds
     \/ Fault /\ UNCHANGED overlay
  /\ UNCHANGED <<chain, database, flow, client, server, outcome, storage>>

\* A call throws and has changed nothing.
ServerCallFails(f) ==
  /\ Fault
  /\ \/ /\ server[f] \in {"check", "lock"}
        /\ ServerGoto(f, "done") /\ Respond(f, "error") /\ UNCHANGED pushing
     \/ /\ server[f] \in {"source", "sign", "record", "beef", "item"}
        /\ Abort(f, "error")
  /\ UNCHANGED <<chain, overlay, database, flow, client, storage>>
-----------------------------------------------------------------------------
ServerActive(f) == server[f] \notin {"idle", "done", "dead"}

ClientActive(f) == client[f] \in {"lookup", "sign", "push", "pay", "waiting"}

\* The server process dies and is started again.
ServerCrash ==
  /\ crashes < MaxCrashes
  /\ crashes' = crashes + 1
  /\ server' = [f \in Flows |-> IF ServerActive(f) THEN "dead" ELSE server[f]]
  /\ pushing' = {}
  /\ UNCHANGED <<chain, overlay, database, flow, client, outcome, storage, faults>>

\* The user closes the tab: what was in its memory is gone.
CloseTab(f) ==
  /\ crashes < MaxCrashes
  /\ crashes' = crashes + 1
  /\ ClientActive(f)
  /\ ClientGoto(f, "closed")
  /\ UNCHANGED <<chain, overlay, database, flow, server, outcome, pushing, storage, faults>>

Choose(f) ==
  \/ f \in Listings /\ ChooseShare(f)
  \/ f \in Cancels /\ ChooseOwnListing(f)
  \/ f \in Purchases /\ ChooseListing(f)

ClientStep(f) ==
  \/ f \in Listings /\ (LookupSource(f) \/ SignListing(f) \/ PushListing(f))
  \/ f \in Cancels /\ (SignCancel(f) \/ PushCancel(f))
  \/ f \in Purchases /\ Pay(f)
  \/ SignRefused(f) \/ Hear(f)

ServerStep(f) ==
  \/ Check(f) \/ AcquireLock(f) \/ FetchSource(f)
  \/ SignTransfer(f) \/ SignTransferRefused(f)
  \/ RecordShare(f) \/ InsertItem(f) \/ BackUpBeef(f) \/ DropBeef(f)
  \/ RemoveItem(f) \/ MarkSold(f) \/ ReleaseLock(f) \/ PushToOverlay(f)

Next ==
  \/ \E f \in Flows :
       \/ Choose(f) \/ ClientStep(f) \/ ServerStep(f)
       \/ ClientCallFails(f) \/ ServerCallFails(f) \/ CloseTab(f)
  \/ ServerCrash

Spec == Init /\ [][Next]_vars

\* The event loops of the browser and of the server resume what has returned.
FairSpec == Spec /\ \A f \in Flows : WF_vars(ClientStep(f)) /\ WF_vars(ServerStep(f))
-----------------------------------------------------------------------------
ClientLabels == {"idle", "lookup", "sign", "push", "pay", "waiting",
                 "done", "failed", "closed"}

ServerLabels == {"idle", "check", "lock", "source", "sign", "record", "beef", "item",
                 "release", "done", "dead"}

Codes == {"none", "ok", "refused", "conflict", "unresolved", "lost", "error"}

ChainType ==
  /\ made \subseteq Txids /\ paid \subseteq Purchases /\ overlay \subseteq Txids
  /\ spentBy \in [Txids -> Flows \cup {Nobody}]

RecordsType ==
  /\ shares \subseteq [investorId : Users, parentTxid : (Txids \cup {Mint}) \X {0, 1},
                       transferTxid : Txids \X {0}]
  /\ items \in [Listings -> {"none", "listed", "sold", "removed"}]
  /\ beefs \subseteq Listings
  /\ locks \in [Users -> Flows \cup {Nobody}]

FlowType ==
  /\ user \in [Txids -> Users \cup {Nobody}]
  /\ source \in [Flows -> Txids \cup {Nobody}]
  /\ \A f \in Flows : client[f] # "idle" =>
       user[f] \in Users /\ source[f] \in (IF f \in Listings THEN Txids ELSE Listings)

HalvesType ==
  /\ client \in [Flows -> ClientLabels] /\ server \in [Flows -> ServerLabels]
  /\ outcome \in [Flows -> Codes]
  /\ pushing \subseteq Purchases /\ pending \subseteq Flows /\ unsaved \subseteq Flows
  /\ faults \in Nat /\ crashes \in Nat

\* Every variable has its type, and a flow that has begun has its user and
\* its source.
TypeOK == ChainType /\ RecordsType /\ FlowType /\ HalvesType

\* Nothing failed and nothing died.
Undisturbed == faults = 0 /\ crashes = 0

\* The holdings as the chain has them: the unspent outputs.
ChainDeeds ==
  {[title |-> t, holder |-> user[t], offered |-> t \in Listings] : t \in {u \in made : Unspent(u)}}

OnChain == INSTANCE Deeds WITH Titles <- Txids, deeds <- ChainDeeds

\* However listings, cancellations and purchases race, fail or die, the
\* chain never shows a holding twice, in two names, or sold without an offer.
ChainKeepsDeeds == OnChain!DSpec

\* The holdings as the records have them: the shares without a child.
RecordDeeds ==
  {[title |-> s.transferTxid[1], holder |-> s.investorId, offered |-> s.transferTxid[1] \in Listings] :
     s \in {r \in shares : ~HasChild(r.transferTxid)}}

OnRecord == INSTANCE Deeds WITH Titles <- Txids, deeds <- RecordDeeds

\* The share records go through the same changes of title, one at a time,
\* although their leaf check is made before the lock and the writes of one
\* flow come when another has moved on.
RecordsKeepDeeds == OnRecord!DSpec

\* A record is never ahead of the chain: it stands for a transaction that
\* spent just the output the record names as its parent.
RecordsFollowChain ==
  \A s \in shares :
    s.transferTxid[1] \in Held \/ Out(spentBy[s.parentTxid[1]]) = s.transferTxid

\* The item of a listing is sold or deleted only when the chain has given it
\* to a buyer, or back to the seller, and that share is recorded.
ItemsAgreeWithChain ==
  \A l \in Listings :
    LET t == spentBy[l]
    IN /\ items[l] = "sold" => t \in Purchases /\ Recorded(t)
       /\ items[l] = "removed" => t \in Cancels /\ Recorded(t)

\* What is on offer can be bought: the source of a listed item is in the
\* backup or in the overlay, also between the writes that move it there.
ListedIsResolvable == \A l \in Listings : items[l] = "listed" => l \in beefs \cup overlay

\* A flow whose transaction the chain accepted is never told that it had no
\* right to it: only the lock or a failure can keep it out of the records.
SpenderIsNotRefused ==
  \A f \in Flows : f \in made =>
    /\ outcome[f] \notin {"refused", "lost", "unresolved"}
    /\ outcome[f] = "error" => ~Undisturbed

\* A buyer who has paid in vain lost to another spender of the listing or to
\* another flow of their own; only a failure gives any other answer.
FailedBuyersLostTheRace ==
  \A p \in Purchases :
    /\ outcome[p] \in {"refused", "lost"} => spentBy[source[p]] \notin {Nobody, p}
    /\ outcome[p] = "conflict" => \E f \in Flows \ {p} : user[f] = user[p] /\ server[f] # "idle"
    /\ outcome[p] # "unresolved"
    /\ outcome[p] = "error" => faults # 0

\* A share that is recorded traces to the mint, whatever was lost: a
\* record is only added below another.
RecordsTrace == \A s \in shares : IsTraced(shares, Out(Mint), s.transferTxid)

\* An output whose key depends on a nonce of f.
NonceNeeded(f) ==
  \/ f \in Listings \cup Cancels /\ Unspent(f)
  \/ f \in paid \ made

\* The server has the nonce: keyId of the market item or of the share.
NonceRecorded(f) == IF f \in Listings THEN items[f] # "none" ELSE Recorded(f)

\* From before the wallet is called until the server has confirmed, the
\* nonce of an output on chain is in local storage: no failure, crash or
\* closed tab loses it unless storage itself refused it.
NonceSurvives ==
  \A f \in Flows : NonceNeeded(f) => f \in pending \cup unsaved \/ NonceRecorded(f)

\* Whoever spends a listing, its market item comes to say so, unless
\* something failed or the lock turned a cancellation away.
MarketSettles ==
  \A l \in Listings :
    /\ spentBy[l] \in Purchases ~> items[l] = "sold" \/ ~Undisturbed
    /\ spentBy[l] \in Cancels ~>
         items[l] = "removed" \/ ~Undisturbed \/ \E c \in Cancels : outcome[c] = "conflict"

\* A browser that waits hears of the outcome, whatever fails.
EveryClientHears == \A f \in Flows : client[f] = "waiting" ~> client[f] # "waiting"
-----------------------------------------------------------------------------
(***************************************************************************)
(* What the documentation says and the code does not do.                   *)
(***************************************************************************)

\* README.md:47: on Cancel "the server validates and removes the listing".
\* Once every flow has ended and nothing failed, no item is on offer whose
\* listing the seller has taken back.
CancelRemovesListing ==
  Undisturbed /\ (\A f \in Flows : ~ServerActive(f) /\ ~ClientActive(f)) =>
    \A l \in Listings : items[l] = "listed" => spentBy[l] \notin Cancels
=============================================================================
