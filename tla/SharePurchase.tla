---------------------------- MODULE SharePurchase ---------------------------
(***************************************************************************)
(* server/routes/sharePurchase.ts: the primary sale of one property.       *)
(*                                                                         *)
(* Every request is a process that yields at each await, so requests of    *)
(* different investors interleave between any two database calls.  What    *)
(* they share: the property document, the shares and share_locks           *)
(* collections, the wallet queue, the chain and the overlay index.  The    *)
(* chain is the only arbiter between two investors: a transaction is       *)
(* accepted only if both outpoints it spends are unspent.                  *)
(*                                                                         *)
(* The wallet queue is the serial executor that WalletQueue is shown to    *)
(* implement: only the request at the head of `queue` uses the wallet.     *)
(*                                                                         *)
(* Transactions are named by the request that built them.  Token amounts   *)
(* are whole percents; satoshis are whole multiples of what one transfer   *)
(* costs.                                                                  *)
(***************************************************************************)
EXTENDS Integers, Sequences, FiniteSets, FiniteSetsExt, ShareChain

CONSTANTS
  Requests,           \* POST /api/share-purchase requests
  Investors,          \* the users who make them
  Amounts,            \* the percentages they ask for
  PercentToSell,      \* sell.percentToSell, the tokens that were minted
  InitialRemaining,   \* sell.remainingPercent as tokenize stored it
  PoolSats,           \* satoshis of the prefunded payment output
  Fee,                \* satoshis one transfer takes from the pool
  MaxInvestors,       \* the schema's maximum for `investors`
  NULL,               \* a field that is absent
  MaxFaults,          \* bound: database, wallet or overlay failures
  MaxCrashes          \* bound: crashes of the server process

Mint == "mint"
NoRequest == "none"

ASSUME RequestsAssumption == Mint \notin Requests /\ NoRequest \notin Requests
ASSUME SaleAssumption == PercentToSell \in Nat \ {0} /\ NULL \notin Int
ASSUME AmountsAssumption == Amounts \subseteq Int
ASSUME RemainingAssumption == InitialRemaining \in {PercentToSell, NULL}
ASSUME PoolAssumption == PoolSats \in Nat /\ Fee \in Nat \ {0} /\ MaxInvestors \in Nat
ASSUME BoundsAssumption == MaxFaults \in Nat /\ MaxCrashes \in Nat

Txids == Requests \cup {Mint}
Outpoints == Txids \X (0 .. 2)
MintOutpoint == <<Mint, 0>>

VARIABLES
  \* the property document
  currentOutpoint,    \* txids.currentOutpoint: the token output to spend next
  paymentTxid,        \* txids.paymentTxid: the fee-pool output to spend next
  remainingPercent,   \* sell.remainingPercent
  investors,          \* investors
  status,             \* status
  \* the other collections
  shares,             \* the share records of the property
  locks,              \* locks[i]: the request that inserted i's share_locks record
  \* the chain
  tokens,             \* tokens[o]: token amount inscribed in output o, 0 if none
  sats,               \* sats[o]: satoshis of fee-pool output o, 0 if none
  spentBy,            \* spentBy[o]: the transaction that spent o
  sold,               \* history: tokens transferred to investors so far
  \* the overlay
  overlay,            \* the transactions the overlay index can return
  \* the server process
  queue,              \* wallet actions enqueued and not settled, first running
  pc,                 \* where each request's handler is
  investorId, amount, \* the request
  property,           \* property[r]: what r's findOne returned
  isNewInvestor,      \* isNewInvestor[r]
  transfer,           \* the requests whose variable `transfer` is set
  pushing,            \* the requests whose overlay push is under way
  outcome,            \* outcome[r]: the response
  \* bounds
  faults, crashes

propertyDoc == <<currentOutpoint, paymentTxid, remainingPercent, investors, status>>
database == <<propertyDoc, shares, locks>>
chain == <<tokens, sats, spentBy, sold>>
locals == <<investorId, amount, property, isNewInvestor>>
replies == <<transfer, pushing, outcome>>
bounds == <<faults, crashes>>

vars == <<database, chain, overlay, queue, pc, locals, replies, bounds>>

\* The document as tokenize leaves it: the mint transaction holds all the
\* tokens at output 0 and the fee pool at output 1.
Init ==
  /\ currentOutpoint = MintOutpoint
  /\ paymentTxid = <<Mint, 1>>
  /\ remainingPercent = InitialRemaining
  /\ investors = 0
  /\ status = "open"
  /\ shares = {}
  /\ locks = [i \in Investors |-> NoRequest]
  /\ tokens = [o \in Outpoints |-> IF o = MintOutpoint THEN PercentToSell ELSE 0]
  /\ sats = [o \in Outpoints |-> IF o = <<Mint, 1>> THEN PoolSats ELSE 0]
  /\ spentBy = [o \in Outpoints |-> NoRequest]
  /\ sold = 0
  /\ overlay = {Mint}
  /\ queue = <<>>
  /\ pc = [r \in Requests |-> "idle"]
  /\ investorId \in [Requests -> Investors]
  /\ amount \in [Requests -> Amounts]
  /\ property = [r \in Requests |->
       [currentOutpoint |-> MintOutpoint, paymentTxid |-> <<Mint, 1>>, remainingPercent |-> NULL]]
  /\ isNewInvestor = [r \in Requests |-> FALSE]
  /\ transfer = {}
  /\ pushing = {}
  /\ outcome = [r \in Requests |-> "none"]
  /\ faults = 0
  /\ crashes = 0
-----------------------------------------------------------------------------
Goto(r, label) == pc' = [pc EXCEPT ![r] = label]

Respond(r, code) == outcome' = [outcome EXCEPT ![r] = code]

\* Mutant of Abort: the lock is released only when the sale succeeds.
AbortWithoutFinally(r, code) ==
  Goto(r, "done") /\ Respond(r, code) /\ UNCHANGED <<transfer, pushing>>

\* An early return or a throw: respond, then run the finally block.  The
\* catch block pushes the transaction to the overlay if `transfer` is set.
Abort(r, code) ==
  /\ Goto(r, "release")
  /\ Respond(r, code)
  /\ pushing' = IF r \in transfer THEN pushing \cup {r} ELSE pushing
  /\ UNCHANGED transfer

Fault == faults < MaxFaults /\ faults' = faults + 1 /\ UNCHANGED crashes

\* A call that returns, with the handler going on at `label`.
Continue(r, label) ==
  /\ Goto(r, label)
  /\ UNCHANGED <<replies, bounds>>

\* A database write takes effect, and the handler goes on; or it takes
\* effect and the call throws all the same, the reply being lost.
WriteReturns(r, label) ==
  \/ Continue(r, label)
  \/ Fault /\ Abort(r, "error")
-----------------------------------------------------------------------------
\* The request arrives; requireSession and requireAuthProof let it pass.
Arrive(r) ==
  /\ pc[r] = "idle"
  /\ IF amount[r] <= 0 \/ amount[r] > 100
     THEN /\ Goto(r, "done")
          /\ Respond(r, "invalid")
          /\ UNCHANGED <<transfer, pushing, bounds>>
     ELSE Continue(r, "lock")
  /\ UNCHANGED <<database, chain, overlay, queue, locals>>

LockIsFree(r) == locks[investorId[r]] = NoRequest

\* locksCollection.insertOne: the unique index admits one record per
\* property and investor.  Until lockId is set, nothing is released.
AcquireLock(r) ==
  /\ pc[r] = "lock"
  /\ IF LockIsFree(r)
     THEN /\ locks' = [locks EXCEPT ![investorId[r]] = r]
          /\ \/ Continue(r, "read")
             \/ Fault /\ Goto(r, "done") /\ Respond(r, "error") /\ UNCHANGED <<transfer, pushing>>
     ELSE /\ Goto(r, "done")
          /\ Respond(r, "conflict")
          /\ UNCHANGED <<locks, transfer, pushing, bounds>>
  /\ UNCHANGED <<propertyDoc, shares, chain, overlay, queue, locals>>

\* amount > remainingPercent: "only ...% remaining".
CheckRemaining(r, remaining) ==
  IF amount[r] > remaining
  THEN Abort(r, "refused") /\ UNCHANGED bounds
  ELSE Continue(r, "source")

\* findOne of the property document, the only one the handler makes.
ReadProperty(r) ==
  /\ pc[r] = "read"
  /\ property' = [property EXCEPT ![r] =
       [currentOutpoint |-> currentOutpoint, paymentTxid |-> paymentTxid,
        remainingPercent |-> remainingPercent]]
  /\ IF remainingPercent = NULL THEN Continue(r, "sum")
                                ELSE CheckRemaining(r, remainingPercent)
  /\ UNCHANGED <<database, chain, overlay, queue, investorId, amount, isNewInvestor>>

\* The tokens of a set of share records.
TotalSold(records) == MapThenSumSet(LAMBDA s : s.amount, records)

\* No remainingPercent stored: it is computed from the share records.
SumShares(r) ==
  /\ pc[r] = "sum"
  /\ CheckRemaining(r, PercentToSell - TotalSold(shares))
  /\ UNCHANGED <<database, chain, overlay, queue, locals>>

\* Mutant of ChangeAmount: the change is taken from the percentage that
\* remains in the document, not from the tokens in the spent output.
ChangeOfRemaining(r) ==
  (IF property[r].remainingPercent = NULL THEN PercentToSell ELSE property[r].remainingPercent)
    - amount[r]

\* calcTokenTransfer: the tokens the spent output carries, less the amount.
ChangeAmount(r) == tokens[property[r].currentOutpoint] - amount[r]

\* calcTokenTransfer throws: the output holds fewer tokens than asked for.
Oversells(r) == ChangeAmount(r) < 0

\* Mutant of HasOrdinalChange: off by one.
HasMuchChange(r) == ChangeAmount(r) > 1

HasOrdinalChange(r) == ChangeAmount(r) > 0

\* What fee() leaves of the pool; it drops the output when nothing is left.
PaymentChangeSats(r) == sats[property[r].paymentTxid] - Fee

HasPaymentChange(r) == PaymentChangeSats(r) > 0

PaymentChangeIndex(r) == IF HasOrdinalChange(r) THEN 2 ELSE 1

\* The ordinal's source comes from the carried BEEF, the payment's from the
\* overlay.  When both are there the transfer is enqueued.
FetchSources(r) ==
  /\ pc[r] = "source"
  /\ IF Oversells(r) THEN Abort(r, "error") /\ UNCHANGED <<queue, bounds>>
     ELSE IF property[r].paymentTxid[1] \notin overlay
     THEN Abort(r, "unresolved") /\ UNCHANGED <<queue, bounds>>
     ELSE Continue(r, "queued") /\ queue' = Append(queue, r)
  /\ UNCHANGED <<database, chain, overlay, locals>>
-----------------------------------------------------------------------------
Running(r) == queue # <<>> /\ Head(queue) = r

\* Mutant of Reject: a rejected action stays at the head of the queue.
RejectAndBlock(r) == Abort(r, "error") /\ UNCHANGED queue

\* Mutant of Reject: the error is swallowed and the handler goes on as if
\* the transaction had been accepted.
RejectSwallowed(r) ==
  /\ queue' = Tail(queue)
  /\ Goto(r, "advance")
  /\ transfer' = transfer \cup {r}
  /\ UNCHANGED <<pushing, outcome>>

\* The enqueued action rejects: `transfer` stays undefined.
Reject(r) == queue' = Tail(queue) /\ Abort(r, "error")

Unspent(outpoint) == spentBy[outpoint] = NoRequest

\* createAction and signAction on the chain: both inputs are unspent, so
\* the network accepts the transaction.
SignAction(r) ==
  /\ pc[r] = "queued" /\ Running(r)
  /\ Unspent(property[r].currentOutpoint) /\ Unspent(property[r].paymentTxid)
  /\ spentBy' = [spentBy EXCEPT ![property[r].currentOutpoint] = r,
                                ![property[r].paymentTxid] = r]
  /\ tokens' = [tokens EXCEPT ![<<r, 0>>] = amount[r], ![<<r, 1>>] = ChangeAmount(r)]
  /\ sats' = IF HasPaymentChange(r)
             THEN [sats EXCEPT ![<<r, PaymentChangeIndex(r)>>] = PaymentChangeSats(r)]
             ELSE sats
  /\ sold' = sold + amount[r]
  /\ IF HasOrdinalChange(r)
     THEN Goto(r, "internalize") /\ UNCHANGED <<queue, transfer>>
     ELSE /\ Goto(r, IF HasPaymentChange(r) THEN "advance" ELSE "check")
          /\ queue' = Tail(queue)
          /\ transfer' = transfer \cup {r}
  /\ UNCHANGED <<database, overlay, locals, pushing, outcome, bounds>>

\* An input is already spent: the wallet or the network refuses.
SignRefused(r) ==
  /\ pc[r] = "queued" /\ Running(r)
  /\ ~(Unspent(property[r].currentOutpoint) /\ Unspent(property[r].paymentTxid))
  /\ Reject(r)
  /\ UNCHANGED <<database, chain, overlay, locals, bounds>>

\* internalizeToBasket of the ordinal change, still inside the action.
Internalize(r) ==
  /\ pc[r] = "internalize" /\ Running(r)
  /\ Goto(r, "advance")
  /\ queue' = Tail(queue)
  /\ transfer' = transfer \cup {r}
  /\ UNCHANGED <<database, chain, overlay, locals, pushing, outcome, bounds>>
-----------------------------------------------------------------------------
\* $set of currentOutpoint and paymentTxid to the change outputs there are.
AdvanceOutpoints(r) ==
  /\ pc[r] = "advance"
  /\ currentOutpoint' = IF HasOrdinalChange(r) THEN <<r, 1>> ELSE currentOutpoint
  /\ paymentTxid' = IF HasPaymentChange(r) THEN <<r, PaymentChangeIndex(r)>> ELSE paymentTxid
  /\ WriteReturns(r, "check")
  /\ UNCHANGED <<remainingPercent, investors, status, shares, locks, chain, overlay, queue, locals>>

\* Mutant of HasShares: the query names the wrong field.
HasOutpoint(investor) == \E s \in shares : s.transferTxid = investor

HasShares(investor) == \E s \in shares : s.investorId = investor

CheckInvestor(r) ==
  /\ pc[r] = "check"
  /\ isNewInvestor' = [isNewInvestor EXCEPT ![r] = ~HasShares(investorId[r])]
  /\ Continue(r, "insert")
  /\ UNCHANGED <<database, chain, overlay, queue, investorId, amount, property>>

\* Mutant of ShareOf: the parent is read again, after the document advanced.
ShareOfLatest(r) ==
  [investorId |-> investorId[r], amount |-> amount[r],
   parentTxid |-> currentOutpoint, transferTxid |-> <<r, 0>>]

ShareOf(r) ==
  [investorId |-> investorId[r], amount |-> amount[r],
   parentTxid |-> property[r].currentOutpoint, transferTxid |-> <<r, 0>>]

InsertShare(r) ==
  /\ pc[r] = "insert"
  /\ shares' = shares \cup {ShareOf(r)}
  /\ WriteReturns(r, "update")
  /\ UNCHANGED <<propertyDoc, locks, chain, overlay, queue, locals>>

\* Mutant of NewRemainingPercent: computed from the share records, among
\* which the new one is already, and the amount is taken off again.
RemainingTwiceReduced(r) == PercentToSell - TotalSold(shares) - amount[r]

\* remainingPercent as it was read at the start, less the amount.
NewRemainingPercent(r) ==
  (IF property[r].remainingPercent = NULL THEN PercentToSell ELSE property[r].remainingPercent)
    - amount[r]

\* The response and the start of the overlay push follow without an await.
Succeed(r) ==
  /\ Goto(r, "release")
  /\ Respond(r, "ok")
  /\ pushing' = pushing \cup {r}
  /\ UNCHANGED <<transfer, bounds>>

\* $set of remainingPercent and status, $inc of investors; the schema
\* rejects the update when there would be too many investors.
UpdateSale(r) ==
  /\ pc[r] = "update"
  /\ IF isNewInvestor[r] /\ investors >= MaxInvestors
     THEN Abort(r, "error") /\ UNCHANGED <<propertyDoc, bounds>>
     ELSE /\ remainingPercent' = NewRemainingPercent(r)
          /\ status' = IF NewRemainingPercent(r) <= 0 THEN "funded" ELSE status
          /\ investors' = IF isNewInvestor[r] THEN investors + 1 ELSE investors
          /\ Succeed(r) \/ (Fault /\ Abort(r, "error"))
          /\ UNCHANGED <<currentOutpoint, paymentTxid>>
  /\ UNCHANGED <<shares, locks, chain, overlay, queue, locals>>

\* finally: deleteOne of the record that r inserted; a failure is swallowed.
ReleaseLock(r) ==
  /\ pc[r] = "release"
  /\ Goto(r, "done")
  /\ \/ /\ locks' = [i \in Investors |-> IF locks[i] = r THEN NoRequest ELSE locks[i]]
        /\ UNCHANGED bounds
     \/ Fault /\ UNCHANGED locks
  /\ UNCHANGED <<propertyDoc, shares, chain, overlay, queue, locals, replies>>

\* The overlay push, after the response and in nobody's way.
PushToOverlay(r) ==
  /\ r \in pushing
  /\ pushing' = pushing \ {r}
  /\ \/ overlay' = overlay \cup {r} /\ UNCHANGED bounds
     \/ Fault /\ UNCHANGED overlay
  /\ UNCHANGED <<database, chain, queue, pc, locals, transfer, outcome>>
-----------------------------------------------------------------------------
\* A database call or a wallet call throws and has changed nothing.
CallFails(r) ==
  /\ Fault
  /\ \/ /\ pc[r] = "lock"
        /\ Goto(r, "done") /\ Respond(r, "error")
        /\ UNCHANGED <<queue, transfer, pushing>>
     \/ /\ pc[r] \in {"read", "sum", "source", "advance", "check", "insert", "update"}
        /\ Abort(r, "error")
        /\ UNCHANGED queue
     \/ /\ pc[r] \in {"queued", "internalize"} /\ Running(r)
        /\ Reject(r)
  /\ UNCHANGED <<database, chain, overlay, locals>>

Active(r) == pc[r] \notin {"idle", "done", "dead"}

\* The process dies and is started again: the handlers in flight, the queue
\* and the pushes are gone; the database and the chain are not.
Crash ==
  /\ crashes < MaxCrashes
  /\ crashes' = crashes + 1
  /\ pc' = [r \in Requests |-> IF Active(r) THEN "dead" ELSE pc[r]]
  /\ queue' = <<>>
  /\ pushing' = {}
  /\ UNCHANGED <<database, chain, overlay, locals, transfer, outcome, faults>>

Step(r) ==
  \/ AcquireLock(r) \/ ReadProperty(r) \/ SumShares(r) \/ FetchSources(r)
  \/ SignAction(r) \/ SignRefused(r) \/ Internalize(r)
  \/ AdvanceOutpoints(r) \/ CheckInvestor(r) \/ InsertShare(r) \/ UpdateSale(r)
  \/ ReleaseLock(r) \/ PushToOverlay(r)

Next ==
  \/ \E r \in Requests : Arrive(r) \/ Step(r) \/ CallFails(r)
  \/ Crash

Spec == Init /\ [][Next]_vars

\* The event loop resumes every handler whose call has returned.
FairSpec == Spec /\ \A r \in Requests : WF_vars(Step(r))
-----------------------------------------------------------------------------
Labels == {"idle", "lock", "read", "sum", "source", "queued", "internalize", "advance",
           "check", "insert", "update", "release", "done", "dead"}

Codes == {"none", "ok", "invalid", "refused", "conflict", "unresolved", "error"}

DocumentType ==
  /\ currentOutpoint \in Outpoints /\ paymentTxid \in Outpoints
  /\ remainingPercent \in Int \cup {NULL}
  /\ investors \in Nat
  /\ status \in {"open", "funded"}

RecordsType ==
  /\ shares \subseteq [investorId : Investors, amount : Int,
                       parentTxid : Outpoints, transferTxid : Outpoints]
  /\ locks \in [Investors -> Requests \cup {NoRequest}]

ChainType ==
  /\ tokens \in [Outpoints -> Nat] /\ sats \in [Outpoints -> Nat]
  /\ spentBy \in [Outpoints -> Requests \cup {NoRequest}]
  /\ sold \in Nat

HandlerType ==
  /\ pc \in [Requests -> Labels] /\ outcome \in [Requests -> Codes]
  /\ transfer \subseteq Requests /\ pushing \subseteq Requests

LocalsType ==
  /\ investorId \in [Requests -> Investors] /\ amount \in [Requests -> Int]
  /\ property \in [Requests -> [currentOutpoint : Outpoints, paymentTxid : Outpoints,
                                remainingPercent : Int \cup {NULL}]]
  /\ isNewInvestor \in [Requests -> BOOLEAN]

SharedType ==
  /\ overlay \subseteq Txids /\ queue \in Seq(Requests)
  /\ faults \in Nat /\ crashes \in Nat

\* Every variable has its type; amounts on chain are never negative.
TypeOK ==
  DocumentType /\ RecordsType /\ ChainType /\ HandlerType /\ LocalsType /\ SharedType

Quiet == \A r \in Requests : pc[r] \in {"idle", "done"}

\* Nothing failed: no call, no crash, and no update was refused.
Undisturbed ==
  /\ faults = 0 /\ crashes = 0
  /\ \A r \in transfer : outcome[r] # "error"

\* Output 0 of a purchase belongs to the investor; the token outputs of the
\* issuer are the mint and the changes.
IsIssuers(outpoint) == outpoint = MintOutpoint \/ (outpoint[2] = 1 /\ tokens[outpoint] > 0)

\* What is unsold is in one unspent output, whole, whoever raced or died:
\* there is never a second change to sell from.
UnsoldInOneOutput ==
  LET unspent == {o \in Outpoints : IsIssuers(o) /\ Unspent(o)}
  IN /\ sold <= PercentToSell
     /\ \A o \in unspent : tokens[o] = PercentToSell - sold
     /\ \A o1, o2 \in unspent : o1 = o2

\* Every share record stands for an output on chain with that many tokens,
\* created by spending the very outpoint the record names as its parent.
SharesBackedByChain ==
  \A s \in shares :
    /\ tokens[s.transferTxid] = s.amount
    /\ spentBy[s.parentTxid] = s.transferTxid[1]

\* The transfers as the chain has them: what spent the issuer's outputs.
ChainTransfers ==
  {[investorId |-> investorId[spentBy[o]], amount |-> tokens[<<spentBy[o], 0>>],
    parentTxid |-> o, transferTxid |-> <<spentBy[o], 0>>] :
     o \in {p \in Outpoints : IsIssuers(p) /\ ~Unspent(p)}}

Sale == INSTANCE Offering WITH
  Buyers <- Investors, Outputs <- Outpoints, Origin <- MintOutpoint, Supply <- PercentToSell,
  unsold <- PercentToSell - sold, ledger <- ChainTransfers, register <- shares

\* However requests race, fail or die, the chain hands out the tokens one
\* buyer at a time, each from what the one before left over, and the share
\* records are entries of just these transfers, each made once.
ImplementsOffering == Sale!OSpec

\* No lock is held between investors, yet currentOutpoint and paymentTxid
\* only ever move one transaction down the chain: an update that arrives
\* late never takes them back.
AdvanceFollowsChain ==
  [][/\ currentOutpoint' # currentOutpoint => spentBy[currentOutpoint] = currentOutpoint'[1]
     /\ paymentTxid' # paymentTxid => spentBy[paymentTxid] = paymentTxid'[1]]_vars

\* The document points at a spent token output only when all is sold, while
\* the buyer who spent it has yet to write, or because that request failed.
StaleOutpointExplained ==
  LET r == spentBy[currentOutpoint]
  IN r # NoRequest => \/ sold = PercentToSell
                      \/ pc[r] \in {"internalize", "advance", "dead"}
                      \/ outcome[r] = "error"

\* A request that has its lock and has not finished.
Holding(r) == Active(r) /\ pc[r] # "lock"

\* The lock record keeps the requests of one investor apart, from the read
\* of the document to the last write.
OneTransferPerInvestor ==
  \A r1, r2 \in Requests :
    (Holding(r1) /\ Holding(r2) /\ investorId[r1] = investorId[r2]) => r1 = r2

\* `investors` never exceeds the number of distinct holders, and is that
\* number when nothing went wrong.
InvestorsCounted ==
  LET holders == Cardinality({s.investorId : s \in shares})
  IN /\ investors <= holders
     /\ Quiet /\ Undisturbed => investors = holders

\* A buyer is told that only so much is left only if that is so on chain:
\* remainingPercent may lag, but never below what is unsold.
NoFalseRefusal ==
  \A r \in Requests : outcome[r] = "refused" => amount[r] > PercentToSell - sold

\* The sale is never declared funded while tokens are unsold.
FundedOnlyWhenSoldOut == status = "funded" => sold = PercentToSell

\* When nothing failed, every recorded share traces to the mint once the
\* requests have finished, in whatever order their records were inserted.
QuietSharesTrace ==
  Quiet /\ Undisturbed =>
    \A s \in shares : IsTraced(shares, MintOutpoint, s.transferTxid)

\* Every request that arrives is answered, unless the process dies.
EveryRequestAnswered ==
  \A r \in Requests : pc[r] = "lock" ~> outcome[r] # "none" \/ pc[r] = "dead"

\* A request that knows it has the lock comes to its finally block whatever
\* fails before, and there the lock is deleted whatever failed before: only a
\* failure at that moment, or the end of the process, leaves it behind.  (One
\* whose insert took effect without a reply does not know: it goes on to
\* neither "read" nor "release", and its lock stays.)
LocksReleased ==
  \A r \in Requests :
    /\ pc[r] = "read" ~> pc[r] \in {"release", "dead"}
    /\ \A n \in 0 .. MaxFaults :
         pc[r] = "release" /\ faults = n ~> locks[investorId[r]] # r \/ faults > n \/ pc[r] = "dead"
-----------------------------------------------------------------------------
(***************************************************************************)
(* What the documentation says and the code does not do.                   *)
(***************************************************************************)

\* README.md:42: "A final sale (all shares bought) omits the change output
\* and marks the property `funded`."  Stated of a sale in which nothing
\* failed and every request has been answered.
FinalSaleMarksFunded ==
  Quiet /\ Undisturbed /\ sold = PercentToSell => status = "funded"

=============================================================================
