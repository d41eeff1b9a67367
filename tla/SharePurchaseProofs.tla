------------------------- MODULE SharePurchaseProofs ------------------------
(***************************************************************************)
(* Proofs about SharePurchase for any requests, investors, amounts and     *)
(* numbers of failures and crashes.                                        *)
(*                                                                         *)
(* The argument for the chain: a request may sign only while the outpoints *)
(* it read are unspent, and the document moves away from an outpoint only  *)
(* after it was spent.  So whoever signs holds the document's current      *)
(* outpoints, nobody else does until it has advanced them, and the chain   *)
(* alone serialises the investors.                                         *)
(***************************************************************************)
EXTENDS SharePurchase, ShareChainProofs, FiniteSetTheorems, SequenceTheorems, TLAPS

Before == {"idle", "lock", "read", "sum", "source", "queued"}

Between == {"internalize", "advance"}

Asking == {"lock", "read", "sum", "source", "queued", "internalize", "advance", "check",
           "insert", "update"}

Ended == {"release", "done", "dead"}

\* A request that got past validation asks for something.
Positive == \A r \in Requests : pc[r] \in Asking => amount[r] > 0

\* A request that has been answered does nothing more but release its lock.
Final == \A r \in Requests : outcome[r] # "none" => pc[r] \in Ended

\* A request that has not signed has no outputs, and until it has advanced
\* the document nobody knows of its outputs.
Unreached ==
  \A r \in Requests :
    /\ pc[r] \in Before => \A k \in 0 .. 2 : tokens[<<r, k>>] = 0
    /\ pc[r] \in Before \cup Between =>
         /\ currentOutpoint[1] # r /\ paymentTxid[1] # r
         /\ \A x \in Requests : property[x].currentOutpoint[1] # r /\ property[x].paymentTxid[1] # r
         /\ \A k \in 0 .. 2 : Unspent(<<r, k>>)

\* Token pointers point to issuer outputs, payment pointers do not.
Pointers ==
  /\ IsIssuers(currentOutpoint) /\ ~IsIssuers(paymentTxid)
  /\ \A x \in Requests : /\ IsIssuers(property[x].currentOutpoint)
                         /\ ~IsIssuers(property[x].paymentTxid)

\* What a request read is still in the document if it is unspent.
UpToDate ==
  \A r \in Requests :
    /\ Unspent(property[r].currentOutpoint) => property[r].currentOutpoint = currentOutpoint
    /\ Unspent(property[r].paymentTxid) => property[r].paymentTxid = paymentTxid

\* Between the signature and the update, the document is as it was read.
Signed ==
  \A r \in Requests :
    pc[r] \in Between =>
      /\ property[r].currentOutpoint = currentOutpoint /\ spentBy[currentOutpoint] = r
      /\ property[r].paymentTxid = paymentTxid /\ spentBy[paymentTxid] = r
      /\ tokens[<<r, 1>>] = ChangeAmount(r) /\ ChangeAmount(r) >= 0
      /\ ChangeAmount(r) = 0 => sold = PercentToSell

Enough == \A r \in Requests : pc[r] = "queued" => ChangeAmount(r) >= 0

ChainInv == Positive /\ Final /\ Unreached /\ Pointers /\ UpToDate /\ Signed /\ Enough /\ UnsoldInOneOutput

IInv == TypeOK /\ ChainInv /\ StaleOutpointExplained

\* The lock record of an investor names the one request that holds it.
Locked == \A r \in Requests : Holding(r) => locks[investorId[r]] = r
-----------------------------------------------------------------------------
LEMMA OutpointParts ==
  ASSUME NEW o \in Outpoints
  PROVE  o[1] \in Txids /\ o[2] \in 0 .. 2 /\ o = <<o[1], o[2]>>
  BY DEF Outpoints

LEMMA OutpointOf ==
  ASSUME NEW x \in Txids, NEW k \in 0 .. 2
  PROVE  <<x, k>> \in Outpoints
  BY DEF Outpoints

\* No request has the name of the mint.
LEMMA MintIsNoRequest ==
  /\ MintOutpoint \in Outpoints /\ <<Mint, 1>> \in Outpoints
  /\ \A r \in Requests : r # Mint /\ r # NoRequest /\ r \in Txids
  /\ \A r \in Requests : \A k \in 0 .. 2 : <<r, k>> \in Outpoints /\ <<r, k>> # MintOutpoint
  BY RequestsAssumption DEF MintOutpoint, Outpoints, Txids

LEMMA OwnOutputs ==
  ASSUME NEW r \in Requests
  PROVE  /\ <<r, 0>> \in Outpoints /\ <<r, 1>> \in Outpoints /\ <<r, 2>> \in Outpoints
         /\ <<r, PaymentChangeIndex(r)>> \in Outpoints
  <1>1. <<r, 0>> \in Outpoints /\ <<r, 1>> \in Outpoints /\ <<r, 2>> \in Outpoints
    BY MintIsNoRequest
  <1>2. PaymentChangeIndex(r) = 1 \/ PaymentChangeIndex(r) = 2
    BY DEF PaymentChangeIndex
  <1> QED
    BY <1>1, <1>2

LEMMA InitType == Init => TypeOK
  <1> SUFFICES ASSUME Init PROVE TypeOK
    OBVIOUS
  <1> USE MintIsNoRequest, SaleAssumption, AmountsAssumption, RemainingAssumption, PoolAssumption
      DEF Init
  <1>1. tokens \in [Outpoints -> Nat] /\ sats \in [Outpoints -> Nat]
    OBVIOUS
  <1>2. property \in [Requests -> [currentOutpoint : Outpoints, paymentTxid : Outpoints,
                                  remainingPercent : Int \cup {NULL}]]
    OBVIOUS
  <1>3. queue \in Seq(Requests)
    BY EmptySeq
  <1>4. overlay \subseteq Txids
    BY DEF Txids
  <1>5. amount \in [Requests -> Int]
    <2>1. amount \in [Requests -> Amounts]
      OBVIOUS
    <2> QED
      BY ONLY <2>1, AmountsAssumption
  <1>6. remainingPercent \in Int \cup {NULL} /\ investors \in Nat /\ sold \in Nat
    OBVIOUS
  <1>7. /\ locks \in [Investors -> Requests \cup {NoRequest}]
        /\ spentBy \in [Outpoints -> Requests \cup {NoRequest}]
    OBVIOUS
  <1>8. /\ pc \in [Requests -> {"idle"}]
        /\ outcome \in [Requests -> {"none"}]
        /\ isNewInvestor \in [Requests -> BOOLEAN]
    OBVIOUS
  <1> QED
    BY <1>1, <1>2, <1>3, <1>4, <1>5, <1>6, <1>7, <1>8 DEF TypeOK, DocumentType, RecordsType, ChainType, HandlerType, LocalsType, SharedType, Labels, Codes

LEMMA InitChain == Init => ChainInv /\ StaleOutpointExplained
  <1> SUFFICES ASSUME Init PROVE ChainInv /\ StaleOutpointExplained
    OBVIOUS
  <1> USE MintIsNoRequest, SaleAssumption DEF Init
  <1>1. /\ Positive /\ Final /\ Signed /\ Enough
    BY DEF Positive, Asking, Final, Signed, Enough, Between
  <1>2. \A o \in Outpoints : IsIssuers(o) <=> o = MintOutpoint
    BY DEF IsIssuers
  <1>3. MintOutpoint # <<Mint, 1>> /\ MintOutpoint[1] = Mint /\ <<Mint, 1>>[1] = Mint
    BY DEF MintOutpoint
  <1>4. Pointers
    BY <1>2, <1>3 DEF Pointers
  <1>5. Unreached
    BY <1>3 DEF Unreached, Unspent
  <1>6. UpToDate
    BY DEF UpToDate
  <1>7. UnsoldInOneOutput
    BY <1>2 DEF UnsoldInOneOutput
  <1>8. StaleOutpointExplained
    BY DEF StaleOutpointExplained
  <1> QED
    BY <1>1, <1>4, <1>5, <1>6, <1>7, <1>8 DEF ChainInv
-----------------------------------------------------------------------------
(***************************************************************************)
(* Types.                                                                  *)
(***************************************************************************)

\* Where a handler can go and what it can answer.
LEMMA ContinueType ==
  ASSUME HandlerType, NEW r \in Requests, NEW label \in Labels, Continue(r, label)
  PROVE  HandlerType' /\ UNCHANGED bounds
  BY DEF HandlerType, Continue, Goto, replies

LEMMA AbortType ==
  ASSUME HandlerType, NEW r \in Requests, NEW code \in Codes, Abort(r, code)
  PROVE  HandlerType'
  <1>1. "release" \in Labels
    BY DEF Labels
  <1> QED
    BY <1>1 DEF HandlerType, Abort, Goto, Respond

LEMMA DoneType ==
  ASSUME HandlerType, NEW r \in Requests, NEW code \in Codes, Goto(r, "done"),
         Respond(r, code), UNCHANGED <<transfer, pushing>>
  PROVE  HandlerType'
  <1>1. "done" \in Labels
    BY DEF Labels
  <1> QED
    BY <1>1 DEF HandlerType, Goto, Respond

LEMMA GotoType ==
  ASSUME HandlerType, NEW r \in Requests, NEW label \in Labels, Goto(r, label),
         transfer' \subseteq Requests, pushing' \subseteq Requests, UNCHANGED outcome
  PROVE  HandlerType'
  BY DEF HandlerType, Goto

LEMMA LabelsAndCodes ==
  /\ {"idle", "lock", "read", "sum", "source", "queued", "internalize", "advance",
      "check", "insert", "update", "release", "done", "dead"} \subseteq Labels
  /\ {"none", "ok", "invalid", "refused", "conflict", "unresolved", "error"} \subseteq Codes
  BY DEF Labels, Codes

LEMMA FaultType ==
  ASSUME SharedType, Fault
  PROVE  faults' \in Nat /\ crashes' \in Nat
  BY DEF SharedType, Fault

LEMMA WriteReturnsType ==
  ASSUME HandlerType, SharedType, NEW r \in Requests, NEW label \in Labels, WriteReturns(r, label)
  PROVE  HandlerType' /\ faults' \in Nat /\ crashes' \in Nat
  BY ContinueType, AbortType, FaultType, LabelsAndCodes DEF WriteReturns, bounds, SharedType

LEMMA CheckRemainingType ==
  ASSUME HandlerType, NEW r \in Requests, NEW remaining, CheckRemaining(r, remaining)
  PROVE  HandlerType' /\ UNCHANGED bounds
  BY ContinueType, AbortType, LabelsAndCodes DEF CheckRemaining

\* The parts of the state that a step leaves alone keep their type.
LEMMA SameType ==
  /\ DocumentType /\ UNCHANGED propertyDoc => DocumentType'
  /\ RecordsType /\ UNCHANGED <<shares, locks>> => RecordsType'
  /\ ChainType /\ UNCHANGED chain => ChainType'
  /\ HandlerType /\ UNCHANGED <<pc, replies>> => HandlerType'
  /\ LocalsType /\ UNCHANGED locals => LocalsType'
  /\ SharedType /\ UNCHANGED <<overlay, queue, bounds>> => SharedType'
  BY DEF DocumentType, RecordsType, ChainType, HandlerType, LocalsType, SharedType,
         propertyDoc, chain, replies, locals, bounds

LEMMA QueueType ==
  ASSUME queue \in Seq(Requests)
  PROVE  /\ \A r \in Requests : Append(queue, r) \in Seq(Requests)
         /\ \A r \in Requests : Running(r) => Tail(queue) \in Seq(Requests)
         /\ <<>> \in Seq(Requests)
  BY DEF Running

LEMMA LocalsParts ==
  ASSUME LocalsType, NEW r \in Requests
  PROVE  /\ property[r].currentOutpoint \in Outpoints /\ property[r].paymentTxid \in Outpoints
         /\ property[r].remainingPercent \in Int \cup {NULL}
         /\ amount[r] \in Int /\ investorId[r] \in Investors
  BY DEF LocalsType

\* What a signature does to the chain, output by output.
LEMMA SigningEffect ==
  ASSUME TypeOK, ChainInv, NEW r \in Requests, SignAction(r)
  PROVE  /\ ChainType'
         /\ amount[r] \in Nat \ {0} /\ ChangeAmount(r) \in Nat
         /\ sold' = sold + amount[r]
         /\ tokens'[<<r, 0>>] = amount[r] /\ tokens'[<<r, 1>>] = ChangeAmount(r)
         /\ \A o \in Outpoints \ {<<r, 0>>, <<r, 1>>} : tokens'[o] = tokens[o]
         /\ \A o \in Outpoints :
              spentBy'[o] = IF o = property[r].currentOutpoint \/ o = property[r].paymentTxid
                            THEN r ELSE spentBy[o]
  <1> DEFINE o == property[r].currentOutpoint
             p == property[r].paymentTxid
  <1>1. o \in Outpoints /\ p \in Outpoints /\ amount[r] \in Int
    BY LocalsParts DEF TypeOK
  <1>2. pc[r] = "queued"
    BY DEF SignAction
  <1>3. amount[r] \in Nat \ {0}
    BY <1>1, <1>2 DEF ChainInv, Positive, Asking
  <1>4. ChangeAmount(r) \in Nat
    <2>1. ChangeAmount(r) >= 0
      BY <1>2 DEF ChainInv, Enough
    <2>2. ChangeAmount(r) \in Int
      BY <1>1, tokens[o] \in Nat DEF ChangeAmount, TypeOK, ChainType
    <2> QED
      BY <2>1, <2>2
  <1>5. <<r, 0>> \in Outpoints /\ <<r, 1>> \in Outpoints /\ <<r, 2>> \in Outpoints
    BY MintIsNoRequest
  <1>6. tokens \in [Outpoints -> Nat] /\ sats \in [Outpoints -> Nat]
        /\ spentBy \in [Outpoints -> Requests \cup {NoRequest}] /\ sold \in Nat
    BY DEF TypeOK, ChainType
  <1>7. /\ tokens' = [tokens EXCEPT ![<<r, 0>>] = amount[r], ![<<r, 1>>] = ChangeAmount(r)]
        /\ spentBy' = [spentBy EXCEPT ![o] = r, ![p] = r]
        /\ sold' = sold + amount[r]
    BY DEF SignAction
  <1>8. sats' \in [Outpoints -> Nat]
    <2>1. CASE HasPaymentChange(r)
      <3>1. PaymentChangeSats(r) \in Nat
        BY <2>1, <1>1, <1>6, PoolAssumption, sats[p] \in Nat DEF HasPaymentChange, PaymentChangeSats
      <3>2. <<r, PaymentChangeIndex(r)>> \in Outpoints
        BY <1>5 DEF PaymentChangeIndex
      <3>3. sats' = [sats EXCEPT ![<<r, PaymentChangeIndex(r)>>] = PaymentChangeSats(r)]
        BY <2>1 DEF SignAction
      <3> HIDE DEF o, p
      <3> QED
        BY <3>1, <3>2, <3>3, <1>6
    <2>2. CASE ~HasPaymentChange(r)
      BY <2>2, <1>6 DEF SignAction
    <2> QED
      BY <2>1, <2>2
  <1> HIDE DEF o, p
  <1>9. /\ tokens' \in [Outpoints -> Nat]
        /\ tokens'[<<r, 0>>] = amount[r] /\ tokens'[<<r, 1>>] = ChangeAmount(r)
        /\ \A x \in Outpoints \ {<<r, 0>>, <<r, 1>>} : tokens'[x] = tokens[x]
    BY <1>3, <1>4, <1>5, <1>6, <1>7
  <1>10. /\ spentBy' \in [Outpoints -> Requests \cup {NoRequest}]
         /\ \A x \in Outpoints : spentBy'[x] = IF x = o \/ x = p THEN r ELSE spentBy[x]
    BY <1>1, <1>6, <1>7
  <1>11. sold' \in Nat
    BY <1>3, <1>6, <1>7
  <1> QED
    BY <1>3, <1>4, <1>7, <1>8, <1>9, <1>10, <1>11 DEF ChainType, o, p

LEMMA TypeStep == TypeOK /\ ChainInv /\ [Next]_vars => TypeOK'
  <1> SUFFICES ASSUME TypeOK, ChainInv, [Next]_vars
               PROVE  TypeOK'
    OBVIOUS
  <1> USE LabelsAndCodes, SameType DEF TypeOK
  <1>1. ASSUME NEW r \in Requests, Arrive(r) PROVE TypeOK'
    <2>1. HandlerType'
      BY <1>1, ContinueType, DoneType DEF Arrive
    <2>2. UNCHANGED <<database, chain, overlay, queue, locals, bounds>>
      BY <1>1, ContinueType DEF Arrive
    <2> QED
      BY <2>1, <2>2 DEF database
  <1>2. ASSUME NEW r \in Requests, AcquireLock(r) PROVE TypeOK'
    <2>1. HandlerType'
      BY <1>2, ContinueType, DoneType DEF AcquireLock
    <2>2. SharedType'
      BY <1>2, FaultType, ContinueType DEF AcquireLock, SharedType, bounds
    <2>3. RecordsType'
      BY <1>2 DEF AcquireLock, RecordsType
    <2> QED
      BY <1>2, <2>1, <2>2, <2>3 DEF AcquireLock
  <1>3. ASSUME NEW r \in Requests, ReadProperty(r) PROVE TypeOK'
    <2>1. HandlerType' /\ UNCHANGED bounds
      BY <1>3, ContinueType, CheckRemainingType DEF ReadProperty
    <2>2. LocalsType'
      BY <1>3 DEF ReadProperty, LocalsType, DocumentType
    <2> QED
      BY <1>3, <2>1, <2>2 DEF ReadProperty, database
  <1>4. ASSUME NEW r \in Requests, SumShares(r) PROVE TypeOK'
    <2>1. HandlerType' /\ UNCHANGED bounds
      BY <1>4, CheckRemainingType DEF SumShares
    <2> QED
      BY <1>4, <2>1 DEF SumShares, database
  <1>5. ASSUME NEW r \in Requests, FetchSources(r) PROVE TypeOK'
    <2>1. HandlerType' /\ UNCHANGED bounds
      BY <1>5, ContinueType, AbortType DEF FetchSources
    <2>2. SharedType'
      BY <1>5, <2>1, QueueType DEF FetchSources, SharedType, bounds
    <2> QED
      BY <1>5, <2>1, <2>2 DEF FetchSources, database
  <1>6. ASSUME NEW r \in Requests, SignAction(r) PROVE TypeOK'
    <2>1. HandlerType'
      <3>1. CASE HasOrdinalChange(r)
        BY <1>6, <3>1, GotoType DEF SignAction, HandlerType
      <3>2. CASE ~HasOrdinalChange(r)
        BY <1>6, <3>2, GotoType DEF SignAction, HandlerType
      <3> QED
        BY <3>1, <3>2
    <2>2. SharedType'
      BY <1>6, QueueType DEF SignAction, SharedType, bounds
    <2>3. ChainType'
      BY <1>6, SigningEffect
    <2> QED
      BY <1>6, <2>1, <2>2, <2>3 DEF SignAction, database
  <1>7. ASSUME NEW r \in Requests, SignRefused(r) PROVE TypeOK'
    <2>1. HandlerType'
      BY <1>7, AbortType DEF SignRefused, Reject
    <2>2. SharedType'
      BY <1>7, QueueType DEF SignRefused, Reject, SharedType, bounds
    <2> QED
      BY <1>7, <2>1, <2>2 DEF SignRefused, database
  <1>8. ASSUME NEW r \in Requests, Internalize(r) PROVE TypeOK'
    <2>1. HandlerType'
      BY <1>8, GotoType DEF Internalize, HandlerType
    <2>2. SharedType'
      BY <1>8, QueueType DEF Internalize, SharedType, bounds
    <2> QED
      BY <1>8, <2>1, <2>2 DEF Internalize, database
  <1>9. ASSUME NEW r \in Requests, AdvanceOutpoints(r) PROVE TypeOK'
    <2>1. HandlerType' /\ SharedType'
      BY <1>9, WriteReturnsType DEF AdvanceOutpoints, SharedType
    <2>3. DocumentType'
      BY <1>9, OwnOutputs DEF AdvanceOutpoints, DocumentType
    <2> QED
      BY <1>9, <2>1, <2>3 DEF AdvanceOutpoints
  <1>10. ASSUME NEW r \in Requests, CheckInvestor(r) PROVE TypeOK'
    <2>1. HandlerType' /\ UNCHANGED bounds
      BY <1>10, ContinueType DEF CheckInvestor
    <2>2. LocalsType'
      BY <1>10 DEF CheckInvestor, LocalsType, HasShares
    <2> QED
      BY <1>10, <2>1, <2>2 DEF CheckInvestor, database
  <1>11. ASSUME NEW r \in Requests, InsertShare(r) PROVE TypeOK'
    <2>1. HandlerType' /\ SharedType'
      BY <1>11, WriteReturnsType DEF InsertShare, SharedType
    <2>2. ShareOf(r) \in [investorId : Investors, amount : Int,
                          parentTxid : Outpoints, transferTxid : Outpoints]
      BY OwnOutputs, LocalsParts DEF ShareOf
    <2>3. RecordsType'
      BY <1>11, <2>2 DEF InsertShare, RecordsType
    <2> QED
      BY <1>11, <2>1, <2>3 DEF InsertShare
  <1>12. ASSUME NEW r \in Requests, UpdateSale(r) PROVE TypeOK'
    <2>1. HandlerType'
      <3>1. Succeed(r) => HandlerType'
        BY DEF Succeed, Goto, Respond, HandlerType
      <3> QED
        BY <1>12, <3>1, AbortType DEF UpdateSale
    <2>2. SharedType'
      BY <1>12, FaultType DEF UpdateSale, Succeed, SharedType, bounds
    <2>3. DocumentType'
      <3>1. NewRemainingPercent(r) \in Int
        BY SaleAssumption DEF NewRemainingPercent, LocalsType
      <3> QED
        BY <1>12, <3>1 DEF UpdateSale, DocumentType, propertyDoc
    <2> QED
      BY <1>12, <2>1, <2>2, <2>3 DEF UpdateSale
  <1>13. ASSUME NEW r \in Requests, ReleaseLock(r) PROVE TypeOK'
    <2>1. HandlerType'
      BY <1>13, GotoType DEF ReleaseLock, HandlerType, replies
    <2>2. SharedType'
      BY <1>13, FaultType DEF ReleaseLock, SharedType, bounds
    <2>3. RecordsType'
      BY <1>13 DEF ReleaseLock, RecordsType
    <2> QED
      BY <1>13, <2>1, <2>2, <2>3 DEF ReleaseLock
  <1>14. ASSUME NEW r \in Requests, PushToOverlay(r) PROVE TypeOK'
    <2>1. HandlerType'
      BY <1>14 DEF PushToOverlay, HandlerType
    <2>2. SharedType'
      BY <1>14, FaultType DEF PushToOverlay, SharedType, bounds, Txids
    <2> QED
      BY <1>14, <2>1, <2>2 DEF PushToOverlay, database
  <1>15. ASSUME NEW r \in Requests, CallFails(r) PROVE TypeOK'
    <2>1. HandlerType'
      BY <1>15, AbortType, DoneType DEF CallFails, Reject
    <2>2. SharedType'
      BY <1>15, QueueType, FaultType DEF CallFails, Reject, SharedType
    <2> QED
      BY <1>15, <2>1, <2>2 DEF CallFails, database
  <1>16. ASSUME Crash PROVE TypeOK'
    <2>1. HandlerType'
      BY <1>16 DEF Crash, HandlerType
    <2>2. SharedType'
      BY <1>16, QueueType DEF Crash, SharedType
    <2> QED
      BY <1>16, <2>1, <2>2 DEF Crash, database
  <1>17. ASSUME UNCHANGED vars PROVE TypeOK'
    BY <1>17 DEF vars, database
  <1> QED
    BY <1>1, <1>2, <1>3, <1>4, <1>5, <1>6, <1>7, <1>8, <1>9, <1>10, <1>11, <1>12, <1>13,
       <1>14, <1>15, <1>16, <1>17 DEF Next, Step
-----------------------------------------------------------------------------
(***************************************************************************)
(* Moves is what the chain invariant needs to know of the control: no      *)
(* handler goes back, and one that has signed either advances the document *)
(* or ends with an error.                                                  *)
(***************************************************************************)
Moves(x) ==
  /\ pc'[x] \in Before => pc[x] \in Before
  /\ pc'[x] \in Between => pc[x] \in Between
  /\ pc'[x] \in Asking => pc[x] \in Asking \/ amount[x] > 0
  /\ pc'[x] = "queued" => pc[x] = "queued" \/ ChangeAmount(x) >= 0
  /\ pc[x] \in Between => pc'[x] \in Between \cup {"dead"} \/ outcome'[x] = "error"
  /\ pc[x] = "dead" => pc'[x] = "dead"
  /\ outcome[x] = "error" => outcome'[x] = "error"
  /\ outcome'[x] # "none" => pc'[x] \in Ended

AllMove == \A x \in Requests : Moves(x)

\* A handler that goes on without answering.
LEMMA GotoMoves ==
  ASSUME HandlerType, Final, NEW r \in Requests, NEW label \in Labels,
         Goto(r, label), UNCHANGED outcome,
         pc[r] # "dead",
         pc[r] \in Ended => label \in Ended,
         label \in Before => pc[r] \in Before,
         label \in Between => pc[r] \in Between,
         label \in Asking => pc[r] \in Asking \/ amount[r] > 0,
         label = "queued" => ChangeAmount(r) >= 0,
         pc[r] \in Between => label \in Between
  PROVE  AllMove
  BY DEF HandlerType, Final, Goto, AllMove, Moves

\* A handler that answers.
LEMMA AnswerMoves ==
  ASSUME HandlerType, Final, NEW r \in Requests, NEW label \in {"release", "done"},
         NEW code \in Codes, Goto(r, label), Respond(r, code),
         pc[r] \notin Ended, pc[r] \in Between => code = "error"
  PROVE  AllMove
  BY DEF HandlerType, Final, Goto, Respond, AllMove, Moves, Ended, Before, Between, Asking

LEMMA AbortMoves ==
  ASSUME HandlerType, Final, NEW r \in Requests, NEW code \in Codes, Abort(r, code),
         pc[r] \notin Ended, pc[r] \in Between => code = "error"
  PROVE  AllMove
  BY AnswerMoves DEF Abort

LEMMA SameMoves ==
  ASSUME Final, UNCHANGED <<pc, outcome>>
  PROVE  AllMove
  BY DEF Final, AllMove, Moves

\* The other requests stand still.
LEMMA OthersMove ==
  ASSUME HandlerType, Final, NEW r \in Requests, NEW label, Goto(r, label),
         \A x \in Requests \ {r} : outcome'[x] = outcome[x]
  PROVE  \A x \in Requests \ {r} : Moves(x)
  BY DEF HandlerType, Final, Goto, Moves

\* The steps that neither sign nor advance the document.
LEMMA StepMoves ==
  ASSUME TypeOK, ChainInv, [Next]_vars,
         \A r \in Requests : ~SignAction(r) /\ ~AdvanceOutpoints(r)
  PROVE  AllMove
  <1> USE LabelsAndCodes DEF TypeOK, ChainInv, Before, Between, Asking, Ended
  <1>0. ASSUME NEW r \in Requests, NEW remaining, CheckRemaining(r, remaining), pc[r] \in {"read", "sum"}
        PROVE  AllMove
    <2>1. CASE Abort(r, "refused")
      BY <1>0, <2>1, AbortMoves
    <2>2. CASE Continue(r, "source")
      BY <1>0, <2>2, GotoMoves DEF Continue, replies
    <2> QED
      BY <1>0, <2>1, <2>2 DEF CheckRemaining
  <1>1. ASSUME NEW r \in Requests, Arrive(r) PROVE AllMove
    <2>1. CASE Respond(r, "invalid") /\ Goto(r, "done")
      BY <1>1, <2>1, AnswerMoves DEF Arrive
    <2>2. CASE Continue(r, "lock") /\ ~(amount[r] <= 0)
      <3>1. amount[r] > 0
        BY <2>2, LocalsParts
      <3> QED
        BY <1>1, <2>2, <3>1, GotoMoves DEF Arrive, Continue, replies
    <2> QED
      BY <1>1, <2>1, <2>2 DEF Arrive
  <1>2. ASSUME NEW r \in Requests, AcquireLock(r) PROVE AllMove
    <2>1. CASE \E code \in Codes : Respond(r, code) /\ Goto(r, "done")
      BY <1>2, <2>1, AnswerMoves DEF AcquireLock
    <2>2. CASE Continue(r, "read")
      BY <1>2, <2>2, GotoMoves DEF AcquireLock, Continue, replies
    <2> QED
      BY <1>2, <2>1, <2>2 DEF AcquireLock
  <1>3. ASSUME NEW r \in Requests, ReadProperty(r) PROVE AllMove
    <2>1. CASE Continue(r, "sum")
      BY <1>3, <2>1, GotoMoves DEF ReadProperty, Continue, replies
    <2> QED
      BY <1>3, <1>0, <2>1 DEF ReadProperty
  <1>4. ASSUME NEW r \in Requests, SumShares(r) PROVE AllMove
    BY <1>4, <1>0 DEF SumShares
  <1>5. ASSUME NEW r \in Requests, FetchSources(r) PROVE AllMove
    <2>1. CASE \E code \in Codes : Abort(r, code)
      BY <1>5, <2>1, AbortMoves DEF FetchSources
    <2>2. CASE Continue(r, "queued") /\ ~Oversells(r)
      <3>1. ChangeAmount(r) \in Int
        BY LocalsParts, tokens[property[r].currentOutpoint] \in Nat DEF ChangeAmount, ChainType
      <3>2. ChangeAmount(r) >= 0
        BY <2>2, <3>1 DEF Oversells
      <3> QED
        BY <1>5, <2>2, <3>2, GotoMoves DEF FetchSources, Continue, replies
    <2> QED
      BY <1>5, <2>1, <2>2 DEF FetchSources
  <1>7. ASSUME NEW r \in Requests, SignRefused(r) PROVE AllMove
    BY <1>7, AbortMoves DEF SignRefused, Reject
  <1>8. ASSUME NEW r \in Requests, Internalize(r) PROVE AllMove
    BY <1>8, GotoMoves DEF Internalize
  <1>10. ASSUME NEW r \in Requests, CheckInvestor(r) PROVE AllMove
    BY <1>10, GotoMoves DEF CheckInvestor, Continue, replies
  <1>11. ASSUME NEW r \in Requests, InsertShare(r) PROVE AllMove
    <2>1. CASE Abort(r, "error")
      BY <1>11, <2>1, AbortMoves DEF InsertShare
    <2>2. CASE Continue(r, "update")
      BY <1>11, <2>2, GotoMoves DEF InsertShare, Continue, replies
    <2> QED
      BY <1>11, <2>1, <2>2 DEF InsertShare, WriteReturns
  <1>12. ASSUME NEW r \in Requests, UpdateSale(r) PROVE AllMove
    <2>1. CASE Abort(r, "error")
      BY <1>12, <2>1, AbortMoves DEF UpdateSale
    <2>2. CASE Succeed(r)
      BY <1>12, <2>2, AnswerMoves DEF UpdateSale, Succeed
    <2> QED
      BY <1>12, <2>1, <2>2 DEF UpdateSale
  <1>13. ASSUME NEW r \in Requests, ReleaseLock(r) PROVE AllMove
    BY <1>13, GotoMoves DEF ReleaseLock, replies
  <1>14. ASSUME NEW r \in Requests, PushToOverlay(r) PROVE AllMove
    BY <1>14, SameMoves DEF PushToOverlay
  <1>15. ASSUME NEW r \in Requests, CallFails(r) PROVE AllMove
    <2>1. CASE pc[r] = "lock" /\ Goto(r, "done") /\ Respond(r, "error")
      BY <1>15, <2>1, AnswerMoves
    <2>2. CASE pc[r] \notin Ended /\ Abort(r, "error")
      BY <1>15, <2>2, AbortMoves
    <2> QED
      BY <1>15, <2>1, <2>2 DEF CallFails, Reject
  <1>16. ASSUME Crash PROVE AllMove
    BY <1>16 DEF Crash, Active, AllMove, Moves, Final, HandlerType
  <1>17. ASSUME UNCHANGED vars PROVE AllMove
    BY <1>17, SameMoves DEF vars, replies
  <1> QED
    BY <1>1, <1>2, <1>3, <1>4, <1>5, <1>7, <1>8, <1>10, <1>11, <1>12, <1>13,
       <1>14, <1>15, <1>16, <1>17 DEF Next, Step
-----------------------------------------------------------------------------
(***************************************************************************)
(* The chain invariant, step by step.                                      *)
(***************************************************************************)
LEMMA ControlStep ==
  ASSUME ChainInv, AllMove, UNCHANGED amount
  PROVE  Positive' /\ Final'
  BY DEF ChainInv, Positive, Final, AllMove, Moves

LEMMA QuietStep ==
  ASSUME ChainInv, AllMove,
         UNCHANGED <<chain, currentOutpoint, paymentTxid, property, amount>>
  PROVE  ChainInv'
  <1> USE DEF ChainInv, AllMove, Moves, chain, Unspent, IsIssuers, ChangeAmount
  <1>1. Positive' /\ Final'
    BY ControlStep
  <1>2. Unreached'
    BY DEF Unreached
  <1>3. Pointers'
    BY DEF Pointers
  <1>4. UpToDate'
    BY DEF UpToDate
  <1>5. Signed'
    BY DEF Signed
  <1>6. Enough'
    BY DEF Enough
  <1>7. UnsoldInOneOutput'
    BY DEF UnsoldInOneOutput
  <1> QED
    BY <1>1, <1>2, <1>3, <1>4, <1>5, <1>6, <1>7

\* The read copies the document's outpoints.
LEMMA ReadStep ==
  ASSUME TypeOK, ChainInv, AllMove, NEW r \in Requests, ReadProperty(r)
  PROVE  ChainInv'
  <1> USE DEF ChainInv, AllMove, Moves, Unspent, IsIssuers, ChangeAmount
  <1>1. /\ UNCHANGED <<tokens, sats, spentBy, sold, currentOutpoint, paymentTxid, amount>>
        /\ pc[r] = "read"
    BY DEF ReadProperty, database, propertyDoc, chain
  <1>2. /\ property'[r].currentOutpoint = currentOutpoint
        /\ property'[r].paymentTxid = paymentTxid
        /\ \A x \in Requests \ {r} : property'[x] = property[x]
    BY DEF ReadProperty, TypeOK, LocalsType
  <1>3. pc'[r] \notin Between \cup {"queued"}
    <2>1. pc[r] \notin Between
      BY <1>1 DEF Between
    <2>2. pc'[r] \in {"sum", "release", "source"}
      BY DEF ReadProperty, CheckRemaining, Continue, Abort, Goto, TypeOK, HandlerType
    <2> QED
      BY <2>2 DEF Between
  <1>4. Positive' /\ Final'
    BY <1>1, ControlStep
  <1>5. Unreached'
    <2> SUFFICES ASSUME NEW q \in Requests
                 PROVE  /\ pc'[q] \in Before => \A k \in 0 .. 2 : tokens'[<<q, k>>] = 0
                        /\ pc'[q] \in Before \cup Between =>
                             /\ currentOutpoint'[1] # q /\ paymentTxid'[1] # q
                             /\ \A x \in Requests : /\ property'[x].currentOutpoint[1] # q
                                                    /\ property'[x].paymentTxid[1] # q
                             /\ \A k \in 0 .. 2 : Unspent(<<q, k>>)'
      BY DEF Unreached
    <2>1. Moves(q)
      OBVIOUS
    <2> QED
      BY <1>1, <1>2, <2>1 DEF Unreached
  <1>6. Pointers'
    BY <1>1, <1>2 DEF Pointers
  <1>7. UpToDate'
    BY <1>1, <1>2 DEF UpToDate
  <1>8. Signed'
    BY <1>1, <1>2, <1>3 DEF Signed
  <1>9. Enough'
    BY <1>1, <1>2, <1>3 DEF Enough
  <1>10. UnsoldInOneOutput'
    BY <1>1 DEF UnsoldInOneOutput
  <1> QED
    BY <1>4, <1>5, <1>6, <1>7, <1>8, <1>9, <1>10

\* Where a signature leaves the request that made it.
LEMMA AfterSigning ==
  ASSUME TypeOK, ChainInv, NEW r \in Requests, SignAction(r)
  PROVE  /\ pc[r] = "queued" /\ pc'[r] \in {"internalize", "advance", "check"}
         /\ pc'[r] = "check" => ChangeAmount(r) = 0
         /\ UNCHANGED <<database, locals, outcome>>
         /\ \A x \in Requests \ {r} : Moves(x)
  <1>1. /\ pc[r] = "queued"
        /\ UNCHANGED <<database, locals, outcome>>
    BY DEF SignAction
  <1>2. PICK label \in {"internalize", "advance", "check"} :
          Goto(r, label) /\ (label = "check" => ~HasOrdinalChange(r))
    <2>1. CASE HasOrdinalChange(r)
      BY <2>1 DEF SignAction
    <2>2. CASE ~HasOrdinalChange(r) /\ HasPaymentChange(r)
      BY <2>2 DEF SignAction
    <2>3. CASE ~HasOrdinalChange(r) /\ ~HasPaymentChange(r)
      BY <2>3 DEF SignAction
    <2> QED
      BY <2>1, <2>2, <2>3
  <1>3. pc'[r] = label
    BY <1>2 DEF Goto, TypeOK, HandlerType
  <1>4. ~HasOrdinalChange(r) => ChangeAmount(r) = 0
    <2>1. ChangeAmount(r) \in Nat
      BY SigningEffect
    <2> QED
      BY <2>1 DEF HasOrdinalChange
  <1>5. \A x \in Requests \ {r} : Moves(x)
    BY <1>1, <1>2, OthersMove DEF TypeOK, ChainInv
  <1> QED
    BY <1>1, <1>2, <1>3, <1>4, <1>5

\* Whoever signs holds the document's outpoints, and they are its own only
\* to spend.
LEMMA SignsCurrent ==
  ASSUME TypeOK, ChainInv, NEW r \in Requests, SignAction(r)
  PROVE  /\ property[r].currentOutpoint = currentOutpoint /\ Unspent(currentOutpoint)
         /\ property[r].paymentTxid = paymentTxid /\ Unspent(paymentTxid)
         /\ IsIssuers(currentOutpoint) /\ currentOutpoint # paymentTxid
         /\ tokens[currentOutpoint] = PercentToSell - sold
  <1>1. Unspent(property[r].currentOutpoint) /\ Unspent(property[r].paymentTxid)
    BY DEF SignAction
  <1>2. property[r].currentOutpoint = currentOutpoint /\ property[r].paymentTxid = paymentTxid
    BY <1>1 DEF ChainInv, UpToDate
  <1>3. IsIssuers(currentOutpoint) /\ ~IsIssuers(paymentTxid)
    BY DEF ChainInv, Pointers
  <1>4. tokens[currentOutpoint] = PercentToSell - sold
    BY <1>1, <1>2, <1>3 DEF ChainInv, UnsoldInOneOutput, TypeOK, DocumentType
  <1> QED
    BY <1>1, <1>2, <1>3, <1>4

LEMMA SignStep ==
  ASSUME TypeOK, ChainInv, NEW r \in Requests, SignAction(r)
  PROVE  ChainInv'
  <1>1. /\ pc[r] = "queued" /\ pc'[r] \in {"internalize", "advance", "check"}
        /\ UNCHANGED <<currentOutpoint, paymentTxid, property, amount, outcome>>
        /\ \A x \in Requests \ {r} : Moves(x)
    BY AfterSigning DEF database, propertyDoc, locals
  <1>2. /\ property[r].currentOutpoint = currentOutpoint /\ Unspent(currentOutpoint)
        /\ property[r].paymentTxid = paymentTxid /\ Unspent(paymentTxid)
        /\ IsIssuers(currentOutpoint)
        /\ tokens[currentOutpoint] = PercentToSell - sold
    BY SignsCurrent
  <1>3. /\ amount[r] \in Nat \ {0} /\ ChangeAmount(r) \in Nat
        /\ sold' = sold + amount[r]
        /\ tokens'[<<r, 0>>] = amount[r] /\ tokens'[<<r, 1>>] = ChangeAmount(r)
        /\ \A o \in Outpoints \ {<<r, 0>>, <<r, 1>>} : tokens'[o] = tokens[o]
        /\ \A o \in Outpoints :
             spentBy'[o] = IF o = currentOutpoint \/ o = paymentTxid THEN r ELSE spentBy[o]
    BY SigningEffect, <1>2
  <1>4. /\ currentOutpoint[1] # r /\ paymentTxid[1] # r
        /\ \A x \in Requests : /\ property[x].currentOutpoint[1] # r
                               /\ property[x].paymentTxid[1] # r
        /\ \A k \in 0 .. 2 : Unspent(<<r, k>>)
    BY <1>1 DEF ChainInv, Unreached, Before
  <1>5. /\ currentOutpoint \in Outpoints /\ paymentTxid \in Outpoints
        /\ \A x \in Requests : /\ property[x].currentOutpoint \in Outpoints
                               /\ property[x].paymentTxid \in Outpoints
                               /\ amount[x] \in Int
    BY LocalsParts DEF TypeOK, DocumentType
  <1>6. \A o \in Outpoints : o[1] # r => tokens'[o] = tokens[o] /\ IsIssuers(o)' = IsIssuers(o)
    BY <1>3 DEF IsIssuers
  <1>7. \A o \in Outpoints : Unspent(o)' <=> Unspent(o) /\ o # currentOutpoint /\ o # paymentTxid
    BY <1>2, <1>3, MintIsNoRequest DEF Unspent
  <1>8. Positive'
    <2> SUFFICES ASSUME NEW x \in Requests, pc'[x] \in Asking PROVE amount'[x] > 0
      BY DEF Positive
    <2>1. CASE x = r
      BY <2>1, <1>1, <1>3
    <2>2. CASE x # r
      BY <2>2, <1>1 DEF Moves, ChainInv, Positive
    <2> QED
      BY <2>1, <2>2
  <1>9. Final'
    BY <1>1 DEF ChainInv, Final, Moves, Ended
  <1>10. Unreached'
    <2> SUFFICES ASSUME NEW x \in Requests
                 PROVE  /\ pc'[x] \in Before => \A k \in 0 .. 2 : tokens'[<<x, k>>] = 0
                        /\ pc'[x] \in Before \cup Between =>
                             /\ currentOutpoint[1] # x /\ paymentTxid[1] # x
                             /\ \A y \in Requests : /\ property[y].currentOutpoint[1] # x
                                                    /\ property[y].paymentTxid[1] # x
                             /\ \A k \in 0 .. 2 : Unspent(<<x, k>>)'
      BY <1>1 DEF Unreached
    <2>1. CASE x = r
      <3>1. pc'[r] \notin Before
        BY <1>1 DEF Before
      <3>2. \A k \in 0 .. 2 : Unspent(<<r, k>>)'
        BY <1>4, <1>7, MintIsNoRequest
      <3> QED
        BY <2>1, <3>1, <3>2, <1>4
    <2>2. CASE x # r
      <3>1. /\ pc'[x] \in Before => pc[x] \in Before
            /\ pc'[x] \in Between => pc[x] \in Between
        BY <2>2, <1>1 DEF Moves
      <3>2. \A k \in 0 .. 2 : /\ <<x, k>> \in Outpoints
                              /\ <<x, k>>[1] = x
                              /\ tokens'[<<x, k>>] = tokens[<<x, k>>]
        BY <2>2, <1>6, MintIsNoRequest
      <3>3. ASSUME pc'[x] \in Before, NEW k \in 0 .. 2 PROVE tokens'[<<x, k>>] = 0
        BY <3>1, <3>2, <3>3 DEF ChainInv, Unreached
      <3>4. ASSUME pc'[x] \in Before \cup Between
            PROVE  /\ currentOutpoint[1] # x /\ paymentTxid[1] # x
                   /\ \A y \in Requests : /\ property[y].currentOutpoint[1] # x
                                          /\ property[y].paymentTxid[1] # x
                   /\ \A k \in 0 .. 2 : Unspent(<<x, k>>)
        BY <3>1, <3>4 DEF ChainInv, Unreached
      <3>5. ASSUME pc'[x] \in Before \cup Between, NEW k \in 0 .. 2 PROVE Unspent(<<x, k>>)'
        BY <3>2, <3>4, <3>5, <1>7
      <3> QED
        BY <3>3, <3>4, <3>5
    <2> QED
      BY <2>1, <2>2
  <1>11. Pointers'
    BY <1>1, <1>4, <1>5, <1>6 DEF ChainInv, Pointers
  <1>12. UpToDate'
    BY <1>1, <1>5, <1>7 DEF ChainInv, UpToDate
  <1>13. \A x \in Requests : ChangeAmount(x)' = ChangeAmount(x)
    BY <1>1, <1>4, <1>5, <1>6 DEF ChangeAmount
  <1>14. Signed'
    <2>1. spentBy'[currentOutpoint] = r /\ spentBy'[paymentTxid] = r
      BY <1>3, <1>5
    <2>2. ChangeAmount(r) = 0 => sold' = PercentToSell
      <3>1. ChangeAmount(r) = PercentToSell - sold - amount[r]
        BY <1>2 DEF ChangeAmount
      <3> QED
        BY <3>1, <1>3, SaleAssumption DEF TypeOK, ChainType
    <2>3. \A x \in Requests \ {r} : pc'[x] \notin Between
      <3>1. \A x \in Requests : pc[x] \notin Between
        BY <1>2, MintIsNoRequest DEF ChainInv, Signed, Unspent
      <3> QED
        BY <3>1, <1>1 DEF Moves
    <2> QED
      BY <2>1, <2>2, <2>3, <1>1, <1>2, <1>3, <1>13 DEF Signed
  <1>15. Enough'
    <2>1. \A x \in Requests : pc'[x] = "queued" => ChangeAmount(x) >= 0
      BY <1>1 DEF Moves, ChainInv, Enough
    <2> QED
      BY <2>1, <1>13 DEF Enough
  <1>16. UnsoldInOneOutput'
    <2>1. ChangeAmount(r) = PercentToSell - sold'
      BY <1>2, <1>3, SaleAssumption DEF ChangeAmount, TypeOK, ChainType
    <2>2. sold' <= PercentToSell
      BY <2>1, <1>3, SaleAssumption DEF TypeOK, ChainType
    <2>3. ASSUME NEW o \in Outpoints, IsIssuers(o)', Unspent(o)' PROVE o = <<r, 1>>
      <3>1. CASE o[1] = r
        BY <3>1, <2>3, OutpointParts, MintIsNoRequest DEF IsIssuers, MintOutpoint
      <3>2. CASE o[1] # r
        BY <3>2, <2>3, <1>2, <1>5, <1>6, <1>7 DEF ChainInv, UnsoldInOneOutput
      <3> QED
        BY <3>1, <3>2
    <2> QED
      BY <2>1, <2>2, <2>3, <1>3 DEF UnsoldInOneOutput
  <1> QED
    BY <1>8, <1>9, <1>10, <1>11, <1>12, <1>14, <1>15, <1>16 DEF ChainInv

\* What advancing the document does: it moves to the change outputs.
LEMMA AdvancingEffect ==
  ASSUME TypeOK, ChainInv, NEW r \in Requests, AdvanceOutpoints(r)
  PROVE  /\ pc[r] = "advance" /\ pc'[r] \in {"check", "release"}
         /\ outcome'[r] = IF pc'[r] = "release" THEN "error" ELSE outcome[r]
         /\ UNCHANGED <<chain, locals>>
         /\ \A x \in Requests \ {r} : Moves(x)
         /\ spentBy[currentOutpoint] = r /\ spentBy[paymentTxid] = r
         /\ \/ currentOutpoint' = <<r, 1>> /\ tokens[<<r, 1>>] > 0
            \/ currentOutpoint' = currentOutpoint /\ tokens[<<r, 1>>] = 0 /\ sold = PercentToSell
         /\ \/ paymentTxid' = <<r, 2>>
            \/ paymentTxid' = <<r, 1>> /\ tokens[<<r, 1>>] = 0
            \/ paymentTxid' = paymentTxid
  <1>1. pc[r] = "advance" /\ UNCHANGED <<chain, locals>>
    BY DEF AdvanceOutpoints
  <1>2. /\ spentBy[currentOutpoint] = r /\ spentBy[paymentTxid] = r
        /\ tokens[<<r, 1>>] = ChangeAmount(r) /\ ChangeAmount(r) >= 0
        /\ ChangeAmount(r) = 0 => sold = PercentToSell
    BY <1>1 DEF ChainInv, Signed, Between
  <1>3. tokens[<<r, 1>>] \in Nat
    BY OwnOutputs DEF TypeOK, ChainType
  <1>4. HasOrdinalChange(r) <=> tokens[<<r, 1>>] > 0
    BY <1>2, <1>3 DEF HasOrdinalChange
  <1>5. \/ Goto(r, "check") /\ UNCHANGED outcome
        \/ Goto(r, "release") /\ Respond(r, "error")
    BY DEF AdvanceOutpoints, WriteReturns, Continue, Abort, replies
  <1>6. /\ pc'[r] \in {"check", "release"}
        /\ outcome'[r] = IF pc'[r] = "release" THEN "error" ELSE outcome[r]
        /\ \A x \in Requests \ {r} : outcome'[x] = outcome[x]
    <2>1. CASE Goto(r, "check") /\ UNCHANGED outcome
      BY <2>1 DEF Goto, TypeOK, HandlerType
    <2>2. CASE Goto(r, "release") /\ Respond(r, "error")
      BY <2>2 DEF Goto, Respond, TypeOK, HandlerType
    <2> QED
      BY <1>5, <2>1, <2>2
  <1>7. \A x \in Requests \ {r} : Moves(x)
    BY <1>5, <1>6, OthersMove DEF TypeOK, ChainInv
  <1>8. /\ currentOutpoint' = IF HasOrdinalChange(r) THEN <<r, 1>> ELSE currentOutpoint
        /\ paymentTxid' = IF HasPaymentChange(r) THEN <<r, PaymentChangeIndex(r)>> ELSE paymentTxid
    BY DEF AdvanceOutpoints
  <1>9. \/ currentOutpoint' = <<r, 1>> /\ tokens[<<r, 1>>] > 0
        \/ currentOutpoint' = currentOutpoint /\ tokens[<<r, 1>>] = 0 /\ sold = PercentToSell
    BY <1>2, <1>3, <1>4, <1>8
  <1>10. \/ paymentTxid' = <<r, 2>>
         \/ paymentTxid' = <<r, 1>> /\ tokens[<<r, 1>>] = 0
         \/ paymentTxid' = paymentTxid
    BY <1>3, <1>4, <1>8 DEF PaymentChangeIndex
  <1> QED
    BY <1>1, <1>2, <1>6, <1>7, <1>9, <1>10

LEMMA AdvanceStep ==
  ASSUME TypeOK, ChainInv, NEW r \in Requests, AdvanceOutpoints(r)
  PROVE  ChainInv'
  <1>1. /\ pc[r] = "advance" /\ pc'[r] \in {"check", "release"}
        /\ outcome'[r] = IF pc'[r] = "release" THEN "error" ELSE outcome[r]
        /\ UNCHANGED <<tokens, sats, spentBy, sold, amount, property>>
        /\ \A x \in Requests \ {r} : Moves(x)
        /\ spentBy[currentOutpoint] = r /\ spentBy[paymentTxid] = r
    BY AdvancingEffect DEF chain, locals
  <1>2. /\ \/ currentOutpoint' = <<r, 1>> /\ tokens[<<r, 1>>] > 0
           \/ currentOutpoint' = currentOutpoint
        /\ \/ paymentTxid' = <<r, 2>>
           \/ paymentTxid' = <<r, 1>> /\ tokens[<<r, 1>>] = 0
           \/ paymentTxid' = paymentTxid
    BY AdvancingEffect
  <1>3. \A x \in Requests \ {r} : pc[x] \notin Between
    BY <1>1 DEF ChainInv, Signed
  <1>4. pc'[r] \notin Before \cup Between \cup {"queued"}
    BY <1>1 DEF Before, Between
  <1>5. Positive'
    <2> SUFFICES ASSUME NEW x \in Requests, pc'[x] \in Asking PROVE amount[x] > 0
      BY <1>1 DEF Positive
    <2>1. CASE x = r
      BY <2>1, <1>1 DEF ChainInv, Positive, Asking
    <2>2. CASE x # r
      BY <2>2, <1>1 DEF Moves, ChainInv, Positive
    <2> QED
      BY <2>1, <2>2
  <1>6. Final'
    <2> SUFFICES ASSUME NEW x \in Requests, outcome'[x] # "none" PROVE pc'[x] \in Ended
      BY DEF Final
    <2>1. CASE x = r
      <3>1. outcome[r] = "none"
        BY <1>1 DEF ChainInv, Final, Ended
      <3> QED
        BY <2>1, <3>1, <1>1 DEF Ended
    <2>2. CASE x # r
      BY <2>2, <1>1 DEF Moves
    <2> QED
      BY <2>1, <2>2
  <1>7. Unreached'
    <2> SUFFICES ASSUME NEW x \in Requests
                 PROVE  /\ pc'[x] \in Before => \A k \in 0 .. 2 : tokens[<<x, k>>] = 0
                        /\ pc'[x] \in Before \cup Between =>
                             /\ currentOutpoint'[1] # x /\ paymentTxid'[1] # x
                             /\ \A y \in Requests : /\ property[y].currentOutpoint[1] # x
                                                    /\ property[y].paymentTxid[1] # x
                             /\ \A k \in 0 .. 2 : Unspent(<<x, k>>)
      BY <1>1 DEF Unreached, Unspent
    <2>1. CASE x = r
      BY <2>1, <1>4
    <2>2. CASE x # r
      <3>1. /\ pc'[x] \in Before => pc[x] \in Before
            /\ pc'[x] \in Between => pc[x] \in Between
        BY <2>2, <1>1 DEF Moves
      <3>2. /\ currentOutpoint'[1] = r \/ currentOutpoint'[1] = currentOutpoint[1]
            /\ paymentTxid'[1] = r \/ paymentTxid'[1] = paymentTxid[1]
        BY <1>2
      <3> QED
        BY <2>2, <3>1, <3>2 DEF ChainInv, Unreached
    <2> QED
      BY <2>1, <2>2
  <1>8. Pointers'
    <2>1. \A o \in Outpoints : IsIssuers(o)' = IsIssuers(o)
      BY <1>1 DEF IsIssuers
    <2>2. IsIssuers(currentOutpoint)'
      BY <1>1, <1>2 DEF ChainInv, Pointers, IsIssuers
    <2>3. ~IsIssuers(paymentTxid)'
      <3>1. <<r, 1>> # MintOutpoint /\ <<r, 2>> # MintOutpoint
        BY MintIsNoRequest DEF MintOutpoint
      <3> QED
        BY <3>1, <1>1, <1>2 DEF ChainInv, Pointers, IsIssuers
    <2> QED
      BY <2>1, <2>2, <2>3, <1>1, LocalsParts DEF ChainInv, Pointers, TypeOK
  <1>9. UpToDate'
    <2>1. ~Unspent(currentOutpoint) /\ ~Unspent(paymentTxid)
      BY <1>1, MintIsNoRequest DEF Unspent
    <2>2. \A x \in Requests : /\ ~Unspent(property[x].currentOutpoint)
                              /\ ~Unspent(property[x].paymentTxid)
      BY <2>1 DEF ChainInv, UpToDate
    <2> QED
      BY <2>2, <1>1 DEF UpToDate, Unspent
  <1>10. Signed'
    <2>1. \A x \in Requests : pc'[x] \notin Between
      BY <1>1, <1>3, <1>4 DEF Moves
    <2> QED
      BY <2>1 DEF Signed
  <1>11. Enough'
    <2>1. \A x \in Requests : pc'[x] = "queued" => ChangeAmount(x) >= 0
      BY <1>1, <1>4 DEF Moves, ChainInv, Enough
    <2> QED
      BY <2>1, <1>1 DEF Enough, ChangeAmount
  <1>12. UnsoldInOneOutput'
    BY <1>1 DEF ChainInv, UnsoldInOneOutput, IsIssuers, Unspent
  <1> QED
    BY <1>5, <1>6, <1>7, <1>8, <1>9, <1>10, <1>11, <1>12 DEF ChainInv

\* Only three actions touch the chain, the document's outpoints or what a
\* request has read of them.
LEMMA Frame ==
  ASSUME [Next]_vars,
         \A r \in Requests : ~SignAction(r) /\ ~AdvanceOutpoints(r) /\ ~ReadProperty(r)
  PROVE  UNCHANGED <<chain, currentOutpoint, paymentTxid, property, amount, investorId>>
  <1> USE DEF database, propertyDoc, locals
  <1>1. ASSUME NEW r \in Requests, Arrive(r) \/ SumShares(r) \/ FetchSources(r) \/ SignRefused(r)
                                     \/ Internalize(r)
        PROVE  UNCHANGED <<chain, currentOutpoint, paymentTxid, property, amount, investorId>>
    BY <1>1 DEF Arrive, SumShares, FetchSources, SignRefused, Internalize
  <1>2. ASSUME NEW r \in Requests, AcquireLock(r) \/ CheckInvestor(r) \/ InsertShare(r)
                                     \/ UpdateSale(r)
        PROVE  UNCHANGED <<chain, currentOutpoint, paymentTxid, property, amount, investorId>>
    BY <1>2 DEF AcquireLock, CheckInvestor, InsertShare, UpdateSale
  <1>3. ASSUME NEW r \in Requests, ReleaseLock(r) \/ PushToOverlay(r) \/ CallFails(r)
        PROVE  UNCHANGED <<chain, currentOutpoint, paymentTxid, property, amount, investorId>>
    BY <1>3 DEF ReleaseLock, PushToOverlay, CallFails
  <1>4. ASSUME Crash \/ UNCHANGED vars
        PROVE  UNCHANGED <<chain, currentOutpoint, paymentTxid, property, amount, investorId>>
    BY <1>4 DEF Crash, vars
  <1> QED
    BY <1>1, <1>2, <1>3, <1>4 DEF Next, Step

\* What the three actions have in common with the others.
LEMMA OneAtOnce ==
  ASSUME TypeOK, ChainInv, NEW r \in Requests, ReadProperty(r)
  PROVE  \A x \in Requests : ~SignAction(x) /\ ~AdvanceOutpoints(x)
  <1>1. SUFFICES ASSUME NEW x \in Requests, SignAction(x) \/ AdvanceOutpoints(x) PROVE FALSE
    OBVIOUS
  <1>2. pc[r] = "read" /\ pc[x] \in {"queued", "advance"}
    BY <1>1 DEF ReadProperty, SignAction, AdvanceOutpoints
  <1>3. pc'[x] = pc[x]
    <2>1. r # x
      BY <1>2
    <2>2. PICK label : Goto(r, label)
      BY DEF ReadProperty, CheckRemaining, Continue, Abort
    <2> QED
      BY <2>1, <2>2 DEF Goto, TypeOK, HandlerType
  <1>4. pc'[x] # pc[x]
    <2>1. CASE SignAction(x)
      BY <2>1, <1>2, AfterSigning
    <2>2. CASE AdvanceOutpoints(x)
      BY <2>2, <1>2, AdvancingEffect
    <2> QED
      BY <1>1, <2>1, <2>2
  <1> QED
    BY <1>3, <1>4

LEMMA ChainStep == TypeOK /\ ChainInv /\ [Next]_vars => ChainInv'
  <1> SUFFICES ASSUME TypeOK, ChainInv, [Next]_vars PROVE ChainInv'
    OBVIOUS
  <1>1. ASSUME NEW r \in Requests, SignAction(r) PROVE ChainInv'
    BY <1>1, SignStep
  <1>2. ASSUME NEW r \in Requests, AdvanceOutpoints(r) PROVE ChainInv'
    BY <1>2, AdvanceStep
  <1>3. ASSUME NEW r \in Requests, ReadProperty(r) PROVE ChainInv'
    <2>1. AllMove
      BY <1>3, OneAtOnce, StepMoves
    <2> QED
      BY <1>3, <2>1, ReadStep
  <1>4. CASE \A r \in Requests : ~SignAction(r) /\ ~AdvanceOutpoints(r) /\ ~ReadProperty(r)
    <2>1. AllMove
      BY <1>4, StepMoves
    <2>2. UNCHANGED <<chain, currentOutpoint, paymentTxid, property, amount>>
      BY <1>4, Frame
    <2> QED
      BY <2>1, <2>2, QuietStep
  <1> QED
    BY <1>1, <1>2, <1>3, <1>4

\* A stale outpoint stays explained.
LEMMA StaleStep == TypeOK /\ ChainInv /\ StaleOutpointExplained /\ [Next]_vars => StaleOutpointExplained'
  <1> SUFFICES ASSUME TypeOK, ChainInv, StaleOutpointExplained, [Next]_vars,
                      spentBy'[currentOutpoint'] # NoRequest,
                      sold' # PercentToSell
               PROVE  LET r == spentBy'[currentOutpoint']
                      IN pc'[r] \in {"internalize", "advance", "dead"} \/ outcome'[r] = "error"
    BY DEF StaleOutpointExplained
  <1>1. ASSUME NEW r \in Requests, SignAction(r)
        PROVE  /\ spentBy'[currentOutpoint'] = r
               /\ pc'[r] \in {"internalize", "advance"}
    <2>1. /\ pc'[r] \in {"internalize", "advance", "check"}
          /\ pc'[r] = "check" => ChangeAmount(r) = 0
          /\ currentOutpoint' = currentOutpoint
      BY <1>1, AfterSigning DEF database, propertyDoc
    <2>2. /\ property[r].currentOutpoint = currentOutpoint
          /\ tokens[currentOutpoint] = PercentToSell - sold
      BY <1>1, SignsCurrent
    <2>3. spentBy'[currentOutpoint] = r /\ sold' = sold + amount[r]
      <3>1. currentOutpoint \in Outpoints
        BY DEF TypeOK, DocumentType
      <3> QED
        BY <1>1, <2>2, <3>1, SigningEffect
    <2>4. ChangeAmount(r) # 0
      <3>1. amount[r] \in Int /\ sold \in Nat
        BY LocalsParts DEF TypeOK, ChainType
      <3> QED
        BY <2>2, <2>3, <3>1, SaleAssumption DEF ChangeAmount
    <2> QED
      BY <2>1, <2>3, <2>4
  <1>2. ASSUME NEW r \in Requests, AdvanceOutpoints(r) PROVE FALSE
    <2>1. pc[r] = "advance" /\ UNCHANGED <<spentBy, sold>>
      BY <1>2, AdvancingEffect DEF chain
    <2>2. currentOutpoint' = <<r, 1>> \/ sold = PercentToSell
      BY <1>2, AdvancingEffect
    <2>3. \A k \in 0 .. 2 : Unspent(<<r, k>>)
      BY <2>1 DEF ChainInv, Unreached, Between
    <2> QED
      BY <2>1, <2>2, <2>3 DEF Unspent
  <1>3. CASE \A r \in Requests : ~SignAction(r) /\ ~AdvanceOutpoints(r)
    <2>1. AllMove
      BY <1>3, StepMoves
    <2>2. UNCHANGED <<spentBy, sold, currentOutpoint>>
      <3>1. CASE \E r \in Requests : ReadProperty(r)
        BY <3>1 DEF ReadProperty, database, propertyDoc, chain
      <3>2. CASE \A r \in Requests : ~ReadProperty(r)
        BY <3>2, <1>3, Frame DEF chain
      <3> QED
        BY <3>1, <3>2
    <2>3. /\ spentBy[currentOutpoint] # NoRequest /\ sold # PercentToSell
          /\ spentBy[currentOutpoint] \in Requests
      BY <2>2 DEF TypeOK, DocumentType, ChainType
    <2>4. \/ pc[spentBy[currentOutpoint]] \in {"internalize", "advance", "dead"}
          \/ outcome[spentBy[currentOutpoint]] = "error"
      BY <2>3 DEF StaleOutpointExplained
    <2> QED
      BY <2>1, <2>2, <2>3, <2>4 DEF AllMove, Moves, Between
  <1> QED
    BY <1>1, <1>2, <1>3
-----------------------------------------------------------------------------
(***************************************************************************)
(* The theorems about the chain.                                           *)
(***************************************************************************)
LEMMA Invariance == Spec => []IInv
  <1>1. Init => IInv
    BY InitType, InitChain DEF IInv
  <1>2. IInv /\ [Next]_vars => IInv'
    BY TypeStep, ChainStep, StaleStep DEF IInv
  <1> QED
    BY <1>1, <1>2, PTL DEF Spec

\* Every variable keeps its type; in particular no transaction creates a
\* negative amount of tokens or satoshis (calcTokenTransfer, fee).
THEOREM TypeCorrect == Spec => []TypeOK
  <1>1. IInv => TypeOK
    BY DEF IInv
  <1> QED
    BY <1>1, Invariance, PTL

\* The property is never oversold: what is unsold is whole, in one unspent
\* output, for any number of racing, failing and dying requests.
THEOREM NeverOversold == Spec => []UnsoldInOneOutput
  <1>1. IInv => UnsoldInOneOutput
    BY DEF IInv, ChainInv
  <1> QED
    BY <1>1, Invariance, PTL

\* The document loses track of the unsold tokens only by a request that
\* died or failed after it had signed.
THEOREM StaleIsExplained == Spec => []StaleOutpointExplained
  <1>1. IInv => StaleOutpointExplained
    BY DEF IInv
  <1> QED
    BY <1>1, Invariance, PTL

\* currentOutpoint and paymentTxid only move down the chain, although
\* requests of different investors write them without a lock.
THEOREM AdvanceIsForward == Spec => AdvanceFollowsChain
  <1> DEFINE Forward ==
        /\ currentOutpoint' # currentOutpoint => spentBy[currentOutpoint] = currentOutpoint'[1]
        /\ paymentTxid' # paymentTxid => spentBy[paymentTxid] = paymentTxid'[1]
  <1>1. IInv /\ [Next]_vars => Forward
    <2> SUFFICES ASSUME TypeOK, ChainInv, [Next]_vars PROVE Forward
      BY DEF IInv
    <2>1. ASSUME NEW r \in Requests, AdvanceOutpoints(r) PROVE Forward
      <3>1. spentBy[currentOutpoint] = r /\ spentBy[paymentTxid] = r
        BY <2>1, AdvancingEffect
      <3>2. currentOutpoint' = <<r, 1>> \/ currentOutpoint' = currentOutpoint
        BY <2>1, AdvancingEffect
      <3>3. paymentTxid' \in {<<r, 1>>, <<r, 2>>} \/ paymentTxid' = paymentTxid
        BY <2>1, AdvancingEffect
      <3> QED
        BY <3>1, <3>2, <3>3
    <2>2. ASSUME NEW r \in Requests, SignAction(r) \/ ReadProperty(r) PROVE Forward
      BY <2>2 DEF SignAction, ReadProperty, database, propertyDoc
    <2>3. CASE \A r \in Requests : ~SignAction(r) /\ ~AdvanceOutpoints(r) /\ ~ReadProperty(r)
      BY <2>3, Frame
    <2> QED
      BY <2>1, <2>2, <2>3
  <1>2. IInv /\ [Next]_vars => [Forward]_vars
    BY <1>1
  <1> QED
    BY <1>2, Invariance, PTL DEF Spec, AdvanceFollowsChain
-----------------------------------------------------------------------------
(***************************************************************************)
(* The lock.                                                               *)
(***************************************************************************)

\* A step that changes no lock record and lets nobody past the lock.
LEMMA LockedKept ==
  ASSUME Locked, UNCHANGED <<locks, investorId>>,
         \A x \in Requests : Holding(x)' => Holding(x)
  PROVE  Locked'
  BY DEF Locked

\* A handler that moves on from within.
LEMMA HoldingKept ==
  ASSUME HandlerType, NEW r \in Requests, NEW label, Goto(r, label), Holding(r)
  PROVE  \A x \in Requests : Holding(x)' => Holding(x)
  BY DEF HandlerType, Goto, Holding, Active

LEMMA LockedStep == TypeOK /\ Locked /\ [Next]_vars => Locked'
  <1> SUFFICES ASSUME TypeOK, Locked, [Next]_vars PROVE Locked'
    OBVIOUS
  <1>1. ASSUME NEW r \in Requests, Arrive(r) PROVE Locked'
    <2>1. \A x \in Requests : Holding(x)' => Holding(x)
      BY <1>1 DEF Arrive, Continue, Goto, Holding, Active, TypeOK, HandlerType
    <2> QED
      BY <1>1, <2>1, LockedKept DEF Arrive, database, locals
  <1>2. ASSUME NEW r \in Requests, AcquireLock(r) PROVE Locked'
    <2>1. investorId' = investorId /\ pc[r] = "lock"
          /\ \A x \in Requests \ {r} : pc'[x] = pc[x]
      BY <1>2 DEF AcquireLock, Continue, Goto, locals, TypeOK, HandlerType
    <2>2. CASE LockIsFree(r)
      <3>1. locks' = [locks EXCEPT ![investorId[r]] = r]
        BY <1>2, <2>2 DEF AcquireLock
      <3>2. \A x \in Requests \ {r} : Holding(x)' => Holding(x) /\ investorId[x] # investorId[r]
        BY <2>1, <2>2, MintIsNoRequest DEF Holding, Active, Locked, LockIsFree
      <3>3. locks \in [Investors -> Requests \cup {NoRequest}] /\ investorId \in [Requests -> Investors]
        BY DEF TypeOK, RecordsType, LocalsType
      <3> QED
        BY <2>1, <3>1, <3>2, <3>3 DEF Locked
    <2>3. CASE ~LockIsFree(r)
      <3>1. UNCHANGED locks /\ Goto(r, "done")
        BY <1>2, <2>3 DEF AcquireLock
      <3>2. \A x \in Requests : Holding(x)' => Holding(x)
        BY <2>1, <3>1 DEF Goto, Holding, Active, TypeOK, HandlerType
      <3> QED
        BY <2>1, <3>1, <3>2, LockedKept
    <2> QED
      BY <2>2, <2>3
  <1>3. ASSUME NEW r \in Requests,
               ReadProperty(r) \/ SumShares(r) \/ FetchSources(r) \/ SignAction(r) \/ SignRefused(r)
                 \/ Internalize(r) \/ AdvanceOutpoints(r) \/ CheckInvestor(r) \/ InsertShare(r)
                 \/ UpdateSale(r)
        PROVE  Locked'
    <2>1. UNCHANGED <<locks, investorId>> /\ Holding(r)
      BY <1>3 DEF ReadProperty, SumShares, FetchSources, SignAction, SignRefused, Internalize,
                  AdvanceOutpoints, CheckInvestor, InsertShare, UpdateSale, database, locals,
                  Holding, Active
    <2>2. \E label : Goto(r, label)
      <3>1. ReadProperty(r) \/ SumShares(r) \/ FetchSources(r) \/ SignRefused(r)
              => \E label : Goto(r, label)
        BY DEF ReadProperty, SumShares, FetchSources, SignRefused, CheckRemaining, Reject, Abort,
               Continue
      <3>2. SignAction(r) \/ Internalize(r) => \E label : Goto(r, label)
        BY DEF SignAction, Internalize
      <3>3. AdvanceOutpoints(r) \/ CheckInvestor(r) \/ InsertShare(r) \/ UpdateSale(r)
              => \E label : Goto(r, label)
        BY DEF AdvanceOutpoints, CheckInvestor, InsertShare, UpdateSale, WriteReturns, Succeed,
               Abort, Continue
      <3> QED
        BY <1>3, <3>1, <3>2, <3>3
    <2> QED
      BY <2>1, <2>2, HoldingKept, LockedKept DEF TypeOK
  <1>4. ASSUME NEW r \in Requests, ReleaseLock(r) PROVE Locked'
    <2>1. /\ investorId' = investorId /\ Holding(r) /\ Goto(r, "done")
          /\ \/ locks' = locks
             \/ locks' = [i \in Investors |-> IF locks[i] = r THEN NoRequest ELSE locks[i]]
      BY <1>4 DEF ReleaseLock, locals, Holding, Active
    <2>2. \A x \in Requests : Holding(x)' => Holding(x) /\ x # r
      BY <2>1 DEF Goto, Holding, Active, TypeOK, HandlerType
    <2>3. \A x \in Requests : Holding(x)' => investorId[x] # investorId[r]
      BY <2>1, <2>2 DEF Locked
    <2> QED
      BY <2>1, <2>2, <2>3 DEF Locked, TypeOK, RecordsType, LocalsType
  <1>5. ASSUME NEW r \in Requests, CallFails(r) PROVE Locked'
    <2>1. \A x \in Requests : Holding(x)' => Holding(x)
      BY <1>5 DEF CallFails, Reject, Abort, Goto, Holding, Active, TypeOK, HandlerType
    <2> QED
      BY <1>5, <2>1, LockedKept DEF CallFails, database, locals
  <1>6. ASSUME Crash PROVE Locked'
    <2>1. \A x \in Requests : Holding(x)' => Holding(x)
      BY <1>6 DEF Crash, Holding, Active
    <2> QED
      BY <1>6, <2>1, LockedKept DEF Crash, database, locals
  <1>7. ASSUME UNCHANGED <<locks, investorId, pc>> PROVE Locked'
    BY <1>7, LockedKept DEF Holding, Active
  <1>8. UNCHANGED vars \/ (\E r \in Requests : PushToOverlay(r)) => UNCHANGED <<locks, investorId, pc>>
    BY DEF vars, PushToOverlay, database, locals
  <1> QED
    BY <1>1, <1>2, <1>3, <1>4, <1>5, <1>6, <1>7, <1>8 DEF Next, Step

\* The unique index on share_locks and the finally block keep the requests
\* of one investor apart.
THEOREM LockExcludes == Spec => []OneTransferPerInvestor
  <1>1. Init => Locked
    BY DEF Init, Locked, Holding, Active
  <1>2. TypeOK /\ Locked /\ [Next]_vars => Locked'
    BY LockedStep
  <1>3. Locked => OneTransferPerInvestor
    BY DEF Locked, OneTransferPerInvestor
  <1> QED
    BY <1>1, <1>2, <1>3, TypeCorrect, PTL DEF Spec
-----------------------------------------------------------------------------
(***************************************************************************)
(* The records.  A share record is written from what its request read and  *)
(* signed some steps before; what makes it true is that the chain keeps    *)
(* what was signed and that no request reads again.                        *)
(***************************************************************************)
Later == {"internalize", "advance", "check", "insert", "update"}

Unrecorded == {"internalize", "advance", "check", "insert"}

Past == {"advance", "check", "insert", "update"}

Harmless == faults = 0 /\ crashes = 0

\* What every step but a signature, CheckInvestor and InsertShare does to a
\* handler: it enters no later phase, and it leaves its phase without a
\* record, or without updating the sale, only if something failed.
Phase(x) ==
  /\ pc'[x] \in Later => pc[x] \in Later
  /\ pc'[x] \in {"insert", "update"} => pc[x] = pc'[x]
  /\ pc[x] \in Unrecorded /\ Harmless' => pc'[x] \in Unrecorded
  /\ pc[x] = "update" /\ Harmless' => pc'[x] = "update" \/ UpdateSale(x)
  /\ pc'[x] \in Past => pc[x] \in Past \/ x \in transfer'

AllPhases == \A x \in Requests : Phase(x)

\* Failures are not forgotten.
Grows ==
  /\ Harmless' => Harmless
  /\ transfer \subseteq transfer'
  /\ \A x \in Requests : outcome[x] = "error" => outcome'[x] = "error"

\* One handler goes to `label`.
LEMMA GotoPhase ==
  ASSUME HandlerType, NEW r \in Requests, NEW label, Goto(r, label),
         label \in Later => pc[r] \in Later,
         label \notin {"insert", "update"},
         pc[r] \in Unrecorded /\ Harmless' => label \in Unrecorded,
         pc[r] = "update" /\ Harmless' => UpdateSale(r),
         label \in Past => pc[r] \in Past \/ r \in transfer'
  PROVE  AllPhases
  BY DEF HandlerType, Goto, AllPhases, Phase

\* One handler answers: with an error it has recorded a share, not yet
\* signed, or failed.
LEMMA AnswerPhase ==
  ASSUME HandlerType, NEW r \in Requests, NEW label \in {"release", "done"}, Goto(r, label),
         pc[r] \in Unrecorded \cup {"update"} => ~Harmless' \/ (pc[r] = "update" /\ UpdateSale(r))
  PROVE  AllPhases
  BY GotoPhase DEF Later, Unrecorded, Past

LEMMA FaultHarms ==
  ASSUME SharedType, Fault
  PROVE  ~Harmless'
  BY DEF SharedType, Fault, Harmless

LEMMA StayPhase ==
  ASSUME UNCHANGED pc
  PROVE  AllPhases
  BY DEF AllPhases, Phase

LEMMA PhaseStep ==
  ASSUME TypeOK, [Next]_vars,
         \A r \in Requests : ~SignAction(r) /\ ~CheckInvestor(r) /\ ~InsertShare(r)
  PROVE  AllPhases
  <1> USE DEF TypeOK
  <1>1. ASSUME NEW r \in Requests, Arrive(r) \/ AcquireLock(r) PROVE AllPhases
    <2>1. pc[r] \in {"idle", "lock"}
      BY <1>1 DEF Arrive, AcquireLock
    <2>2. Goto(r, "done") \/ Goto(r, "lock") \/ Goto(r, "read")
      BY <1>1 DEF Arrive, AcquireLock, Continue
    <2> QED
      BY <2>1, <2>2, GotoPhase DEF Later, Unrecorded, Past
  <1>2. ASSUME NEW r \in Requests,
               ReadProperty(r) \/ SumShares(r) \/ FetchSources(r) \/ SignRefused(r)
        PROVE  AllPhases
    <2>1. pc[r] \in {"read", "sum", "source", "queued"}
      BY <1>2 DEF ReadProperty, SumShares, FetchSources, SignRefused
    <2>2. Goto(r, "sum") \/ Goto(r, "source") \/ Goto(r, "queued") \/ Goto(r, "release")
      BY <1>2 DEF ReadProperty, SumShares, FetchSources, SignRefused, CheckRemaining, Continue,
                  Abort, Reject
    <2> QED
      BY <2>1, <2>2, GotoPhase DEF Later, Unrecorded, Past
  <1>3. ASSUME NEW r \in Requests, Internalize(r) PROVE AllPhases
    <2>1. pc[r] = "internalize" /\ Goto(r, "advance") /\ r \in transfer'
      BY <1>3 DEF Internalize
    <2> QED
      BY <2>1, GotoPhase DEF Later, Unrecorded, Past
  <1>4. ASSUME NEW r \in Requests, AdvanceOutpoints(r) PROVE AllPhases
    <2>1. CASE Continue(r, "check")
      BY <1>4, <2>1, GotoPhase DEF AdvanceOutpoints, Continue, Later, Unrecorded, Past
    <2>2. CASE Fault /\ Abort(r, "error")
      BY <2>2, FaultHarms, AnswerPhase DEF Abort
    <2> QED
      BY <1>4, <2>1, <2>2 DEF AdvanceOutpoints, WriteReturns
  <1>5. ASSUME NEW r \in Requests, UpdateSale(r) \/ ReleaseLock(r) PROVE AllPhases
    <2>1. pc[r] \in {"update", "release"}
      BY <1>5 DEF UpdateSale, ReleaseLock
    <2>2. Goto(r, "release") \/ Goto(r, "done")
      BY <1>5 DEF UpdateSale, ReleaseLock, Succeed, Abort
    <2>3. pc[r] = "update" => UpdateSale(r)
      BY <1>5 DEF ReleaseLock
    <2> QED
      BY <2>1, <2>2, <2>3, AnswerPhase DEF Unrecorded
  <1>6. ASSUME NEW r \in Requests, CallFails(r) PROVE AllPhases
    <2>1. Goto(r, "done") \/ Goto(r, "release")
      BY <1>6 DEF CallFails, Reject, Abort
    <2> QED
      BY <1>6, <2>1, FaultHarms, AnswerPhase DEF CallFails
  <1>7. ASSUME Crash PROVE AllPhases
    <2>1. ~Harmless'
      BY <1>7 DEF Crash, SharedType, Harmless
    <2>2. \A x \in Requests : pc'[x] = pc[x] \/ pc'[x] = "dead"
      BY <1>7 DEF Crash
    <2> QED
      BY <2>1, <2>2 DEF AllPhases, Phase, Later, Past
  <1>8. ASSUME UNCHANGED vars \/ \E r \in Requests : PushToOverlay(r) PROVE AllPhases
    BY <1>8, StayPhase DEF vars, PushToOverlay
  <1> QED
    BY <1>1, <1>2, <1>3, <1>4, <1>5, <1>6, <1>7, <1>8 DEF Next, Step

\* A handler that has been answered is not answered again.
LEMMA ErrorsKept ==
  ASSUME TypeOK, ChainInv, [Next]_vars
  PROVE  \A x \in Requests : outcome[x] = "error" => outcome'[x] = "error"
  <1>1. ASSUME NEW r \in Requests, SignAction(r)
        PROVE  \A x \in Requests : outcome[x] = "error" => outcome'[x] = "error"
    BY <1>1, AfterSigning
  <1>2. ASSUME NEW r \in Requests, AdvanceOutpoints(r)
        PROVE  \A x \in Requests : outcome[x] = "error" => outcome'[x] = "error"
    <2>1. outcome'[r] = "error" \/ outcome'[r] = outcome[r]
      BY <1>2, AdvancingEffect
    <2>2. \A x \in Requests \ {r} : Moves(x)
      BY <1>2, AdvancingEffect
    <2> QED
      BY <2>1, <2>2 DEF Moves
  <1>3. CASE \A r \in Requests : ~SignAction(r) /\ ~AdvanceOutpoints(r)
    BY <1>3, StepMoves DEF AllMove, Moves
  <1> QED
    BY <1>1, <1>2, <1>3

LEMMA FailuresKept ==
  ASSUME TypeOK, [Next]_vars
  PROVE  (Harmless' => Harmless) /\ transfer \subseteq transfer'
  <1> DEFINE Kept == (UNCHANGED bounds \/ Fault) /\ transfer \subseteq transfer'
  <1>1. ASSUME NEW r \in Requests, Arrive(r) \/ AcquireLock(r) \/ SignAction(r) \/ Internalize(r)
                                     \/ ReleaseLock(r) \/ PushToOverlay(r) \/ CallFails(r)
        PROVE  Kept
    BY <1>1 DEF Arrive, AcquireLock, SignAction, Internalize, ReleaseLock, PushToOverlay, CallFails,
                Continue, Reject, Abort, replies
  <1>2. ASSUME NEW r \in Requests, ReadProperty(r) \/ SumShares(r) \/ FetchSources(r)
                                     \/ SignRefused(r)
        PROVE  Kept
    BY <1>2 DEF ReadProperty, SumShares, FetchSources, SignRefused, CheckRemaining, Continue,
                Reject, Abort, replies
  <1>3. ASSUME NEW r \in Requests, AdvanceOutpoints(r) \/ CheckInvestor(r) \/ InsertShare(r)
                                     \/ UpdateSale(r)
        PROVE  Kept
    BY <1>3 DEF AdvanceOutpoints, CheckInvestor, InsertShare, UpdateSale, WriteReturns, Succeed,
                Continue, Abort, replies
  <1>4. Kept => (Harmless' => Harmless) /\ transfer \subseteq transfer'
    BY DEF TypeOK, SharedType, Fault, Harmless, bounds
  <1>5. ASSUME Crash \/ UNCHANGED vars
        PROVE  (Harmless' => Harmless) /\ transfer \subseteq transfer'
    BY <1>5 DEF Crash, vars, bounds, replies, Harmless, TypeOK, SharedType
  <1> HIDE DEF Kept
  <1> QED
    BY <1>1, <1>2, <1>3, <1>4, <1>5 DEF Next, Step

LEMMA GrowsStep == ASSUME TypeOK, ChainInv, [Next]_vars PROVE Grows
  BY ErrorsKept, FailuresKept DEF Grows
-----------------------------------------------------------------------------
\* A request has signed when its transfer is on chain.
HasSigned(x) == tokens[<<x, 0>>] > 0

\* Its transfer spent what it read, all of it, and paid what it asked for.
SoldTo(x) ==
  /\ tokens[<<x, 0>>] = amount[x]
  /\ spentBy[property[x].currentOutpoint] = x
  /\ tokens[property[x].currentOutpoint] = amount[x] + tokens[<<x, 1>>]

\* Records are of requests that signed; without failures, each of those has
\* its record or is on the way to it.
BackedInv ==
  /\ \A x \in Requests : pc[x] \in Later => HasSigned(x)
  /\ \A x \in Requests : tokens[<<x, 1>>] > 0 => HasSigned(x)
  /\ \A x \in Requests : HasSigned(x) => SoldTo(x)
  /\ \A s \in shares : \E x \in Requests : HasSigned(x) /\ s = ShareOf(x)
  /\ tokens[<<Mint, 1>>] = 0
  /\ \A o \in Outpoints : tokens[o] <= PercentToSell
  /\ Harmless => \A x \in Requests :
                   HasSigned(x) => ShareOf(x) \in shares \/ pc[x] \in Unrecorded

\* Steps that change neither the chain nor the records.
LEMMA BackedKept ==
  ASSUME BackedInv, AllPhases, Harmless' => Harmless,
         UNCHANGED <<tokens, spentBy, property, amount, investorId, shares>>
  PROVE  BackedInv'
  <1>1. \A x \in Requests : /\ HasSigned(x)' <=> HasSigned(x)
                            /\ SoldTo(x)' <=> SoldTo(x)
                            /\ ShareOf(x)' = ShareOf(x)
    BY DEF HasSigned, SoldTo, ShareOf
  <1> QED
    BY <1>1 DEF BackedInv, AllPhases, Phase

\* A read leaves what the chain and the records say of others.
LEMMA BackedRead ==
  ASSUME TypeOK, ChainInv, BackedInv, Harmless' => Harmless, AllPhases,
         NEW r \in Requests, ReadProperty(r)
  PROVE  BackedInv'
  <1>1. /\ pc[r] = "read" /\ UNCHANGED <<tokens, spentBy, amount, investorId, shares>>
        /\ \A x \in Requests \ {r} : property'[x] = property[x]
    BY DEF ReadProperty, database, chain, TypeOK, LocalsType
  <1>2. ~HasSigned(r)
    <2>1. \A k \in 0 .. 2 : tokens[<<r, k>>] = 0
      BY <1>1 DEF ChainInv, Unreached, Before
    <2>2. tokens[<<r, 0>>] = 0
      BY <2>1
    <2> QED
      BY <2>2 DEF HasSigned
  <1>3. \A x \in Requests : HasSigned(x)' <=> HasSigned(x)
    BY <1>1 DEF HasSigned
  <1>4. \A x \in Requests \ {r} : (SoldTo(x)' <=> SoldTo(x)) /\ ShareOf(x)' = ShareOf(x)
    BY <1>1 DEF SoldTo, ShareOf
  <1> QED
    BY <1>1, <1>2, <1>3, <1>4 DEF BackedInv, AllPhases, Phase

\* A signature makes one buyer more, and takes nothing from the others.
LEMMA BackedSign ==
  ASSUME TypeOK, ChainInv, BackedInv, Harmless' => Harmless, NEW r \in Requests, SignAction(r)
  PROVE  BackedInv'
  <1>1. /\ pc[r] = "queued" /\ pc'[r] \in {"internalize", "advance", "check"}
        /\ UNCHANGED <<property, amount, investorId, shares>>
        /\ \A x \in Requests \ {r} : pc'[x] = pc[x]
    BY AfterSigning DEF database, locals, SignAction, Goto, TypeOK, HandlerType
  <1>2. /\ amount[r] \in Nat \ {0} /\ ChangeAmount(r) \in Nat
        /\ tokens'[<<r, 0>>] = amount[r] /\ tokens'[<<r, 1>>] = ChangeAmount(r)
        /\ \A o \in Outpoints \ {<<r, 0>>, <<r, 1>>} : tokens'[o] = tokens[o]
        /\ \A o \in Outpoints :
             spentBy'[o] = IF o = property[r].currentOutpoint \/ o = property[r].paymentTxid
                           THEN r ELSE spentBy[o]
    BY SigningEffect
  <1>3. /\ Unspent(property[r].currentOutpoint) /\ Unspent(property[r].paymentTxid)
        /\ property[r].currentOutpoint = currentOutpoint
        /\ tokens[currentOutpoint] = PercentToSell - sold
    BY SignsCurrent
  <1>4. /\ \A x \in Requests : /\ property[x].currentOutpoint \in Outpoints
                               /\ property[x].currentOutpoint[1] # r
        /\ \A o \in Outpoints : tokens[o] \in Nat
        /\ sold \in Nat
    BY <1>1, LocalsParts DEF ChainInv, Unreached, Before, TypeOK, ChainType
  <1>5. \A x \in Requests : tokens'[property[x].currentOutpoint] = tokens[property[x].currentOutpoint]
    BY <1>2, <1>4
  <1>6. HasSigned(r)' /\ SoldTo(r)'
    <2>1. spentBy'[property[r].currentOutpoint] = r
      BY <1>2, <1>4
    <2>2. ChangeAmount(r) = tokens[property[r].currentOutpoint] - amount[r]
      BY DEF ChangeAmount
    <2>3. tokens[property[r].currentOutpoint] \in Nat
      BY <1>4
    <2> QED
      BY <1>1, <1>2, <1>5, <2>1, <2>2, <2>3 DEF HasSigned, SoldTo
  <1>7. ASSUME NEW x \in Requests \ {r}
        PROVE  /\ tokens'[<<x, 0>>] = tokens[<<x, 0>>] /\ tokens'[<<x, 1>>] = tokens[<<x, 1>>]
               /\ HasSigned(x)' <=> HasSigned(x)
               /\ SoldTo(x) => SoldTo(x)'
    <2>1. /\ <<x, 0>> \in Outpoints \ {<<r, 0>>, <<r, 1>>}
          /\ <<x, 1>> \in Outpoints \ {<<r, 0>>, <<r, 1>>}
      <3>1. <<x, 0>> \in Outpoints /\ <<x, 1>> \in Outpoints
        BY OwnOutputs
      <3> QED
        BY <3>1
    <2>2. tokens'[<<x, 0>>] = tokens[<<x, 0>>] /\ tokens'[<<x, 1>>] = tokens[<<x, 1>>]
      BY <1>2, <2>1
    <2>3. ASSUME SoldTo(x) PROVE spentBy'[property[x].currentOutpoint] = x
      <3>1. spentBy[property[x].currentOutpoint] # NoRequest
        BY <2>3, MintIsNoRequest DEF SoldTo
      <3>2. property[x].currentOutpoint # property[r].currentOutpoint
            /\ property[x].currentOutpoint # property[r].paymentTxid
        BY <1>3, <3>1 DEF Unspent
      <3> QED
        BY <2>3, <1>2, <1>4, <3>2 DEF SoldTo
    <2> QED
      BY <1>1, <1>5, <2>2, <2>3 DEF HasSigned, SoldTo
  <1>8. \A x \in Requests : ShareOf(x)' = ShareOf(x)
    BY <1>1 DEF ShareOf
  <1>9. \A x \in Requests : /\ HasSigned(x)' => SoldTo(x)'
                            /\ HasSigned(x) => HasSigned(x)'
                            /\ pc'[x] \in Later => HasSigned(x)'
                            /\ tokens'[<<x, 1>>] > 0 => HasSigned(x)'
    BY <1>1, <1>6, <1>7 DEF BackedInv
  <1>10. tokens'[<<Mint, 1>>] = 0
    BY <1>2, MintIsNoRequest DEF BackedInv
  <1>11. \A o \in Outpoints : tokens'[o] <= PercentToSell
    <2>1. amount[r] <= PercentToSell /\ ChangeAmount(r) <= PercentToSell
      <3>1. ChangeAmount(r) = PercentToSell - sold - amount[r]
        BY <1>3 DEF ChangeAmount
      <3> QED
        BY <1>2, <1>4, <3>1, SaleAssumption
    <2> QED
      BY <1>2, <2>1 DEF BackedInv
  <1>12. \A s \in shares' : \E x \in Requests : HasSigned(x)' /\ s = ShareOf(x)'
    BY <1>1, <1>8, <1>9 DEF BackedInv
  <1>13. ASSUME Harmless', NEW x \in Requests, HasSigned(x)'
         PROVE  ShareOf(x)' \in shares' \/ pc'[x] \in Unrecorded
    <2>1. CASE x = r
      BY <1>1, <2>1 DEF Unrecorded
    <2>2. CASE x # r
      BY <1>1, <1>7, <1>8, <1>13, <2>2 DEF BackedInv
    <2> QED
      BY <2>1, <2>2
  <1> QED
    BY <1>9, <1>10, <1>11, <1>12, <1>13 DEF BackedInv

\* The record that is inserted is of a request that signed.
LEMMA BackedInsert ==
  ASSUME TypeOK, BackedInv, Harmless' => Harmless, NEW r \in Requests, InsertShare(r)
  PROVE  BackedInv'
  <1>1. /\ pc[r] = "insert" /\ shares' = shares \cup {ShareOf(r)}
        /\ UNCHANGED <<tokens, spentBy, property, amount, investorId>>
    BY DEF InsertShare, propertyDoc, chain, locals
  <1>2. /\ \A x \in Requests \ {r} : pc'[x] = pc[x]
        /\ pc'[r] \in {"update", "release"}
    BY DEF InsertShare, WriteReturns, Continue, Abort, Goto, TypeOK, HandlerType
  <1>3. \A x \in Requests : /\ HasSigned(x)' <=> HasSigned(x)
                            /\ SoldTo(x)' <=> SoldTo(x)
                            /\ ShareOf(x)' = ShareOf(x)
    BY <1>1 DEF HasSigned, SoldTo, ShareOf
  <1>4. HasSigned(r)
    BY <1>1 DEF BackedInv, Later
  <1>5. \A x \in Requests : pc'[x] \in Later => HasSigned(x)'
    BY <1>2, <1>3, <1>4 DEF BackedInv
  <1>6. \A s \in shares' : \E x \in Requests : HasSigned(x)' /\ s = ShareOf(x)'
    BY <1>1, <1>3, <1>4 DEF BackedInv
  <1>7. Harmless' => \A x \in Requests :
                       HasSigned(x)' => ShareOf(x)' \in shares' \/ pc'[x] \in Unrecorded
    BY <1>1, <1>2, <1>3 DEF BackedInv
  <1> QED
    BY <1>1, <1>3, <1>5, <1>6, <1>7 DEF BackedInv

LEMMA BackedStep ==
  ASSUME TypeOK, ChainInv, BackedInv, [Next]_vars
  PROVE  BackedInv'
  <1>0. Harmless' => Harmless
    BY FailuresKept
  <1>1. ASSUME NEW r \in Requests, SignAction(r) PROVE BackedInv'
    BY <1>0, <1>1, BackedSign
  <1>2. ASSUME NEW r \in Requests, InsertShare(r) PROVE BackedInv'
    BY <1>0, <1>2, BackedInsert
  <1>3. ASSUME NEW r \in Requests, CheckInvestor(r) PROVE BackedInv'
    <2>1. /\ UNCHANGED <<tokens, spentBy, property, amount, investorId, shares>>
          /\ pc[r] = "check" /\ pc' = [pc EXCEPT ![r] = "insert"]
      BY <1>3 DEF CheckInvestor, Continue, Goto, database, chain
    <2>2. \A x \in Requests : /\ HasSigned(x)' <=> HasSigned(x)
                              /\ SoldTo(x)' <=> SoldTo(x)
                              /\ ShareOf(x)' = ShareOf(x)
      BY <2>1 DEF HasSigned, SoldTo, ShareOf
    <2>3. \A x \in Requests : /\ pc'[x] \in Later => pc[x] \in Later
                              /\ pc[x] \in Unrecorded => pc'[x] \in Unrecorded
      BY <2>1 DEF TypeOK, HandlerType, Later, Unrecorded
    <2> QED
      BY <1>0, <2>1, <2>2, <2>3 DEF BackedInv
  <1>4. ASSUME NEW r \in Requests, ReadProperty(r),
               \A x \in Requests : ~SignAction(x) /\ ~CheckInvestor(x) /\ ~InsertShare(x)
        PROVE  BackedInv'
    BY <1>0, <1>4, PhaseStep, BackedRead
  <1>5. CASE \A r \in Requests : /\ ~SignAction(r) /\ ~ReadProperty(r)
                                 /\ ~CheckInvestor(r) /\ ~InsertShare(r)
    <2>1. AllPhases
      BY <1>5, PhaseStep
    <2>2. UNCHANGED <<tokens, spentBy, property, amount, investorId, shares>>
      <3>1. ASSUME NEW r \in Requests, AdvanceOutpoints(r)
            PROVE  UNCHANGED <<tokens, spentBy, property, amount, investorId, shares>>
        BY <3>1 DEF AdvanceOutpoints, chain, locals
      <3>2. CASE \A r \in Requests : ~AdvanceOutpoints(r)
        <4>1. UNCHANGED <<tokens, spentBy, property, amount, investorId>>
          BY <1>5, <3>2, Frame DEF chain
        <4>2. shares' = shares
          BY <1>5 DEF Next, Step, Arrive, AcquireLock, SumShares, FetchSources, SignRefused,
                      Internalize, AdvanceOutpoints, UpdateSale, ReleaseLock, PushToOverlay,
                      CallFails, Crash, vars, database
        <4> QED
          BY <4>1, <4>2
      <3> QED
        BY <3>1, <3>2
    <2> QED
      BY <1>0, <2>1, <2>2, BackedKept
  <1> QED
    BY <1>1, <1>2, <1>3, <1>4, <1>5

LEMMA BackedInvariance == Spec => []BackedInv
  <1>1. Init => BackedInv
    <2> SUFFICES ASSUME Init PROVE BackedInv
      OBVIOUS
    <2>1. ASSUME NEW x \in Requests PROVE tokens[<<x, 0>>] = 0 /\ tokens[<<x, 1>>] = 0
      <3>1. <<x, 0>> \in Outpoints /\ <<x, 1>> \in Outpoints
        BY OwnOutputs
      <3>2. <<x, 0>> # MintOutpoint /\ <<x, 1>> # MintOutpoint
        BY RequestsAssumption DEF MintOutpoint
      <3> QED
        BY <3>1, <3>2 DEF Init
    <2>2. tokens[<<Mint, 1>>] = 0 /\ \A o \in Outpoints : tokens[o] <= PercentToSell
      BY MintIsNoRequest, SaleAssumption DEF Init, MintOutpoint
    <2>3. ASSUME NEW x \in Requests PROVE ~HasSigned(x) /\ ~(tokens[<<x, 1>>] > 0)
      <3>1. tokens[<<x, 0>>] = 0 /\ tokens[<<x, 1>>] = 0
        BY <2>1
      <3> QED
        BY <3>1 DEF HasSigned
    <2>4. shares = {} /\ \A x \in Requests : pc[x] \notin Later
      BY DEF Init, Later
    <2> QED
      BY <2>2, <2>3, <2>4 DEF BackedInv
  <1>2. IInv /\ BackedInv /\ [Next]_vars => BackedInv'
    BY BackedStep DEF IInv
  <1> QED
    BY <1>1, <1>2, Invariance, PTL DEF Spec

\* A share is recorded some awaits after it was signed, from what was read
\* before; it is what the chain says all the same (sharePurchase.ts:457).
THEOREM RecordsAreTrue == Spec => []SharesBackedByChain
  <1>1. BackedInv => SharesBackedByChain
    <2> SUFFICES ASSUME BackedInv, NEW s \in shares
                 PROVE  tokens[s.transferTxid] = s.amount /\ spentBy[s.parentTxid] = s.transferTxid[1]
      BY DEF SharesBackedByChain
    <2>1. PICK x \in Requests : SoldTo(x) /\ s = ShareOf(x)
      BY DEF BackedInv
    <2>2. /\ s.amount = amount[x] /\ s.parentTxid = property[x].currentOutpoint
          /\ s.transferTxid = <<x, 0>>
      BY <2>1 DEF ShareOf
    <2> QED
      BY <2>1, <2>2 DEF SoldTo
  <1> QED
    BY <1>1, BackedInvariance, PTL

\* Without failures, whatever the order the records were inserted in, the
\* issuer's outputs descend from the mint once all have finished: each was
\* made by a recorded sale from one that held more tokens.
LEMMA IssuedDescends ==
  ASSUME IInv, BackedInv, Quiet, Harmless, NEW U, NEW leaf \in Outpoints, IsIssuers(leaf)
  PROVE  Descends(shares, MintOutpoint, leaf, U)
  <1> DEFINE Issued == {o \in Outpoints : IsIssuers(o)}
             rank == [o \in Issued |-> PercentToSell - tokens[o]]
  <1>1. \A o \in Outpoints : tokens[o] \in Nat /\ tokens[o] <= PercentToSell
    BY DEF IInv, TypeOK, ChainType, BackedInv
  <1>2. rank \in [Issued -> Nat]
    BY <1>1, SaleAssumption
  <1>3. ASSUME NEW o \in Issued, o # MintOutpoint
        PROVE  \E s \in shares : /\ o = s.transferTxid \/ o = <<s.transferTxid[1], 1>>
                                 /\ s.parentTxid \in Issued
                                 /\ rank[s.parentTxid] < rank[o]
    <2>1. o[2] = 1 /\ tokens[o] > 0 /\ o[1] \in Txids /\ o = <<o[1], 1>>
      BY <1>3, OutpointParts DEF IsIssuers
    <2> DEFINE x == o[1]
    <2>2. x \in Requests
      <3>1. o # <<Mint, 1>>
        BY <2>1 DEF BackedInv
      <3> QED
        BY <2>1, <3>1 DEF Txids
    <2>3. HasSigned(x) /\ SoldTo(x) /\ ShareOf(x) \in shares
      <3>1. HasSigned(x) /\ SoldTo(x)
        BY <2>1, <2>2 DEF BackedInv
      <3>2. pc[x] \notin Unrecorded
        BY <2>2 DEF Quiet, Unrecorded
      <3> QED
        BY <2>2, <3>1, <3>2 DEF BackedInv
    <2>4. /\ property[x].currentOutpoint \in Issued
          /\ amount[x] \in Int /\ amount[x] > 0
      BY <2>2, <2>3, LocalsParts DEF IInv, TypeOK, ChainInv, Pointers, HasSigned, SoldTo
    <2>5. tokens[property[x].currentOutpoint] = amount[x] + tokens[o]
      BY <2>1, <2>3 DEF SoldTo
    <2>6. rank[property[x].currentOutpoint] < rank[o]
      <3>1. /\ rank[property[x].currentOutpoint] = PercentToSell - tokens[property[x].currentOutpoint]
            /\ rank[o] = PercentToSell - tokens[o]
        BY <2>4
      <3>2. tokens[o] \in Nat /\ PercentToSell \in Nat
        BY <1>1, SaleAssumption
      <3> HIDE DEF rank, Issued, x
      <3> QED
        BY <2>4, <2>5, <3>1, <3>2
    <2>7. /\ o = <<ShareOf(x).transferTxid[1], 1>>
          /\ ShareOf(x).parentTxid = property[x].currentOutpoint
      BY <2>1 DEF ShareOf
    <2> HIDE DEF rank, Issued, x
    <2> QED
      BY <2>3, <2>4, <2>6, <2>7
  <1>4. leaf \in Issued
    OBVIOUS
  <1> HIDE DEF rank, Issued
  <1> QED
    BY <1>2, <1>3, <1>4, RankedDescends

LEMMA SharesWellFormed ==
  ASSUME BackedInv
  PROVE  WellFormed(shares, MintOutpoint)
  <1>1. ASSUME NEW s \in shares
        PROVE  s.transferTxid = <<s.transferTxid[1], 0>> /\ s.transferTxid # MintOutpoint
    <2>1. PICK x \in Requests : s = ShareOf(x)
      BY DEF BackedInv
    <2>2. s.transferTxid = <<x, 0>>
      BY <2>1 DEF ShareOf
    <2> QED
      BY <2>2, RequestsAssumption DEF MintOutpoint
  <1>2. ASSUME NEW s \in shares, NEW t \in shares, s.transferTxid = t.transferTxid PROVE s = t
    <2>1. PICK x \in Requests : s = ShareOf(x)
      BY DEF BackedInv
    <2>2. PICK y \in Requests : t = ShareOf(y)
      BY DEF BackedInv
    <2>3. s.transferTxid = <<x, 0>> /\ t.transferTxid = <<y, 0>>
      BY <2>1, <2>2 DEF ShareOf
    <2>4. <<x, 0>> = <<y, 0>>
      BY <1>2, <2>3
    <2>5. x = y
      BY <2>4
    <2> QED
      BY <2>1, <2>2, <2>5
  <1> QED
    BY <1>1, <1>2 DEF WellFormed, MintOutpoint

\* Concurrent buyers record their shares in any order, a child before its
\* parent if need be; when all are done every share traces to the mint
\* (sharePurchase.ts:457, shareChain.ts:23).
THEOREM SharesTrace == Spec => []QuietSharesTrace
  <1>1. IInv /\ BackedInv => QuietSharesTrace
    <2> SUFFICES ASSUME IInv, BackedInv, Quiet, Undisturbed, NEW s \in shares
                 PROVE  IsTraced(shares, MintOutpoint, s.transferTxid)
      BY DEF QuietSharesTrace
    <2>1. PICK x \in Requests : s = ShareOf(x)
      BY DEF BackedInv
    <2>2. s.parentTxid \in Outpoints /\ IsIssuers(s.parentTxid)
      BY <2>1, LocalsParts DEF ShareOf, IInv, TypeOK, ChainInv, Pointers
    <2>3. Descends(shares, MintOutpoint, s.parentTxid, Visitable(shares, s.transferTxid))
      BY <2>2, IssuedDescends DEF Undisturbed, Harmless
    <2>4. Descends(shares, MintOutpoint, s.transferTxid, Visitable(shares, s.transferTxid))
      BY <2>3 DEF Descends, Closed
    <2> QED
      BY <2>4, SharesWellFormed, DescendsTraced
  <1> QED
    BY <1>1, Invariance, BackedInvariance, PTL
-----------------------------------------------------------------------------
(***************************************************************************)
(* The sum over the share records.  TotalSold adds them up in an order     *)
(* that nobody knows; that the order does not matter is shown with the     *)
(* least set for which something else would be so.                         *)
(***************************************************************************)
\* The record that a sum takes out first.
FirstOf(T) == CHOOSE x \in T : TRUE

IsSum(h, S) ==
  h = [T \in SUBSET S |-> IF T = {} THEN 0 ELSE FirstOf(T).amount + h[T \ {FirstOf(T)}]]

LEMMA TotalUnfolds ==
  ASSUME NEW S
  PROVE  TotalSold(S) = (CHOOSE h : IsSum(h, S))[S]
  BY DEF TotalSold, MapThenSumSet, MapThenFoldSet, IsSum, FirstOf

\* Among finite sets there is one with no smaller one beside it.
LEMMA LeastSet ==
  ASSUME NEW S, IsFiniteSet(S), NEW B \in SUBSET SUBSET S, B # {}
  PROVE  \E T \in B : IsFiniteSet(T) /\ \A x \in T : T \ {x} \notin B
  <1>1. PICK T \in B : \A u \in B : ~(<<u, T>> \in StrictSubsetOrdering(S))
    <2>1. IsWellFoundedOn(StrictSubsetOrdering(S), SUBSET S)
      BY FS_StrictSubsetOrderingWellFounded, FS_FiniteSubsetsOfFinite
    <2> QED
      BY <2>1, WFMin
  <1>2. \A u \in B : u \subseteq T => u = T
    BY <1>1 DEF StrictSubsetOrdering
  <1>3. IsFiniteSet(T)
    BY FS_Subset
  <1> QED
    BY <1>2, <1>3

\* What a sum gives for a set does not depend on what else it is defined for.
LEMMA SumsAgree ==
  ASSUME NEW S1, NEW S2, NEW h1, NEW h2, IsSum(h1, S1), IsSum(h2, S2),
         NEW T \in (SUBSET S1) \cap (SUBSET S2), IsFiniteSet(T)
  PROVE  h1[T] = h2[T]
  <1> DEFINE B == {u \in SUBSET T : h1[u] # h2[u]}
  <1>1. SUFFICES ASSUME B # {} PROVE FALSE
    OBVIOUS
  <1>2. PICK u \in B : \A x \in u : u \ {x} \notin B
    <2> HIDE DEF B
    <2>1. B \in SUBSET SUBSET T
      BY DEF B
    <2> QED
      BY <1>1, <2>1, LeastSet
  <1>3. u \in SUBSET S1 /\ u \in SUBSET S2
    <2>1. u \subseteq T /\ T \subseteq S1 /\ T \subseteq S2
      OBVIOUS
    <2> QED
      BY <2>1
  <1>4. /\ h1[u] = IF u = {} THEN 0 ELSE FirstOf(u).amount + h1[u \ {FirstOf(u)}]
        /\ h2[u] = IF u = {} THEN 0 ELSE FirstOf(u).amount + h2[u \ {FirstOf(u)}]
    BY <1>3 DEF IsSum
  <1>5. u # {} => FirstOf(u) \in u
    BY DEF FirstOf
  <1>6. u # {} => h1[u \ {FirstOf(u)}] = h2[u \ {FirstOf(u)}]
    BY <1>2, <1>5
  <1> QED
    BY <1>4, <1>6

LEMMA SumExists ==
  ASSUME NEW S, IsFiniteSet(S)
  PROVE  \E h : IsSum(h, S)
  <1> DEFINE B == {T \in SUBSET S : ~\E h : IsSum(h, T)}
  <1>1. SUFFICES ASSUME B # {} PROVE FALSE
    OBVIOUS
  <1>2. PICK T \in B : IsFiniteSet(T) /\ \A x \in T : T \ {x} \notin B
    <2>1. B \in SUBSET SUBSET S
      OBVIOUS
    <2> HIDE DEF B
    <2> QED
      BY <1>1, <2>1, LeastSet
  <1> DEFINE h == [u \in SUBSET T |-> IF u = {} THEN 0
                                      ELSE FirstOf(u).amount + TotalSold(u \ {FirstOf(u)})]
  <1>3. \A u \in SUBSET T : u # {} => FirstOf(u) \in u
    BY DEF FirstOf
  <1>4. ASSUME NEW u \in SUBSET T, u # T
        PROVE  /\ IsFiniteSet(u)
               /\ \E g : IsSum(g, u) /\ g[u] = TotalSold(u)
    <2>1. PICK x \in T : u \subseteq T \ {x}
      BY <1>4
    <2>2. PICK f : IsSum(f, T \ {x})
      BY <1>2, <2>1
    <2>3. IsSum([v \in SUBSET u |-> f[v]], u)
      <3> DEFINE g == [v \in SUBSET u |-> f[v]]
      <3>1. ASSUME NEW v \in SUBSET u
            PROVE  g[v] = IF v = {} THEN 0 ELSE FirstOf(v).amount + g[v \ {FirstOf(v)}]
        <4>1. v \in SUBSET (T \ {x})
          BY <2>1
        <4>2. f[v] = IF v = {} THEN 0 ELSE FirstOf(v).amount + f[v \ {FirstOf(v)}]
          BY <2>2, <4>1 DEF IsSum
        <4>3. g[v] = f[v] /\ g[v \ {FirstOf(v)}] = f[v \ {FirstOf(v)}]
          OBVIOUS
        <4> QED
          BY <4>2, <4>3
      <3>2. g = [v \in SUBSET u |-> g[v]]
        OBVIOUS
      <3> HIDE DEF g
      <3>3. g = [v \in SUBSET u |-> IF v = {} THEN 0 ELSE FirstOf(v).amount + g[v \ {FirstOf(v)}]]
        BY <3>1, <3>2
      <3> QED
        BY <3>3 DEF IsSum, g
    <2>4. IsSum(CHOOSE g : IsSum(g, u), u)
      BY <2>3
    <2>5. IsFiniteSet(u)
      BY <1>2, FS_Subset
    <2> QED
      BY <2>4, <2>5, TotalUnfolds
  <1>5. ASSUME NEW u \in SUBSET T, u # {}
        PROVE  h[u \ {FirstOf(u)}] = TotalSold(u \ {FirstOf(u)})
    <2> DEFINE v == u \ {FirstOf(u)}
    <2>1. v \in SUBSET T /\ v # T
      BY <1>3, <1>5
    <2>2. PICK g : IsSum(g, v) /\ g[v] = TotalSold(v)
      BY <1>4, <2>1
    <2>3. g[v] = IF v = {} THEN 0 ELSE FirstOf(v).amount + g[v \ {FirstOf(v)}]
      BY <2>2 DEF IsSum
    <2>4. v # {} => g[v \ {FirstOf(v)}] = TotalSold(v \ {FirstOf(v)})
      <3> DEFINE w == v \ {FirstOf(v)}
      <3>1. w \in SUBSET T /\ w # T /\ w \in SUBSET v
        BY <2>1
      <3>2. PICK f : IsSum(f, w) /\ f[w] = TotalSold(w)
        BY <1>4, <3>1
      <3>3. IsFiniteSet(w)
        BY <1>4, <3>1
      <3>4. f[w] = g[w]
        <4>1. w \in (SUBSET w) \cap (SUBSET v)
          BY <3>1
        <4> HIDE DEF w, v
        <4> QED
          BY <2>2, <3>2, <3>3, <4>1, SumsAgree
      <3> QED
        BY <3>2, <3>4
    <2>5. h[v] = IF v = {} THEN 0 ELSE FirstOf(v).amount + TotalSold(v \ {FirstOf(v)})
      BY <2>1
    <2> QED
      BY <2>2, <2>3, <2>4, <2>5
  <1>6. ASSUME NEW u \in SUBSET T
        PROVE  h[u] = IF u = {} THEN 0 ELSE FirstOf(u).amount + h[u \ {FirstOf(u)}]
    <2>1. h[u] = IF u = {} THEN 0 ELSE FirstOf(u).amount + TotalSold(u \ {FirstOf(u)})
      OBVIOUS
    <2> HIDE DEF h
    <2> QED
      BY <1>5, <2>1
  <1>7. h = [u \in SUBSET T |-> h[u]]
    OBVIOUS
  <1> HIDE DEF h
  <1>8. IsSum(h, T)
    BY <1>6, <1>7 DEF IsSum
  <1> QED
    BY <1>8

\* The sum is that of its first record and of the rest, and 0 of none.
LEMMA TotalOfFirst ==
  ASSUME NEW S, IsFiniteSet(S)
  PROVE  TotalSold(S) = IF S = {} THEN 0 ELSE FirstOf(S).amount + TotalSold(S \ {FirstOf(S)})
  <1> DEFINE sum(T) == CHOOSE h : IsSum(h, T)
             rest == S \ {FirstOf(S)}
  <1>1. IsFiniteSet(rest)
    BY FS_Subset
  <1>2. IsSum(sum(S), S) /\ IsSum(sum(rest), rest)
    BY <1>1, SumExists
  <1>3. TotalSold(S) = sum(S)[S] /\ TotalSold(rest) = sum(rest)[rest]
    BY TotalUnfolds
  <1> HIDE DEF sum
  <1>4. sum(S)[S] = IF S = {} THEN 0 ELSE FirstOf(S).amount + sum(S)[rest]
    BY <1>2 DEF IsSum
  <1>5. sum(S)[rest] = sum(rest)[rest]
    <2>1. rest \in (SUBSET S) \cap (SUBSET rest)
      OBVIOUS
    <2> HIDE DEF rest
    <2> QED
      BY <1>1, <1>2, <2>1, SumsAgree
  <1> QED
    BY <1>3, <1>4, <1>5

LEMMA TotalIsInt ==
  ASSUME NEW S, IsFiniteSet(S), \A s \in S : s.amount \in Int
  PROVE  TotalSold(S) \in Int
  <1> DEFINE B == {T \in SUBSET S : TotalSold(T) \notin Int}
  <1>1. SUFFICES ASSUME B # {} PROVE FALSE
    OBVIOUS
  <1>2. PICK T \in B : IsFiniteSet(T) /\ \A x \in T : T \ {x} \notin B
    <2>1. B \in SUBSET SUBSET S
      OBVIOUS
    <2> HIDE DEF B
    <2> QED
      BY <1>1, <2>1, LeastSet
  <1>3. TotalSold(T) = IF T = {} THEN 0 ELSE FirstOf(T).amount + TotalSold(T \ {FirstOf(T)})
    BY <1>2, TotalOfFirst
  <1>4. T # {} => FirstOf(T) \in T
    BY DEF FirstOf
  <1>5. T # {} => TotalSold(T \ {FirstOf(T)}) \in Int
    BY <1>2, <1>4
  <1> QED
    BY <1>3, <1>4, <1>5

\* And so of any record and of the others.
LEMMA TotalOfAny ==
  ASSUME NEW S, IsFiniteSet(S), \A s \in S : s.amount \in Int, NEW x \in S
  PROVE  TotalSold(S) = x.amount + TotalSold(S \ {x})
  <1> DEFINE B == {T \in SUBSET S : \E z \in T : TotalSold(T) # z.amount + TotalSold(T \ {z})}
  <1>1. SUFFICES ASSUME B # {} PROVE FALSE
    OBVIOUS
  <1>2. PICK T \in B : IsFiniteSet(T) /\ \A y \in T : T \ {y} \notin B
    <2>1. B \in SUBSET SUBSET S
      OBVIOUS
    <2> HIDE DEF B
    <2> QED
      BY <1>1, <2>1, LeastSet
  <1>3. PICK z \in T : TotalSold(T) # z.amount + TotalSold(T \ {z})
    OBVIOUS
  <1>4. \A u \in SUBSET S : u \notin B => \A y \in u : TotalSold(u) = y.amount + TotalSold(u \ {y})
    OBVIOUS
  <1>5. T \in SUBSET S
    OBVIOUS
  <1> HIDE DEF B
  <1>6. PICK y \in T : TotalSold(T) = y.amount + TotalSold(T \ {y})
    BY <1>2, <1>3, TotalOfFirst DEF FirstOf
  <1>7. y # z
    BY <1>3, <1>6
  <1> DEFINE rest == (T \ {y}) \ {z}
  <1>8. TotalSold(T \ {y}) = z.amount + TotalSold(rest)
    BY <1>2, <1>4, <1>5, <1>7
  <1>9. TotalSold(T \ {z}) = y.amount + TotalSold(rest)
    <2>1. (T \ {z}) \ {y} = rest
      OBVIOUS
    <2>2. TotalSold(T \ {z}) = y.amount + TotalSold((T \ {z}) \ {y})
      BY <1>2, <1>4, <1>5, <1>7
    <2> QED
      BY <2>1, <2>2
  <1>10. IsFiniteSet(rest) /\ rest \subseteq S
    BY <1>2, <1>5, FS_Subset
  <1> HIDE DEF rest
  <1>11. TotalSold(rest) \in Int /\ y.amount \in Int /\ z.amount \in Int
    BY <1>5, <1>10, TotalIsInt
  <1> QED
    BY <1>3, <1>6, <1>8, <1>9, <1>11

\* A part of the records does not sum up to more than all of them.
LEMMA TotalOfPart ==
  ASSUME NEW S, IsFiniteSet(S), \A s \in S : s.amount \in Nat, NEW P \in SUBSET S
  PROVE  TotalSold(P) <= TotalSold(S)
  <1> DEFINE B == {T \in SUBSET S : P \subseteq T /\ ~(TotalSold(P) <= TotalSold(T))}
  <1>1. SUFFICES ASSUME B # {} PROVE FALSE
    OBVIOUS
  <1>2. PICK T \in B : IsFiniteSet(T) /\ \A y \in T : T \ {y} \notin B
    <2>1. B \in SUBSET SUBSET S
      OBVIOUS
    <2> HIDE DEF B
    <2> QED
      BY <1>1, <2>1, LeastSet
  <1>3. T \in SUBSET S /\ P \subseteq T /\ ~(TotalSold(P) <= TotalSold(T))
    OBVIOUS
  <1>4. \A u \in SUBSET S : u \notin B /\ P \subseteq u => TotalSold(P) <= TotalSold(u)
    OBVIOUS
  <1> HIDE DEF B
  <1>5. \A u \in SUBSET T : TotalSold(u) \in Int
    BY <1>2, <1>3, FS_Subset, TotalIsInt
  <1>6. P # T
    BY <1>3, <1>5
  <1>7. PICK x \in T : x \notin P
    BY <1>3, <1>6
  <1>8. TotalSold(P) <= TotalSold(T \ {x})
    BY <1>2, <1>3, <1>4, <1>7
  <1>9. TotalSold(T) = x.amount + TotalSold(T \ {x})
    BY <1>2, <1>3, TotalOfAny
  <1>10. x.amount \in Nat /\ TotalSold(P) \in Int /\ TotalSold(T \ {x}) \in Int /\ TotalSold(T) \in Int
    BY <1>3, <1>5
  <1> QED
    BY <1>3, <1>8, <1>9, <1>10
-----------------------------------------------------------------------------
\* The records of all who signed, those that were never inserted included.
SignedRecords == {ShareOf(x) : x \in {y \in Requests : HasSigned(y)}}

\* What they sum up to is what the chain has transferred.
SumInv == IsFiniteSet(SignedRecords) /\ TotalSold(SignedRecords) = sold

LEMMA RecordsArePositive ==
  ASSUME TypeOK, BackedInv
  PROVE  \A s \in SignedRecords : s.amount \in Nat
  <1> SUFFICES ASSUME NEW x \in Requests, HasSigned(x) PROVE ShareOf(x).amount \in Nat
    BY DEF SignedRecords
  <1>1. amount[x] > 0
    BY DEF BackedInv, SoldTo, HasSigned
  <1>2. amount[x] \in Int
    BY DEF TypeOK, LocalsType
  <1> QED
    BY <1>1, <1>2 DEF ShareOf

\* A signature adds one record.
LEMMA SignedGrows ==
  ASSUME TypeOK, ChainInv, NEW r \in Requests, SignAction(r)
  PROVE  ~HasSigned(r) /\ SignedRecords' = SignedRecords \cup {ShareOf(r)}
  <1>1. /\ pc[r] = "queued"
        /\ UNCHANGED <<property, amount, investorId>>
    BY DEF SignAction, locals
  <1>2. /\ amount[r] \in Nat \ {0} /\ tokens'[<<r, 0>>] = amount[r]
        /\ \A o \in Outpoints \ {<<r, 0>>, <<r, 1>>} : tokens'[o] = tokens[o]
    BY SigningEffect
  <1>3. ~HasSigned(r) /\ HasSigned(r)'
    <2>1. \A k \in 0 .. 2 : tokens[<<r, k>>] = 0
      BY <1>1 DEF ChainInv, Unreached, Before
    <2>2. tokens[<<r, 0>>] = 0
      BY <2>1
    <2> QED
      BY <1>2, <2>2 DEF HasSigned
  <1>4. \A x \in Requests \ {r} : HasSigned(x)' <=> HasSigned(x)
    <2> SUFFICES ASSUME NEW x \in Requests \ {r} PROVE tokens'[<<x, 0>>] = tokens[<<x, 0>>]
      BY DEF HasSigned
    <2>1. <<x, 0>> \in Outpoints
      BY OwnOutputs
    <2> QED
      BY <1>2, <2>1
  <1>5. \A x \in Requests : ShareOf(x)' = ShareOf(x)
    BY <1>1 DEF ShareOf
  <1>6. {y \in Requests : HasSigned(y)'} = {y \in Requests : HasSigned(y)} \cup {r}
    BY <1>3, <1>4
  <1> QED
    BY <1>3, <1>5, <1>6 DEF SignedRecords

\* Its amount is added to the sum.
LEMMA SumSign ==
  ASSUME TypeOK, ChainInv, BackedInv, SumInv, NEW r \in Requests, SignAction(r)
  PROVE  SumInv'
  <1>1. amount[r] \in Nat \ {0} /\ sold' = sold + amount[r]
    BY SigningEffect
  <1>2. ~HasSigned(r) /\ SignedRecords' = SignedRecords \cup {ShareOf(r)}
    BY SignedGrows
  <1>3. ShareOf(r) \notin SignedRecords
    BY <1>2 DEF SignedRecords, ShareOf
  <1>4. IsFiniteSet(SignedRecords')
    BY <1>2, FS_AddElement DEF SumInv
  <1>5. TotalSold(SignedRecords') = ShareOf(r).amount + TotalSold(SignedRecords' \ {ShareOf(r)})
    <2>1. \A s \in SignedRecords' : s.amount \in Int
      BY <1>1, <1>2, RecordsArePositive DEF ShareOf
    <2> QED
      BY <1>2, <1>4, <2>1, TotalOfAny
  <1>6. SignedRecords' \ {ShareOf(r)} = SignedRecords
    BY <1>2, <1>3
  <1>7. TotalSold(SignedRecords') = amount[r] + sold
    BY <1>5, <1>6 DEF SumInv, ShareOf
  <1> QED
    BY <1>1, <1>4, <1>7 DEF SumInv, TypeOK, ChainType

\* Every other step leaves them as they are.
LEMMA SumKept ==
  ASSUME SumInv, UNCHANGED <<tokens, sold, amount, investorId>>,
         \A x \in Requests : HasSigned(x) => property'[x] = property[x]
  PROVE  SumInv'
  <1>1. \A x \in Requests : /\ HasSigned(x)' <=> HasSigned(x)
                            /\ HasSigned(x) => ShareOf(x)' = ShareOf(x)
    BY DEF HasSigned, ShareOf
  <1>2. SignedRecords' = SignedRecords
    BY <1>1 DEF SignedRecords
  <1> QED
    BY <1>2 DEF SumInv

LEMMA SumStep ==
  ASSUME TypeOK, ChainInv, BackedInv, SumInv, [Next]_vars
  PROVE  SumInv'
  <1>1. ASSUME NEW r \in Requests, SignAction(r) PROVE SumInv'
    BY <1>1, SumSign
  <1>2. ASSUME NEW r \in Requests, ReadProperty(r) PROVE SumInv'
    <2>1. /\ pc[r] = "read" /\ UNCHANGED <<tokens, sold, amount, investorId>>
          /\ \A x \in Requests \ {r} : property'[x] = property[x]
      BY <1>2 DEF ReadProperty, database, chain, TypeOK, LocalsType
    <2>2. \A k \in 0 .. 2 : tokens[<<r, k>>] = 0
      BY <2>1 DEF ChainInv, Unreached, Before
    <2>3. tokens[<<r, 0>>] = 0
      BY <2>2
    <2> QED
      BY <2>1, <2>3, SumKept DEF HasSigned
  <1>3. ASSUME NEW r \in Requests, AdvanceOutpoints(r) PROVE SumInv'
    BY <1>3, SumKept DEF AdvanceOutpoints, chain, locals
  <1>4. CASE \A r \in Requests : ~SignAction(r) /\ ~AdvanceOutpoints(r) /\ ~ReadProperty(r)
    BY <1>4, Frame, SumKept DEF chain
  <1> QED
    BY <1>1, <1>2, <1>3, <1>4

LEMMA SumInvariance == Spec => []SumInv
  <1>1. IInv /\ Init /\ BackedInv => SumInv
    <2> SUFFICES ASSUME IInv, Init PROVE SumInv
      OBVIOUS
    <2>1. ASSUME NEW x \in Requests PROVE ~HasSigned(x)
      <3>1. \A k \in 0 .. 2 : tokens[<<x, k>>] = 0
        BY DEF Init, IInv, ChainInv, Unreached, Before
      <3>2. tokens[<<x, 0>>] = 0
        BY <3>1
      <3> QED
        BY <3>2 DEF HasSigned
    <2>2. SignedRecords = {}
      BY <2>1 DEF SignedRecords
    <2>3. IsFiniteSet(SignedRecords)
      BY <2>2, FS_EmptySet
    <2>4. TotalSold(SignedRecords) = 0
      BY <2>2, <2>3, TotalOfFirst
    <2> QED
      BY <2>3, <2>4 DEF SumInv, Init
  <1>2. IInv /\ BackedInv /\ SumInv /\ [Next]_vars => SumInv'
    BY SumStep DEF IInv
  <1> QED
    BY <1>1, <1>2, Invariance, BackedInvariance, PTL DEF Spec

\* What the records sum up to is never more than what was sold, and just
\* that once all is done and nothing failed.
SumsUp ==
  /\ TotalSold(shares) \in Nat /\ TotalSold(shares) <= sold
  /\ Quiet /\ Harmless => TotalSold(shares) = sold

LEMMA RecordsSum ==
  ASSUME TypeOK, BackedInv, SumInv
  PROVE  SumsUp
  <1>1. shares \in SUBSET SignedRecords
    BY DEF BackedInv, SignedRecords
  <1>2. IsFiniteSet(SignedRecords) /\ \A s \in SignedRecords : s.amount \in Nat
    BY RecordsArePositive DEF SumInv
  <1>3. TotalSold(shares) <= sold
    BY <1>1, <1>2, TotalOfPart DEF SumInv
  <1>4. TotalSold(shares) \in Nat
    <2>1. IsFiniteSet(shares)
      BY <1>1, <1>2, FS_Subset
    <2>2. \A s \in shares : s.amount \in Nat
      BY <1>1, <1>2
    <2>3. TotalSold({}) = 0
      BY FS_EmptySet, TotalOfFirst
    <2>4. TotalSold({}) <= TotalSold(shares)
      BY <2>1, <2>2, TotalOfPart
    <2>5. TotalSold(shares) \in Int
      BY <2>1, <2>2, TotalIsInt
    <2> QED
      BY <2>3, <2>4, <2>5
  <1>5. ASSUME Quiet, Harmless PROVE shares = SignedRecords
    <2>1. \A x \in Requests : pc[x] \notin Unrecorded
      BY <1>5 DEF Quiet, Unrecorded
    <2> QED
      BY <1>1, <1>5, <2>1 DEF BackedInv, SignedRecords
  <1> QED
    BY <1>3, <1>4, <1>5 DEF SumsUp, SumInv

\* The handler that finds no remainingPercent sums up the share records
\* (sharePurchase.ts:131); it never takes more for sold than was.
THEOREM RecordsSumUp == Spec => []SumsUp
  <1>1. IInv /\ BackedInv /\ SumInv => SumsUp
    BY RecordsSum DEF IInv
  <1> QED
    BY <1>1, Invariance, BackedInvariance, SumInvariance, PTL
-----------------------------------------------------------------------------
(***************************************************************************)
(* The percentages.  remainingPercent is written from what a request read  *)
(* before it signed, so concurrent updates are lost; but each of them errs *)
(* to the same side, and that is what a buyer is told and what the status  *)
(* is set from.  A request that found none stored checks against the sum   *)
(* of the records, which lags behind the chain as well, but writes as if   *)
(* nothing had been sold before; that errs to the same side.               *)
(***************************************************************************)
\* The percentage a handler goes by: all of it where none is stored.
Percent(stored) == IF stored = NULL THEN PercentToSell ELSE stored

\* What request r read, less what it has taken, is no less than is unsold.
Generous(r) ==
  /\ pc[r] \in {"sum", "source", "queued"} =>
       Percent(property[r].remainingPercent) >= PercentToSell - sold
  /\ pc[r] \in Later =>
       Percent(property[r].remainingPercent) - amount[r] >= PercentToSell - sold

RemainingInv ==
  /\ Percent(remainingPercent) >= PercentToSell - sold
  /\ \A r \in Requests : Generous(r)
  /\ NoFalseRefusal
  /\ FundedOnlyWhenSoldOut

LEMMA PercentIsInt ==
  ASSUME TypeOK
  PROVE  /\ Percent(remainingPercent) \in Int
         /\ \A r \in Requests : /\ Percent(property[r].remainingPercent) \in Int
                               /\ amount[r] \in Int
                               /\ NewRemainingPercent(r) =
                                    Percent(property[r].remainingPercent) - amount[r]
  <1>1. \A v \in Int \cup {NULL} : Percent(v) \in Int
    BY SaleAssumption DEF Percent
  <1>2. \A r \in Requests : property[r].remainingPercent \in Int \cup {NULL} /\ amount[r] \in Int
    BY DEF TypeOK, LocalsType
  <1> QED
    BY <1>1, <1>2 DEF TypeOK, DocumentType, NewRemainingPercent, Percent

\* Handlers that move within their phase keep the invariant.
LEMMA RemainingKept ==
  ASSUME RemainingInv, UNCHANGED <<remainingPercent, status, property, amount, sold>>,
         \A x \in Requests :
           /\ pc'[x] \in {"sum", "source", "queued"} => pc[x] \in {"sum", "source", "queued"}
           /\ pc'[x] \in Later => pc[x] \in Later
           /\ outcome'[x] = "refused" => outcome[x] = "refused"
  PROVE  RemainingInv'
  BY DEF RemainingInv, Generous, NoFalseRefusal, FundedOnlyWhenSoldOut

\* The condition of RemainingKept for one request that goes on ...
LEMMA GotoKeeps ==
  ASSUME HandlerType, RemainingInv, NEW r \in Requests, NEW label \in Labels, Goto(r, label),
         label \in {"sum", "source", "queued"} => pc[r] \in {"sum", "source", "queued"},
         label \in Later => pc[r] \in Later,
         \A x \in Requests : outcome'[x] = "refused" => outcome[x] = "refused",
         UNCHANGED <<remainingPercent, status, property, amount, sold>>
  PROVE  RemainingInv'
  <1>1. pc' = [pc EXCEPT ![r] = label] /\ pc \in [Requests -> Labels]
    BY DEF Goto, HandlerType
  <1> QED
    BY <1>1, RemainingKept

\* ... and for one that answers.
LEMMA AnswerKeeps ==
  ASSUME HandlerType, RemainingInv, NEW r \in Requests, NEW code \in Codes \ {"refused"},
         NEW label \in {"release", "done"}, Goto(r, label), Respond(r, code),
         UNCHANGED <<remainingPercent, status, property, amount, sold>>
  PROVE  RemainingInv'
  <1>1. \A x \in Requests : outcome'[x] = "refused" => outcome[x] = "refused"
    BY DEF Respond, HandlerType
  <1>2. label \in Labels /\ label \notin {"sum", "source", "queued"} \cup Later
    BY DEF Labels, Later
  <1> QED
    BY <1>1, <1>2, GotoKeeps

LEMMA RemainingStep ==
  ASSUME TypeOK, ChainInv, SumsUp, TypeOK', ChainInv', RemainingInv, [Next]_vars
  PROVE  RemainingInv'
  <1> USE LabelsAndCodes DEF TypeOK
  <1> DEFINE Same == UNCHANGED <<remainingPercent, status, property, amount, sold>>
  <1>0. sold \in Nat /\ sold' \in Nat /\ sold <= PercentToSell /\ sold' <= PercentToSell
    BY DEF ChainType, ChainInv, UnsoldInOneOutput
  <1>1. ASSUME NEW r \in Requests, Arrive(r) PROVE RemainingInv'
    <2>1. Same
      BY <1>1 DEF Arrive, database, propertyDoc, chain, locals
    <2>2. CASE Continue(r, "lock")
      BY <2>1, <2>2, GotoKeeps DEF Continue, replies, Later
    <2>3. CASE Goto(r, "done") /\ Respond(r, "invalid")
      BY <2>1, <2>3, AnswerKeeps
    <2> QED
      BY <1>1, <2>2, <2>3 DEF Arrive
  <1>2. ASSUME NEW r \in Requests, AcquireLock(r) PROVE RemainingInv'
    <2>1. Same
      BY <1>2 DEF AcquireLock, propertyDoc, chain, locals
    <2>2. CASE Continue(r, "read")
      BY <2>1, <2>2, GotoKeeps DEF Continue, replies, Later
    <2>3. CASE Goto(r, "done") /\ Respond(r, "error")
      BY <2>1, <2>3, AnswerKeeps
    <2>4. CASE Goto(r, "done") /\ Respond(r, "conflict")
      BY <2>1, <2>4, AnswerKeeps
    <2> QED
      BY <1>2, <2>2, <2>3, <2>4 DEF AcquireLock
  <1>3. ASSUME NEW r \in Requests, ReadProperty(r) PROVE RemainingInv'
    <2>1. /\ UNCHANGED <<remainingPercent, status, amount, sold>>
          /\ property'[r].remainingPercent = remainingPercent
          /\ \A x \in Requests \ {r} : property'[x] = property[x]
      BY <1>3 DEF ReadProperty, database, propertyDoc, chain, LocalsType
    <2>2. Percent(remainingPercent) >= PercentToSell - sold
      BY DEF RemainingInv
    <2>3. CASE Continue(r, "source") \/ Continue(r, "sum")
      <3>1. UNCHANGED outcome /\ \A x \in Requests \ {r} : pc'[x] = pc[x]
        BY <2>3 DEF Continue, Goto, replies, HandlerType
      <3>2. pc'[r] \in {"source", "sum"}
        BY <2>3 DEF Continue, Goto, HandlerType
      <3>3. \A x \in Requests : Generous(x)'
        BY <2>1, <2>2, <3>1, <3>2 DEF RemainingInv, Generous, Later
      <3> QED
        BY <2>1, <3>1, <3>3 DEF RemainingInv, NoFalseRefusal, FundedOnlyWhenSoldOut
    <2>4. CASE remainingPercent # NULL /\ amount[r] > remainingPercent /\ Abort(r, "refused")
      <3>1. pc' = [pc EXCEPT ![r] = "release"] /\ outcome' = [outcome EXCEPT ![r] = "refused"]
        BY <2>4 DEF Abort, Goto, Respond
      <3>2. \A x \in Requests : Generous(x)'
        BY <2>1, <3>1 DEF RemainingInv, Generous, HandlerType, Later
      <3>3. amount[r] > PercentToSell - sold
        BY <2>2, <2>4, <1>0, PercentIsInt, SaleAssumption DEF Percent
      <3>4. NoFalseRefusal'
        BY <2>1, <3>1, <3>3 DEF RemainingInv, NoFalseRefusal, HandlerType
      <3> QED
        BY <2>1, <3>2, <3>4 DEF RemainingInv, FundedOnlyWhenSoldOut
    <2> QED
      BY <1>3, <2>3, <2>4 DEF ReadProperty, CheckRemaining
  <1>4. ASSUME NEW r \in Requests, SumShares(r) PROVE RemainingInv'
    <2>1. Same /\ pc[r] = "sum"
      BY <1>4 DEF SumShares, database, propertyDoc, chain, locals
    <2>2. CASE Continue(r, "source")
      BY <2>1, <2>2, GotoKeeps DEF Continue, replies, Later
    <2>3. CASE amount[r] > PercentToSell - TotalSold(shares) /\ Abort(r, "refused")
      <3>1. pc' = [pc EXCEPT ![r] = "release"] /\ outcome' = [outcome EXCEPT ![r] = "refused"]
        BY <2>3 DEF Abort, Goto, Respond
      <3>2. \A x \in Requests : Generous(x)'
        BY <2>1, <3>1 DEF RemainingInv, Generous, HandlerType, Later
      <3>3. amount[r] > PercentToSell - sold
        <4>1. TotalSold(shares) \in Nat /\ TotalSold(shares) <= sold
          BY DEF SumsUp
        <4> QED
          BY <2>3, <4>1, <1>0, PercentIsInt, SaleAssumption
      <3>4. NoFalseRefusal'
        BY <2>1, <3>1, <3>3 DEF RemainingInv, NoFalseRefusal, HandlerType
      <3> QED
        BY <2>1, <3>2, <3>4 DEF RemainingInv, FundedOnlyWhenSoldOut
    <2> QED
      BY <1>4, <2>2, <2>3 DEF SumShares, CheckRemaining
  <1>5. ASSUME NEW r \in Requests, FetchSources(r) PROVE RemainingInv'
    <2>1. Same /\ pc[r] = "source"
      BY <1>5 DEF FetchSources, database, propertyDoc, chain, locals
    <2>2. CASE Continue(r, "queued")
      BY <2>1, <2>2, GotoKeeps DEF Continue, replies, Later
    <2>3. CASE Abort(r, "error")
      BY <2>1, <2>3, AnswerKeeps DEF Abort
    <2>4. CASE Abort(r, "unresolved")
      BY <2>1, <2>4, AnswerKeeps DEF Abort
    <2> QED
      BY <1>5, <2>2, <2>3, <2>4 DEF FetchSources
  <1>6. ASSUME NEW r \in Requests, SignAction(r) PROVE RemainingInv'
    <2>1. /\ UNCHANGED <<remainingPercent, status, property, amount, outcome>>
          /\ pc[r] = "queued" /\ pc'[r] \in {"internalize", "advance", "check"}
      BY <1>6, AfterSigning DEF database, propertyDoc, locals
    <2>2. sold' = sold + amount[r] /\ amount[r] \in Nat \ {0}
      BY <1>6, SigningEffect
    <2>3. \A x \in Requests \ {r} : pc'[x] = pc[x]
      BY <1>6 DEF SignAction, Goto, HandlerType
    <2>4. Generous(r)'
      BY <1>0, <2>1, <2>2, PercentIsInt, SaleAssumption DEF RemainingInv, Generous, Later
    <2>5. ASSUME NEW x \in Requests \ {r} PROVE Generous(x)'
      BY <1>0, <2>1, <2>2, <2>3, PercentIsInt, SaleAssumption DEF RemainingInv, Generous
    <2>6. NoFalseRefusal'
      BY <1>0, <2>1, <2>2, LocalsParts, SaleAssumption DEF RemainingInv, NoFalseRefusal
    <2>7. FundedOnlyWhenSoldOut'
      BY <1>0, <2>1, <2>2, SaleAssumption DEF RemainingInv, FundedOnlyWhenSoldOut
    <2>8. Percent(remainingPercent)' >= PercentToSell - sold'
      BY <1>0, <2>1, <2>2, PercentIsInt, SaleAssumption DEF RemainingInv
    <2> QED
      BY <2>4, <2>5, <2>6, <2>7, <2>8 DEF RemainingInv
  <1>7. ASSUME NEW r \in Requests, SignRefused(r) PROVE RemainingInv'
    BY <1>7, AnswerKeeps DEF SignRefused, Reject, Abort, database, propertyDoc, chain, locals
  <1>8. ASSUME NEW r \in Requests, Internalize(r) PROVE RemainingInv'
    BY <1>8, GotoKeeps DEF Internalize, Later, database, propertyDoc, chain, locals
  <1>9. ASSUME NEW r \in Requests, AdvanceOutpoints(r) \/ InsertShare(r) PROVE RemainingInv'
    <2>1. Same /\ pc[r] \in Later
      BY <1>9 DEF AdvanceOutpoints, InsertShare, Later, propertyDoc, chain, locals
    <2>2. CASE Abort(r, "error")
      BY <2>1, <2>2, AnswerKeeps DEF Abort
    <2>3. CASE Continue(r, "check") \/ Continue(r, "update")
      BY <2>1, <2>3, GotoKeeps DEF Continue, replies
    <2> QED
      BY <1>9, <2>2, <2>3 DEF AdvanceOutpoints, InsertShare, WriteReturns
  <1>10. ASSUME NEW r \in Requests, CheckInvestor(r) PROVE RemainingInv'
    BY <1>10, GotoKeeps DEF CheckInvestor, Continue, replies, Later, database, propertyDoc, chain
  <1>12. ASSUME NEW r \in Requests, UpdateSale(r) PROVE RemainingInv'
    <2>1. pc[r] = "update" /\ UNCHANGED <<property, amount, sold>>
      BY <1>12 DEF UpdateSale, chain, locals
    <2>2. CASE UNCHANGED propertyDoc /\ Abort(r, "error")
      BY <2>1, <2>2, AnswerKeeps DEF Abort, propertyDoc
    <2>3. CASE remainingPercent' = NewRemainingPercent(r)
               /\ status' = IF NewRemainingPercent(r) <= 0 THEN "funded" ELSE status
      <3>1. NewRemainingPercent(r) \in Int /\ NewRemainingPercent(r) >= PercentToSell - sold
        BY <2>1, PercentIsInt DEF RemainingInv, Generous, Later
      <3>2. Goto(r, "release") /\ (Respond(r, "ok") \/ Respond(r, "error"))
        BY <1>12, <2>3 DEF UpdateSale, Succeed, Abort
      <3>3. \A x \in Requests : Generous(x)'
        BY <2>1, <3>2 DEF Goto, RemainingInv, Generous, HandlerType, Later
      <3>4. NoFalseRefusal'
        BY <2>1, <3>2 DEF Respond, RemainingInv, NoFalseRefusal, HandlerType
      <3>5. FundedOnlyWhenSoldOut'
        BY <1>0, <2>1, <2>3, <3>1, SaleAssumption DEF RemainingInv, FundedOnlyWhenSoldOut
      <3>6. Percent(remainingPercent)' >= PercentToSell - sold'
        BY <2>1, <2>3, <3>1, SaleAssumption DEF Percent
      <3> QED
        BY <3>3, <3>4, <3>5, <3>6 DEF RemainingInv
    <2> QED
      BY <1>12, <2>2, <2>3 DEF UpdateSale
  <1>13. ASSUME NEW r \in Requests, ReleaseLock(r) PROVE RemainingInv'
    BY <1>13, GotoKeeps DEF ReleaseLock, replies, Later, propertyDoc, chain, locals
  <1>14. ASSUME UNCHANGED vars \/ \E r \in Requests : PushToOverlay(r) PROVE RemainingInv'
    <2>1. Same /\ UNCHANGED <<pc, outcome>>
      BY <1>14 DEF vars, PushToOverlay, database, propertyDoc, chain, locals, replies
    <2> QED
      BY <2>1 DEF RemainingInv, Generous, NoFalseRefusal, FundedOnlyWhenSoldOut
  <1>15. ASSUME NEW r \in Requests, CallFails(r) PROVE RemainingInv'
    <2>1. Same /\ Respond(r, "error") /\ (Goto(r, "done") \/ Goto(r, "release"))
      BY <1>15 DEF CallFails, Reject, Abort, database, propertyDoc, chain, locals
    <2> QED
      BY <2>1, AnswerKeeps
  <1>16. ASSUME Crash PROVE RemainingInv'
    <2>1. Same /\ UNCHANGED outcome /\ \A x \in Requests : pc'[x] = pc[x] \/ pc'[x] = "dead"
      BY <1>16 DEF Crash, database, propertyDoc, chain, locals
    <2> QED
      BY <2>1, RemainingKept DEF RemainingInv, Generous, Later
  <1> QED
    BY <1>1, <1>2, <1>3, <1>4, <1>5, <1>6, <1>7, <1>8, <1>9, <1>10, <1>12, <1>13, <1>14, <1>15,
       <1>16 DEF Next, Step

LEMMA RemainingInvariance == Spec => []RemainingInv
  <1>1. Init => RemainingInv
    BY SaleAssumption, RemainingAssumption
    DEF Init, RemainingInv, Generous, Percent, NoFalseRefusal, FundedOnlyWhenSoldOut, Later
  <1>2. IInv /\ IInv' /\ SumsUp /\ RemainingInv /\ [Next]_vars => RemainingInv'
    BY RemainingStep DEF IInv
  <1> QED
    BY <1>1, <1>2, Invariance, RecordsSumUp, PTL DEF Spec

\* A buyer is never turned away while enough is unsold, whether the
\* percentage is stored or summed up (sharePurchase.ts:124-141).
THEOREM RefusalsAreTrue == Spec => []NoFalseRefusal
  <1>1. RemainingInv => NoFalseRefusal
    BY DEF RemainingInv
  <1> QED
    BY <1>1, RemainingInvariance, PTL

\* A sale is never declared funded while tokens are unsold
\* (sharePurchase.ts:461-468).
THEOREM FundedIsTrue == Spec => []FundedOnlyWhenSoldOut
  <1>1. RemainingInv => FundedOnlyWhenSoldOut
    BY DEF RemainingInv
  <1> QED
    BY <1>1, RemainingInvariance, PTL
-----------------------------------------------------------------------------
(***************************************************************************)
(* The investors.  `investors` counts the holders; a holder whose record   *)
(* is in but who is still to be counted is one whose request, alone under  *)
(* the lock, found no record of theirs.                                    *)
(***************************************************************************)
Holders == {s.investorId : s \in shares}

Uncounted ==
  {i \in Investors : \E r \in Requests : pc[r] = "update" /\ isNewInvestor[r] /\ investorId[r] = i}

CountInv ==
  /\ IsFiniteSet(Holders) /\ Uncounted \subseteq Holders
  /\ \A r \in Requests : pc[r] = "insert" => (isNewInvestor[r] <=> investorId[r] \notin Holders)
  /\ \A r \in Requests : pc[r] \in Past => r \in transfer
  /\ investors + Cardinality(Uncounted) <= Cardinality(Holders)
  /\ Undisturbed => investors + Cardinality(Uncounted) = Cardinality(Holders)

\* What was disturbed stays so.
LEMMA UndisturbedBefore ==
  ASSUME TypeOK, Grows, Undisturbed'
  PROVE  Undisturbed
  <1>1. faults = 0 /\ crashes = 0
    BY DEF Grows, Undisturbed, Harmless
  <1>2. \A r \in transfer : outcome[r] # "error"
    BY DEF Grows, Undisturbed, TypeOK, HandlerType
  <1> QED
    BY <1>1, <1>2 DEF Undisturbed

LEMMA CountsAreNumbers ==
  ASSUME TypeOK, CountInv
  PROVE  /\ IsFiniteSet(Uncounted)
         /\ Cardinality(Uncounted) \in Nat /\ Cardinality(Holders) \in Nat /\ investors \in Nat
  <1>1. IsFiniteSet(Uncounted)
    BY FS_Subset DEF CountInv
  <1> QED
    BY <1>1, FS_CardinalityType DEF CountInv, TypeOK, DocumentType

\* Steps that record and count nothing: whoever leaves without being
\* counted has failed.
LEMMA CountKept ==
  ASSUME TypeOK, CountInv, Grows,
         UNCHANGED <<investors, shares, investorId, isNewInvestor>>,
         \A x \in Requests : /\ pc'[x] \in {"insert", "update"} => pc[x] = pc'[x]
                             /\ pc'[x] \in Past => pc[x] \in Past \/ x \in transfer',
         Undisturbed' => \A x \in Requests : pc[x] = "update" => pc'[x] = "update"
  PROVE  CountInv'
  <1>1. Holders' = Holders
    BY DEF Holders
  <1>2. Uncounted' \subseteq Uncounted
    BY DEF Uncounted
  <1>3. Undisturbed' => Undisturbed /\ Uncounted' = Uncounted
    BY <1>2, UndisturbedBefore DEF Uncounted
  <1>4. IsFiniteSet(Uncounted') /\ Cardinality(Uncounted') <= Cardinality(Uncounted)
        /\ Cardinality(Uncounted') \in Nat
    BY <1>2, CountsAreNumbers, FS_Subset, FS_CardinalityType
  <1>5. \A x \in Requests : /\ pc'[x] = "insert" => pc[x] = "insert"
                            /\ pc'[x] \in Past => x \in transfer'
    BY DEF Grows, CountInv
  <1>6. investors' + Cardinality(Uncounted') <= Cardinality(Holders')
    BY <1>1, <1>4, CountsAreNumbers DEF CountInv
  <1>7. Undisturbed' => investors' + Cardinality(Uncounted') = Cardinality(Holders')
    BY <1>1, <1>3 DEF CountInv
  <1> QED
    BY <1>1, <1>2, <1>5, <1>6, <1>7 DEF CountInv

\* Under the lock, a handler that looks for records of its investor, or has
\* looked, is the only one of that investor.
LEMMA AloneUnderLock ==
  ASSUME Locked, NEW r \in Requests, NEW x \in Requests, x # r,
         pc[r] \in Past, pc[x] \in Past
  PROVE  investorId[x] # investorId[r]
  BY DEF Locked, Holding, Active, Past

LEMMA CountCheck ==
  ASSUME TypeOK, CountInv, Grows, NEW r \in Requests, CheckInvestor(r)
  PROVE  CountInv'
  <1>1. /\ pc[r] = "check" /\ pc' = [pc EXCEPT ![r] = "insert"]
        /\ isNewInvestor' = [isNewInvestor EXCEPT ![r] = ~HasShares(investorId[r])]
        /\ UNCHANGED <<investors, shares, investorId, transfer>>
    BY DEF CheckInvestor, Continue, Goto, database, propertyDoc, replies
  <1>2. /\ \A x \in Requests \ {r} : pc'[x] = pc[x] /\ isNewInvestor'[x] = isNewInvestor[x]
        /\ pc'[r] = "insert" /\ isNewInvestor'[r] = ~HasShares(investorId[r])
    BY <1>1 DEF TypeOK, HandlerType, LocalsType
  <1>3. Holders' = Holders
    BY <1>1 DEF Holders
  <1>4. Uncounted' = Uncounted
    BY <1>1, <1>2 DEF Uncounted
  <1>5. HasShares(investorId[r]) <=> investorId[r] \in Holders
    BY DEF HasShares, Holders
  <1>6. \A x \in Requests : pc'[x] = "insert" => (isNewInvestor'[x] <=> investorId'[x] \notin Holders')
    BY <1>1, <1>2, <1>3, <1>5 DEF CountInv
  <1>7. \A x \in Requests : pc'[x] \in Past => x \in transfer'
    BY <1>1, <1>2 DEF CountInv, Past
  <1> QED
    BY <1>1, <1>3, <1>4, <1>6, <1>7, UndisturbedBefore DEF CountInv

LEMMA CountInsert ==
  ASSUME TypeOK, Locked, CountInv, Grows, NEW r \in Requests, InsertShare(r)
  PROVE  CountInv'
  <1> DEFINE i == investorId[r]
  <1>1. /\ pc[r] = "insert" /\ shares' = shares \cup {ShareOf(r)}
        /\ UNCHANGED <<investors, investorId, isNewInvestor>>
    BY DEF InsertShare, propertyDoc, locals
  <1>2. /\ \A x \in Requests \ {r} : pc'[x] = pc[x]
        /\ \/ pc'[r] = "update"
           \/ pc'[r] = "release" /\ ~Harmless'
    BY FaultHarms
       DEF InsertShare, WriteReturns, Continue, Abort, Goto, TypeOK, HandlerType
  <1>3. Holders' = Holders \cup {i}
    <2>1. ShareOf(r).investorId = i
      BY DEF ShareOf
    <2> QED
      BY <1>1, <2>1 DEF Holders
  <1>4. i \in Investors /\ (isNewInvestor[r] <=> i \notin Holders)
    BY <1>1, LocalsParts DEF CountInv, TypeOK
  <1>5. /\ IsFiniteSet(Holders')
        /\ Cardinality(Holders') = IF i \in Holders THEN Cardinality(Holders)
                                                    ELSE Cardinality(Holders) + 1
    BY <1>3, FS_AddElement DEF CountInv
  <1>6. \A x \in Requests : pc'[x] = "insert" => (isNewInvestor'[x] <=> investorId'[x] \notin Holders')
    <2> SUFFICES ASSUME NEW x \in Requests, pc'[x] = "insert"
                 PROVE  isNewInvestor[x] <=> investorId[x] \notin Holders'
      BY <1>1
    <2>1. x # r /\ pc[x] = "insert"
      BY <1>2
    <2>2. investorId[x] # i
      BY <1>1, <2>1, AloneUnderLock DEF Past
    <2> QED
      BY <1>3, <2>1, <2>2 DEF CountInv
  <1>7. \A x \in Requests : pc'[x] \in Past => x \in transfer'
    BY <1>1, <1>2 DEF Grows, CountInv, Past
  <1>8. CASE pc'[r] = "update" /\ isNewInvestor[r]
    <2>1. Uncounted' = Uncounted \cup {i}
      BY <1>1, <1>2, <1>4, <1>8 DEF Uncounted
    <2>2. i \notin Holders /\ i \notin Uncounted
      BY <1>4, <1>8 DEF CountInv
    <2>3. Cardinality(Uncounted') = Cardinality(Uncounted) + 1
      BY <2>1, <2>2, CountsAreNumbers, FS_AddElement
    <2>4. Cardinality(Holders') = Cardinality(Holders) + 1
      BY <1>5, <2>2
    <2>5. Uncounted' \subseteq Holders'
      BY <1>3, <2>1 DEF CountInv
    <2>6. /\ investors' + Cardinality(Uncounted') <= Cardinality(Holders')
          /\ Undisturbed' => investors' + Cardinality(Uncounted') = Cardinality(Holders')
      BY <1>1, <2>3, <2>4, CountsAreNumbers, UndisturbedBefore DEF CountInv
    <2> QED
      BY <1>5, <1>6, <1>7, <2>5, <2>6 DEF CountInv
  <1>9. CASE ~(pc'[r] = "update" /\ isNewInvestor[r])
    <2>1. Uncounted' = Uncounted
      BY <1>1, <1>2, <1>9 DEF Uncounted
    <2>2. Uncounted' \subseteq Holders'
      BY <1>3, <2>1 DEF CountInv
    <2>3. Undisturbed' => Undisturbed /\ Cardinality(Holders') = Cardinality(Holders)
      <3>1. Undisturbed' => Harmless'
        BY DEF Undisturbed, Harmless
      <3> QED
        BY <1>2, <1>4, <1>5, <1>9, <3>1, UndisturbedBefore
    <2>4. Cardinality(Holders') \in Nat /\ Cardinality(Holders') >= Cardinality(Holders)
      BY <1>5, CountsAreNumbers
    <2>5. /\ investors' + Cardinality(Uncounted') <= Cardinality(Holders')
          /\ Undisturbed' => investors' + Cardinality(Uncounted') = Cardinality(Holders')
      BY <1>1, <2>1, <2>3, <2>4, CountsAreNumbers DEF CountInv
    <2> QED
      BY <1>5, <1>6, <1>7, <2>2, <2>5 DEF CountInv
  <1> QED
    BY <1>8, <1>9

LEMMA CountUpdate ==
  ASSUME TypeOK, Locked, CountInv, Grows, NEW r \in Requests, UpdateSale(r)
  PROVE  CountInv'
  <1> DEFINE i == investorId[r]
  <1>1. pc[r] = "update" /\ UNCHANGED <<shares, investorId, isNewInvestor, transfer>>
    BY DEF UpdateSale, locals, Succeed, Abort
  <1>2. /\ \A x \in Requests \ {r} : pc'[x] = pc[x]
        /\ pc'[r] = "release"
    BY DEF UpdateSale, Succeed, Abort, Goto, TypeOK, HandlerType
  <1>3. Holders' = Holders
    BY <1>1 DEF Holders
  <1>4. i \in Investors /\ r \in transfer
    BY <1>1, LocalsParts DEF CountInv, TypeOK, Past
  <1>5. \A x \in Requests : pc'[x] = "insert" => (isNewInvestor'[x] <=> investorId'[x] \notin Holders')
    BY <1>1, <1>2, <1>3 DEF CountInv
  <1>6. \A x \in Requests : pc'[x] \in Past => x \in transfer'
    BY <1>1, <1>2 DEF CountInv, Past
  <1>7. CASE isNewInvestor[r]
    <2>1. \A x \in Requests \ {r} : pc[x] = "update" => investorId[x] # i
      BY <1>1, AloneUnderLock DEF Past
    <2>2. Uncounted' = Uncounted \ {i} /\ i \in Uncounted
      <3>1. i \in Uncounted
        BY <1>1, <1>4, <1>7 DEF Uncounted
      <3>2. i \notin Uncounted'
        BY <1>1, <1>2, <2>1 DEF Uncounted
      <3>3. \A j \in Investors \ {i} : j \in Uncounted' <=> j \in Uncounted
        BY <1>1, <1>2 DEF Uncounted
      <3>4. Uncounted' \subseteq Investors /\ Uncounted \subseteq Investors
        BY DEF Uncounted
      <3> QED
        BY <3>1, <3>2, <3>3, <3>4
    <2>3. Cardinality(Uncounted') = Cardinality(Uncounted) - 1
      BY <2>2, CountsAreNumbers, FS_RemoveElement
    <2>4. CASE investors >= MaxInvestors
      <3>1. investors' = investors /\ Respond(r, "error")
        BY <1>7, <2>4 DEF UpdateSale, Abort, propertyDoc
      <3>2. ~Undisturbed'
        BY <1>1, <1>4, <3>1 DEF Respond, Undisturbed, TypeOK, HandlerType
      <3>3. investors' + Cardinality(Uncounted') <= Cardinality(Holders')
        BY <1>3, <2>3, <3>1, CountsAreNumbers DEF CountInv
      <3> QED
        BY <1>3, <1>5, <1>6, <2>2, <3>2, <3>3 DEF CountInv
    <2>5. CASE ~(investors >= MaxInvestors)
      <3>1. investors' = investors + 1
        BY <1>7, <2>5 DEF UpdateSale
      <3>2. investors' + Cardinality(Uncounted') <= Cardinality(Holders')
        BY <1>3, <2>3, <3>1, CountsAreNumbers DEF CountInv
      <3>3. Undisturbed' => investors' + Cardinality(Uncounted') = Cardinality(Holders')
        BY <1>3, <2>3, <3>1, CountsAreNumbers, UndisturbedBefore DEF CountInv
      <3> QED
        BY <1>3, <1>5, <1>6, <2>2, <3>2, <3>3 DEF CountInv
    <2> QED
      BY <2>4, <2>5
  <1>8. CASE ~isNewInvestor[r]
    <2>1. Uncounted' = Uncounted
      BY <1>1, <1>2, <1>8 DEF Uncounted
    <2>2. investors' = investors
      BY <1>8 DEF UpdateSale, propertyDoc
    <2> QED
      BY <1>3, <1>5, <1>6, <2>1, <2>2, UndisturbedBefore DEF CountInv
  <1> QED
    BY <1>7, <1>8

\* No other step counts or records anyone.
LEMMA CountFrame ==
  ASSUME [Next]_vars,
         \A r \in Requests : ~CheckInvestor(r) /\ ~InsertShare(r) /\ ~UpdateSale(r)
  PROVE  UNCHANGED <<investors, shares, investorId, isNewInvestor>>
  <1> USE DEF database, propertyDoc, locals
  <1>1. ASSUME NEW r \in Requests, Arrive(r) \/ AcquireLock(r) \/ ReadProperty(r) \/ SumShares(r)
                                     \/ FetchSources(r) \/ SignRefused(r)
        PROVE  UNCHANGED <<investors, shares, investorId, isNewInvestor>>
    BY <1>1 DEF Arrive, AcquireLock, ReadProperty, SumShares, FetchSources, SignRefused
  <1>2. ASSUME NEW r \in Requests, SignAction(r) \/ Internalize(r) \/ AdvanceOutpoints(r)
                                     \/ ReleaseLock(r) \/ PushToOverlay(r) \/ CallFails(r)
        PROVE  UNCHANGED <<investors, shares, investorId, isNewInvestor>>
    BY <1>2 DEF SignAction, Internalize, AdvanceOutpoints, ReleaseLock, PushToOverlay, CallFails
  <1>3. ASSUME Crash \/ UNCHANGED vars
        PROVE  UNCHANGED <<investors, shares, investorId, isNewInvestor>>
    BY <1>3 DEF Crash, vars
  <1> QED
    BY <1>1, <1>2, <1>3 DEF Next, Step

LEMMA CountStep ==
  ASSUME TypeOK, ChainInv, Locked, CountInv, [Next]_vars
  PROVE  CountInv'
  <1>0. Grows
    BY GrowsStep
  <1>1. ASSUME NEW r \in Requests, CheckInvestor(r) PROVE CountInv'
    BY <1>0, <1>1, CountCheck
  <1>2. ASSUME NEW r \in Requests, InsertShare(r) PROVE CountInv'
    BY <1>0, <1>2, CountInsert
  <1>3. ASSUME NEW r \in Requests, UpdateSale(r) PROVE CountInv'
    BY <1>0, <1>3, CountUpdate
  <1>4. CASE \A r \in Requests : ~CheckInvestor(r) /\ ~InsertShare(r) /\ ~UpdateSale(r)
    <2>1. UNCHANGED <<investors, shares, investorId, isNewInvestor>>
      BY <1>4, CountFrame
    <2>2. CASE \A r \in Requests : ~SignAction(r)
      <3>1. AllPhases
        BY <1>4, <2>2, PhaseStep
      <3>2. Undisturbed' => \A x \in Requests : pc[x] = "update" => pc'[x] = "update"
        BY <1>4, <3>1 DEF AllPhases, Phase, Undisturbed, Harmless
      <3> QED
        BY <1>0, <2>1, <3>1, <3>2, CountKept DEF AllPhases, Phase
    <2>3. ASSUME NEW r \in Requests, SignAction(r) PROVE CountInv'
      <3>1. /\ pc[r] = "queued" /\ pc'[r] \in {"internalize", "advance", "check"}
            /\ \A x \in Requests \ {r} : pc'[x] = pc[x]
        BY <2>3, AfterSigning DEF SignAction, Goto, TypeOK, HandlerType
      <3>2. pc'[r] \in {"advance", "check"} => r \in transfer'
        BY <2>3, <3>1 DEF SignAction, Goto, TypeOK, HandlerType
      <3>3. \A x \in Requests : /\ pc'[x] \in {"insert", "update"} => pc[x] = pc'[x]
                                /\ pc'[x] \in Past => pc[x] \in Past \/ x \in transfer'
                                /\ pc[x] = "update" => pc'[x] = "update"
        BY <3>1, <3>2 DEF Past
      <3> QED
        BY <1>0, <2>1, <3>3, CountKept
    <2> QED
      BY <2>2, <2>3
  <1> QED
    BY <1>1, <1>2, <1>3, <1>4

\* However buyers interleave, fail and die, `investors` never counts a
\* holder twice, and counts each when nothing failed: the check for earlier
\* shares and the update are two steps (sharePurchase.ts:438, :474), and the
\* lock spans them.
THEOREM InvestorsAreCounted == Spec => []InvestorsCounted
  <1>1. Init => Locked /\ CountInv
    <2> SUFFICES ASSUME Init PROVE Locked /\ CountInv
      OBVIOUS
    <2>1. Holders = {} /\ Uncounted = {}
      BY DEF Init, Holders, Uncounted
    <2>2. IsFiniteSet(Holders) /\ Cardinality(Holders) = 0 /\ Cardinality(Uncounted) = 0
      BY <2>1, FS_EmptySet
    <2>3. investors = 0 /\ \A r \in Requests : pc[r] = "idle"
      BY DEF Init
    <2>4. Locked
      BY <2>3 DEF Locked, Holding, Active
    <2> QED
      BY <2>1, <2>2, <2>3, <2>4 DEF CountInv, Past
  <1>2. IInv /\ Locked /\ CountInv /\ [Next]_vars => Locked' /\ CountInv'
    BY LockedStep, CountStep DEF IInv
  <1>3. IInv /\ CountInv => InvestorsCounted
    <2> SUFFICES ASSUME IInv, CountInv PROVE InvestorsCounted
      OBVIOUS
    <2>1. Quiet => Uncounted = {}
      BY DEF Quiet, Uncounted
    <2>2. Quiet => Cardinality(Uncounted) = 0
      BY <2>1, FS_EmptySet
    <2>3. /\ Cardinality(Uncounted) \in Nat /\ Cardinality(Holders) \in Nat /\ investors \in Nat
      BY CountsAreNumbers DEF IInv
    <2>4. /\ investors + Cardinality(Uncounted) <= Cardinality(Holders)
          /\ Undisturbed => investors + Cardinality(Uncounted) = Cardinality(Holders)
      BY DEF CountInv
    <2>5. /\ investors <= Cardinality(Holders)
          /\ Quiet /\ Undisturbed => investors = Cardinality(Holders)
      BY <2>2, <2>3, <2>4
    <2> QED
      BY <2>5 DEF InvestorsCounted, Holders
  <1> QED
    BY <1>1, <1>2, <1>3, Invariance, PTL DEF Spec
-----------------------------------------------------------------------------
(***************************************************************************)
(* The refinement.  Only a signature hands out tokens, and only the insert *)
(* of a record enters a transfer; all the rest of the handler stutters.    *)
(***************************************************************************)
\* What spent an output of the issuer is the transfer that read it.
SpentInv ==
  \A o \in Outpoints :
    IsIssuers(o) /\ ~Unspent(o) => HasSigned(spentBy[o]) /\ property[spentBy[o]].currentOutpoint = o

LEMMA SpentSign ==
  ASSUME TypeOK, ChainInv, SpentInv, NEW r \in Requests, SignAction(r)
  PROVE  SpentInv'
  <1>1. pc[r] = "queued" /\ UNCHANGED property
    BY DEF SignAction, locals
  <1>2. /\ amount[r] \in Nat \ {0} /\ tokens'[<<r, 0>>] = amount[r]
        /\ \A o \in Outpoints \ {<<r, 0>>, <<r, 1>>} : tokens'[o] = tokens[o]
        /\ \A o \in Outpoints :
             spentBy'[o] = IF o = property[r].currentOutpoint \/ o = property[r].paymentTxid
                           THEN r ELSE spentBy[o]
    BY SigningEffect
  <1>3. /\ \A k \in 0 .. 2 : tokens[<<r, k>>] = 0 /\ Unspent(<<r, k>>)
        /\ property[r].currentOutpoint[1] # r /\ property[r].paymentTxid[1] # r
    BY <1>1 DEF ChainInv, Unreached, Before
  <1>4. property[r].currentOutpoint \in Outpoints /\ property[r].paymentTxid \in Outpoints
    BY LocalsParts DEF TypeOK
  <1>5. ~IsIssuers(property[r].paymentTxid)
    BY DEF ChainInv, Pointers
  <1>6. \A x \in Requests : HasSigned(x) => HasSigned(x)'
    <2> SUFFICES ASSUME NEW x \in Requests, HasSigned(x) PROVE tokens'[<<x, 0>>] > 0
      BY DEF HasSigned
    <2>1. CASE x = r
      BY <1>2, <2>1
    <2>2. CASE x # r
      BY <1>2, <2>2, OwnOutputs DEF HasSigned
    <2> QED
      BY <2>1, <2>2
  <1>7. ASSUME NEW o \in Outpoints, IsIssuers(o)', ~Unspent(o)'
        PROVE  HasSigned(spentBy[o])' /\ property'[spentBy'[o]].currentOutpoint = o
    <2>1. CASE o = property[r].currentOutpoint
      <3>1. spentBy'[o] = r
        BY <1>2, <2>1
      <3> QED
        BY <1>1, <1>2, <2>1, <3>1 DEF HasSigned
    <2>2. CASE o = property[r].paymentTxid
      <3>1. o # <<r, 0>> /\ o # <<r, 1>>
        BY <1>3, <2>2
      <3>2. IsIssuers(o)
        BY <1>2, <1>7, <3>1 DEF IsIssuers
      <3> QED
        BY <1>5, <2>2, <3>2
    <2>3. CASE o # property[r].currentOutpoint /\ o # property[r].paymentTxid
      <3>1. spentBy'[o] = spentBy[o] /\ ~Unspent(o)
        BY <1>2, <1>7, <2>3 DEF Unspent
      <3>2. o # <<r, 0>> /\ o # <<r, 1>>
        BY <1>3, <3>1
      <3>3. IsIssuers(o)
        BY <1>2, <1>7, <3>2 DEF IsIssuers
      <3>4. spentBy[o] \in Requests
        BY <3>1 DEF TypeOK, ChainType, Unspent
      <3> QED
        BY <1>1, <1>6, <3>1, <3>3, <3>4 DEF SpentInv, HasSigned
    <2> QED
      BY <2>1, <2>2, <2>3
  <1> QED
    BY <1>7 DEF SpentInv

\* Every other step leaves the chain, and what those who signed have read.
LEMMA SignedKeep ==
  ASSUME TypeOK, ChainInv, [Next]_vars, \A r \in Requests : ~SignAction(r)
  PROVE  /\ UNCHANGED <<tokens, spentBy, sold, amount, investorId>>
         /\ \A x \in Requests : HasSigned(x) => property'[x] = property[x]
  <1>1. ASSUME NEW r \in Requests, ReadProperty(r)
        PROVE  /\ UNCHANGED <<tokens, spentBy, sold, amount, investorId>>
               /\ \A x \in Requests : HasSigned(x) => property'[x] = property[x]
    <2>1. /\ pc[r] = "read" /\ UNCHANGED <<tokens, spentBy, sold, amount, investorId>>
          /\ \A x \in Requests \ {r} : property'[x] = property[x]
      BY <1>1 DEF ReadProperty, database, chain, TypeOK, LocalsType
    <2>2. \A k \in 0 .. 2 : tokens[<<r, k>>] = 0
      BY <2>1 DEF ChainInv, Unreached, Before
    <2>3. tokens[<<r, 0>>] = 0
      BY <2>2
    <2> QED
      BY <2>1, <2>3 DEF HasSigned
  <1>2. ASSUME NEW r \in Requests, AdvanceOutpoints(r)
        PROVE  UNCHANGED <<tokens, spentBy, sold, amount, investorId, property>>
    BY <1>2 DEF AdvanceOutpoints, chain, locals
  <1>3. CASE \A r \in Requests : ~AdvanceOutpoints(r) /\ ~ReadProperty(r)
    BY <1>3, Frame DEF chain
  <1> QED
    BY <1>1, <1>2, <1>3

LEMMA SpentStep ==
  ASSUME TypeOK, ChainInv, SpentInv, [Next]_vars
  PROVE  SpentInv'
  <1>1. ASSUME NEW r \in Requests, SignAction(r) PROVE SpentInv'
    BY <1>1, SpentSign
  <1>2. CASE \A r \in Requests : ~SignAction(r)
    <2>1. /\ UNCHANGED <<tokens, spentBy>>
          /\ \A x \in Requests : HasSigned(x) => property'[x] = property[x]
      BY <1>2, SignedKeep
    <2>2. \A o \in Outpoints : ~Unspent(o) => spentBy[o] \in Requests
      BY DEF TypeOK, ChainType, Unspent
    <2> QED
      BY <2>1, <2>2 DEF SpentInv, HasSigned, IsIssuers, Unspent
  <1> QED
    BY <1>1, <1>2

LEMMA SpentInvariance == Spec => []SpentInv
  <1>1. Init => SpentInv
    BY DEF Init, SpentInv, Unspent
  <1>2. IInv /\ SpentInv /\ [Next]_vars => SpentInv'
    BY SpentStep DEF IInv
  <1> QED
    BY <1>1, <1>2, Invariance, PTL DEF Spec

\* The ledger of the chain is what the records of all who signed would say.
SignedLedger == ChainTransfers = SignedRecords

LEMMA LedgerOfSigned ==
  ASSUME TypeOK, ChainInv, BackedInv, SpentInv
  PROVE  SignedLedger
  <1> DEFINE Entry(o) ==
        [investorId |-> investorId[spentBy[o]], amount |-> tokens[<<spentBy[o], 0>>],
         parentTxid |-> o, transferTxid |-> <<spentBy[o], 0>>]
  <1>1. ASSUME NEW o \in Outpoints, IsIssuers(o), ~Unspent(o)
        PROVE  Entry(o) \in SignedRecords
    <2>1. spentBy[o] \in Requests
      BY <1>1 DEF TypeOK, ChainType, Unspent
    <2>2. HasSigned(spentBy[o]) /\ property[spentBy[o]].currentOutpoint = o
      BY <1>1 DEF SpentInv
    <2>3. tokens[<<spentBy[o], 0>>] = amount[spentBy[o]]
      BY <2>1, <2>2 DEF BackedInv, SoldTo
    <2>4. Entry(o) = ShareOf(spentBy[o])
      BY <2>2, <2>3 DEF ShareOf
    <2> HIDE DEF Entry
    <2> QED
      BY <2>1, <2>2, <2>4 DEF SignedRecords
  <1>2. ASSUME NEW x \in Requests, HasSigned(x)
        PROVE  \E o \in Outpoints : IsIssuers(o) /\ ~Unspent(o) /\ ShareOf(x) = Entry(o)
    <2> DEFINE o == property[x].currentOutpoint
    <2>1. o \in Outpoints /\ IsIssuers(o)
      BY LocalsParts DEF TypeOK, ChainInv, Pointers
    <2>2. tokens[<<x, 0>>] = amount[x] /\ spentBy[o] = x
      BY <1>2 DEF BackedInv, SoldTo
    <2>3. ~Unspent(o)
      BY <2>2, MintIsNoRequest DEF Unspent
    <2>4. ShareOf(x) = Entry(o)
      BY <2>2 DEF ShareOf
    <2> QED
      BY <2>1, <2>3, <2>4
  <1> HIDE DEF Entry
  <1>3. ChainTransfers = {Entry(o) : o \in {p \in Outpoints : IsIssuers(p) /\ ~Unspent(p)}}
    BY DEF ChainTransfers, Entry
  <1> QED
    BY <1>1, <1>2, <1>3 DEF SignedRecords, SignedLedger

\* A signature hands out what was asked for.
LEMMA SignHandsOut ==
  ASSUME TypeOK, ChainInv, BackedInv, SignedLedger, SignedLedger', NEW r \in Requests, SignAction(r)
  PROVE  \E t \in ChainTransfers' \ ChainTransfers : Sale!HandOut(t)
  <1> DEFINE t == ShareOf(r)
  <1>1. pc[r] = "queued" /\ UNCHANGED <<property, amount, investorId, shares>>
    BY DEF SignAction, locals, database
  <1>2. /\ amount[r] \in Nat \ {0} /\ ChangeAmount(r) \in Nat /\ sold' = sold + amount[r]
    BY SigningEffect
  <1>3. /\ Unspent(property[r].currentOutpoint) /\ IsIssuers(property[r].currentOutpoint)
        /\ tokens[property[r].currentOutpoint] = PercentToSell - sold
    BY SignsCurrent
  <1>4. /\ ~HasSigned(r)
        /\ SignedRecords' = SignedRecords \cup {t}
    BY SignedGrows
  <1>5. t \notin SignedRecords
    BY <1>4 DEF SignedRecords, ShareOf
  <1>6. t \in Sale!Transfers
    <2>1. /\ investorId[r] \in Investors /\ property[r].currentOutpoint \in Outpoints
          /\ <<r, 0>> \in Outpoints
      BY LocalsParts, OwnOutputs DEF TypeOK
    <2> QED
      BY <1>2, <2>1 DEF ShareOf, Sale!Transfers
  <1>7. amount[r] <= PercentToSell - sold
    BY <1>2, <1>3, SaleAssumption DEF ChangeAmount, TypeOK, ChainType
  <1>8. PercentToSell - sold' = PercentToSell - sold - amount[r]
    BY <1>2, SaleAssumption DEF TypeOK, ChainType
  <1>9. t.parentTxid = MintOutpoint \/ \E u \in SignedRecords : u.transferTxid[1] = t.parentTxid[1]
    <2>1. CASE property[r].currentOutpoint # MintOutpoint
      <3> DEFINE x == property[r].currentOutpoint[1]
      <3>1. /\ property[r].currentOutpoint \in Outpoints
            /\ property[r].currentOutpoint[2] = 1 /\ tokens[property[r].currentOutpoint] > 0
        BY <1>3, <2>1, LocalsParts DEF IsIssuers, TypeOK
      <3>2. x \in Txids /\ property[r].currentOutpoint = <<x, 1>>
        BY <3>1, OutpointParts
      <3>3. x # Mint
        BY <3>1, <3>2 DEF BackedInv
      <3>4. x \in Requests /\ HasSigned(x)
        BY <3>1, <3>2, <3>3 DEF Txids, BackedInv
      <3>5. ShareOf(x) \in SignedRecords /\ ShareOf(x).transferTxid[1] = x
        BY <3>4 DEF SignedRecords, ShareOf
      <3> QED
        BY <3>5 DEF ShareOf
    <2> QED
      BY <2>1 DEF ShareOf
  <1>10. ASSUME NEW u \in SignedRecords
         PROVE  u.parentTxid # t.parentTxid /\ u.transferTxid # t.transferTxid
    <2>1. PICK x \in Requests : HasSigned(x) /\ u = ShareOf(x)
      BY DEF SignedRecords
    <2>2. x # r /\ spentBy[property[x].currentOutpoint] = x
      BY <1>4, <2>1 DEF BackedInv, SoldTo
    <2>3. property[x].currentOutpoint # property[r].currentOutpoint
      BY <1>3, <2>2, MintIsNoRequest DEF Unspent
    <2> QED
      BY <2>1, <2>2, <2>3 DEF ShareOf
  <1>11. Sale!Follows(t)
    BY <1>9, <1>10 DEF Sale!Follows, SignedLedger
  <1>12. t.amount = amount[r]
    BY DEF ShareOf
  <1> HIDE DEF t
  <1>13. Sale!HandOut(t)
    BY <1>1, <1>4, <1>6, <1>7, <1>8, <1>11, <1>12 DEF Sale!HandOut, SignedLedger
  <1> QED
    BY <1>4, <1>5, <1>13 DEF SignedLedger

LEMMA OfferingStep ==
  ASSUME TypeOK, ChainInv, BackedInv, SignedLedger, SignedLedger', [Next]_vars
  PROVE  [Sale!ONext]_<<PercentToSell - sold, ChainTransfers, shares>>
  <1>1. ChainTransfers = SignedRecords /\ ChainTransfers' = SignedRecords'
    BY DEF SignedLedger
  <1>2. ASSUME NEW r \in Requests, SignAction(r) PROVE Sale!ONext
    BY <1>2, SignHandsOut DEF Sale!ONext
  <1>3. CASE \A r \in Requests : ~SignAction(r)
    <2>1. /\ sold' = sold
          /\ \A x \in Requests : (HasSigned(x)' <=> HasSigned(x)) /\ (HasSigned(x) => ShareOf(x)' = ShareOf(x))
      BY <1>3, SignedKeep DEF HasSigned, ShareOf
    <2>2. ChainTransfers' = ChainTransfers
      BY <1>1, <2>1 DEF SignedRecords
    <2>3. ASSUME NEW r \in Requests, InsertShare(r)
          PROVE  \/ shares' = shares
                 \/ \E t \in ChainTransfers \ shares : shares' = shares \cup {t}
      <3>1. pc[r] = "insert" /\ shares' = shares \cup {ShareOf(r)}
        BY <2>3 DEF InsertShare
      <3>2. HasSigned(r)
        BY <3>1 DEF BackedInv, Later
      <3>3. ShareOf(r) \in ChainTransfers
        BY <1>1, <3>2 DEF SignedRecords
      <3> QED
        BY <3>1, <3>3
    <2>4. ASSUME \A r \in Requests : ~InsertShare(r) PROVE shares' = shares
      BY <1>3, <2>4 DEF Next, Step, Arrive, AcquireLock, ReadProperty, SumShares, FetchSources,
                        SignRefused, Internalize, AdvanceOutpoints, CheckInvestor, UpdateSale,
                        ReleaseLock, PushToOverlay, CallFails, Crash, vars, database
    <2>5. shares' = shares \/ \E t \in ChainTransfers \ shares : shares' = shares \cup {t}
      BY <2>3, <2>4
    <2> QED
      BY <2>1, <2>2, <2>5 DEF Sale!ONext, Sale!Enter
  <1> QED
    BY <1>2, <1>3

\* The primary sale hands out the tokens one buyer at a time and never more
\* than it offers, each time from what the one before left over, and it
\* records just these transfers, whatever the requests read, in whatever
\* order they write, and whichever of them fail or die (sharePurchase.ts:153,
\* :267, :457).
THEOREM SaleIsOffering == Spec => ImplementsOffering
  <1>1. IInv /\ BackedInv /\ SpentInv /\ Init => Sale!OInit
    <2> SUFFICES ASSUME IInv, Init PROVE Sale!OInit
      OBVIOUS
    <2>1. \A o \in Outpoints : Unspent(o)
      BY DEF Init, Unspent
    <2>2. ChainTransfers = {}
      BY <2>1 DEF ChainTransfers
    <2>3. PercentToSell - sold = PercentToSell /\ shares = {}
      BY SaleAssumption DEF Init
    <2> QED
      BY <2>2, <2>3 DEF Sale!OInit
  <1>2. IInv /\ BackedInv /\ SpentInv => SignedLedger
    BY LedgerOfSigned DEF IInv
  <1>3. IInv /\ BackedInv /\ SignedLedger /\ SignedLedger' /\ [Next]_vars
          => [Sale!ONext]_<<PercentToSell - sold, ChainTransfers, shares>>
    BY OfferingStep DEF IInv
  <1> QED
    BY <1>1, <1>2, <1>3, Invariance, BackedInvariance, SpentInvariance, PTL
    DEF Spec, ImplementsOffering, Sale!OSpec
-----------------------------------------------------------------------------
(***************************************************************************)
(* Progress.  That every request is answered and every lock released needs *)
(* fairness and is checked by the runs; what would keep it from being so   *)
(* is a lock that nobody will release, or a wallet action that nobody      *)
(* waits for at the head of the queue.  Neither comes about by itself.     *)
(***************************************************************************)
\* Only a failure leaves a lock behind its request.
LocksAreHeld ==
  \A i \in Investors : locks[i] # NoRequest =>
    \/ ~Harmless
    \/ locks[i] \in Requests /\ Holding(locks[i]) /\ investorId[locks[i]] = i

\* A handler that moves on within keeps its lock.
LEMMA HeldKept ==
  ASSUME LocksAreHeld, Harmless' => Harmless, UNCHANGED investorId,
         \A i \in Investors : locks'[i] \in {locks[i], NoRequest},
         Harmless' => \A x \in Requests :
           Holding(x) => Holding(x)' \/ \A i \in Investors : locks'[i] # x
  PROVE  LocksAreHeld'
  <1> SUFFICES ASSUME NEW i \in Investors, locks'[i] # NoRequest, Harmless'
               PROVE  locks'[i] \in Requests /\ Holding(locks[i])' /\ investorId[locks[i]] = i
                      /\ locks'[i] = locks[i]
    BY DEF LocksAreHeld, Holding, Active
  <1>1. locks'[i] = locks[i] /\ Harmless
    OBVIOUS
  <1>2. locks[i] \in Requests /\ Holding(locks[i]) /\ investorId[locks[i]] = i
    BY <1>1 DEF LocksAreHeld
  <1> QED
    BY <1>1, <1>2 DEF Holding, Active

LEMMA HeldStep ==
  ASSUME TypeOK, LocksAreHeld, [Next]_vars
  PROVE  LocksAreHeld'
  <1>0. Harmless' => Harmless
    BY FailuresKept
  <1> USE DEF TypeOK, HandlerType
  <1>1. ASSUME NEW r \in Requests, AcquireLock(r) PROVE LocksAreHeld'
    <2>1. /\ investorId' = investorId /\ pc[r] = "lock" /\ investorId[r] \in Investors
          /\ \A x \in Requests \ {r} : pc'[x] = pc[x]
      BY <1>1 DEF AcquireLock, Continue, Goto, locals, LocalsType
    <2>2. CASE ~LockIsFree(r)
      <3>1. locks' = locks /\ \A x \in Requests : Holding(x) => Holding(x)'
        BY <1>1, <2>1, <2>2 DEF AcquireLock, Goto, Holding, Active
      <3> QED
        BY <1>0, <2>1, <3>1, HeldKept
    <2>3. CASE LockIsFree(r)
      <3>1. /\ locks' = [locks EXCEPT ![investorId[r]] = r]
            /\ Continue(r, "read") \/ Fault
        BY <1>1, <2>3 DEF AcquireLock
      <3>2. locks'[investorId[r]] = r /\ \A i \in Investors \ {investorId[r]} : locks'[i] = locks[i]
        BY <2>1, <3>1 DEF RecordsType
      <3>3. CASE Fault
        BY <3>3, FaultHarms DEF LocksAreHeld, Harmless
      <3>4. CASE Continue(r, "read")
        <4>1. pc'[r] = "read"
          BY <3>4 DEF Continue, Goto
        <4>2. \A x \in Requests : Holding(x) => Holding(x)'
          BY <2>1, <4>1 DEF Holding, Active
        <4>3. Holding(r)'
          BY <4>1 DEF Holding, Active
        <4>4. ASSUME NEW i \in Investors, locks'[i] # NoRequest, Harmless'
              PROVE  locks'[i] \in Requests /\ pc'[locks'[i]] \notin {"idle", "done", "dead", "lock"}
                     /\ investorId'[locks'[i]] = i
          <5>1. CASE i = investorId[r]
            BY <2>1, <3>2, <4>1, <5>1
          <5>2. CASE i # investorId[r]
            <6>1. locks'[i] = locks[i]
              BY <3>2, <5>2
            <6>2. locks[i] \in Requests /\ Holding(locks[i]) /\ investorId[locks[i]] = i
              BY <1>0, <4>4, <6>1 DEF LocksAreHeld
            <6> QED
              BY <2>1, <4>1, <6>1, <6>2 DEF Holding, Active
          <5> QED
            BY <5>1, <5>2
        <4> QED
          BY <4>4 DEF LocksAreHeld, Holding, Active
      <3> QED
        BY <3>1, <3>3, <3>4
    <2> QED
      BY <2>2, <2>3
  <1>2. ASSUME NEW r \in Requests, ReleaseLock(r) PROVE LocksAreHeld'
    <2>1. /\ investorId' = investorId
          /\ \A x \in Requests \ {r} : pc'[x] = pc[x]
      BY <1>2 DEF ReleaseLock, Goto, locals
    <2>2. CASE Fault
      <3>1. ~Harmless'
        BY <2>2, FaultHarms
      <3> QED
        BY <3>1 DEF LocksAreHeld
    <2>3. CASE locks' = [i \in Investors |-> IF locks[i] = r THEN NoRequest ELSE locks[i]]
      <3>1. \A i \in Investors : locks'[i] \in {locks[i], NoRequest} /\ locks'[i] # r
        BY <2>3, MintIsNoRequest
      <3>2. \A x \in Requests : Holding(x) => Holding(x)' \/ \A i \in Investors : locks'[i] # x
        BY <2>1, <3>1 DEF Holding, Active
      <3> QED
        BY <1>0, <2>1, <3>1, <3>2, HeldKept
    <2> QED
      BY <1>2, <2>2, <2>3 DEF ReleaseLock
  <1>3. ASSUME UNCHANGED <<locks, investorId>>,
               Harmless' => \A x \in Requests : Holding(x) => Holding(x)'
        PROVE  LocksAreHeld'
    BY <1>0, <1>3, HeldKept
  <1>4. ASSUME NEW r \in Requests, NEW label \in Labels \ {"idle", "lock", "done", "dead"},
               Goto(r, label), UNCHANGED <<locks, investorId>>
        PROVE  LocksAreHeld'
    <2>1. \A x \in Requests : Holding(x) => Holding(x)'
      BY <1>4 DEF Goto, Holding, Active
    <2> QED
      BY <1>3, <1>4, <2>1
  <1>5. ASSUME NEW r \in Requests, Arrive(r) PROVE LocksAreHeld'
    <2>1. \A x \in Requests : Holding(x) => Holding(x)'
      BY <1>5 DEF Arrive, Continue, Goto, Holding, Active
    <2> QED
      BY <1>3, <1>5, <2>1 DEF Arrive, database, locals
  <1>6. ASSUME NEW r \in Requests,
               ReadProperty(r) \/ SumShares(r) \/ FetchSources(r) \/ SignRefused(r) \/ Internalize(r)
        PROVE  LocksAreHeld'
    <2>1. UNCHANGED <<locks, investorId>>
      BY <1>6 DEF ReadProperty, SumShares, FetchSources, SignRefused, Internalize, database, locals
    <2>2. PICK label \in {"sum", "source", "queued", "release", "advance"} : Goto(r, label)
      BY <1>6 DEF ReadProperty, SumShares, FetchSources, SignRefused, Internalize, CheckRemaining,
                  Reject, Abort, Continue
    <2> QED
      BY <1>4, <2>1, <2>2, LabelsAndCodes
  <1>7. ASSUME NEW r \in Requests,
               SignAction(r) \/ AdvanceOutpoints(r) \/ CheckInvestor(r) \/ InsertShare(r) \/ UpdateSale(r)
        PROVE  LocksAreHeld'
    <2>1. UNCHANGED <<locks, investorId>>
      BY <1>7 DEF SignAction, AdvanceOutpoints, CheckInvestor, InsertShare, UpdateSale, database, locals
    <2>2. PICK label \in {"internalize", "advance", "check", "insert", "update", "release"} : Goto(r, label)
      <3>1. SignAction(r) => \E label \in {"internalize", "advance", "check"} : Goto(r, label)
        BY DEF SignAction
      <3>2. AdvanceOutpoints(r) \/ CheckInvestor(r) \/ InsertShare(r) \/ UpdateSale(r)
              => \E label \in {"check", "insert", "update", "release"} : Goto(r, label)
        BY DEF AdvanceOutpoints, CheckInvestor, InsertShare, UpdateSale, WriteReturns, Succeed,
               Abort, Continue
      <3> QED
        BY <1>7, <3>1, <3>2
    <2> QED
      BY <1>4, <2>1, <2>2, LabelsAndCodes
  <1>8. ASSUME NEW r \in Requests, CallFails(r) PROVE LocksAreHeld'
    <2>1. ~Harmless'
      BY <1>8, FaultHarms DEF CallFails
    <2> QED
      BY <2>1 DEF LocksAreHeld
  <1>9. ASSUME Crash PROVE LocksAreHeld'
    <2>1. ~Harmless'
      BY <1>9 DEF Crash, SharedType, Harmless
    <2> QED
      BY <2>1 DEF LocksAreHeld
  <1>10. ASSUME UNCHANGED vars \/ \E r \in Requests : PushToOverlay(r) PROVE LocksAreHeld'
    <2>1. UNCHANGED <<locks, investorId, pc>>
      BY <1>10 DEF vars, PushToOverlay, database, locals
    <2> QED
      BY <1>3, <2>1 DEF Holding, Active
  <1> QED
    BY <1>1, <1>2, <1>5, <1>6, <1>7, <1>8, <1>9, <1>10 DEF Next, Step

\* The finally block leaves no lock behind: while nothing has failed, a lock
\* is that of a request of this investor which is on its way to releasing it
\* (sharePurchase.ts:98, :540).
THEOREM LocksHaveHolders == Spec => []LocksAreHeld
  <1>1. Init => LocksAreHeld
    BY DEF Init, LocksAreHeld
  <1>2. IInv /\ LocksAreHeld /\ [Next]_vars => LocksAreHeld'
    BY HeldStep DEF IInv
  <1> QED
    BY <1>1, <1>2, Invariance, PTL DEF Spec
-----------------------------------------------------------------------------
\* The handlers that await an action of the wallet queue.
Awaiting == {"queued", "internalize"}

\* Each of them has its one action in the queue, and there are no others;
\* only the first one has begun.
QueueInv ==
  /\ \A i \in 1 .. Len(queue) :
       pc[queue[i]] \in Awaiting /\ (pc[queue[i]] = "internalize" => i = 1)
  /\ \A i, j \in 1 .. Len(queue) : queue[i] = queue[j] => i = j
  /\ \A x \in Requests : pc[x] \in Awaiting => \E i \in 1 .. Len(queue) : queue[i] = x

\* Handlers that have nothing to do with the queue.
LEMMA QueueKept ==
  ASSUME QueueInv, queue \in Seq(Requests), UNCHANGED queue,
         \A x \in Requests : /\ pc[x] \in Awaiting => pc'[x] = pc[x]
                             /\ pc'[x] \in Awaiting => pc'[x] = pc[x]
  PROVE  QueueInv'
  <1>1. \A i \in 1 .. Len(queue) : queue[i] \in Requests
    BY ElementOfSeq
  <1> QED
    BY <1>1 DEF QueueInv, Awaiting

\* An action settles, and the next one is at the head.
LEMMA QueueSettles ==
  ASSUME QueueInv, HandlerType, queue \in Seq(Requests), NEW r \in Requests, Running(r),
         queue' = Tail(queue), NEW label, label \notin Awaiting, Goto(r, label)
  PROVE  QueueInv'
  <1>1. /\ queue # <<>> /\ queue[1] = r
        /\ Len(queue') = Len(queue) - 1 /\ Len(queue) \in Nat /\ Len(queue) > 0
        /\ \A i \in 1 .. Len(queue') : queue'[i] = queue[i + 1]
    BY HeadTailProperties, EmptySeq, LenProperties DEF Running
  <1>2. \A i \in 1 .. Len(queue) : queue[i] \in Requests
    BY ElementOfSeq
  <1>3. pc'[r] = label /\ \A x \in Requests \ {r} : pc'[x] = pc[x]
    BY DEF Goto, HandlerType
  <1>4. ASSUME NEW i \in 1 .. Len(queue')
        PROVE  /\ i + 1 \in 1 .. Len(queue) /\ queue'[i] = queue[i + 1]
               /\ queue'[i] \in Requests \ {r} /\ pc'[queue'[i]] = "queued"
    <2>1. i + 1 \in 1 .. Len(queue) /\ queue'[i] = queue[i + 1] /\ i + 1 # 1 /\ 1 \in 1 .. Len(queue)
      BY <1>1
    <2>2. queue[i + 1] # r
      BY <1>1, <2>1 DEF QueueInv
    <2>3. pc[queue[i + 1]] = "queued"
      BY <2>1 DEF QueueInv, Awaiting
    <2> QED
      BY <1>2, <1>3, <2>1, <2>2, <2>3
  <1>5. ASSUME NEW i \in 1 .. Len(queue'), NEW j \in 1 .. Len(queue'), queue'[i] = queue'[j]
        PROVE  i = j
    <2>1. i + 1 = j + 1
      BY <1>4, <1>5 DEF QueueInv
    <2> QED
      BY <1>1, <2>1
  <1>6. ASSUME NEW x \in Requests, pc'[x] \in Awaiting
        PROVE  \E i \in 1 .. Len(queue') : queue'[i] = x
    <2>1. x # r /\ pc[x] \in Awaiting
      BY <1>3, <1>6
    <2>2. PICK i \in 1 .. Len(queue) : queue[i] = x
      BY <2>1 DEF QueueInv
    <2>3. i # 1
      BY <1>1, <2>1, <2>2
    <2>4. i - 1 \in 1 .. Len(queue')
      BY <1>1, <2>3
    <2>5. queue'[i - 1] = queue[(i - 1) + 1] /\ (i - 1) + 1 = i
      BY <1>1, <2>4
    <2> QED
      BY <2>2, <2>4, <2>5
  <1>7. \A i \in 1 .. Len(queue') :
          pc'[queue'[i]] \in Awaiting /\ (pc'[queue'[i]] = "internalize" => i = 1)
    BY <1>4 DEF Awaiting
  <1> QED
    BY <1>5, <1>6, <1>7 DEF QueueInv

LEMMA QueueJoins ==
  ASSUME QueueInv, HandlerType, queue \in Seq(Requests), NEW r \in Requests,
         pc[r] \notin Awaiting, queue' = Append(queue, r), Goto(r, "queued")
  PROVE  QueueInv'
  <1>1. /\ Len(queue') = Len(queue) + 1 /\ Len(queue) \in Nat
        /\ \A i \in 1 .. Len(queue) : queue'[i] = queue[i]
        /\ queue'[Len(queue) + 1] = r
    BY AppendProperties, LenProperties
  <1>2. \A i \in 1 .. Len(queue) : queue[i] \in Requests /\ queue[i] # r
    BY ElementOfSeq DEF QueueInv
  <1>3. pc'[r] = "queued" /\ \A x \in Requests \ {r} : pc'[x] = pc[x]
    BY DEF Goto, HandlerType
  <1>4. \A i \in 1 .. Len(queue') : i \in 1 .. Len(queue) \/ i = Len(queue) + 1
    BY <1>1
  <1>5. \A i \in 1 .. Len(queue') :
          pc'[queue'[i]] \in Awaiting /\ (pc'[queue'[i]] = "internalize" => i = 1)
    BY <1>1, <1>2, <1>3, <1>4 DEF QueueInv, Awaiting
  <1>6. \A i, j \in 1 .. Len(queue') : queue'[i] = queue'[j] => i = j
    BY <1>1, <1>2, <1>4 DEF QueueInv
  <1>7. ASSUME NEW x \in Requests, pc'[x] \in Awaiting
        PROVE  \E i \in 1 .. Len(queue') : queue'[i] = x
    <2>1. CASE x = r
      <3>1. Len(queue) + 1 \in 1 .. Len(queue')
        BY <1>1
      <3> QED
        BY <1>1, <2>1, <3>1
    <2>2. CASE x # r
      <3>1. PICK i \in 1 .. Len(queue) : queue[i] = x
        BY <1>3, <1>7, <2>2 DEF QueueInv
      <3>2. i \in 1 .. Len(queue') /\ queue'[i] = x
        BY <1>1, <3>1
      <3> QED
        BY <3>2
    <2> QED
      BY <2>1, <2>2
  <1> QED
    BY <1>5, <1>6, <1>7 DEF QueueInv

LEMMA QueueStep ==
  ASSUME TypeOK, QueueInv, [Next]_vars
  PROVE  QueueInv'
  <1>0. queue \in Seq(Requests) /\ HandlerType
    BY DEF TypeOK, SharedType
  <1>1. ASSUME NEW r \in Requests, NEW label, Goto(r, label), UNCHANGED queue,
               pc[r] \notin Awaiting, label \notin Awaiting
        PROVE  QueueInv'
    <2>1. pc'[r] = label /\ \A x \in Requests \ {r} : pc'[x] = pc[x]
      BY <1>0, <1>1 DEF Goto, HandlerType
    <2> QED
      BY <1>0, <1>1, <2>1, QueueKept
  <1>2. ASSUME NEW r \in Requests, Arrive(r) \/ AcquireLock(r) \/ ReadProperty(r) \/ SumShares(r)
        PROVE  QueueInv'
    <2>1. PICK label \in {"done", "lock", "read", "release", "sum", "source"} : Goto(r, label)
      BY <1>2 DEF Arrive, AcquireLock, ReadProperty, SumShares, CheckRemaining, Abort, Continue
    <2>2. pc[r] \notin Awaiting /\ UNCHANGED queue
      BY <1>2 DEF Arrive, AcquireLock, ReadProperty, SumShares, Awaiting
    <2> QED
      BY <1>1, <2>1, <2>2 DEF Awaiting
  <1>3. ASSUME NEW r \in Requests, FetchSources(r) PROVE QueueInv'
    <2>1. pc[r] \notin Awaiting
      BY <1>3 DEF FetchSources, Awaiting
    <2>2. CASE Goto(r, "release") /\ UNCHANGED queue
      BY <1>1, <2>1, <2>2 DEF Awaiting
    <2>3. CASE Goto(r, "queued") /\ queue' = Append(queue, r)
      BY <1>0, <2>1, <2>3, QueueJoins
    <2> QED
      BY <1>3, <2>2, <2>3 DEF FetchSources, Abort, Continue
  <1>4. ASSUME NEW r \in Requests, SignAction(r) PROVE QueueInv'
    <2>1. pc[r] = "queued" /\ Running(r)
      BY <1>4 DEF SignAction
    <2>2. CASE Goto(r, "internalize") /\ UNCHANGED queue
      <3>1. pc'[r] = "internalize" /\ \A x \in Requests \ {r} : pc'[x] = pc[x]
        BY <1>0, <2>2 DEF Goto, HandlerType
      <3>2. Len(queue) \in Nat /\ Len(queue) > 0 /\ queue[1] = r
        BY <1>0, <2>1, HeadTailProperties, EmptySeq, LenProperties DEF Running
      <3>3. \A i \in 1 .. Len(queue) : queue[i] \in Requests /\ (queue[i] = r => i = 1)
        BY <1>0, <3>2, ElementOfSeq DEF QueueInv
      <3> QED
        BY <2>1, <2>2, <3>1, <3>3 DEF QueueInv, Awaiting
    <2>3. CASE (Goto(r, "advance") \/ Goto(r, "check")) /\ queue' = Tail(queue)
      BY <1>0, <2>1, <2>3, QueueSettles DEF Awaiting
    <2> QED
      BY <1>4, <2>2, <2>3 DEF SignAction
  <1>5. ASSUME NEW r \in Requests, SignRefused(r) \/ Internalize(r) PROVE QueueInv'
    <2>1. Running(r) /\ queue' = Tail(queue) /\ (Goto(r, "release") \/ Goto(r, "advance"))
      BY <1>5 DEF SignRefused, Internalize, Reject, Abort
    <2> QED
      BY <1>0, <2>1, QueueSettles DEF Awaiting
  <1>6. ASSUME NEW r \in Requests,
               AdvanceOutpoints(r) \/ CheckInvestor(r) \/ InsertShare(r) \/ UpdateSale(r) \/ ReleaseLock(r)
        PROVE  QueueInv'
    <2>1. PICK label \in {"check", "insert", "update", "release", "done"} : Goto(r, label)
      BY <1>6 DEF AdvanceOutpoints, CheckInvestor, InsertShare, UpdateSale, ReleaseLock,
                  WriteReturns, Succeed, Abort, Continue
    <2>2. pc[r] \notin Awaiting /\ UNCHANGED queue
      BY <1>6 DEF AdvanceOutpoints, CheckInvestor, InsertShare, UpdateSale, ReleaseLock, Awaiting
    <2> QED
      BY <1>1, <2>1, <2>2 DEF Awaiting
  <1>7. ASSUME NEW r \in Requests, CallFails(r) PROVE QueueInv'
    <2>1. CASE Running(r) /\ Reject(r)
      BY <1>0, <2>1, QueueSettles DEF Reject, Abort, Awaiting
    <2>2. CASE pc[r] \notin Awaiting /\ UNCHANGED queue /\ (Goto(r, "done") \/ Goto(r, "release"))
      BY <1>1, <2>2 DEF Awaiting
    <2> QED
      BY <1>7, <2>1, <2>2 DEF CallFails, Abort, Awaiting
  <1>8. ASSUME Crash PROVE QueueInv'
    <2>1. queue' = <<>> /\ Len(queue') = 0
      BY <1>8, EmptySeq DEF Crash
    <2>2. \A x \in Requests : pc'[x] \notin Awaiting
      BY <1>8 DEF Crash, Active, Awaiting
    <2> QED
      BY <2>1, <2>2 DEF QueueInv
  <1>9. ASSUME UNCHANGED vars \/ \E r \in Requests : PushToOverlay(r) PROVE QueueInv'
    BY <1>0, <1>9, QueueKept DEF vars, PushToOverlay
  <1> QED
    BY <1>2, <1>3, <1>4, <1>5, <1>6, <1>7, <1>8, <1>9 DEF Next, Step

\* Whoever is at the head of the queue is at a step of its own action, and
\* whoever awaits one is in the queue.
NobodyIsStranded ==
  /\ queue # <<>> => pc[Head(queue)] \in Awaiting
  /\ \A x \in Requests : pc[x] \in Awaiting => \E i \in 1 .. Len(queue) : queue[i] = x

\* In whatever way a handler leaves its wallet action, the action settles:
\* none is left at the head with nobody to end it, and none is lost while
\* its handler awaits it, whatever fails or dies (sharePurchase.ts:331).
THEOREM ActionsAreServed == Spec => []NobodyIsStranded
  <1>1. Init => QueueInv
    BY EmptySeq DEF Init, QueueInv, Awaiting
  <1>2. TypeOK /\ QueueInv /\ [Next]_vars => QueueInv'
    BY QueueStep
  <1>3. TypeOK /\ QueueInv => NobodyIsStranded
    <2> SUFFICES ASSUME TypeOK, QueueInv, queue # <<>> PROVE pc[Head(queue)] \in Awaiting
      BY DEF QueueInv, NobodyIsStranded
    <2>1. Head(queue) = queue[1] /\ 1 \in 1 .. Len(queue)
      BY EmptySeq, LenProperties DEF TypeOK, SharedType
    <2> QED
      BY <2>1 DEF QueueInv
  <1> QED
    BY <1>1, <1>2, <1>3, TypeCorrect, PTL DEF Spec
=============================================================================
