-------------------------- MODULE MarketplaceProofs -------------------------
(***************************************************************************)
(* Proofs about Marketplace for any users, holdings, flows and numbers of  *)
(* failures and crashes.                                                   *)
(*                                                                         *)
(* The argument: the chain accepts one spender of an output, so of all the *)
(* flows with one source at most one is made.  Only a flow that was made   *)
(* is recorded, and at most once; hence each record has at most one child, *)
(* and the records repeat what the chain has done.                         *)
(*                                                                         *)
(* FlowStep says all that one step can do to the two halves of one flow.   *)
(* It is proved once, action by action; the invariants that speak of one   *)
(* flow follow from it.                                                    *)
(***************************************************************************)
EXTENDS Marketplace, ShareChainProofs, TLAPS

Saved(f) == f \in pending \cup unsaved

Posted == {"waiting", "done", "failed", "closed"}

Ended == {"release", "done", "dead"}

\* The labels a server half has before a purchase can be on chain.
Early == {"idle", "check", "lock", "source", "sign"}

\* Each half is where flows of its kind can be; the server half begins when
\* the browser has posted; an answer is the last thing it does but one.
Control ==
  \A f \in Flows :
    /\ client[f] = "lookup" => f \in Listings
    /\ client[f] \in {"sign", "push"} => f \in Listings \cup Cancels
    /\ client[f] = "pay" => f \in Purchases
    /\ server[f] \in {"source", "sign"} => f \in Purchases
    /\ server[f] # "idle" => client[f] \in Posted
    /\ outcome[f] # "none" => server[f] \in Ended

\* The chain has a listing or cancellation before the server hears of it,
\* and a purchase only once the server has signed it.
Made ==
  \A f \in Flows :
    /\ client[f] = "idle" => f \notin made
    /\ f \notin Purchases => /\ client[f] \in {"lookup", "sign"} => f \notin made
                             /\ (client[f] = "push" \/ server[f] # "idle") => f \in made
    /\ f \in Purchases => /\ server[f] \in Early => f \notin made
                          /\ server[f] \in {"record", "beef", "item"} => f \in made

\* What a flow has chosen was recorded, and is the user's own unless bought.
Chosen ==
  \A f \in Flows : client[f] # "idle" =>
    /\ Recorded(source[f])
    /\ f \in Listings \cup Cancels => user[f] = user[source[f]]
    /\ f \notin Listings => items[source[f]] # "none"

\* An output and its spender name each other.
Spending ==
  /\ Held \subseteq made
  /\ \A t \in Txids : spentBy[t] # Nobody =>
       t \in made /\ spentBy[t] \in made /\ source[spentBy[t]] = t
  /\ \A f \in Flows : f \in made => spentBy[source[f]] = f
  /\ \A l \in Listings : l \in made => source[l] \notin Listings

\* A record stands for a transaction on chain and says whose it is and what
\* it spent; no transaction has two.
Records ==
  /\ \A s \in shares :
       LET t == s.transferTxid[1]
       IN /\ t \in made /\ s.investorId = user[t]
          /\ t \in Flows => s.parentTxid = Out(source[t])
          /\ t \in Held => s.parentTxid = Out(Mint) \/ s.parentTxid[2] = 1
  /\ \A r, s \in shares : r.transferTxid = s.transferTxid => r = s
  /\ \A f \in Flows : /\ server[f] \in Early \cup {"record"} => ~Recorded(f)
                      /\ server[f] \in {"item", "beef"} => Recorded(f)

\* An item is made by the flow of its listing, once the overlay has it, and
\* sold or removed by the flow that spent it.
Items ==
  \A l \in Listings :
    /\ items[l] # "none" => Recorded(l) /\ server[l] # "idle"
    /\ server[l] = "beef" => items[l] # "none"
    /\ server[l] # "idle" => l \in overlay
    /\ items[l] = "sold" => /\ spentBy[l] \in Purchases /\ Recorded(spentBy[l])
                            /\ server[spentBy[l]] \in Ended
    /\ items[l] = "removed" => spentBy[l] \in Cancels /\ Recorded(spentBy[l])

\* What an answer tells about the chain and the records.
Answered ==
  \A f \in Flows :
    /\ outcome[f] \in {"refused", "lost", "unresolved"} => f \notin made
    /\ outcome[f] = "error" /\ f \in made => faults # 0
    /\ outcome[f] = "ok" => NonceRecorded(f)

\* From the call of the wallet to the answer the nonce is in storage.
Stored ==
  \A f \in Flows :
    /\ client[f] \in {"sign", "push", "pay"} => Saved(f)
    /\ (f \in made \cup paid \/ server[f] # "idle") => Saved(f) \/ outcome[f] = "ok"

IInv ==
  /\ TypeOK /\ Control /\ Made /\ Chosen /\ Spending
  /\ Records /\ Items /\ Answered /\ Stored
-----------------------------------------------------------------------------
Keeps(f) == user'[f] = user[f] /\ source'[f] = source[f]

Answers(f, code) == outcome'[f] = code

Unanswered(f) == outcome'[f] = outcome[f]

MakesNothing(f) == f \in made' <=> f \in made

Rests(f) ==
  /\ client'[f] = client[f] /\ server'[f] = server[f] /\ Unanswered(f)
  /\ Keeps(f) /\ MakesNothing(f)

Begins(f) ==
  /\ client[f] = "idle" /\ server'[f] = server[f] /\ Unanswered(f) /\ MakesNothing(f)
  /\ \/ /\ f \in Listings /\ client'[f] = "lookup"
        /\ \E s \in shares : /\ s.transferTxid[1] = source'[f] /\ s.investorId = user'[f]
     \/ /\ f \in Cancels /\ client'[f] = "sign" /\ Saved(f)'
        /\ source'[f] \in Listings /\ items[source'[f]] = "listed"
        /\ user'[f] = user[source'[f]]
     \/ /\ f \in Purchases /\ client'[f] = "pay" /\ Saved(f)'
        /\ source'[f] \in Listings /\ items[source'[f]] = "listed"
        /\ user'[f] \in Users

Goes(f) ==
  /\ server'[f] = server[f] /\ Unanswered(f) /\ Keeps(f)
  /\ \/ client[f] = "lookup" /\ client'[f] = "sign" /\ Saved(f)' /\ MakesNothing(f)
     \/ /\ client[f] = "sign" /\ client'[f] \in {"push", "failed"}
        /\ f \in Listings \cup Cancels /\ f \in made'
     \/ client[f] = "waiting" /\ client'[f] = "done" /\ MakesNothing(f)
     \/ ClientActive(f) /\ client'[f] \in {"failed", "closed"} /\ MakesNothing(f)

Posts(f) ==
  /\ client[f] \in {"push", "pay"} /\ client'[f] = "waiting"
  /\ server'[f] = "check" /\ Unanswered(f) /\ Keeps(f) /\ MakesNothing(f)
  /\ f \in Listings => f \in overlay'

\* A call threw: something has failed by now.
Throws(f) == Answers(f, "error") /\ faults' # 0

\* The server half moves by itself and puts nothing on the chain.
Serves(f) ==
  /\ MakesNothing(f)
  /\ \/ server[f] = "check" /\ server'[f] = "lock" /\ Unanswered(f)
     \/ server[f] = "check" /\ server'[f] = "done" /\ Answers(f, "refused") /\ ~MayProceed(f)
     \/ server[f] \in {"check", "lock"} /\ server'[f] = "done" /\ Throws(f)
     \/ /\ server[f] = "lock" /\ server'[f] = "done" /\ Answers(f, "conflict")
        /\ locks[user[f]] # Nobody
     \/ f \in Purchases /\ server[f] = "lock" /\ server'[f] = "source" /\ Unanswered(f)
     \/ f \notin Purchases /\ server[f] = "lock" /\ server'[f] = "record" /\ Unanswered(f)
     \/ server[f] = "source" /\ server'[f] = "sign" /\ Unanswered(f)
     \/ /\ server[f] = "source" /\ server'[f] = "release" /\ Answers(f, "unresolved")
        /\ ~Resolvable(f)
     \/ /\ server[f] = "sign" /\ server'[f] = "release" /\ Answers(f, "lost")
        /\ ~Unspent(source[f])
     \/ /\ server[f] = "item" /\ server'[f] = "release" /\ Answers(f, "error")
        /\ f \in Purchases /\ items[source[f]] # "listed"
     \/ /\ server[f] \in {"source", "sign", "record", "beef", "item"}
        /\ server'[f] = "release" /\ Throws(f)
     \/ server[f] = "release" /\ server'[f] = "done" /\ Unanswered(f)
     \/ ServerActive(f) /\ server'[f] = "dead" /\ Unanswered(f)

\* The server half goes on after a write, or after the transfer.
Writes(f) ==
  \/ /\ server[f] = "sign" /\ f \in Purchases /\ f \in made'
     /\ \/ server'[f] = "record" /\ Unanswered(f)
        \/ server'[f] = "release" /\ Throws(f)
  \/ /\ server[f] = "record" /\ Recorded(f)' /\ MakesNothing(f) /\ Unanswered(f)
     /\ server'[f] = IF f \in Listings THEN "item" ELSE "beef"
  \/ /\ server[f] = "item" /\ f \in Listings /\ MakesNothing(f) /\ Unanswered(f)
     /\ server'[f] = "beef" /\ items'[f] = "listed"
  \/ /\ server[f] = "beef" /\ f \notin Listings /\ MakesNothing(f) /\ Unanswered(f)
     /\ server'[f] = "item"
  \/ /\ server[f] = (IF f \in Listings THEN "beef" ELSE "item") /\ MakesNothing(f)
     /\ server'[f] = "release" /\ Answers(f, "ok")

\* What a step can do to the two halves of f.
FlowStep(f) ==
  \/ Rests(f) \/ Begins(f) \/ Goes(f) \/ Posts(f)
  \/ client'[f] = client[f] /\ Keeps(f) /\ (Serves(f) \/ Writes(f))
-----------------------------------------------------------------------------
(***************************************************************************)
(* The control: one lemma for the steps of each half.                      *)
(***************************************************************************)
LEMMA KindsDiffer ==
  ASSUME NEW f \in Flows
  PROVE  /\ f \in Txids /\ f \notin Held /\ f # Mint /\ f # Nobody
         /\ f \in Listings => f \notin Cancels /\ f \notin Purchases
         /\ f \in Cancels => f \notin Listings /\ f \notin Purchases
         /\ f \in Purchases => f \notin Listings /\ f \notin Cancels
  BY FlowsAssumption DEF Flows, Txids

LEMMA Subsets ==
  /\ Listings \subseteq Flows /\ Cancels \subseteq Flows /\ Purchases \subseteq Flows
  /\ Flows \subseteq Txids /\ Held \subseteq Txids
  BY DEF Flows, Txids

LEMMA BeginSteps ==
  ASSUME TypeOK, NEW f \in Flows, Choose(f)
  PROVE  \A g \in Flows : FlowStep(g)
  <1> USE KindsDiffer DEF chain, database, flow, storage, bounds, ClientGoto
  <1> DEFINE Fine == (\A g \in Flows \ {f} : Rests(g)) /\ Begins(f)
  <1> SUFFICES Fine
    BY DEF FlowStep
  <1>1. CASE f \in Listings /\ ChooseShare(f)
    <2>1. \A g \in Flows \ {f} : Rests(g)
      BY <1>1 DEF ChooseShare, TypeOK, HalvesType, FlowType, Rests, Keeps, Unanswered, MakesNothing
    <2>2. Begins(f)
      BY <1>1 DEF ChooseShare, SavePending, TypeOK, HalvesType, FlowType, RecordsType, Begins,
                   Unanswered, MakesNothing, Saved
    <2> QED
      BY <2>1, <2>2
  <1>2. CASE f \in Cancels /\ ChooseOwnListing(f)
    <2>1. \A g \in Flows \ {f} : Rests(g)
      BY <1>2 DEF ChooseOwnListing, TypeOK, HalvesType, FlowType, Rests, Keeps, Unanswered, MakesNothing
    <2>2. Begins(f)
      BY <1>2 DEF ChooseOwnListing, SavePending, TypeOK, HalvesType, FlowType, RecordsType, Begins,
                   Unanswered, MakesNothing, Saved
    <2> QED
      BY <2>1, <2>2
  <1>3. CASE f \in Purchases /\ ChooseListing(f)
    <2>1. \A g \in Flows \ {f} : Rests(g)
      BY <1>3 DEF ChooseListing, TypeOK, HalvesType, FlowType, Rests, Keeps, Unanswered, MakesNothing
    <2>2. Begins(f)
      BY <1>3 DEF ChooseListing, SavePending, TypeOK, HalvesType, FlowType, RecordsType, Begins,
                   Unanswered, MakesNothing, Saved
    <2> QED
      BY <2>1, <2>2
  <1> QED
    BY <1>1, <1>2, <1>3 DEF Choose

LEMMA ClientSteps ==
  ASSUME TypeOK, NEW f \in Flows, ClientStep(f) \/ ClientCallFails(f) \/ CloseTab(f)
  PROVE  \A g \in Flows : FlowStep(g)
  <1> USE KindsDiffer
      DEF chain, database, flow, storage, bounds, ClientGoto, ServerGoto, TypeOK, HalvesType,
          ChainType, Keeps, Unanswered, MakesNothing
  <1> DEFINE Fine == (\A g \in Flows \ {f} : Rests(g)) /\ FlowStep(f)
  <1> SUFFICES Fine
    BY DEF FlowStep
  <1>1. CASE f \in Listings /\ LookupSource(f)
    <2>1. \A g \in Flows \ {f} : Rests(g)
      BY <1>1 DEF LookupSource, SavePending, Rests
    <2>2. FlowStep(f)
      BY <1>1 DEF LookupSource, SavePending, FlowStep, Goes, ClientActive, Saved
    <2> QED
      BY <2>1, <2>2
  <1>2. CASE f \in Listings /\ SignListing(f)
    <2>1. \A g \in Flows \ {f} : Rests(g)
      BY <1>2 DEF SignListing, Publish, SignReturns, Rests
    <2>2. FlowStep(f)
      BY <1>2 DEF SignListing, Publish, SignReturns, FlowStep, Goes, ClientActive, Saved
    <2> QED
      BY <2>1, <2>2
  <1>3. CASE f \in Listings /\ PushListing(f)
    <2>1. \A g \in Flows \ {f} : Rests(g)
      BY <1>3 DEF PushListing, Post, Rests
    <2>2. FlowStep(f)
      BY <1>3 DEF PushListing, Post, FlowStep, Posts, Goes, ClientActive, Saved
    <2> QED
      BY <2>1, <2>2
  <1>4. CASE f \in Cancels /\ SignCancel(f)
    <2>1. \A g \in Flows \ {f} : Rests(g)
      BY <1>4 DEF SignCancel, Publish, SignReturns, Rests
    <2>2. FlowStep(f)
      BY <1>4 DEF SignCancel, Publish, SignReturns, FlowStep, Goes, ClientActive, Saved
    <2> QED
      BY <2>1, <2>2
  <1>5. CASE f \in Cancels /\ PushCancel(f)
    <2>1. \A g \in Flows \ {f} : Rests(g)
      BY <1>5 DEF PushCancel, Post, Rests
    <2>2. FlowStep(f)
      BY <1>5 DEF PushCancel, Post, FlowStep, Posts, Goes, ClientActive, Saved
    <2> QED
      BY <2>1, <2>2
  <1>6. CASE f \in Purchases /\ Pay(f)
    <2>1. \A g \in Flows \ {f} : Rests(g)
      BY <1>6 DEF Pay, Post, Rests
    <2>2. FlowStep(f)
      BY <1>6 DEF Pay, Post, FlowStep, Posts, Goes, ClientActive, Saved
    <2> QED
      BY <2>1, <2>2
  <1>7. CASE SignRefused(f)
    <2>1. \A g \in Flows \ {f} : Rests(g)
      BY <1>7 DEF SignRefused, Rests
    <2>2. FlowStep(f)
      BY <1>7 DEF SignRefused, FlowStep, Goes, ClientActive, Saved
    <2> QED
      BY <2>1, <2>2
  <1>8. CASE Hear(f)
    <2>1. \A g \in Flows \ {f} : Rests(g)
      BY <1>8 DEF Hear, Rests
    <2>2. FlowStep(f)
      BY <1>8 DEF Hear, FlowStep, Goes, ClientActive, Saved
    <2> QED
      BY <2>1, <2>2
  <1>9. CASE ClientCallFails(f)
    <2>1. \A g \in Flows \ {f} : Rests(g)
      BY <1>9 DEF ClientCallFails, Rests
    <2>2. FlowStep(f)
      BY <1>9 DEF ClientCallFails, FlowStep, Goes, ClientActive, Saved
    <2> QED
      BY <2>1, <2>2
  <1>10. CASE CloseTab(f)
    <2>1. \A g \in Flows \ {f} : Rests(g)
      BY <1>10 DEF CloseTab, Rests
    <2>2. FlowStep(f)
      BY <1>10 DEF CloseTab, FlowStep, Goes, ClientActive, Saved
    <2> QED
      BY <2>1, <2>2
  <1> QED
    BY <1>1, <1>2, <1>3, <1>4, <1>5, <1>6, <1>7, <1>8, <1>9, <1>10 DEF ClientStep

\* Only a purchase has a source to fetch and a transfer to sign.
LEMMA ServerSteps ==
  ASSUME TypeOK, NEW f \in Flows, ServerStep(f) \/ ServerCallFails(f),
         server[f] \in {"source", "sign"} => f \in Purchases
  PROVE  \A g \in Flows : FlowStep(g)
  <1> USE KindsDiffer
      DEF chain, database, flow, storage, bounds, ServerGoto, Respond, TypeOK, HalvesType,
          ChainType, Keeps, Unanswered, MakesNothing, Answers, Throws, Fault
  <1> DEFINE Fine == (\A g \in Flows \ {f} : Rests(g)) /\ FlowStep(f)
  <1> SUFFICES Fine
    BY DEF FlowStep
  <1>1. CASE Check(f)
    <2>1. \A g \in Flows \ {f} : Rests(g)
      BY <1>1 DEF Check, Continue, Rests
    <2>2. FlowStep(f)
      BY <1>1 DEF Check, Continue, FlowStep, Serves, Writes, Rests
    <2> QED
      BY <2>1, <2>2
  <1>2. CASE AcquireLock(f)
    <2>1. \A g \in Flows \ {f} : Rests(g)
      BY <1>2 DEF AcquireLock, Continue, Rests
    <2>2. FlowStep(f)
      BY <1>2 DEF AcquireLock, Continue, FlowStep, Serves, Writes, Rests
    <2> QED
      BY <2>1, <2>2
  <1>3. CASE FetchSource(f)
    <2>1. \A g \in Flows \ {f} : Rests(g)
      BY <1>3 DEF FetchSource, Continue, Abort, Rests
    <2>2. FlowStep(f)
      BY <1>3 DEF FetchSource, Continue, Abort, FlowStep, Serves, Writes, Rests
    <2> QED
      BY <2>1, <2>2
  <1>4. CASE SignTransfer(f)
    <2>1. \A g \in Flows \ {f} : Rests(g)
      BY <1>4 DEF SignTransfer, Publish, Continue, Rests
    <2>2. FlowStep(f)
      BY <1>4 DEF SignTransfer, Publish, Continue, FlowStep, Serves, Writes, Rests
    <2> QED
      BY <2>1, <2>2
  <1>5. CASE SignTransferRefused(f)
    <2>1. \A g \in Flows \ {f} : Rests(g)
      BY <1>5 DEF SignTransferRefused, Abort, Rests
    <2>2. FlowStep(f)
      BY <1>5 DEF SignTransferRefused, Abort, FlowStep, Serves, Writes, Rests
    <2> QED
      BY <2>1, <2>2
  <1>6. CASE RecordShare(f)
    <2>1. \A g \in Flows \ {f} : Rests(g)
      BY <1>6 DEF RecordShare, Publish, Continue, Abort, WriteReturns, WriteAndRespond, TypeOK, HalvesType,
                   ChainType, Rests, Keeps, Unanswered, MakesNothing
    <2>2. Recorded(f)'
      <3>1. ShareOf(f) \in shares' /\ ShareOf(f).transferTxid = Out(f)
        BY <1>6 DEF RecordShare, ShareOf
      <3> QED
        BY <3>1 DEF Recorded, HasRecord, Out
    <2>3. MakesNothing(f) /\ client'[f] = client[f] /\ Keeps(f)
      BY <1>6 DEF RecordShare, Keeps, MakesNothing
    <2>4. Serves(f) \/ Writes(f)
      BY <1>6, <2>2, <2>3 DEF RecordShare, WriteReturns, Continue, Abort, Fault, TypeOK,
                              HalvesType, Serves, Writes, Answers, Throws, Unanswered
    <2> QED
      BY <2>1, <2>3, <2>4 DEF FlowStep
  <1>7. CASE InsertItem(f)
    <2>1. \A g \in Flows \ {f} : Rests(g)
      BY <1>7 DEF InsertItem, Publish, Continue, Abort, WriteReturns, WriteAndRespond, TypeOK, HalvesType,
                   ChainType, Rests, Keeps, Unanswered, MakesNothing
    <2>2. FlowStep(f)
      BY <1>7 DEF InsertItem, Continue, Abort, WriteReturns, WriteAndRespond, Fault,
                   TypeOK, HalvesType, ChainType, RecordsType, FlowStep, Serves, Writes, Rests, Answers,
                   Throws, Unanswered, Keeps, MakesNothing
    <2> QED
      BY <2>1, <2>2
  <1>8. CASE BackUpBeef(f)
    <2>1. \A g \in Flows \ {f} : Rests(g)
      BY <1>8 DEF BackUpBeef, WriteAndRespond, Abort, Rests
    <2>2. FlowStep(f)
      BY <1>8 DEF BackUpBeef, WriteAndRespond, Abort, FlowStep, Serves, Writes, Rests
    <2> QED
      BY <2>1, <2>2
  <1>9. CASE DropBeef(f)
    <2>1. \A g \in Flows \ {f} : Rests(g)
      BY <1>9 DEF DropBeef, WriteReturns, Continue, Abort, Rests
    <2>2. FlowStep(f)
      BY <1>9 DEF DropBeef, WriteReturns, Continue, Abort, FlowStep, Serves, Writes, Rests
    <2> QED
      BY <2>1, <2>2
  <1>10. CASE RemoveItem(f)
    <2>1. \A g \in Flows \ {f} : Rests(g)
      BY <1>10 DEF RemoveItem, WriteAndRespond, Abort, Rests
    <2>2. FlowStep(f)
      BY <1>10 DEF RemoveItem, WriteAndRespond, Abort, FlowStep, Serves, Writes, Rests
    <2> QED
      BY <2>1, <2>2
  <1>11. CASE MarkSold(f)
    <2>1. \A g \in Flows \ {f} : Rests(g)
      BY <1>11 DEF MarkSold, WriteAndRespond, Abort, Rests
    <2>2. FlowStep(f)
      BY <1>11 DEF MarkSold, WriteAndRespond, Abort, FlowStep, Serves, Writes, Rests
    <2> QED
      BY <2>1, <2>2
  <1>12. CASE ReleaseLock(f)
    <2>1. \A g \in Flows \ {f} : Rests(g)
      BY <1>12 DEF ReleaseLock, Rests
    <2>2. FlowStep(f)
      BY <1>12 DEF ReleaseLock, FlowStep, Serves, Writes, Rests
    <2> QED
      BY <2>1, <2>2
  <1>13. CASE PushToOverlay(f)
    <2>1. \A g \in Flows \ {f} : Rests(g)
      BY <1>13 DEF PushToOverlay, Rests
    <2>2. FlowStep(f)
      BY <1>13 DEF PushToOverlay, FlowStep, Serves, Writes, Rests
    <2> QED
      BY <2>1, <2>2
  <1>14. CASE ServerCallFails(f)
    <2>1. \A g \in Flows \ {f} : Rests(g)
      BY <1>14 DEF ServerCallFails, Abort, Rests
    <2>2. FlowStep(f)
      BY <1>14 DEF ServerCallFails, Abort, FlowStep, Serves, Writes, Rests
    <2> QED
      BY <2>1, <2>2
  <1> QED
    BY <1>1, <1>2, <1>3, <1>4, <1>5, <1>6, <1>7, <1>8, <1>9, <1>10, <1>11, <1>12, <1>13, <1>14 DEF ServerStep

LEMMA CrashSteps ==
  ASSUME TypeOK, ServerCrash
  PROVE  \A g \in Flows : FlowStep(g)
  BY DEF ServerCrash, chain, database, flow, storage, TypeOK, HalvesType, FlowStep, Serves, Rests,
         ServerActive, Unanswered, Keeps, MakesNothing

LEMMA FlowSteps ==
  ASSUME TypeOK, Control, [Next]_vars
  PROVE  \A g \in Flows : FlowStep(g)
  <1>1. CASE \E f \in Flows : Choose(f) \/ ClientStep(f) \/ ClientCallFails(f) \/ CloseTab(f)
    BY <1>1, BeginSteps, ClientSteps
  <1>2. CASE \E f \in Flows : ServerStep(f) \/ ServerCallFails(f)
    BY <1>2, ServerSteps DEF Control
  <1>3. CASE ServerCrash
    BY <1>3, CrashSteps
  <1>4. CASE UNCHANGED vars
    BY <1>4 DEF vars, chain, database, flow, storage, bounds, FlowStep, Rests, Unanswered, Keeps,
                MakesNothing
  <1> QED
    BY <1>1, <1>2, <1>3, <1>4 DEF Next
-----------------------------------------------------------------------------
(***************************************************************************)
(* The data: what one step can do to chain, records, items and storage.    *)
(***************************************************************************)
ChainStep ==
  \/ UNCHANGED <<made, spentBy>>
  \/ \E f \in Flows :
       /\ Publish(f) /\ Unspent(source[f])
       /\ f \in Listings => IsHeldByKey(source[f])
       /\ (client[f] = "sign" /\ f \notin Purchases) \/ server[f] = "sign"
       /\ UNCHANGED <<user, source, shares, items>>

RecordStep ==
  \/ UNCHANGED shares
  \/ \E f \in Flows :
       /\ server[f] = "record" /\ server'[f] # "record"
       /\ shares' = shares \cup {ShareOf(f)}
       /\ UNCHANGED <<made, spentBy, user, source, items>>

ItemStep ==
  \/ UNCHANGED items
  \/ \E f \in Flows :
       /\ server[f] = "item" /\ server'[f] # "item"
       /\ UNCHANGED <<made, spentBy, user, source, shares>>
       /\ \/ f \in Listings /\ items' = [items EXCEPT ![f] = "listed"]
          \/ f \in Cancels /\ items' = [items EXCEPT ![source[f]] = "removed"]
          \/ /\ f \in Purchases /\ items' = [items EXCEPT ![source[f]] = "sold"]
             /\ items[source[f]] = "listed" /\ server'[f] = "release"

StorageStep ==
  /\ \A f \in Flows : Saved(f) => Saved(f)' \/ outcome[f] = "ok"
  /\ \A f \in Flows : f \in paid' => f \in paid \/ client[f] = "pay"
  /\ overlay \subseteq overlay'
  /\ \A h \in Held : user'[h] = user[h]
  /\ faults # 0 => faults' # 0

DataStep == ChainStep /\ RecordStep /\ ItemStep /\ StorageStep

LEMMA DataSteps ==
  ASSUME TypeOK, Control, Next
  PROVE  DataStep
  <1> USE KindsDiffer DEF chain, database, flow, storage, bounds, Fault
  <1>0. faults \in Nat
    BY DEF TypeOK, HalvesType
  <1>1. ASSUME NEW f \in Flows, ChooseShare(f) PROVE DataStep
    BY <1>0, <1>1 DEF ChooseShare, DataStep, ChainStep, RecordStep, ItemStep,
           StorageStep, Saved
  <1>2. ASSUME NEW f \in Flows, f \in Listings, LookupSource(f) PROVE DataStep
    BY <1>0, <1>2 DEF LookupSource, SavePending, DataStep, ChainStep, RecordStep,
           ItemStep, StorageStep, Saved
  <1>3. ASSUME NEW f \in Flows, ChooseOwnListing(f) PROVE DataStep
    BY <1>0, <1>3 DEF ChooseOwnListing, SavePending, DataStep, ChainStep, RecordStep,
           ItemStep, StorageStep, Saved
  <1>4. ASSUME NEW f \in Flows, f \in Listings, SignListing(f) PROVE DataStep
    <2>1. ChainStep
      BY <1>4, KindsDiffer DEF SignListing, ChainStep
    <2>2. RecordStep /\ ItemStep
      BY <1>4 DEF SignListing, RecordStep, ItemStep
    <2>3. StorageStep
      BY <1>0, <1>4 DEF SignListing, SignReturns, Publish, StorageStep, Saved
    <2> QED
      BY <2>1, <2>2, <2>3 DEF DataStep
  <1>5. ASSUME NEW f \in Flows, f \in Cancels, SignCancel(f) PROVE DataStep
    <2>1. ChainStep
      BY <1>5, KindsDiffer DEF SignCancel, ChainStep
    <2>2. RecordStep /\ ItemStep
      BY <1>5 DEF SignCancel, RecordStep, ItemStep
    <2>3. StorageStep
      BY <1>0, <1>5 DEF SignCancel, SignReturns, Publish, StorageStep, Saved
    <2> QED
      BY <2>1, <2>2, <2>3 DEF DataStep
  <1>6. ASSUME NEW f \in Flows, SignRefused(f) PROVE DataStep
    BY <1>0, <1>6 DEF SignRefused, DataStep, ChainStep, RecordStep, ItemStep,
           StorageStep, Saved
  <1>7. ASSUME NEW f \in Flows, f \in Listings, PushListing(f) PROVE DataStep
    BY <1>0, <1>7 DEF PushListing, DataStep, ChainStep, RecordStep, ItemStep,
           StorageStep, Saved
  <1>8. ASSUME NEW f \in Flows, f \in Cancels, PushCancel(f) PROVE DataStep
    BY <1>0, <1>8 DEF PushCancel, DataStep, ChainStep, RecordStep, ItemStep,
           StorageStep, Saved
  <1>9. ASSUME NEW f \in Flows, ChooseListing(f) PROVE DataStep
    BY <1>0, <1>9 DEF ChooseListing, SavePending, DataStep, ChainStep, RecordStep,
           ItemStep, StorageStep, Saved
  <1>10. ASSUME NEW f \in Flows, f \in Purchases, Pay(f) PROVE DataStep
    BY <1>0, <1>10 DEF Pay, DataStep, ChainStep, RecordStep, ItemStep, StorageStep,
           Saved
  <1>11. ASSUME NEW f \in Flows, Hear(f) PROVE DataStep
    BY <1>0, <1>11 DEF Hear, DataStep, ChainStep, RecordStep, ItemStep, StorageStep,
           Saved
  <1>12. ASSUME NEW f \in Flows, ClientCallFails(f) PROVE DataStep
    BY <1>0, <1>12 DEF ClientCallFails, DataStep, ChainStep, RecordStep, ItemStep,
           StorageStep, Saved
  <1>13. ASSUME NEW f \in Flows, Check(f) PROVE DataStep
    BY <1>0, <1>13 DEF Check, Continue, DataStep, ChainStep, RecordStep, ItemStep,
           StorageStep, Saved
  <1>14. ASSUME NEW f \in Flows, AcquireLock(f) PROVE DataStep
    BY <1>0, <1>14 DEF AcquireLock, Continue, DataStep, ChainStep, RecordStep, ItemStep,
           StorageStep, Saved
  <1>15. ASSUME NEW f \in Flows, FetchSource(f) PROVE DataStep
    BY <1>0, <1>15 DEF FetchSource, Continue, DataStep, ChainStep, RecordStep, ItemStep,
           StorageStep, Saved
  <1>16. ASSUME NEW f \in Flows, SignTransfer(f) PROVE DataStep
    <2>1. ChainStep
      BY <1>16, KindsDiffer DEF SignTransfer, ChainStep, Control
    <2>2. RecordStep /\ ItemStep
      BY <1>16 DEF SignTransfer, RecordStep, ItemStep
    <2>3. StorageStep
      BY <1>0, <1>16 DEF SignTransfer, Continue, Publish, StorageStep, Saved
    <2> QED
      BY <2>1, <2>2, <2>3 DEF DataStep
  <1>17. ASSUME NEW f \in Flows, SignTransferRefused(f) PROVE DataStep
    BY <1>0, <1>17 DEF SignTransferRefused, DataStep, ChainStep, RecordStep, ItemStep,
           StorageStep, Saved
  <1>18. ASSUME NEW f \in Flows, RecordShare(f) PROVE DataStep
    <2>1. server'[f] # "record"
      BY <1>18 DEF RecordShare, WriteReturns, Continue, Abort, ServerGoto, TypeOK, HalvesType
    <2> QED
      BY <1>0, <1>18, <2>1 DEF RecordShare, WriteReturns, Continue, DataStep, ChainStep,
                               RecordStep, ItemStep, StorageStep, Saved
  <1>19. ASSUME NEW f \in Flows, InsertItem(f) PROVE DataStep
    <2>1. ChainStep /\ RecordStep
      BY <1>19 DEF InsertItem, ChainStep, RecordStep
    <2>2. server \in [Flows -> ServerLabels]
      BY DEF TypeOK, HalvesType
    <2>3. ItemStep
      BY <1>19, <2>2, KindsDiffer DEF InsertItem, WriteReturns, Continue, Abort,
             ServerGoto, ItemStep
    <2>4. StorageStep
      BY <1>0, <1>19 DEF InsertItem, WriteReturns, WriteAndRespond, Continue,
             StorageStep, Saved
    <2> QED
      BY <2>1, <2>3, <2>4 DEF DataStep
  <1>20. ASSUME NEW f \in Flows, BackUpBeef(f) PROVE DataStep
    BY <1>0, <1>20 DEF BackUpBeef, WriteAndRespond, DataStep, ChainStep, RecordStep,
           ItemStep, StorageStep, Saved
  <1>21. ASSUME NEW f \in Flows, DropBeef(f) PROVE DataStep
    BY <1>0, <1>21 DEF DropBeef, WriteReturns, Continue, DataStep, ChainStep,
           RecordStep, ItemStep, StorageStep, Saved
  <1>22. ASSUME NEW f \in Flows, RemoveItem(f) PROVE DataStep
    <2>1. ChainStep /\ RecordStep
      BY <1>22 DEF RemoveItem, ChainStep, RecordStep
    <2>2. server \in [Flows -> ServerLabels]
      BY DEF TypeOK, HalvesType
    <2>3. ItemStep
      BY <1>22, <2>2, KindsDiffer DEF RemoveItem, WriteAndRespond, Abort, ServerGoto,
             ItemStep
    <2>4. StorageStep
      BY <1>0, <1>22 DEF RemoveItem, WriteReturns, WriteAndRespond, Continue,
             StorageStep, Saved
    <2> QED
      BY <2>1, <2>3, <2>4 DEF DataStep
  <1>23. ASSUME NEW f \in Flows, MarkSold(f) PROVE DataStep
    <2>1. ChainStep /\ RecordStep
      BY <1>23 DEF MarkSold, ChainStep, RecordStep
    <2>2. server \in [Flows -> ServerLabels]
      BY DEF TypeOK, HalvesType
    <2>3. ItemStep
      BY <1>23, <2>2, KindsDiffer DEF MarkSold, WriteAndRespond, Abort, ServerGoto,
             ItemStep
    <2>4. StorageStep
      BY <1>0, <1>23 DEF MarkSold, WriteReturns, WriteAndRespond, Continue, StorageStep,
             Saved
    <2> QED
      BY <2>1, <2>3, <2>4 DEF DataStep
  <1>24. ASSUME NEW f \in Flows, ReleaseLock(f) PROVE DataStep
    BY <1>0, <1>24 DEF ReleaseLock, DataStep, ChainStep, RecordStep, ItemStep,
           StorageStep, Saved
  <1>25. ASSUME NEW f \in Flows, PushToOverlay(f) PROVE DataStep
    BY <1>0, <1>25 DEF PushToOverlay, DataStep, ChainStep, RecordStep, ItemStep,
           StorageStep, Saved
  <1>26. ASSUME NEW f \in Flows, ServerCallFails(f) PROVE DataStep
    BY <1>0, <1>26 DEF ServerCallFails, DataStep, ChainStep, RecordStep, ItemStep,
           StorageStep, Saved
  <1>27. ASSUME NEW f \in Flows, CloseTab(f) PROVE DataStep
    BY <1>0, <1>27 DEF CloseTab, DataStep, ChainStep, RecordStep, ItemStep, StorageStep,
           Saved
  <1>28. ASSUME ServerCrash PROVE DataStep
    BY <1>28 DEF ServerCrash, DataStep, ChainStep, RecordStep, ItemStep, StorageStep, Saved
  <1> QED
    BY <1>1, <1>2, <1>3, <1>4, <1>5, <1>6, <1>7, <1>8, <1>9, <1>10, <1>11, <1>12, <1>13,
       <1>14, <1>15, <1>16, <1>17, <1>18, <1>19, <1>20, <1>21, <1>22, <1>23, <1>24,
       <1>25, <1>26, <1>27, <1>28 DEF Next, Choose, ClientStep, ServerStep

-----------------------------------------------------------------------------
(***************************************************************************)
(* Types.                                                                  *)
(***************************************************************************)
FlowFuns ==
  /\ user \in [Txids -> Users \cup {Nobody}]
  /\ source \in [Flows -> Txids \cup {Nobody}]

Types == ChainType /\ RecordsType /\ FlowFuns /\ HalvesType

LEMMA TypeSteps ==
  ASSUME TypeOK, Control, Next
  PROVE  Types'
  <1> USE DEF chain, database, flow, storage, bounds, Fault, ClientGoto, ServerGoto, Respond,
              ClientLabels, ServerLabels, Codes, ChainType, RecordsType, FlowFuns, HalvesType, Types
  <1>0. Types
    BY DEF TypeOK, FlowType
  <1>1. ASSUME NEW f \in Flows, ChooseShare(f) PROVE Types'
    BY <1>0, <1>1, KindsDiffer DEF ChooseShare
  <1>2. ASSUME NEW f \in Flows, f \in Listings, LookupSource(f) PROVE Types'
    BY <1>0, <1>2, KindsDiffer DEF LookupSource, SavePending
  <1>3. ASSUME NEW f \in Flows, ChooseOwnListing(f) PROVE Types'
    BY <1>0, <1>3, Subsets DEF ChooseOwnListing, SavePending
  <1>4. ASSUME NEW f \in Flows, f \in Listings, SignListing(f) PROVE Types'
    <2>1. ChainType'
      BY <1>0, <1>4, Subsets DEF SignListing, Publish
    <2>2. (RecordsType /\ FlowFuns /\ HalvesType)'
      BY <1>0, <1>4 DEF SignListing, SignReturns
    <2> QED
      BY <2>1, <2>2
  <1>5. ASSUME NEW f \in Flows, f \in Cancels, SignCancel(f) PROVE Types'
    <2>1. ChainType'
      BY <1>0, <1>5, Subsets DEF SignCancel, Publish
    <2>2. (RecordsType /\ FlowFuns /\ HalvesType)'
      BY <1>0, <1>5 DEF SignCancel, SignReturns
    <2> QED
      BY <2>1, <2>2
  <1>6. ASSUME NEW f \in Flows, SignRefused(f) PROVE Types'
    BY <1>0, <1>6, KindsDiffer DEF SignRefused
  <1>7. ASSUME NEW f \in Flows, f \in Listings, PushListing(f) PROVE Types'
    BY <1>0, <1>7, KindsDiffer DEF PushListing, Post
  <1>8. ASSUME NEW f \in Flows, f \in Cancels, PushCancel(f) PROVE Types'
    BY <1>0, <1>8, KindsDiffer DEF PushCancel, Post
  <1>9. ASSUME NEW f \in Flows, ChooseListing(f) PROVE Types'
    BY <1>0, <1>9, Subsets DEF ChooseListing, SavePending
  <1>10. ASSUME NEW f \in Flows, f \in Purchases, Pay(f) PROVE Types'
    BY <1>0, <1>10, KindsDiffer DEF Pay, Post
  <1>11. ASSUME NEW f \in Flows, Hear(f) PROVE Types'
    BY <1>0, <1>11, KindsDiffer DEF Hear
  <1>12. ASSUME NEW f \in Flows, ClientCallFails(f) PROVE Types'
    BY <1>0, <1>12, KindsDiffer DEF ClientCallFails
  <1>13. ASSUME NEW f \in Flows, Check(f) PROVE Types'
    BY <1>0, <1>13, KindsDiffer DEF Check, Continue
  <1>14. ASSUME NEW f \in Flows, AcquireLock(f) PROVE Types'
    BY <1>0, <1>14, KindsDiffer DEF AcquireLock, Continue
  <1>15. ASSUME NEW f \in Flows, FetchSource(f) PROVE Types'
    BY <1>0, <1>15, KindsDiffer DEF FetchSource, Continue, Abort
  <1>16. ASSUME NEW f \in Flows, SignTransfer(f) PROVE Types'
    <2>0. Publish(f) /\ overlay' = overlay
      BY <1>16 DEF SignTransfer
    <2>1. ChainType'
      BY <1>0, <2>0, Subsets DEF Publish
    <2>2. (RecordsType /\ FlowFuns /\ HalvesType)'
      BY <1>0, <1>16 DEF SignTransfer, Continue
    <2> QED
      BY <2>1, <2>2
  <1>17. ASSUME NEW f \in Flows, SignTransferRefused(f) PROVE Types'
    BY <1>0, <1>17, KindsDiffer DEF SignTransferRefused, Abort
  <1>18. ASSUME NEW f \in Flows, RecordShare(f) PROVE Types'
    <2>1. (ChainType /\ FlowFuns /\ HalvesType)'
      BY <1>0, <1>18 DEF RecordShare, WriteReturns, Continue, Abort
    <2>2. user[f] \in Users /\ source[f] \in Txids
      BY <1>18, Subsets DEF RecordShare, TypeOK, FlowType, Control, Posted
    <2>3. ShareOf(f) \in [investorId : Users, parentTxid : (Txids \cup {Mint}) \X {0, 1},
                          transferTxid : Txids \X {0}]
      BY <2>2, Subsets DEF ShareOf, Out
    <2>4. RecordsType'
      BY <1>0, <1>18, <2>3 DEF RecordShare
    <2> QED
      BY <2>1, <2>4
  <1>19. ASSUME NEW f \in Flows, InsertItem(f) PROVE Types'
    BY <1>0, <1>19, KindsDiffer DEF InsertItem, WriteReturns, Continue, Abort
  <1>20. ASSUME NEW f \in Flows, BackUpBeef(f) PROVE Types'
    BY <1>0, <1>20, KindsDiffer DEF BackUpBeef, WriteAndRespond, Abort
  <1>21. ASSUME NEW f \in Flows, DropBeef(f) PROVE Types'
    BY <1>0, <1>21, KindsDiffer DEF DropBeef, WriteReturns, Continue, Abort
  <1>22. ASSUME NEW f \in Flows, RemoveItem(f) PROVE Types'
    <2>1. (ChainType /\ FlowFuns /\ HalvesType)'
      BY <1>0, <1>22 DEF RemoveItem, WriteAndRespond, Abort
    <2>2. RecordsType'
      BY <1>0, <1>22 DEF RemoveItem
    <2> QED
      BY <2>1, <2>2
  <1>23. ASSUME NEW f \in Flows, MarkSold(f) PROVE Types'
    BY <1>0, <1>23, KindsDiffer DEF MarkSold, WriteAndRespond, Abort
  <1>24. ASSUME NEW f \in Flows, ReleaseLock(f) PROVE Types'
    BY <1>0, <1>24, KindsDiffer DEF ReleaseLock
  <1>25. ASSUME NEW f \in Flows, PushToOverlay(f) PROVE Types'
    BY <1>0, <1>25, KindsDiffer DEF PushToOverlay
  <1>26. ASSUME NEW f \in Flows, ServerCallFails(f) PROVE Types'
    BY <1>0, <1>26, KindsDiffer DEF ServerCallFails, Abort
  <1>27. ASSUME NEW f \in Flows, CloseTab(f) PROVE Types'
    BY <1>0, <1>27, KindsDiffer DEF CloseTab
  <1>28. ASSUME ServerCrash PROVE Types'
    BY <1>0, <1>28 DEF ServerCrash, ServerActive
  <1> QED
    BY <1>1, <1>2, <1>3, <1>4, <1>5, <1>6, <1>7, <1>8, <1>9, <1>10, <1>11, <1>12, <1>13,
       <1>14, <1>15, <1>16, <1>17, <1>18, <1>19, <1>20, <1>21, <1>22, <1>23, <1>24,
       <1>25, <1>26, <1>27, <1>28 DEF Next, Choose, ClientStep, ServerStep

\* What every step of the specification does.
Moved == Types' /\ DataStep /\ \A f \in Flows : FlowStep(f)

LEMMA Steps == TypeOK /\ Control /\ [Next]_vars => Moved
  <1>1. ASSUME TypeOK, Control, Next PROVE Moved
    BY <1>1, TypeSteps, DataSteps, FlowSteps DEF Moved
  <1>2. ASSUME TypeOK, Control, UNCHANGED vars PROVE Moved
    <2>1. Types'
      BY <1>2 DEF vars, chain, database, flow, storage, bounds, TypeOK, Types, FlowFuns,
                  FlowType, ChainType, RecordsType, HalvesType
    <2>2. DataStep
      BY <1>2 DEF vars, chain, database, flow, storage, bounds, DataStep, ChainStep,
                  RecordStep, ItemStep, StorageStep, Saved
    <2> QED
      BY <1>2, <2>1, <2>2, FlowSteps DEF Moved
  <1> QED
    BY <1>1, <1>2
-----------------------------------------------------------------------------
(***************************************************************************)
(* The invariants that speak of one flow.                                  *)
(***************************************************************************)
LEMMA ControlKept == Control /\ Moved => Control'
  <1> SUFFICES ASSUME Control, Moved, NEW f \in Flows
               PROVE  /\ client'[f] = "lookup" => f \in Listings
                      /\ client'[f] \in {"sign", "push"} => f \in Listings \cup Cancels
                      /\ client'[f] = "pay" => f \in Purchases
                      /\ server'[f] \in {"source", "sign"} => f \in Purchases
                      /\ server'[f] # "idle" => client'[f] \in Posted
                      /\ outcome'[f] # "none" => server'[f] \in Ended
    BY DEF Control
  <1> USE DEF Control, Posted, Ended, Answers, Unanswered
  <1>1. CASE Rests(f)
    BY <1>1 DEF Rests
  <1>2. CASE Begins(f)
    BY <1>2 DEF Begins
  <1>3. CASE Goes(f)
    BY <1>3 DEF Goes, ClientActive
  <1>4. CASE Posts(f)
    BY <1>4 DEF Posts
  <1>5. CASE client'[f] = client[f] /\ Serves(f)
    BY <1>5 DEF Serves, ServerActive, Throws
  <1>6. CASE client'[f] = client[f] /\ Writes(f)
    BY <1>6 DEF Writes, Throws
  <1> QED
    BY <1>1, <1>2, <1>3, <1>4, <1>5, <1>6 DEF Moved, FlowStep

LEMMA MadeKept == Control /\ Made /\ Moved => Made'
  <1> SUFFICES ASSUME Control, Made, Moved, NEW f \in Flows
               PROVE  /\ client'[f] = "idle" => f \notin made'
                      /\ f \notin Purchases =>
                           /\ client'[f] \in {"lookup", "sign"} => f \notin made'
                           /\ (client'[f] = "push" \/ server'[f] # "idle") => f \in made'
                      /\ f \in Purchases =>
                           /\ server'[f] \in Early => f \notin made'
                           /\ server'[f] \in {"record", "beef", "item"} => f \in made'
    BY DEF Made
  <1> USE KindsDiffer DEF Control, Made, Posted, Ended, Early, MakesNothing
  <1>1. CASE Rests(f)
    BY <1>1 DEF Rests
  <1>2. CASE Begins(f)
    BY <1>2 DEF Begins
  <1>3. CASE Goes(f)
    BY <1>3 DEF Goes, ClientActive
  <1>4. CASE Posts(f)
    BY <1>4 DEF Posts
  <1>5. CASE client'[f] = client[f] /\ Serves(f)
    BY <1>5 DEF Serves, ServerActive
  <1>6. CASE client'[f] = client[f] /\ Writes(f)
    BY <1>6 DEF Writes
  <1> QED
    BY <1>1, <1>2, <1>3, <1>4, <1>5, <1>6 DEF Moved, FlowStep

\* A flow that has begun keeps what it has chosen.
LEMMA BegunKeeps ==
  ASSUME Control, Moved, NEW f \in Flows, client[f] # "idle"
  PROVE  client'[f] # "idle" /\ Keeps(f)
  BY DEF Moved, FlowStep, Rests, Begins, Goes, Posts, ClientActive

\* The server half only goes forward.
LEMMA ServerForward ==
  ASSUME Control, Moved, NEW f \in Flows
  PROVE  /\ server[f] # "idle" => server'[f] # "idle"
         /\ server[f] \in Ended => server'[f] \in Ended /\ outcome'[f] = outcome[f]
         /\ server'[f] \in Early \cup {"record"} => server[f] \in Early \cup {"record"}
         /\ server'[f] \in {"item", "beef"} => server[f] \in {"item", "beef"} \/ Recorded(f)'
         /\ f \in Listings =>
              /\ server'[f] = "beef" => server[f] = "beef" \/ items'[f] # "none"
              /\ server'[f] # "idle" => server[f] # "idle" \/ f \in overlay'
  <1> USE KindsDiffer DEF Control, Posted, Ended, Early, Answers, Unanswered
  <1>1. CASE Rests(f) \/ Begins(f) \/ Goes(f)
    BY <1>1 DEF Rests, Begins, Goes
  <1>4. CASE Posts(f)
    BY <1>4 DEF Posts
  <1>5. CASE client'[f] = client[f] /\ Serves(f)
    BY <1>5 DEF Serves, ServerActive, Throws
  <1>6. CASE client'[f] = client[f] /\ Writes(f)
    BY <1>6 DEF Writes, Throws
  <1> QED
    BY <1>1, <1>4, <1>5, <1>6 DEF Moved, FlowStep

-----------------------------------------------------------------------------
(***************************************************************************)
(* The invariants that tie flows to chain, records and items.              *)
(***************************************************************************)
LEMMA SharesGrow ==
  ASSUME Moved
  PROVE  shares \subseteq shares' /\ \A t : Recorded(t) => Recorded(t)'
  <1>1. shares \subseteq shares'
    BY DEF Moved, DataStep, RecordStep
  <1> QED
    BY <1>1 DEF Recorded, HasRecord

LEMMA MadeGrows ==
  ASSUME Moved
  PROVE  made \subseteq made'
  BY DEF Moved, DataStep, ChainStep, Publish

LEMMA SpentStays ==
  ASSUME TypeOK, Moved, NEW t \in Txids, spentBy[t] # Nobody
  PROVE  spentBy'[t] = spentBy[t]
  <1>1. ASSUME NEW f \in Flows, Publish(f), Unspent(source[f]) PROVE spentBy'[t] = spentBy[t]
    BY <1>1 DEF Publish, Unspent, TypeOK, ChainType
  <1> QED
    BY <1>1 DEF Moved, DataStep, ChainStep

LEMMA ItemsStay ==
  ASSUME TypeOK, Moved, NEW l \in Listings, items[l] # "none"
  PROVE  items'[l] # "none"
  <1>1. ASSUME NEW k, NEW value \in {"listed", "sold", "removed"},
               items' = [items EXCEPT ![k] = value]
        PROVE  items'[l] # "none"
    BY <1>1 DEF TypeOK, RecordsType
  <1> QED
    BY <1>1 DEF Moved, DataStep, ItemStep

\* The user of a transaction on chain does not change.
LEMMA MadeKeeps ==
  ASSUME Control, Made, Moved, NEW t \in made \cap Txids
  PROVE  user'[t] = user[t] /\ (t \in Flows => source'[t] = source[t])
  <1>1. CASE t \in Held
    BY <1>1, FlowsAssumption DEF Moved, DataStep, StorageStep
  <1>2. CASE t \in Flows
    <2>1. client[t] # "idle"
      BY <1>2 DEF Made
    <2> QED
      BY <1>2, <2>1, BegunKeeps DEF Keeps
  <1>3. t \in Held \/ t \in Flows
    BY DEF Txids
  <1> QED
    BY <1>1, <1>2, <1>3

\* A transaction with a record is on chain; it is a holding, or a flow that
\* has begun.
LEMMA RecordedIsMade ==
  ASSUME TypeOK, Records, NEW t, Recorded(t)
  PROVE  /\ t \in made \cap Txids
         /\ \E s \in shares : s.transferTxid = Out(t) /\ s.investorId = user[t] /\ user[t] \in Users
  <1>1. PICK s \in shares : s.transferTxid = Out(t)
    BY DEF Recorded, HasRecord
  <1>2. s.transferTxid[1] = t /\ s.transferTxid[1] \in Txids /\ s.investorId \in Users
    BY <1>1 DEF Out, TypeOK, RecordsType
  <1>3. t \in made /\ s.investorId = user[t]
    BY <1>2 DEF Records
  <1> QED
    BY <1>1, <1>2, <1>3

LEMMA ChosenKept ==
  TypeOK /\ Control /\ Made /\ Records /\ Items /\ Chosen /\ Moved => Chosen' /\ TypeOK'
  <1> SUFFICES ASSUME TypeOK, Control, Made, Records, Items, Chosen, Moved
               PROVE  Chosen' /\ TypeOK'
    OBVIOUS
  <1> DEFINE Good(f) == /\ Recorded(source[f])
                        /\ f \in Listings \cup Cancels => user[f] = user[source[f]]
                        /\ f \notin Listings => items[source[f]] # "none"
             Fits(f) == /\ user[f] \in Users
                        /\ source[f] \in (IF f \in Listings THEN Txids ELSE Listings)
  <1>1. ASSUME NEW f \in Flows, client'[f] # "idle" PROVE Good(f)' /\ Fits(f)'
    <2>1. CASE client[f] # "idle"
      <3>1. Good(f) /\ Fits(f) /\ Keeps(f)
        BY <1>1, <2>1, BegunKeeps DEF Chosen, TypeOK, FlowType
      <3>2. Recorded(source[f])' /\ source[f] \in made \cap Txids
        BY <3>1, SharesGrow, RecordedIsMade DEF Keeps, Recorded
      <3>3. user'[source[f]] = user[source[f]]
        BY <3>2, MadeKeeps
      <3>4. f \notin Listings => items'[source[f]] # "none"
        BY <3>1, ItemsStay
      <3> QED
        BY <3>1, <3>2, <3>3, <3>4 DEF Keeps
    <2>2. CASE client[f] = "idle"
      <3>1. Begins(f)
        BY <1>1, <2>2 DEF Moved, FlowStep, Rests, Goes, Posts, ClientActive
      <3>2. CASE f \in Listings
        <4>1. PICK s \in shares : s.transferTxid[1] = source'[f] /\ s.investorId = user'[f]
          BY <3>1, <3>2, KindsDiffer DEF Begins
        <4>2. s.transferTxid = Out(source'[f]) /\ source'[f] \in Txids /\ user'[f] \in Users
          BY <4>1 DEF TypeOK, RecordsType, Out
        <4>3. source'[f] \in made \cap Txids /\ s.investorId = user[source'[f]]
          BY <4>1, <4>2 DEF Records
        <4>4. user'[source'[f]] = user[source'[f]]
          BY <4>3, MadeKeeps
        <4>5. HasRecord(shares', Out(source'[f]))
          BY <4>2, SharesGrow DEF HasRecord
        <4> QED
          BY <3>2, <4>1, <4>2, <4>3, <4>4, <4>5 DEF Recorded
      <3>3. CASE f \notin Listings
        <4>1. /\ source'[f] \in Listings /\ items[source'[f]] = "listed"
              /\ f \in Cancels => user'[f] = user[source'[f]]
              /\ f \notin Cancels => user'[f] \in Users
          BY <3>1, <3>3, KindsDiffer DEF Begins
        <4>2. Recorded(source'[f]) /\ items'[source'[f]] # "none"
          BY <4>1, ItemsStay DEF Items
        <4>3. source'[f] \in made \cap Txids /\ user[source'[f]] \in Users
          BY <4>2, RecordedIsMade
        <4>4. user'[source'[f]] = user[source'[f]]
          BY <4>3, MadeKeeps
        <4>5. HasRecord(shares', Out(source'[f]))
          BY <4>2, SharesGrow DEF Recorded, HasRecord
        <4> QED
          BY <3>3, <4>1, <4>2, <4>3, <4>4, <4>5 DEF Recorded
      <3> QED
        BY <3>2, <3>3
    <2> QED
      BY <2>1, <2>2
  <1>2. Chosen'
    BY <1>1 DEF Chosen
  <1>3. Types'
    BY DEF Moved
  <1> QED
    BY <1>1, <1>2, <1>3 DEF Types, FlowFuns, TypeOK, FlowType

\* What a flow on chain spent is an output of another transaction.
LEMMA SourceOf ==
  ASSUME TypeOK, Chosen, Records, NEW f \in Flows, client[f] # "idle"
  PROVE  source[f] \in made \cap Txids
  BY RecordedIsMade DEF Chosen

LEMMA NobodyIsNoFlow == Nobody \notin Flows /\ Nobody \notin Txids
  BY FlowsAssumption, Subsets

LEMMA SpendingKept ==
  TypeOK /\ Control /\ Made /\ Chosen /\ Records /\ Spending /\ Moved => Spending'
  <1> SUFFICES ASSUME TypeOK, Control, Made, Chosen, Records, Spending, Moved
               PROVE  Spending'
    OBVIOUS
  <1>1. CASE UNCHANGED <<made, spentBy>>
    <2>1. ASSUME NEW t \in Txids, spentBy[t] # Nobody
          PROVE  t \in made /\ spentBy[t] \in made /\ source'[spentBy[t]] = t
      <3>1. spentBy[t] \in Flows \cap made /\ t \in made /\ source[spentBy[t]] = t
        BY <2>1 DEF Spending, TypeOK, ChainType
      <3> QED
        BY <3>1, MadeKeeps, Subsets
    <2>2. ASSUME NEW f \in Flows, f \in made
          PROVE  spentBy[source'[f]] = f /\ (f \in Listings => source'[f] \notin Listings)
      BY <2>2, MadeKeeps, Subsets DEF Spending
    <2>3. Held \subseteq made
      BY DEF Spending
    <2> QED
      BY <1>1, <2>1, <2>2, <2>3, Subsets DEF Spending
  <1>2. ASSUME NEW f \in Flows, Publish(f), Unspent(source[f]), UNCHANGED source,
               f \in Listings => IsHeldByKey(source[f]),
               f \notin made, client[f] # "idle"
        PROVE  Spending'
    <2>1. source[f] \in made \cap Txids /\ spentBy[source[f]] = Nobody
      BY <1>2, SourceOf DEF Unspent
    <2>2. /\ made' = made \cup {f} /\ spentBy'[source[f]] = f
          /\ \A t \in Txids \ {source[f]} : spentBy'[t] = spentBy[t]
      BY <1>2, <2>1 DEF Publish, TypeOK, ChainType
    <2>3. ASSUME NEW t \in Txids, spentBy'[t] # Nobody
          PROVE  t \in made' /\ spentBy'[t] \in made' /\ source[spentBy'[t]] = t
      BY <2>1, <2>2, <2>3 DEF Spending
    <2>4. ASSUME NEW g \in Flows, g \in made' PROVE spentBy'[source[g]] = g
      <3>1. CASE g = f
        BY <2>2, <3>1
      <3>2. CASE g # f
        <4>1. g \in made /\ spentBy[source[g]] = g /\ g # Nobody /\ client[g] # "idle"
          BY <2>2, <2>4, <3>2, NobodyIsNoFlow DEF Spending, Made
        <4>2. source[g] \in Txids /\ source[g] # source[f]
          BY <2>1, <4>1, SourceOf
        <4> QED
          BY <2>2, <4>1, <4>2
      <3> QED
        BY <3>1, <3>2
    <2>5. ASSUME NEW l \in Listings, l \in made' PROVE source[l] \notin Listings
      BY <1>2, <2>2, <2>5 DEF Spending, IsHeldByKey
    <2>6. Held \subseteq made'
      BY <2>2 DEF Spending
    <2> QED
      BY <1>2, <2>3, <2>4, <2>5, <2>6 DEF Spending
  <1>3. ASSUME NEW f \in Flows, (client[f] = "sign" /\ f \notin Purchases) \/ server[f] = "sign"
        PROVE  f \notin made /\ client[f] # "idle"
    BY <1>3 DEF Made, Control, Posted, Early
  <1> QED
    BY <1>1, <1>2, <1>3 DEF Moved, DataStep, ChainStep

\* A flow that records is on chain, and was not recorded before.
LEMMA RecordingIsMade ==
  ASSUME Control, Made, Records, NEW f \in Flows, server[f] = "record"
  PROVE  f \in made /\ client[f] # "idle" /\ ~Recorded(f)
  BY DEF Control, Made, Records, Posted

LEMMA RecordsKept ==
  TypeOK /\ Control /\ Made /\ Chosen /\ Records /\ Moved => Records'
  <1> SUFFICES ASSUME TypeOK, Control, Made, Chosen, Records, Moved
               PROVE  Records'
    OBVIOUS
  <1> DEFINE Says(s) == LET t == s.transferTxid[1]
                        IN /\ t \in made /\ s.investorId = user[t]
                           /\ t \in Flows => s.parentTxid = Out(source[t])
                           /\ t \in Held => s.parentTxid = Out(Mint) \/ s.parentTxid[2] = 1
  <1>1. ASSUME NEW s \in shares PROVE Says(s)'
    <2>1. s.transferTxid[1] \in made \cap Txids /\ Says(s)
      BY DEF Records, TypeOK, RecordsType
    <2>2. s.transferTxid[1] \in made'
      BY <2>1, MadeGrows
    <2> QED
      BY <2>1, <2>2, MadeKeeps DEF Out
  <1>2. CASE UNCHANGED shares
    <2>1. \A s \in shares' : Says(s)'
      BY <1>1, <1>2
    <2>2. \A f : Recorded(f)' <=> Recorded(f)
      BY <1>2 DEF Recorded
    <2>3. ASSUME NEW f \in Flows
          PROVE  /\ server'[f] \in Early \cup {"record"} => ~Recorded(f)
                 /\ server'[f] \in {"item", "beef"} => Recorded(f)
      BY <2>2, ServerForward DEF Records
    <2> QED
      BY <1>2, <2>1, <2>2, <2>3 DEF Records
  <1>3. ASSUME NEW f \in Flows, server[f] = "record", server'[f] # "record",
               shares' = shares \cup {ShareOf(f)}, UNCHANGED <<made, user, source>>
        PROVE  Records'
    <2>1. f \in made /\ client[f] # "idle" /\ ~Recorded(f)
      BY <1>3, RecordingIsMade
    <2>2. /\ ShareOf(f).transferTxid = Out(f) /\ Out(f)[1] = f
          /\ ShareOf(f).investorId = user[f] /\ ShareOf(f).parentTxid = Out(source[f])
      BY DEF ShareOf, Out
    <2>3. ASSUME NEW s, s = ShareOf(f) PROVE Says(s)'
      BY <1>3, <2>1, <2>2, <2>3, KindsDiffer DEF Out
    <2>4. \A s \in shares' : Says(s)'
      BY <1>1, <1>3, <2>3
    <2>5. \A s \in shares : s.transferTxid # Out(f)
      BY <2>1 DEF Recorded, HasRecord
    <2>6. \A r, s \in shares' : r.transferTxid = s.transferTxid => r = s
      BY <1>3, <2>2, <2>5 DEF Records
    <2>7. \A g : Recorded(g)' <=> Recorded(g) \/ g = f
      BY <1>3, <2>2 DEF Recorded, HasRecord, Out
    <2>8. server'[f] \notin Early \cup {"record"}
      BY <1>3 DEF Moved, FlowStep, Rests, Begins, Goes, Posts, Serves, Writes, Early, Control, Posted
    <2>9. ASSUME NEW g \in Flows
          PROVE  /\ server'[g] \in Early \cup {"record"} => ~Recorded(g)'
                 /\ server'[g] \in {"item", "beef"} => Recorded(g)'
      BY <2>7, <2>8, ServerForward DEF Records
    <2> QED
      BY <2>4, <2>6, <2>9 DEF Records
  <1> QED
    BY <1>2, <1>3 DEF Moved, DataStep, RecordStep

\* A purchase that has recorded its share finds the item it bought on offer.
LEMMA BoughtIsListed ==
  ASSUME TypeOK, Control, Made, Chosen, Spending, Items,
         NEW p \in Purchases, server[p] \in {"item", "beef"}
  PROVE  items[source[p]] = "listed"
  <1>1. p \in Flows /\ client[p] # "idle" /\ p \in made /\ p \notin Cancels /\ p \notin Listings
    BY Subsets, KindsDiffer DEF Control, Made, Posted
  <1>2. source[p] \in Listings /\ items[source[p]] # "none" /\ spentBy[source[p]] = p
    BY <1>1 DEF TypeOK, FlowType, Chosen, Spending
  <1>3. items[source[p]] # "sold" /\ items[source[p]] # "removed"
    BY <1>1, <1>2 DEF Items, Ended
  <1>4. items[source[p]] \in {"none", "listed", "sold", "removed"}
    BY <1>2 DEF TypeOK, RecordsType
  <1> QED
    BY <1>2, <1>3, <1>4

LEMMA ItemsKept ==
  TypeOK /\ Control /\ Made /\ Chosen /\ Spending /\ Records /\ Items /\ Moved => Items'
  <1> SUFFICES ASSUME TypeOK, Control, Made, Chosen, Spending, Records, Items, Moved,
                      NEW l \in Listings
               PROVE  /\ items'[l] # "none" => Recorded(l)' /\ server'[l] # "idle"
                      /\ server'[l] = "beef" => items'[l] # "none"
                      /\ server'[l] # "idle" => l \in overlay'
                      /\ items'[l] = "sold" => /\ spentBy'[l] \in Purchases
                                               /\ Recorded(spentBy[l])'
                                               /\ server'[spentBy'[l]] \in Ended
                      /\ items'[l] = "removed" => spentBy'[l] \in Cancels /\ Recorded(spentBy[l])'
    BY DEF Items
  <1>0. l \in Flows /\ l \in Txids
    BY Subsets
  <1>1. server'[l] = "beef" => items'[l] # "none"
    BY <1>0, ServerForward, ItemsStay DEF Items
  <1>2. server'[l] # "idle" => l \in overlay'
    <2>1. server[l] # "idle" => l \in overlay'
      BY DEF Items, Moved, DataStep, StorageStep
    <2> QED
      BY <1>0, <2>1, ServerForward
  <1> DEFINE Gone == /\ items'[l] # "none" => Recorded(l)' /\ server'[l] # "idle"
                     /\ items'[l] = "sold" => /\ spentBy'[l] \in Purchases
                                              /\ Recorded(spentBy[l])'
                                              /\ server'[spentBy'[l]] \in Ended
                     /\ items'[l] = "removed" => spentBy'[l] \in Cancels /\ Recorded(spentBy[l])'
  <1>3. ASSUME items'[l] = items[l] PROVE Gone
    <2>1. items[l] # "none" => Recorded(l)' /\ server'[l] # "idle"
      BY <1>0, ServerForward, SharesGrow DEF Items
    <2>2. ASSUME items[l] \in {"sold", "removed"}
          PROVE  spentBy[l] \in Flows /\ spentBy'[l] = spentBy[l] /\ Recorded(spentBy[l])'
      <3>1. spentBy[l] \in Flows /\ Recorded(spentBy[l])
        BY <2>2, Subsets DEF Items
      <3>2. spentBy'[l] = spentBy[l]
        BY <1>0, <3>1, SpentStays, NobodyIsNoFlow
      <3>3. HasRecord(shares', Out(spentBy[l]))
        BY <3>1, SharesGrow DEF Recorded, HasRecord
      <3> QED
        BY <3>1, <3>2, <3>3 DEF Recorded
    <2>3. items[l] = "sold" => spentBy[l] \in Purchases /\ server'[spentBy[l]] \in Ended
      BY <2>2, ServerForward DEF Items
    <2>4. items[l] = "removed" => spentBy[l] \in Cancels
      BY DEF Items
    <2>5. items[l] = "sold" => /\ spentBy'[l] \in Purchases /\ Recorded(spentBy[l])'
                               /\ server'[spentBy'[l]] \in Ended
      BY <2>2, <2>3
    <2>6. items[l] = "removed" => spentBy'[l] \in Cancels /\ Recorded(spentBy[l])'
      BY <2>2, <2>4
    <2> QED
      BY <1>3, <2>1, <2>5, <2>6
  <1>4. ASSUME NEW f \in Flows, server[f] = "item", server'[f] # "item",
               UNCHANGED <<made, spentBy, user, source, shares>>,
               \/ f \in Listings /\ items' = [items EXCEPT ![f] = "listed"]
               \/ f \in Cancels /\ items' = [items EXCEPT ![source[f]] = "removed"]
               \/ /\ f \in Purchases /\ items' = [items EXCEPT ![source[f]] = "sold"]
                  /\ items[source[f]] = "listed" /\ server'[f] = "release",
               items'[l] # items[l]
        PROVE  Gone
    <2>1. Recorded(f) /\ client[f] # "idle" /\ f \in made /\ Recorded(f)'
      <3>1. Recorded(f) /\ client[f] # "idle" /\ f \in made
        BY <1>4 DEF Records, Control, Posted, Made
      <3> QED
        BY <3>1, SharesGrow
    <2>2. CASE f \in Listings
      <3>1. f = l /\ items'[l] = "listed"
        BY <1>4, <2>2, KindsDiffer DEF TypeOK, RecordsType
      <3>2. server'[l] # "idle"
        BY <1>4, <3>1, ServerForward
      <3> QED
        BY <2>1, <3>1, <3>2
    <2>3. CASE f \notin Listings
      <3>1. /\ source[f] = l /\ (f \in Cancels \/ f \in Purchases)
            /\ items'[l] = IF f \in Cancels THEN "removed" ELSE "sold"
        BY <1>4, <2>3, KindsDiffer DEF TypeOK, RecordsType
      <3>2. spentBy[l] = f /\ spentBy'[l] = f
        BY <1>4, <2>1, <3>1 DEF Spending
      <3>3. items[l] # "none"
        BY <2>1, <2>3, <3>1 DEF Chosen
      <3>4. Recorded(l)' /\ server'[l] # "idle"
        BY <1>0, <3>3, ServerForward, SharesGrow DEF Items
      <3>5. f \in Purchases => server'[f] \in Ended /\ f \notin Cancels
        BY <1>4, <2>3, KindsDiffer DEF Ended
      <3>6. Recorded(spentBy[l])'
        BY <1>4, <2>1, <3>2 DEF Recorded
      <3> QED
        BY <3>1, <3>2, <3>4, <3>5, <3>6
    <2> QED
      BY <2>2, <2>3
  <1>5. Gone
    BY <1>3, <1>4 DEF Moved, DataStep, ItemStep
  <1> QED
    BY <1>1, <1>2, <1>5

\* Until a flow on chain is recorded, what it spent has no child.
LEMMA NoOtherChild ==
  ASSUME TypeOK, Chosen, Spending, Records,
         NEW f \in Flows, f \in made, client[f] # "idle", ~Recorded(f)
  PROVE  ~HasChild(Out(source[f]))
  <1> SUFFICES ASSUME NEW s \in shares, s.parentTxid = Out(source[f]) PROVE FALSE
    BY DEF HasChild
  <1> DEFINE t == s.transferTxid[1]
  <1>1. source[f] \in made \cap Txids /\ spentBy[source[f]] = f
    BY SourceOf DEF Spending
  <1>2. /\ t \in made /\ t \in Txids /\ s.transferTxid = Out(t)
        /\ t \in Flows => s.parentTxid = Out(source[t])
        /\ t \in Held => s.parentTxid = Out(Mint) \/ s.parentTxid[2] = 1
    BY DEF Records, TypeOK, RecordsType, Out
  <1>3. t \in Flows
    BY <1>1, <1>2, FlowsAssumption DEF Txids, Out
  <1>4. source[t] = source[f]
    BY <1>2, <1>3 DEF Out
  <1>5. t = f
    BY <1>1, <1>2, <1>3, <1>4 DEF Spending
  <1> QED
    BY <1>2, <1>5 DEF Recorded, HasRecord

\* The check refuses nobody whose transaction is on the chain.
LEMMA SpenderMayProceed ==
  ASSUME TypeOK, Control, Made, Chosen, Spending, Records, Items,
         NEW f \in Flows, f \in made, server[f] = "check"
  PROVE  MayProceed(f)
  <1>1. client[f] # "idle" /\ f \notin Purchases /\ ~Recorded(f)
    BY DEF Control, Made, Records, Posted, Early
  <1>2. source[f] \in made \cap Txids /\ spentBy[source[f]] = f
    BY <1>1, SourceOf DEF Spending
  <1>3. CASE f \in Listings
    <2>1. \E s \in shares : s.transferTxid = Out(source[f]) /\ s.investorId = user[f]
      BY <1>1, <1>3, RecordedIsMade DEF Chosen
    <2>2. ~HasChild(Out(source[f]))
      BY <1>1, NoOtherChild
    <2> QED
      BY <1>3, <2>1, <2>2, KindsDiffer DEF MayProceed, MayList
  <1>4. CASE f \in Cancels
    <2>1. source[f] \in Listings /\ items[source[f]] # "none"
      BY <1>1, <1>4, KindsDiffer DEF TypeOK, FlowType, Chosen
    <2>2. items[source[f]] # "removed"
      BY <1>1, <1>2, <2>1 DEF Items
    <2>3. items[source[f]] \in {"none", "listed", "sold", "removed"}
      BY <2>1 DEF TypeOK, RecordsType
    <2> QED
      BY <1>4, <2>1, <2>2, <2>3, KindsDiffer DEF MayProceed, MayCancel
  <1> QED
    BY <1>1, <1>3, <1>4 DEF Flows

\* A flow whose server half has ended is not put on the chain any more.
LEMMA EndedMakesNothing ==
  ASSUME Control, Moved, NEW f \in Flows, server[f] \in Ended
  PROVE  MakesNothing(f)
  BY DEF Control, Posted, Ended, Moved, FlowStep, Rests, Begins, Goes, Posts, Serves, Writes

LEMMA NonceRecordKept ==
  ASSUME TypeOK, Moved, NEW f \in Flows, NonceRecorded(f)
  PROVE  NonceRecorded(f)'
  <1>1. CASE f \in Listings
    BY <1>1, ItemsStay DEF NonceRecorded
  <1>2. CASE f \notin Listings
    BY <1>2, SharesGrow DEF NonceRecorded
  <1> QED
    BY <1>1, <1>2

LEMMA AnsweredKept ==
  TypeOK /\ Control /\ Made /\ Chosen /\ Spending /\ Records /\ Items /\ Answered /\ Moved
    => Answered'
  <1> SUFFICES ASSUME TypeOK, Control, Made, Chosen, Spending, Records, Items, Answered, Moved,
                      NEW f \in Flows
               PROVE  /\ outcome'[f] \in {"refused", "lost", "unresolved"} => f \notin made'
                      /\ outcome'[f] = "error" /\ f \in made' => faults' # 0
                      /\ outcome'[f] = "ok" => NonceRecorded(f)'
    BY DEF Answered
  <1> USE DEF Answers, Unanswered
  <1>1. CASE outcome'[f] = outcome[f]
    <2>1. outcome[f] # "none" => MakesNothing(f)
      BY EndedMakesNothing DEF Control
    <2>2. faults # 0 => faults' # 0
      BY DEF Moved, DataStep, StorageStep
    <2>3. outcome[f] = "ok" => NonceRecorded(f)'
      BY NonceRecordKept DEF Answered
    <2> QED
      BY <1>1, <2>1, <2>2, <2>3 DEF Answered, MakesNothing
  <1>2. CASE outcome'[f] # outcome[f] /\ Serves(f)
    <2>1. outcome'[f] # "ok"
      BY <1>2 DEF Serves, Throws
    <2>2. ASSUME outcome'[f] = "refused" PROVE f \notin made'
      <3>1. server[f] = "check" /\ ~MayProceed(f) /\ MakesNothing(f)
        BY <1>2, <2>2 DEF Serves, Throws
      <3> QED
        BY <3>1, SpenderMayProceed DEF MakesNothing
    <2>3. ASSUME outcome'[f] \in {"lost", "unresolved"} PROVE f \notin made'
      <3>1. server[f] \in {"source", "sign"} /\ MakesNothing(f)
        BY <1>2, <2>3 DEF Serves, Throws
      <3> QED
        BY <3>1 DEF MakesNothing, Control, Made, Early
    <2>4. ASSUME outcome'[f] = "error" PROVE faults' # 0
      BY <1>2, <2>4, BoughtIsListed DEF Serves, Throws
    <2> QED
      BY <2>1, <2>2, <2>3, <2>4
  <1>3. CASE outcome'[f] # outcome[f] /\ Writes(f)
    <2>1. outcome'[f] \in {"ok", "error"} /\ (outcome'[f] = "error" => faults' # 0)
      BY <1>3 DEF Writes, Throws
    <2>2. ASSUME outcome'[f] = "ok" PROVE NonceRecorded(f)'
      <3>1. server[f] = IF f \in Listings THEN "beef" ELSE "item"
        BY <1>3, <2>2 DEF Writes, Throws
      <3>2. NonceRecorded(f)
        BY <3>1 DEF Items, Records, NonceRecorded
      <3> QED
        BY <3>2, NonceRecordKept
    <2> QED
      BY <2>1, <2>2
  <1> QED
    BY <1>1, <1>2, <1>3 DEF Moved, FlowStep, Rests, Begins, Goes, Posts

LEMMA StoredKept == Control /\ Made /\ Stored /\ Moved => Stored'
  <1> SUFFICES ASSUME Control, Made, Stored, Moved, NEW f \in Flows
               PROVE  /\ client'[f] \in {"sign", "push", "pay"} => Saved(f)'
                      /\ (f \in made' \cup paid' \/ server'[f] # "idle") =>
                           Saved(f)' \/ outcome'[f] = "ok"
    BY DEF Stored
  <1>1. /\ Saved(f) => Saved(f)' \/ outcome[f] = "ok"
        /\ f \in paid' => f \in paid \/ client[f] = "pay"
    BY DEF Moved, DataStep, StorageStep
  <1>2. outcome[f] = "ok" => outcome'[f] = "ok" /\ server[f] # "idle" /\ client[f] \in Posted
    BY ServerForward DEF Control, Ended
  <1>3. /\ client[f] \in {"sign", "push", "pay"} => Saved(f)
        /\ (f \in made \cup paid \/ server[f] # "idle") => Saved(f) \/ outcome[f] = "ok"
    BY DEF Stored
  <1>4. client'[f] \in {"sign", "push", "pay"} => client[f] \in {"sign", "push", "pay"} \/ Saved(f)'
    BY DEF Moved, FlowStep, Rests, Begins, Goes, Posts
  <1>5. client'[f] \in {"sign", "push", "pay"} => client[f] \notin Posted
    BY DEF Posted, Moved, FlowStep, Rests, Begins, Goes, Posts, ClientActive
  <1>6. f \in made' => f \in made \/ client[f] = "sign" \/ server[f] = "sign"
    BY DEF Moved, FlowStep, Rests, Begins, Goes, Posts, Serves, Writes, MakesNothing
  <1>7. server'[f] # "idle" => server[f] # "idle" \/ client[f] \in {"push", "pay"}
    BY DEF Moved, FlowStep, Rests, Begins, Goes, Posts, Serves, Writes, ServerActive
  <1>8. client'[f] \in {"sign", "push", "pay"} => Saved(f)'
    BY <1>1, <1>2, <1>3, <1>4, <1>5
  <1>9. (f \in made' \cup paid' \/ server'[f] # "idle") => Saved(f) \/ outcome[f] = "ok"
    BY <1>1, <1>3, <1>6, <1>7
  <1> QED
    BY <1>1, <1>2, <1>8, <1>9

-----------------------------------------------------------------------------
(***************************************************************************)
(* The invariant.                                                          *)
(***************************************************************************)
LEMMA InitInvariant == Init => IInv
  <1> SUFFICES ASSUME Init PROVE IInv
    OBVIOUS
  <1>1. PICK parentOf \in [Held -> {Out(Mint)} \cup (Held \X {1})] : shares = FirstShares(parentOf)
    BY DEF Init
  <1>2. \A h \in Held : user[h] \in Users
    BY FlowsAssumption, Subsets DEF Init
  <1>3. \A s \in shares : \E h \in Held :
          s = [investorId |-> user[h], parentTxid |-> parentOf[h], transferTxid |-> Out(h)]
    BY <1>1 DEF FirstShares
  <1>4. shares \subseteq [investorId : Users, parentTxid : (Txids \cup {Mint}) \X {0, 1},
                         transferTxid : Txids \X {0}]
    <2> SUFFICES ASSUME NEW s \in shares
                 PROVE  s \in [investorId : Users, parentTxid : (Txids \cup {Mint}) \X {0, 1},
                               transferTxid : Txids \X {0}]
      OBVIOUS
    <2>1. PICK h \in Held :
            s = [investorId |-> user[h], parentTxid |-> parentOf[h], transferTxid |-> Out(h)]
      BY <1>3
    <2>2. parentOf[h] \in (Txids \cup {Mint}) \X {0, 1} /\ Out(h) \in Txids \X {0}
      BY Subsets DEF Out
    <2> QED
      BY <1>2, <2>1, <2>2
  <1>5. TypeOK
    BY <1>4, Subsets DEF Init, TypeOK, ChainType, RecordsType, FlowType, HalvesType, ClientLabels,
                         ServerLabels, Codes
  <1>6. Control /\ Made /\ Chosen /\ Items /\ Answered /\ Stored
    BY FlowsAssumption, Subsets
       DEF Init, Control, Made, Chosen, Items, Answered, Stored, Early, Ended, Posted
  <1>7. Spending
    BY FlowsAssumption, Subsets DEF Init, Spending
  <1>8. Records
    <2>1. ASSUME NEW s \in shares
          PROVE  LET t == s.transferTxid[1]
                 IN /\ t \in made /\ s.investorId = user[t] /\ t \notin Flows
                    /\ s.parentTxid = Out(Mint) \/ s.parentTxid[2] = 1
      <3>1. PICK h \in Held :
              s = [investorId |-> user[h], parentTxid |-> parentOf[h], transferTxid |-> Out(h)]
        BY <1>3
      <3>2. s.transferTxid[1] = h /\ h \in made /\ h \notin Flows
        BY <3>1, FlowsAssumption DEF Init, Out
      <3>3. parentOf[h] = Out(Mint) \/ parentOf[h][2] = 1
        OBVIOUS
      <3> QED
        BY <3>1, <3>2, <3>3
    <2>2. \A r, s \in shares : r.transferTxid = s.transferTxid => r = s
      BY <1>3 DEF Out
    <2>3. ASSUME NEW f \in Flows, Recorded(f) PROVE FALSE
      <3>1. PICK s \in shares : s.transferTxid = Out(f)
        BY <2>3 DEF Recorded, HasRecord
      <3> QED
        BY <2>1, <3>1 DEF Out
    <2>4. \A f \in Flows : server[f] = "idle"
      BY DEF Init
    <2> QED
      BY <2>1, <2>2, <2>3, <2>4 DEF Records, Early
  <1> QED
    BY <1>5, <1>6, <1>7, <1>8 DEF IInv

LEMMA NextInvariant == IInv /\ [Next]_vars => IInv'
  <1> SUFFICES ASSUME IInv, [Next]_vars PROVE IInv'
    OBVIOUS
  <1> USE DEF IInv
  <1>1. Moved
    BY Steps
  <1>2. Control' /\ Made'
    BY <1>1, ControlKept, MadeKept
  <1>3. Chosen' /\ TypeOK'
    BY <1>1, ChosenKept
  <1>4. Spending'
    BY <1>1, SpendingKept
  <1>5. Records'
    BY <1>1, RecordsKept
  <1>6. Items'
    BY <1>1, ItemsKept
  <1>7. Answered'
    BY <1>1, AnsweredKept
  <1>8. Stored'
    BY <1>1, StoredKept
  <1> QED
    BY <1>2, <1>3, <1>4, <1>5, <1>6, <1>7, <1>8

\* The halves of each flow agree with the chain, the records, the items and
\* the browser's storage, in every interleaving and after any failure.
THEOREM Invariant == Spec => []IInv
  BY InitInvariant, NextInvariant, PTL DEF Spec

\* Every variable keeps its type, and a flow that has begun its user and
\* its source, whatever fails or dies.
THEOREM TypeCorrect == Spec => []TypeOK
  <1>1. IInv => TypeOK
    BY DEF IInv
  <1> QED
    BY <1>1, Invariant, PTL

\* RecordShare writes only what the chain has accepted: a record names as its
\* parent the output its transaction spent.
THEOREM RecordsFollow == Spec => []RecordsFollowChain
  <1>1. IInv => RecordsFollowChain
    <2> SUFFICES ASSUME IInv, NEW s \in shares, s.transferTxid[1] \notin Held
                 PROVE  Out(spentBy[s.parentTxid[1]]) = s.transferTxid
      BY DEF RecordsFollowChain
    <2> DEFINE t == s.transferTxid[1]
    <2>1. t \in Flows /\ t \in made /\ s.transferTxid = Out(t) /\ s.parentTxid = Out(source[t])
      BY DEF IInv, TypeOK, RecordsType, Records, Txids, Out
    <2>2. spentBy[source[t]] = t
      BY <2>1 DEF IInv, Spending
    <2> QED
      BY <2>1, <2>2 DEF Out
  <1> QED
    BY <1>1, Invariant, PTL

\* RemoveItem and MarkSold come only after the chain has decided who spent
\* the listing, and after that share is recorded.
THEOREM ItemsAgree == Spec => []ItemsAgreeWithChain
  <1>1. IInv => ItemsAgreeWithChain
    BY DEF IInv, Items, ItemsAgreeWithChain
  <1> QED
    BY <1>1, Invariant, PTL

\* What FetchSource needs for a listed item is always there, because the
\* browser posts a listing only once the overlay has it.
THEOREM ListedResolves == Spec => []ListedIsResolvable
  <1>1. IInv => ListedIsResolvable
    BY DEF IInv, Items, ListedIsResolvable
  <1> QED
    BY <1>1, Invariant, PTL

\* Check and the chain never disagree about who may go on, and no write of a
\* flow on chain throws unless something failed.
THEOREM SpendersProceed == Spec => []SpenderIsNotRefused
  <1>1. IInv => SpenderIsNotRefused
    BY DEF IInv, Answered, SpenderIsNotRefused, Undisturbed
  <1> QED
    BY <1>1, Invariant, PTL

\* A nonce leaves local storage only when the server has recorded it.
THEOREM NoncesSurvive == Spec => []NonceSurvives
  <1>1. IInv => NonceSurvives
    BY DEF IInv, Answered, Stored, NonceSurvives, NonceNeeded, Unspent, Saved
  <1> QED
    BY <1>1, Invariant, PTL

-----------------------------------------------------------------------------
(***************************************************************************)
(* Title: the chain and the records implement Deeds.                       *)
(***************************************************************************)
DeedOf(t) == [title |-> t, holder |-> user[t], offered |-> t \in Listings]

\* What a flow spends is its user's own unless it buys; only what is on
\* offer is bought or taken back, and only what is not is offered.
LEMMA LawfulChoice ==
  ASSUME IInv, NEW f \in Flows, client[f] # "idle"
  PROVE  /\ source[f] \in made \cap Txids /\ user[f] \in Users
         /\ f \in Listings \/ f \in Cancels => user[f] = user[source[f]]
         /\ f \notin Listings => source[f] \in Listings
  BY SourceOf, KindsDiffer DEF IInv, TypeOK, FlowType, Chosen

LEMMA ChainDeedStep ==
  ASSUME IInv, IInv', [Next]_vars
  PROVE  [OnChain!DNext]_ChainDeeds
  <1> DEFINE Live == {u \in made : Unspent(u)}
  <1>1. Moved
    BY Steps DEF IInv
  <1>2. \A t \in made : t \in Txids /\ user'[t] = user[t]
    BY <1>1, MadeKeeps DEF IInv, TypeOK, ChainType
  <1>0. ChainDeeds = {DeedOf(t) : t \in Live} /\ ChainDeeds' = {DeedOf(t) : t \in Live}'
    BY DEF ChainDeeds, DeedOf
  <1>3. CASE UNCHANGED <<made, spentBy>>
    <2>1. Live' = Live
      BY <1>3 DEF Unspent
    <2>2. \A t \in Live : DeedOf(t)' = DeedOf(t)
      BY <1>2 DEF DeedOf
    <2>3. {DeedOf(t) : t \in Live}' = {DeedOf(t) : t \in Live}
      BY <2>1, <2>2
    <2> QED
      BY <1>0, <2>3
  <1>4. ASSUME NEW f \in Flows, Publish(f), Unspent(source[f]),
               f \in Listings => IsHeldByKey(source[f]), f \notin made, client[f] # "idle",
               UNCHANGED user
        PROVE  OnChain!DNext
    <2> DEFINE old == DeedOf(source[f])
               new == DeedOf(f)
    <2>1. source[f] \in made \cap Txids /\ f \in Txids /\ f # Nobody /\ source[f] # f
      BY <1>4, LawfulChoice, KindsDiffer
    <2>2. /\ made' = made \cup {f} /\ spentBy'[source[f]] = f
          /\ \A t \in Txids \ {source[f]} : spentBy'[t] = spentBy[t]
      BY <1>4, <2>1 DEF Publish, IInv, TypeOK, ChainType
    <2>3. spentBy[f] = Nobody /\ source[f] \in Live
      BY <1>4, <2>1 DEF IInv, Spending, Unspent
    <2>4. Live' = (Live \ {source[f]}) \cup {f}
      BY <1>2, <2>1, <2>2, <2>3 DEF Unspent
    <2>5. \A t : DeedOf(t)' = DeedOf(t) /\ DeedOf(t).title = t
      BY <1>4 DEF DeedOf
    <2>6. {DeedOf(t) : t \in Live}' = ({DeedOf(t) : t \in Live} \ {old}) \cup {new}
      BY <2>4, <2>5
    <2>7. ChainDeeds' = (ChainDeeds \ {old}) \cup {new}
      BY <1>0, <2>6
    <2>8. old \in ChainDeeds /\ \A d \in ChainDeeds : d.title # f
      BY <1>0, <1>4, <2>3, <2>5
    <2>9. /\ old.offered = (source[f] \in Listings) /\ old.holder = user[source[f]]
          /\ new = [title |-> f, holder |-> user[f], offered |-> f \in Listings]
      BY DEF DeedOf
    <2>10. CASE f \in Listings
      <3>1. /\ source[f] \notin Listings
            /\ new = [title |-> f, holder |-> old.holder, offered |-> TRUE]
        BY <1>4, <2>9, <2>10, LawfulChoice DEF IsHeldByKey
      <3>2. OnChain!Offer(old, f)
        BY <2>7, <2>8, <2>9, <3>1 DEF OnChain!Offer, OnChain!Replace
      <3> QED
        BY <2>1, <2>8, <3>2 DEF OnChain!DNext
    <2>11. CASE f \notin Listings
      <3>1. source[f] \in Listings /\ user[f] \in Users
        BY <1>4, <2>11, LawfulChoice
      <3>2. (f \in Listings) = FALSE
        BY <2>11
      <3>3. new = [title |-> f, holder |-> user[f], offered |-> FALSE]
        BY <3>2 DEF DeedOf
      <3>4. OnChain!Sell(old, f, user[f])
        BY <2>7, <2>8, <2>9, <3>1, <3>3 DEF OnChain!Sell, OnChain!Replace
      <3> QED
        BY <2>1, <2>8, <3>1, <3>4 DEF OnChain!DNext
    <2> QED
      BY <2>10, <2>11
  <1>5. ASSUME NEW f \in Flows, (client[f] = "sign" /\ f \notin Purchases) \/ server[f] = "sign"
        PROVE  f \notin made /\ client[f] # "idle"
    BY <1>5 DEF IInv, Made, Control, Posted, Early
  <1> QED
    BY <1>1, <1>3, <1>4, <1>5 DEF Moved, DataStep, ChainStep

DeedOfRecord(s) == [title |-> s.transferTxid[1], holder |-> s.investorId,
                    offered |-> s.transferTxid[1] \in Listings]

\* What has no record has no child either.
LEMMA NoChildOfUnrecorded ==
  ASSUME TypeOK, Made, Chosen, Records, NEW f \in Flows, ~Recorded(f)
  PROVE  ~HasChild(Out(f))
  <1> SUFFICES ASSUME NEW s \in shares, s.parentTxid = Out(f) PROVE FALSE
    BY DEF HasChild
  <1> DEFINE t == s.transferTxid[1]
  <1>1. /\ t \in made /\ t \in Txids
        /\ t \in Flows => s.parentTxid = Out(source[t])
        /\ t \in Held => s.parentTxid = Out(Mint) \/ s.parentTxid[2] = 1
    BY DEF Records, TypeOK, RecordsType
  <1>2. t \in Flows
    BY <1>1, KindsDiffer DEF Txids, Out
  <1>3. source[t] = f /\ client[t] # "idle"
    BY <1>1, <1>2 DEF Made, Out
  <1> QED
    BY <1>2, <1>3 DEF Chosen

LEMMA RecordDeedStep ==
  ASSUME IInv, [Next]_vars
  PROVE  [OnRecord!DNext]_RecordDeeds
  <1> DEFINE Leaves == {r \in shares : ~HasChild(r.transferTxid)}
  <1>1. Moved
    BY Steps DEF IInv
  <1>0. /\ RecordDeeds = {DeedOfRecord(s) : s \in Leaves}
        /\ RecordDeeds' = {DeedOfRecord(s) : s \in Leaves}'
    BY DEF RecordDeeds, DeedOfRecord
  <1>2. CASE UNCHANGED shares
    BY <1>2 DEF RecordDeeds, HasChild
  <1>3. ASSUME NEW f \in Flows, server[f] = "record", shares' = shares \cup {ShareOf(f)}
        PROVE  OnRecord!DNext
    <2>1. f \in made /\ client[f] # "idle" /\ ~Recorded(f) /\ f \in Txids
      BY <1>3, RecordingIsMade, KindsDiffer DEF IInv
    <2>2. Recorded(source[f]) /\ source[f] \in Txids /\ source[f] # f
      BY <2>1, LawfulChoice DEF IInv, Chosen
    <2>3. PICK s \in shares : s.transferTxid = Out(source[f]) /\ s.investorId = user[source[f]]
      BY <2>2, RecordedIsMade DEF IInv
    <2> DEFINE new == ShareOf(f)
    <2>4. /\ new.transferTxid = Out(f) /\ new.parentTxid = Out(source[f])
          /\ new.investorId = user[f]
          /\ new.transferTxid[1] = f /\ s.transferTxid[1] = source[f] /\ Out(f) # Out(source[f])
      BY <2>2, <2>3 DEF ShareOf, Out
    <2>5. s \in Leaves
      BY <2>1, <2>3, NoOtherChild DEF IInv
    <2>6. \A o : HasChild(o)' <=> HasChild(o) \/ o = Out(source[f])
      BY <1>3, <2>4 DEF HasChild
    <2>7. ~HasChild(Out(f))'
      BY <2>1, <2>4, <2>6, NoChildOfUnrecorded DEF IInv
    <2>8. \A r \in shares : r.transferTxid = Out(source[f]) <=> r = s
      BY <2>3 DEF IInv, Records
    <2>9. Leaves' = (Leaves \ {s}) \cup {new}
      BY <1>3, <2>4, <2>6, <2>7, <2>8
    <2>10. \A r \in shares : r.transferTxid = Out(r.transferTxid[1]) /\ r.transferTxid[1] # f
      BY <2>1 DEF IInv, TypeOK, RecordsType, Recorded, HasRecord, Out
    <2>11. \A r \in shares : DeedOfRecord(r) = DeedOfRecord(s) => r = s
      BY <2>3, <2>8, <2>10 DEF DeedOfRecord
    <2>12. \A r : DeedOfRecord(r)' = DeedOfRecord(r)
      BY DEF DeedOfRecord
    <2>13. RecordDeeds' = (RecordDeeds \ {DeedOfRecord(s)}) \cup {DeedOfRecord(new)}
      BY <1>0, <2>5, <2>9, <2>11, <2>12
    <2>14. DeedOfRecord(s) \in RecordDeeds /\ \A d \in RecordDeeds : d.title # f
      <3>1. \A r : DeedOfRecord(r).title = r.transferTxid[1]
        BY DEF DeedOfRecord
      <3> HIDE DEF DeedOfRecord
      <3> QED
        BY <1>0, <2>5, <2>10, <3>1
    <2>15. /\ DeedOfRecord(s).offered = (source[f] \in Listings)
           /\ DeedOfRecord(s).holder = user[source[f]]
           /\ DeedOfRecord(new) = [title |-> f, holder |-> user[f], offered |-> f \in Listings]
      BY <2>3, <2>4 DEF DeedOfRecord
    <2>16. CASE f \in Listings
      <3>1. source[f] \notin Listings /\ user[f] = user[source[f]]
        BY <2>1, <2>16, LawfulChoice DEF IInv, Spending
      <3>2. (f \in Listings) = TRUE
        BY <2>16
      <3>3. DeedOfRecord(new) = [title |-> f, holder |-> DeedOfRecord(s).holder, offered |-> TRUE]
        BY <2>15, <3>1, <3>2
      <3>4. OnRecord!Offer(DeedOfRecord(s), f)
        BY <2>13, <2>14, <2>15, <3>1, <3>3 DEF OnRecord!Offer, OnRecord!Replace
      <3> QED
        BY <2>1, <2>14, <3>4 DEF OnRecord!DNext
    <2>17. CASE f \notin Listings
      <3>1. source[f] \in Listings /\ user[f] \in Users
        BY <2>1, <2>17, LawfulChoice
      <3>2. (f \in Listings) = FALSE
        BY <2>17
      <3>3. DeedOfRecord(new) = [title |-> f, holder |-> user[f], offered |-> FALSE]
        BY <2>15, <3>2
      <3>4. OnRecord!Sell(DeedOfRecord(s), f, user[f])
        BY <2>13, <2>14, <2>15, <3>1, <3>3 DEF OnRecord!Sell, OnRecord!Replace
      <3> QED
        BY <2>1, <2>14, <3>1, <3>4 DEF OnRecord!DNext
    <2> QED
      BY <2>16, <2>17
  <1> QED
    BY <1>1, <1>2, <1>3 DEF Moved, DataStep, RecordStep

LEMMA InitDeeds == Init => OnChain!DInit /\ OnRecord!DInit
  <1> SUFFICES ASSUME Init PROVE OnChain!DInit /\ OnRecord!DInit
    OBVIOUS
  <1>1. IInv
    BY InitInvariant
  <1>2. \A h \in Held : h \in Txids /\ h \notin Listings /\ user[h] \in Users /\ h \notin Flows
    BY FlowsAssumption, Subsets DEF Init
  <1>3. made = Held
    BY DEF Init
  <1>4. \A h \in Held : (h \in Listings) = FALSE
    BY <1>2
  <1> DEFINE Fresh(h) == [title |-> h, holder |-> user[h], offered |-> FALSE]
  <1>5. \A h \in Held : Fresh(h) \in OnChain!Deed /\ Fresh(h) \in OnRecord!Deed
    BY <1>2 DEF OnChain!Deed, OnRecord!Deed
  <1>6. OnChain!DInit
    <2>1. ASSUME NEW d \in ChainDeeds PROVE \E h \in Held : d = Fresh(h)
      <3>1. PICK t \in made : d = [title |-> t, holder |-> user[t], offered |-> t \in Listings]
        BY DEF ChainDeeds
      <3> QED
        BY <1>3, <1>4, <3>1
    <2>2. \A d \in ChainDeeds : d \in OnChain!Deed /\ ~d.offered
      BY <1>5, <2>1
    <2>3. ASSUME NEW d1 \in ChainDeeds, NEW d2 \in ChainDeeds, d1.title = d2.title
          PROVE  d1 = d2
      <3>1. PICK g \in Held, h \in Held : d1 = Fresh(g) /\ d2 = Fresh(h)
        BY <2>1
      <3>2. d1.title = g /\ d2.title = h
        BY <3>1
      <3> QED
        BY <2>3, <3>1, <3>2
    <2> QED
      BY <2>2, <2>3 DEF OnChain!DInit
  <1>7. OnRecord!DInit
    <2>1. ASSUME NEW d \in RecordDeeds PROVE \E h \in Held : d = Fresh(h)
      <3>1. PICK s \in shares :
              d = [title |-> s.transferTxid[1], holder |-> s.investorId,
                   offered |-> s.transferTxid[1] \in Listings]
        BY DEF RecordDeeds
      <3>2. s.transferTxid[1] \in Held /\ s.investorId = user[s.transferTxid[1]]
        BY <1>1, <1>3 DEF IInv, Records
      <3> QED
        BY <1>4, <3>1, <3>2
    <2>2. \A d \in RecordDeeds : d \in OnRecord!Deed /\ ~d.offered
      BY <1>5, <2>1
    <2>3. ASSUME NEW d1 \in RecordDeeds, NEW d2 \in RecordDeeds, d1.title = d2.title
          PROVE  d1 = d2
      <3>1. PICK g \in Held, h \in Held : d1 = Fresh(g) /\ d2 = Fresh(h)
        BY <2>1
      <3>2. d1.title = g /\ d2.title = h
        BY <3>1
      <3> QED
        BY <2>3, <3>1, <3>2
    <2> QED
      BY <2>2, <2>3 DEF OnRecord!DInit
  <1> QED
    BY <1>6, <1>7

\* Publish is the only step that changes who holds what on the chain, and it
\* offers, withdraws or sells one deed.
THEOREM ChainImplementsDeeds == Spec => ChainKeepsDeeds
  BY InitDeeds, Invariant, ChainDeedStep, PTL DEF Spec, ChainKeepsDeeds, OnChain!DSpec

\* The same for RecordShare and the records, although the server's checks are
\* made before its lock is taken.
THEOREM RecordsImplementDeeds == Spec => RecordsKeepDeeds
  BY InitDeeds, Invariant, RecordDeedStep, PTL DEF Spec, RecordsKeepDeeds, OnRecord!DSpec

-----------------------------------------------------------------------------
(***************************************************************************)
(* Lineage: every recorded share descends from the mint.                   *)
(***************************************************************************)
Outpoints == (Txids \cup {Mint}) \X {0, 1}

\* In terms of the records alone, which a record below another one keeps.
Lineage == \A s \in shares : Descends(shares, Out(Mint), s.transferTxid, Outpoints)

LEMMA RecordsWellFormed ==
  ASSUME TypeOK, Records
  PROVE  /\ WellFormed(shares, Out(Mint))
         /\ \A s \in shares : s.parentTxid = <<s.parentTxid[1], s.parentTxid[2]>>
         /\ \A s \in shares : s.transferTxid \in Outpoints /\ s.parentTxid \in Outpoints
  <1>1. Out(Mint) = <<Out(Mint)[1], 0>>
    BY DEF Out
  <1>2. ASSUME NEW s \in shares
        PROVE  /\ s.transferTxid = <<s.transferTxid[1], 0>> /\ s.transferTxid # Out(Mint)
               /\ s.parentTxid = <<s.parentTxid[1], s.parentTxid[2]>>
               /\ s.transferTxid \in Outpoints /\ s.parentTxid \in Outpoints
    <2>1. s.transferTxid \in Txids \X {0} /\ s.parentTxid \in (Txids \cup {Mint}) \X {0, 1}
      BY DEF TypeOK, RecordsType
    <2>2. s.transferTxid[1] \in Txids /\ Out(Mint)[1] = Mint /\ Mint \notin Txids
      BY <2>1, FlowsAssumption DEF Out
    <2>3. s.transferTxid # Out(Mint)
      BY <2>2
    <2> QED
      BY <2>1, <2>3 DEF Outpoints
  <1>3. \A r, s \in shares : r.transferTxid = s.transferTxid => r = s
    BY DEF Records
  <1> QED
    BY <1>1, <1>2, <1>3 DEF WellFormed

\* The records of the primary sale were traced when they were written.
LEMMA LineageAtFirst == Init => Lineage
  <1> SUFFICES ASSUME Init PROVE Lineage
    OBVIOUS
  <1>1. TypeOK /\ Records
    BY InitInvariant DEF IInv
  <1>2. PICK parentOf \in [Held -> {Out(Mint)} \cup (Held \X {1})] :
          /\ shares = FirstShares(parentOf)
          /\ \A h \in Held : IsTraced(FirstShares(parentOf), Out(Mint), Out(h))
    BY DEF Init
  <1> DEFINE Share(h) == [investorId |-> user[h], parentTxid |-> parentOf[h], transferTxid |-> Out(h)]
  <1>3. shares = {Share(h) : h \in Held}
    BY <1>2 DEF FirstShares
  <1>4. IsFiniteSet(shares)
    <2>1. [h \in Held |-> Share(h)] \in Surjection(Held, {Share(h) : h \in Held})
      BY DEF Surjection
    <2>2. IsFiniteSet({Share(h) : h \in Held})
      BY <2>1, HoldingsAssumption, FS_Surjection
    <2> QED
      BY <1>3, <2>2
  <1>5. ASSUME NEW s \in shares
        PROVE  Descends(shares, Out(Mint), s.transferTxid, Outpoints)
    <2>1. PICK h \in Held : s = Share(h)
      BY <1>3
    <2>2. IsTraced(shares, Out(Mint), s.transferTxid)
      BY <1>2, <2>1
    <2>3. s.transferTxid = <<s.transferTxid[1], s.transferTxid[2]>>
      BY <2>1 DEF Out
    <2> QED
      BY <1>1, <1>4, <2>2, <2>3, RecordsWellFormed, TracedDescends
  <1> QED
    BY <1>5 DEF Lineage

\* RecordShare adds a record below one that is there.
LEMMA LineageStep == IInv /\ Lineage /\ [Next]_vars => Lineage'
  <1> SUFFICES ASSUME IInv, Lineage, [Next]_vars PROVE Lineage'
    OBVIOUS
  <1>1. RecordStep
    BY Steps DEF IInv, Moved, DataStep
  <1>2. CASE UNCHANGED shares
    BY <1>2 DEF Lineage
  <1>3. ASSUME NEW f \in Flows, server[f] = "record", shares' = shares \cup {ShareOf(f)}
        PROVE  Lineage'
    <2>1. ASSUME NEW s \in shares
          PROVE  Descends(shares', Out(Mint), s.transferTxid, Outpoints)
      BY <1>3, DescendsMonotone DEF Lineage
    <2>2. Recorded(source[f])
      BY <1>3, RecordingIsMade DEF IInv, Chosen
    <2>3. PICK r \in shares : r.transferTxid = Out(source[f])
      BY <2>2 DEF Recorded, HasRecord
    <2>4. /\ ShareOf(f) \in shares'
          /\ ShareOf(f).transferTxid = Out(f) /\ ShareOf(f).parentTxid = r.transferTxid
      BY <1>3, <2>3 DEF ShareOf
    <2>5. Descends(shares', Out(Mint), Out(f), Outpoints)
      <3> SUFFICES ASSUME NEW S \in SUBSET Outpoints, Out(f) \in S, Closed(shares', S)
                   PROVE  Out(Mint) \in S
        BY DEF Descends
      <3>1. r.transferTxid \in S
        BY <2>4 DEF Closed
      <3> QED
        BY <2>1, <3>1 DEF Descends
    <2>6. ASSUME NEW s \in shares' PROVE Descends(shares', Out(Mint), s.transferTxid, Outpoints)
      BY <1>3, <2>1, <2>4, <2>5
    <2> QED
      BY <2>6 DEF Lineage
  <1> QED
    BY <1>1, <1>2, <1>3 DEF RecordStep

\* Whatever is lost, refused or repeated, test-chain finds the mint behind
\* every recorded share (probes.ts:94, listings.ts:309).
THEOREM RecordsAlwaysTrace == Spec => []RecordsTrace
  <1>1. IInv /\ Lineage => RecordsTrace
    <2> SUFFICES ASSUME IInv, Lineage, NEW s \in shares
                 PROVE  IsTraced(shares, Out(Mint), s.transferTxid)
      BY DEF RecordsTrace
    <2>1. WellFormed(shares, Out(Mint))
      BY RecordsWellFormed DEF IInv
    <2>2. Visitable(shares, s.transferTxid) \subseteq Outpoints
      BY RecordsWellFormed DEF IInv, Visitable
    <2>3. Descends(shares, Out(Mint), s.transferTxid, Outpoints)
      BY DEF Lineage
    <2> QED
      BY <2>1, <2>2, <2>3, DescendsTraced
  <1> QED
    BY <1>1, Invariant, LineageAtFirst, LineageStep, PTL DEF Spec
-----------------------------------------------------------------------------
(***************************************************************************)
(* The losers: why a purchase is turned away.                              *)
(***************************************************************************)
Unlocked == {"idle", "check", "lock"}

\* A lock is held in the name of its user by a flow that has acquired it,
\* also when that flow has died.
Holders ==
  \A u \in Users : locks[u] # Nobody =>
    locks[u] \in Flows /\ user[locks[u]] = u /\ server[locks[u]] \notin Unlocked

LockStep ==
  \A u \in Users :
    \/ locks'[u] \in {locks[u], Nobody}
    \/ \E f \in Flows : /\ server[f] = "lock" /\ server'[f] \notin Unlocked
                        /\ user[f] = u /\ locks'[u] = f

LEMMA LockSteps ==
  ASSUME TypeOK, Control, [Next]_vars
  PROVE  LockStep
  <1> USE DEF chain, database, flow, storage, bounds
  <1>1. ASSUME NEW f \in Flows, AcquireLock(f) PROVE LockStep
    <2>1. user[f] \in Users /\ server \in [Flows -> ServerLabels] /\ locks \in [Users -> Flows \cup {Nobody}]
      BY <1>1 DEF AcquireLock, Control, Posted, TypeOK, FlowType, HalvesType, RecordsType
    <2>2. server[f] = "lock"
      BY <1>1 DEF AcquireLock
    <2>3. CASE locks[user[f]] = Nobody
      <3>1. locks' = [locks EXCEPT ![user[f]] = f]
        BY <1>1, <2>3 DEF AcquireLock
      <3>2. server'[f] \notin Unlocked
        BY <1>1, <2>1, <2>3 DEF AcquireLock, Continue, ServerGoto, Unlocked
      <3>3. locks'[user[f]] = f /\ \A u \in Users \ {user[f]} : locks'[u] = locks[u]
        BY <2>1, <3>1
      <3> QED
        BY <2>2, <3>2, <3>3 DEF LockStep
    <2>4. CASE locks[user[f]] # Nobody
      BY <1>1, <2>4 DEF AcquireLock, LockStep
    <2> QED
      BY <2>3, <2>4
  <1>2. ASSUME NEW f \in Flows, ReleaseLock(f) PROVE LockStep
    BY <1>2 DEF ReleaseLock, LockStep
  <1>3. ASSUME NEW f \in Flows, Choose(f) \/ ClientStep(f) \/ ClientCallFails(f) \/ CloseTab(f)
        PROVE  UNCHANGED locks
    <2>1. Choose(f) => UNCHANGED locks
      BY DEF Choose, ChooseShare, ChooseOwnListing, ChooseListing
    <2>2. ClientStep(f) => UNCHANGED locks
      BY DEF ClientStep, LookupSource, SignListing, PushListing, SignCancel, PushCancel, Pay,
             SignRefused, Hear
    <2>3. ClientCallFails(f) \/ CloseTab(f) => UNCHANGED locks
      BY DEF ClientCallFails, CloseTab
    <2> QED
      BY <1>3, <2>1, <2>2, <2>3
  <1>4. ASSUME NEW f \in Flows, ServerStep(f) \/ ServerCallFails(f), ~AcquireLock(f), ~ReleaseLock(f)
        PROVE  UNCHANGED locks
    <2>1. Check(f) \/ FetchSource(f) \/ SignTransfer(f) \/ SignTransferRefused(f) => UNCHANGED locks
      BY DEF Check, FetchSource, SignTransfer, SignTransferRefused
    <2>2. RecordShare(f) \/ InsertItem(f) \/ BackUpBeef(f) \/ DropBeef(f) => UNCHANGED locks
      BY DEF RecordShare, InsertItem, BackUpBeef, DropBeef
    <2>3. RemoveItem(f) \/ MarkSold(f) \/ PushToOverlay(f) \/ ServerCallFails(f) => UNCHANGED locks
      BY DEF RemoveItem, MarkSold, PushToOverlay, ServerCallFails
    <2> QED
      BY <1>4, <2>1, <2>2, <2>3 DEF ServerStep
  <1>5. ServerCrash \/ UNCHANGED vars => UNCHANGED locks
    BY DEF ServerCrash, vars
  <1>6. UNCHANGED locks => LockStep
    BY DEF LockStep
  <1> QED
    BY <1>1, <1>2, <1>3, <1>4, <1>5, <1>6 DEF Next

\* A server half that has been past the lock does not come back to it.
LEMMA UnlockedBefore ==
  ASSUME Control, Moved, NEW f \in Flows, server'[f] \in Unlocked
  PROVE  server[f] \in Unlocked
  <1> USE DEF Control, Posted, Unlocked
  <1>1. CASE Rests(f) \/ Begins(f) \/ Goes(f)
    BY <1>1 DEF Rests, Begins, Goes
  <1>2. CASE Posts(f)
    BY <1>2 DEF Posts
  <1>3. CASE Serves(f)
    BY <1>3 DEF Serves
  <1>4. CASE Writes(f)
    BY <1>4 DEF Writes
  <1> QED
    BY <1>1, <1>2, <1>3, <1>4 DEF Moved, FlowStep

LEMMA HoldersKept == TypeOK /\ Control /\ Holders /\ Moved /\ LockStep => Holders'
  <1> SUFFICES ASSUME TypeOK, Control, Holders, Moved, LockStep,
                      NEW u \in Users, locks'[u] # Nobody
               PROVE  /\ locks'[u] \in Flows /\ user'[locks'[u]] = u
                      /\ server'[locks'[u]] \notin Unlocked
    BY DEF Holders
  <1>1. ASSUME NEW f \in Flows, server[f] # "idle" PROVE user'[f] = user[f]
    BY <1>1, BegunKeeps DEF Control, Posted, Keeps
  <1>2. CASE locks'[u] = locks[u]
    <2>1. locks[u] \in Flows /\ user[locks[u]] = u /\ server[locks[u]] \notin Unlocked
      BY <1>2 DEF Holders
    <2>2. server[locks[u]] # "idle"
      BY <2>1 DEF Unlocked
    <2> QED
      BY <1>1, <1>2, <2>1, <2>2, UnlockedBefore
  <1>3. CASE locks'[u] # locks[u]
    <2>1. PICK f \in Flows : /\ server[f] = "lock" /\ server'[f] \notin Unlocked
                             /\ user[f] = u /\ locks'[u] = f
      BY <1>3 DEF LockStep
    <2> QED
      BY <1>1, <2>1
  <1> QED
    BY <1>2, <1>3

\* What a purchase is for has been on offer.
LEMMA BoughtItem ==
  ASSUME TypeOK, Control, Chosen, NEW p \in Purchases, server[p] # "idle"
  PROVE  /\ p \in Flows /\ client[p] # "idle" /\ user[p] \in Users
         /\ source[p] \in Listings /\ items[source[p]] \in {"listed", "sold", "removed"}
  <1>1. p \in Flows /\ p \notin Listings /\ client[p] # "idle"
    BY Subsets, KindsDiffer DEF Control, Posted
  <1>2. user[p] \in Users /\ source[p] \in Listings /\ items[source[p]] # "none"
    BY <1>1 DEF TypeOK, FlowType, Chosen
  <1> QED
    BY <1>1, <1>2 DEF TypeOK, RecordsType

LEMMA RefusedPurchase ==
  ASSUME TypeOK, Control, Made, Chosen, Items, NEW p \in Purchases,
         server[p] = "check", ~MayProceed(p)
  PROVE  spentBy[source[p]] \notin {Nobody, p}
  <1>1. p \in Flows /\ source[p] \in Listings /\ items[source[p]] \in {"listed", "sold", "removed"}
    BY BoughtItem
  <1>2. p \notin Listings /\ p \notin Cancels
    BY <1>1, KindsDiffer
  <1>3. items[source[p]] = "removed"
    BY <1>1, <1>2 DEF MayProceed, MayBuy
  <1>4. spentBy[source[p]] \in Cancels
    BY <1>1, <1>3 DEF Items
  <1> QED
    BY <1>2, <1>4, NobodyIsNoFlow, Subsets

LEMMA LostPurchase ==
  ASSUME TypeOK, Control, Made, Chosen, Spending, Records, NEW p \in Purchases,
         server[p] = "sign", ~Unspent(source[p])
  PROVE  spentBy[source[p]] \notin {Nobody, p}
  <1>1. p \in Flows /\ client[p] # "idle"
    BY BoughtItem
  <1>2. source[p] \in made \cap Txids
    BY <1>1, SourceOf
  <1>3. spentBy[source[p]] # Nobody
    BY <1>2 DEF Unspent
  <1>4. spentBy[source[p]] \in made /\ p \notin made
    BY <1>1, <1>2, <1>3 DEF Spending, Made, Early
  <1> QED
    BY <1>3, <1>4

LEMMA ConflictPurchase ==
  ASSUME TypeOK, Control, Chosen, Holders, NEW p \in Purchases,
         server[p] = "lock", locks[user[p]] # Nobody
  PROVE  \E f \in Flows \ {p} : user[f] = user[p] /\ server[f] # "idle"
  <1>1. user[p] \in Users
    BY BoughtItem
  <1>2. /\ locks[user[p]] \in Flows /\ user[locks[user[p]]] = user[p]
        /\ server[locks[user[p]]] \notin Unlocked
    BY <1>1 DEF Holders
  <1> QED
    BY <1>2 DEF Unlocked

LEMMA PurchaseResolves ==
  ASSUME TypeOK, Control, Chosen, Items, NEW p \in Purchases, server[p] = "source"
  PROVE  Resolvable(p)
  BY BoughtItem DEF Items, Resolvable

\* The property itself, with the locks, is kept by every step.
LEMMA LosersKept ==
  IInv /\ Holders /\ FailedBuyersLostTheRace /\ [Next]_vars => FailedBuyersLostTheRace'
  <1> SUFFICES ASSUME IInv, Holders, FailedBuyersLostTheRace, [Next]_vars, NEW p \in Purchases
               PROVE  /\ outcome'[p] \in {"refused", "lost"} => spentBy'[source'[p]] \notin {Nobody, p}
                      /\ outcome'[p] = "conflict" =>
                           \E f \in Flows \ {p} : user'[f] = user'[p] /\ server'[f] # "idle"
                      /\ outcome'[p] # "unresolved"
                      /\ outcome'[p] = "error" => faults' # 0
    BY DEF FailedBuyersLostTheRace
  <1> USE DEF IInv
  <1>1. Moved /\ p \in Flows
    BY Steps, Subsets
  <1>2. faults # 0 => faults' # 0
    BY <1>1 DEF Moved, DataStep, StorageStep
  <1>3. ASSUME NEW f \in Flows, server[f] # "idle"
        PROVE  server'[f] # "idle" /\ user'[f] = user[f] /\ source'[f] = source[f]
    BY <1>1, <1>3, BegunKeeps, ServerForward DEF Control, Posted, Keeps
  <1>4. CASE server[p] = "idle"
    <2>1. outcome[p] = "none"
      BY <1>1, <1>4 DEF Control, Ended
    <2>2. outcome'[p] = outcome[p]
      BY <1>1, <1>4 DEF Moved, FlowStep, Rests, Begins, Goes, Posts, Serves, Writes, Unanswered,
                        ServerActive
    <2> QED
      BY <2>1, <2>2
  <1>5. CASE server[p] # "idle"
    <2>1. source[p] \in Listings /\ source[p] \in Txids
      BY <1>5, BoughtItem, Subsets
    <2>2. ASSUME spentBy[source[p]] \notin {Nobody, p}
          PROVE  spentBy'[source'[p]] \notin {Nobody, p}
      BY <1>1, <1>3, <1>5, <2>1, <2>2, SpentStays
    <2>3. ASSUME \E f \in Flows \ {p} : user[f] = user[p] /\ server[f] # "idle"
          PROVE  \E f \in Flows \ {p} : user'[f] = user'[p] /\ server'[f] # "idle"
      BY <1>1, <1>3, <1>5, <2>3
    <2>4. CASE outcome'[p] = outcome[p]
      BY <1>2, <2>2, <2>3, <2>4 DEF FailedBuyersLostTheRace
    <2>5. CASE outcome'[p] # outcome[p] /\ Serves(p)
      <3> USE DEF Answers, Unanswered, Throws
      <3>1. outcome'[p] = "refused" => server[p] = "check" /\ ~MayProceed(p)
        BY <2>5 DEF Serves
      <3>2. outcome'[p] = "lost" => server[p] = "sign" /\ ~Unspent(source[p])
        BY <2>5 DEF Serves
      <3>3. outcome'[p] = "conflict" => server[p] = "lock" /\ locks[user[p]] # Nobody
        BY <2>5 DEF Serves
      <3>4. outcome'[p] = "unresolved" => server[p] = "source" /\ ~Resolvable(p)
        BY <2>5 DEF Serves
      <3>5. outcome'[p] = "error" => faults' # 0
        BY <2>5, <1>1, BoughtIsListed DEF Serves
      <3> QED
        BY <2>2, <2>3, <3>1, <3>2, <3>3, <3>4, <3>5, RefusedPurchase, LostPurchase,
           ConflictPurchase, PurchaseResolves
    <2>6. CASE outcome'[p] # outcome[p] /\ Writes(p)
      BY <2>6 DEF Writes, Answers, Unanswered, Throws
    <2> QED
      BY <1>1, <2>4, <2>5, <2>6 DEF Moved, FlowStep, Rests, Begins, Goes, Posts, Unanswered
  <1> QED
    BY <1>4, <1>5

\* The item, the lock, the source and the chain turn a purchase away only
\* for what another flow has done; otherwise a call has failed.
THEOREM LosersLostTheRace == Spec => []FailedBuyersLostTheRace
  <1>1. Init => Holders /\ FailedBuyersLostTheRace
    BY Subsets DEF Init, Holders, FailedBuyersLostTheRace
  <1>2. IInv /\ Holders /\ [Next]_vars => Holders'
    BY Steps, LockSteps, HoldersKept DEF IInv
  <1> QED
    BY <1>1, <1>2, Invariant, LosersKept, PTL DEF Spec
=============================================================================
