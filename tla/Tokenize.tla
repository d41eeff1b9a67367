------------------------------ MODULE Tokenize ------------------------------
(***************************************************************************)
(* server/routes/tokenize.ts and the administrator's half of it in         *)
(* admin.tsx: how a property comes to be on sale.                          *)
(*                                                                         *)
(* A flow is one click on Submit.  The browser saves a nonce, pays the     *)
(* prefund from the administrator's wallet and posts the form; the server  *)
(* makes a property token and the mint inside one enqueued action, and     *)
(* only then inserts the document.  Three things must agree that are not   *)
(* changed together: the chain, the database and the browser's storage.    *)
(*                                                                         *)
(* The transactions of a flow are <<kind, f>>: its payment, its property   *)
(* token and its mint, which spends the payment.  All flows are clicked in *)
(* one browser, so they share its local storage.                           *)
(***************************************************************************)
EXTENDS Integers, Sequences, FiniteSets

CONSTANTS
  Flows,              \* clicks on Submit
  Forms,              \* what the administrator may have filled in
  RouteMaxInvestors,  \* the route's limit for `investors`
  MaxInvestors,       \* the schema's maximum for `investors`
  MaxFeatures,        \* the schema's maxItems for description.features
  MaxFaults,          \* bound: calls that fail or whose reply is lost
  MaxCrashes          \* bound: server crashes and closed browser tabs

ASSUME FormsAssumption ==
  Forms \subseteq [percentToSell : Nat, investors : Nat, features : Nat]
ASSUME LimitsAssumption ==
  RouteMaxInvestors \in Nat /\ MaxInvestors \in Nat /\ MaxFeatures \in Nat
ASSUME BoundsAssumption == MaxFaults \in Nat /\ MaxCrashes \in Nat

Transactions == {"payment", "property", "mint"} \X Flows

VARIABLES
  form,           \* form[f]: the payload of the click
  client, server, \* where the two halves of a flow are
  answer,         \* answer[f]: the server's response
  pending,        \* pending[f]: f's record in pendingKeyMaterial
  lost,           \* history: nonces that storage refused or dropped
  published,      \* the transactions the chain has accepted
  overlay,        \* the mints the overlay can return
  queue,          \* wallet actions enqueued and not settled, first running
  minted,         \* the flows whose variable `minted` is set
  pushing,        \* the flows whose overlay push is under way
  pushes,         \* history: pushes[f], how often f's mint was pushed
  properties,     \* the property documents
  descriptions,   \* the flows whose description document exists
  faults, crashes

storage == <<pending, lost>>
replies == <<answer, minted, pushing, pushes>>
database == <<properties, descriptions>>
bounds == <<faults, crashes>>

vars == <<form, client, server, replies, storage, published, overlay, queue, database, bounds>>

Init ==
  /\ form \in [Flows -> Forms]
  /\ client = [f \in Flows |-> "idle"]
  /\ server = [f \in Flows |-> "idle"]
  /\ answer = [f \in Flows |-> "none"]
  /\ pending = [f \in Flows |-> "absent"]
  /\ lost = {}
  /\ published = {}
  /\ overlay = {}
  /\ queue = <<>>
  /\ minted = {}
  /\ pushing = {}
  /\ pushes = [f \in Flows |-> 0]
  /\ properties = {}
  /\ descriptions = {}
  /\ faults = 0
  /\ crashes = 0

Fault == faults < MaxFaults /\ faults' = faults + 1 /\ UNCHANGED crashes

ClientGoto(f, label) == client' = [client EXCEPT ![f] = label]

ServerGoto(f, label) == server' = [server EXCEPT ![f] = label]

Paid(f) == <<"payment", f>> \in published

Minted(f) == <<"mint", f>> \in published
-----------------------------------------------------------------------------
(***************************************************************************)
(* pendingKeyMaterial.ts.  Every operation reads the whole entry, changes  *)
(* it and writes it back; a read that fails yields the empty entry.        *)
(***************************************************************************)
HasRecord(f) == pending[f] # "absent"

\* savePendingKeyMaterial never throws: a storage that refuses keeps
\* nothing, and after an unreadable entry only the new record is written.
SavePending(f) ==
  \/ pending' = [pending EXCEPT ![f] = "saved"] /\ UNCHANGED <<lost, bounds>>
  \/ Fault /\ lost' = lost \cup {f} /\ UNCHANGED pending
  \/ /\ Fault
     /\ pending' = [g \in Flows |-> IF g = f THEN "saved" ELSE "absent"]
     /\ lost' = lost \cup {g \in Flows \ {f} : HasRecord(g)}

\* attachTxid: no effect if the record is gone.
Attach(f) ==
  /\ pending' = IF HasRecord(f) THEN [pending EXCEPT ![f] = "attached"] ELSE pending
  /\ UNCHANGED lost

\* clearPendingKeyMaterial.
ClearPending(f) == pending' = [pending EXCEPT ![f] = "absent"] /\ UNCHANGED lost
-----------------------------------------------------------------------------
(***************************************************************************)
(* The client: handleSubmit.                                               *)
(***************************************************************************)

\* ensureWallet and ensureSessionAlive: a locked wallet, a dead session or
\* a check that fails ends the flow before anything is spent.  Otherwise
\* the nonce is generated and saved, and the wallet is called.
Click(f) ==
  /\ client[f] = "idle"
  /\ \/ ClientGoto(f, "stopped") /\ UNCHANGED <<storage, bounds>>
     \/ ClientGoto(f, "pay") /\ SavePending(f)
  /\ UNCHANGED <<form, server, replies, published, overlay, queue, database>>

\* createAction of the prefund: it is on chain when the call returns, or
\* when its reply is lost.
Pay(f) ==
  /\ client[f] = "pay"
  /\ published' = published \cup {<<"payment", f>>}
  /\ \/ ClientGoto(f, "waiting") /\ ServerGoto(f, "arrive") /\ Attach(f) /\ UNCHANGED bounds
     \/ Fault /\ ClientGoto(f, "waiting") /\ ServerGoto(f, "arrive") /\ UNCHANGED storage
     \/ Fault /\ ClientGoto(f, "failed") /\ UNCHANGED <<server, storage>>
  /\ UNCHANGED <<form, replies, overlay, queue, database>>

\* Mutant of Hear: the nonce is dropped whatever the answer.
HearAndForget(f) ==
  /\ client[f] = "waiting" /\ (answer[f] # "none" \/ server[f] = "dead")
  /\ ClientGoto(f, IF answer[f] = "ok" THEN "done" ELSE "failed")
  /\ ClearPending(f)
  /\ UNCHANGED <<form, server, replies, published, overlay, queue, database, bounds>>

\* The answer, or a broken connection.  Only success clears the nonce;
\* anything else tells the administrator that recovery data was kept.
Hear(f) ==
  /\ client[f] = "waiting" /\ (answer[f] # "none" \/ server[f] = "dead")
  /\ IF answer[f] = "ok"
     THEN /\ ClientGoto(f, "done")
          /\ \/ ClearPending(f) /\ UNCHANGED bounds
             \/ Fault /\ UNCHANGED storage
     ELSE ClientGoto(f, "failed") /\ UNCHANGED <<storage, bounds>>
  /\ UNCHANGED <<form, server, replies, published, overlay, queue, database>>

\* The wallet declines to pay, or the answer is lost on its way.
ClientCallFails(f) ==
  /\ Fault
  /\ client[f] \in {"pay", "waiting"}
  /\ ClientGoto(f, "failed")
  /\ UNCHANGED <<form, server, replies, storage, published, overlay, queue, database>>
-----------------------------------------------------------------------------
(***************************************************************************)
(* The server: POST /api/tokenize/create-property.                         *)
(***************************************************************************)
Respond(f, code) == answer' = [answer EXCEPT ![f] = code]

Continue(f, label) == ServerGoto(f, label) /\ UNCHANGED <<replies, bounds>>

\* An early return.
Refuse(f, code) ==
  /\ ServerGoto(f, "done")
  /\ Respond(f, code)
  /\ UNCHANGED <<minted, pushing, pushes>>

StartPush(f) ==
  /\ pushing' = pushing \cup {f}
  /\ pushes' = [pushes EXCEPT ![f] = @ + 1]

\* Mutant of Abort: the catch block does not push.
AbortUnpushed(f) ==
  ServerGoto(f, "done") /\ Respond(f, "error") /\ UNCHANGED <<minted, pushing, pushes>>

\* The catch block: 500, and a push if `minted` is set.
Abort(f) ==
  /\ ServerGoto(f, "done")
  /\ Respond(f, "error")
  /\ IF f \in minted THEN StartPush(f) ELSE UNCHANGED <<pushing, pushes>>
  /\ UNCHANGED minted

\* requireSession, requireAuthProof and the comparison of seller and user:
\* the session may have died since the preflight.
Admit(f) ==
  /\ server[f] = "arrive"
  /\ \/ Continue(f, "limits")
     \/ Fault /\ Refuse(f, "unauthorized")
  /\ UNCHANGED <<form, client, storage, published, overlay, queue, database>>

\* "Enforce server-side limits": of them all, the number of investors.
WithinLimits(f) == form[f].investors <= RouteMaxInvestors

\* The limits, and then connectToMongo, getWalletQueue and the enqueue.
CheckLimits(f) ==
  /\ server[f] = "limits"
  /\ IF WithinLimits(f)
     THEN Continue(f, "property") /\ queue' = Append(queue, f)
     ELSE Refuse(f, "invalid") /\ UNCHANGED <<queue, bounds>>
  /\ UNCHANGED <<form, client, storage, published, overlay, database>>

Running(f) == queue # <<>> /\ Head(queue) = f

\* Mutant of Reject: a rejected action stays at the head of the queue.
RejectAndBlock(f) == Abort(f) /\ UNCHANGED queue

\* The enqueued action rejects, and `minted` stays undefined.
Reject(f) == queue' = Tail(queue) /\ Abort(f)

CanMint(f) == form[f].percentToSell > 0 /\ form[f].percentToSell <= 100

\* The first createAction puts the property token on chain; the percentage
\* is looked at afterwards.
CreateProperty(f) ==
  /\ server[f] = "property" /\ Running(f)
  /\ published' = published \cup {<<"property", f>>}
  /\ \/ IF CanMint(f) THEN Continue(f, "mint") /\ UNCHANGED queue
                      ELSE Reject(f) /\ UNCHANGED bounds
     \/ Fault /\ Reject(f)
  /\ UNCHANGED <<form, client, storage, overlay, database>>

\* The second createAction and signAction spend the payment for the mint.
SignMint(f) ==
  /\ server[f] = "mint" /\ Running(f)
  /\ Paid(f) /\ ~Minted(f)
  /\ published' = published \cup {<<"mint", f>>}
  /\ \/ Continue(f, "internalize") /\ UNCHANGED queue
     \/ Fault /\ Reject(f)
  /\ UNCHANGED <<form, client, storage, overlay, database>>

\* internalizeToBasket, the end of the action: `minted` is set.
Internalize(f) ==
  /\ server[f] = "internalize" /\ Running(f)
  /\ queue' = Tail(queue)
  /\ minted' = minted \cup {f}
  /\ ServerGoto(f, "document")
  /\ UNCHANGED <<form, client, answer, pushing, pushes, storage, published, overlay, database, bounds>>

\* propertiesValidator.
ValidatorAccepts(f) == form[f].investors <= MaxInvestors

\* The document: the mint holds the tokens in output 0, the pool in 1.
PropertyOf(f) ==
  [currentOutpoint |-> <<f, 0>>, paymentTxid |-> <<f, 1>>,
   percentToSell |-> form[f].percentToSell, remainingPercent |-> form[f].percentToSell,
   investors |-> form[f].investors]

\* Mutant of InsertProperty: the error of the insert is swallowed.
InsertPropertySwallowed(f) ==
  /\ server[f] = "document"
  /\ properties' = IF ValidatorAccepts(f) THEN properties \cup {PropertyOf(f)} ELSE properties
  /\ Continue(f, "description")
  /\ UNCHANGED <<form, client, storage, published, overlay, queue, descriptions>>

\* insertOne of the property: the schema may reject it, and its reply may
\* be lost.  An unacknowledged insert answers and pushes as the catch does.
InsertProperty(f) ==
  /\ server[f] = "document"
  /\ IF ValidatorAccepts(f)
     THEN /\ properties' = properties \cup {PropertyOf(f)}
          /\ Continue(f, "description") \/ (Fault /\ Abort(f))
     ELSE Abort(f) /\ UNCHANGED <<properties, bounds>>
  /\ UNCHANGED <<form, client, storage, published, overlay, queue, descriptions>>

\* propertyDescriptionsValidator.
DescriptionAccepted(f) == form[f].features <= MaxFeatures

\* res.json, and the push that follows it without an await.
Succeed(f) ==
  /\ ServerGoto(f, "done")
  /\ Respond(f, "ok")
  /\ StartPush(f)
  /\ UNCHANGED minted

\* insertOne of the description: its failure is a warning only.
InsertDescription(f) ==
  /\ server[f] = "description"
  /\ Succeed(f)
  /\ \/ /\ descriptions' = IF DescriptionAccepted(f) THEN descriptions \cup {f} ELSE descriptions
        /\ UNCHANGED bounds
     \/ Fault /\ UNCHANGED descriptions
  /\ UNCHANGED <<form, client, storage, published, overlay, queue, properties>>

\* pushToOverlay: after the answer, and in nobody's way.
PushToOverlay(f) ==
  /\ f \in pushing
  /\ pushing' = pushing \ {f}
  /\ \/ overlay' = overlay \cup {f} /\ UNCHANGED bounds
     \/ Fault /\ UNCHANGED overlay
  /\ UNCHANGED <<form, client, server, answer, minted, pushes, storage, published, queue, database>>

\* A call throws and has changed nothing.
ServerCallFails(f) ==
  /\ Fault
  /\ \/ server[f] \in {"limits", "document"} /\ Abort(f) /\ UNCHANGED queue
     \/ server[f] \in {"property", "mint", "internalize"} /\ Running(f) /\ Reject(f)
  /\ UNCHANGED <<form, client, storage, published, overlay, database>>
-----------------------------------------------------------------------------
ServerActive(f) == server[f] \notin {"idle", "done", "dead"}

ClientActive(f) == client[f] \in {"pay", "waiting"}

\* The server process dies and is started again.
ServerCrash ==
  /\ crashes < MaxCrashes
  /\ crashes' = crashes + 1
  /\ server' = [f \in Flows |-> IF ServerActive(f) THEN "dead" ELSE server[f]]
  /\ queue' = <<>>
  /\ pushing' = {}
  /\ UNCHANGED <<form, client, answer, minted, pushes, storage, published, overlay, database, faults>>

\* The administrator closes the tab.
CloseTab(f) ==
  /\ crashes < MaxCrashes
  /\ crashes' = crashes + 1
  /\ ClientActive(f)
  /\ ClientGoto(f, "closed")
  /\ UNCHANGED <<form, server, replies, storage, published, overlay, queue, database, faults>>

ClientStep(f) == Pay(f) \/ Hear(f)

ServerStep(f) ==
  \/ Admit(f) \/ CheckLimits(f)
  \/ CreateProperty(f) \/ SignMint(f) \/ Internalize(f)
  \/ InsertProperty(f) \/ InsertDescription(f)

Next ==
  \/ \E f \in Flows :
       \/ Click(f) \/ ClientStep(f) \/ ServerStep(f) \/ PushToOverlay(f)
       \/ ClientCallFails(f) \/ ServerCallFails(f) \/ CloseTab(f)
  \/ ServerCrash

Spec == Init /\ [][Next]_vars

\* The event loops of the browser and of the server resume what has returned;
\* no administrator is obliged to click.
FairSpec ==
  Spec /\ \A f \in Flows : WF_vars(ClientStep(f)) /\ WF_vars(ServerStep(f)) /\ WF_vars(PushToOverlay(f))
-----------------------------------------------------------------------------
ClientLabels == {"idle", "stopped", "pay", "waiting", "done", "failed", "closed"}

ServerLabels == {"idle", "arrive", "limits", "property", "mint", "internalize", "document",
                 "description", "done", "dead"}

Codes == {"none", "ok", "unauthorized", "invalid", "error"}

Documents == [currentOutpoint : Flows \X {0}, paymentTxid : Flows \X {1},
              percentToSell : Nat, remainingPercent : Nat, investors : Nat]

\* Every variable has its type.
TypeOK ==
  /\ form \in [Flows -> Forms]
  /\ client \in [Flows -> ClientLabels] /\ server \in [Flows -> ServerLabels]
  /\ answer \in [Flows -> Codes]
  /\ pending \in [Flows -> {"absent", "saved", "attached"}] /\ lost \subseteq Flows
  /\ published \subseteq Transactions /\ overlay \subseteq Flows
  /\ queue \in Seq(Flows)
  /\ minted \subseteq Flows /\ pushing \subseteq Flows /\ pushes \in [Flows -> Nat]
  /\ properties \subseteq Documents /\ descriptions \subseteq Flows
  /\ faults \in Nat /\ crashes \in Nat

Undisturbed == faults = 0 /\ crashes = 0

Recorded(f) == PropertyOf(f) \in properties

\* pendingKeyMaterial.ts:3: "lose the nonce after broadcast and the output
\* is unspendable".  As long as a prefund is on chain and no mint has spent
\* it, its nonce is in the browser's storage, with its transaction once the
\* form was posted: no failure, crash, refusal or closed tab loses it unless
\* storage did.
PaymentNonceKept ==
  \A f \in Flows :
    Paid(f) /\ ~Minted(f) =>
      /\ HasRecord(f) \/ f \in lost
      /\ Undisturbed => pending[f] = "attached"

\* What the primary sale starts from.  A document stands for a mint on
\* chain with as many tokens as it says are left, and the browser was told
\* of success only if the document is there.
DocumentIsSellable ==
  /\ \A p \in properties :
       /\ Minted(p.currentOutpoint[1]) /\ p.paymentTxid[1] = p.currentOutpoint[1]
       /\ p.remainingPercent = p.percentToSell /\ p.percentToSell \in 1 .. 100
       /\ p.investors <= MaxInvestors
  /\ \A f \in Flows : answer[f] = "ok" \/ client[f] = "done" => Recorded(f)

\* A mint without a document is one whose handler is on its way to the
\* insert, has died there, or has told the administrator of an error.
UnrecordedIsExplained ==
  \A f \in Flows :
    Minted(f) /\ ~Recorded(f) =>
      server[f] \in {"internalize", "document", "dead"} \/ answer[f] = "error"

\* tokenize.ts:497: "Guaranteed not to double-push".  A handler that has got
\* past the wallet queue pushes its mint exactly once, whichever of the
\* three ways it ends, and never before it has answered.
PushedOnce ==
  \A f \in Flows :
    /\ pushes[f] <= 1
    /\ pushes[f] = 1 => f \in minted /\ Minted(f) /\ answer[f] # "none"
    /\ f \in minted /\ server[f] = "done" => pushes[f] = 1

\* The mint of a handler that got past the queue comes to be indexed, unless
\* something failed: without it no purchase finds the source of its fee.
MintIsIndexed ==
  \A f \in Flows : f \in minted ~> f \in overlay \/ ~Undisturbed

\* An administrator who has paid hears of the outcome, whatever fails.
EveryAdminHears == \A f \in Flows : client[f] = "waiting" ~> client[f] # "waiting"
-----------------------------------------------------------------------------
(***************************************************************************)
(* What the documentation says and the code does not do.                   *)
(***************************************************************************)

\* tokenize.ts:54: "Enforce server-side limits (must match validators.ts)".
\* When nothing failed, a form that passed the limits and was minted has its
\* document once the handler is done.
LimitsMatchValidator ==
  Undisturbed =>
    \A f \in Flows : Minted(f) /\ server[f] = "done" => Recorded(f)
=============================================================================
