----------------------------- MODULE TokenizeProofs -------------------------
(***************************************************************************)
(* Proofs about Tokenize for any number of submissions, any forms and      *)
(* limits, and any number of faults and crashes.                           *)
(***************************************************************************)
EXTENDS Tokenize, SequenceTheorems, TLAPS

\* What the browser has kept.  Nothing is paid before the nonce was saved,
\* and only storage or a mint can make it superfluous.
Kept ==
  /\ faults = 0 => lost = {}
  /\ \A f \in Flows :
       /\ Paid(f) => client[f] \notin {"idle", "stopped", "pay"}
       /\ client[f] \notin {"idle", "stopped"} => HasRecord(f) \/ f \in lost \/ Minted(f)
       /\ Undisturbed /\ Paid(f) /\ ~Minted(f) => pending[f] = "attached"

\* How far a handler can be, given the browser, the chain and `minted`.
HandledAt(f) ==
  /\ client[f] \in {"idle", "stopped", "pay"} => server[f] = "idle"
  /\ server[f] \in {"idle", "arrive", "limits", "property", "mint"} => ~Minted(f)
  /\ server[f] \in {"mint", "internalize", "document", "description"} => CanMint(f)
  /\ server[f] \in {"internalize", "document", "description"} => Minted(f)
  /\ server[f] \in {"document", "description"} => f \in minted
  /\ f \in minted =>
       Minted(f) /\ CanMint(f) /\ server[f] \in {"document", "description", "done", "dead"}

\* What a handler has answered, and whether it has pushed, once it is done.
AnsweredAt(f) ==
  /\ answer[f] # "none" <=> server[f] = "done"
  /\ server[f] = "description" \/ answer[f] = "ok" => Recorded(f)
  /\ server[f] = "done" /\ Minted(f) /\ ~Recorded(f) => answer[f] = "error"
  /\ server[f] = "done" /\ f \in minted => pushes[f] = 1
  /\ ~(server[f] = "done" /\ f \in minted) => pushes[f] = 0
  /\ client[f] = "done" => answer[f] = "ok"

Controlled == \A f \in Flows : HandledAt(f) /\ AnsweredAt(f)

\* Each document was inserted for a mint that is on chain.
Documented ==
  \A p \in properties :
    \E f \in Flows : p = PropertyOf(f) /\ Minted(f) /\ CanMint(f) /\ ValidatorAccepts(f)

IInv == TypeOK /\ Kept /\ Controlled /\ Documented
-----------------------------------------------------------------------------
LEMMA InitIInv == ASSUME Init PROVE IInv
PROOF BY BoundsAssumption, FormsAssumption
      DEF Init, IInv, TypeOK, Kept, Controlled, HandledAt, AnsweredAt, Documented, Paid, Minted,
          HasRecord, ClientLabels, ServerLabels, Codes

\* What a handler may do to the queue leaves a queue.
LEMMA QueueType ==
  ASSUME queue \in Seq(Flows), NEW f \in Flows
  PROVE  /\ Append(queue, f) \in Seq(Flows)
         /\ queue # <<>> => Tail(queue) \in Seq(Flows)
         /\ <<>> \in Seq(Flows)
PROOF BY AppendProperties, HeadTailProperties, EmptySeq

\* A fault is counted, and nothing is undisturbed after it.
LEMMA FaultCounted ==
  ASSUME TypeOK, Fault
  PROVE  faults' \in Nat /\ crashes' \in Nat /\ faults' # 0 /\ ~Undisturbed'
PROOF BY DEF TypeOK, Fault, Undisturbed

\* Documents stay true: forms do not change and the chain only grows.
LEMMA DocumentsStay ==
  ASSUME Documented, UNCHANGED <<form, properties>>, published \subseteq published'
  PROVE  Documented'
PROOF BY DEF Documented, PropertyOf, Minted, CanMint, ValidatorAccepts

\* The transactions of one flow are not those of another.
LEMMA Published ==
  ASSUME NEW f \in Flows, NEW kind \in {"payment", "property", "mint"}, published' = published \cup {<<kind, f>>}
  PROVE  /\ \A g \in Flows \ {f} : (Paid(g)' <=> Paid(g)) /\ (Minted(g)' <=> Minted(g))
         /\ Paid(f)' <=> Paid(f) \/ kind = "payment"
         /\ Minted(f)' <=> Minted(f) \/ kind = "mint"
         /\ TypeOK => published' \subseteq Transactions
PROOF BY DEF Paid, Minted, TypeOK, Transactions
-----------------------------------------------------------------------------
(***************************************************************************)
(* Steps of the browser.                                                   *)
(***************************************************************************)
\* What no step of the browser touches, but for the server's half of a flow
\* and the chain when a prefund is paid.
Beyond == <<form, replies, database, overlay, queue>>

LEMMA ClientMoves ==
  ASSUME TypeOK, NEW f \in Flows, NEW label \in ClientLabels, ClientGoto(f, label)
  PROVE  /\ client' \in [Flows -> ClientLabels]
         /\ client'[f] = label
         /\ \A g \in Flows \ {f} : client'[g] = client[g]
PROOF BY DEF TypeOK, ClientGoto

\* A move of the browser alone, to a place that the server's half allows.
LEMMA ClientAlone ==
  ASSUME IInv, NEW f \in Flows, NEW label \in ClientLabels, ClientGoto(f, label),
         UNCHANGED <<Beyond, server, published>>,
         label \in {"idle", "stopped", "pay"} => server[f] = "idle",
         label = "done" => answer[f] = "ok"
  PROVE  Controlled' /\ Documented'
<1>1. Documented'
  BY DocumentsStay DEF IInv, Beyond, database
<1>2. /\ client'[f] = label
      /\ \A g \in Flows \ {f} : client'[g] = client[g]
  BY ClientMoves DEF IInv
<1>3. ASSUME NEW g \in Flows PROVE HandledAt(g)'
  BY <1>2 DEF IInv, Controlled, HandledAt, Minted, CanMint, Beyond, replies
<1>4. ASSUME NEW g \in Flows PROVE AnsweredAt(g)'
  BY <1>2 DEF IInv, Controlled, AnsweredAt, Minted, Recorded, PropertyOf, Beyond, replies, database
<1> QED
  BY <1>1, <1>3, <1>4 DEF Controlled

\* The type invariant, by what a step of the browser may touch.
LEMMA ClientTypes ==
  ASSUME TypeOK, UNCHANGED <<Beyond, bounds>>,
         client' \in [Flows -> ClientLabels], server' \in [Flows -> ServerLabels],
         pending' \in [Flows -> {"absent", "saved", "attached"}], lost' \subseteq Flows,
         published' \subseteq Transactions
  PROVE  TypeOK'
PROOF BY DEF TypeOK, Beyond, replies, database, bounds

\* Saving keeps the nonce or counts it as lost, and so it is for the others.
LEMMA Saving ==
  ASSUME TypeOK, NEW f \in Flows, SavePending(f)
  PROVE  /\ pending' \in [Flows -> {"absent", "saved", "attached"}] /\ lost' \subseteq Flows
         /\ faults' \in Nat /\ crashes' \in Nat
         /\ HasRecord(f)' \/ f \in lost'
         /\ \A g \in Flows : HasRecord(g) \/ g \in lost => HasRecord(g)' \/ g \in lost'
         /\ faults' = 0 =>
              /\ faults = 0 /\ UNCHANGED <<lost, crashes>>
              /\ \A g \in Flows \ {f} : pending'[g] = pending[g]
<1>1. CASE pending' = [pending EXCEPT ![f] = "saved"] /\ UNCHANGED <<lost, bounds>>
  BY <1>1 DEF TypeOK, HasRecord, bounds
<1>2. CASE Fault /\ lost' = lost \cup {f} /\ UNCHANGED pending
  BY <1>2, FaultCounted DEF TypeOK, HasRecord
<1>3. CASE /\ Fault
           /\ pending' = [g \in Flows |-> IF g = f THEN "saved" ELSE "absent"]
           /\ lost' = lost \cup {g \in Flows \ {f} : HasRecord(g)}
  BY <1>3, FaultCounted DEF TypeOK, HasRecord
<1> QED
  BY <1>1, <1>2, <1>3 DEF SavePending

LEMMA ClickStep == ASSUME IInv, NEW f \in Flows, Click(f) PROVE IInv'
<1>1. CASE ClientGoto(f, "stopped") /\ UNCHANGED <<storage, bounds>>
  <2>1. UNCHANGED <<Beyond, server, published>> /\ client[f] = "idle"
    BY <1>1 DEF Click, Beyond
  <2>2. server[f] = "idle"
    BY <2>1 DEF IInv, Controlled, HandledAt
  <2>3. /\ client' \in [Flows -> ClientLabels] /\ client'[f] = "stopped"
        /\ \A g \in Flows \ {f} : client'[g] = client[g]
    BY <1>1, ClientMoves DEF IInv, ClientLabels
  <2>4. TypeOK'
    BY <1>1, <2>1, <2>3 DEF IInv, TypeOK, Beyond, replies, database, bounds, storage
  <2>5. Kept'
    BY <1>1, <2>1, <2>3
    DEF IInv, Kept, Paid, Minted, HasRecord, Undisturbed, bounds, storage
  <2> QED
    BY <1>1, <2>1, <2>2, <2>4, <2>5, ClientAlone DEF IInv, ClientLabels
<1>2. CASE ClientGoto(f, "pay") /\ SavePending(f)
  <2>1. UNCHANGED <<Beyond, server, published>> /\ client[f] = "idle"
    BY <1>2 DEF Click, Beyond
  <2>2. server[f] = "idle"
    BY <2>1 DEF IInv, Controlled, HandledAt
  <2>3. /\ client' \in [Flows -> ClientLabels] /\ client'[f] = "pay"
        /\ \A g \in Flows \ {f} : client'[g] = client[g]
    BY <1>2, ClientMoves DEF IInv, ClientLabels
  <2>4. TypeOK'
    BY <1>2, <2>1, <2>3, Saving DEF IInv, TypeOK, Beyond, replies, database
  <2>5. Kept'
    BY <1>2, <2>1, <2>3, Saving DEF IInv, Kept, Paid, Minted, Undisturbed
  <2> QED
    BY <1>2, <2>1, <2>2, <2>4, <2>5, ClientAlone DEF IInv, ClientLabels
<1> QED
  BY <1>1, <1>2 DEF Click

\* A step of the browser that waits or gives up, and keeps what it has.
LEMMA Waits ==
  ASSUME IInv, NEW f \in Flows, NEW label \in {"done", "failed", "closed"}, ClientGoto(f, label),
         client[f] \in {"pay", "waiting"}, label = "done" => answer[f] = "ok",
         UNCHANGED <<Beyond, server, published>>,
         UNCHANGED storage \/ (label = "done" /\ ClearPending(f)),
         faults' \in Nat, crashes' \in Nat, faults' = 0 => faults = 0, Undisturbed' => Undisturbed
  PROVE  IInv'
<1>1. /\ client' \in [Flows -> ClientLabels] /\ client'[f] = label
      /\ \A g \in Flows \ {f} : client'[g] = client[g]
  BY ClientMoves DEF IInv, ClientLabels
<1>2. label = "done" => Minted(f)
  BY DEF IInv, Controlled, Documented, AnsweredAt, Recorded, PropertyOf
<1>3. /\ pending' \in [Flows -> {"absent", "saved", "attached"}] /\ lost' = lost
      /\ \A g \in Flows : pending'[g] = pending[g] \/ (g = f /\ Minted(f))
  BY <1>2 DEF IInv, TypeOK, ClearPending, storage
<1>4. TypeOK'
  BY <1>1, <1>3 DEF IInv, TypeOK, Beyond, replies, database
<1>5. Kept'
  BY <1>1, <1>3 DEF IInv, Kept, Paid, Minted, HasRecord
<1> QED
  BY <1>4, <1>5, ClientAlone DEF IInv, ClientLabels

LEMMA HearStep == ASSUME IInv, NEW f \in Flows, Hear(f) PROVE IInv'
<1>1. /\ client[f] = "waiting"
      /\ UNCHANGED <<Beyond, server, published>>
  BY DEF Hear, Beyond
<1>2. faults' \in Nat /\ crashes' \in Nat /\ (faults' = 0 => faults = 0) /\ (Undisturbed' => Undisturbed)
  BY FaultCounted DEF IInv, TypeOK, Hear, bounds, Undisturbed
<1>3. CASE answer[f] = "ok"
  <2>1. ClientGoto(f, "done") /\ (ClearPending(f) \/ UNCHANGED storage)
    BY <1>3 DEF Hear
  <2> QED
    BY <1>1, <1>2, <1>3, <2>1, Waits
<1>4. CASE answer[f] # "ok"
  <2>1. ClientGoto(f, "failed") /\ UNCHANGED storage
    BY <1>4 DEF Hear
  <2> QED
    BY <1>1, <1>2, <2>1, Waits
<1> QED
  BY <1>3, <1>4

LEMMA ClientCallFailsStep == ASSUME IInv, NEW f \in Flows, ClientCallFails(f) PROVE IInv'
<1>1. faults' \in Nat /\ crashes' \in Nat /\ faults' # 0 /\ ~Undisturbed'
  BY FaultCounted DEF IInv, ClientCallFails
<1> QED
  BY <1>1, Waits DEF ClientCallFails, Beyond

LEMMA CloseTabStep == ASSUME IInv, NEW f \in Flows, CloseTab(f) PROVE IInv'
<1>1. faults' \in Nat /\ crashes' \in Nat /\ (faults' = 0 => faults = 0) /\ ~Undisturbed'
  BY DEF IInv, TypeOK, CloseTab, Undisturbed
<1> QED
  BY <1>1, Waits DEF CloseTab, ClientActive, Beyond

LEMMA PayStep == ASSUME IInv, NEW f \in Flows, Pay(f) PROVE IInv'
<1>1. /\ client[f] = "pay" /\ server[f] = "idle"
      /\ UNCHANGED Beyond
      /\ published' = published \cup {<<"payment", f>>}
  BY DEF IInv, Controlled, HandledAt, Pay, Beyond
<1>2. /\ published' \subseteq Transactions
      /\ \A g \in Flows : (Minted(g)' <=> Minted(g)) /\ (g # f => (Paid(g)' <=> Paid(g)))
  BY <1>1, Published DEF IInv
<1>3. Documented'
  BY <1>1, DocumentsStay DEF IInv, Beyond, database
<1>4. PICK label \in {"waiting", "failed"} :
        /\ ClientGoto(f, label)
        /\ \/ label = "waiting" /\ ServerGoto(f, "arrive")
           \/ label = "failed" /\ UNCHANGED server
  BY DEF Pay
<1>5. /\ client' \in [Flows -> ClientLabels] /\ client'[f] = label
      /\ \A g \in Flows \ {f} : client'[g] = client[g]
  BY <1>4, ClientMoves DEF IInv, ClientLabels
<1>6. /\ server' \in [Flows -> ServerLabels] /\ server'[f] \in {"idle", "arrive"}
      /\ \A g \in Flows \ {f} : server'[g] = server[g]
  BY <1>1, <1>4 DEF IInv, TypeOK, ServerGoto, ServerLabels
<1>7. /\ pending' \in [Flows -> {"absent", "saved", "attached"}] /\ lost' = lost
      /\ \A g \in Flows : (HasRecord(g)' <=> HasRecord(g)) /\ (g # f => pending'[g] = pending[g])
      /\ faults' \in Nat /\ crashes' \in Nat
      /\ faults' = 0 =>
           UNCHANGED bounds /\ (HasRecord(f) => pending'[f] = "attached")
  <2>1. CASE Attach(f) /\ UNCHANGED bounds
    BY <2>1 DEF IInv, TypeOK, Attach, HasRecord, bounds
  <2>2. CASE Fault /\ UNCHANGED storage
    BY <2>2, FaultCounted DEF IInv, TypeOK, storage, HasRecord
  <2> QED
    BY <2>1, <2>2 DEF Pay
<1>8. TypeOK'
  BY <1>1, <1>2, <1>5, <1>6, <1>7 DEF IInv, TypeOK, Beyond, replies, database
<1>9. Kept'
  BY <1>1, <1>2, <1>5, <1>7 DEF IInv, Kept, Undisturbed, bounds
<1>10. ASSUME NEW g \in Flows PROVE HandledAt(g)' /\ AnsweredAt(g)'
  <2>1. HandledAt(g) /\ AnsweredAt(g)
    BY DEF IInv, Controlled
  <2>2. (CanMint(g)' <=> CanMint(g)) /\ (Recorded(g)' <=> Recorded(g))
    BY <1>1 DEF CanMint, Recorded, PropertyOf, Beyond, database
  <2> QED
    BY <1>1, <1>2, <1>4, <1>5, <1>6, <2>1, <2>2 DEF HandledAt, AnsweredAt, Beyond, replies
<1> QED
  BY <1>3, <1>8, <1>9, <1>10 DEF IInv, Controlled
-----------------------------------------------------------------------------
(***************************************************************************)
(* Steps of the server.                                                    *)
(***************************************************************************)

\* What f's half is at, has answered and has pushed after a step; those of
\* the other flows stay.
Outcome(f, label, code, n) ==
  /\ server' \in [Flows -> ServerLabels] /\ answer' \in [Flows -> Codes]
  /\ pushes' \in [Flows -> Nat] /\ pushing' \subseteq Flows
  /\ server'[f] = label /\ answer'[f] = code /\ pushes'[f] = n
  /\ \A g \in Flows \ {f} :
       server'[g] = server[g] /\ answer'[g] = answer[g] /\ pushes'[g] = pushes[g]

LEMMA Pushed ==
  ASSUME TypeOK, NEW f \in Flows, StartPush(f)
  PROVE  /\ pushes' \in [Flows -> Nat] /\ pushing' \subseteq Flows
         /\ pushes[f] = 0 => pushes'[f] = 1
         /\ \A g \in Flows \ {f} : pushes'[g] = pushes[g]
PROOF BY DEF TypeOK, StartPush

LEMMA Continues ==
  ASSUME TypeOK, NEW f \in Flows, NEW label \in ServerLabels, Continue(f, label)
  PROVE  Outcome(f, label, answer[f], pushes[f]) /\ UNCHANGED <<minted, bounds>>
PROOF BY DEF TypeOK, Continue, ServerGoto, Outcome, replies

LEMMA Refuses ==
  ASSUME TypeOK, NEW f \in Flows, NEW code \in Codes, Refuse(f, code)
  PROVE  Outcome(f, "done", code, pushes[f]) /\ UNCHANGED minted
PROOF BY DEF TypeOK, Refuse, Respond, ServerGoto, Outcome, ServerLabels

LEMMA Aborts ==
  ASSUME TypeOK, NEW f \in Flows, pushes[f] = 0, Abort(f)
  PROVE  Outcome(f, "done", "error", IF f \in minted THEN 1 ELSE 0) /\ UNCHANGED minted
<1>1. CASE f \in minted
  BY <1>1, Pushed DEF TypeOK, Abort, Respond, ServerGoto, Outcome, ServerLabels, Codes
<1>2. CASE f \notin minted
  BY <1>2 DEF TypeOK, Abort, Respond, ServerGoto, Outcome, ServerLabels, Codes
<1> QED
  BY <1>1, <1>2

LEMMA Succeeds ==
  ASSUME TypeOK, NEW f \in Flows, pushes[f] = 0, Succeed(f)
  PROVE  Outcome(f, "done", "ok", 1) /\ UNCHANGED minted
PROOF BY Pushed DEF TypeOK, Succeed, Respond, ServerGoto, Outcome, ServerLabels, Codes

\* What the handler of f may have done, when its half was at `before`.
Progress(f, before, label, code) ==
  \/ before \in {"arrive", "limits", "property"} /\ label \in {"arrive", "limits", "property"} /\ code = "none"
  \/ before \in {"arrive", "limits", "property"} /\ label = "done" /\ code \in Codes \ {"none", "ok"}
  \/ before = "property" /\ label = "mint" /\ code = "none" /\ CanMint(f)
  \/ before = "mint" /\ label = "internalize" /\ code = "none" /\ Minted(f)'
  \/ before = "internalize" /\ label = "document" /\ code = "none" /\ f \in minted'
  \/ before = "document" /\ label = "description" /\ code = "none" /\ Recorded(f)'
  \/ before \in {"mint", "internalize", "document"} /\ label = "done" /\ code = "error"
  \/ before = "description" /\ label = "done" /\ code = "ok"

\* A step of f's handler that makes progress keeps the control of all flows.
LEMMA ServerProgress ==
  ASSUME IInv, NEW f \in Flows, NEW label, NEW code,
         UNCHANGED <<form, client>>,
         Progress(f, server[f], label, code),
         Outcome(f, label, code, IF label = "done" /\ f \in minted THEN 1 ELSE 0),
         minted' = minted \/ (label = "document" /\ minted' = minted \cup {f}),
         Minted(f) => Minted(f)',
         ~Minted(f) /\ Minted(f)' => server[f] = "mint",
         \A g \in Flows \ {f} : (Minted(g)' <=> Minted(g)) /\ (Recorded(g)' <=> Recorded(g)),
         Recorded(f) => Recorded(f)'
  PROVE  Controlled'
<1>0. /\ server'[f] = label /\ answer'[f] = code
      /\ pushes'[f] = IF label = "done" /\ f \in minted THEN 1 ELSE 0
  BY DEF Outcome
<1>1. ASSUME NEW g \in Flows \ {f} PROVE HandledAt(g)' /\ AnsweredAt(g)'
  <2>1. server'[g] = server[g] /\ answer'[g] = answer[g] /\ pushes'[g] = pushes[g] /\ (g \in minted' <=> g \in minted)
    BY DEF Outcome
  <2>2. HandledAt(g) /\ AnsweredAt(g)
    BY DEF IInv, Controlled
  <2>3. CanMint(g)' <=> CanMint(g)
    BY DEF CanMint
  <2> QED
    BY <2>1, <2>2, <2>3 DEF HandledAt, AnsweredAt
<1>2. HandledAt(f) /\ AnsweredAt(f) /\ (CanMint(f)' <=> CanMint(f))
  BY DEF IInv, Controlled, CanMint
<1>3. HandledAt(f)'
  BY <1>0, <1>2 DEF HandledAt, Progress
<1>4. AnsweredAt(f)'
  BY <1>0, <1>2 DEF HandledAt, AnsweredAt, Progress, Codes
<1> QED
  BY <1>1, <1>3, <1>4 DEF Controlled

\* The nonces are kept by whatever the server does.
LEMMA KeptByServer ==
  ASSUME IInv, UNCHANGED <<client, storage>>,
         \A g \in Flows : (Paid(g)' <=> Paid(g)) /\ (Minted(g) => Minted(g)'),
         faults' = 0 => faults = 0, Undisturbed' => Undisturbed
  PROVE  Kept'
PROOF BY DEF IInv, Kept, HasRecord, storage

\* The type invariant, by what a step of a handler may touch.
LEMMA ServerTypes ==
  ASSUME TypeOK, NEW f \in Flows, NEW label, NEW code, NEW n, Outcome(f, label, code, n),
         UNCHANGED <<form, client, storage, overlay>>, minted' \subseteq Flows,
         queue' \in Seq(Flows), published' \subseteq Transactions,
         properties' \subseteq Documents, descriptions' \subseteq Flows,
         faults' \in Nat, crashes' \in Nat
  PROVE  TypeOK'
PROOF BY DEF TypeOK, Outcome, storage

\* The same for a step that touches neither chain nor documents.
LEMMA QuietServer ==
  ASSUME IInv, NEW f \in Flows, NEW label, NEW code,
         UNCHANGED <<form, client, storage, overlay, published, properties>>,
         Progress(f, server[f], label, code),
         Outcome(f, label, code, IF label = "done" /\ f \in minted THEN 1 ELSE 0),
         minted' = minted \/ (label = "document" /\ minted' = minted \cup {f}),
         queue' \in Seq(Flows), descriptions' \subseteq Flows,
         faults' \in Nat, crashes' \in Nat, faults' = 0 => faults = 0, Undisturbed' => Undisturbed
  PROVE  IInv'
<1>1. TypeOK'
  BY ServerTypes DEF IInv, TypeOK
<1>2. \A g \in Flows : /\ (Paid(g)' <=> Paid(g)) /\ (Minted(g)' <=> Minted(g))
                        /\ (Recorded(g)' <=> Recorded(g))
  BY DEF Paid, Minted, Recorded, PropertyOf
<1>3. Controlled'
  BY <1>2, ServerProgress
<1>4. Kept'
  BY <1>2, KeptByServer
<1> QED
  BY <1>1, <1>3, <1>4, DocumentsStay DEF IInv

LEMMA AdmitStep == ASSUME IInv, NEW f \in Flows, Admit(f) PROVE IInv'
<1>1. server[f] = "arrive" /\ UNCHANGED <<form, client, storage, overlay, published, properties, queue, descriptions>>
  BY DEF Admit, database
<1>2. answer[f] = "none" /\ pushes[f] = 0 /\ f \notin minted
  BY <1>1 DEF IInv, Controlled, HandledAt, AnsweredAt
<1>3. CASE Continue(f, "limits")
  BY <1>1, <1>2, <1>3, Continues, QuietServer DEF IInv, TypeOK, Progress, ServerLabels, bounds, Undisturbed
<1>4. CASE Fault /\ Refuse(f, "unauthorized")
  BY <1>1, <1>2, <1>4, Refuses, FaultCounted, QuietServer DEF IInv, TypeOK, Progress, Codes
<1> QED
  BY <1>3, <1>4 DEF Admit

LEMMA CheckLimitsStep == ASSUME IInv, NEW f \in Flows, CheckLimits(f) PROVE IInv'
<1>1. server[f] = "limits" /\ UNCHANGED <<form, client, storage, overlay, published, properties, descriptions>>
  BY DEF CheckLimits, database
<1>2. answer[f] = "none" /\ pushes[f] = 0 /\ f \notin minted
  BY <1>1 DEF IInv, Controlled, HandledAt, AnsweredAt
<1>3. CASE Continue(f, "property") /\ queue' = Append(queue, f)
  BY <1>1, <1>2, <1>3, Continues, QueueType, QuietServer
  DEF IInv, TypeOK, Progress, ServerLabels, bounds, Undisturbed
<1>4. CASE Refuse(f, "invalid") /\ UNCHANGED <<queue, bounds>>
  BY <1>1, <1>2, <1>4, Refuses, QuietServer DEF IInv, TypeOK, Progress, Codes, bounds, Undisturbed
<1> QED
  BY <1>3, <1>4 DEF CheckLimits

\* Rejecting the action takes it off the queue and answers with an error.
LEMMA Rejects ==
  ASSUME IInv, NEW f \in Flows, Running(f), pushes[f] = 0, Reject(f)
  PROVE  /\ Outcome(f, "done", "error", IF f \in minted THEN 1 ELSE 0)
         /\ UNCHANGED minted /\ queue' \in Seq(Flows)
PROOF BY Aborts, QueueType DEF IInv, TypeOK, Running, Reject

LEMMA CreatePropertyStep == ASSUME IInv, NEW f \in Flows, CreateProperty(f) PROVE IInv'
<1>1. /\ server[f] = "property" /\ Running(f) /\ published' = published \cup {<<"property", f>>}
      /\ UNCHANGED <<form, client, storage, overlay, properties, descriptions>>
  BY DEF CreateProperty, database
<1>2. answer[f] = "none" /\ pushes[f] = 0 /\ f \notin minted
  BY <1>1 DEF IInv, Controlled, HandledAt, AnsweredAt
<1>3. /\ \A g \in Flows : (Paid(g)' <=> Paid(g)) /\ (Minted(g)' <=> Minted(g)) /\ (Recorded(g)' <=> Recorded(g))
      /\ published' \subseteq Transactions
  BY <1>1, Published DEF IInv, Recorded, PropertyOf
<1>4. Documented'
  BY <1>1, DocumentsStay DEF IInv
<1>5. /\ faults' \in Nat /\ crashes' \in Nat /\ (faults' = 0 => faults = 0) /\ (Undisturbed' => Undisturbed)
      /\ minted' = minted /\ queue' \in Seq(Flows)
      /\ \/ Outcome(f, "mint", "none", 0) /\ CanMint(f)
         \/ Outcome(f, "done", "error", 0)
  <2>1. CASE CanMint(f) /\ Continue(f, "mint") /\ UNCHANGED queue
    BY <1>2, <2>1, Continues DEF IInv, TypeOK, ServerLabels, bounds, Undisturbed
  <2>2. CASE Reject(f) /\ UNCHANGED bounds
    BY <1>1, <1>2, <2>2, Rejects DEF IInv, TypeOK, bounds, Undisturbed
  <2>3. CASE Fault /\ Reject(f)
    BY <1>1, <1>2, <2>3, Rejects, FaultCounted DEF IInv
  <2> QED
    BY <2>1, <2>2, <2>3 DEF CreateProperty
<1>6. TypeOK'
  BY <1>1, <1>3, <1>5, ServerTypes DEF IInv, TypeOK
<1>7. Controlled'
  <2>1. CASE Outcome(f, "mint", "none", 0) /\ CanMint(f)
    BY <1>1, <1>2, <1>3, <1>5, <2>1, ServerProgress DEF Progress
  <2>2. CASE Outcome(f, "done", "error", 0)
    BY <1>1, <1>2, <1>3, <1>5, <2>2, ServerProgress DEF Progress, Codes
  <2> QED
    BY <1>5, <2>1, <2>2
<1> QED
  BY <1>1, <1>3, <1>4, <1>5, <1>6, <1>7, KeptByServer DEF IInv

LEMMA SignMintStep == ASSUME IInv, NEW f \in Flows, SignMint(f) PROVE IInv'
<1>1. /\ server[f] = "mint" /\ Running(f) /\ published' = published \cup {<<"mint", f>>}
      /\ UNCHANGED <<form, client, storage, overlay, properties, descriptions>>
  BY DEF SignMint, database
<1>2. answer[f] = "none" /\ pushes[f] = 0 /\ f \notin minted
  BY <1>1 DEF IInv, Controlled, HandledAt, AnsweredAt
<1>3. /\ Minted(f)'
      /\ \A g \in Flows : (Paid(g)' <=> Paid(g)) /\ (Recorded(g)' <=> Recorded(g))
      /\ \A g \in Flows \ {f} : Minted(g)' <=> Minted(g)
      /\ published' \subseteq Transactions
  BY <1>1, Published DEF IInv, Recorded, PropertyOf
<1>4. Documented'
  BY <1>1, DocumentsStay DEF IInv
<1>5. /\ faults' \in Nat /\ crashes' \in Nat /\ (faults' = 0 => faults = 0) /\ (Undisturbed' => Undisturbed)
      /\ minted' = minted /\ queue' \in Seq(Flows)
      /\ Outcome(f, "internalize", "none", 0) \/ Outcome(f, "done", "error", 0)
  <2>1. CASE Continue(f, "internalize") /\ UNCHANGED queue
    BY <1>2, <2>1, Continues DEF IInv, TypeOK, ServerLabels, bounds, Undisturbed
  <2>2. CASE Fault /\ Reject(f)
    BY <1>1, <1>2, <2>2, Rejects, FaultCounted DEF IInv
  <2> QED
    BY <2>1, <2>2 DEF SignMint
<1>6. TypeOK'
  BY <1>1, <1>3, <1>5, ServerTypes DEF IInv, TypeOK
<1>7. Controlled'
  <2>1. CASE Outcome(f, "internalize", "none", 0)
    BY <1>1, <1>2, <1>3, <1>5, <2>1, ServerProgress DEF Progress
  <2>2. CASE Outcome(f, "done", "error", 0)
    BY <1>1, <1>2, <1>3, <1>5, <2>2, ServerProgress DEF Progress
  <2> QED
    BY <1>5, <2>1, <2>2
<1> QED
  BY <1>1, <1>3, <1>4, <1>5, <1>6, <1>7, KeptByServer DEF IInv

LEMMA InternalizeStep == ASSUME IInv, NEW f \in Flows, Internalize(f) PROVE IInv'
<1>1. /\ server[f] = "internalize" /\ Running(f) /\ queue' = Tail(queue) /\ minted' = minted \cup {f}
      /\ UNCHANGED <<form, client, storage, overlay, published, properties, descriptions, bounds>>
  BY DEF Internalize, database
<1>2. answer[f] = "none" /\ pushes[f] = 0
  BY <1>1 DEF IInv, Controlled, HandledAt, AnsweredAt
<1>3. Outcome(f, "document", "none", 0)
  BY <1>2 DEF IInv, TypeOK, Internalize, ServerGoto, Outcome, ServerLabels
<1>4. queue' \in Seq(Flows)
  BY <1>1, QueueType DEF IInv, TypeOK, Running
<1> QED
  BY <1>1, <1>3, <1>4, QuietServer DEF IInv, TypeOK, Progress, bounds, Undisturbed

LEMMA InsertDescriptionStep == ASSUME IInv, NEW f \in Flows, InsertDescription(f) PROVE IInv'
<1>1. /\ server[f] = "description" /\ Succeed(f)
      /\ UNCHANGED <<form, client, storage, overlay, published, properties, queue>>
      /\ descriptions' \subseteq Flows
  BY DEF IInv, TypeOK, InsertDescription
<1>2. pushes[f] = 0 /\ f \in minted
  BY <1>1 DEF IInv, Controlled, HandledAt, AnsweredAt
<1>3. faults' \in Nat /\ crashes' \in Nat /\ (faults' = 0 => faults = 0) /\ (Undisturbed' => Undisturbed)
  BY FaultCounted DEF IInv, TypeOK, InsertDescription, bounds, Undisturbed
<1>4. Outcome(f, "done", "ok", 1) /\ UNCHANGED minted
  BY <1>1, <1>2, Succeeds DEF IInv
<1> QED
  BY <1>1, <1>2, <1>3, <1>4, QuietServer DEF IInv, TypeOK, Progress

LEMMA InsertPropertyStep == ASSUME IInv, NEW f \in Flows, InsertProperty(f) PROVE IInv'
<1>1. /\ server[f] = "document"
      /\ UNCHANGED <<form, client, storage, overlay, published, queue, descriptions>>
  BY DEF InsertProperty
<1>2. answer[f] = "none" /\ pushes[f] = 0 /\ f \in minted /\ Minted(f) /\ CanMint(f)
  BY <1>1 DEF IInv, Controlled, HandledAt, AnsweredAt
<1>3. CASE Abort(f) /\ UNCHANGED <<properties, bounds>>
  BY <1>1, <1>2, <1>3, Aborts, QuietServer DEF IInv, TypeOK, Progress, bounds, Undisturbed
<1>4. CASE /\ ValidatorAccepts(f) /\ properties' = properties \cup {PropertyOf(f)}
           /\ Continue(f, "description") \/ (Fault /\ Abort(f))
  <2>1. /\ faults' \in Nat /\ crashes' \in Nat /\ (faults' = 0 => faults = 0) /\ (Undisturbed' => Undisturbed)
        /\ minted' = minted
        /\ Outcome(f, "description", "none", 0) \/ Outcome(f, "done", "error", 1)
    <3>1. CASE Continue(f, "description")
      BY <1>2, <3>1, Continues DEF IInv, TypeOK, ServerLabels, bounds, Undisturbed
    <3>2. CASE Fault /\ Abort(f)
      BY <1>2, <3>2, Aborts, FaultCounted DEF IInv
    <3> QED
      BY <1>4, <3>1, <3>2
  <2>2. PropertyOf(f) \in Documents
    BY FormsAssumption DEF IInv, TypeOK, PropertyOf, Documents
  <2>3. TypeOK'
    BY <1>1, <1>4, <2>1, <2>2, ServerTypes DEF IInv, TypeOK
  <2>4. \A g \in Flows : (Paid(g)' <=> Paid(g)) /\ (Minted(g)' <=> Minted(g))
    BY <1>1 DEF Paid, Minted
  <2>5. Recorded(f)' /\ \A g \in Flows \ {f} : Recorded(g)' <=> Recorded(g)
    BY <1>1, <1>4 DEF Recorded, PropertyOf
  <2>6. Documented'
    BY <1>1, <1>2, <1>4 DEF IInv, Documented, PropertyOf, Minted, CanMint, ValidatorAccepts
  <2>7. Controlled'
    <3>1. CASE Outcome(f, "description", "none", 0)
      BY <1>1, <1>2, <2>1, <2>4, <2>5, <3>1, ServerProgress DEF Progress
    <3>2. CASE Outcome(f, "done", "error", 1)
      BY <1>1, <1>2, <2>1, <2>4, <2>5, <3>2, ServerProgress DEF Progress
    <3> QED
      BY <2>1, <3>1, <3>2
  <2> QED
    BY <1>1, <2>1, <2>3, <2>4, <2>6, <2>7, KeptByServer DEF IInv
<1> QED
  BY <1>3, <1>4 DEF InsertProperty

LEMMA ServerCallFailsStep == ASSUME IInv, NEW f \in Flows, ServerCallFails(f) PROVE IInv'
<1>1. /\ server[f] \in {"limits", "document", "property", "mint", "internalize"}
      /\ UNCHANGED <<form, client, storage, overlay, published, properties, descriptions>>
  BY DEF ServerCallFails, database
<1>2. answer[f] = "none" /\ pushes[f] = 0
  BY <1>1 DEF IInv, Controlled, AnsweredAt
<1>3. faults' \in Nat /\ crashes' \in Nat /\ faults' # 0 /\ ~Undisturbed'
  BY FaultCounted DEF IInv, ServerCallFails
<1>4. /\ Outcome(f, "done", "error", IF f \in minted THEN 1 ELSE 0)
      /\ UNCHANGED minted /\ queue' \in Seq(Flows)
  BY <1>2, Aborts, Rejects DEF IInv, TypeOK, ServerCallFails
<1> QED
  BY <1>1, <1>3, <1>4, QuietServer DEF IInv, TypeOK, Progress, Codes

LEMMA PushStep == ASSUME IInv, NEW f \in Flows, PushToOverlay(f) PROVE IInv'
<1>1. UNCHANGED <<form, client, server, answer, minted, pushes, storage, published, queue, database>>
  BY DEF PushToOverlay
<1>2. faults' \in Nat /\ crashes' \in Nat /\ (faults' = 0 => faults = 0) /\ (Undisturbed' => Undisturbed)
  BY FaultCounted DEF IInv, TypeOK, PushToOverlay, bounds, Undisturbed
<1>3. TypeOK'
  BY <1>1, <1>2 DEF IInv, TypeOK, PushToOverlay, storage, database
<1>4. Controlled'
  BY <1>1 DEF IInv, Controlled, HandledAt, AnsweredAt, Minted, CanMint, Recorded, PropertyOf, database
<1> QED
  BY <1>1, <1>2, <1>3, <1>4, KeptByServer, DocumentsStay DEF IInv, Paid, Minted, database

LEMMA ServerCrashStep == ASSUME IInv, ServerCrash PROVE IInv'
<1>1. UNCHANGED <<form, client, answer, minted, pushes, storage, published, overlay, database>>
  BY DEF ServerCrash
<1>2. faults' \in Nat /\ crashes' \in Nat /\ (faults' = 0 => faults = 0) /\ ~Undisturbed'
  BY DEF IInv, TypeOK, ServerCrash, Undisturbed
<1>3. /\ server' \in [Flows -> ServerLabels]
      /\ \A g \in Flows : server'[g] = IF server[g] \in {"idle", "done", "dead"} THEN server[g] ELSE "dead"
  BY DEF IInv, TypeOK, ServerCrash, ServerActive, ServerLabels
<1>4. TypeOK'
  BY <1>1, <1>2, <1>3, QueueType DEF IInv, TypeOK, ServerCrash, storage, database
<1>5. ASSUME NEW g \in Flows PROVE HandledAt(g)' /\ AnsweredAt(g)'
  <2>1. HandledAt(g) /\ AnsweredAt(g)
    BY DEF IInv, Controlled
  <2>2. (CanMint(g)' <=> CanMint(g)) /\ (Minted(g)' <=> Minted(g)) /\ (Recorded(g)' <=> Recorded(g))
    BY <1>1 DEF CanMint, Minted, Recorded, PropertyOf, database
  <2> QED
    BY <1>1, <1>3, <2>1, <2>2 DEF HandledAt, AnsweredAt
<1> QED
  BY <1>1, <1>2, <1>4, <1>5, KeptByServer, DocumentsStay DEF IInv, Controlled, Paid, Minted, database
-----------------------------------------------------------------------------
LEMMA StepIInv == ASSUME IInv, [Next]_vars PROVE IInv'
<1>1. CASE UNCHANGED vars
  BY <1>1 DEF vars, storage, replies, database, bounds, IInv, TypeOK, Kept, Controlled, HandledAt,
              AnsweredAt, Documented, Undisturbed, Paid, Minted, HasRecord, Recorded, PropertyOf,
              CanMint, ValidatorAccepts
<1>2. CASE Next
  BY <1>2, ClickStep, PayStep, HearStep, ClientCallFailsStep, CloseTabStep, AdmitStep, CheckLimitsStep,
     CreatePropertyStep, SignMintStep, InternalizeStep, InsertPropertyStep, InsertDescriptionStep,
     ServerCallFailsStep, PushStep, ServerCrashStep
  DEF Next, ClientStep, ServerStep
<1> QED
  BY <1>1, <1>2

LEMMA AlwaysIInv == Spec => []IInv
<1>1. Init => IInv
  BY InitIInv
<1>2. IInv /\ [Next]_vars => IInv'
  BY StepIInv
<1> QED
  BY <1>1, <1>2, PTL DEF Spec
-----------------------------------------------------------------------------
\* Every variable keeps its type.
THEOREM TypeCorrect == Spec => []TypeOK
<1>1. IInv => TypeOK
  BY DEF IInv
<1> QED
  BY <1>1, AlwaysIInv, PTL

\* The nonce of a prefund that is on chain and not minted is in the
\* browser's storage, or storage has lost it (pendingKeyMaterial.ts:3).
THEOREM NoncesKept == Spec => []PaymentNonceKept
<1>1. IInv => PaymentNonceKept
  BY DEF IInv, TypeOK, Kept, Controlled, PaymentNonceKept, HandledAt
<1> QED
  BY <1>1, AlwaysIInv, PTL

\* A mint without a document is under way, or its handler has died, or the
\* administrator was told (tokenize.ts:298).
THEOREM UnrecordedExplained == Spec => []UnrecordedIsExplained
<1>1. IInv => UnrecordedIsExplained
  BY DEF IInv, TypeOK, Controlled, HandledAt, AnsweredAt, UnrecordedIsExplained, ServerLabels
<1> QED
  BY <1>1, AlwaysIInv, PTL

\* Every document stands for a mint on chain that holds what the document
\* says is left, and success is only told of a document that is there
\* (tokenize.ts:452).
THEOREM DocumentsSellable == Spec => []DocumentIsSellable
<1>1. IInv => DocumentIsSellable
  <2> SUFFICES ASSUME IInv PROVE DocumentIsSellable
    OBVIOUS
  <2>1. ASSUME NEW p \in properties
        PROVE  /\ Minted(p.currentOutpoint[1]) /\ p.paymentTxid[1] = p.currentOutpoint[1]
               /\ p.remainingPercent = p.percentToSell /\ p.percentToSell \in 1 .. 100
               /\ p.investors <= MaxInvestors
    <3>1. PICK f \in Flows : p = PropertyOf(f) /\ Minted(f) /\ CanMint(f) /\ ValidatorAccepts(f)
      BY DEF IInv, Documented
    <3>2. form[f].percentToSell \in Nat
      BY FormsAssumption DEF IInv, TypeOK
    <3> QED
      BY <3>1, <3>2 DEF PropertyOf, CanMint, ValidatorAccepts
  <2> QED
    BY <2>1 DEF IInv, Controlled, AnsweredAt, DocumentIsSellable
<1> QED
  BY <1>1, AlwaysIInv, PTL

\* A mint that got past the queue is pushed once, on whichever way its
\* handler ends (tokenize.ts:497).
THEOREM PushesOnce == Spec => []PushedOnce
<1>1. IInv => PushedOnce
  BY DEF IInv, Controlled, HandledAt, AnsweredAt, PushedOnce
<1> QED
  BY <1>1, AlwaysIInv, PTL
-----------------------------------------------------------------------------
(***************************************************************************)
(* Progress.  That every submission is answered needs fairness and is      *)
(* checked by a run; what would keep it from being so is a wallet action   *)
(* at the head of the queue that nobody can take further.                  *)
(***************************************************************************)
\* The handlers that await an action of the wallet queue.
Awaiting == {"property", "mint", "internalize"}

\* Each of them has its one action in the queue, and there are no others;
\* only the first one has begun.
QueueInv ==
  /\ \A i \in 1 .. Len(queue) :
       server[queue[i]] \in Awaiting /\ (server[queue[i]] # "property" => i = 1)
  /\ \A i, j \in 1 .. Len(queue) : queue[i] = queue[j] => i = j
  /\ \A g \in Flows : server[g] \in Awaiting => \E i \in 1 .. Len(queue) : queue[i] = g

\* The form is posted after the prefund has been paid.
PaidFirst == \A f \in Flows : server[f] # "idle" => Paid(f)

\* Handlers that have nothing to do with the queue.
LEMMA QueueKept ==
  ASSUME QueueInv, queue \in Seq(Flows), UNCHANGED queue,
         \A g \in Flows : /\ server[g] \in Awaiting => server'[g] = server[g]
                          /\ server'[g] \in Awaiting => server'[g] = server[g]
  PROVE  QueueInv'
<1>1. \A i \in 1 .. Len(queue) : queue[i] \in Flows
  BY ElementOfSeq
<1> QED
  BY <1>1 DEF QueueInv, Awaiting

\* A handler at a step of its own.
LEMMA QueueIgnores ==
  ASSUME QueueInv, TypeOK, UNCHANGED queue, NEW f \in Flows, NEW label, ServerGoto(f, label),
         server[f] \notin Awaiting, label \notin Awaiting
  PROVE  QueueInv'
<1>1. server'[f] = label /\ \A g \in Flows \ {f} : server'[g] = server[g]
  BY DEF ServerGoto, TypeOK
<1> QED
  BY <1>1, QueueKept DEF TypeOK

\* The action at the head takes its next step.
LEMMA QueueAdvances ==
  ASSUME QueueInv, TypeOK, UNCHANGED queue, NEW f \in Flows, Running(f), server[f] \in Awaiting,
         NEW label, label \in Awaiting, ServerGoto(f, label)
  PROVE  QueueInv'
<1>1. server'[f] = label /\ \A g \in Flows \ {f} : server'[g] = server[g]
  BY DEF ServerGoto, TypeOK
<1>2. Len(queue) \in Nat /\ Len(queue) > 0 /\ queue[1] = f
  BY HeadTailProperties, EmptySeq, LenProperties DEF Running, TypeOK
<1>3. \A i \in 1 .. Len(queue) : queue[i] \in Flows /\ (queue[i] = f => i = 1)
  BY <1>2, ElementOfSeq DEF QueueInv, TypeOK
<1> QED
  BY <1>1, <1>3 DEF QueueInv

\* An action settles, and the next one is at the head.
LEMMA QueueSettles ==
  ASSUME QueueInv, TypeOK, NEW f \in Flows, Running(f),
         queue' = Tail(queue), NEW label, label \notin Awaiting, ServerGoto(f, label)
  PROVE  QueueInv'
<1>1. /\ queue # <<>> /\ queue[1] = f
      /\ Len(queue') = Len(queue) - 1 /\ Len(queue) \in Nat /\ Len(queue) > 0
      /\ \A i \in 1 .. Len(queue') : queue'[i] = queue[i + 1]
  BY HeadTailProperties, EmptySeq, LenProperties DEF Running, TypeOK
<1>2. \A i \in 1 .. Len(queue) : queue[i] \in Flows
  BY ElementOfSeq DEF TypeOK
<1>3. server'[f] = label /\ \A g \in Flows \ {f} : server'[g] = server[g]
  BY DEF ServerGoto, TypeOK
<1>4. ASSUME NEW i \in 1 .. Len(queue')
      PROVE  /\ i + 1 \in 1 .. Len(queue) /\ queue'[i] = queue[i + 1]
             /\ queue'[i] \in Flows \ {f} /\ server'[queue'[i]] = "property"
  <2>1. i + 1 \in 1 .. Len(queue) /\ queue'[i] = queue[i + 1] /\ i + 1 # 1 /\ 1 \in 1 .. Len(queue)
    BY <1>1
  <2>2. queue[i + 1] # f
    BY <1>1, <2>1 DEF QueueInv
  <2>3. server[queue[i + 1]] = "property"
    BY <2>1 DEF QueueInv
  <2> QED
    BY <1>2, <1>3, <2>1, <2>2, <2>3
<1>5. ASSUME NEW i \in 1 .. Len(queue'), NEW j \in 1 .. Len(queue'), queue'[i] = queue'[j]
      PROVE  i = j
  <2>1. i + 1 = j + 1
    BY <1>4, <1>5 DEF QueueInv
  <2> QED
    BY <1>1, <2>1
<1>6. ASSUME NEW g \in Flows, server'[g] \in Awaiting
      PROVE  \E i \in 1 .. Len(queue') : queue'[i] = g
  <2>1. g # f /\ server[g] \in Awaiting
    BY <1>3, <1>6
  <2>2. PICK i \in 1 .. Len(queue) : queue[i] = g
    BY <2>1 DEF QueueInv
  <2>3. i # 1
    BY <1>1, <2>1, <2>2
  <2>4. i - 1 \in 1 .. Len(queue')
    BY <1>1, <2>3
  <2>5. queue'[i - 1] = queue[(i - 1) + 1] /\ (i - 1) + 1 = i
    BY <1>1, <2>4
  <2> QED
    BY <2>2, <2>4, <2>5
<1>7. \A i \in 1 .. Len(queue') :
        server'[queue'[i]] \in Awaiting /\ (server'[queue'[i]] # "property" => i = 1)
  BY <1>4 DEF Awaiting
<1> QED
  BY <1>5, <1>6, <1>7 DEF QueueInv

LEMMA QueueJoins ==
  ASSUME QueueInv, TypeOK, NEW f \in Flows,
         server[f] \notin Awaiting, queue' = Append(queue, f), ServerGoto(f, "property")
  PROVE  QueueInv'
<1>1. /\ Len(queue') = Len(queue) + 1 /\ Len(queue) \in Nat
      /\ \A i \in 1 .. Len(queue) : queue'[i] = queue[i]
      /\ queue'[Len(queue) + 1] = f
  BY AppendProperties, LenProperties DEF TypeOK
<1>2. \A i \in 1 .. Len(queue) : queue[i] \in Flows /\ queue[i] # f
  BY ElementOfSeq DEF QueueInv, TypeOK
<1>3. server'[f] = "property" /\ \A g \in Flows \ {f} : server'[g] = server[g]
  BY DEF ServerGoto, TypeOK
<1>4. \A i \in 1 .. Len(queue') : i \in 1 .. Len(queue) \/ i = Len(queue) + 1
  BY <1>1
<1>5. \A i \in 1 .. Len(queue') :
        server'[queue'[i]] \in Awaiting /\ (server'[queue'[i]] # "property" => i = 1)
  BY <1>1, <1>2, <1>3, <1>4 DEF QueueInv, Awaiting
<1>6. \A i, j \in 1 .. Len(queue') : queue'[i] = queue'[j] => i = j
  BY <1>1, <1>2, <1>4 DEF QueueInv
<1>7. ASSUME NEW g \in Flows, server'[g] \in Awaiting
      PROVE  \E i \in 1 .. Len(queue') : queue'[i] = g
  <2>1. CASE g = f
    <3>1. Len(queue) + 1 \in 1 .. Len(queue')
      BY <1>1
    <3> QED
      BY <1>1, <2>1, <3>1
  <2>2. CASE g # f
    <3>1. PICK i \in 1 .. Len(queue) : queue[i] = g
      BY <1>3, <1>7, <2>2 DEF QueueInv
    <3>2. i \in 1 .. Len(queue') /\ queue'[i] = g
      BY <1>1, <3>1
    <3> QED
      BY <3>2
  <2> QED
    BY <2>1, <2>2
<1> QED
  BY <1>5, <1>6, <1>7 DEF QueueInv

LEMMA QueueStep == ASSUME IInv, QueueInv, [Next]_vars PROVE QueueInv'
<1>0. TypeOK
  BY DEF IInv
<1>1. ASSUME NEW f \in Flows,
             \/ Click(f) \/ Hear(f) \/ ClientCallFails(f) \/ CloseTab(f) \/ PushToOverlay(f)
             \/ UNCHANGED vars
      PROVE  QueueInv'
  BY <1>0, <1>1, QueueKept DEF vars, Click, Hear, ClientCallFails, CloseTab, PushToOverlay, TypeOK
<1>2. ASSUME NEW f \in Flows, Pay(f) PROVE QueueInv'
  <2>1. client[f] = "pay" /\ UNCHANGED queue
    BY <1>2 DEF Pay
  <2>2. server[f] = "idle"
    BY <2>1 DEF IInv, Controlled, HandledAt
  <2>3. CASE UNCHANGED server
    BY <1>0, <2>1, <2>3, QueueKept DEF TypeOK
  <2>4. CASE ServerGoto(f, "arrive")
    BY <1>0, <2>1, <2>2, <2>4, QueueIgnores DEF Awaiting
  <2> QED
    BY <1>2, <2>3, <2>4 DEF Pay
<1>3. ASSUME NEW f \in Flows, Admit(f) \/ InsertProperty(f) \/ InsertDescription(f) PROVE QueueInv'
  <2>1. PICK label \in {"limits", "description", "done"} : ServerGoto(f, label)
    BY <1>3 DEF Admit, InsertProperty, InsertDescription, Refuse, Abort, Succeed, Continue
  <2>2. server[f] \notin Awaiting /\ UNCHANGED queue
    BY <1>3 DEF Admit, InsertProperty, InsertDescription, Awaiting
  <2> QED
    BY <1>0, <2>1, <2>2, QueueIgnores DEF Awaiting
<1>4. ASSUME NEW f \in Flows, CheckLimits(f) PROVE QueueInv'
  <2>1. server[f] \notin Awaiting
    BY <1>4 DEF CheckLimits, Awaiting
  <2>2. CASE ServerGoto(f, "done") /\ UNCHANGED queue
    BY <1>0, <2>1, <2>2, QueueIgnores DEF Awaiting
  <2>3. CASE ServerGoto(f, "property") /\ queue' = Append(queue, f)
    BY <1>0, <2>1, <2>3, QueueJoins
  <2> QED
    BY <1>4, <2>2, <2>3 DEF CheckLimits, Refuse, Continue
<1>5. ASSUME NEW f \in Flows, CreateProperty(f) \/ SignMint(f) \/ Internalize(f) PROVE QueueInv'
  <2>1. Running(f) /\ server[f] \in Awaiting
    BY <1>5 DEF CreateProperty, SignMint, Internalize, Awaiting
  <2>2. CASE UNCHANGED queue /\ (ServerGoto(f, "mint") \/ ServerGoto(f, "internalize"))
    BY <1>0, <2>1, <2>2, QueueAdvances DEF Awaiting
  <2>3. CASE queue' = Tail(queue) /\ (ServerGoto(f, "done") \/ ServerGoto(f, "document"))
    BY <1>0, <2>1, <2>3, QueueSettles DEF Awaiting
  <2> QED
    BY <1>5, <2>2, <2>3 DEF CreateProperty, SignMint, Internalize, Reject, Abort, Continue
<1>6. ASSUME NEW f \in Flows, ServerCallFails(f) PROVE QueueInv'
  <2>1. CASE server[f] \notin Awaiting /\ UNCHANGED queue /\ ServerGoto(f, "done")
    BY <1>0, <2>1, QueueIgnores DEF Awaiting
  <2>2. CASE Running(f) /\ queue' = Tail(queue) /\ ServerGoto(f, "done")
    BY <1>0, <2>2, QueueSettles DEF Awaiting
  <2> QED
    BY <1>6, <2>1, <2>2 DEF ServerCallFails, Reject, Abort, Awaiting
<1>7. ASSUME ServerCrash PROVE QueueInv'
  <2>1. queue' = <<>> /\ Len(queue') = 0
    BY <1>7, EmptySeq DEF ServerCrash
  <2>2. \A g \in Flows : server'[g] \notin Awaiting
    BY <1>7 DEF ServerCrash, ServerActive, Awaiting
  <2> QED
    BY <2>1, <2>2 DEF QueueInv
<1>8. CASE UNCHANGED vars
  BY <1>0, <1>8, QueueKept DEF vars, TypeOK
<1> QED
  BY <1>1, <1>2, <1>3, <1>4, <1>5, <1>6, <1>7, <1>8 DEF Next, ClientStep, ServerStep

LEMMA PaidFirstStep == ASSUME IInv, PaidFirst, [Next]_vars PROVE PaidFirst'
<1>1. published \subseteq published'
  BY DEF Next, ClientStep, ServerStep, vars, Click, Pay, Hear, ClientCallFails, CloseTab, Admit,
         CheckLimits, CreateProperty, SignMint, Internalize, InsertProperty, InsertDescription,
         ServerCallFails, PushToOverlay, ServerCrash
<1>2. ASSUME NEW g \in Flows, server[g] = "idle", server'[g] # "idle" PROVE Paid(g)'
  <2>1. ASSUME NEW f \in Flows, Pay(f) PROVE Paid(g)'
    <3>1. server' = server \/ ServerGoto(f, "arrive")
      BY <2>1 DEF Pay
    <3>2. g = f
      BY <1>2, <3>1 DEF ServerGoto, IInv, TypeOK
    <3> QED
      BY <2>1, <3>2 DEF Pay, Paid
  <2>2. ASSUME NEW f \in Flows, ServerStep(f) \/ ServerCallFails(f) PROVE FALSE
    <3>1. server[f] # "idle"
      BY <2>2 DEF ServerStep, Admit, CheckLimits, CreateProperty, SignMint, Internalize,
                  InsertProperty, InsertDescription, ServerCallFails
    <3>2. \A h \in Flows \ {f} : server'[h] = server[h]
      BY <2>2 DEF ServerStep, Admit, CheckLimits, CreateProperty, SignMint, Internalize,
                  InsertProperty, InsertDescription, ServerCallFails, Reject, Abort, Refuse, Succeed,
                  Continue, ServerGoto, IInv, TypeOK
    <3> QED
      BY <1>2, <3>1, <3>2
  <2>3. ~ServerCrash
    BY <1>2 DEF ServerCrash, ServerActive
  <2>4. ASSUME NEW f \in Flows,
               Click(f) \/ Hear(f) \/ ClientCallFails(f) \/ CloseTab(f) \/ PushToOverlay(f)
        PROVE  FALSE
    BY <1>2, <2>4 DEF Click, Hear, ClientCallFails, CloseTab, PushToOverlay
  <2>5. server' # server
    BY <1>2
  <2> QED
    BY <2>1, <2>2, <2>3, <2>4, <2>5 DEF Next, ClientStep, vars
<1> QED
  BY <1>1, <1>2 DEF PaidFirst, Paid

\* The action at the head of the queue is that of a handler at one of its
\* steps, and signing, which spends the payment, finds it there and unspent;
\* whoever awaits an action is in the queue.
NobodyIsStranded ==
  /\ queue # <<>> =>
       /\ server[Head(queue)] \in Awaiting
       /\ server[Head(queue)] = "mint" => Paid(Head(queue)) /\ ~Minted(Head(queue))
  /\ \A f \in Flows : server[f] \in Awaiting => \E i \in 1 .. Len(queue) : queue[i] = f

\* In whatever way a submission leaves its wallet action, the action
\* settles: none is left at the head with nobody to end it, or with an input
\* that cannot be spent, and none is lost while its handler awaits it
\* (tokenize.ts:164).
THEOREM ActionsAreServed == Spec => []NobodyIsStranded
<1>1. Init => QueueInv /\ PaidFirst
  BY EmptySeq DEF Init, QueueInv, PaidFirst, Awaiting
<1>2. IInv /\ QueueInv /\ PaidFirst /\ [Next]_vars => QueueInv' /\ PaidFirst'
  BY QueueStep, PaidFirstStep
<1>3. IInv /\ QueueInv /\ PaidFirst => NobodyIsStranded
  <2> SUFFICES ASSUME IInv, QueueInv, PaidFirst, queue # <<>>
               PROVE  /\ server[Head(queue)] \in Awaiting
                      /\ server[Head(queue)] = "mint" => Paid(Head(queue)) /\ ~Minted(Head(queue))
    BY DEF QueueInv, NobodyIsStranded
  <2>1. Head(queue) = queue[1] /\ 1 \in 1 .. Len(queue) /\ Head(queue) \in Flows
    BY EmptySeq, LenProperties, HeadTailProperties DEF IInv, TypeOK
  <2> QED
    BY <2>1 DEF QueueInv, PaidFirst, IInv, Controlled, HandledAt
<1> QED
  BY <1>1, <1>2, <1>3, AlwaysIInv, PTL DEF Spec
=============================================================================
