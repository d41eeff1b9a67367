---------------------------- MODULE WalletService ---------------------------
(***************************************************************************)
(* server/lib/serverWallet.ts and getWalletQueue() of walletQueue.ts: how  *)
(* the routes come by the one wallet and the one queue over it, composed   *)
(* with that queue.                                                        *)
(*                                                                         *)
(* Both functions memoise a promise that may still be pending.  A promise  *)
(* that rejects must leave the memo before anyone who was waiting for it   *)
(* can ask again, and a memo must never be dropped that others hold.  What *)
(* decides is the order of the reactions, so they are kept: hooks[p] are   *)
(* the reactions registered with p, reactions the ones whose turn it is.   *)
(* The microtasks of the queue are in WalletQueue's own `jobs`; how the    *)
(* two interleave is left open.                                            *)
(***************************************************************************)
EXTENDS WalletQueue

CONSTANTS
  Callers,        \* routes that await getWalletQueue() and then enqueue()
  Borrowers,      \* routes and probes that await getServerWallet()
  MaxBuilds,      \* bound: how many wallets are ever begun, and queues
  Nobody

ASSUME CallersAssumption == Callers \cap Borrowers = {}
ASSUME BuildsAssumption == MaxBuilds \in Nat
ASSUME NobodyAssumption == Nobody \notin {"wallet", "queue"} \X (1 .. MaxBuilds)

Users == Callers \cup Borrowers

Wallets == {"wallet"} \X (1 .. MaxBuilds)     \* promises of makeWallet()
Queues == {"queue"} \X (1 .. MaxBuilds)       \* promises of a WalletQueue
Promises == Wallets \cup Queues

Reactions == ({"clear"} \X Promises) \cup ({"derive"} \X Queues) \cup ({"resume"} \X Users)

VARIABLES
  walletPromise,      \* the memo of getServerWallet(), or Nobody
  singletonPromise,   \* the memo of getWalletQueue(), or Nobody
  promise,            \* promise[p]: "unborn", "pending" or settled
  base,               \* base[q]: the wallet promise that queue q chains off
  hooks,              \* hooks[p]: the reactions registered with p
  reactions,          \* the reactions the engine has yet to run
  at,                 \* at[u]: "idle", "waiting", "served" or "failed"
  asked               \* asked[u]: the promise u was last given

memos == <<walletPromise, singletonPromise, promise, base, hooks>>
users == <<at, asked>>

serviceVars == <<vars, memos, reactions, users>>

ServiceInit ==
  /\ Init
  /\ walletPromise = Nobody
  /\ singletonPromise = Nobody
  /\ promise = [p \in Promises |-> "unborn"]
  /\ base = [q \in Queues |-> Nobody]
  /\ hooks = [p \in Promises |-> <<>>]
  /\ reactions = <<>>
  /\ at = [u \in Users |-> "idle"]
  /\ asked = [u \in Users |-> Nobody]
-----------------------------------------------------------------------------
\* The next promise of its kind to be created.
IsNext(p, kind) ==
  /\ p \in {kind} \X (1 .. MaxBuilds)
  /\ promise[p] = "unborn"
  /\ \A i \in 1 .. p[2] - 1 : promise[<<kind, i>>] # "unborn"

\* A route may call at any moment, and again after it has failed.
Awaits(u, p) ==
  /\ at[u] \in {"idle", "failed"}
  /\ at' = [at EXCEPT ![u] = "waiting"]
  /\ asked' = [asked EXCEPT ![u] = p]

\* p.then(...): the reaction is kept with p while p is pending, or takes its
\* turn at once.  `fresh` are the hooks of promises created by this call.
Register(p, job, fresh) ==
  IF promise[p] = "pending"
  THEN hooks' = [fresh EXCEPT ![p] = Append(@, job)] /\ UNCHANGED reactions
  ELSE hooks' = fresh /\ reactions' = Append(reactions, job)

\* Mutant of WalletIsMemoised: only a resolved wallet is kept.
WalletIsResolved == walletPromise # Nobody /\ promise[walletPromise] = "fulfilled"

WalletIsMemoised == walletPromise # Nobody

\* Mutant of QueueIsMemoised: only a resolved queue is kept.
QueueIsResolved == singletonPromise # Nobody /\ promise[singletonPromise] = "fulfilled"

QueueIsMemoised == singletonPromise # Nobody

\* getServerWallet() finds the memo.
BorrowMemo(u) ==
  /\ u \in Borrowers /\ WalletIsMemoised
  /\ Awaits(u, walletPromise)
  /\ Register(walletPromise, <<"resume", u>>, hooks)
  /\ UNCHANGED <<vars, walletPromise, singletonPromise, promise, base>>

\* getServerWallet() begins a handshake; the reaction that clears the memo
\* is the first to be registered.
BorrowAfresh(u) ==
  /\ u \in Borrowers /\ ~WalletIsMemoised
  /\ \E w \in Wallets :
       /\ IsNext(w, "wallet")
       /\ Awaits(u, w)
       /\ walletPromise' = w
       /\ promise' = [promise EXCEPT ![w] = "pending"]
       /\ hooks' = [hooks EXCEPT ![w] = << <<"clear", w>>, <<"resume", u>> >>]
  /\ UNCHANGED <<vars, singletonPromise, base, reactions>>

\* getWalletQueue() finds the memo.
AskMemo(u) ==
  /\ u \in Callers /\ QueueIsMemoised
  /\ Awaits(u, singletonPromise)
  /\ Register(singletonPromise, <<"resume", u>>, hooks)
  /\ UNCHANGED <<vars, walletPromise, singletonPromise, promise, base>>

\* getWalletQueue() chains a new queue off the memoised wallet.
AskOverWallet(u) ==
  /\ u \in Callers /\ ~QueueIsMemoised /\ WalletIsMemoised
  /\ \E q \in Queues :
       /\ IsNext(q, "queue")
       /\ Awaits(u, q)
       /\ singletonPromise' = q
       /\ base' = [base EXCEPT ![q] = walletPromise]
       /\ promise' = [promise EXCEPT ![q] = "pending"]
       /\ Register(walletPromise, <<"derive", q>>,
                   [hooks EXCEPT ![q] = << <<"clear", q>>, <<"resume", u>> >>])
  /\ UNCHANGED <<vars, walletPromise>>

\* getWalletQueue() begins a handshake and chains a new queue off it.
AskAfresh(u) ==
  /\ u \in Callers /\ ~QueueIsMemoised /\ ~WalletIsMemoised
  /\ \E q \in Queues, w \in Wallets :
       /\ IsNext(q, "queue") /\ IsNext(w, "wallet")
       /\ Awaits(u, q)
       /\ walletPromise' = w /\ singletonPromise' = q
       /\ base' = [base EXCEPT ![q] = w]
       /\ promise' = [promise EXCEPT ![q] = "pending", ![w] = "pending"]
       /\ hooks' = [hooks EXCEPT ![q] = << <<"clear", q>>, <<"resume", u>> >>,
                                 ![w] = << <<"clear", w>>, <<"derive", q>> >>]
  /\ UNCHANGED <<vars, reactions>>
-----------------------------------------------------------------------------
\* makeWallet() returns or throws: both of its calls go over the network.
Handshake(w) ==
  /\ promise[w] = "pending"
  /\ \E outcome \in Settled : promise' = [promise EXCEPT ![w] = outcome]
  /\ reactions' = reactions \o hooks[w]
  /\ UNCHANGED <<vars, walletPromise, singletonPromise, base, hooks, users>>

Turn(job) == reactions # <<>> /\ Head(reactions) = job

\* Mutant of Clear: the memo keeps a promise that was rejected.
ClearNothing(p) ==
  /\ Turn(<<"clear", p>>)
  /\ reactions' = Tail(reactions)
  /\ UNCHANGED <<vars, memos, users>>

\* walletPromise.catch and singletonPromise.catch.
Clear(p) ==
  /\ Turn(<<"clear", p>>)
  /\ reactions' = Tail(reactions)
  /\ walletPromise' = IF p \in Wallets /\ promise[p] = "rejected" THEN Nobody ELSE walletPromise
  /\ singletonPromise' = IF p \in Queues /\ promise[p] = "rejected" THEN Nobody ELSE singletonPromise
  /\ UNCHANGED <<vars, promise, base, hooks, users>>

\* then(w => new WalletQueue(w)): the queue's promise goes the wallet's way.
Derive(q) ==
  /\ Turn(<<"derive", q>>)
  /\ promise' = [promise EXCEPT ![q] = promise[base[q]]]
  /\ reactions' = Tail(reactions) \o hooks[q]
  /\ UNCHANGED <<vars, walletPromise, singletonPromise, base, hooks, users>>

\* The tickets that no action will enqueue from inside another.
Outer == {a \in Actions : \A pair \in Nested : pair[2] # a}

\* The route resumes: with the queue in its hands it enqueues at once.
Resume(u) ==
  /\ Turn(<<"resume", u>>)
  /\ reactions' = Tail(reactions)
  /\ IF promise[asked[u]] = "fulfilled"
     THEN /\ at' = [at EXCEPT ![u] = "served"]
          /\ IF u \in Callers THEN \E a \in Outer : Enqueue(a) ELSE UNCHANGED vars
     ELSE at' = [at EXCEPT ![u] = "failed"] /\ UNCHANGED vars
  /\ UNCHANGED <<memos, asked>>

\* The queue does its work, and an action may misuse it from inside.
QueueStep ==
  /\ \E a \in Actions : Engine(a) \/ Finish(a) \/ (a \notin Outer /\ Enqueue(a))
  /\ UNCHANGED <<memos, reactions, users>>

React ==
  \/ \E p \in Promises : Clear(p)
  \/ \E q \in Queues : Derive(q)
  \/ \E u \in Users : Resume(u)

ServiceNext ==
  \/ \E u \in Users :
       BorrowMemo(u) \/ BorrowAfresh(u) \/ AskMemo(u) \/ AskOverWallet(u) \/ AskAfresh(u)
  \/ \E w \in Wallets : Handshake(w)
  \/ React
  \/ QueueStep

ServiceSpec == ServiceInit /\ [][ServiceNext]_serviceVars

\* The engine runs what is queued, and a handshake and an action end.  No
\* route is obliged to call.
ServiceFairness ==
  /\ WF_serviceVars(React)
  /\ \A w \in Wallets : WF_serviceVars(Handshake(w))
  /\ WF_serviceVars(\E a \in Actions : Engine(a) /\ UNCHANGED <<memos, reactions, users>>)
  /\ \A a \in Actions : WF_serviceVars(Finish(a) /\ UNCHANGED <<memos, reactions, users>>)

FairServiceSpec == ServiceSpec /\ ServiceFairness
-----------------------------------------------------------------------------
PromiseStates == {"unborn", "pending"} \cup Settled

\* Every variable has its type.
ServiceTypeOK ==
  /\ TypeOK
  /\ walletPromise \in Wallets \cup {Nobody} /\ singletonPromise \in Queues \cup {Nobody}
  /\ promise \in [Promises -> PromiseStates]
  /\ base \in [Queues -> Wallets \cup {Nobody}]
  /\ hooks \in [Promises -> Seq(Reactions)] /\ reactions \in Seq(Reactions)
  /\ at \in [Users -> {"idle", "waiting", "served", "failed"}]
  /\ asked \in [Users -> Promises \cup {Nobody}]

Alive(p) == promise[p] \in {"pending", "fulfilled"}

\* "two queues over one wallet would not serialize anything"
\* (walletQueue.ts:50): however calls, retries and rejections interleave, at
\* most one wallet and one queue are ever built or being built, and whoever
\* was served holds those.
OneQueue ==
  /\ \A v, w \in Wallets : Alive(v) /\ Alive(w) => v = w
  /\ \A p, q \in Queues : Alive(p) /\ Alive(q) => p = q
  /\ \A u \in Users : at[u] = "served" => promise[asked[u]] = "fulfilled"

\* "A rejection clears the memo so a transient storage outage is retryable"
\* (serverWallet.ts:11): by the time a route hears of a rejection it has
\* left the memo, so that asking again asks anew; and once the reactions
\* have run neither memo holds one.
FailureIsForgotten ==
  /\ \A u \in Users : at[u] = "failed" => asked[u] \notin {walletPromise, singletonPromise}
  /\ reactions = <<>> =>
       \A p \in {walletPromise, singletonPromise} : p # Nobody => promise[p] # "rejected"

=============================================================================
