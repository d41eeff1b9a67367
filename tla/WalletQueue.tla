----------------------------- MODULE WalletQueue ----------------------------
(***************************************************************************)
(* server/lib/walletQueue.ts: the promise chain through which every action *)
(* on the server wallet's UTXOs passes.                                    *)
(*                                                                         *)
(* enqueue() hangs three reactions on promises and returns; everything     *)
(* else happens in microtasks, which the JavaScript engine runs one at a   *)
(* time in the order they were queued.  The model keeps that queue of jobs *)
(* because the order of the reactions is what makes depth() right and what *)
(* starts the next action.                                                 *)
(*                                                                         *)
(* An action is named by its ticket: the n-th call of enqueue() creates    *)
(* action n.  Promise 0 is the resolved promise `tail` starts as.          *)
(***************************************************************************)
EXTENDS Integers, Sequences, FiniteSets

CONSTANTS
  MaxActions,     \* how many calls of enqueue() are made
  Nested          \* pairs <<outer, inner>>: action `outer` calls enqueue()
                  \* for `inner` and awaits it before it finishes

Actions == 1 .. MaxActions

ASSUME MaxActionsAssumption == MaxActions \in Nat
ASSUME NestedAssumption == Nested \subseteq Actions \X Actions

Settled == {"fulfilled", "rejected"}

Results == {"unborn", "waiting", "running"} \cup Settled

Jobs == {"start", "advance", "settle", "reply"} \X Actions

VARIABLES
  tail,       \* this.tail: the action whose tail promise it is, 0 at first
  after,      \* after[a]: the tail promise that a's result chains off
  result,     \* result[a]: the promise enqueue() returned, "unborn" before
  tailDone,   \* the actions whose tail promise is fulfilled
  pending,    \* this.pending
  jobs,       \* the microtask queue
  answered    \* the actions whose caller has resumed

vars == <<tail, after, result, tailDone, pending, jobs, answered>>

Init ==
  /\ tail = 0
  /\ after = [a \in Actions |-> 0]
  /\ result = [a \in Actions |-> "unborn"]
  /\ tailDone = {}
  /\ pending = 0
  /\ jobs = <<>>
  /\ answered = {}

(***************************************************************************)
(* A caller may call enqueue() at any moment, except that an inner action  *)
(* is enqueued by its outer action, while that runs.                       *)
(***************************************************************************)
MayEnqueue(a) ==
  /\ result[a] = "unborn"
  /\ \A b \in Actions : b < a => result[b] # "unborn"
  /\ \A pair \in Nested : pair[2] = a => result[pair[1]] = "running"

\* Mutant of IsResolved: enqueue() does not wait for the tail.
AlwaysResolved(promise) == promise \in 0 .. MaxActions

IsResolved(promise) == promise = 0 \/ promise \in tailDone

Enqueue(a) ==
  /\ MayEnqueue(a)
  /\ pending' = pending + 1
  /\ result' = [result EXCEPT ![a] = "waiting"]
  /\ after' = [after EXCEPT ![a] = tail]
  /\ tail' = a
  /\ jobs' = IF IsResolved(tail) THEN Append(jobs, <<"start", a>>) ELSE jobs
  /\ UNCHANGED <<tailDone, answered>>

\* The engine takes the next job from the queue.
Takes(job) == jobs # <<>> /\ Head(jobs) = job

\* tail.then(() => fn(wallet)): the action's function is called.
Start(a) ==
  /\ Takes(<<"start", a>>)
  /\ result' = [result EXCEPT ![a] = "running"]
  /\ jobs' = Tail(jobs)
  /\ UNCHANGED <<tail, after, tailDone, pending, answered>>

\* Mutant of Finish: the decrement is registered after the caller's reaction.
FinishRepliesFirst(a) ==
  /\ result[a] = "running"
  /\ \A pair \in Nested : pair[1] = a => pair[2] \in answered
  /\ \E outcome \in Settled : result' = [result EXCEPT ![a] = outcome]
  /\ jobs' = jobs \o << <<"advance", a>>, <<"reply", a>>, <<"settle", a>> >>
  /\ UNCHANGED <<tail, after, tailDone, pending, answered>>

(***************************************************************************)
(* The promise fn returned settles, one way or the other.  Its reactions   *)
(* are queued in the order they were registered: the new tail, the         *)
(* decrement of pending, and last the caller, which could only await the   *)
(* promise after enqueue() had returned it.                                *)
(***************************************************************************)
Finish(a) ==
  /\ result[a] = "running"
  /\ \A pair \in Nested : pair[1] = a => pair[2] \in answered
  /\ \E outcome \in Settled : result' = [result EXCEPT ![a] = outcome]
  /\ jobs' = jobs \o << <<"advance", a>>, <<"settle", a>>, <<"reply", a>> >>
  /\ UNCHANGED <<tail, after, tailDone, pending, answered>>

\* Mutant of Advance: the tail has no rejection handler, so a rejected
\* action leaves whatever chained off it waiting.
AdvanceOnSuccess(a) ==
  LET next == {b \in Actions : result[b] = "waiting" /\ after[b] = a}
  IN /\ Takes(<<"advance", a>>)
     /\ tailDone' = IF result[a] = "fulfilled" THEN tailDone \cup {a} ELSE tailDone
     /\ jobs' = IF result[a] = "fulfilled" /\ next # {}
                THEN Append(Tail(jobs), <<"start", CHOOSE b \in next : TRUE>>)
                ELSE Tail(jobs)
     /\ UNCHANGED <<tail, after, result, pending, answered>>

\* Both handlers of result.then(...) return, so the tail promise is always
\* fulfilled; whatever chained off it can start.
Advance(a) ==
  /\ Takes(<<"advance", a>>)
  /\ tailDone' = tailDone \cup {a}
  /\ jobs' = IF \E b \in Actions : result[b] = "waiting" /\ after[b] = a
             THEN Append(Tail(jobs),
                         <<"start", CHOOSE b \in Actions : result[b] = "waiting" /\ after[b] = a>>)
             ELSE Tail(jobs)
  /\ UNCHANGED <<tail, after, result, pending, answered>>

Settle(a) ==
  /\ Takes(<<"settle", a>>)
  /\ pending' = pending - 1
  /\ jobs' = Tail(jobs)
  /\ UNCHANGED <<tail, after, result, tailDone, answered>>

\* The caller of enqueue() resumes with the value or the error.
Reply(a) ==
  /\ Takes(<<"reply", a>>)
  /\ answered' = answered \cup {a}
  /\ jobs' = Tail(jobs)
  /\ UNCHANGED <<tail, after, result, tailDone, pending>>

Engine(a) == Start(a) \/ Advance(a) \/ Settle(a) \/ Reply(a)

Next == \E a \in Actions : Enqueue(a) \/ Engine(a) \/ Finish(a)

Spec == Init /\ [][Next]_vars

(***************************************************************************)
(* The engine never leaves a job unrun, and an action ends (its calls of   *)
(* the wallet return or throw).  No caller is obliged to call enqueue().   *)
(***************************************************************************)
Fairness == /\ WF_vars(\E a \in Actions : Engine(a))
            /\ \A a \in Actions : WF_vars(Finish(a))

FairSpec == Spec /\ Fairness
-----------------------------------------------------------------------------
depth == pending

\* Every variable has its type.
TypeOK ==
  /\ tail \in 0 .. MaxActions
  /\ after \in [Actions -> 0 .. MaxActions]
  /\ result \in [Actions -> Results]
  /\ tailDone \subseteq Actions
  /\ pending \in Int
  /\ jobs \in Seq(Jobs)
  /\ answered \subseteq Actions

\* "At most one runs at a time (FIFO)" (walletQueue.ts:8): once an action
\* has been started, every action enqueued before it has settled.
Serial ==
  \A a, b \in Actions :
    (a < b /\ result[b] \in {"running"} \cup Settled) => result[a] \in Settled

\* depth() when the microtasks have run is the number of actions that have
\* not settled; it never goes below zero, and a caller who has its answer
\* is no longer counted, whatever else is in flight.
DepthIsExact ==
  LET Unsettled == {a \in Actions : result[a] \in {"waiting", "running"}}
      Unanswered == {a \in Actions : result[a] # "unborn"} \ answered
  IN /\ depth >= Cardinality(Unsettled)
     /\ depth <= Cardinality(Unanswered)
     /\ jobs = <<>> => depth = Cardinality(Unsettled)

\* The queue behaves as the serial executor the routes rely on: each start
\* is one the abstract executor allows, in its order.
Executor == INSTANCE SerialExecutor WITH phase <- result

ImplementsSerialExecutor == Executor!SSpec

\* An action that will wait for itself stands before a, or is a and has begun.
Trapped(a) ==
  \E pair \in Nested : pair[1] < a \/ (pair[1] = a /\ result[a] = "running")

\* "A rejected action rejects only its own caller and never blocks later
\* actions" (walletQueue.ts:9): whoever enqueues is answered, unless an
\* action before it waits for itself.
EveryCallerAnswered ==
  \A a \in Actions : result[a] = "waiting" ~> a \in answered \/ Trapped(a)

\* What walletQueue.ts:14 warns of: an action that enqueues another and
\* awaits it never finishes, and depth() stays pinned above zero.
NestedNeverFinishes ==
  [][\A pair \in Nested :
       result[pair[2]] = "waiting" =>
         result'[pair[2]] = "waiting" /\ result'[pair[1]] = "running" /\ pending' >= 2]_vars
=============================================================================
