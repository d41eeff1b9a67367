----------------------------- MODULE WalletProofs ---------------------------
(***************************************************************************)
(* Proofs about WalletQueue and WalletService, which composes it with the  *)
(* memos through which the routes come by the wallet and the queue.        *)
(*                                                                         *)
(* The queue first, for any number of actions: one at a time and in order, *)
(* what depth() counts, what nesting does, and that the promise chain      *)
(* implements SerialExecutor.                                              *)
(***************************************************************************)
EXTENDS WalletService, FiniteSetTheorems, SequenceTheorems, TLAPS

Started(a) == result[a] \in {"running"} \cup Settled

\* Job j is somewhere in the microtask queue.
Queued(j) == \E i \in 1 .. Len(jobs) : jobs[i] = j

\* a's turn has come: its function has been called, or is about to be.
HasTurn(a) == Started(a) \/ Queued(<<"start", a>>)

(***************************************************************************)
(* The chain: action a hangs off the tail of action a - 1, and only the    *)
(* last action enqueued is the tail.                                       *)
(***************************************************************************)
Chained ==
  /\ \A a \in Actions : result[a] # "unborn" <=> a <= tail
  /\ \A a \in Actions : a <= tail => after[a] = a - 1

(***************************************************************************)
(* What makes the chain serial: a turn comes only when every earlier       *)
(* action has both settled and fulfilled its tail promise.  Serial alone   *)
(* is not inductive, because it says nothing of the jobs still queued.     *)
(***************************************************************************)
TurnsInOrder ==
  /\ \A a, b \in Actions : a < b /\ HasTurn(b) => result[a] \in Settled /\ a \in tailDone
  /\ \A a \in tailDone : result[a] \in Settled
  /\ \A a \in Actions : Queued(<<"start", a>>) => result[a] = "waiting"
  /\ \A a \in Actions : Queued(<<"advance", a>>) => result[a] \in Settled /\ a \notin tailDone

\* No start and no advance is queued twice.
Once ==
  \A i, j \in 1 .. Len(jobs) :
    jobs[i] = jobs[j] /\ jobs[i][1] \in {"start", "advance"} => i = j

IInv == TypeOK /\ Chained /\ TurnsInOrder /\ Once
-----------------------------------------------------------------------------
\* A step that takes a job queues nothing new, and what it took is gone if
\* it was queued once.
LEMMA TakeShrinks ==
  ASSUME TypeOK, NEW job \in Jobs, Takes(job), jobs' = Tail(jobs)
  PROVE  /\ \A j : Queued(j)' => Queued(j)
         /\ Queued(job)
         /\ Once => Once'
         /\ Once /\ job[1] \in {"start", "advance"} => ~Queued(job)'
  <1> jobs \in Seq(Jobs) /\ jobs # <<>> /\ Len(jobs) \in Nat /\ Len(jobs) > 0
    BY LenProperties, EmptySeq DEF TypeOK, Takes
  <1>1. /\ Len(jobs') = Len(jobs) - 1
        /\ \A i \in 1 .. Len(jobs') : jobs'[i] = jobs[i + 1]
    BY HeadTailProperties
  <1>2. \A i \in 1 .. Len(jobs') : i + 1 \in 1 .. Len(jobs)
    BY <1>1
  <1>3. jobs[1] = job
    BY DEF Takes
  <1>4. Queued(job)
    BY <1>3 DEF Queued
  <1>5. \A j : Queued(j)' => Queued(j)
    BY <1>1, <1>2 DEF Queued
  <1>6. Once => Once'
    BY <1>1, <1>2 DEF Once
  <1>7. Once /\ job[1] \in {"start", "advance"} => ~Queued(job)'
    BY <1>1, <1>2, <1>3 DEF Once, Queued
  <1> QED
    BY <1>4, <1>5, <1>6, <1>7

\* Appending a job that is not queued keeps the queue free of duplicates.
LEMMA AppendGrows ==
  ASSUME NEW s \in Seq(Jobs), NEW job \in Jobs, jobs' = Append(s, job)
  PROVE  /\ \A j : Queued(j)' <=> (\E i \in 1 .. Len(s) : s[i] = j) \/ j = job
         /\ /\ \A i \in 1 .. Len(s) : s[i] # job
            /\ \A i, j \in 1 .. Len(s) :
                 s[i] = s[j] /\ s[i][1] \in {"start", "advance"} => i = j
            => Once'
  <1> Len(s) \in Nat
    BY LenProperties
  <1>1. /\ Len(jobs') = Len(s) + 1
        /\ \A i \in 1 .. Len(s) : jobs'[i] = s[i]
        /\ jobs'[Len(s) + 1] = job
    BY AppendProperties
  <1>2. \A i \in 1 .. Len(jobs') : i \in 1 .. Len(s) \/ i = Len(s) + 1
    BY <1>1
  <1>3. \A j : Queued(j)' <=> (\E i \in 1 .. Len(s) : s[i] = j) \/ j = job
    BY <1>1, <1>2 DEF Queued
  <1>4. ASSUME \A i \in 1 .. Len(s) : s[i] # job,
               \A i, j \in 1 .. Len(s) :
                 s[i] = s[j] /\ s[i][1] \in {"start", "advance"} => i = j
        PROVE  Once'
    BY <1>1, <1>2, <1>4 DEF Once
  <1> QED
    BY <1>3, <1>4

\* The empty chain is in order.
LEMMA InitIInv == Init => IInv
  <1> SUFFICES ASSUME Init PROVE IInv
    OBVIOUS
  <1>1. TypeOK
    BY MaxActionsAssumption DEF Init, TypeOK, Actions, Results
  <1>2. \A j : ~Queued(j)
    BY DEF Init, Queued
  <1>3. Chained
    BY DEF Init, Chained, Actions
  <1>4. TurnsInOrder
    BY <1>2 DEF Init, TurnsInOrder, HasTurn, Started, Settled
  <1>5. Once
    BY DEF Init, Once
  <1> QED
    BY <1>1, <1>3, <1>4, <1>5 DEF IInv

\* Every step keeps the types.
LEMMA TypeStep == TypeOK /\ [Next]_vars => TypeOK'
  <1> SUFFICES ASSUME TypeOK, [Next]_vars PROVE TypeOK'
    OBVIOUS
  <1> USE MaxActionsAssumption DEF TypeOK, Actions, Results, Settled, Jobs
  <1>1. ASSUME NEW a \in Actions, Enqueue(a) PROVE TypeOK'
    <2>1. <<"start", a>> \in Jobs
      OBVIOUS
    <2>2. jobs' \in Seq(Jobs)
      BY <1>1, <2>1, AppendProperties DEF Enqueue
    <2> QED
      BY <1>1, <2>2 DEF Enqueue
  <1>2. ASSUME NEW a \in Actions, Start(a) PROVE TypeOK'
    BY <1>2, HeadTailProperties DEF Start, Takes
  <1>3. ASSUME NEW a \in Actions, Advance(a) PROVE TypeOK'
    <2>1. Tail(jobs) \in Seq(Jobs)
      BY <1>3, HeadTailProperties DEF Advance, Takes
    <2>2. ASSUME NEW b \in Actions PROVE Append(Tail(jobs), <<"start", b>>) \in Seq(Jobs)
      BY <2>1, AppendProperties
    <2>3. CASE \E b \in Actions : result[b] = "waiting" /\ after[b] = a
      <3>1. PICK b \in Actions : jobs' = Append(Tail(jobs), <<"start", b>>)
        BY <1>3, <2>3 DEF Advance
      <3> QED
        BY <1>3, <2>2, <3>1 DEF Advance
    <2> QED
      BY <1>3, <2>1, <2>3 DEF Advance
  <1>4. ASSUME NEW a \in Actions, Settle(a) PROVE TypeOK'
    BY <1>4, HeadTailProperties DEF Settle, Takes
  <1>5. ASSUME NEW a \in Actions, Reply(a) PROVE TypeOK'
    BY <1>5, HeadTailProperties DEF Reply, Takes
  <1>6. ASSUME NEW a \in Actions, Finish(a) PROVE TypeOK'
    <2>1. << <<"advance", a>>, <<"settle", a>>, <<"reply", a>> >> \in Seq(Jobs)
      OBVIOUS
    <2>2. jobs' \in Seq(Jobs)
      BY <1>6, <2>1, ConcatProperties DEF Finish
    <2> QED
      BY <1>6, <2>2 DEF Finish
  <1>7. CASE UNCHANGED vars
    BY <1>7 DEF vars
  <1> QED
    BY <1>1, <1>2, <1>3, <1>4, <1>5, <1>6, <1>7 DEF Next, Engine

-----------------------------------------------------------------------------
\* enqueue() puts the new action at the end of the chain.
LEMMA EnqueueStep ==
  ASSUME IInv, NEW a \in Actions, Enqueue(a)
  PROVE  Chained' /\ TurnsInOrder' /\ Once'
  <1> USE MaxActionsAssumption DEF IInv, TypeOK, Actions
  <1>1. a = tail + 1 /\ tail' = a
    <2>1. ~(a <= tail) /\ tail' = a
      BY DEF Enqueue, MayEnqueue, Chained
    <2>2. CASE a - 1 \in Actions
      <3>1. result[a - 1] # "unborn"
        BY <2>2 DEF Enqueue, MayEnqueue
      <3>2. a - 1 <= tail
        BY <2>2, <3>1 DEF Chained
      <3> QED
        BY <2>1, <3>2
    <2>3. CASE a - 1 \notin Actions
      BY <2>1, <2>3
    <2> QED
      BY <2>1, <2>2, <2>3
  <1>2. /\ result' = [result EXCEPT ![a] = "waiting"]
        /\ after' = [after EXCEPT ![a] = tail]
        /\ tailDone' = tailDone
        /\ result[a] = "unborn"
    BY DEF Enqueue, MayEnqueue
  <1>3. Chained'
    <2>1. \A b \in Actions : b <= a <=> b <= tail \/ b = a
      BY <1>1
    <2>2. \A b \in Actions : result'[b] # "unborn" <=> b <= tail'
      BY <1>1, <1>2, <2>1 DEF Chained
    <2>3. \A b \in Actions : b <= tail' => after'[b] = b - 1
      BY <1>1, <1>2, <2>1 DEF Chained
    <2> QED
      BY <2>2, <2>3 DEF Chained
  <1>4. \A k \in {"start", "advance"} : ~Queued(<<k, a>>)
    BY <1>2 DEF TurnsInOrder, Settled
  <1>5. CASE ~IsResolved(tail)
    <2>1. jobs' = jobs
      BY <1>5 DEF Enqueue
    <2> QED
      BY <1>2, <1>3, <1>4, <2>1 DEF TurnsInOrder, Once, HasTurn, Started, Queued, Settled
  <1>6. CASE IsResolved(tail)
    <2>1. jobs' = Append(jobs, <<"start", a>>) /\ <<"start", a>> \in Jobs
      BY <1>6 DEF Enqueue, Jobs
    <2>2. \A j : Queued(j)' <=> Queued(j) \/ j = <<"start", a>>
      BY <2>1, AppendGrows DEF Queued
    <2>3. Once'
      BY <2>1, <1>4, AppendGrows DEF Queued, Once
    <2>4. \A b \in Actions : b < a => result[b] \in Settled /\ b \in tailDone
      <3> SUFFICES ASSUME NEW b \in Actions, b < a
                   PROVE  result[b] \in Settled /\ b \in tailDone
        OBVIOUS
      <3>1. tail \in tailDone /\ result[tail] \in Settled /\ tail \in Actions
        BY <1>1, <1>6 DEF IsResolved, TurnsInOrder
      <3>2. CASE b = tail
        BY <3>1, <3>2
      <3>3. CASE b < tail
        BY <3>1, <3>3 DEF TurnsInOrder, HasTurn, Started
      <3> QED
        BY <1>1, <3>2, <3>3
    <2>5. \A b \in Actions : HasTurn(b)' => HasTurn(b) \/ b = a
      BY <1>2, <2>2 DEF HasTurn, Started, Settled
    <2>6. TurnsInOrder'
      <3>1. \A b, c \in Actions : b < c /\ HasTurn(c)' => result'[b] \in Settled /\ b \in tailDone'
        BY <1>2, <2>4, <2>5 DEF TurnsInOrder, Settled
      <3>2. \A b \in tailDone' : result'[b] \in Settled
        BY <1>2 DEF TurnsInOrder, Settled
      <3>3. \A b \in Actions : Queued(<<"start", b>>)' => result'[b] = "waiting"
        BY <1>2, <2>2 DEF TurnsInOrder
      <3>4. \A b \in Actions : Queued(<<"advance", b>>)' => result'[b] \in Settled /\ b \notin tailDone'
        BY <1>2, <2>2, <1>4 DEF TurnsInOrder
      <3> QED
        BY <3>1, <3>2, <3>3, <3>4 DEF TurnsInOrder
    <2> QED
      BY <1>3, <2>3, <2>6
  <1> QED
    BY <1>5, <1>6

\* Starting an action moves its turn from the queue into the action.
LEMMA StartStep ==
  ASSUME IInv, NEW a \in Actions, Start(a)
  PROVE  Chained' /\ TurnsInOrder' /\ Once'
  <1> USE DEF IInv, TypeOK
  <1>1. <<"start", a>> \in Jobs /\ Takes(<<"start", a>>) /\ jobs' = Tail(jobs)
    BY DEF Start, Jobs
  <1>2. /\ \A j : Queued(j)' => Queued(j)
        /\ Queued(<<"start", a>>)
        /\ ~Queued(<<"start", a>>)'
        /\ Once'
    BY <1>1, TakeShrinks
  <1>3. result' = [result EXCEPT ![a] = "running"] /\ tailDone' = tailDone /\ result[a] = "waiting"
    BY <1>2 DEF Start, TurnsInOrder
  <1>4. Chained'
    BY <1>3 DEF Start, Chained
  <1>5. \A b \in Actions : HasTurn(b)' => HasTurn(b)
    BY <1>2, <1>3 DEF HasTurn, Started, Settled
  <1>6. TurnsInOrder'
    BY <1>2, <1>3, <1>5 DEF TurnsInOrder, Settled
  <1> QED
    BY <1>2, <1>4, <1>6

\* An action that ends was running, so its turn is where it was; its
\* advance is queued for the first time.
LEMMA FinishStep ==
  ASSUME IInv, NEW a \in Actions, Finish(a)
  PROVE  Chained' /\ TurnsInOrder' /\ Once'
  <1> USE DEF IInv, TypeOK
  <1> DEFINE three == << <<"advance", a>>, <<"settle", a>>, <<"reply", a>> >>
             n == Len(jobs)
  <1>1. three \in Seq(Jobs) /\ jobs \in Seq(Jobs) /\ n \in Nat /\ Len(three) = 3
    BY LenProperties DEF Jobs
  <1>2. /\ Len(jobs') = n + 3
        /\ \A i \in 1 .. n : jobs'[i] = jobs[i]
        /\ jobs'[n + 1] = <<"advance", a>>
        /\ jobs'[n + 2] = <<"settle", a>>
        /\ jobs'[n + 3] = <<"reply", a>>
    BY <1>1, ConcatProperties DEF Finish
  <1> HIDE DEF three, n
  <1>3. \A i \in 1 .. Len(jobs') :
          \/ i \in 1 .. n /\ jobs'[i] = jobs[i]
          \/ i = n + 1 /\ jobs'[i] = <<"advance", a>>
          \/ jobs'[i] \in {<<"settle", a>>, <<"reply", a>>}
    <2>1. ASSUME NEW i \in 1 .. Len(jobs')
          PROVE  i \in 1 .. n \/ i = n + 1 \/ i = n + 2 \/ i = n + 3
      BY <1>1, <1>2
    <2> QED
      BY <1>2, <2>1
  <1>4. /\ result[a] = "running" /\ tailDone' = tailDone /\ tail' = tail /\ after' = after
        /\ \E outcome \in Settled : result' = [result EXCEPT ![a] = outcome]
    BY DEF Finish
  <1>5. ~Queued(<<"advance", a>>) /\ a \notin tailDone
    BY <1>4 DEF TurnsInOrder, Settled
  <1> Len(jobs) = n
    BY DEF n
  <1>6. \A b \in Actions : Queued(<<"start", b>>)' => Queued(<<"start", b>>)
    <2> SUFFICES ASSUME NEW b \in Actions, NEW i \in 1 .. Len(jobs'), jobs'[i] = <<"start", b>>
                 PROVE  i \in 1 .. n /\ jobs[i] = <<"start", b>>
      BY DEF Queued
    <2> QED
      BY <1>3
  <1>7. \A b \in Actions : Queued(<<"advance", b>>)' => Queued(<<"advance", b>>) \/ b = a
    <2> SUFFICES ASSUME NEW b \in Actions, NEW i \in 1 .. Len(jobs'), jobs'[i] = <<"advance", b>>,
                        b # a
                 PROVE  i \in 1 .. n /\ jobs[i] = <<"advance", b>>
      BY DEF Queued
    <2> QED
      BY <1>3
  <1>8. Once'
    <2> SUFFICES ASSUME NEW i \in 1 .. Len(jobs'), NEW j \in 1 .. Len(jobs'),
                        jobs'[i] = jobs'[j], jobs'[i][1] \in {"start", "advance"}
                 PROVE  i = j
      BY DEF Once
    <2>1. \A k \in 1 .. n : jobs[k] # <<"advance", a>>
      BY <1>5 DEF Queued
    <2>2. jobs'[i] \notin {<<"settle", a>>, <<"reply", a>>}
      OBVIOUS
    <2>3. CASE i = n + 1 \/ j = n + 1
      BY <1>2, <1>3, <2>1, <2>2, <2>3
    <2>4. CASE i \in 1 .. n /\ j \in 1 .. n
      BY <1>2, <2>4 DEF Once
    <2> QED
      BY <1>3, <2>2, <2>3, <2>4
  <1>9. Chained'
    BY <1>4 DEF Chained, Settled
  <1>10. \A b \in Actions : HasTurn(b)' => HasTurn(b)
    BY <1>4, <1>6 DEF HasTurn, Started, Settled
  <1>11. TurnsInOrder'
    BY <1>4, <1>5, <1>6, <1>7, <1>10 DEF TurnsInOrder, Settled
  <1> QED
    BY <1>8, <1>9, <1>11

\* When a tail promise is fulfilled the one action chained to it, if any,
\* gets its turn: everything before it has settled.
LEMMA AdvanceStep ==
  ASSUME IInv, NEW a \in Actions, Advance(a)
  PROVE  Chained' /\ TurnsInOrder' /\ Once'
  <1> USE DEF IInv, TypeOK
  <1>1. <<"advance", a>> \in Jobs /\ Takes(<<"advance", a>>)
    BY DEF Advance, Jobs
  <1>2. /\ result' = result /\ tail' = tail /\ after' = after
        /\ tailDone' = tailDone \cup {a}
    BY DEF Advance
  <1> DEFINE rest == Tail(jobs)
  <1>3. /\ rest \in Seq(Jobs)
        /\ \A i \in 1 .. Len(rest) : i + 1 \in 1 .. Len(jobs) /\ rest[i] = jobs[i + 1]
        /\ jobs[1] = <<"advance", a>> /\ 1 \in 1 .. Len(jobs)
    BY <1>1, HeadTailProperties, LenProperties, EmptySeq DEF Takes
  <1> HIDE DEF rest
  <1>4. Queued(<<"advance", a>>) /\ result[a] \in Settled /\ a \notin tailDone
    BY <1>3 DEF Queued, TurnsInOrder
  <1>5. \A i \in 1 .. Len(rest) : rest[i] # <<"advance", a>>
    <2> SUFFICES ASSUME NEW i \in 1 .. Len(rest), rest[i] = <<"advance", a>> PROVE FALSE
      OBVIOUS
    <2>1. jobs[i + 1] = jobs[1] /\ jobs[1][1] \in {"start", "advance"}
      BY <1>3
    <2>2. i + 1 = 1
      BY <1>3, <2>1 DEF Once
    <2> QED
      BY <2>2
  <1>6. \A i, j \in 1 .. Len(rest) :
          rest[i] = rest[j] /\ rest[i][1] \in {"start", "advance"} => i = j
    <2> SUFFICES ASSUME NEW i \in 1 .. Len(rest), NEW j \in 1 .. Len(rest),
                        rest[i] = rest[j], rest[i][1] \in {"start", "advance"}
                 PROVE  i = j
      OBVIOUS
    <2>1. i + 1 = j + 1
      BY <1>3 DEF Once
    <2> QED
      BY <2>1
  <1>7. Chained'
    BY <1>2 DEF Chained
  <1>8. CASE ~ \E b \in Actions : result[b] = "waiting" /\ after[b] = a
    <2>1. jobs' = rest
      BY <1>8 DEF Advance, rest
    <2>2. Once'
      BY <1>6, <2>1 DEF Once
    <2>3. \A j : Queued(j)' => Queued(j) /\ j # <<"advance", a>>
      BY <1>3, <1>5, <2>1 DEF Queued
    <2>4. \A b \in Actions : HasTurn(b)' => HasTurn(b)
      BY <1>2, <2>3 DEF HasTurn, Started
    <2>5. TurnsInOrder'
      BY <1>2, <1>4, <2>3, <2>4 DEF TurnsInOrder
    <2> QED
      BY <1>7, <2>2, <2>5
  <1>9. CASE \E b \in Actions : result[b] = "waiting" /\ after[b] = a
    <2> DEFINE next == CHOOSE b \in Actions : result[b] = "waiting" /\ after[b] = a
    <2>1. next \in Actions /\ result[next] = "waiting" /\ after[next] = a
      BY <1>9
    <2>2. jobs' = Append(rest, <<"start", next>>)
      BY <1>9 DEF Advance, rest
    <2> HIDE DEF next
    <2>3. <<"start", next>> \in Jobs
      BY <2>1 DEF Jobs
    <2>4. a = next - 1
      BY <2>1 DEF Chained, Actions
    <2>5. ~Queued(<<"start", next>>)
      BY <1>4, <2>1, <2>4 DEF TurnsInOrder, HasTurn, Actions
    <2>6. \A i \in 1 .. Len(rest) : rest[i] # <<"start", next>>
      BY <1>3, <2>5 DEF Queued
    <2>7. \A j : Queued(j)' <=> (\E i \in 1 .. Len(rest) : rest[i] = j) \/ j = <<"start", next>>
      BY <1>3, <2>2, <2>3, AppendGrows
    <2>8. Once'
      BY <1>3, <1>6, <2>2, <2>3, <2>6, AppendGrows
    <2>9. \A j : Queued(j)' => (Queued(j) /\ j # <<"advance", a>>) \/ j = <<"start", next>>
      <3>1. ASSUME NEW j, NEW i \in 1 .. Len(rest), rest[i] = j
            PROVE  Queued(j) /\ j # <<"advance", a>>
        BY <1>3, <1>5, <3>1 DEF Queued
      <3> QED
        BY <2>7, <3>1
    <2>10. \A b \in Actions : HasTurn(b)' => HasTurn(b) \/ b = next
      BY <1>2, <2>9 DEF HasTurn, Started
    <2>11. \A b \in Actions : b < next => result[b] \in Settled /\ b \in tailDone'
      <3> SUFFICES ASSUME NEW b \in Actions, b < next
                   PROVE  result[b] \in Settled /\ b \in tailDone'
        OBVIOUS
      <3>1. b = a \/ b < a
        BY <2>1, <2>4 DEF Actions
      <3>2. HasTurn(a)
        BY <1>4 DEF HasTurn, Started
      <3> QED
        BY <1>2, <1>4, <3>1, <3>2 DEF TurnsInOrder
    <2>12. TurnsInOrder'
      <3>1. \A b, c \in Actions : b < c /\ HasTurn(c)' => result'[b] \in Settled /\ b \in tailDone'
        BY <1>2, <2>10, <2>11 DEF TurnsInOrder
      <3>2. \A b \in tailDone' : result'[b] \in Settled
        BY <1>2, <1>4 DEF TurnsInOrder
      <3>3. \A b \in Actions : Queued(<<"start", b>>)' => result'[b] = "waiting"
        BY <1>2, <2>1, <2>9 DEF TurnsInOrder
      <3>4. \A b \in Actions : Queued(<<"advance", b>>)' => result'[b] \in Settled /\ b \notin tailDone'
        BY <1>2, <2>9 DEF TurnsInOrder
      <3> QED
        BY <3>1, <3>2, <3>3, <3>4 DEF TurnsInOrder
    <2> QED
      BY <1>7, <2>8, <2>12
  <1> QED
    BY <1>8, <1>9

\* The decrement and the caller's continuation touch no turn.
LEMMA OtherJobStep ==
  ASSUME IInv, NEW a \in Actions, Settle(a) \/ Reply(a)
  PROVE  Chained' /\ TurnsInOrder' /\ Once'
  <1> USE DEF IInv
  <1>1. PICK job \in {<<"settle", a>>, <<"reply", a>>} : Takes(job) /\ jobs' = Tail(jobs)
    BY DEF Settle, Reply
  <1>2. job \in Jobs
    BY DEF Jobs
  <1>3. (\A j : Queued(j)' => Queued(j)) /\ Once'
    BY <1>1, <1>2, TakeShrinks
  <1>4. result' = result /\ tail' = tail /\ after' = after /\ tailDone' = tailDone
    BY DEF Settle, Reply
  <1>5. Chained'
    BY <1>4 DEF Chained
  <1>6. \A b \in Actions : HasTurn(b)' => HasTurn(b)
    BY <1>3, <1>4 DEF HasTurn, Started
  <1>7. TurnsInOrder'
    BY <1>3, <1>4, <1>6 DEF TurnsInOrder
  <1> QED
    BY <1>3, <1>5, <1>7
-----------------------------------------------------------------------------
\* The strengthening is inductive.
LEMMA StepIInv == IInv /\ [Next]_vars => IInv'
  <1> SUFFICES ASSUME IInv, [Next]_vars PROVE IInv'
    OBVIOUS
  <1>1. TypeOK'
    BY TypeStep DEF IInv
  <1>2. ASSUME NEW a \in Actions, Enqueue(a) PROVE Chained' /\ TurnsInOrder' /\ Once'
    BY <1>2, EnqueueStep
  <1>3. ASSUME NEW a \in Actions, Start(a) PROVE Chained' /\ TurnsInOrder' /\ Once'
    BY <1>3, StartStep
  <1>4. ASSUME NEW a \in Actions, Finish(a) PROVE Chained' /\ TurnsInOrder' /\ Once'
    BY <1>4, FinishStep
  <1>5. ASSUME NEW a \in Actions, Advance(a) PROVE Chained' /\ TurnsInOrder' /\ Once'
    BY <1>5, AdvanceStep
  <1>6. ASSUME NEW a \in Actions, Settle(a) \/ Reply(a) PROVE Chained' /\ TurnsInOrder' /\ Once'
    BY <1>6, OtherJobStep
  <1>7. ASSUME UNCHANGED vars PROVE Chained' /\ TurnsInOrder' /\ Once'
    BY <1>7 DEF vars, IInv, Chained, TurnsInOrder, Once, HasTurn, Started, Queued
  <1>8. Chained' /\ TurnsInOrder' /\ Once'
    BY <1>2, <1>3, <1>4, <1>5, <1>6, <1>7 DEF Next, Engine
  <1> QED
    BY <1>1, <1>8 DEF IInv

\* So it holds of every reachable state.
LEMMA Invariance == Spec => []IInv
  BY InitIInv, StepIInv, PTL DEF Spec

\* The variables of the queue keep their types, however many actions there
\* are.
THEOREM TypeCorrect == Spec => []TypeOK
  <1>1. IInv => TypeOK
    BY DEF IInv
  <1> QED
    BY <1>1, Invariance, PTL

\* At most one action runs at a time, first in, first out, for any number
\* of actions and whatever each of them does (walletQueue.ts:8).
THEOREM OneAtATime == Spec => []Serial
  <1>1. IInv => Serial
    BY DEF IInv, TurnsInOrder, HasTurn, Started, Serial
  <1> QED
    BY <1>1, Invariance, PTL

(***************************************************************************)
(* The promise chain implements the serial executor: the queue of jobs,    *)
(* the tail promises and the counter are hidden, and every step is a       *)
(* submission, a beginning or an end that SerialExecutor allows, or        *)
(* changes nothing it can see.                                             *)
(***************************************************************************)
THEOREM Refinement == Spec => ImplementsSerialExecutor
  <1> USE DEF Executor!Actions, Actions, Executor!Settled, Settled
  <1>1. Init => Executor!SInit
    BY DEF Init, Executor!SInit
  <1>2. IInv /\ [Next]_vars => [Executor!SNext]_result
    <2> SUFFICES ASSUME IInv, [Next]_vars PROVE [Executor!SNext]_result
      OBVIOUS
    <2> USE DEF Executor!SNext
    <2>1. ASSUME NEW a \in Actions, Enqueue(a) PROVE Executor!SNext
      BY <2>1 DEF Enqueue, MayEnqueue, Executor!Submit
    <2>2. ASSUME NEW a \in Actions, Start(a) PROVE Executor!SNext
      <3>1. <<"start", a>> \in Jobs /\ Takes(<<"start", a>>) /\ jobs' = Tail(jobs)
        BY <2>2 DEF Start, Jobs
      <3>2. Queued(<<"start", a>>)
        BY <3>1, TakeShrinks DEF IInv
      <3>3. result[a] = "waiting" /\ \A b \in Actions : b < a => result[b] \in Settled
        BY <3>2 DEF IInv, TurnsInOrder, HasTurn
      <3> QED
        BY <2>2, <3>3 DEF Start, Executor!Begin
    <2>3. ASSUME NEW a \in Actions, Finish(a) PROVE Executor!SNext
      BY <2>3 DEF Finish, Executor!End
    <2>4. ASSUME NEW a \in Actions, Advance(a) \/ Settle(a) \/ Reply(a) PROVE UNCHANGED result
      BY <2>4 DEF Advance, Settle, Reply
    <2>5. CASE UNCHANGED vars
      BY <2>5 DEF vars
    <2> QED
      BY <2>1, <2>2, <2>3, <2>4, <2>5 DEF Next, Engine
  <1> QED
    BY <1>1, <1>2, Invariance, PTL DEF Spec, ImplementsSerialExecutor, Executor!SSpec
-----------------------------------------------------------------------------
(***************************************************************************)
(* The depth.  enqueue() counts an action before it hangs the decrement on *)
(* the promise it returns, so what pending counts is known at every        *)
(* microtask: the actions that have not settled, and those that have but   *)
(* whose decrement is still in the queue of jobs.                          *)
(***************************************************************************)
Counted ==
  {a \in Actions : result[a] \in {"waiting", "running"} \/ Queued(<<"settle", a>>)}

(***************************************************************************)
(* Finish queues the decrement and the caller's continuation of an action  *)
(* once each, and in that order.  So an action is taken off the count      *)
(* once, and before its caller resumes.                                    *)
(***************************************************************************)
SettledOnce ==
  /\ \A a \in Actions : \A k \in {"settle", "reply"} :
       Queued(<<k, a>>) => result[a] \in Settled /\ a \notin answered
  /\ \A a \in answered : result[a] \in Settled
  /\ \A i, j \in 1 .. Len(jobs) :
       jobs[i] = jobs[j] /\ jobs[i][1] \in {"settle", "reply"} => i = j
  /\ \A a \in Actions : \A i, j \in 1 .. Len(jobs) :
       jobs[i] = <<"settle", a>> /\ jobs[j] = <<"reply", a>> => i < j

DepthInv == SettledOnce /\ pending = Cardinality(Counted)

\* The sets that are counted are finite.
LEMMA FiniteActions ==
  ASSUME NEW S \in SUBSET Actions
  PROVE  IsFiniteSet(S) /\ Cardinality(S) \in Nat
  <1>1. IsFiniteSet(Actions)
    BY FS_Interval, MaxActionsAssumption DEF Actions
  <1>2. IsFiniteSet(S)
    BY <1>1, FS_Subset
  <1> QED
    BY <1>2, FS_CardinalityType

LEMMA InitDepth == Init => DepthInv
  <1> SUFFICES ASSUME Init PROVE DepthInv
    OBVIOUS
  <1>1. \A j : ~Queued(j)
    BY DEF Init, Queued
  <1>2. Counted = {}
    BY <1>1 DEF Init, Counted
  <1>3. SettledOnce
    BY <1>1 DEF Init, SettledOnce
  <1> QED
    BY <1>2, <1>3, FS_EmptySet DEF Init, DepthInv

\* A step that queues no decrement and no continuation keeps their order.
LEMMA SettledOnceKept ==
  ASSUME TypeOK, SettledOnce,
         answered' \subseteq Actions,
         \A a \in answered' : \/ a \in answered
                              \/ result[a] \in Settled /\ \A k \in {"settle", "reply"} : ~Queued(<<k, a>>)',
         \A a \in Actions : result[a] \in Settled => result'[a] \in Settled,
         \E d \in {0, 1} :
           \A i \in 1 .. Len(jobs') : jobs'[i][1] \in {"settle", "reply"} =>
             i \in Int /\ i + d \in 1 .. Len(jobs) /\ jobs'[i] = jobs[i + d]
  PROVE  SettledOnce'
  <1>1. PICK d \in {0, 1} :
           \A i \in 1 .. Len(jobs') : jobs'[i][1] \in {"settle", "reply"} =>
             i \in Int /\ i + d \in 1 .. Len(jobs) /\ jobs'[i] = jobs[i + d]
    OBVIOUS
  <1>2. \A a \in Actions : \A k \in {"settle", "reply"} : Queued(<<k, a>>)' => Queued(<<k, a>>)
    <2> SUFFICES ASSUME NEW a \in Actions, NEW k \in {"settle", "reply"},
                        NEW i \in 1 .. Len(jobs'), jobs'[i] = <<k, a>>
                 PROVE  i + d \in 1 .. Len(jobs) /\ jobs[i + d] = <<k, a>>
      BY DEF Queued
    <2>1. jobs'[i][1] \in {"settle", "reply"}
      OBVIOUS
    <2> QED
      BY <1>1, <2>1
  <1>3. ASSUME NEW i \in 1 .. Len(jobs'), NEW j \in 1 .. Len(jobs'),
               jobs'[i] = jobs'[j], jobs'[i][1] \in {"settle", "reply"}
        PROVE  i = j
    <2>1. /\ i \in Int /\ i + d \in 1 .. Len(jobs) /\ jobs'[i] = jobs[i + d]
          /\ j \in Int /\ j + d \in 1 .. Len(jobs) /\ jobs'[j] = jobs[j + d]
      BY <1>1, <1>3
    <2>2. i + d = j + d
      BY <1>3, <2>1 DEF SettledOnce
    <2> QED
      BY <1>1, <2>1, <2>2
  <1>4. ASSUME NEW a \in Actions, NEW i \in 1 .. Len(jobs'), NEW j \in 1 .. Len(jobs'),
               jobs'[i] = <<"settle", a>>, jobs'[j] = <<"reply", a>>
        PROVE  i < j
    <2>1. jobs'[i][1] \in {"settle", "reply"} /\ jobs'[j][1] \in {"settle", "reply"}
      BY <1>4
    <2>2. /\ i \in Int /\ i + d \in 1 .. Len(jobs) /\ jobs'[i] = jobs[i + d]
          /\ j \in Int /\ j + d \in 1 .. Len(jobs) /\ jobs'[j] = jobs[j + d]
      BY <1>1, <2>1
    <2>3. i + d < j + d
      BY <1>4, <2>2 DEF SettledOnce
    <2> QED
      BY <1>1, <2>2, <2>3
  <1>5. \A a \in Actions : \A k \in {"settle", "reply"} :
          Queued(<<k, a>>)' => result'[a] \in Settled /\ a \notin answered'
    BY <1>2 DEF SettledOnce
  <1>6. \A a \in answered' : result'[a] \in Settled
    BY DEF SettledOnce
  <1> QED
    BY <1>3, <1>4, <1>5, <1>6 DEF SettledOnce

\* Taking a job moves the others up by one and loses none of them.
LEMMA TakeMovesUp ==
  ASSUME TypeOK, NEW job \in Jobs, Takes(job)
  PROVE  LET rest == Tail(jobs)
         IN /\ rest \in Seq(Jobs) /\ Len(rest) \in Nat
            /\ 1 \in 1 .. Len(jobs) /\ jobs[1] = job
            /\ \A i \in 1 .. Len(rest) : i \in Int /\ i + 1 \in 1 .. Len(jobs) /\ rest[i] = jobs[i + 1]
            /\ \A j : Queued(j) /\ j # job => \E i \in 1 .. Len(rest) : rest[i] = j
  <1> DEFINE rest == Tail(jobs)
  <1> jobs \in Seq(Jobs) /\ jobs # <<>> /\ Len(jobs) \in Nat /\ Len(jobs) > 0
    BY LenProperties, EmptySeq DEF TypeOK, Takes
  <1>1. /\ rest \in Seq(Jobs) /\ Len(rest) = Len(jobs) - 1
        /\ \A i \in 1 .. Len(rest) : rest[i] = jobs[i + 1]
        /\ jobs[1] = job
    BY HeadTailProperties DEF Takes
  <1> HIDE DEF rest
  <1>2. \A i \in 1 .. Len(rest) : i \in Int /\ i + 1 \in 1 .. Len(jobs)
    BY <1>1
  <1>3. ASSUME NEW j, NEW i \in 1 .. Len(jobs), jobs[i] = j, j # job
        PROVE  \E x \in 1 .. Len(rest) : rest[x] = j
    <2>1. i - 1 \in 1 .. Len(rest) /\ (i - 1) + 1 = i
      BY <1>1, <1>3
    <2>2. rest[i - 1] = jobs[i]
      BY <1>1, <2>1
    <2> QED
      BY <1>3, <2>1, <2>2
  <1>4. \A j : Queued(j) /\ j # job => \E i \in 1 .. Len(rest) : rest[i] = j
    BY <1>3 DEF Queued
  <1> QED
    BY <1>1, <1>2, <1>4 DEF rest

\* Jobs that start an action can be appended without changing what counts.
LEMMA StartAppended ==
  ASSUME NEW s \in Seq(Jobs), NEW a \in Actions,
         jobs' = s \/ jobs' = Append(s, <<"start", a>>)
  PROVE  /\ \A i \in 1 .. Len(jobs') : jobs'[i][1] \in {"settle", "reply"} =>
              i \in 1 .. Len(s) /\ jobs'[i] = s[i]
         /\ \A b \in Actions : Queued(<<"settle", b>>)' <=> \E i \in 1 .. Len(s) : s[i] = <<"settle", b>>
  <1> Len(s) \in Nat
    BY LenProperties
  <1>1. CASE jobs' = s
    BY <1>1 DEF Queued
  <1>2. CASE jobs' = Append(s, <<"start", a>>)
    <2>1. <<"start", a>> \in Jobs
      BY DEF Jobs
    <2>2. /\ Len(jobs') = Len(s) + 1
          /\ \A i \in 1 .. Len(s) : jobs'[i] = s[i]
          /\ jobs'[Len(s) + 1] = <<"start", a>>
      BY <1>2, <2>1, AppendProperties
    <2>3. \A i \in 1 .. Len(jobs') : i \in 1 .. Len(s) \/ i = Len(s) + 1
      BY <2>2
    <2>4. \A i \in 1 .. Len(s) : i \in 1 .. Len(jobs')
      BY <2>2
    <2> QED
      BY <2>2, <2>3, <2>4 DEF Queued
  <1> QED
    BY <1>1, <1>2

\* The count moves with the set of those counted.
LEMMA CountedAlike ==
  ASSUME DepthInv, SettledOnce', pending' = pending, Counted' = Counted
  PROVE  DepthInv'
  BY DEF DepthInv

LEMMA EnqueueDepth ==
  ASSUME IInv, DepthInv, NEW a \in Actions, Enqueue(a)
  PROVE  DepthInv'
  <1> USE DEF IInv
  <1>1. /\ jobs \in Seq(Jobs)
        /\ jobs' = jobs \/ jobs' = Append(jobs, <<"start", a>>)
        /\ result' = [result EXCEPT ![a] = "waiting"] /\ result[a] = "unborn"
        /\ answered' = answered /\ pending' = pending + 1
    BY DEF Enqueue, MayEnqueue, TypeOK
  <1>2. /\ \A i \in 1 .. Len(jobs') : jobs'[i][1] \in {"settle", "reply"} =>
              i \in 1 .. Len(jobs) /\ jobs'[i] = jobs[i]
        /\ \A b \in Actions : Queued(<<"settle", b>>)' <=> Queued(<<"settle", b>>)
    BY <1>1, StartAppended DEF Queued
  <1>3. result \in [Actions -> Results] /\ answered \subseteq Actions
    BY DEF TypeOK
  <1>4. SettledOnce'
    <2>1. \A i \in 1 .. Len(jobs') : jobs'[i][1] \in {"settle", "reply"} =>
             i \in Int /\ i + 0 \in 1 .. Len(jobs) /\ jobs'[i] = jobs[i + 0]
      BY <1>2
    <2>2. \A b \in Actions : result[b] \in Settled => result'[b] \in Settled
      BY <1>1, <1>3 DEF Settled
    <2> QED
      BY <1>1, <1>3, <2>1, <2>2, SettledOnceKept DEF DepthInv
  <1>5. a \notin Counted
    BY <1>1 DEF DepthInv, SettledOnce, Counted, Settled
  <1>6. Counted' = Counted \cup {a}
    BY <1>1, <1>2, <1>3 DEF Counted
  <1>7. IsFiniteSet(Counted)
    BY FiniteActions DEF Counted
  <1> QED
    BY <1>1, <1>4, <1>5, <1>6, <1>7, FS_AddElement DEF DepthInv

\* Starting an action and advancing the tail take a job that counts nothing.
LEMMA EngineDepth ==
  ASSUME IInv, DepthInv, NEW a \in Actions, Start(a) \/ Advance(a)
  PROVE  DepthInv'
  <1> USE DEF IInv
  <1>1. PICK job \in {<<"start", a>>, <<"advance", a>>} :
          /\ Takes(job) /\ job \in Jobs
          /\ \E b \in Actions : jobs' = Tail(jobs) \/ jobs' = Append(Tail(jobs), <<"start", b>>)
    <2>1. CASE Start(a)
      BY <2>1 DEF Start, Jobs
    <2>2. CASE Advance(a)
      BY <2>2 DEF Advance, Jobs
    <2> QED
      BY <2>1, <2>2
  <1>2. /\ answered' = answered /\ pending' = pending
        /\ result' = result \/ (result[a] = "waiting" /\ result' = [result EXCEPT ![a] = "running"])
    <2>1. Start(a) => result[a] = "waiting"
      <3> SUFFICES ASSUME Start(a) PROVE result[a] = "waiting"
        OBVIOUS
      <3>1. Takes(<<"start", a>>) /\ <<"start", a>> \in Jobs /\ jobs' = Tail(jobs)
        BY DEF Start, Jobs
      <3> QED
        BY <3>1, TakeShrinks DEF TurnsInOrder
    <2> QED
      BY <2>1 DEF Start, Advance
  <1>3. result \in [Actions -> Results] /\ answered \subseteq Actions
    BY DEF TypeOK
  <1> DEFINE rest == Tail(jobs)
  <1>4. /\ rest \in Seq(Jobs)
        /\ \A i \in 1 .. Len(rest) : i \in Int /\ i + 1 \in 1 .. Len(jobs) /\ rest[i] = jobs[i + 1]
        /\ \A j : Queued(j) /\ j # job => \E i \in 1 .. Len(rest) : rest[i] = j
    BY <1>1, TakeMovesUp
  <1>5. /\ \A i \in 1 .. Len(jobs') : jobs'[i][1] \in {"settle", "reply"} =>
             i \in 1 .. Len(rest) /\ jobs'[i] = rest[i]
        /\ \A b \in Actions : Queued(<<"settle", b>>)' <=> \E i \in 1 .. Len(rest) : rest[i] = <<"settle", b>>
    BY <1>1, <1>4, StartAppended
  <1> HIDE DEF rest
  <1>6. \A b \in Actions : Queued(<<"settle", b>>)' <=> Queued(<<"settle", b>>)
    <2> SUFFICES ASSUME NEW b \in Actions
                 PROVE  Queued(<<"settle", b>>)' <=> Queued(<<"settle", b>>)
      OBVIOUS
    <2>1. <<"settle", b>> # job
      BY <1>1
    <2>2. Queued(<<"settle", b>>) => \E i \in 1 .. Len(rest) : rest[i] = <<"settle", b>>
      BY <1>4, <2>1
    <2>3. (\E i \in 1 .. Len(rest) : rest[i] = <<"settle", b>>) => Queued(<<"settle", b>>)
      BY <1>4 DEF Queued
    <2> QED
      BY <1>5, <2>2, <2>3
  <1>7. SettledOnce'
    <2>1. \A i \in 1 .. Len(jobs') : jobs'[i][1] \in {"settle", "reply"} =>
             i \in Int /\ i + 1 \in 1 .. Len(jobs) /\ jobs'[i] = jobs[i + 1]
      BY <1>4, <1>5
    <2>2. \A b \in Actions : result[b] \in Settled => result'[b] \in Settled
      BY <1>2, <1>3 DEF Settled
    <2> QED
      BY <1>2, <1>3, <2>1, <2>2, SettledOnceKept DEF DepthInv
  <1>8. Counted' = Counted
    BY <1>2, <1>3, <1>6 DEF Counted
  <1> QED
    BY <1>2, <1>7, <1>8, CountedAlike

\* The decrement takes its action off the count, once.
LEMMA SettleDepth ==
  ASSUME IInv, DepthInv, NEW a \in Actions, Settle(a)
  PROVE  DepthInv'
  <1> USE DEF IInv
  <1>1. /\ Takes(<<"settle", a>>) /\ <<"settle", a>> \in Jobs /\ jobs' = Tail(jobs)
        /\ result' = result /\ answered' = answered /\ pending' = pending - 1
    BY DEF Settle, Jobs
  <1>2. /\ 1 \in 1 .. Len(jobs) /\ jobs[1] = <<"settle", a>>
        /\ \A i \in 1 .. Len(jobs') : i \in Int /\ i + 1 \in 1 .. Len(jobs) /\ jobs'[i] = jobs[i + 1]
        /\ \A j : Queued(j) /\ j # <<"settle", a>> => Queued(j)'
    BY <1>1, TakeMovesUp DEF Queued
  <1>3. answered \subseteq Actions
    BY DEF TypeOK
  <1>4. SettledOnce'
    BY <1>1, <1>2, <1>3, SettledOnceKept DEF DepthInv
  <1>5. Queued(<<"settle", a>>) /\ result[a] \in Settled
    BY <1>2 DEF Queued, DepthInv, SettledOnce
  <1>6. ~Queued(<<"settle", a>>)'
    <2> SUFFICES ASSUME NEW i \in 1 .. Len(jobs'), jobs'[i] = <<"settle", a>> PROVE FALSE
      BY DEF Queued
    <2>1. i \in Int /\ i + 1 \in 1 .. Len(jobs) /\ jobs[i + 1] = jobs[1] /\ jobs[1][1] = "settle"
      BY <1>2
    <2>2. i + 1 = 1
      BY <1>2, <2>1 DEF DepthInv, SettledOnce
    <2> QED
      BY <2>1, <2>2
  <1>7. \A b \in Actions : Queued(<<"settle", b>>)' <=> Queued(<<"settle", b>>) /\ b # a
    <2> SUFFICES ASSUME NEW b \in Actions
                 PROVE  Queued(<<"settle", b>>)' <=> Queued(<<"settle", b>>) /\ b # a
      OBVIOUS
    <2>1. Queued(<<"settle", b>>)' => Queued(<<"settle", b>>)
      BY <1>2 DEF Queued
    <2>2. b # a => <<"settle", b>> # <<"settle", a>>
      OBVIOUS
    <2> QED
      BY <1>2, <1>6, <2>1, <2>2
  <1>8. a \in Counted /\ Counted' = Counted \ {a}
    BY <1>1, <1>5, <1>7 DEF Counted, Settled
  <1>9. IsFiniteSet(Counted)
    BY FiniteActions DEF Counted
  <1> QED
    BY <1>1, <1>4, <1>8, <1>9, FS_RemoveElement DEF DepthInv

\* When the caller resumes, its action has been taken off the count.
LEMMA ReplyDepth ==
  ASSUME IInv, DepthInv, NEW a \in Actions, Reply(a)
  PROVE  DepthInv'
  <1> USE DEF IInv
  <1>1. /\ Takes(<<"reply", a>>) /\ <<"reply", a>> \in Jobs /\ jobs' = Tail(jobs)
        /\ result' = result /\ answered' = answered \cup {a} /\ pending' = pending
    BY DEF Reply, Jobs
  <1>2. /\ 1 \in 1 .. Len(jobs) /\ jobs[1] = <<"reply", a>>
        /\ \A i \in 1 .. Len(jobs') : i \in Int /\ i + 1 \in 1 .. Len(jobs) /\ jobs'[i] = jobs[i + 1]
        /\ \A j : Queued(j) /\ j # <<"reply", a>> => Queued(j)'
    BY <1>1, TakeMovesUp DEF Queued
  <1>3. answered \subseteq Actions
    BY DEF TypeOK
  <1>4. result[a] \in Settled
    BY <1>2 DEF Queued, DepthInv, SettledOnce
  <1>5. ~Queued(<<"reply", a>>)' /\ ~Queued(<<"settle", a>>)'
    <2>1. ASSUME NEW i \in 1 .. Len(jobs'), jobs'[i] = <<"reply", a>> PROVE FALSE
      <3>1. i \in Int /\ i + 1 \in 1 .. Len(jobs) /\ jobs[i + 1] = jobs[1] /\ jobs[1][1] = "reply"
        BY <1>2, <2>1
      <3>2. i + 1 = 1
        BY <1>2, <3>1 DEF DepthInv, SettledOnce
      <3> QED
        BY <3>1, <3>2
    <2>2. ASSUME NEW i \in 1 .. Len(jobs'), jobs'[i] = <<"settle", a>> PROVE FALSE
      <3>1. i \in Int /\ i \in 1 .. Len(jobs') /\ i + 1 \in 1 .. Len(jobs) /\ jobs[i + 1] = <<"settle", a>>
        BY <1>2, <2>2
      <3>2. i + 1 < 1
        BY <1>2, <3>1 DEF DepthInv, SettledOnce
      <3> QED
        BY <3>1, <3>2
    <2> QED
      BY <2>1, <2>2 DEF Queued
  <1>6. SettledOnce'
    BY <1>1, <1>2, <1>3, <1>4, <1>5, SettledOnceKept DEF DepthInv
  <1>7. \A b \in Actions : Queued(<<"settle", b>>)' <=> Queued(<<"settle", b>>)
    <2> SUFFICES ASSUME NEW b \in Actions
                 PROVE  Queued(<<"settle", b>>)' <=> Queued(<<"settle", b>>)
      OBVIOUS
    <2>1. Queued(<<"settle", b>>)' => Queued(<<"settle", b>>)
      BY <1>2 DEF Queued
    <2>2. <<"settle", b>> # <<"reply", a>>
      OBVIOUS
    <2> QED
      BY <1>2, <2>1, <2>2
  <1>8. Counted' = Counted
    BY <1>1, <1>7 DEF Counted
  <1> QED
    BY <1>1, <1>6, <1>8, CountedAlike

\* An action that ends goes on being counted, by its decrement.
LEMMA FinishDepth ==
  ASSUME IInv, DepthInv, NEW a \in Actions, Finish(a)
  PROVE  DepthInv'
  <1> USE DEF IInv
  <1> DEFINE three == << <<"advance", a>>, <<"settle", a>>, <<"reply", a>> >>
             n == Len(jobs)
  <1>1. three \in Seq(Jobs) /\ jobs \in Seq(Jobs) /\ n \in Nat /\ Len(three) = 3
    BY LenProperties DEF Jobs, TypeOK
  <1>2. /\ Len(jobs') = n + 3
        /\ \A i \in 1 .. n : jobs'[i] = jobs[i]
        /\ jobs'[n + 1] = <<"advance", a>>
        /\ jobs'[n + 2] = <<"settle", a>>
        /\ jobs'[n + 3] = <<"reply", a>>
    BY <1>1, ConcatProperties DEF Finish
  <1> HIDE DEF three, n
  <1>3. \A i \in 1 .. Len(jobs') :
          \/ i \in 1 .. n /\ jobs'[i] = jobs[i]
          \/ i = n + 1 /\ jobs'[i] = <<"advance", a>>
          \/ i = n + 2 /\ jobs'[i] = <<"settle", a>>
          \/ i = n + 3 /\ jobs'[i] = <<"reply", a>>
    <2>1. ASSUME NEW i \in 1 .. Len(jobs')
          PROVE  i \in 1 .. n \/ i = n + 1 \/ i = n + 2 \/ i = n + 3
      BY <1>1, <1>2
    <2> QED
      BY <1>2, <2>1
  <1>4. /\ answered' = answered /\ pending' = pending
        /\ result[a] = "running"
        /\ result'[a] \in Settled
        /\ \A b \in Actions \ {a} : result'[b] = result[b]
    BY DEF Finish, TypeOK
  <1> Len(jobs) = n
    BY DEF n
  <1>5. \A k \in {"settle", "reply"} : \A i \in 1 .. n : jobs[i] # <<k, a>>
    BY <1>4 DEF Queued, DepthInv, SettledOnce, Settled
  <1>6. a \notin answered
    BY <1>4 DEF DepthInv, SettledOnce, Settled
  <1>7. \A b \in Actions : \A k \in {"settle", "reply"} :
          Queued(<<k, b>>)' <=> Queued(<<k, b>>) \/ b = a
    <2> SUFFICES ASSUME NEW b \in Actions, NEW k \in {"settle", "reply"}
                 PROVE  Queued(<<k, b>>)' <=> Queued(<<k, b>>) \/ b = a
      OBVIOUS
    <2>1. Queued(<<k, b>>)' => Queued(<<k, b>>) \/ b = a
      <3> SUFFICES ASSUME NEW i \in 1 .. Len(jobs'), jobs'[i] = <<k, b>>, b # a
                   PROVE  i \in 1 .. n /\ jobs[i] = <<k, b>>
        BY DEF Queued
      <3> QED
        BY <1>3
    <2>2. \A i \in 1 .. n : i \in 1 .. Len(jobs')
      BY <1>1, <1>2
    <2>3. Queued(<<k, b>>) => Queued(<<k, b>>)'
      BY <1>2, <2>2 DEF Queued
    <2>4. b = a => Queued(<<k, b>>)'
      <3>1. n + 2 \in 1 .. Len(jobs') /\ n + 3 \in 1 .. Len(jobs')
        BY <1>1, <1>2
      <3> QED
        BY <1>2, <3>1 DEF Queued
    <2> QED
      BY <2>1, <2>3, <2>4
  <1>8. SettledOnce'
    <2>1. \A b \in Actions : \A k \in {"settle", "reply"} :
            Queued(<<k, b>>)' => result'[b] \in Settled /\ b \notin answered'
      BY <1>4, <1>6, <1>7 DEF DepthInv, SettledOnce
    <2>2. \A b \in answered' : result'[b] \in Settled
      BY <1>4, <1>6 DEF DepthInv, SettledOnce, TypeOK
    <2>3. ASSUME NEW i \in 1 .. Len(jobs'), NEW j \in 1 .. Len(jobs'),
                 jobs'[i] = jobs'[j], jobs'[i][1] \in {"settle", "reply"}
          PROVE  i = j
      <3>1. CASE i \in 1 .. n /\ j \in 1 .. n
        BY <1>2, <2>3, <3>1 DEF DepthInv, SettledOnce
      <3>2. CASE i \notin 1 .. n /\ j \notin 1 .. n
        BY <1>3, <2>3, <3>2
      <3>3. CASE i \in 1 .. n /\ j \notin 1 .. n
        <4>1. jobs'[j] # <<"advance", a>>
          BY <2>3
        <4>2. jobs'[j] \in {<<"settle", a>>, <<"reply", a>>}
          BY <1>3, <3>3, <4>1
        <4> QED
          BY <1>2, <1>5, <2>3, <3>3, <4>2
      <3>4. CASE i \notin 1 .. n /\ j \in 1 .. n
        <4>1. jobs'[i] # <<"advance", a>>
          BY <2>3
        <4>2. jobs'[i] \in {<<"settle", a>>, <<"reply", a>>}
          BY <1>3, <3>4, <4>1
        <4> QED
          BY <1>2, <1>5, <2>3, <3>4, <4>2
      <3> QED
        BY <3>1, <3>2, <3>3, <3>4
    <2>4. ASSUME NEW b \in Actions, NEW i \in 1 .. Len(jobs'), NEW j \in 1 .. Len(jobs'),
                 jobs'[i] = <<"settle", b>>, jobs'[j] = <<"reply", b>>
          PROVE  i < j
      <3>1. CASE b = a
        <4>1. i = n + 2 /\ j = n + 3
          BY <1>3, <1>5, <2>4, <3>1
        <4> QED
          BY <1>1, <4>1
      <3>2. CASE b # a
        <4>1. i \in 1 .. n /\ j \in 1 .. n
          BY <1>3, <2>4, <3>2
        <4> QED
          BY <1>2, <2>4, <4>1 DEF DepthInv, SettledOnce
      <3> QED
        BY <3>1, <3>2
    <2> QED
      BY <2>1, <2>2, <2>3, <2>4 DEF SettledOnce
  <1>9. Counted' = Counted
    BY <1>4, <1>7 DEF Counted
  <1> QED
    BY <1>4, <1>8, <1>9, CountedAlike

LEMMA DepthStep == IInv /\ DepthInv /\ [Next]_vars => DepthInv'
  <1>1. IInv /\ DepthInv /\ UNCHANGED vars => DepthInv'
    BY DEF vars, DepthInv, SettledOnce, Counted, Queued
  <1> QED
    BY <1>1, EnqueueDepth, EngineDepth, SettleDepth, ReplyDepth, FinishDepth DEF Next, Engine

LEMMA DepthInvariance == Spec => []DepthInv
  BY InitDepth, DepthStep, Invariance, PTL DEF Spec

\* depth() never leaves out an action in flight, never counts a caller who
\* has its answer, and is exact when the microtasks have run, for any
\* number of actions (walletQueue.ts:25, 35, 40).
THEOREM DepthCorrect == Spec => []DepthIsExact
  <1>1. IInv /\ DepthInv => DepthIsExact
    <2> SUFFICES ASSUME IInv, DepthInv PROVE DepthIsExact
      OBVIOUS
    <2> DEFINE Unsettled == {a \in Actions : result[a] \in {"waiting", "running"}}
               Unanswered == {a \in Actions : result[a] # "unborn"} \ answered
    <2>1. Unsettled \subseteq Counted
      BY DEF Counted
    <2>2. Counted \subseteq Unanswered
      BY DEF Counted, DepthInv, SettledOnce, Settled
    <2>3. jobs = <<>> => Counted = Unsettled
      BY DEF Counted, Queued
    <2>4. IsFiniteSet(Counted) /\ IsFiniteSet(Unanswered)
      BY FiniteActions DEF Counted
    <2>5. Cardinality(Unsettled) <= Cardinality(Counted)
      BY <2>1, <2>4, FS_Subset
    <2>6. Cardinality(Counted) <= Cardinality(Unanswered)
      BY <2>2, <2>4, FS_Subset
    <2>7. /\ Cardinality(Unsettled) \in Nat /\ Cardinality(Counted) \in Nat
          /\ Cardinality(Unanswered) \in Nat
      BY FiniteActions DEF Counted
    <2> QED
      BY <2>3, <2>5, <2>6, <2>7 DEF DepthInv, DepthIsExact, depth
  <1> QED
    BY <1>1, Invariance, DepthInvariance, PTL
-----------------------------------------------------------------------------
(***************************************************************************)
(* Nesting.  An inner action is enqueued while its outer one runs, so its  *)
(* turn comes after the outer one has ended; and the outer one ends after  *)
(* the caller of the inner one, itself, has resumed.                       *)
(***************************************************************************)
Stuck ==
  \A pair \in Nested : result[pair[2]] # "unborn" =>
    /\ pair[1] < pair[2]
    /\ result[pair[1]] = "running" /\ result[pair[2]] = "waiting"

LEMMA PairType ==
  ASSUME NEW pair \in Nested
  PROVE  pair[1] \in Actions /\ pair[2] \in Actions
  BY NestedAssumption

LEMMA StuckStep ==
  ASSUME IInv, DepthInv, Stuck, [Next]_vars
  PROVE  Stuck'
  <1> USE PairType DEF IInv
  <1> result \in [Actions -> Results]
    BY DEF TypeOK
  <1>1. ASSUME NEW a \in Actions, Enqueue(a) PROVE Stuck'
    <2>1. result' = [result EXCEPT ![a] = "waiting"] /\ result[a] = "unborn"
      BY <1>1 DEF Enqueue, MayEnqueue
    <2> SUFFICES ASSUME NEW pair \in Nested, result'[pair[2]] # "unborn"
                 PROVE  /\ pair[1] < pair[2]
                        /\ result'[pair[1]] = "running" /\ result'[pair[2]] = "waiting"
      BY DEF Stuck
    <2>2. CASE pair[2] = a
      <3>1. result[pair[1]] = "running"
        BY <1>1, <2>2 DEF Enqueue, MayEnqueue
      <3>2. pair[1] <= tail /\ ~(a <= tail)
        BY <2>1, <3>1 DEF Chained
      <3>3. pair[1] < a
        BY <3>2, MaxActionsAssumption DEF TypeOK, Actions
      <3> QED
        BY <2>1, <2>2, <3>1, <3>3
    <2>3. CASE pair[2] # a
      BY <2>1, <2>3 DEF Stuck
    <2> QED
      BY <2>2, <2>3
  <1>2. ASSUME NEW a \in Actions, Start(a) PROVE Stuck'
    <2>1. result' = [result EXCEPT ![a] = "running"]
      BY <1>2 DEF Start
    <2>2. Queued(<<"start", a>>)
      <3>1. <<"start", a>> \in Jobs /\ Takes(<<"start", a>>) /\ jobs' = Tail(jobs)
        BY <1>2 DEF Start, Jobs
      <3> QED
        BY <3>1, TakeShrinks
    <2>3. result[a] = "waiting" /\ \A b \in Actions : b < a => result[b] \in Settled
      BY <2>2 DEF TurnsInOrder, HasTurn
    <2>4. \A pair \in Nested : result[pair[2]] # "unborn" => pair[1] # a /\ pair[2] # a
      BY <2>3 DEF Stuck, Settled
    <2> QED
      BY <2>1, <2>3, <2>4 DEF Stuck
  <1>3. ASSUME NEW a \in Actions, Finish(a) PROVE Stuck'
    <2>1. /\ result[a] = "running"
          /\ \A b \in Actions \ {a} : result'[b] = result[b]
          /\ result'[a] \in Settled
          /\ \A pair \in Nested : pair[1] = a => pair[2] \in answered
      BY <1>3 DEF Finish
    <2>2. \A pair \in Nested : result[pair[2]] # "unborn" => pair[1] # a /\ pair[2] # a
      BY <2>1 DEF Stuck, DepthInv, SettledOnce, Settled
    <2> QED
      BY <2>1, <2>2 DEF Stuck, Settled
  <1>4. ASSUME UNCHANGED result PROVE Stuck'
    BY <1>4 DEF Stuck
  <1>5. ASSUME NEW a \in Actions, Advance(a) \/ Settle(a) \/ Reply(a) PROVE UNCHANGED result
    BY <1>5 DEF Advance, Settle, Reply
  <1> QED
    BY <1>1, <1>2, <1>3, <1>4, <1>5 DEF Next, Engine, vars

LEMMA StuckInvariance == Spec => []Stuck
  <1>1. Init => Stuck
    BY PairType DEF Init, Stuck
  <1>2. IInv /\ DepthInv /\ Stuck /\ [Next]_vars => Stuck'
    BY StuckStep
  <1> QED
    BY <1>1, <1>2, Invariance, DepthInvariance, PTL DEF Spec

\* What walletQueue.ts:14 warns of is so for any number of actions and
\* however they nest: the inner action never begins, the outer one never
\* ends, and depth() never again falls below two.
THEOREM NestedIsStuck == Spec => NestedNeverFinishes
  <1> DEFINE Pinned ==
        \A pair \in Nested :
          result[pair[2]] = "waiting" =>
            result'[pair[2]] = "waiting" /\ result'[pair[1]] = "running" /\ pending' >= 2
  <1>1. IInv /\ DepthInv /\ Stuck /\ Stuck' /\ DepthInv' /\ [Next]_vars => Pinned
    <2> SUFFICES ASSUME IInv, Stuck, Stuck', DepthInv', [Next]_vars,
                        NEW pair \in Nested, result[pair[2]] = "waiting"
                 PROVE  /\ result'[pair[2]] = "waiting" /\ result'[pair[1]] = "running"
                        /\ pending' >= 2
      OBVIOUS
    <2>1. pair[1] \in Actions /\ pair[2] \in Actions
      BY PairType
    <2>2. result'[pair[2]] # "unborn"
      <3>1. \A a \in Actions : Enqueue(a) => result' = [result EXCEPT ![a] = "waiting"]
        BY DEF Enqueue
      <3>2. \A a \in Actions : Start(a) => result' = [result EXCEPT ![a] = "running"]
        BY DEF Start
      <3>3. \A a \in Actions : Finish(a) => \E v \in Settled : result' = [result EXCEPT ![a] = v]
        BY DEF Finish
      <3>4. \A a \in Actions : Advance(a) \/ Settle(a) \/ Reply(a) => result' = result
        BY DEF Advance, Settle, Reply
      <3> QED
        BY <2>1, <3>1, <3>2, <3>3, <3>4 DEF Next, Engine, vars, IInv, TypeOK, Settled
    <2>3. result'[pair[2]] = "waiting" /\ result'[pair[1]] = "running"
      BY <2>2 DEF Stuck
    <2>4. {pair[1], pair[2]} \subseteq Counted'
      BY <2>1, <2>3 DEF Counted
    <2>5. Cardinality({pair[1], pair[2]}) = 2
      <3>1. IsFiniteSet({pair[1]}) /\ Cardinality({pair[1]}) = 1
        BY FS_Singleton
      <3>2. pair[2] \notin {pair[1]} /\ {pair[1], pair[2]} = {pair[1]} \cup {pair[2]}
        BY <2>3
      <3> QED
        BY <3>1, <3>2, FS_AddElement
    <2>6. IsFiniteSet(Counted') /\ Cardinality(Counted') \in Nat
      BY FiniteActions DEF Counted
    <2>7. Cardinality({pair[1], pair[2]}) <= Cardinality(Counted')
      BY <2>4, <2>6, FS_Subset
    <2> QED
      BY <2>3, <2>5, <2>6, <2>7 DEF DepthInv
  <1>2. IInv /\ DepthInv /\ Stuck /\ Stuck' /\ DepthInv' /\ [Next]_vars => [Pinned]_vars
    BY <1>1
  <1> QED
    BY <1>2, Invariance, DepthInvariance, StuckInvariance, PTL DEF Spec, NestedNeverFinishes
-----------------------------------------------------------------------------
(***************************************************************************)
(* The service, for any routes, probes and wallets begun: one queue over   *)
(* one wallet, and memos that forget what was rejected.                    *)
(*                                                                         *)
(* A reaction stands for one promise: a clearing for the promise it may    *)
(* clear, a derivation for the wallet it is made from, a resumption for    *)
(* what the route awaits.                                                  *)
(***************************************************************************)
Of(job) ==
  IF job[1] = "derive" THEN base[job[2]] ELSE IF job[1] = "resume" THEN asked[job[2]] ELSE job[2]

\* Nobody registers twice for the same thing.
Due(job) ==
  /\ job[1] = "derive" => promise[job[2]] = "pending"
  /\ job[1] = "resume" => at[job[2]] = "waiting"

Memo(p) == p = walletPromise \/ p = singletonPromise

Among(s, job) == \E i \in 1 .. Len(s) : s[i] = job

Distinct(s) == \A i, j \in 1 .. Len(s) : s[i] = s[j] => i = j

\* Reactions in their turn: each once, for a promise that has settled; a
\* rejected promise is in its memo exactly while it is still to be cleared,
\* and no route hears of the rejection before that.
InTurn(s) ==
  /\ Distinct(s)
  /\ \A job \in Reactions : Among(s, job) => Due(job) /\ promise[Of(job)] \in Settled
  /\ \A p \in Promises :
       /\ Among(s, <<"clear", p>>) => Memo(p)
       /\ promise[p] = "rejected" /\ Memo(p) => Among(s, <<"clear", p>>)
  /\ \A i \in 1 .. Len(s), u \in Users, p \in Promises :
       s[i] = <<"resume", u>> /\ asked[u] = p /\ promise[p] = "rejected" /\ Memo(p) =>
         \E j \in 1 .. i - 1 : s[j] = <<"clear", p>>

\* Reactions kept with a pending promise, the one that clears it first.
Kept(p, s) ==
  /\ Len(s) >= 1 /\ s[1] = <<"clear", p>>
  /\ Distinct(s)
  /\ \A job \in Reactions : Among(s, job) => Due(job) /\ Of(job) = p

MemoType ==
  /\ walletPromise \in Wallets \cup {Nobody} /\ singletonPromise \in Queues \cup {Nobody}
  /\ promise \in [Promises -> PromiseStates]
  /\ base \in [Queues -> Wallets \cup {Nobody}]
  /\ hooks \in [Promises -> Seq(Reactions)] /\ reactions \in Seq(Reactions)
  /\ at \in [Users -> {"idle", "waiting", "served", "failed"}]
  /\ asked \in [Users -> Promises \cup {Nobody}]

\* Only what is memoised is alive, and what is memoised has been begun.
MemosInv ==
  /\ \A p \in Promises : Alive(p) => Memo(p)
  /\ \A p \in Promises : Memo(p) => promise[p] # "unborn"
  /\ \A q \in Queues : promise[q] # "unborn" => base[q] \in Wallets

UsersInv ==
  \A u \in Users :
    /\ at[u] # "idle" => asked[u] \in Promises
    /\ \A p \in Promises : asked[u] = p =>
         /\ at[u] = "served" => promise[p] = "fulfilled"
         /\ at[u] = "failed" => promise[p] = "rejected" /\ ~Memo(p)

ServiceInv ==
  /\ MemoType /\ MemosInv /\ UsersInv
  /\ InTurn(reactions)
  /\ \A p \in Promises : promise[p] = "pending" => Kept(p, hooks[p])
-----------------------------------------------------------------------------
LEMMA PromiseKinds ==
  /\ Promises = Wallets \cup Queues /\ Wallets \cap Queues = {} /\ Nobody \notin Promises
PROOF BY NobodyAssumption DEF Promises, Wallets, Queues

LEMMA ReactionKinds ==
  ASSUME NEW job \in Reactions
  PROVE  \/ \E p \in Promises : job = <<"clear", p>>
         \/ \E q \in Queues : job = <<"derive", q>>
         \/ \E u \in Users : job = <<"resume", u>>
PROOF BY DEF Reactions

LEMMA ReactionParts ==
  /\ \A p \in Promises : <<"clear", p>> \in Reactions /\ Of(<<"clear", p>>) = p /\ Due(<<"clear", p>>)
  /\ \A q \in Queues : /\ <<"derive", q>> \in Reactions /\ Of(<<"derive", q>>) = base[q]
                       /\ Due(<<"derive", q>>) <=> promise[q] = "pending"
  /\ \A u \in Users : /\ <<"resume", u>> \in Reactions /\ Of(<<"resume", u>>) = asked[u]
                      /\ Due(<<"resume", u>>) <=> at[u] = "waiting"
PROOF BY DEF Reactions, Of, Due

\* The next state's parts, for use with primes.
LEMMA NextParts ==
  /\ \A p \in Promises : Of(<<"clear", p>>)' = p /\ Due(<<"clear", p>>)'
  /\ \A q \in Queues : /\ Of(<<"derive", q>>)' = base'[q]
                       /\ Due(<<"derive", q>>)' <=> promise'[q] = "pending"
  /\ \A u \in Users : /\ Of(<<"resume", u>>)' = asked'[u]
                      /\ Due(<<"resume", u>>)' <=> at'[u] = "waiting"
PROOF BY DEF Of, Due

\* Taking the head of a sequence.
LEMMA Tails ==
  ASSUME NEW s \in Seq(Reactions), s # <<>>
  PROVE  /\ Tail(s) \in Seq(Reactions) /\ Len(s) \in Nat /\ Len(s) >= 1
         /\ Len(Tail(s)) = Len(s) - 1 /\ Head(s) = s[1] /\ Head(s) \in Reactions
         /\ \A i \in 1 .. Len(Tail(s)) : Tail(s)[i] = s[i + 1] /\ i + 1 \in 1 .. Len(s)
         /\ \A i \in 2 .. Len(s) : i - 1 \in 1 .. Len(Tail(s)) /\ Tail(s)[i - 1] = s[i]
<1>1. Len(s) \in Nat /\ Len(s) >= 1 /\ Tail(s) \in Seq(Reactions) /\ Len(Tail(s)) = Len(s) - 1
  BY HeadTailProperties, LenProperties, EmptySeq
<1>2. \A i \in 1 .. Len(Tail(s)) : Tail(s)[i] = s[i + 1]
  BY HeadTailProperties
<1> QED
  BY <1>1, <1>2, HeadTailProperties
-----------------------------------------------------------------------------
(***************************************************************************)
(* The calls: one reaction is added, with a promise that is pending or in  *)
(* its turn, and promises may be begun and memoised.                       *)
(***************************************************************************)

\* What a call leaves of the state its caller found.
Calls(u) ==
  /\ at[u] # "waiting" /\ at' = [at EXCEPT ![u] = "waiting"]
  /\ \A v \in Users \ {u} : asked'[v] = asked[v]
  /\ asked'[u] \in Promises
  /\ \A p \in Promises :
       \/ promise'[p] = promise[p]
       \/ promise[p] = "unborn" /\ promise'[p] = "pending"
  /\ \A q \in Queues : promise[q] # "unborn" => base'[q] = base[q]
  /\ \A p \in Promises : Memo(p) => Memo(p)'
  /\ \A p \in Promises : Memo(p)' => Memo(p) \/ (promise[p] = "unborn" /\ promise'[p] = "pending")
  /\ \A p \in Promises : promise[p] = "unborn" /\ promise'[p] = "pending" => Memo(p)'
  /\ \A q \in Queues : promise'[q] # "unborn" => base'[q] \in Wallets

\* A reaction that nobody had registered.
Newly(job) == job \in Reactions /\ ~Due(job) /\ Due(job)'

LEMMA OldReactions ==
  ASSUME ServiceInv, NEW u \in Users, Calls(u), NEW job \in Reactions, Due(job),
         promise[Of(job)] # "unborn", Of(job) \in Promises
  PROVE  Due(job)' /\ Of(job)' = Of(job)
<1>1. CASE \E p \in Promises : job = <<"clear", p>>
  BY <1>1, ReactionParts, NextParts
<1>2. ASSUME NEW q \in Queues, job = <<"derive", q>> PROVE Due(job)' /\ Of(job)' = Of(job)
  <2>1. promise[q] = "pending" /\ q \in Promises
    BY <1>2, ReactionParts, PromiseKinds
  <2>2. promise'[q] = "pending" /\ base'[q] = base[q]
    BY <2>1 DEF Calls
  <2> QED
    BY <1>2, <2>2, ReactionParts, NextParts
<1>3. ASSUME NEW v \in Users, job = <<"resume", v>> PROVE Due(job)' /\ Of(job)' = Of(job)
  <2>1. at[v] = "waiting"
    BY <1>3, ReactionParts
  <2>2. v # u
    BY <2>1 DEF Calls
  <2>3. at'[v] = "waiting" /\ asked'[v] = asked[v]
    BY <2>1, <2>2 DEF Calls, ServiceInv, MemoType
  <2> QED
    BY <1>3, <2>3, ReactionParts, NextParts
<1> QED
  BY <1>1, <1>2, <1>3, ReactionKinds

\* A reaction stands for a promise.
LEMMA Stands ==
  ASSUME ServiceInv, NEW job \in Reactions, Due(job) PROVE Of(job) \in Promises
<1>1. CASE \E p \in Promises : job = <<"clear", p>>
  BY <1>1, ReactionParts
<1>2. ASSUME NEW q \in Queues, job = <<"derive", q>> PROVE Of(job) \in Promises
  <2>1. promise[q] = "pending" /\ q \in Promises
    BY <1>2, ReactionParts, PromiseKinds
  <2> QED
    BY <1>2, <2>1, ReactionParts, PromiseKinds DEF ServiceInv, MemosInv
<1>3. ASSUME NEW v \in Users, job = <<"resume", v>> PROVE Of(job) \in Promises
  BY <1>3, ReactionParts DEF ServiceInv, UsersInv
<1> QED
  BY <1>1, <1>2, <1>3, ReactionKinds

LEMMA CallsUsers == ASSUME ServiceInv, NEW u \in Users, Calls(u) PROVE UsersInv'
<1> SUFFICES ASSUME NEW v \in Users
             PROVE  /\ at'[v] # "idle" => asked'[v] \in Promises
                    /\ \A p \in Promises : asked'[v] = p =>
                         /\ at'[v] = "served" => promise'[p] = "fulfilled"
                         /\ at'[v] = "failed" => promise'[p] = "rejected" /\ ~Memo(p)'
  BY DEF UsersInv
<1>1. CASE v = u
  BY <1>1 DEF Calls, ServiceInv, MemoType
<1>2. CASE v # u
  <2>1. at'[v] = at[v] /\ asked'[v] = asked[v]
    BY <1>2 DEF Calls, ServiceInv, MemoType
  <2>2. /\ at[v] # "idle" => asked[v] \in Promises
        /\ \A p \in Promises : asked[v] = p =>
             /\ at[v] = "served" => promise[p] = "fulfilled"
             /\ at[v] = "failed" => promise[p] = "rejected" /\ ~Memo(p)
    BY DEF ServiceInv, UsersInv
  <2>3. \A p \in Promises : promise[p] # "unborn" =>
          promise'[p] = promise[p] /\ (Memo(p)' => Memo(p))
    BY DEF Calls
  <2> QED
    BY <2>1, <2>2, <2>3
<1> QED
  BY <1>1, <1>2

LEMMA CallsMemos == ASSUME ServiceInv, NEW u \in Users, Calls(u) PROVE MemosInv'
<1>1. \A p \in Promises : Alive(p)' => Memo(p)'
  BY DEF Calls, ServiceInv, MemosInv, Alive
<1>2. \A p \in Promises : Memo(p)' => promise'[p] # "unborn"
  <2>1. \A p \in Promises : Memo(p) => promise[p] # "unborn"
    BY DEF ServiceInv, MemosInv
  <2> QED
    BY <2>1 DEF Calls
<1> QED
  BY <1>1, <1>2 DEF MemosInv, Calls

\* What is registered stays due, for the same promise.
LEMMA StillDue ==
  ASSUME ServiceInv, NEW u \in Users, Calls(u), NEW job \in Reactions, Due(job),
         promise[Of(job)] # "unborn"
  PROVE  Due(job)' /\ Of(job)' = Of(job) /\ promise'[Of(job)'] = promise[Of(job)]
<1>1. Of(job) \in Promises
  BY Stands
<1>2. Due(job)' /\ Of(job)' = Of(job)
  BY <1>1, OldReactions
<1> QED
  BY <1>1, <1>2 DEF Calls

\* Adding one to a sequence of reactions.
LEMMA Adds ==
  ASSUME NEW s \in Seq(Reactions), NEW new \in Reactions
  PROVE  /\ Append(s, new) \in Seq(Reactions) /\ Len(s) \in Nat /\ Len(Append(s, new)) = Len(s) + 1
         /\ \A i \in 1 .. Len(s) : Append(s, new)[i] = s[i]
         /\ Append(s, new)[Len(s) + 1] = new
         /\ \A job : Among(Append(s, new), job) <=> Among(s, job) \/ job = new
         /\ Distinct(s) /\ ~Among(s, new) => Distinct(Append(s, new))
<1>1. /\ Append(s, new) \in Seq(Reactions) /\ Len(s) \in Nat /\ Len(Append(s, new)) = Len(s) + 1
      /\ \A i \in 1 .. Len(s) : Append(s, new)[i] = s[i]
      /\ Append(s, new)[Len(s) + 1] = new
  BY AppendProperties, LenProperties
<1> DEFINE t == Append(s, new)
<1> HIDE DEF t
<1>2. \A i \in 1 .. Len(t) : i \in 1 .. Len(s) \/ i = Len(s) + 1
  BY <1>1 DEF t
<1>3. Len(s) + 1 \in 1 .. Len(t) /\ \A i \in 1 .. Len(s) : i \in 1 .. Len(t)
  BY <1>1 DEF t
<1>4. \A job : Among(t, job) <=> Among(s, job) \/ job = new
  BY <1>1, <1>2, <1>3 DEF Among, t
<1>5. Distinct(s) /\ ~Among(s, new) => Distinct(t)
  BY <1>1, <1>2, <1>3 DEF Among, Distinct, t
<1> QED
  BY <1>1, <1>4, <1>5 DEF t

\* The calls that register with a promise that has settled, and those that
\* leave the reactions in their turn alone: `new` is then one of them.
LEMMA CallsTurn ==
  ASSUME ServiceInv, NEW u \in Users, Calls(u), NEW new,
         \/ reactions' = reactions
         \/ /\ new \in Reactions /\ Newly(new) /\ promise'[Of(new)'] \in Settled
            /\ reactions' = Append(reactions, new)
            /\ \A p \in Promises : new # <<"clear", p>>
  PROVE  InTurn(reactions)'
<1>0. reactions \in Seq(Reactions) /\ InTurn(reactions)
  BY DEF ServiceInv, MemoType
<1>1. /\ \A job : Among(reactions, job) => Among(reactions', job)
      /\ \A job : Among(reactions', job) => Among(reactions, job) \/ (job = new /\ reactions' # reactions)
      /\ Len(reactions) \in Nat
      /\ reactions' = reactions \/ Len(reactions') = Len(reactions) + 1
      /\ \A i \in 1 .. Len(reactions) : reactions'[i] = reactions[i]
  <2>1. CASE reactions' = reactions
    BY <1>0, <2>1, LenProperties
  <2>2. CASE reactions' # reactions
    <3>1. new \in Reactions /\ reactions' = Append(reactions, new)
      BY <2>2
    <3> QED
      BY <1>0, <3>1, Adds
  <2> QED
    BY <2>1, <2>2
<1>2. \A job \in Reactions : Among(reactions', job) =>
        Among(reactions, job) \/ (job = new /\ Newly(new) /\ promise'[Of(new)'] \in Settled)
  BY <1>1
<1>3. \A job \in Reactions : Among(reactions, job) => Among(reactions', job)
  BY <1>1
<1>4. \A p \in Promises : Among(reactions', <<"clear", p>>) => Among(reactions, <<"clear", p>>)
  BY <1>1
<1>5. Distinct(reactions')
  <2>1. CASE reactions' = reactions
    BY <1>0, <2>1 DEF InTurn
  <2>2. CASE reactions' # reactions
    <3>1. new \in Reactions /\ Newly(new) /\ reactions' = Append(reactions, new)
      BY <2>2
    <3>2. ~Among(reactions, new)
      BY <1>0, <3>1 DEF InTurn, Newly
    <3> QED
      BY <1>0, <3>1, <3>2, Adds DEF InTurn
  <2> QED
    BY <2>1, <2>2
<1>6. \A job \in Reactions : Among(reactions', job) => Due(job)' /\ promise'[Of(job)'] \in Settled
  <2>1. \A job \in Reactions : Among(reactions, job) => Due(job) /\ promise[Of(job)] \in Settled
    BY <1>0 DEF InTurn
  <2>2. \A job \in Reactions : Among(reactions, job) => Due(job)' /\ promise'[Of(job)'] \in Settled
    BY <2>1, StillDue DEF Settled
  <2> QED
    BY <1>2, <2>2 DEF Newly
<1>7. ASSUME NEW p \in Promises
      PROVE  /\ Among(reactions', <<"clear", p>>) => Memo(p)'
             /\ promise'[p] = "rejected" /\ Memo(p)' => Among(reactions', <<"clear", p>>)
  <2>1. <<"clear", p>> \in Reactions
    BY ReactionParts
  <2>2. /\ Among(reactions, <<"clear", p>>) => Memo(p)
        /\ promise[p] = "rejected" /\ Memo(p) => Among(reactions, <<"clear", p>>)
    BY <1>0 DEF InTurn
  <2> QED
    BY <1>3, <1>4, <2>1, <2>2 DEF Calls
<1>8. ASSUME NEW i \in 1 .. Len(reactions'), NEW v \in Users, NEW p \in Promises,
             reactions'[i] = <<"resume", v>>, asked'[v] = p, promise'[p] = "rejected", Memo(p)'
      PROVE  \E j \in 1 .. i - 1 : reactions'[j] = <<"clear", p>>
  <2>1. promise[p] = "rejected" /\ Memo(p)
    BY <1>8 DEF Calls
  <2>2. CASE i \in 1 .. Len(reactions)
    <3>1. reactions[i] = <<"resume", v>> /\ \A j \in 1 .. Len(reactions) : reactions'[j] = reactions[j]
      BY <1>1, <1>8, <2>2
    <3>2. at[v] = "waiting" /\ <<"resume", v>> \in Reactions
      BY <1>0, <2>2, <3>1, ReactionParts DEF InTurn, Among
    <3>3. asked[v] = p
      BY <1>8, <3>2 DEF Calls
    <3>4. PICK j \in 1 .. i - 1 : reactions[j] = <<"clear", p>>
      BY <1>0, <2>1, <2>2, <3>1, <3>3 DEF InTurn
    <3>5. j \in 1 .. Len(reactions)
      BY <1>0, <2>2, LenProperties
    <3> QED
      BY <3>1, <3>4, <3>5
  <2>3. CASE i \notin 1 .. Len(reactions)
    <3>1. i = Len(reactions) + 1 /\ \A j \in 1 .. Len(reactions) : reactions'[j] = reactions[j]
      BY <1>1, <1>8, <2>3
    <3>2. PICK j \in 1 .. Len(reactions) : reactions[j] = <<"clear", p>>
      BY <1>0, <2>1 DEF InTurn, Among
    <3>3. Len(reactions) \in Nat
      BY <1>0, LenProperties
    <3> QED
      BY <3>1, <3>2, <3>3
  <2> QED
    BY <2>2, <2>3
<1> QED
  BY <1>5, <1>6, <1>7, <1>8 DEF InTurn

LEMMA CallsKeep ==
  ASSUME ServiceInv, NEW u \in Users, Calls(u), NEW p \in Promises, promise'[p] = "pending", NEW new,
         \/ promise[p] = "pending" /\ hooks'[p] = hooks[p]
         \/ /\ new \in Reactions /\ Newly(new) /\ Of(new)' = p
            /\ \/ promise[p] = "pending" /\ hooks'[p] = Append(hooks[p], new)
               \/ hooks'[p] = << <<"clear", p>>, new >>
  PROVE  Kept(p, hooks[p])'
<1>0. hooks[p] \in Seq(Reactions) /\ (promise[p] = "pending" => Kept(p, hooks[p]))
  BY DEF ServiceInv, MemoType
<1>1. ASSUME promise[p] = "pending", NEW job \in Reactions, Among(hooks[p], job)
      PROVE  Due(job) /\ Due(job)' /\ Of(job)' = p
  <2>1. Due(job) /\ Of(job) = p
    BY <1>0, <1>1 DEF Kept
  <2> QED
    BY <1>1, <2>1, StillDue
<1>2. CASE promise[p] = "pending" /\ hooks'[p] = hooks[p]
  BY <1>0, <1>1, <1>2 DEF Kept
<1>3. CASE /\ new \in Reactions /\ Newly(new) /\ Of(new)' = p
           /\ promise[p] = "pending" /\ hooks'[p] = Append(hooks[p], new)
  <2>1. ~Among(hooks[p], new)
    BY <1>1, <1>3 DEF Newly
  <2>2. /\ Len(hooks[p]) \in Nat /\ Len(hooks'[p]) = Len(hooks[p]) + 1
        /\ \A i \in 1 .. Len(hooks[p]) : hooks'[p][i] = hooks[p][i]
        /\ \A job : Among(hooks'[p], job) <=> Among(hooks[p], job) \/ job = new
        /\ Distinct(hooks[p]) => Distinct(hooks'[p])
    BY <1>0, <1>3, <2>1, Adds
  <2>3. Len(hooks'[p]) >= 1 /\ hooks'[p][1] = <<"clear", p>> /\ Distinct(hooks'[p])
    BY <1>0, <1>3, <2>2 DEF Kept
  <2>4. \A job \in Reactions : Among(hooks'[p], job) => Due(job)' /\ Of(job)' = p
    BY <1>1, <1>3, <2>2 DEF Newly
  <2> QED
    BY <2>3, <2>4 DEF Kept
<1>4. CASE /\ new \in Reactions /\ Newly(new) /\ Of(new)' = p
           /\ hooks'[p] = << <<"clear", p>>, new >>
  <2>1. new # <<"clear", p>>
    BY <1>4, ReactionParts DEF Newly
  <2>2. /\ Len(hooks'[p]) = 2 /\ hooks'[p][1] = <<"clear", p>> /\ hooks'[p][2] = new
    BY <1>4
  <2>3. \A i \in 1 .. Len(hooks'[p]) : i = 1 \/ i = 2
    BY <2>2
  <2>4. \A job : Among(hooks'[p], job) => job = new \/ job = <<"clear", p>>
    BY <2>2, <2>3 DEF Among
  <2>5. Distinct(hooks'[p])
    BY <2>1, <2>2, <2>3 DEF Distinct
  <2>6. \A job \in Reactions : Among(hooks'[p], job) => Due(job)' /\ Of(job)' = p
    BY <1>4, <2>4, NextParts DEF Newly
  <2> QED
    BY <2>2, <2>5, <2>6 DEF Kept
<1> QED
  BY <1>2, <1>3, <1>4

\* The whole invariant after a call.
LEMMA CallsInv ==
  ASSUME ServiceInv, NEW u \in Users, Calls(u), MemoType', InTurn(reactions)',
         \A p \in Promises : promise'[p] = "pending" => Kept(p, hooks[p])'
  PROVE  ServiceInv'
PROOF BY CallsUsers, CallsMemos DEF ServiceInv

\* What Awaits(u, p) does to u.
LEMMA AwaitsFacts ==
  ASSUME ServiceInv, NEW u \in Users, NEW p \in Promises, Awaits(u, p)
  PROVE  /\ at[u] # "waiting" /\ at' = [at EXCEPT ![u] = "waiting"]
         /\ \A v \in Users \ {u} : asked'[v] = asked[v]
         /\ asked'[u] = p
         /\ at' \in [Users -> {"idle", "waiting", "served", "failed"}]
         /\ asked' \in [Users -> Promises \cup {Nobody}]
         /\ <<"resume", u>> \in Reactions /\ Newly(<<"resume", u>>) /\ Of(<<"resume", u>>)' = p
         /\ \A q \in Promises : <<"resume", u>> # <<"clear", q>>
<1>1. /\ at[u] # "waiting" /\ at' = [at EXCEPT ![u] = "waiting"]
      /\ asked' = [asked EXCEPT ![u] = p]
  BY DEF Awaits
<1>2. /\ at \in [Users -> {"idle", "waiting", "served", "failed"}]
      /\ asked \in [Users -> Promises \cup {Nobody}]
  BY DEF ServiceInv, MemoType
<1>3. at'[u] = "waiting" /\ asked'[u] = p
  BY <1>1, <1>2
<1>4. <<"resume", u>> \in Reactions /\ Newly(<<"resume", u>>) /\ Of(<<"resume", u>>)' = p
  BY <1>1, <1>3, ReactionParts, NextParts DEF Newly
<1> QED
  BY <1>1, <1>2, <1>3, <1>4

\* A call that finds its memo.
LEMMA FoundStep ==
  ASSUME ServiceInv, NEW u \in Users, NEW m \in Promises, Memo(m), Awaits(u, m),
         Register(m, <<"resume", u>>, hooks),
         UNCHANGED <<walletPromise, singletonPromise, promise, base>>
  PROVE  ServiceInv'
<1> DEFINE job == <<"resume", u>>
<1>1. /\ hooks \in [Promises -> Seq(Reactions)] /\ reactions \in Seq(Reactions)
      /\ promise \in [Promises -> PromiseStates] /\ promise[m] # "unborn"
  BY DEF ServiceInv, MemoType, MemosInv
<1>2. Calls(u)
  BY AwaitsFacts DEF Calls, Memo, ServiceInv, MemosInv
<1>3. \/ promise[m] = "pending" /\ hooks' = [hooks EXCEPT ![m] = Append(@, job)] /\ UNCHANGED reactions
      \/ promise[m] \in Settled /\ hooks' = hooks /\ reactions' = Append(reactions, job)
  BY <1>1 DEF Register, PromiseStates
<1>4. hooks' \in [Promises -> Seq(Reactions)] /\ reactions' \in Seq(Reactions)
  <2>1. job \in Reactions /\ hooks[m] \in Seq(Reactions)
    BY <1>1, AwaitsFacts
  <2>2. Append(hooks[m], job) \in Seq(Reactions) /\ Append(reactions, job) \in Seq(Reactions)
    BY <1>1, <2>1, AppendProperties
  <2> HIDE DEF job
  <2> QED
    BY <1>1, <1>3, <2>2
<1>5. MemoType'
  BY <1>4, AwaitsFacts DEF ServiceInv, MemoType
<1>6. InTurn(reactions)'
  <2>1. CASE UNCHANGED reactions
    BY <1>2, <2>1, CallsTurn
  <2>2. CASE promise[m] \in Settled /\ reactions' = Append(reactions, job)
    <3>1. promise'[Of(job)'] \in Settled
      BY <2>2, AwaitsFacts
    <3> QED
      BY <1>2, <2>2, <3>1, AwaitsFacts, CallsTurn
  <2> QED
    BY <1>3, <2>1, <2>2
<1>7. ASSUME NEW p \in Promises, promise'[p] = "pending" PROVE Kept(p, hooks[p])'
  <2>1. promise[p] = "pending"
    BY <1>7
  <2>2. \/ hooks'[p] = hooks[p]
        \/ p = m /\ hooks'[p] = Append(hooks[p], job)
    BY <1>1, <1>3
  <2>3. CASE hooks'[p] = hooks[p]
    BY <1>2, <1>7, <2>1, <2>3, CallsKeep
  <2>4. CASE p = m /\ hooks'[p] = Append(hooks[p], job)
    BY <1>2, <1>7, <2>1, <2>4, AwaitsFacts, CallsKeep
  <2> QED
    BY <2>2, <2>3, <2>4
<1> QED
  BY <1>2, <1>5, <1>6, <1>7, CallsInv

\* A call that begins a wallet.
LEMMA BorrowAfreshStep == ASSUME ServiceInv, NEW u \in Users, BorrowAfresh(u) PROVE ServiceInv'
<1> DEFINE job == <<"resume", u>>
<1>1. PICK w \in Wallets :
        /\ promise[w] = "unborn" /\ Awaits(u, w)
        /\ walletPromise' = w
        /\ promise' = [promise EXCEPT ![w] = "pending"]
        /\ hooks' = [hooks EXCEPT ![w] = << <<"clear", w>>, job >>]
  BY DEF BorrowAfresh, IsNext
<1>2. UNCHANGED <<singletonPromise, base, reactions>> /\ walletPromise = Nobody
  BY DEF BorrowAfresh, WalletIsMemoised
<1>3. /\ hooks \in [Promises -> Seq(Reactions)] /\ reactions \in Seq(Reactions)
      /\ promise \in [Promises -> PromiseStates] /\ w \in Promises
  BY PromiseKinds DEF ServiceInv, MemoType
<1>4. /\ promise'[w] = "pending" /\ hooks'[w] = << <<"clear", w>>, job >>
      /\ \A p \in Promises \ {w} : promise'[p] = promise[p] /\ hooks'[p] = hooks[p]
  BY <1>1, <1>3
<1>5. \A p \in Promises : Memo(p)' <=> Memo(p) \/ p = w
  BY <1>1, <1>2, PromiseKinds DEF Memo
<1>6. Calls(u)
  <2>1. \A q \in Queues : promise'[q] # "unborn" => base'[q] \in Wallets
    BY <1>2, <1>4, PromiseKinds DEF ServiceInv, MemosInv
  <2> QED
    BY <1>1, <1>2, <1>3, <1>4, <1>5, <2>1, AwaitsFacts DEF Calls
<1>7. MemoType'
  <2>1. << <<"clear", w>>, job >> \in Seq(Reactions)
    BY <1>1, <1>3, AwaitsFacts, ReactionParts
  <2>2. hooks' \in [Promises -> Seq(Reactions)] /\ promise' \in [Promises -> PromiseStates]
    BY <1>1, <1>3, <2>1 DEF PromiseStates
  <2> QED
    BY <1>1, <1>2, <1>3, <2>2, AwaitsFacts DEF ServiceInv, MemoType
<1>8. InTurn(reactions)'
  BY <1>2, <1>6, CallsTurn
<1>9. ASSUME NEW p \in Promises, promise'[p] = "pending" PROVE Kept(p, hooks[p])'
  <2>1. CASE p = w
    <3>1. job \in Reactions /\ Newly(job) /\ Of(job)' = w
      BY <1>1, <1>3, AwaitsFacts
    <3> HIDE DEF job
    <3> QED
      BY <1>4, <1>6, <1>9, <2>1, <3>1, CallsKeep
  <2>2. CASE p # w
    BY <1>4, <1>6, <1>9, <2>2, CallsKeep
  <2> QED
    BY <2>1, <2>2
<1> QED
  BY <1>6, <1>7, <1>8, <1>9, CallsInv

\* A call that begins a queue over the memoised wallet.
LEMMA AskOverWalletStep == ASSUME ServiceInv, NEW u \in Users, AskOverWallet(u) PROVE ServiceInv'
<1> DEFINE job == <<"resume", u>>
<1>1. PICK q \in Queues :
        /\ promise[q] = "unborn" /\ Awaits(u, q)
        /\ singletonPromise' = q
        /\ base' = [base EXCEPT ![q] = walletPromise]
        /\ promise' = [promise EXCEPT ![q] = "pending"]
        /\ Register(walletPromise, <<"derive", q>>, [hooks EXCEPT ![q] = << <<"clear", q>>, job >>])
  BY DEF AskOverWallet, IsNext
<1> DEFINE new == <<"derive", q>>
           fresh == [hooks EXCEPT ![q] = << <<"clear", q>>, job >>]
<1>2. UNCHANGED walletPromise /\ walletPromise # Nobody /\ singletonPromise = Nobody
  BY DEF AskOverWallet, WalletIsMemoised, QueueIsMemoised
<1>3. /\ hooks \in [Promises -> Seq(Reactions)] /\ reactions \in Seq(Reactions)
      /\ promise \in [Promises -> PromiseStates] /\ base \in [Queues -> Wallets \cup {Nobody}]
      /\ walletPromise \in Wallets /\ walletPromise \in Promises /\ q \in Promises /\ q # walletPromise
  BY <1>2, PromiseKinds DEF ServiceInv, MemoType
<1>4. /\ promise'[q] = "pending" /\ base'[q] = walletPromise
      /\ \A p \in Promises \ {q} : promise'[p] = promise[p]
      /\ \A p \in Queues \ {q} : base'[p] = base[p]
  BY <1>1, <1>3
<1>5. \A p \in Promises : Memo(p)' <=> Memo(p) \/ p = q
  BY <1>1, <1>2, PromiseKinds DEF Memo
<1>6. Calls(u)
  <2>1. \A p \in Queues : promise'[p] # "unborn" => base'[p] \in Wallets
    BY <1>3, <1>4, PromiseKinds DEF ServiceInv, MemosInv
  <2> QED
    BY <1>1, <1>3, <1>4, <1>5, <2>1, AwaitsFacts DEF Calls
<1>7. promise[walletPromise] # "unborn" /\ promise'[walletPromise] = promise[walletPromise]
  BY <1>3, <1>4 DEF ServiceInv, MemosInv, Memo
<1>8. /\ new \in Reactions /\ Newly(new) /\ Of(new)' = walletPromise
      /\ \A p \in Promises : new # <<"clear", p>>
  BY <1>1, <1>4, ReactionParts, NextParts DEF Newly
<1>9. /\ fresh \in [Promises -> Seq(Reactions)] /\ fresh[q] = << <<"clear", q>>, job >>
      /\ \A p \in Promises \ {q} : fresh[p] = hooks[p]
  <2>1. << <<"clear", q>>, job >> \in Seq(Reactions)
    BY <1>1, <1>3, AwaitsFacts, ReactionParts
  <2> QED
    BY <1>3, <2>1
<1>10. \/ /\ promise[walletPromise] = "pending" /\ UNCHANGED reactions
          /\ hooks' = [fresh EXCEPT ![walletPromise] = Append(@, new)]
       \/ promise[walletPromise] \in Settled /\ hooks' = fresh /\ reactions' = Append(reactions, new)
  <2> HIDE DEF new, fresh
  <2>1. Register(walletPromise, new, fresh)
    BY <1>1 DEF new, fresh
  <2> QED
    BY <1>3, <1>7, <2>1 DEF Register, PromiseStates
<1> HIDE DEF new, fresh
<1>11. /\ hooks' \in [Promises -> Seq(Reactions)] /\ reactions' \in Seq(Reactions)
       /\ hooks'[q] = << <<"clear", q>>, job >>
       /\ \A p \in Promises \ {q} :
            \/ hooks'[p] = hooks[p]
            \/ /\ p = walletPromise /\ promise[p] = "pending"
               /\ hooks'[p] = Append(hooks[p], new)
  <2>1. Append(fresh[walletPromise], new) \in Seq(Reactions) /\ Append(reactions, new) \in Seq(Reactions)
    BY <1>3, <1>8, <1>9, AppendProperties
  <2>2. CASE hooks' = [fresh EXCEPT ![walletPromise] = Append(@, new)] /\ UNCHANGED reactions
               /\ promise[walletPromise] = "pending"
    BY <1>3, <1>9, <2>1, <2>2
  <2>3. CASE hooks' = fresh /\ reactions' = Append(reactions, new)
    BY <1>3, <1>9, <2>1, <2>3
  <2> QED
    BY <1>10, <2>2, <2>3
<1>12. MemoType'
  <2>1. promise' \in [Promises -> PromiseStates] /\ base' \in [Queues -> Wallets \cup {Nobody}]
    BY <1>1, <1>3 DEF PromiseStates
  <2> QED
    BY <1>1, <1>2, <1>3, <1>11, <2>1, AwaitsFacts DEF ServiceInv, MemoType
<1>13. InTurn(reactions)'
  <2>1. CASE UNCHANGED reactions
    BY <1>6, <2>1, CallsTurn
  <2>2. CASE promise[walletPromise] \in Settled /\ reactions' = Append(reactions, new)
    BY <1>6, <1>7, <1>8, <2>2, CallsTurn
  <2> QED
    BY <1>10, <2>1, <2>2
<1>14. ASSUME NEW p \in Promises, promise'[p] = "pending" PROVE Kept(p, hooks[p])'
  <2>1. CASE p = q
    <3>1. job \in Reactions /\ Newly(job) /\ Of(job)' = q
      BY <1>1, <1>3, AwaitsFacts
    <3> HIDE DEF job
    <3> QED
      BY <1>1, <1>6, <1>11, <1>14, <2>1, <3>1, CallsKeep
  <2>2. CASE p # q /\ hooks'[p] = hooks[p]
    BY <1>4, <1>6, <1>14, <2>2, CallsKeep
  <2>3. CASE p # q /\ p = walletPromise /\ promise[p] = "pending" /\ hooks'[p] = Append(hooks[p], new)
    BY <1>6, <1>8, <1>14, <2>3, CallsKeep
  <2> QED
    BY <1>11, <2>1, <2>2, <2>3
<1> QED
  BY <1>6, <1>12, <1>13, <1>14, CallsInv

\* A call that begins both.
LEMMA AskAfreshStep == ASSUME ServiceInv, NEW u \in Users, AskAfresh(u) PROVE ServiceInv'
<1> DEFINE job == <<"resume", u>>
<1>1. PICK q \in Queues, w \in Wallets :
        /\ promise[q] = "unborn" /\ promise[w] = "unborn" /\ Awaits(u, q)
        /\ walletPromise' = w /\ singletonPromise' = q
        /\ base' = [base EXCEPT ![q] = w]
        /\ promise' = [promise EXCEPT ![q] = "pending", ![w] = "pending"]
        /\ hooks' = [hooks EXCEPT ![q] = << <<"clear", q>>, job >>,
                                  ![w] = << <<"clear", w>>, <<"derive", q>> >>]
  BY DEF AskAfresh, IsNext
<1> DEFINE new == <<"derive", q>>
<1>2. UNCHANGED reactions /\ walletPromise = Nobody /\ singletonPromise = Nobody
  BY DEF AskAfresh, WalletIsMemoised, QueueIsMemoised
<1>3. /\ hooks \in [Promises -> Seq(Reactions)] /\ reactions \in Seq(Reactions)
      /\ promise \in [Promises -> PromiseStates] /\ base \in [Queues -> Wallets \cup {Nobody}]
      /\ w \in Promises /\ q \in Promises /\ q # w
  BY PromiseKinds DEF ServiceInv, MemoType
<1>4. /\ promise'[q] = "pending" /\ promise'[w] = "pending" /\ base'[q] = w
      /\ hooks'[q] = << <<"clear", q>>, job >> /\ hooks'[w] = << <<"clear", w>>, new >>
      /\ \A p \in Promises \ {q, w} : promise'[p] = promise[p] /\ hooks'[p] = hooks[p]
      /\ \A p \in Queues \ {q} : base'[p] = base[p]
  BY <1>1, <1>3
<1>5. /\ at[u] # "waiting" /\ at' = [at EXCEPT ![u] = "waiting"]
      /\ \A v \in Users \ {u} : asked'[v] = asked[v]
      /\ asked'[u] = q
      /\ job \in Reactions /\ Newly(job) /\ Of(job)' = q
  BY <1>1, <1>3, AwaitsFacts
<1>6. \A p \in Promises : Memo(p)' <=> p = q \/ p = w
  BY <1>1 DEF Memo
<1>7. Calls(u)
  <2>1. \A p \in Queues : promise'[p] # "unborn" => base'[p] \in Wallets
    BY <1>1, <1>4, PromiseKinds DEF ServiceInv, MemosInv
  <2>2. \A p \in Promises : ~Memo(p)
    BY <1>2, PromiseKinds DEF Memo
  <2>3. \A p \in Promises : \/ promise'[p] = promise[p] /\ p # q /\ p # w
                            \/ promise[p] = "unborn" /\ promise'[p] = "pending" /\ (p = q \/ p = w)
    BY <1>1, <1>4
  <2>4. \A p \in Queues : promise[p] # "unborn" => base'[p] = base[p]
    BY <1>1, <1>4
  <2> HIDE DEF job
  <2> QED
    BY <1>3, <1>5, <1>6, <2>1, <2>2, <2>3, <2>4 DEF Calls
<1>8. new \in Reactions /\ Newly(new) /\ Of(new)' = w
  BY <1>1, <1>4, ReactionParts, NextParts DEF Newly
<1>9. MemoType'
  <2>1. << <<"clear", q>>, job >> \in Seq(Reactions) /\ << <<"clear", w>>, new >> \in Seq(Reactions)
    BY <1>1, <1>3, <1>8, AwaitsFacts, ReactionParts
  <2>2. hooks' \in [Promises -> Seq(Reactions)]
    BY <1>1, <1>3, <2>1
  <2>3. promise' \in [Promises -> PromiseStates] /\ base' \in [Queues -> Wallets \cup {Nobody}]
    BY <1>1, <1>3 DEF PromiseStates
  <2> QED
    BY <1>1, <1>2, <1>3, <2>2, <2>3, AwaitsFacts DEF ServiceInv, MemoType
<1>10. InTurn(reactions)'
  BY <1>2, <1>7, CallsTurn
<1> HIDE DEF new, job
<1>11. ASSUME NEW p \in Promises, promise'[p] = "pending" PROVE Kept(p, hooks[p])'
  <2>1. CASE p = q
    BY <1>4, <1>5, <1>7, <1>11, <2>1, CallsKeep
  <2>2. CASE p = w
    BY <1>4, <1>7, <1>8, <1>11, <2>2, CallsKeep
  <2>3. CASE p # q /\ p # w
    BY <1>4, <1>7, <1>11, <2>3, CallsKeep
  <2> QED
    BY <2>1, <2>2, <2>3
<1> QED
  BY <1>7, <1>9, <1>10, <1>11, CallsInv
-----------------------------------------------------------------------------
(***************************************************************************)
(* The promises settle and the reactions run.                              *)
(***************************************************************************)
LEMMA Joins ==
  ASSUME NEW s \in Seq(Reactions), NEW t \in Seq(Reactions)
  PROVE  /\ s \o t \in Seq(Reactions) /\ Len(s) \in Nat /\ Len(t) \in Nat
         /\ Len(s \o t) = Len(s) + Len(t)
         /\ \A i \in 1 .. Len(s) : (s \o t)[i] = s[i]
         /\ \A i \in 1 .. Len(t) : (s \o t)[Len(s) + i] = t[i] /\ Len(s) + i \in 1 .. Len(s \o t)
         /\ \A i \in 1 .. Len(s \o t) : i \in 1 .. Len(s) \/ i - Len(s) \in 1 .. Len(t)
         /\ \A job : Among(s \o t, job) <=> Among(s, job) \/ Among(t, job)
         /\ Distinct(s) /\ Distinct(t) /\ (\A job \in Reactions : ~(Among(s, job) /\ Among(t, job))) =>
              Distinct(s \o t)
<1> DEFINE st == s \o t
<1>1. /\ st \in Seq(Reactions) /\ Len(s) \in Nat /\ Len(t) \in Nat /\ Len(st) = Len(s) + Len(t)
      /\ \A i \in 1 .. Len(s) : st[i] = s[i]
      /\ \A i \in 1 .. Len(t) : st[Len(s) + i] = t[i]
  <2>1. Len(s) \in Nat /\ Len(t) \in Nat /\ st \in Seq(Reactions) /\ Len(st) = Len(s) + Len(t)
    BY ConcatProperties, LenProperties
  <2>2. \A i \in 1 .. Len(s) + Len(t) : st[i] = IF i <= Len(s) THEN s[i] ELSE t[i - Len(s)]
    BY ConcatProperties
  <2> HIDE DEF st
  <2>3. \A i \in 1 .. Len(s) : st[i] = s[i]
    BY <2>1, <2>2
  <2>4. ASSUME NEW i \in 1 .. Len(t) PROVE st[Len(s) + i] = t[i]
    <3>1. /\ Len(s) + i \in 1 .. Len(s) + Len(t) /\ ~(Len(s) + i <= Len(s))
          /\ (Len(s) + i) - Len(s) = i
      BY <2>1
    <3> QED
      BY <2>2, <3>1
  <2> QED
    BY <2>1, <2>3, <2>4
<1> HIDE DEF st
<1>2. /\ \A i \in 1 .. Len(t) : Len(s) + i \in 1 .. Len(st)
      /\ \A i \in 1 .. Len(s) : i \in 1 .. Len(st)
      /\ \A i \in 1 .. Len(st) : i \in 1 .. Len(s) \/ (i - Len(s) \in 1 .. Len(t) /\ i = Len(s) + (i - Len(s)))
  BY <1>1
<1>3. \A i \in 1 .. Len(st) :
        \/ i \in 1 .. Len(s) /\ st[i] = s[i]
        \/ i - Len(s) \in 1 .. Len(t) /\ st[i] = t[i - Len(s)]
  BY <1>1, <1>2
<1>4. \A job : Among(st, job) <=> Among(s, job) \/ Among(t, job)
  <2>1. \A job : Among(st, job) => Among(s, job) \/ Among(t, job)
    BY <1>3 DEF Among
  <2>2. \A job : Among(s, job) => Among(st, job)
    BY <1>1, <1>2 DEF Among
  <2>3. \A job : Among(t, job) => Among(st, job)
    BY <1>1, <1>2 DEF Among
  <2> QED
    BY <2>1, <2>2, <2>3
<1>5. ASSUME Distinct(s), Distinct(t), \A job \in Reactions : ~(Among(s, job) /\ Among(t, job)),
             NEW i \in 1 .. Len(st), NEW j \in 1 .. Len(st), st[i] = st[j]
      PROVE  i = j
  <2>1. /\ \A k \in 1 .. Len(s) : s[k] \in Reactions /\ Among(s, s[k])
        /\ \A k \in 1 .. Len(t) : t[k] \in Reactions /\ Among(t, t[k])
    BY ElementOfSeq DEF Among
  <2>2. CASE i \in 1 .. Len(s) /\ j \in 1 .. Len(s)
    BY <1>1, <1>5, <2>2 DEF Distinct
  <2>3. CASE i - Len(s) \in 1 .. Len(t) /\ j - Len(s) \in 1 .. Len(t)
    <3>1. t[i - Len(s)] = t[j - Len(s)]
      <4>1. st[i] = t[i - Len(s)] /\ st[j] = t[j - Len(s)]
        BY <1>1, <1>3, <2>3
      <4> QED
        BY <1>5, <4>1
    <3>2. i - Len(s) = j - Len(s)
      BY <1>5, <2>3, <3>1 DEF Distinct
    <3> QED
      BY <1>1, <3>2
  <2>4. CASE i \in 1 .. Len(s) /\ j - Len(s) \in 1 .. Len(t)
    <3>1. s[i] = t[j - Len(s)]
      <4>1. st[i] = s[i] /\ st[j] = t[j - Len(s)]
        BY <1>1, <1>3, <2>4
      <4> QED
        BY <1>5, <4>1
    <3> QED
      BY <1>5, <2>1, <2>4, <3>1
  <2>5. CASE i - Len(s) \in 1 .. Len(t) /\ j \in 1 .. Len(s)
    <3>1. t[i - Len(s)] = s[j]
      <4>1. st[i] = t[i - Len(s)] /\ st[j] = s[j]
        BY <1>1, <1>3, <2>5
      <4> QED
        BY <1>5, <4>1
    <3> QED
      BY <1>5, <2>1, <2>5, <3>1
  <2> QED
    BY <1>3, <2>2, <2>3, <2>4, <2>5
<1> QED
  BY <1>1, <1>2, <1>4, <1>5 DEF Distinct, st

\* Taking one from the reactions leaves the others in their order.
LEMMA Takes1 ==
  ASSUME ServiceInv, NEW job, Turn(job)
  PROVE  /\ Tail(reactions) \in Seq(Reactions) /\ Distinct(Tail(reactions))
         /\ job \in Reactions /\ Among(reactions, job) /\ ~Among(Tail(reactions), job)
         /\ \A other : Among(Tail(reactions), other) <=> Among(reactions, other) /\ other # job
         /\ Len(reactions) \in Nat /\ reactions[1] = job /\ Len(Tail(reactions)) = Len(reactions) - 1
         /\ \A i \in 1 .. Len(Tail(reactions)) :
              Tail(reactions)[i] = reactions[i + 1] /\ i + 1 \in 1 .. Len(reactions)
         /\ \A i \in 2 .. Len(reactions) :
              i - 1 \in 1 .. Len(Tail(reactions)) /\ Tail(reactions)[i - 1] = reactions[i]
<1> DEFINE s == reactions
           t == Tail(reactions)
<1>1. s \in Seq(Reactions) /\ s # <<>> /\ Head(s) = job /\ Distinct(s)
  BY DEF ServiceInv, MemoType, InTurn, Turn
<1>2. /\ t \in Seq(Reactions) /\ Len(s) \in Nat /\ Len(s) >= 1
      /\ Len(t) = Len(s) - 1 /\ s[1] = job /\ job \in Reactions
      /\ \A i \in 1 .. Len(t) : t[i] = s[i + 1] /\ i + 1 \in 1 .. Len(s)
      /\ \A i \in 2 .. Len(s) : i - 1 \in 1 .. Len(t) /\ t[i - 1] = s[i]
  BY <1>1, Tails
<1> HIDE DEF t, s
<1>3. Among(s, job)
  BY <1>2 DEF Among
<1>4. Distinct(t) /\ ~Among(t, job)
  BY <1>1, <1>2 DEF Distinct, Among
<1>5. ASSUME NEW other, Among(s, other), other # job PROVE Among(t, other)
  <2>1. PICK i \in 1 .. Len(s) : s[i] = other
    BY <1>5 DEF Among
  <2>2. i \in 2 .. Len(s)
    BY <1>2, <1>5, <2>1
  <2> QED
    BY <1>2, <2>1, <2>2 DEF Among
<1>6. \A other : Among(t, other) => Among(s, other)
  BY <1>2 DEF Among
<1>7. \A other : Among(t, other) <=> Among(s, other) /\ other # job
  BY <1>4, <1>5, <1>6
<1> QED
  BY <1>2, <1>3, <1>4, <1>7 DEF s, t

\* Whoever is told of a rejection that is still memoised comes after its
\* clearing.
Ordered(s) ==
  \A i \in 1 .. Len(s), u \in Users, p \in Promises :
    s[i] = <<"resume", u>> /\ asked[u] = p /\ promise[p] = "rejected" /\ Memo(p) =>
      \E j \in 1 .. i - 1 : s[j] = <<"clear", p>>

\* A reaction that clears nothing can be taken out.
LEMMA TakenOrdered ==
  ASSUME ServiceInv, NEW job, Turn(job), \A p \in Promises : job # <<"clear", p>>
  PROVE  Ordered(Tail(reactions))
<1> DEFINE s == reactions
           t == Tail(reactions)
<1>0. /\ Len(s) \in Nat /\ s[1] = job /\ Len(t) = Len(s) - 1
      /\ \A i \in 1 .. Len(t) : t[i] = s[i + 1] /\ i + 1 \in 1 .. Len(s)
      /\ \A i \in 2 .. Len(s) : i - 1 \in 1 .. Len(t) /\ t[i - 1] = s[i]
      /\ Ordered(s)
  BY Takes1 DEF ServiceInv, InTurn, Ordered
<1> HIDE DEF s, t
<1> SUFFICES ASSUME NEW i \in 1 .. Len(t), NEW u \in Users, NEW p \in Promises,
                    t[i] = <<"resume", u>>, asked[u] = p, promise[p] = "rejected", Memo(p)
             PROVE  \E j \in 1 .. i - 1 : t[j] = <<"clear", p>>
  BY DEF Ordered, t
<1>1. s[i + 1] = <<"resume", u>> /\ i + 1 \in 1 .. Len(s) /\ (i + 1) - 1 = i
  BY <1>0
<1>2. PICK j \in 1 .. i : s[j] = <<"clear", p>>
  BY <1>0, <1>1 DEF Ordered
<1>3. j # 1
  BY <1>0, <1>2
<1>4. j \in 2 .. Len(s) /\ j - 1 \in 1 .. i - 1
  BY <1>0, <1>1, <1>2, <1>3
<1>5. t[j - 1] = <<"clear", p>>
  BY <1>0, <1>2, <1>4
<1> QED
  BY <1>4, <1>5

\* p settles: the reactions kept with it come after the `s` that remain.
LEMMA Settles ==
  ASSUME ServiceInv, NEW p \in Promises, promise[p] = "pending", NEW outcome \in Settled,
         promise' = [promise EXCEPT ![p] = outcome],
         UNCHANGED <<walletPromise, singletonPromise, base, hooks, at, asked>>,
         p \in Queues => promise[base[p]] \in Settled,
         NEW s \in Seq(Reactions), reactions' = s \o hooks[p], Distinct(s), Ordered(s),
         \A job : Among(s, job) => Among(reactions, job),
         p \in Queues => ~Among(s, <<"derive", p>>),
         \A x \in Promises : Among(reactions, <<"clear", x>>) => Among(s, <<"clear", x>>)
  PROVE  ServiceInv'
<1> DEFINE t == hooks[p]
<1>0. /\ t \in Seq(Reactions) /\ Kept(p, t) /\ InTurn(reactions) /\ MemosInv /\ UsersInv
      /\ promise \in [Promises -> PromiseStates]
  BY DEF ServiceInv, MemoType
<1>1. /\ promise'[p] = outcome /\ \A x \in Promises \ {p} : promise'[x] = promise[x]
      /\ promise' \in [Promises -> PromiseStates] /\ \A x \in Promises : Memo(x)' <=> Memo(x)
  BY <1>0 DEF PromiseStates, Memo
<1>2. /\ s \o t \in Seq(Reactions) /\ Len(s) \in Nat /\ Len(t) \in Nat
      /\ Len(s \o t) = Len(s) + Len(t)
      /\ \A i \in 1 .. Len(s) : (s \o t)[i] = s[i]
      /\ \A i \in 1 .. Len(t) : (s \o t)[Len(s) + i] = t[i] /\ Len(s) + i \in 1 .. Len(s \o t)
      /\ \A i \in 1 .. Len(s \o t) : i \in 1 .. Len(s) \/ i - Len(s) \in 1 .. Len(t)
      /\ \A job : Among(s \o t, job) <=> Among(s, job) \/ Among(t, job)
      /\ Distinct(s) /\ Distinct(t) /\ (\A job \in Reactions : ~(Among(s, job) /\ Among(t, job))) =>
           Distinct(s \o t)
  BY <1>0, Joins
<1> HIDE DEF t
<1>3. \A job \in Reactions : Of(job)' = Of(job)
  BY DEF Of
<1>4. ASSUME NEW job \in Reactions, Due(job), p \in Queues => job # <<"derive", p>> PROVE Due(job)'
  <2>1. CASE \E x \in Promises : job = <<"clear", x>>
    BY <2>1, NextParts
  <2>2. ASSUME NEW q \in Queues, job = <<"derive", q>> PROVE Due(job)'
    <3>1. q # p /\ q \in Promises
      BY <1>4, <2>2, PromiseKinds
    <3> QED
      BY <1>1, <1>4, <2>2, <3>1, ReactionParts, NextParts
  <2>3. ASSUME NEW u \in Users, job = <<"resume", u>> PROVE Due(job)'
    BY <1>4, <2>3, ReactionParts, NextParts
  <2> QED
    BY <2>1, <2>2, <2>3, ReactionKinds
<1>5. \A job \in Reactions : Among(s, job) => Due(job) /\ promise[Of(job)] \in Settled
  BY <1>0 DEF InTurn
<1>6. \A job \in Reactions : Among(t, job) => Due(job) /\ Of(job) = p
  BY <1>0 DEF Kept
<1>7. p \in Queues => base[p] # p /\ Of(<<"derive", p>>) = base[p]
  <2>1. p \in Queues => base[p] \in Wallets
    BY <1>0 DEF MemosInv
  <2> QED
    BY <2>1, PromiseKinds, ReactionParts
<1>8. MemoType'
  BY <1>1, <1>2 DEF ServiceInv, MemoType, t
<1>9. MemosInv'
  BY <1>0, <1>1 DEF MemosInv, Alive, Settled
<1>10. UsersInv'
  BY <1>0, <1>1 DEF UsersInv
<1>11. Distinct(reactions')
  <2>1. \A job \in Reactions : ~(Among(s, job) /\ Among(t, job))
    BY <1>5, <1>6 DEF Settled
  <2> QED
    BY <1>0, <1>2, <2>1 DEF Kept, t
<1>12. \A job \in Reactions : Among(reactions', job) => Due(job)' /\ promise'[Of(job)'] \in Settled
  <2>1. ASSUME NEW job \in Reactions, Among(s, job) PROVE Due(job)' /\ promise'[Of(job)'] \in Settled
    <3>1. Due(job) /\ promise[Of(job)] \in Settled /\ Of(job) \in Promises /\ Of(job) # p
      BY <1>5, <2>1, Stands DEF Settled
    <3> QED
      BY <1>1, <1>3, <1>4, <2>1, <3>1
  <2>2. ASSUME NEW job \in Reactions, Among(t, job) PROVE Due(job)' /\ promise'[Of(job)'] \in Settled
    BY <1>1, <1>3, <1>4, <1>6, <1>7, <2>2
  <2> QED
    BY <1>2, <2>1, <2>2 DEF t
<1>13. ASSUME NEW x \in Promises
       PROVE  /\ Among(reactions', <<"clear", x>>) => Memo(x)'
              /\ promise'[x] = "rejected" /\ Memo(x)' => Among(reactions', <<"clear", x>>)
  <2>1. <<"clear", x>> \in Reactions /\ Of(<<"clear", x>>) = x
    BY ReactionParts
  <2>2. Among(s, <<"clear", x>>) => Memo(x)
    BY <1>0 DEF InTurn
  <2>3. Among(t, <<"clear", x>>) => Memo(x)
    BY <1>0, <1>6, <2>1 DEF MemosInv, Alive
  <2>4. x # p /\ promise'[x] = "rejected" /\ Memo(x) => Among(s, <<"clear", x>>)
    BY <1>0, <1>1 DEF InTurn
  <2>5. Among(t, <<"clear", p>>)
    BY <1>0, <1>2 DEF Kept, Among
  <2> QED
    BY <1>1, <1>2, <2>2, <2>3, <2>4, <2>5 DEF t
<1>14. ASSUME NEW i \in 1 .. Len(reactions'), NEW u \in Users, NEW x \in Promises,
              reactions'[i] = <<"resume", u>>, asked'[u] = x, promise'[x] = "rejected", Memo(x)'
       PROVE  \E j \in 1 .. i - 1 : reactions'[j] = <<"clear", x>>
  <2>0. reactions' = s \o t /\ asked[u] = x /\ Memo(x)
    BY <1>1, <1>14 DEF t
  <2>1. CASE i \in 1 .. Len(s)
    <3>1. s[i] = <<"resume", u>>
      BY <1>2, <1>14, <2>0, <2>1
    <3>2. Among(s, <<"resume", u>>) /\ <<"resume", u>> \in Reactions /\ Of(<<"resume", u>>) = x
      BY <2>0, <2>1, <3>1, ReactionParts DEF Among
    <3>3. x # p
      BY <1>5, <3>2 DEF Settled
    <3>4. promise[x] = "rejected"
      BY <1>1, <1>14, <3>3
    <3>5. PICK j \in 1 .. i - 1 : s[j] = <<"clear", x>>
      BY <2>0, <2>1, <3>1, <3>4 DEF Ordered
    <3>6. j \in 1 .. Len(s)
      BY <1>2, <2>1
    <3> QED
      BY <1>2, <2>0, <3>5, <3>6
  <2>2. CASE i - Len(s) \in 1 .. Len(t)
    <3>1. t[i - Len(s)] = <<"resume", u>>
      <4>1. Len(s) + (i - Len(s)) = i
        BY <1>2
      <4> QED
        BY <1>2, <1>14, <2>0, <2>2, <4>1
    <3>2. Among(t, <<"resume", u>>) /\ <<"resume", u>> \in Reactions /\ Of(<<"resume", u>>) = x
      BY <2>0, <2>2, <3>1, ReactionParts DEF Among
    <3>3. x = p /\ t[1] = <<"clear", x>> /\ 1 \in 1 .. Len(t)
      BY <1>0, <1>2, <1>6, <3>2 DEF Kept
    <3>4. i - Len(s) # 1
      BY <3>1, <3>3
    <3>5. Len(s) + 1 \in 1 .. i - 1
      BY <1>2, <2>2, <3>4
    <3> QED
      BY <1>2, <2>0, <3>3, <3>5
  <2> QED
    BY <1>2, <1>14, <2>0, <2>1, <2>2
<1>15. InTurn(reactions)'
  BY <1>11, <1>12, <1>13, <1>14 DEF InTurn
<1>16. ASSUME NEW x \in Promises, promise'[x] = "pending" PROVE Kept(x, hooks[x])'
  <2>1. x # p /\ promise[x] = "pending" /\ hooks'[x] = hooks[x]
    BY <1>1, <1>16 DEF Settled
  <2>2. Kept(x, hooks[x])
    BY <2>1 DEF ServiceInv
  <2>3. \A job \in Reactions : Among(hooks[x], job) => Due(job)' /\ Of(job)' = x
    <3> SUFFICES ASSUME NEW job \in Reactions, Among(hooks[x], job) PROVE Due(job)' /\ Of(job)' = x
      OBVIOUS
    <3>1. Due(job) /\ Of(job) = x
      BY <2>2 DEF Kept
    <3>2. p \in Queues => job # <<"derive", p>>
      BY <1>7, <2>1, <3>1 DEF Settled
    <3> QED
      BY <1>3, <1>4, <3>1, <3>2
  <2> QED
    BY <2>1, <2>2, <2>3 DEF Kept
<1> QED
  BY <1>8, <1>9, <1>10, <1>15, <1>16 DEF ServiceInv

LEMMA HandshakeStep == ASSUME ServiceInv, NEW w \in Wallets, Handshake(w) PROVE ServiceInv'
<1>1. /\ promise[w] = "pending" /\ reactions' = reactions \o hooks[w] /\ w \in Promises /\ w \notin Queues
      /\ UNCHANGED <<walletPromise, singletonPromise, base, hooks, at, asked>>
  BY PromiseKinds DEF Handshake, users
<1>2. PICK outcome \in Settled : promise' = [promise EXCEPT ![w] = outcome]
  BY DEF Handshake
<1>3. reactions \in Seq(Reactions) /\ Distinct(reactions) /\ Ordered(reactions)
  BY DEF ServiceInv, MemoType, InTurn, Ordered
<1> QED
  BY <1>1, <1>2, <1>3, Settles

LEMMA DeriveStep == ASSUME ServiceInv, NEW q \in Queues, Derive(q) PROVE ServiceInv'
<1> DEFINE job == <<"derive", q>>
<1>1. /\ Turn(job) /\ promise' = [promise EXCEPT ![q] = promise[base[q]]]
      /\ reactions' = Tail(reactions) \o hooks[q] /\ q \in Promises
      /\ UNCHANGED <<walletPromise, singletonPromise, base, hooks, at, asked>>
  BY PromiseKinds DEF Derive, users
<1>2. /\ Tail(reactions) \in Seq(Reactions) /\ Distinct(Tail(reactions))
      /\ job \in Reactions /\ Among(reactions, job)
      /\ \A other : Among(Tail(reactions), other) <=> Among(reactions, other) /\ other # job
  BY <1>1, Takes1
<1>3. promise[q] = "pending" /\ promise[base[q]] \in Settled
  BY <1>2, ReactionParts DEF ServiceInv, InTurn
<1>4. \A x \in Promises : job # <<"clear", x>>
  OBVIOUS
<1>5. Ordered(Tail(reactions))
  BY <1>1, <1>4, TakenOrdered
<1> HIDE DEF job
<1>6. /\ \A other : Among(Tail(reactions), other) => Among(reactions, other)
      /\ ~Among(Tail(reactions), job)
      /\ \A x \in Promises : Among(reactions, <<"clear", x>>) => Among(Tail(reactions), <<"clear", x>>)
  BY <1>2, <1>4
<1> QED
  BY <1>1, <1>2, <1>3, <1>5, <1>6, Settles DEF job

\* A clearing or a resumption changes no promise and registers nothing.
LEMMA ClearStep == ASSUME ServiceInv, NEW p \in Promises, Clear(p) PROVE ServiceInv'
<1> DEFINE job == <<"clear", p>>
<1>1. /\ Turn(job) /\ reactions' = Tail(reactions)
      /\ walletPromise' = IF p \in Wallets /\ promise[p] = "rejected" THEN Nobody ELSE walletPromise
      /\ singletonPromise' = IF p \in Queues /\ promise[p] = "rejected" THEN Nobody ELSE singletonPromise
      /\ UNCHANGED <<promise, base, hooks, at, asked>>
  BY DEF Clear, users
<1>2. /\ Tail(reactions) \in Seq(Reactions) /\ Distinct(Tail(reactions))
      /\ Among(reactions, job)
      /\ \A other : Among(Tail(reactions), other) <=> Among(reactions, other) /\ other # job
      /\ Len(reactions) \in Nat /\ reactions[1] = job /\ Len(Tail(reactions)) = Len(reactions) - 1
      /\ \A i \in 1 .. Len(Tail(reactions)) :
           Tail(reactions)[i] = reactions[i + 1] /\ i + 1 \in 1 .. Len(reactions)
      /\ \A i \in 2 .. Len(reactions) :
           i - 1 \in 1 .. Len(Tail(reactions)) /\ Tail(reactions)[i - 1] = reactions[i]
  BY <1>1, Takes1
<1>3. Memo(p) /\ MemosInv /\ UsersInv /\ InTurn(reactions)
  BY <1>2 DEF ServiceInv, InTurn
<1>4. \A x \in Promises : Memo(x)' <=> Memo(x) /\ ~(x = p /\ promise[p] = "rejected")
  <2>1. walletPromise \in Wallets \cup {Nobody} /\ singletonPromise \in Queues \cup {Nobody}
    BY DEF ServiceInv, MemoType
  <2>2. CASE promise[p] # "rejected"
    BY <1>1, <2>2 DEF Memo
  <2>3. CASE promise[p] = "rejected" /\ p \in Wallets
    <3>1. p = walletPromise /\ walletPromise' = Nobody /\ singletonPromise' = singletonPromise
      BY <1>1, <1>3, <2>1, <2>3, PromiseKinds DEF Memo
    <3> QED
      BY <2>1, <2>3, <3>1, PromiseKinds DEF Memo
  <2>4. CASE promise[p] = "rejected" /\ p \in Queues
    <3>1. p = singletonPromise /\ singletonPromise' = Nobody /\ walletPromise' = walletPromise
      BY <1>1, <1>3, <2>1, <2>4, PromiseKinds DEF Memo
    <3> QED
      BY <2>1, <2>4, <3>1, PromiseKinds DEF Memo
  <2> QED
    BY <2>2, <2>3, <2>4, PromiseKinds
<1>5. \A other \in Reactions : Of(other)' = Of(other) /\ (Due(other)' <=> Due(other))
  BY <1>1 DEF Of, Due
<1>6. MemoType'
  BY <1>1, <1>2 DEF ServiceInv, MemoType
<1>7. MemosInv'
  BY <1>1, <1>3, <1>4 DEF MemosInv, Alive
<1>8. UsersInv'
  BY <1>1, <1>3, <1>4 DEF UsersInv
<1>9. ASSUME NEW x \in Promises
      PROVE  /\ Among(reactions', <<"clear", x>>) => Memo(x)'
             /\ promise'[x] = "rejected" /\ Memo(x)' => Among(reactions', <<"clear", x>>)
  <2>1. /\ Among(reactions, <<"clear", x>>) => Memo(x)
        /\ promise[x] = "rejected" /\ Memo(x) => Among(reactions, <<"clear", x>>)
    BY <1>3 DEF InTurn
  <2>2. Among(reactions', <<"clear", x>>) <=> Among(reactions, <<"clear", x>>) /\ x # p
    BY <1>1, <1>2
  <2> QED
    BY <1>1, <1>4, <2>1, <2>2
<1>10. ASSUME NEW i \in 1 .. Len(reactions'), NEW u \in Users, NEW x \in Promises,
              reactions'[i] = <<"resume", u>>, asked'[u] = x, promise'[x] = "rejected", Memo(x)'
       PROVE  \E j \in 1 .. i - 1 : reactions'[j] = <<"clear", x>>
  <2>1. x # p /\ promise[x] = "rejected" /\ Memo(x) /\ asked[u] = x
    BY <1>1, <1>4, <1>10
  <2>2. reactions[i + 1] = <<"resume", u>> /\ i + 1 \in 1 .. Len(reactions) /\ (i + 1) - 1 = i
    BY <1>1, <1>2, <1>10
  <2>3. PICK j \in 1 .. i : reactions[j] = <<"clear", x>>
    BY <1>3, <2>1, <2>2 DEF InTurn
  <2>4. j # 1
    BY <1>2, <2>1, <2>3
  <2>5. j \in 2 .. Len(reactions) /\ j - 1 \in 1 .. i - 1
    BY <1>2, <2>2, <2>3, <2>4
  <2> QED
    BY <1>1, <1>2, <2>3, <2>5
<1>11. InTurn(reactions)'
  <2>1. \A other \in Reactions : Among(reactions', other) => Due(other)' /\ promise'[Of(other)'] \in Settled
    BY <1>1, <1>2, <1>3, <1>5 DEF InTurn
  <2>2. Distinct(reactions')
    BY <1>1, <1>2
  <2> QED
    BY <1>9, <1>10, <2>1, <2>2 DEF InTurn
<1>12. ASSUME NEW x \in Promises, promise'[x] = "pending" PROVE Kept(x, hooks[x])'
  BY <1>1, <1>5, <1>12 DEF ServiceInv, Kept
<1> QED
  BY <1>6, <1>7, <1>8, <1>11, <1>12 DEF ServiceInv

LEMMA ResumeStep == ASSUME ServiceInv, NEW u \in Users, Resume(u) PROVE ServiceInv'
<1> DEFINE job == <<"resume", u>>
<1>1. /\ Turn(job) /\ reactions' = Tail(reactions)
      /\ UNCHANGED <<walletPromise, singletonPromise, promise, base, hooks, asked>>
      /\ \/ promise[asked[u]] = "fulfilled" /\ at' = [at EXCEPT ![u] = "served"]
         \/ promise[asked[u]] # "fulfilled" /\ at' = [at EXCEPT ![u] = "failed"]
  BY DEF Resume, memos
<1>2. /\ Tail(reactions) \in Seq(Reactions) /\ Distinct(Tail(reactions))
      /\ job \in Reactions /\ Among(reactions, job)
      /\ \A other : Among(Tail(reactions), other) <=> Among(reactions, other) /\ other # job
      /\ reactions[1] = job /\ Len(reactions) \in Nat /\ Len(Tail(reactions)) = Len(reactions) - 1
  BY <1>1, Takes1
<1>3. /\ MemosInv /\ UsersInv /\ InTurn(reactions)
      /\ at \in [Users -> {"idle", "waiting", "served", "failed"}]
  BY DEF ServiceInv, MemoType
<1>4. at[u] = "waiting" /\ promise[asked[u]] \in Settled /\ asked[u] \in Promises
  BY <1>2, <1>3, ReactionParts DEF InTurn, UsersInv
<1>5. \A x \in Promises : asked[u] = x /\ promise[x] = "rejected" => ~Memo(x)
  <2>1. 1 \in 1 .. Len(reactions)
    BY <1>2 DEF Among
  <2>2. \A j \in 1 .. 1 - 1 : FALSE
    OBVIOUS
  <2> QED
    BY <1>2, <1>3, <2>1, <2>2 DEF InTurn
<1>6. /\ \A x \in Promises : Memo(x)' <=> Memo(x)
      /\ \A v \in Users \ {u} : at'[v] = at[v]
  BY <1>1, <1>3 DEF Memo
<1>7. ASSUME NEW other \in Reactions, Due(other), other # job PROVE Due(other)' /\ Of(other)' = Of(other)
  <2>1. Of(other)' = Of(other)
    BY <1>1 DEF Of
  <2>2. CASE \E x \in Promises : other = <<"clear", x>>
    BY <2>1, <2>2, NextParts
  <2>3. CASE \E q \in Queues : other = <<"derive", q>>
    BY <1>1, <1>7, <2>1, <2>3, ReactionParts, NextParts
  <2>4. ASSUME NEW v \in Users, other = <<"resume", v>> PROVE Due(other)'
    <3>1. v # u
      BY <1>7, <2>4
    <3> QED
      BY <1>6, <1>7, <2>4, <3>1, ReactionParts, NextParts
  <2> QED
    BY <2>1, <2>2, <2>3, <2>4, ReactionKinds
<1>8. MemoType'
  BY <1>1, <1>2 DEF ServiceInv, MemoType
<1>9. MemosInv'
  BY <1>1, <1>3, <1>6 DEF MemosInv, Alive
<1>10. UsersInv'
  <2> SUFFICES ASSUME NEW v \in Users
               PROVE  /\ at'[v] # "idle" => asked'[v] \in Promises
                      /\ \A x \in Promises : asked'[v] = x =>
                           /\ at'[v] = "served" => promise'[x] = "fulfilled"
                           /\ at'[v] = "failed" => promise'[x] = "rejected" /\ ~Memo(x)'
    BY DEF UsersInv
  <2>1. CASE v # u
    BY <1>1, <1>3, <1>6, <2>1 DEF UsersInv
  <2>2. CASE v = u
    <3>1. at'[u] = IF promise[asked[u]] = "fulfilled" THEN "served" ELSE "failed"
      BY <1>1, <1>3
    <3> QED
      BY <1>1, <1>4, <1>5, <1>6, <2>2, <3>1 DEF Settled
  <2> QED
    BY <2>1, <2>2
<1>11. \A x \in Promises : job # <<"clear", x>>
  OBVIOUS
<1>12. Ordered(Tail(reactions))
  BY <1>1, <1>11, TakenOrdered
<1>13. Ordered(reactions)'
  <2> DEFINE t == Tail(reactions)
  <2>1. reactions' = t /\ Ordered(t) /\ UNCHANGED <<promise, asked>>
    BY <1>1, <1>12
  <2> HIDE DEF t
  <2> QED
    BY <1>6, <2>1 DEF Ordered
<1> HIDE DEF job
<1>14. InTurn(reactions)'
  <2>1. \A other \in Reactions : Among(reactions', other) => Due(other)' /\ promise'[Of(other)'] \in Settled
    <3> SUFFICES ASSUME NEW other \in Reactions, Among(reactions', other)
                 PROVE  Due(other)' /\ promise'[Of(other)'] \in Settled
      OBVIOUS
    <3>1. Among(reactions, other) /\ other # job
      BY <1>1, <1>2
    <3>2. Due(other) /\ promise[Of(other)] \in Settled
      BY <1>3, <3>1 DEF InTurn
    <3> QED
      BY <1>1, <1>7, <3>1, <3>2
  <2>2. Distinct(reactions')
    BY <1>1, <1>2
  <2>3. \A x \in Promises :
          /\ Among(reactions', <<"clear", x>>) => Memo(x)'
          /\ promise'[x] = "rejected" /\ Memo(x)' => Among(reactions', <<"clear", x>>)
    BY <1>1, <1>2, <1>3, <1>6, <1>11 DEF InTurn
  <2> QED
    BY <1>13, <2>1, <2>2, <2>3 DEF InTurn, Ordered
<1>15. ASSUME NEW x \in Promises, promise'[x] = "pending" PROVE Kept(x, hooks[x])'
  <2>1. promise[x] = "pending" /\ hooks'[x] = hooks[x] /\ Kept(x, hooks[x])
    BY <1>1, <1>15 DEF ServiceInv
  <2>2. \A other \in Reactions : Among(hooks[x], other) => Due(other)' /\ Of(other)' = x
    <3> SUFFICES ASSUME NEW other \in Reactions, Among(hooks[x], other) PROVE Due(other)' /\ Of(other)' = x
      OBVIOUS
    <3>1. Due(other) /\ Of(other) = x
      BY <2>1 DEF Kept
    <3>2. Of(job) = asked[u]
      BY ReactionParts DEF job
    <3>3. other # job
      BY <1>4, <2>1, <3>1, <3>2 DEF Settled
    <3> QED
      BY <1>7, <3>1, <3>3
  <2> QED
    BY <2>1, <2>2 DEF Kept
<1> QED
  BY <1>8, <1>9, <1>10, <1>14, <1>15 DEF ServiceInv

LEMMA ServiceStutter ==
  ASSUME ServiceInv, UNCHANGED <<memos, reactions, users>> PROVE ServiceInv'
<1>1. UNCHANGED <<walletPromise, singletonPromise, promise, base, hooks, reactions, at, asked>>
  BY DEF memos, users
<1>2. MemoType' /\ MemosInv' /\ UsersInv'
  BY <1>1 DEF ServiceInv, MemoType, MemosInv, UsersInv, Alive, Memo
<1>3. \A job \in Reactions : Of(job)' = Of(job) /\ (Due(job)' <=> Due(job))
  BY <1>1 DEF Of, Due
<1>4. \A p \in Promises : Memo(p)' <=> Memo(p)
  BY <1>1 DEF Memo
<1>5. InTurn(reactions)'
  <2>1. InTurn(reactions)
    BY DEF ServiceInv
  <2>2. Distinct(reactions')
    BY <1>1, <2>1 DEF InTurn
  <2>3. \A job \in Reactions : Among(reactions', job) => Due(job)' /\ promise'[Of(job)'] \in Settled
    BY <1>1, <1>3, <2>1 DEF InTurn
  <2>4. \A x \in Promises :
          /\ Among(reactions', <<"clear", x>>) => Memo(x)'
          /\ promise'[x] = "rejected" /\ Memo(x)' => Among(reactions', <<"clear", x>>)
    BY <1>1, <1>4, <2>1 DEF InTurn
  <2>5. ASSUME NEW i \in 1 .. Len(reactions'), NEW u \in Users, NEW x \in Promises,
               reactions'[i] = <<"resume", u>>, asked'[u] = x, promise'[x] = "rejected", Memo(x)'
        PROVE  \E j \in 1 .. i - 1 : reactions'[j] = <<"clear", x>>
    <3>1. reactions' = reactions /\ asked' = asked /\ promise' = promise /\ Memo(x)
      BY <1>1, <1>4, <2>5
    <3>2. /\ i \in 1 .. Len(reactions) /\ reactions[i] = <<"resume", u>>
          /\ asked[u] = x /\ promise[x] = "rejected"
      BY <2>5, <3>1
    <3>3. \E j \in 1 .. i - 1 : reactions[j] = <<"clear", x>>
      BY <2>1, <3>1, <3>2 DEF InTurn
    <3> QED
      BY <3>1, <3>3
  <2> QED
    BY <2>2, <2>3, <2>4, <2>5 DEF InTurn
<1>6. \A p \in Promises : promise'[p] = "pending" => Kept(p, hooks[p])'
  BY <1>1, <1>3 DEF ServiceInv, Kept
<1> QED
  BY <1>2, <1>5, <1>6 DEF ServiceInv

LEMMA ServiceStep == ASSUME ServiceInv, [ServiceNext]_serviceVars PROVE ServiceInv'
<1>1. ASSUME NEW u \in Users, BorrowMemo(u) \/ AskMemo(u) PROVE ServiceInv'
  <2>1. walletPromise \in Wallets \cup {Nobody} /\ singletonPromise \in Queues \cup {Nobody}
    BY DEF ServiceInv, MemoType
  <2>2. CASE BorrowMemo(u)
    <3>1. walletPromise \in Promises /\ Memo(walletPromise)
      BY <2>1, <2>2, PromiseKinds DEF BorrowMemo, WalletIsMemoised, Memo
    <3> QED
      BY <2>2, <3>1, FoundStep DEF BorrowMemo
  <2>3. CASE AskMemo(u)
    <3>1. singletonPromise \in Promises /\ Memo(singletonPromise)
      BY <2>1, <2>3, PromiseKinds DEF AskMemo, QueueIsMemoised, Memo
    <3> QED
      BY <2>3, <3>1, FoundStep DEF AskMemo
  <2> QED
    BY <1>1, <2>2, <2>3
<1>2. CASE \E u \in Users : BorrowAfresh(u) \/ AskOverWallet(u) \/ AskAfresh(u)
  BY <1>2, BorrowAfreshStep, AskOverWalletStep, AskAfreshStep
<1>3. CASE (\E w \in Wallets : Handshake(w)) \/ React
  BY <1>3, HandshakeStep, ClearStep, DeriveStep, ResumeStep DEF React
<1>4. CASE QueueStep \/ UNCHANGED serviceVars
  BY <1>4, ServiceStutter DEF QueueStep, serviceVars
<1> QED
  BY <1>1, <1>2, <1>3, <1>4 DEF ServiceNext

LEMMA ServiceInitInv == ASSUME ServiceInit PROVE ServiceInv
<1>1. MemoType
  BY PromiseKinds DEF ServiceInit, MemoType, PromiseStates
<1>2. MemosInv /\ UsersInv
  BY PromiseKinds DEF ServiceInit, MemosInv, UsersInv, Alive, Memo
<1>3. reactions = <<>> /\ Len(reactions) = 0
  BY DEF ServiceInit
<1>4. InTurn(reactions)
  BY <1>3 DEF ServiceInit, InTurn, Among, Distinct
<1>5. \A p \in Promises : promise[p] # "pending"
  BY DEF ServiceInit
<1> QED
  BY <1>1, <1>2, <1>4, <1>5 DEF ServiceInv

LEMMA ServiceAlways == ServiceSpec => []ServiceInv
BY ServiceInitInv, ServiceStep, PTL DEF ServiceSpec
-----------------------------------------------------------------------------
\* Every step of the service that touches the queue is a step of the queue.
LEMMA QueueStepsOnly == ASSUME [ServiceNext]_serviceVars PROVE [Next]_vars
<1>1. ASSUME NEW u \in Users, Resume(u) PROVE Next \/ UNCHANGED vars
  <2>1. Outer \subseteq Actions
    BY DEF Outer
  <2> QED
    BY <1>1, <2>1 DEF Resume, Next
<1>2. CASE QueueStep
  BY <1>2 DEF QueueStep, Next
<1>3. CASE \/ \E u \in Users : BorrowMemo(u) \/ BorrowAfresh(u) \/ AskMemo(u) \/ AskOverWallet(u) \/ AskAfresh(u)
           \/ \E w \in Wallets : Handshake(w)
           \/ \E p \in Promises : Clear(p)
           \/ \E q \in Queues : Derive(q)
  BY <1>3 DEF BorrowMemo, BorrowAfresh, AskMemo, AskOverWallet, AskAfresh, Handshake, Clear, Derive
<1>4. CASE UNCHANGED serviceVars
  BY <1>4 DEF serviceVars
<1> QED
  BY <1>1, <1>2, <1>3, <1>4 DEF ServiceNext, React

LEMMA ServiceUsesQueue == ServiceSpec => Spec
<1>1. ServiceInit => Init
  BY DEF ServiceInit
<1>2. [ServiceNext]_serviceVars => [Next]_vars
  BY QueueStepsOnly
<1> QED
  BY <1>1, <1>2, PTL DEF ServiceSpec, Spec

\* Every variable of the memos, the promises and the queue has its type.
THEOREM ServiceTypes == ServiceSpec => []ServiceTypeOK
<1>1. ServiceInv /\ TypeOK => ServiceTypeOK
  BY DEF ServiceInv, MemoType, ServiceTypeOK
<1> QED
  BY <1>1, ServiceAlways, ServiceUsesQueue, TypeCorrect, PTL

\* However first calls, retries and rejections interleave, one wallet and one
\* queue are built or being built (walletQueue.ts:50).
THEOREM QueueIsOne == ServiceSpec => []OneQueue
<1>1. ServiceInv => OneQueue
  <2> SUFFICES ASSUME ServiceInv PROVE OneQueue
    OBVIOUS
  <2>1. /\ walletPromise \in Wallets \cup {Nobody} /\ singletonPromise \in Queues \cup {Nobody}
        /\ \A p \in Promises : Alive(p) => Memo(p)
    BY DEF ServiceInv, MemoType, MemosInv
  <2>2. \A w \in Wallets : Alive(w) => w = walletPromise
    BY <2>1, PromiseKinds DEF Memo
  <2>3. \A q \in Queues : Alive(q) => q = singletonPromise
    BY <2>1, PromiseKinds DEF Memo
  <2>4. \A u \in Users : at[u] = "served" => promise[asked[u]] = "fulfilled"
    BY DEF ServiceInv, UsersInv
  <2> QED
    BY <2>2, <2>3, <2>4 DEF OneQueue
<1> QED
  BY <1>1, ServiceAlways, PTL

\* The reaction that clears a memo is registered before anyone can await the
\* promise, so whoever hears of a rejection asks anew (serverWallet.ts:11).
THEOREM FailuresForgotten == ServiceSpec => []FailureIsForgotten
<1>1. ServiceInv => FailureIsForgotten
  <2> SUFFICES ASSUME ServiceInv PROVE FailureIsForgotten
    OBVIOUS
  <2>1. \A u \in Users : at[u] = "failed" => asked[u] \notin {walletPromise, singletonPromise}
    BY DEF ServiceInv, UsersInv, Memo
  <2>2. ASSUME reactions = <<>>, NEW p \in {walletPromise, singletonPromise}, p # Nobody
        PROVE  promise[p] # "rejected"
    <3>1. p \in Promises /\ Memo(p)
      BY <2>2, PromiseKinds DEF ServiceInv, MemoType, Memo
    <3>2. Len(reactions) = 0
      BY <2>2
    <3>3. ~Among(reactions, <<"clear", p>>)
      BY <3>2 DEF Among
    <3> QED
      BY <3>1, <3>3 DEF ServiceInv, InTurn
  <2> QED
    BY <2>1, <2>2 DEF FailureIsForgotten
<1> QED
  BY <1>1, ServiceAlways, PTL

\* However its callers come by it, the queue of the service is the serial
\* executor the routes rely on (walletQueue.ts:8).
THEOREM ServiceIsSerial == ServiceSpec => ImplementsSerialExecutor
BY ServiceUsesQueue, Refinement, PTL

\* The same of the service: the count is exact, and whoever enqueues from
\* inside an operation waits for ever (walletQueue.ts:16).
THEOREM ServiceKeepsCount == ServiceSpec => []DepthIsExact /\ NestedNeverFinishes
BY ServiceUsesQueue, DepthCorrect, NestedIsStuck, PTL
=============================================================================
