-------------------------- MODULE StorageOpsProofs --------------------------
(***************************************************************************)
(* Machine-checked proofs about StorageOps, for any number of operations   *)
(* and workers and any attempt budget.                                     *)
(***************************************************************************)
EXTENDS StorageOps, FiniteSetTheorems, TLAPS

-----------------------------------------------------------------------------
(* The inductive invariant *)

\* A row has a token exactly while it is running; only running rows are leased.
TokenInv ==
  \A o \in Ops : /\ row[o].state = "running" <=> row[o].token # NoWorker
                 /\ row[o].lease > 0 => row[o].state = "running"
                 /\ row[o].state = "running" => row[o].attempt > 0

\* A busy invocation holds an operation that exists; a call that returned
\* without an error left its effect behind.
HeldInv ==
  \A w \in Workers : /\ pc[w] = "idle" <=> held[w] = NoOp
                     /\ pc[w] # "idle" => row[held[w]].state # "absent"
                     /\ pc[w] = "called" => effect[held[w]]

\* Nothing is sent to the provider for an operation that was never enqueued.
SentInv == \A o \in Ops : /\ claims[o] > 0 => row[o].state # "absent"
                          /\ row[o].state = "absent" => row[o].attempt = 0

\* Invocations of o that were cancelled and have not given back their attempt.
Canceled(o) == {w \in Workers : pc[w] = "canceled" /\ held[w] = o}

\* Every claim was charged to the row; what was given back was cancelled.
ChargeInv == \A o \in Ops : claims[o] + Cardinality(Canceled(o)) <= row[o].attempt + cancels

IInv == TypeOK /\ TokenInv /\ HeldInv /\ SentInv
-----------------------------------------------------------------------------

LEMMA InitInv == Init => IInv
  BY ConstantsAssumption DEF Init, IInv, TypeOK, TokenInv, HeldInv, SentInv, Row, NoRow, States

\* What each row update returns.
LEMMA RowUpdates ==
  ASSUME NEW r \in Row
  PROVE  /\ r.state = "absent" =>
              /\ Enqueued(r) \in Row
              /\ Enqueued(r).state = "pending" /\ Enqueued(r).token = NoWorker
              /\ Enqueued(r).lease = 0 /\ Enqueued(r).attempt = 0
         /\ /\ Stopped(r) \in Row
            /\ Stopped(r).state = "dead" /\ Stopped(r).token = NoWorker
            /\ Stopped(r).lease = 0 /\ Stopped(r).attempt = r.attempt
         /\ /\ Succeed(r) \in Row
            /\ Succeed(r).state = "succeeded" /\ Succeed(r).token = NoWorker
            /\ Succeed(r).lease = 0 /\ Succeed(r).attempt = r.attempt
         /\ /\ Fail(r) \in Row
            /\ Fail(r).state \in {"dead", "failed"} /\ Fail(r).token = NoWorker
            /\ Fail(r).lease = 0 /\ Fail(r).attempt = r.attempt
         /\ /\ Refund(r) \in Row
            /\ Refund(r).state = "pending" /\ Refund(r).token = NoWorker
            /\ Refund(r).lease = 0
            /\ r.attempt > 0 => Refund(r).attempt = r.attempt - 1
         /\ /\ Due(r) \in Row
            /\ Due(r).state = r.state /\ Due(r).token = r.token
            /\ Due(r).lease = r.lease /\ Due(r).attempt = r.attempt
<1>a. /\ 0 \in 0..LeaseTicks
      /\ 0 \in 0..MaxAttempts
      /\ r.attempt # 0 => r.attempt - 1 \in 0..MaxAttempts
      /\ r.attempt > 0 => r.attempt # 0
  BY ConstantsAssumption DEF Row
<1> USE DEF Row, States
<1>1. r.state = "absent" =>
              /\ Enqueued(r) \in Row
              /\ Enqueued(r).state = "pending" /\ Enqueued(r).token = NoWorker
              /\ Enqueued(r).lease = 0 /\ Enqueued(r).attempt = 0
  BY <1>a DEF Enqueued, NoRow
<1>3. /\ Stopped(r) \in Row
      /\ Stopped(r).state = "dead" /\ Stopped(r).token = NoWorker
      /\ Stopped(r).lease = 0 /\ Stopped(r).attempt = r.attempt
  BY <1>a DEF Stopped
<1>4. /\ Succeed(r) \in Row
      /\ Succeed(r).state = "succeeded" /\ Succeed(r).token = NoWorker
      /\ Succeed(r).lease = 0 /\ Succeed(r).attempt = r.attempt
  BY <1>a DEF Succeed
<1>5. /\ Fail(r) \in Row
      /\ Fail(r).state \in {"dead", "failed"} /\ Fail(r).token = NoWorker
      /\ Fail(r).lease = 0 /\ Fail(r).attempt = r.attempt
  BY <1>a DEF Fail
<1>6. /\ Refund(r) \in Row
      /\ Refund(r).state = "pending" /\ Refund(r).token = NoWorker
      /\ Refund(r).lease = 0
      /\ r.attempt > 0 => Refund(r).attempt = r.attempt - 1
  BY <1>a DEF Refund
<1>7. /\ Due(r) \in Row
      /\ Due(r).state = r.state /\ Due(r).token = r.token
      /\ Due(r).lease = r.lease /\ Due(r).attempt = r.attempt
  BY DEF Due
<1> QED
  BY <1>1, <1>3, <1>4, <1>5, <1>6, <1>7

LEMMA ClaimUpdate ==
  ASSUME NEW r \in Row, NEW w \in Workers, r.attempt < MaxAttempts
  PROVE  /\ Claimed(r, w) \in Row
         /\ Claimed(r, w).state = "running" /\ Claimed(r, w).token = w
         /\ Claimed(r, w).attempt = r.attempt + 1
<1>1. r.attempt + 1 \in 0..MaxAttempts /\ LeaseTicks \in 0..LeaseTicks
  BY ConstantsAssumption DEF Row
<1> QED
  BY <1>1 DEF Claimed, Row, States

LEMMA StepInv == IInv /\ [Next]_vars => IInv'
<1> SUFFICES ASSUME IInv, [Next]_vars PROVE IInv'
  OBVIOUS
<1> USE ConstantsAssumption DEF IInv, TypeOK, TokenInv, HeldInv, SentInv
<1>1. ASSUME NEW o \in Ops, Enqueue(o) PROVE IInv'
  BY <1>1, RowUpdates DEF Enqueue
<1>2. ASSUME NEW o \in Ops, LeaseTick(o) PROVE IInv'
  BY <1>2 DEF LeaseTick, Row
<1>3. ASSUME NEW o \in Ops, BackoffPasses(o) PROVE IInv'
  BY <1>3, RowUpdates DEF BackoffPasses
<1>4. ASSUME NEW o \in Ops, StopExhausted(o) PROVE IInv'
  BY <1>4, RowUpdates DEF StopExhausted
<1>5. ASSUME NEW o \in Ops, AbandonRecovery(o) PROVE IInv'
  BY <1>5, RowUpdates DEF AbandonRecovery
<1>6. ASSUME NEW o \in Ops, ProviderApplies(o) PROVE IInv'
  BY <1>6 DEF ProviderApplies
<1>7. ASSUME NEW w \in Workers, NEW o \in Ops, TryStart(w, o) PROVE IInv'
  BY <1>7, ClaimUpdate DEF TryStart, Claimable, Row
<1>8. ASSUME NEW w \in Workers, Renew(w) PROVE IInv'
  BY <1>8 DEF Renew, Owns, Row
<1>9. ASSUME NEW w \in Workers, LoseLease(w) PROVE IInv'
  BY <1>9 DEF LoseLease
<1>10. ASSUME NEW w \in Workers, ProviderAnswers(w) PROVE IInv'
  BY <1>10 DEF ProviderAnswers
<1>11. ASSUME NEW w \in Workers, ProviderErrs(w) PROVE IInv'
  BY <1>11 DEF ProviderErrs
<1>12. ASSUME NEW w \in Workers, Shutdown(w) PROVE IInv'
  BY <1>12 DEF Shutdown
<1>13. ASSUME NEW w \in Workers, MarkSucceeded(w) PROVE IInv'
  BY <1>13, RowUpdates DEF MarkSucceeded, Owns
<1>14. ASSUME NEW w \in Workers, MarkFailed(w) PROVE IInv'
  BY <1>14, RowUpdates DEF MarkFailed, Owns
<1>15. ASSUME NEW w \in Workers, RefundAttempt(w) PROVE IInv'
  BY <1>15, RowUpdates DEF RefundAttempt, Owns
<1>16. ASSUME NEW w \in Workers, Crash(w) PROVE IInv'
  BY <1>16 DEF Crash
<1>17. CASE UNCHANGED vars
  BY <1>17 DEF vars
<1> QED
  BY <1>1, <1>2, <1>3, <1>4, <1>5, <1>6, <1>7, <1>8, <1>9, <1>10, <1>11, <1>12,
     <1>13, <1>14, <1>15, <1>16, <1>17 DEF Next, LedgerStep, WorkerStep

\* The rows, workers and histories of the ledger always have their types.
THEOREM TypeCorrect == Spec => []TypeOK
<1>1. IInv => TypeOK
  BY DEF IInv
<1> QED
  BY InitInv, StepInv, <1>1, PTL DEF Spec

-----------------------------------------------------------------------------
(* The ledger implements DurableWork *)

LEMMA RefineInit == Init => Durable!Init
  BY DEF Init, Durable!Init, Status, NoRow

LEMMA RefineStep == IInv /\ [Next]_vars => [Durable!Next]_(Durable!vars)
<1> SUFFICES ASSUME IInv, [Next]_vars
             PROVE  Durable!Next \/ UNCHANGED Durable!vars
  OBVIOUS
<1> DEFINE status == [o \in Ops |-> Status(row[o])]
<1>t. row \in [Ops -> Row] /\ effect \in [Ops -> BOOLEAN]
  BY DEF IInv, TypeOK
\* A step that leaves every operation's status and the effects alone stutters.
<1>s. ASSUME effect' = effect, \A o \in Ops : Status(row'[o]) = Status(row[o])
      PROVE  UNCHANGED Durable!vars
  BY <1>s DEF Durable!vars
\* A step that rewrites one row changes at most that operation's status.
<1>e. ASSUME NEW o \in Ops, NEW r, row' = [row EXCEPT ![o] = r]
      PROVE  status' = [status EXCEPT ![o] = Status(r)]
  BY <1>e, <1>t
<1>1. ASSUME NEW o \in Ops, Enqueue(o) PROVE Durable!Accept(o)
  <2>1. Status(row[o]) = "none" /\ Status(Enqueued(row[o])) = "open"
    BY <1>1, <1>t, RowUpdates DEF Enqueue, Status
  <2> QED
    BY <1>1, <1>e, <1>t, <2>1 DEF Enqueue, Durable!Accept
<1>2. ASSUME NEW o \in Ops, LeaseTick(o) PROVE UNCHANGED Durable!vars
  <2>1. row'[o].state = row[o].state /\ \A p \in Ops \ {o} : row'[p] = row[p]
    BY <1>2, <1>t DEF LeaseTick, Row
  <2> QED
    BY <1>2, <2>1, <1>s DEF LeaseTick, Status
<1>3. ASSUME NEW o \in Ops, BackoffPasses(o) PROVE UNCHANGED Durable!vars
  <2>1. row'[o].state = row[o].state /\ \A p \in Ops \ {o} : row'[p] = row[p]
    BY <1>3, <1>t, RowUpdates DEF BackoffPasses
  <2> QED
    BY <1>3, <2>1, <1>s DEF BackoffPasses, Status
<1>4. ASSUME NEW o \in Ops, StopExhausted(o) \/ AbandonRecovery(o)
      PROVE  Durable!GiveUp(o)
  <2>1. Status(row[o]) = "open" /\ Status(Stopped(row[o])) = "dead"
    BY <1>4, <1>t, RowUpdates DEF StopExhausted, AbandonRecovery, Exhausted, Status
  <2> QED
    BY <1>4, <1>e, <1>t, <2>1 DEF StopExhausted, AbandonRecovery, Durable!GiveUp
<1>5. ASSUME NEW o \in Ops, ProviderApplies(o) PROVE Durable!Perform(o)
  <2>1. Status(row[o]) # "none"
    BY <1>5, <1>t DEF ProviderApplies, Status, IInv, SentInv, Row, States
  <2> QED
    BY <1>5, <1>t, <2>1 DEF ProviderApplies, Durable!Perform
<1>6. ASSUME NEW w \in Workers, NEW o \in Ops, TryStart(w, o)
      PROVE  UNCHANGED Durable!vars
  <2>1. /\ Status(row[o]) = "open" /\ Status(row'[o]) = "open"
        /\ \A p \in Ops \ {o} : row'[p] = row[p]
    BY <1>6, <1>t, ClaimUpdate DEF TryStart, Claimable, Status
  <2> QED
    BY <1>6, <2>1, <1>s DEF TryStart
<1>7. ASSUME NEW w \in Workers, Renew(w) PROVE UNCHANGED Durable!vars
  <2>1. \A p \in Ops : row'[p].state = row[p].state
    BY <1>7, <1>t DEF Renew, Row
  <2> QED
    BY <1>7, <2>1, <1>s DEF Renew, Status
<1>8. ASSUME NEW w \in Workers,
             \/ LoseLease(w) \/ ProviderAnswers(w) \/ ProviderErrs(w)
             \/ Shutdown(w) \/ Crash(w)
      PROVE  UNCHANGED Durable!vars
  BY <1>8, <1>s DEF LoseLease, ProviderAnswers, ProviderErrs, Shutdown, Crash
\* A busy worker's operation is in Ops, and the owner's row is open.
<1>o. ASSUME NEW w \in Workers, pc[w] # "idle"
      PROVE  /\ held[w] \in Ops
             /\ Owns(w, held[w]) => Status(row[held[w]]) = "open"
  BY <1>o DEF IInv, TypeOK, HeldInv, Owns, Status
<1>9. ASSUME NEW w \in Workers, MarkSucceeded(w)
      PROVE  Durable!Succeed(held[w]) \/ UNCHANGED Durable!vars
  <2>1. CASE ~Owns(w, held[w])
    BY <1>9, <2>1, <1>s DEF MarkSucceeded
  <2>2. CASE Owns(w, held[w])
    <3>1. /\ Status(Succeed(row[held[w]])) = "succeeded" /\ held[w] \in Ops
          /\ Status(row[held[w]]) = "open" /\ effect[held[w]]
          /\ row' = [row EXCEPT ![held[w]] = Succeed(row[held[w]])] /\ effect' = effect
      BY <1>9, <1>o, <1>t, <2>2, RowUpdates DEF MarkSucceeded, Status, IInv, HeldInv
    <3> QED
      BY <3>1, <1>e DEF Durable!Succeed
  <2> QED
    BY <2>1, <2>2
<1>10. ASSUME NEW w \in Workers, MarkFailed(w)
       PROVE  Durable!GiveUp(held[w]) \/ UNCHANGED Durable!vars
  <2>1. CASE ~Owns(w, held[w])
    BY <1>10, <2>1, <1>s DEF MarkFailed
  <2>2. CASE Owns(w, held[w])
    <3>1. /\ Status(Fail(row[held[w]])) \in {"open", "dead"} /\ held[w] \in Ops
          /\ Status(row[held[w]]) = "open"
          /\ row' = [row EXCEPT ![held[w]] = Fail(row[held[w]])] /\ effect' = effect
      BY <1>10, <1>o, <1>t, <2>2, RowUpdates DEF MarkFailed, Status
    <3>2. CASE Status(Fail(row[held[w]])) = "dead"
      BY <3>1, <3>2, <1>e DEF Durable!GiveUp
    <3>3. CASE Status(Fail(row[held[w]])) = "open"
      BY <3>1, <3>3, <1>t, <1>s
    <3> QED
      BY <3>1, <3>2, <3>3
  <2> QED
    BY <2>1, <2>2
<1>11. ASSUME NEW w \in Workers, RefundAttempt(w) PROVE UNCHANGED Durable!vars
  <2>1. CASE ~Owns(w, held[w])
    BY <1>11, <2>1, <1>s DEF RefundAttempt
  <2>2. CASE Owns(w, held[w])
    <3>1. /\ Status(Refund(row[held[w]])) = "open" /\ held[w] \in Ops
          /\ Status(row[held[w]]) = "open"
          /\ row' = [row EXCEPT ![held[w]] = Refund(row[held[w]])] /\ effect' = effect
      BY <1>11, <1>o, <1>t, <2>2, RowUpdates DEF RefundAttempt, Status
    <3> QED
      BY <3>1, <1>t, <1>s
  <2> QED
    BY <2>1, <2>2
<1>12. CASE UNCHANGED vars
  BY <1>12, <1>s DEF vars
<1>13. ASSUME NEW o \in Ops, LedgerStep(o) PROVE Durable!Next \/ UNCHANGED Durable!vars
  BY <1>13, <1>1, <1>2, <1>3, <1>4, <1>5 DEF LedgerStep, Durable!Next
<1>14. ASSUME NEW w \in Workers, WorkerStep(w) PROVE Durable!Next \/ UNCHANGED Durable!vars
  <2>1. pc[w] # "idle" => held[w] \in Ops
    BY DEF IInv, TypeOK, HeldInv
  <2> QED
    BY <1>14, <1>6, <1>7, <1>8, <1>9, <1>10, <1>11, <2>1
    DEF WorkerStep, MarkSucceeded, MarkFailed, Durable!Next
<1> QED
  BY <1>12, <1>13, <1>14 DEF Next

\* Every behaviour of the ledger is one of DurableWork: success implies that the
\* provider's effect happened and no recorded outcome is ever replaced, for any
\* number of crashed, stale and competing workers.
THEOREM LedgerImplementsDurableWork == Spec => ImplementsDurableWork
<1> QED
  BY InitInv, StepInv, RefineInit, RefineStep, PTL DEF Spec, ImplementsDurableWork, Durable!Spec

-----------------------------------------------------------------------------
(* The attempt budget *)

LEMMA CanceledFinite ==
  ASSUME NEW o PROVE IsFiniteSet(Canceled(o)) /\ Cardinality(Canceled(o)) \in Nat
<1>1. Canceled(o) \subseteq Workers
  BY DEF Canceled
<1> QED
  BY <1>1, WorkersFinite, FS_Subset, FS_CardinalityType

LEMMA InitCharge == Init => ChargeInv
<1> SUFFICES ASSUME Init, NEW o \in Ops
             PROVE  claims[o] + Cardinality(Canceled(o)) <= row[o].attempt + cancels
  BY DEF ChargeInv
<1>1. Canceled(o) = {}
  BY DEF Init, Canceled
<1> QED
  BY <1>1, FS_EmptySet DEF Init, NoRow

LEMMA StepCharge == IInv /\ ChargeInv /\ [Next]_vars => ChargeInv'
<1> SUFFICES ASSUME IInv, ChargeInv, [Next]_vars, NEW p \in Ops
             PROVE  claims'[p] + Cardinality(Canceled(p)') <= row'[p].attempt + cancels'
  BY DEF ChargeInv
<1> DEFINE C == Cardinality(Canceled(p))
           C1 == Cardinality(Canceled(p)')
<1>t. /\ row \in [Ops -> Row] /\ claims \in [Ops -> Nat] /\ cancels \in Nat
      /\ row[p].attempt \in Nat /\ claims[p] \in Nat /\ C \in Nat /\ C1 \in Nat
      /\ claims[p] + C <= row[p].attempt + cancels
      /\ IsFiniteSet(Canceled(p)) /\ IsFiniteSet(Canceled(p)')
  <2>1. /\ row \in [Ops -> Row] /\ claims \in [Ops -> Nat] /\ cancels \in Nat
        /\ row[p].attempt \in Nat /\ claims[p] \in Nat
    BY ConstantsAssumption DEF IInv, TypeOK, Row
  <2>2. Canceled(p)' \subseteq Workers
    BY DEF Canceled
  <2>3. IsFiniteSet(Canceled(p)') /\ C1 \in Nat
    BY <2>2, WorkersFinite, FS_Subset, FS_CardinalityType
  <2> QED
    BY <2>1, <2>3, CanceledFinite DEF ChargeInv
<1> HIDE DEF C, C1
\* Nothing cancelled, nothing refunded, nothing claimed: the inequality stays.
<1>s. ASSUME Canceled(p)' = Canceled(p), claims' = claims, cancels' = cancels,
             row'[p].attempt = row[p].attempt
      PROVE  claims'[p] + C1 <= row'[p].attempt + cancels'
  BY <1>s, <1>t DEF C, C1
\* A cancelled invocation that ends leaves the set.
<1>r. ASSUME NEW w \in Workers, pc[w] = "canceled", held[w] = p,
             pc' = [pc EXCEPT ![w] = "idle"], held' = [held EXCEPT ![w] = NoOp]
      PROVE  C1 = C - 1
  <2>1. w \in Canceled(p) /\ Canceled(p)' = Canceled(p) \ {w}
    BY <1>r, ConstantsAssumption DEF Canceled, IInv, TypeOK
  <2> QED
    BY <2>1, <1>t, FS_RemoveElement DEF C, C1
\* Any other invocation that ends does not touch the set.
<1>i. ASSUME NEW w \in Workers, ~(pc[w] = "canceled" /\ held[w] = p),
             pc' = [pc EXCEPT ![w] = "idle"], held' = [held EXCEPT ![w] = NoOp]
      PROVE  Canceled(p)' = Canceled(p)
  BY <1>i DEF Canceled, IInv, TypeOK
<1>1. ASSUME NEW o \in Ops, LedgerStep(o)
      PROVE  claims'[p] + C1 <= row'[p].attempt + cancels'
  <2>1. row'[p].attempt = row[p].attempt
    <3>1. CASE Enqueue(o)
      <4>1. Enqueue(o) /\ p = o => row[o].attempt = 0
        BY <1>t, CanceledFinite DEF Enqueue, IInv, SentInv
      <4> QED
        BY <3>1, <4>1, <1>t, RowUpdates DEF Enqueue
    <3>2. CASE LeaseTick(o)
      BY <3>2, <1>t DEF LeaseTick, Row
    <3>3. CASE BackoffPasses(o)
      BY <3>3, <1>t, RowUpdates DEF BackoffPasses
    <3>4. CASE StopExhausted(o) \/ AbandonRecovery(o)
      BY <3>4, <1>t, RowUpdates DEF StopExhausted, AbandonRecovery
    <3>5. CASE ProviderApplies(o)
      BY <3>5 DEF ProviderApplies
    <3> QED
      BY <1>1, <3>1, <3>2, <3>3, <3>4, <3>5 DEF LedgerStep
  <2>2. pc' = pc /\ held' = held /\ claims' = claims /\ cancels' = cancels
    BY <1>1 DEF LedgerStep, Enqueue, LeaseTick, BackoffPasses, StopExhausted, AbandonRecovery,
                ProviderApplies
  <2> QED
    BY <2>1, <2>2, <1>s DEF Canceled
<1>2. ASSUME NEW w \in Workers, NEW o \in Ops, TryStart(w, o)
      PROVE  claims'[p] + C1 <= row'[p].attempt + cancels'
  <2>1. Canceled(p)' = Canceled(p)
    BY <1>2 DEF TryStart, Canceled, IInv, TypeOK
  <2>2. C1 = C
    BY <2>1 DEF C, C1
  <2>3. row[o] \in Row /\ row[o].attempt < MaxAttempts
    BY <1>2, <1>t DEF TryStart, Claimable
  <2>4. Claimed(row[o], w).attempt = row[o].attempt + 1
    BY <2>3, ClaimUpdate
  <2>5. \/ claims'[p] = claims[p] /\ row'[p].attempt = row[p].attempt
        \/ claims'[p] = claims[p] + 1 /\ row'[p].attempt = row[p].attempt + 1
    BY <1>2, <1>t, <2>4 DEF TryStart
  <2> QED
    BY <1>2, <2>2, <2>5, <1>t DEF TryStart
<1>3. ASSUME NEW w \in Workers, Renew(w) \/ LoseLease(w) \/ ProviderAnswers(w) \/ ProviderErrs(w)
      PROVE  claims'[p] + C1 <= row'[p].attempt + cancels'
  <2>1. row'[p].attempt = row[p].attempt
    BY <1>3, <1>t DEF Renew, LoseLease, ProviderAnswers, ProviderErrs, Row
  <2>2. Canceled(p)' = Canceled(p)
    BY <1>3 DEF Renew, LoseLease, ProviderAnswers, ProviderErrs, Canceled, IInv, TypeOK
  <2> QED
    BY <1>3, <2>1, <2>2, <1>s DEF Renew, LoseLease, ProviderAnswers, ProviderErrs
<1>4. ASSUME NEW w \in Workers, Shutdown(w)
      PROVE  claims'[p] + C1 <= row'[p].attempt + cancels'
  <2>1. C1 \in {C, C + 1}
    <3>1. CASE held[w] = p
      <4>1. w \notin Canceled(p) /\ Canceled(p)' = Canceled(p) \cup {w}
        BY <1>4, <3>1 DEF Shutdown, Canceled, IInv, TypeOK
      <4> QED
        BY <4>1, <1>t, FS_AddElement DEF C, C1
    <3>2. CASE held[w] # p
      <4>1. Canceled(p)' = Canceled(p)
        BY <1>4, <3>2 DEF Shutdown, Canceled, IInv, TypeOK
      <4> QED
        BY <4>1 DEF C, C1
    <3> QED
      BY <3>1, <3>2
  <2> QED
    BY <1>4, <2>1, <1>t DEF Shutdown
<1>5. ASSUME NEW w \in Workers, MarkSucceeded(w) \/ MarkFailed(w)
      PROVE  claims'[p] + C1 <= row'[p].attempt + cancels'
  <2>1. row'[p].attempt = row[p].attempt
    BY <1>5, <1>t, RowUpdates DEF MarkSucceeded, MarkFailed
  <2>2. Canceled(p)' = Canceled(p)
    BY <1>5 DEF MarkSucceeded, MarkFailed, Canceled, IInv, TypeOK
  <2> QED
    BY <1>5, <2>1, <2>2, <1>s DEF MarkSucceeded, MarkFailed
<1>6. ASSUME NEW w \in Workers, RefundAttempt(w)
      PROVE  claims'[p] + C1 <= row'[p].attempt + cancels'
  <2>1. CASE held[w] = p
    <3>1. C1 = C - 1
      BY <1>6, <2>1, <1>r DEF RefundAttempt
    <3>2. row'[p].attempt = row[p].attempt \/ row'[p].attempt = row[p].attempt - 1
      BY <1>6, <2>1, <1>t, RowUpdates DEF RefundAttempt, Owns, IInv, TokenInv
    <3> QED
      BY <1>6, <3>1, <3>2, <1>t DEF RefundAttempt
  <2>2. CASE held[w] # p
    <3>1. Canceled(p)' = Canceled(p)
      BY <1>6, <2>2, <1>i DEF RefundAttempt
    <3>2. row'[p].attempt = row[p].attempt
      BY <1>6, <2>2, <1>t DEF RefundAttempt
    <3> QED
      BY <1>6, <3>1, <3>2, <1>s DEF RefundAttempt
  <2> QED
    BY <2>1, <2>2
<1>7. ASSUME NEW w \in Workers, Crash(w)
      PROVE  claims'[p] + C1 <= row'[p].attempt + cancels'
  <2>1. CASE pc[w] = "canceled" /\ held[w] = p
    <3>1. C1 = C - 1
      BY <1>7, <2>1, <1>r DEF Crash
    <3> QED
      BY <1>7, <3>1, <1>t DEF Crash
  <2>2. CASE ~(pc[w] = "canceled" /\ held[w] = p)
    BY <1>7, <2>2, <1>i, <1>s DEF Crash
  <2> QED
    BY <2>1, <2>2
<1>8. ASSUME UNCHANGED vars
      PROVE  claims'[p] + C1 <= row'[p].attempt + cancels'
  <2>1. /\ Canceled(p)' = Canceled(p) /\ claims' = claims /\ cancels' = cancels
        /\ row'[p].attempt = row[p].attempt
    BY <1>8 DEF vars, Canceled
  <2> QED
    BY <2>1, <1>s
<1> QED
  BY <1>1, <1>2, <1>3, <1>4, <1>5, <1>6, <1>7, <1>8 DEF Next, WorkerStep, C1

\* An operation is never started more often than its durable budget allows, plus
\* once per shutdown: re-enqueued messages, crashed owners and stale writers
\* never reset or refund an attempt they do not own.
THEOREM BudgetTheorem == Spec => []BudgetHolds
<1>1. IInv /\ ChargeInv => BudgetHolds
  <2> SUFFICES ASSUME IInv, ChargeInv, NEW o \in Ops PROVE claims[o] <= MaxAttempts + cancels
    BY DEF BudgetHolds
  <2>1. /\ row[o].attempt \in 0..MaxAttempts /\ claims[o] \in Nat /\ cancels \in Nat
        /\ claims[o] + Cardinality(Canceled(o)) <= row[o].attempt + cancels
    BY ConstantsAssumption DEF IInv, TypeOK, Row, ChargeInv
  <2> QED
    BY <2>1, CanceledFinite, ConstantsAssumption
<1> QED
  BY InitInv, StepInv, InitCharge, StepCharge, <1>1, PTL DEF Spec

-----------------------------------------------------------------------------
(* Live leases *)

LEMMA StepLiveLease == IInv /\ [Next]_vars => [LiveLeaseStep]_vars
<1> SUFFICES ASSUME IInv, Next, NEW o \in Ops,
                    row[o].state = "running", row[o].lease > 0,
                    row'[o].state # row[o].state \/ row'[o].token # row[o].token
             PROVE  \E w \in Workers : row[o].token = w /\ held[w] = o /\ held'[w] = NoOp
  BY DEF LiveLeaseStep
<1>t. row \in [Ops -> Row] /\ held \in [Workers -> Ops \cup {NoOp}]
  BY DEF IInv, TypeOK
<1>1. ASSUME NEW p \in Ops PROVE ~LedgerStep(p)
  <2>1. ~Enqueue(p)
    BY <1>t DEF Enqueue
  <2>2. ~LeaseTick(p)
    BY <1>t DEF LeaseTick, Row
  <2>3. ~BackoffPasses(p)
    BY <1>t DEF BackoffPasses
  <2>4. ~StopExhausted(p)
    BY <1>t, ConstantsAssumption DEF StopExhausted, Exhausted, Row
  <2>5. ~AbandonRecovery(p)
    BY <1>t, ConstantsAssumption DEF AbandonRecovery, Row
  <2>6. ~ProviderApplies(p)
    BY DEF ProviderApplies
  <2> QED
    BY <2>1, <2>2, <2>3, <2>4, <2>5, <2>6 DEF LedgerStep
<1>2. ASSUME NEW w \in Workers, WorkerStep(w)
      PROVE  MarkSucceeded(w) \/ MarkFailed(w) \/ RefundAttempt(w)
  <2>1. \A p \in Ops : ~TryStart(w, p)
    BY <1>t, ConstantsAssumption DEF TryStart, Claimable, Row
  <2>2. ~Renew(w)
    BY <1>t DEF Renew, Row
  <2>3. ~(LoseLease(w) \/ ProviderAnswers(w) \/ ProviderErrs(w) \/ Shutdown(w) \/ Crash(w))
    BY DEF LoseLease, ProviderAnswers, ProviderErrs, Shutdown, Crash
  <2> QED
    BY <1>2, <2>1, <2>2, <2>3 DEF WorkerStep
<1>3. PICK w \in Workers : MarkSucceeded(w) \/ MarkFailed(w) \/ RefundAttempt(w)
  BY <1>1, <1>2 DEF Next
<1>4. row[o].token = w /\ held[w] = o
  BY <1>3, <1>t DEF Owns, MarkSucceeded, MarkFailed, RefundAttempt
<1>5. held'[w] = NoOp
  BY <1>3, <1>4, <1>t DEF MarkSucceeded, MarkFailed, RefundAttempt
<1> QED
  BY <1>4, <1>5

\* While a lease is live only the worker holding its token changes the state or
\* the token of the operation: no scan, takeover or stale worker can.
THEOREM LiveLeaseTheorem == Spec => LiveLeaseProtected
<1> QED
  BY InitInv, StepInv, StepLiveLease, PTL DEF Spec, LiveLeaseProtected
=============================================================================
