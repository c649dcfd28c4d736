------------------------- MODULE TaskDeliveryProofs -------------------------
(***************************************************************************)
(* Proofs about TaskDelivery and about the coordination components.  For   *)
(* any number of dispatchers, consumers, retries, faults and copies of the *)
(* message, one consumer executes at a time unless a lease ran out under   *)
(* it, receipts tell the truth, and nothing that is recorded is forgotten. *)
(* For any replicas of the dispatcher, one leads unless its key ran out    *)
(* under it.  For any window and callers, the breaker counts exactly what  *)
(* its window holds and the probes under way; no goroutine of the pool     *)
(* sleeps beside work; recovery keeps to its budget.                       *)
(***************************************************************************)
EXTENDS TaskDelivery, MCPlatform, FunctionTheorems, FiniteSetTheorems, TLAPS

-----------------------------------------------------------------------------
(* The inductive invariant *)

\* Whoever executes without having been outlived by its lease owns the row, and
\* the owner knows how many retries the row has counted.
ExecutorInv ==
  /\ exec.status = "running" => exec.owner \in Consumers
  /\ \A c \in Consumers : Executing(c) =>
       /\ ~cons[c].late => OwnsExecution(c)
       /\ OwnsExecution(c) => cons[c].count = exec.count

\* What an outcome rests on when it is recorded or reported.
OutcomeInv ==
  /\ result = "succeeded" => exec.status = "finished"
  /\ \A c \in Consumers : /\ cons[c].pc = "ok" => done
                          /\ cons[c].pc = "dlq" => result = "dead"

IInv == TypeOK /\ ExecutorInv /\ OutcomeInv /\ ReceiptsTellTheTruth

-----------------------------------------------------------------------------

\* The bounded counters stay in bounds.
LEMMA Bounds ==
  /\ 0 \in Counts /\ 0 \in 0 .. MaxFaults
  /\ TypeOK /\ Fault => faults' \in 0 .. MaxFaults
  /\ TypeOK => \A c \in Consumers : cons[c].count \in Counts
  /\ \A n \in Counts : n >= MaxRetry \/ n + 1 \in Counts
BY DeliveryAssumption DEF Counts, Fault, TypeOK

LEMMA QueueUpdates ==
  ASSUME TypeOK, NEW n
  PROVE  [queue EXCEPT ![n] = @ + 1] \in [Counts -> Nat]
<1>1. n \in Counts => queue[n] + 1 \in Nat
  BY DEF TypeOK
<1> QED BY <1>1 DEF TypeOK

\* The rows that ends and retries leave behind, and idle consumers, are well typed.
LEMMA RecordTypes ==
  ASSUME TypeOK
  PROVE  /\ Finished \in [status : {"none", "running", "retry", "finished"}, owner : Consumers \cup {Nobody},
                          timer : {"set", "over"}, count : Counts]
         /\ \A n \in Counts, timer \in {"set", "over"} :
              Retrying(n, timer) \in [status : {"none", "running", "retry", "finished"},
                                      owner : Consumers \cup {Nobody}, timer : {"set", "over"}, count : Counts]
         /\ IdleConsumer \in [pc : {"idle", "claim", "run"} \cup Outcomes \cup Settling,
                              header : Counts, count : Counts, late : BOOLEAN]
BY Bounds DEF TypeOK, Finished, Retrying, IdleConsumer

LEMMA InitInv == Init => IInv
<1> SUFFICES ASSUME Init PROVE IInv
  OBVIOUS
<1> USE DEF Init, IdleConsumer, IdleDispatcher
<1>1. TypeOK
  BY Bounds DEF TypeOK
<1>2. ExecutorInv /\ OutcomeInv /\ ReceiptsTellTheTruth
  BY DEF ExecutorInv, OutcomeInv, ReceiptsTellTheTruth, Executing, Outcomes
<1> QED BY <1>1, <1>2 DEF IInv

\* Steps of dispatchers and of the broker do not touch what consumers record.
LEMMA RecordsUntouched ==
  ASSUME IInv, TypeOK', UNCHANGED <<cons, exec, result, failure, done, dlq>>
  PROVE  IInv'
BY DEF IInv, ExecutorInv, OutcomeInv, ReceiptsTellTheTruth, Executing, OwnsExecution

LEMMA DispatcherInv ==
  ASSUME IInv, NEW d \in Dispatchers,
         ClaimDelivery(d) \/ SendDelivery(d) \/ RecordDelivery(d) \/ CrashDispatcher(d)
  PROVE  IInv'
<1>0. TypeOK
  BY DEF IInv
<1>1. CASE ClaimDelivery(d)
  <2>1. TypeOK'
    BY <1>0, <1>1, Bounds DEF ClaimDelivery, TypeOK
  <2> QED BY <1>1, <2>1, RecordsUntouched DEF ClaimDelivery
<1>2. CASE SendDelivery(d)
  <2>1. TypeOK'
    <3>1. queue' \in [Counts -> Nat] /\ faults' \in 0 .. MaxFaults
      BY <1>0, <1>2, Bounds, QueueUpdates DEF SendDelivery, Publish, TypeOK
    <3> QED BY <1>0, <1>2, <3>1 DEF SendDelivery, TypeOK
  <2> QED BY <1>2, <2>1, RecordsUntouched DEF SendDelivery
<1>3. CASE RecordDelivery(d)
  <2>1. TypeOK'
    BY <1>0, <1>3, Bounds DEF RecordDelivery, IdleDispatcher, TypeOK
  <2> QED BY <1>3, <2>1, RecordsUntouched DEF RecordDelivery
<1>4. CASE CrashDispatcher(d)
  <2>1. TypeOK'
    BY <1>0, <1>4, Bounds DEF CrashDispatcher, IdleDispatcher, TypeOK
  <2> QED BY <1>4, <2>1, RecordsUntouched DEF CrashDispatcher
<1> QED BY <1>1, <1>2, <1>3, <1>4

LEMMA BrokerInv ==
  ASSUME IInv, RecoverPublished \/ \E n \in Counts : LoseMessage(n)
  PROVE  IInv'
<1>1. CASE RecoverPublished
  <2>1. TypeOK'
    BY <1>1 DEF RecoverPublished, IInv, TypeOK
  <2> QED BY <1>1, <2>1, RecordsUntouched DEF RecoverPublished
<1>2. CASE \E n \in Counts : LoseMessage(n)
  <2>1. TypeOK'
    BY <1>2, Bounds DEF LoseMessage, IInv, TypeOK
  <2> QED BY <1>2, <2>1, RecordsUntouched DEF LoseMessage
<1> QED BY <1>1, <1>2

-----------------------------------------------------------------------------
(* Consumers *)

LEMMA ReceiveInv ==
  ASSUME IInv, NEW c \in Consumers, NEW n \in Counts, Receive(c, n)
  PROVE  IInv'
<1> USE DEF Receive, IInv
<1>1. TypeOK'
  BY DEF TypeOK
<1>2. ExecutorInv'
  BY DEF ExecutorInv, Executing, OwnsExecution, Outcomes, TypeOK
<1>3. OutcomeInv' /\ ReceiptsTellTheTruth'
  BY DEF OutcomeInv, ReceiptsTellTheTruth, TypeOK
<1> QED BY <1>1, <1>2, <1>3

\* A consumer claims a row only if nobody's lease is on it and it has no receipt.
LEMMA RefusalNone ==
  ASSUME IInv
  PROVE  /\ Refusal \in {"ack", "dlq", "busy", "none"}
         /\ Refusal = "dlq" => result = "dead"
         /\ Refusal = "none" => /\ result = "none" /\ exec.status # "finished"
                                /\ \A c \in Consumers : ~OwnsExecution(c)
BY DEF IInv, Refusal, TypeOK, ReceiptsTellTheTruth, OwnsExecution

LEMMA ClaimInv ==
  ASSUME IInv, NEW c \in Consumers, Claim(c)
  PROVE  IInv'
<1> DEFINE count == IF exec.status = "none" THEN cons[c].header ELSE exec.count
<1>0. count \in Counts
  BY DEF IInv, TypeOK
<1> HIDE DEF count
<1>a. /\ cons[c].pc = "claim"
      /\ UNCHANGED <<dlv, disp, queue, dlq, result, failure, done, faults>>
      /\ \/ Refusal # "none" /\ Go(c, Refusal) /\ UNCHANGED exec
         \/ /\ Refusal = "none"
            /\ exec' = [status |-> "running", owner |-> c, timer |-> "set", count |-> count]
            /\ cons' = [cons EXCEPT ![c].pc = "run", ![c].count = count]
  BY DEF Claim, count
<1>1. CASE Refusal # "none" /\ Go(c, Refusal) /\ UNCHANGED exec
  <2>1. TypeOK'
    BY <1>a, <1>1, RefusalNone DEF Go, IInv, TypeOK, Settling
  <2>2. ExecutorInv'
    BY <1>a, <1>1, RefusalNone DEF Go, IInv, TypeOK, ExecutorInv, Executing, OwnsExecution, Outcomes
  <2>3. OutcomeInv' /\ ReceiptsTellTheTruth'
    BY <1>a, <1>1, RefusalNone DEF Go, IInv, TypeOK, OutcomeInv, ReceiptsTellTheTruth
  <2> QED BY <2>1, <2>2, <2>3 DEF IInv
<1>2. CASE /\ Refusal = "none"
           /\ exec' = [status |-> "running", owner |-> c, timer |-> "set", count |-> count]
           /\ cons' = [cons EXCEPT ![c].pc = "run", ![c].count = count]
  <2>1. TypeOK'
    BY <1>0, <1>a, <1>2 DEF IInv, TypeOK
  <2>2. ExecutorInv'
    BY <1>0, <1>a, <1>2, RefusalNone DEF IInv, TypeOK, ExecutorInv, Executing, OwnsExecution, Outcomes
  <2>3. OutcomeInv' /\ ReceiptsTellTheTruth'
    BY <1>a, <1>2, RefusalNone DEF IInv, TypeOK, OutcomeInv, ReceiptsTellTheTruth
  <2> QED BY <2>1, <2>2, <2>3 DEF IInv
<1> QED BY <1>a, <1>1, <1>2

LEMMA HandleInv ==
  ASSUME IInv, NEW c \in Consumers, Handle(c)
  PROVE  IInv'
<1>a. PICK out \in Outcomes : Go(c, out) /\ done' \in (IF out = "ok" THEN {TRUE} ELSE {done, TRUE})
  BY DEF Handle
<1>b. done' \in BOOLEAN /\ (done => done') /\ (out = "ok" => done')
  BY <1>a DEF IInv, TypeOK
<1>c. /\ cons[c].pc = "run" /\ cons' = [cons EXCEPT ![c].pc = out]
      /\ UNCHANGED <<dlv, disp, queue, dlq, exec, result, failure, faults>>
  BY <1>a DEF Handle, Go
<1> USE <1>b, <1>c DEF IInv
<1>1. TypeOK'
  BY DEF TypeOK
<1>2. ExecutorInv'
  BY DEF ExecutorInv, Executing, OwnsExecution, Outcomes, TypeOK
<1>3. OutcomeInv' /\ ReceiptsTellTheTruth'
  BY DEF OutcomeInv, ReceiptsTellTheTruth, Outcomes, TypeOK
<1> QED BY <1>1, <1>2, <1>3

LEMMA FinishInv ==
  ASSUME IInv, NEW c \in Consumers, Finish(c)
  PROVE  IInv'
<1> USE DEF Finish, Go, IInv
<1>1. CASE FinishLost(c)
  <2>1. TypeOK'
    BY <1>1 DEF FinishLost, TypeOK, Settling
  <2>2. ExecutorInv'
    BY <1>1 DEF FinishLost, ExecutorInv, Executing, OwnsExecution, Outcomes, TypeOK
  <2>3. OutcomeInv' /\ ReceiptsTellTheTruth'
    BY <1>1 DEF FinishLost, OutcomeInv, ReceiptsTellTheTruth, TypeOK
  <2> QED BY <2>1, <2>2, <2>3
<1>2. CASE FinishSuccess(c)
  <2>1. TypeOK'
    BY <1>2 DEF FinishSuccess, Finished, InsertSuccess, TypeOK, Settling
  <2>2. ExecutorInv'
    BY <1>2 DEF FinishSuccess, Finished, ExecutorInv, Executing, OwnsExecution, Outcomes, TypeOK
  <2>3. OutcomeInv' /\ ReceiptsTellTheTruth'
    BY <1>2 DEF FinishSuccess, Finished, InsertSuccess, OutcomeInv, ReceiptsTellTheTruth, TypeOK
  <2> QED BY <2>1, <2>2, <2>3
<1>3. CASE FinishDead(c)
  <2>0. result' = "dead" /\ failure' = TRUE
    BY <1>3 DEF FinishDead, RecordFailure, OwnsExecution, OutcomeInv
  <2>1. TypeOK'
    <3>1. failure' \in BOOLEAN /\ result' \in {"none", "succeeded", "dead"}
      BY <2>0
    <3>2. cons' = [cons EXCEPT ![c].pc = "dlq"] /\ exec' = Finished
      BY <1>3 DEF FinishDead
    <3> QED BY <3>1, <3>2, RecordTypes DEF TypeOK, Settling
  <2>2. ExecutorInv'
    BY <1>3 DEF FinishDead, Finished, ExecutorInv, Executing, OwnsExecution, Outcomes, TypeOK
  <2>3. OutcomeInv' /\ ReceiptsTellTheTruth'
    BY <1>3, <2>0 DEF FinishDead, Finished, OutcomeInv, ReceiptsTellTheTruth, OwnsExecution, TypeOK
  <2> QED BY <2>1, <2>2, <2>3
<1>4. CASE FinishRetry(c)
  <2>0. cons[c].count + 1 \in Counts
    BY <1>4, DeliveryAssumption DEF FinishRetry, Terminal, TypeOK, Counts
  <2>1. TypeOK'
    BY <1>4, <2>0 DEF FinishRetry, Retrying, TypeOK, Settling
  <2>2. ExecutorInv'
    BY <1>4 DEF FinishRetry, Retrying, ExecutorInv, Executing, OwnsExecution, Outcomes, TypeOK
  <2>3. OutcomeInv' /\ ReceiptsTellTheTruth'
    BY <1>4 DEF FinishRetry, Retrying, OutcomeInv, ReceiptsTellTheTruth, OwnsExecution, TypeOK
  <2> QED BY <2>1, <2>2, <2>3
<1> QED BY <1>1, <1>2, <1>3, <1>4

\* A consumer that is done with the row only settles its message.
LEMMA SettlingInv ==
  ASSUME IInv, NEW c \in Consumers, Republish(c) \/ Acknowledge(c) \/ Nack(c)
  PROVE  IInv'
<1> USE DEF IInv, Go
<1>1. CASE Republish(c)
  <2>1. /\ queue' \in [Counts -> Nat] /\ dlq' \in BOOLEAN /\ faults' \in 0 .. MaxFaults
        /\ dlq' => dlq \/ cons[c].pc = "dlq"
        /\ \E pc \in {"ack", "nack"} : cons' = [cons EXCEPT ![c].pc = pc]
        /\ cons[c].pc \in {"busy", "retry", "dlq"}
        /\ UNCHANGED <<dlv, disp, exec, result, failure, done>>
    <3>1. queue' \in [Counts -> Nat]
      BY <1>1, QueueUpdates DEF Republish, Publish, TypeOK
    <3>2. dlq' \in BOOLEAN /\ (dlq' => dlq \/ cons[c].pc = "dlq")
      BY <1>1 DEF Republish
    <3>3. faults' \in 0 .. MaxFaults
      BY <1>1, Bounds DEF Republish, TypeOK
    <3> QED BY <1>1, <3>1, <3>2, <3>3 DEF Republish
  <2>2. TypeOK'
    BY <2>1 DEF TypeOK, Settling
  <2>3. ExecutorInv'
    BY <2>1 DEF ExecutorInv, Executing, OwnsExecution, Outcomes, TypeOK
  <2>4. OutcomeInv' /\ ReceiptsTellTheTruth'
    BY <2>1 DEF OutcomeInv, ReceiptsTellTheTruth, TypeOK
  <2> QED BY <2>2, <2>3, <2>4
<1>2. CASE Acknowledge(c) \/ Nack(c)
  <2>1. /\ queue' \in [Counts -> Nat] /\ cons' = [cons EXCEPT ![c] = IdleConsumer]
        /\ UNCHANGED <<dlv, disp, dlq, exec, result, failure, done, faults>>
    BY <1>2, QueueUpdates DEF Acknowledge, Nack, Requeue, TypeOK
  <2>2. TypeOK'
    BY <2>1, RecordTypes DEF TypeOK
  <2>3. ExecutorInv'
    BY <2>1 DEF IdleConsumer, ExecutorInv, Executing, OwnsExecution, Outcomes, TypeOK
  <2>4. OutcomeInv' /\ ReceiptsTellTheTruth'
    BY <2>1 DEF IdleConsumer, OutcomeInv, ReceiptsTellTheTruth, TypeOK
  <2> QED BY <2>2, <2>3, <2>4
<1> QED BY <1>1, <1>2

\* A lease that runs out under its executor marks it late.
LEMMA TimerInv ==
  ASSUME IInv, TimerRunsOut
  PROVE  IInv'
<1> USE DEF IInv
<1>0. /\ exec' = [exec EXCEPT !.timer = "over"] /\ UNCHANGED <<dlv, disp, queue, dlq, result, failure, done>>
      /\ faults' \in 0 .. MaxFaults
      /\ IF exec.status = "running" /\ Executing(exec.owner)
         THEN cons' = [cons EXCEPT ![exec.owner].late = TRUE] ELSE cons' = cons
  BY Bounds DEF TimerRunsOut, TypeOK
<1>a. \A c \in Consumers : cons'[c].pc = cons[c].pc /\ cons'[c].count = cons[c].count
  BY <1>0 DEF TypeOK
<1>1. TypeOK'
  <2>1. cons' \in [Consumers -> [pc : {"idle", "claim", "run"} \cup Outcomes \cup Settling,
                                 header : Counts, count : Counts, late : BOOLEAN]]
    <3>1. CASE exec.status = "running" /\ Executing(exec.owner)
      <4>1. exec.owner \in Consumers /\ cons' = [cons EXCEPT ![exec.owner].late = TRUE]
        BY <1>0, <3>1 DEF ExecutorInv
      <4> QED BY <4>1 DEF TypeOK
    <3>2. CASE ~(exec.status = "running" /\ Executing(exec.owner))
      BY <1>0, <3>2 DEF TypeOK
    <3> QED BY <3>1, <3>2
  <2> QED BY <1>0, <2>1 DEF TypeOK
<1>2. ExecutorInv'
  BY <1>0 DEF ExecutorInv, Executing, OwnsExecution, Outcomes, TypeOK
<1>3. OutcomeInv' /\ ReceiptsTellTheTruth'
  BY <1>0, <1>a DEF OutcomeInv, ReceiptsTellTheTruth, TypeOK
<1> QED BY <1>1, <1>2, <1>3

LEMMA FaultInv ==
  ASSUME IInv, NEW c \in Consumers, StepFails(c) \/ Shutdown(c) \/ Stuck(c) \/ CrashConsumer(c)
  PROVE  IInv'
<1> USE DEF IInv
<1>1. CASE StepFails(c)
  <2>1. TypeOK'
    BY <1>1, Bounds DEF StepFails, Go, TypeOK, Settling
  <2>2. ExecutorInv'
    BY <1>1 DEF StepFails, Go, ExecutorInv, Executing, OwnsExecution, Outcomes, TypeOK
  <2>3. OutcomeInv' /\ ReceiptsTellTheTruth'
    BY <1>1 DEF StepFails, Go, OutcomeInv, ReceiptsTellTheTruth, TypeOK
  <2> QED BY <2>1, <2>2, <2>3
<1>2. CASE Shutdown(c)
  <2>1. TypeOK'
    BY <1>2, Bounds DEF Shutdown, Retrying, Go, TypeOK, Settling
  <2>2. ExecutorInv'
    BY <1>2 DEF Shutdown, Retrying, Go, ExecutorInv, Executing, OwnsExecution, Outcomes, TypeOK
  <2>3. OutcomeInv' /\ ReceiptsTellTheTruth'
    BY <1>2 DEF Shutdown, Retrying, Go, OutcomeInv, ReceiptsTellTheTruth, OwnsExecution, TypeOK
  <2> QED BY <2>1, <2>2, <2>3
<1>3. CASE Stuck(c)
  <2>0. result # "succeeded"
    BY <1>3 DEF Stuck, OwnsExecution, OutcomeInv
  <2>1. TypeOK'
    <3>1. queue' \in [Counts -> Nat] /\ faults' \in 0 .. MaxFaults /\ cons' = [cons EXCEPT ![c] = IdleConsumer]
      BY <1>3, Bounds, QueueUpdates DEF Stuck, Requeue
    <3>2. done' \in BOOLEAN
      BY <1>3 DEF Stuck, EffectOfDying, TypeOK
    <3>3. \/ failure' = TRUE /\ result' = "dead" /\ exec' = exec
          \/ failure' = failure /\ result' = result /\ \E n \in Counts : exec' = [exec EXCEPT !.count = n]
      BY <1>3, <2>0, Bounds DEF Stuck, RecordFailure
    <3>4. failure' \in BOOLEAN /\ result' \in {"none", "succeeded", "dead"}
      BY <3>3 DEF TypeOK
    <3> QED BY <1>3, <3>1, <3>2, <3>3, <3>4, RecordTypes DEF Stuck, TypeOK
  <2>2. ExecutorInv'
    BY <1>3 DEF Stuck, Requeue, IdleConsumer, ExecutorInv, Executing, OwnsExecution, Outcomes, TypeOK
  <2>3. OutcomeInv' /\ ReceiptsTellTheTruth'
    BY <1>3, <2>0 DEF Stuck, RecordFailure, Requeue, EffectOfDying, IdleConsumer, OutcomeInv, ReceiptsTellTheTruth,
                      OwnsExecution, TypeOK
  <2> QED BY <2>1, <2>2, <2>3
<1>4. CASE CrashConsumer(c)
  <2>1. TypeOK'
    <3>1. queue' \in [Counts -> Nat] /\ faults' \in 0 .. MaxFaults /\ cons' = [cons EXCEPT ![c] = IdleConsumer]
      BY <1>4, Bounds, QueueUpdates DEF CrashConsumer, Requeue
    <3>2. done' \in BOOLEAN
      BY <1>4 DEF CrashConsumer, EffectOfDying, TypeOK
    <3> QED BY <1>4, <3>1, <3>2, RecordTypes DEF CrashConsumer, TypeOK
  <2>2. ExecutorInv'
    BY <1>4 DEF CrashConsumer, Requeue, IdleConsumer, ExecutorInv, Executing, OwnsExecution, Outcomes, TypeOK
  <2>3. OutcomeInv' /\ ReceiptsTellTheTruth'
    BY <1>4 DEF CrashConsumer, Requeue, EffectOfDying, IdleConsumer, OutcomeInv, ReceiptsTellTheTruth, TypeOK
  <2> QED BY <2>1, <2>2, <2>3
<1> QED BY <1>1, <1>2, <1>3, <1>4

LEMMA NextInv == IInv /\ [Next]_vars => IInv'
<1> SUFFICES ASSUME IInv, [Next]_vars PROVE IInv'
  OBVIOUS
<1>1. CASE UNCHANGED vars
  <2>1. TypeOK'
    BY <1>1 DEF vars, IInv, TypeOK
  <2> QED BY <1>1, <2>1, RecordsUntouched DEF vars
<1>2. CASE Next
  BY <1>2, DispatcherInv, BrokerInv, ReceiveInv, ClaimInv, HandleInv, FinishInv, SettlingInv, TimerInv, FaultInv
  DEF Next, ConsumerStep
<1> QED BY <1>1, <1>2

LEMMA Invariant == Spec => []IInv
BY InitInv, NextInv, PTL DEF Spec

-----------------------------------------------------------------------------
(* The theorems *)

\* The delivery row, the queues, the consumers and the execution row keep their types.
THEOREM TypeCorrect == Spec => []TypeOK
<1>1. IInv => TypeOK
  BY DEF IInv
<1> QED BY <1>1, Invariant, PTL

\* Whatever is redelivered or replayed: two consumers run the handler at once only
\* if a lease ran out under one of them (execution.go).
THEOREM OneExecutorTheorem == Spec => []OneExecutor
<1>1. IInv => OneExecutor
  BY DEF IInv, ExecutorInv, OneExecutor, OwnsExecution, Executing
<1> QED BY <1>1, Invariant, PTL

\* Receipts, failure rows and the dead letter queue report what happened.
THEOREM ReceiptsTheorem == Spec => []ReceiptsTellTheTruth
<1>1. IInv => ReceiptsTellTheTruth
  BY DEF IInv
<1> QED BY <1>1, Invariant, PTL

\* What a step of a consumer may do to the execution row and to the receipt.
LEMMA ConsumerKeeps ==
  ASSUME IInv, NEW c \in Consumers, Claim(c) \/ Finish(c) \/ Shutdown(c) \/ Stuck(c)
  PROVE  /\ exec.status # "none" => exec'.count >= exec.count
         /\ result # "none" => result' = result
<1> USE DEF IInv
<1>0. exec.count \in Nat /\ exec.count >= exec.count /\ exec.count + 1 >= exec.count
  BY DeliveryAssumption DEF TypeOK, Counts
<1>1. CASE Claim(c)
  BY <1>0, <1>1 DEF Claim
<1>2. CASE Finish(c)
  <2>1. OwnsExecution(c) => cons[c].count = exec.count
    BY <1>2 DEF Finish, ExecutorInv, Executing
  <2>2. CASE FinishLost(c)
    BY <1>0, <2>2 DEF FinishLost
  <2>3. CASE FinishSuccess(c)
    BY <1>0, <2>3 DEF FinishSuccess, Finished, InsertSuccess, TypeOK
  <2>4. CASE FinishDead(c)
    BY <1>0, <2>4 DEF FinishDead, Finished, RecordFailure, TypeOK
  <2>5. CASE FinishRetry(c)
    BY <1>0, <2>1, <2>5 DEF FinishRetry, Retrying
  <2> QED BY <1>2, <2>2, <2>3, <2>4, <2>5 DEF Finish
<1>3. CASE Shutdown(c)
  BY <1>0, <1>3 DEF Shutdown, Retrying, ExecutorInv
<1>4. CASE Stuck(c)
  <2>1. cons[c].count = exec.count
    BY <1>4 DEF Stuck, ExecutorInv, Executing
  <2> QED BY <1>0, <1>4, <2>1 DEF Stuck, RecordFailure, OutcomeInv, OwnsExecution, TypeOK
<1> QED BY <1>1, <1>2, <1>3, <1>4

\* No redelivered message and no late handler takes back a counted retry or a receipt.
THEOREM RecordsKeptTheorem == Spec => RecordsKept
<1> DEFINE Kept == /\ exec.status # "none" => exec'.count >= exec.count
                   /\ result # "none" => result' = result
<1>1. ASSUME IInv, [Next]_vars PROVE [Kept]_vars
  <2>0. exec.count >= exec.count
    BY <1>1, DeliveryAssumption DEF IInv, TypeOK, Counts
  <2>1. CASE UNCHANGED <<exec, result>>
    BY <2>0, <2>1
  <2>2. CASE TimerRunsOut
    BY <1>1, <2>0, <2>2 DEF TimerRunsOut, IInv, TypeOK
  <2>3. CASE \E c \in Consumers : Claim(c) \/ Finish(c) \/ Shutdown(c) \/ Stuck(c)
    BY <1>1, <2>3, ConsumerKeeps
  <2>4. CASE UNCHANGED vars
    BY <2>1, <2>4 DEF vars
  <2>5. Next => \/ UNCHANGED <<exec, result>> \/ TimerRunsOut
                \/ \E c \in Consumers : Claim(c) \/ Finish(c) \/ Shutdown(c) \/ Stuck(c)
    BY DEF Next, ConsumerStep, ClaimDelivery, SendDelivery, RecordDelivery, CrashDispatcher, RecoverPublished,
           LoseMessage, Receive, Handle, Republish, Acknowledge, Nack, StepFails, CrashConsumer
  <2> QED BY <1>1, <2>1, <2>2, <2>3, <2>4, <2>5
<1> QED BY <1>1, Invariant, PTL DEF Spec, RecordsKept

-----------------------------------------------------------------------------
(* The election of the dispatcher: Dispatching. *)

Places == {"follower", "poll", "claim", "batch", "idle", "backoff", "release", "down"}
ReplicaRows == [at : Places, halt : {"no", "lost", "stop"}, late : BOOLEAN, signal : BOOLEAN,
                prepared : BOOLEAN, batch : SUBSET Destinations, processed : BOOLEAN]

LeaderInv == replica \in [Replicas -> ReplicaRows] /\ Dispatch!LeaderHoldsKey

Leads(x) == x.at \notin {"follower", "down"} /\ ~x.late

\* The steps of one replica, which leave the others their key.
LEMMA OneReplica ==
  ASSUME LeaderInv, NEW r \in Replicas, NEW x \in ReplicaRows, replica' = [replica EXCEPT ![r] = x],
         \A s \in Replicas : s # r /\ key = s => key' = s,
         Leads(x) => key' = r
  PROVE  LeaderInv'
<1>1. replica' \in [Replicas -> ReplicaRows] /\ replica'[r] = x /\ \A s \in Replicas : s # r => replica'[s] = replica[s]
  BY DEF LeaderInv
<1>2. ASSUME NEW s \in Replicas, replica'[s].at \notin {"follower", "down"}, ~replica'[s].late PROVE key' = s
  <2>1. CASE s = r
    BY <1>1, <1>2, <2>1 DEF Leads
  <2>2. CASE s # r
    BY <1>1, <1>2, <2>2 DEF LeaderInv, Dispatch!LeaderHoldsKey, Dispatch!Leading
  <2> QED BY <2>1, <2>2
<1> QED BY <1>1, <1>2 DEF LeaderInv, Dispatch!LeaderHoldsKey, Dispatch!Leading

\* A step of a replica's own loop: its lock is not touched.
LEMMA OwnLoop ==
  ASSUME LeaderInv, NEW r \in Replicas, NEW x \in ReplicaRows, replica' = [replica EXCEPT ![r] = x], key' = key,
         x.late = replica[r].late, Dispatch!Leading(r) \/ x.at \in {"follower", "down"}
  PROVE  LeaderInv'
<1>1. Leads(x) => key = r
  BY DEF Leads, LeaderInv, Dispatch!LeaderHoldsKey, Dispatch!Leading
<1> QED BY <1>1, OneReplica

LEMMA Rows ==
  ASSUME NEW x \in ReplicaRows
  PROVE  /\ x.late \in BOOLEAN /\ x.signal \in BOOLEAN /\ x.at \in Places
         /\ \A a \in Places : [x EXCEPT !.at = a] \in ReplicaRows /\ [x EXCEPT !.at = a].at = a
                              /\ [x EXCEPT !.at = a].late = x.late
         /\ \A v \in BOOLEAN : [x EXCEPT !.signal = v] \in ReplicaRows /\ [x EXCEPT !.signal = v].at = x.at
                               /\ [x EXCEPT !.signal = v].late = x.late
         /\ \A v \in BOOLEAN : [x EXCEPT !.prepared = v] \in ReplicaRows /\ [x EXCEPT !.prepared = v].at = x.at
                               /\ [x EXCEPT !.prepared = v].late = x.late
         /\ \A v \in BOOLEAN : [x EXCEPT !.processed = v] \in ReplicaRows /\ [x EXCEPT !.processed = v].at = x.at
                               /\ [x EXCEPT !.processed = v].late = x.late
         /\ \A v \in BOOLEAN : [x EXCEPT !.late = v] \in ReplicaRows /\ [x EXCEPT !.late = v].at = x.at
                               /\ [x EXCEPT !.late = v].late = v
         /\ \A h \in {"no", "lost", "stop"} : [x EXCEPT !.halt = h] \in ReplicaRows /\ [x EXCEPT !.halt = h].at = x.at
                               /\ [x EXCEPT !.halt = h].late = x.late
         /\ \A B \in SUBSET Destinations : [x EXCEPT !.batch = B] \in ReplicaRows /\ [x EXCEPT !.batch = B].at = x.at
                               /\ [x EXCEPT !.batch = B].late = x.late
BY DEF ReplicaRows, Places

LEMMA Resting ==
  /\ \A v \in BOOLEAN : Dispatch!Follower(v) \in ReplicaRows /\ Dispatch!Follower(v).at = "follower"
                        /\ Dispatch!Follower(v).late = FALSE
  /\ [Dispatch!Follower(FALSE) EXCEPT !.at = "down"] \in ReplicaRows
  /\ [Dispatch!Follower(FALSE) EXCEPT !.at = "down"].at = "down"
BY DEF Dispatch!Follower, ReplicaRows, Places


LEMMA AcquireLock ==
  ASSUME LeaderInv, NEW r \in Replicas, Dispatch!Acquire(r), Free \notin Replicas
  PROVE  LeaderInv'
<1>1. key = Free /\ replica[r] \in ReplicaRows
  BY DEF Dispatch!Acquire, LeaderInv
<1>2. CASE key' = r /\ replica' = [replica EXCEPT ![r].at = "poll", ![r].late = FALSE, ![r].prepared = FALSE]
  <2> DEFINE x == [replica[r] EXCEPT !.at = "poll", !.late = FALSE, !.prepared = FALSE]
  <2>1. x \in ReplicaRows
    BY <1>1 DEF ReplicaRows, Places
  <2>2. replica' = [replica EXCEPT ![r] = x]
    BY <1>2 DEF LeaderInv
  <2> HIDE DEF x
  <2> QED BY <1>1, <1>2, <2>1, <2>2, OneReplica
<1>3. CASE key' = Unknown /\ UNCHANGED replica
  BY <1>1, <1>3 DEF LeaderInv, Dispatch!LeaderHoldsKey, Dispatch!Leading
<1> QED BY <1>2, <1>3 DEF Dispatch!Acquire

LEMMA RenewLock ==
  ASSUME LeaderInv, NEW r \in Replicas, Dispatch!Renew(r)
  PROVE  LeaderInv'
<1> DEFINE x == [replica[r] EXCEPT !.halt = "lost"]
<1>1. replica[r] \in ReplicaRows
  BY DEF LeaderInv
<1>2. x \in ReplicaRows /\ x.late = replica[r].late
  BY <1>1, Rows
<1>3. replica' = [replica EXCEPT ![r] = x] /\ key' = key /\ Dispatch!Leading(r)
  BY DEF LeaderInv, Dispatch!Renew
<1> HIDE DEF x
<1> QED BY <1>2, <1>3, OwnLoop

LEMMA ExpireLock ==
  ASSUME LeaderInv, Dispatch!Expire, Free \notin Replicas, Unknown \notin Replicas
  PROVE  LeaderInv'
<1>1. CASE key = Unknown /\ UNCHANGED replica
  BY <1>1 DEF LeaderInv, Dispatch!LeaderHoldsKey, Dispatch!Leading
<1>2. CASE key \in Replicas /\ replica' = [replica EXCEPT ![key].late = TRUE]
  <2> PICK r \in Replicas : r = key
    BY <1>2
  <2> DEFINE x == [replica[r] EXCEPT !.late = TRUE]
  <2>1. replica[r] \in ReplicaRows
    BY DEF LeaderInv
  <2>2. x \in ReplicaRows /\ x.late = TRUE
    BY <2>1, Rows
  <2>3. replica' = [replica EXCEPT ![r] = x]
    BY <1>2 DEF LeaderInv
  <2> HIDE DEF x
  <2> QED BY <2>2, <2>3, OneReplica DEF Leads
<1> QED BY <1>1, <1>2 DEF Dispatch!Expire

\* A replica that rests: at rest it leads nothing, whatever the key is.
LEMMA Rests ==
  ASSUME LeaderInv, NEW r \in Replicas, NEW x \in ReplicaRows, x.at \in {"follower", "down"},
         replica' = [replica EXCEPT ![r] = x], key = r \/ key' = key
  PROVE  LeaderInv'
<1>1. ~Leads(x)
  BY DEF Leads
<1> QED BY <1>1, OneReplica

LEMMA ReleaseLock ==
  ASSUME LeaderInv, NEW r \in Replicas, Dispatch!Release(r)
  PROVE  LeaderInv'
<1> DEFINE x == IF replica[r].halt = "stop" THEN [Dispatch!Follower(FALSE) EXCEPT !.at = "down"]
                ELSE Dispatch!Follower(replica[r].signal)
<1>1. replica[r] \in ReplicaRows /\ replica[r].signal \in BOOLEAN
  BY Rows DEF LeaderInv
<1>2. x \in ReplicaRows /\ x.at \in {"follower", "down"}
  BY <1>1, Resting
<1>3. replica' = [replica EXCEPT ![r] = x] /\ (key = r \/ key' = key)
  BY DEF LeaderInv, Dispatch!Release
<1> HIDE DEF x
<1> QED BY <1>2, <1>3, Rests

LEMMA StopsReplica ==
  ASSUME LeaderInv, NEW r \in Replicas, Dispatch!Shutdown(r) \/ Dispatch!Crash(r)
  PROVE  LeaderInv'
<1> DEFINE down == [Dispatch!Follower(FALSE) EXCEPT !.at = "down"]
<1>1. replica[r] \in ReplicaRows
  BY DEF LeaderInv
<1>2. CASE Dispatch!Crash(r)
  <2>1. replica' = [replica EXCEPT ![r] = down] /\ (key = r \/ key' = key)
    BY <1>2 DEF Dispatch!Crash
  <2>2. down \in ReplicaRows /\ down.at = "down"
    BY Resting
  <2> HIDE DEF down
  <2> QED BY <2>1, <2>2, Rests
<1>3. CASE Dispatch!Shutdown(r) /\ replica[r].at = "follower"
  <2>1. replica' = [replica EXCEPT ![r] = down] /\ key' = key
    BY <1>3 DEF Dispatch!Shutdown, LeaderInv
  <2>2. down \in ReplicaRows /\ down.at = "down"
    BY Resting
  <2> HIDE DEF down
  <2> QED BY <2>1, <2>2, Rests
<1>4. CASE Dispatch!Shutdown(r) /\ replica[r].at # "follower"
  <2> DEFINE x == [replica[r] EXCEPT !.halt = "stop"]
  <2>1. x \in ReplicaRows /\ x.late = replica[r].late
    BY <1>1, Rows
  <2>2. replica' = [replica EXCEPT ![r] = x] /\ key' = key /\ Dispatch!Leading(r)
    BY <1>4 DEF Dispatch!Shutdown, LeaderInv, Dispatch!Leading
  <2> HIDE DEF x
  <2> QED BY <2>1, <2>2, OwnLoop
<1> QED BY <1>2, <1>3, <1>4


\* Notifications change no leader.
LEMMA Told ==
  ASSUME LeaderInv
  PROVE  /\ Dispatch!Notified(replica) \in [Replicas -> ReplicaRows]
         /\ \A s \in Replicas : /\ Dispatch!Notified(replica)[s].at = replica[s].at
                                /\ Dispatch!Notified(replica)[s].late = replica[s].late
<1>1. ASSUME NEW s \in Replicas
      PROVE  /\ Dispatch!Notified(replica)[s] \in ReplicaRows
             /\ Dispatch!Notified(replica)[s].at = replica[s].at
             /\ Dispatch!Notified(replica)[s].late = replica[s].late
  <2>1. replica[s] \in ReplicaRows
    BY DEF LeaderInv
  <2>2. Dispatch!Notified(replica)[s] = replica[s] \/ Dispatch!Notified(replica)[s] = [replica[s] EXCEPT !.signal = TRUE]
    BY DEF Dispatch!Notified
  <2> DEFINE y == [replica[s] EXCEPT !.signal = TRUE]
  <2>3. y \in ReplicaRows /\ y.at = replica[s].at /\ y.late = replica[s].late
    BY <2>1 DEF ReplicaRows
  <2> HIDE DEF y
  <2> QED BY <2>1, <2>2, <2>3 DEF y
<1> QED BY <1>1 DEF Dispatch!Notified

LEMMA SameLeaders ==
  ASSUME LeaderInv, replica' \in [Replicas -> ReplicaRows], key' = key,
         \A s \in Replicas : /\ replica'[s].late = replica[s].late
                             /\ replica'[s].at = replica[s].at \/ Dispatch!Leading(s)
  PROVE  LeaderInv'
BY DEF LeaderInv, Dispatch!LeaderHoldsKey, Dispatch!Leading

LEMMA AddStep ==
  ASSUME LeaderInv, Dispatch!Add
  PROVE  LeaderInv'
<1>1. key' = key /\ (replica' = replica \/ replica' = Dispatch!Notified(replica))
  BY DEF Dispatch!Add
<1>2. replica \in [Replicas -> ReplicaRows]
  BY DEF LeaderInv
<1> QED BY <1>1, <1>2, Told, SameLeaders

LEMMA PrepareStep ==
  ASSUME LeaderInv, NEW r \in Replicas, Dispatch!Prepare(r)
  PROVE  LeaderInv'
<1>1. PICK told \in {replica, Dispatch!Notified(replica)} :
        replica' = [told EXCEPT ![r].at = "claim", ![r].prepared = TRUE]
  BY DEF Dispatch!Prepare
<1>2. key' = key /\ Dispatch!Leading(r)
  BY DEF Dispatch!Prepare, Dispatch!Leading
<1>3. /\ told \in [Replicas -> ReplicaRows]
      /\ \A s \in Replicas : told[s].at = replica[s].at /\ told[s].late = replica[s].late
  BY Told DEF LeaderInv
<1> DEFINE x == [told[r] EXCEPT !.at = "claim", !.prepared = TRUE]
<1>4. x \in ReplicaRows /\ x.late = told[r].late
  <2>1. told[r] \in ReplicaRows
    BY <1>3
  <2> QED BY <2>1 DEF ReplicaRows, Places
<1>5. replica' = [told EXCEPT ![r] = x]
  BY <1>1, <1>3
<1> HIDE DEF x
<1>6. /\ replica' \in [Replicas -> ReplicaRows] /\ replica'[r] = x
      /\ \A s \in Replicas : s # r => replica'[s] = told[s]
  BY <1>3, <1>4, <1>5
<1>7. ASSUME NEW s \in Replicas
      PROVE  replica'[s].late = replica[s].late /\ (replica'[s].at = replica[s].at \/ Dispatch!Leading(s))
  BY <1>2, <1>3, <1>4, <1>6
<1> QED BY <1>2, <1>6, <1>7, SameLeaders

\* The steps in which a leader goes to another place, or a replica restarts.
LEMMA Moves ==
  ASSUME LeaderInv, NEW r \in Replicas, NEW a \in Places, Dispatch!Move(r, a), key' = key,
         Dispatch!Leading(r) \/ a = "follower"
  PROVE  LeaderInv'
<1> DEFINE x == [replica[r] EXCEPT !.at = a]
<1>1. replica[r] \in ReplicaRows
  BY DEF LeaderInv
<1>2. x \in ReplicaRows /\ x.late = replica[r].late /\ x.at = a
  BY <1>1 DEF ReplicaRows
<1>3. replica' = [replica EXCEPT ![r] = x]
  BY DEF LeaderInv, Dispatch!Move
<1> HIDE DEF x
<1> QED BY <1>2, <1>3, OwnLoop

LEMMA AgesStep ==
  ASSUME LeaderInv, NEW r \in Replicas, Dispatch!PreparationAges(r)
  PROVE  LeaderInv'
<1> DEFINE x == [replica[r] EXCEPT !.prepared = FALSE]
<1>1. replica[r] \in ReplicaRows
  BY DEF LeaderInv
<1>2. x \in ReplicaRows /\ x.late = replica[r].late /\ x.at = replica[r].at
  BY <1>1, Rows
<1>3. replica' = [replica EXCEPT ![r] = x] /\ key' = key
  BY DEF LeaderInv, Dispatch!PreparationAges
<1> HIDE DEF x
<1>4. replica' \in [Replicas -> ReplicaRows] /\ replica'[r] = x /\ \A s \in Replicas : s # r => replica'[s] = replica[s]
  BY <1>2, <1>3 DEF LeaderInv
<1>5. \A s \in Replicas : replica'[s].late = replica[s].late /\ replica'[s].at = replica[s].at
  BY <1>2, <1>4
<1> QED BY <1>3, <1>4, <1>5, SameLeaders

LEMMA ClaimStep ==
  ASSUME LeaderInv, NEW r \in Replicas, Dispatch!Claim(r)
  PROVE  LeaderInv'
<1>1. key' = key /\ Dispatch!Leading(r) /\ replica[r] \in ReplicaRows
  BY DEF Dispatch!Claim, Dispatch!Leading, LeaderInv
<1>2. CASE Dispatch!Move(r, "backoff")
  BY <1>1, <1>2, Moves DEF Places
<1>3. ASSUME NEW B \in SUBSET Destinations,
             replica' = [replica EXCEPT ![r].at = "batch", ![r].batch = B, ![r].processed = FALSE]
      PROVE  LeaderInv'
  <2> DEFINE x == [replica[r] EXCEPT !.at = "batch", !.batch = B, !.processed = FALSE]
  <2>1. x \in ReplicaRows /\ x.late = replica[r].late
    BY <1>1 DEF ReplicaRows, Places
  <2>2. replica' = [replica EXCEPT ![r] = x]
    BY <1>3 DEF LeaderInv
  <2> HIDE DEF x
  <2> QED BY <1>1, <2>1, <2>2, OwnLoop
<1>4. Dispatch!Move(r, "backoff") \/ \E B \in SUBSET Destinations :
        replica' = [replica EXCEPT ![r].at = "batch", ![r].batch = B, ![r].processed = FALSE]
  BY DEF Dispatch!Claim
<1> QED BY <1>2, <1>3, <1>4

LEMMA BatchStep ==
  ASSUME LeaderInv, NEW r \in Replicas, Dispatch!StopBatch(r) \/ \E d \in Destinations : Dispatch!Send(r, d)
  PROVE  LeaderInv'
<1>1. key' = key /\ Dispatch!Leading(r) /\ replica[r] \in ReplicaRows
  BY DEF Dispatch!StopBatch, Dispatch!Send, Dispatch!Leading, LeaderInv
<1>2. ASSUME NEW a \in {"release", "backoff"}, replica' = [replica EXCEPT ![r].at = a, ![r].batch = {}]
      PROVE  LeaderInv'
  <2> DEFINE x == [replica[r] EXCEPT !.at = a, !.batch = {}]
  <2>1. x \in ReplicaRows /\ x.late = replica[r].late
    BY <1>1 DEF ReplicaRows, Places
  <2>2. replica' = [replica EXCEPT ![r] = x]
    BY <1>2 DEF LeaderInv
  <2> HIDE DEF x
  <2> QED BY <1>1, <2>1, <2>2, OwnLoop
<1>3. ASSUME NEW d \in Destinations, replica' = [replica EXCEPT ![r].batch = @ \ {d}, ![r].processed = TRUE]
      PROVE  LeaderInv'
  <2> DEFINE x == [replica[r] EXCEPT !.batch = replica[r].batch \ {d}, !.processed = TRUE]
  <2>1. x \in ReplicaRows /\ x.late = replica[r].late
    BY <1>1 DEF ReplicaRows, Places
  <2>2. replica' = [replica EXCEPT ![r] = x]
    BY <1>3 DEF LeaderInv
  <2> HIDE DEF x
  <2> QED BY <1>1, <2>1, <2>2, OwnLoop
<1>4. \/ \E a \in {"release", "backoff"} : replica' = [replica EXCEPT ![r].at = a, ![r].batch = {}]
      \/ \E d \in Destinations : replica' = [replica EXCEPT ![r].batch = @ \ {d}, ![r].processed = TRUE]
  BY DEF Dispatch!StopBatch, Dispatch!Send
<1> QED BY <1>2, <1>3, <1>4

LEMMA WaitStep ==
  ASSUME LeaderInv, NEW r \in Replicas, Dispatch!WaitForPoll(r)
  PROVE  LeaderInv'
<1>1. key' = key /\ Dispatch!Leading(r) /\ replica[r] \in ReplicaRows
  BY DEF Dispatch!WaitForPoll, Dispatch!Leading, LeaderInv
<1>2. CASE Dispatch!Move(r, "poll")
  BY <1>1, <1>2, Moves DEF Places
<1>3. CASE replica' = [replica EXCEPT ![r].at = "poll", ![r].signal = FALSE]
  <2> DEFINE x == [replica[r] EXCEPT !.at = "poll", !.signal = FALSE]
  <2>1. x \in ReplicaRows /\ x.late = replica[r].late
    BY <1>1 DEF ReplicaRows, Places
  <2>2. replica' = [replica EXCEPT ![r] = x]
    BY <1>3 DEF LeaderInv
  <2> HIDE DEF x
  <2> QED BY <1>1, <2>1, <2>2, OwnLoop
<1> QED BY <1>2, <1>3 DEF Dispatch!WaitForPoll

LEMMA LoopStep ==
  ASSUME LeaderInv, NEW r \in Replicas, Dispatch!LeavePoll(r) \/ Dispatch!EndBatch(r) \/ Dispatch!Restart(r)
  PROVE  LeaderInv'
<1>1. CASE Dispatch!LeavePoll(r)
  BY <1>1, Moves DEF Dispatch!LeavePoll, Dispatch!Leading, Places
<1>2. CASE Dispatch!EndBatch(r)
  BY <1>2, Moves DEF Dispatch!EndBatch, Dispatch!Leading, Places
<1>3. CASE Dispatch!Restart(r)
  BY <1>3, Moves DEF Dispatch!Restart, Places
<1> QED BY <1>1, <1>2, <1>3

LEMMA DispatchStep ==
  ASSUME LeaderInv, [Dispatch!Next]_dispatchVars
  PROVE  LeaderInv'
<1>1. CASE Dispatch!Add \/ Dispatch!Expire
  BY <1>1, AddStep, ExpireLock, PlatformAssumption
<1>2. CASE UNCHANGED <<key, replica>>
  BY <1>2 DEF LeaderInv, Dispatch!LeaderHoldsKey, Dispatch!Leading
<1>3. ASSUME NEW r \in Replicas,
             Dispatch!Work(r) \/ Dispatch!Renew(r) \/ Dispatch!PreparationAges(r) \/ Dispatch!Shutdown(r) \/ Dispatch!Crash(r)
      PROVE  LeaderInv'
  <2>1. CASE Dispatch!Work(r)
    BY <2>1, AcquireLock, ReleaseLock, PrepareStep, ClaimStep, BatchStep, WaitStep, LoopStep, PlatformAssumption
    DEF Dispatch!Work
  <2> QED BY <1>3, <2>1, RenewLock, AgesStep, StopsReplica
<1>4. \/ Dispatch!Add \/ Dispatch!Expire \/ UNCHANGED <<key, replica>>
      \/ \E r \in Replicas : Dispatch!Work(r) \/ Dispatch!Renew(r) \/ Dispatch!PreparationAges(r) \/ Dispatch!Shutdown(r) \/ Dispatch!Crash(r)
  BY DEF Dispatch!Next, dispatchVars, Dispatch!ClaimExpires
<1> QED BY <1>1, <1>2, <1>3, <1>4

\* For any replicas, destinations and faults: a dispatcher that leads without its own
\* key expired under it holds the key, so two such leaders are one.
THEOREM LeaderTheorem == MCSafety => []LeaderHoldsKey
<1>1. MCInit => LeaderInv
  BY Resting DEF MCInit, Dispatch!Init, LeaderInv, Dispatch!LeaderHoldsKey, Dispatch!Leading
<1>2. MCNext \/ UNCHANGED suiteVars => [Dispatch!Next]_dispatchVars
  BY DEF MCNext, BreakerPart, DispatchPart, RegistryPart, SchedulerPart, RecoveryPart, suiteVars, dispatchVars
<1>3. LeaderInv /\ [MCNext]_suiteVars => LeaderInv'
  BY <1>2, DispatchStep
<1>4. LeaderInv => LeaderHoldsKey
  BY DEF LeaderInv, LeaderHoldsKey
<1> QED BY <1>1, <1>3, <1>4, PTL DEF MCSafety

-----------------------------------------------------------------------------
(* Sums of counters *)

\* What a sum of counters is made of.
LEMMA UnitsOf ==
  ASSUME NEW h, NEW S
  PROVE  \A u : u \in Brk!Units(h, S) <=> \E x \in S : \E n \in 1 .. h[x] : u = <<x, n>>
BY DEF Brk!Units

LEMMA TotalIs ==
  ASSUME NEW h, NEW S
  PROVE  Brk!Total(h, S) = Cardinality(Brk!Units(h, S))
<1>1. Brk!Cardinality(Brk!Units(h, S)) = Cardinality(Brk!Units(h, S))
  BY DEF Brk!Cardinality, Cardinality
<1> QED BY <1>1 DEF Brk!Total

LEMMA TotalFinite ==
  ASSUME NEW S, IsFiniteSet(S), NEW h, \A x \in S : h[x] \in Nat
  PROVE  IsFiniteSet(Brk!Units(h, S)) /\ Brk!Total(h, S) \in Nat
<1> DEFINE U(x) == {x} \X (1 .. h[x])
<1> DEFINE f == [x \in S |-> U(x)]
<1> DEFINE T == {U(x) : x \in S}
<1>1. f \in Surjection(S, T)
  <2>1. f \in [S -> T] /\ \A t \in T : \E x \in S : f[x] = t
    OBVIOUS
  <2> QED BY <2>1 DEF Surjection
<1>2. IsFiniteSet(T)
  <2> HIDE DEF f, T
  <2> QED BY <1>1, FS_Surjection
<1>3. ASSUME NEW x \in S PROVE IsFiniteSet(U(x))
  <2>1. IsFiniteSet({x})
    BY FS_Singleton
  <2>2. 1 \in Int /\ h[x] \in Int
    OBVIOUS
  <2>3. IsFiniteSet(1 .. h[x])
    BY <2>2, FS_Interval
  <2> QED BY <2>1, <2>3, FS_Product
<1>4. \A t \in T : IsFiniteSet(t)
  <2> HIDE DEF U
  <2> QED BY <1>3
<1>5. IsFiniteSet(UNION T)
  <2> HIDE DEF T
  <2> QED BY <1>2, <1>4, FS_UNION
<1>6. Brk!Units(h, S) = UNION T
  BY DEF Brk!Units
<1> HIDE DEF T
<1> QED BY <1>5, <1>6, FS_CardinalityType, TotalIs

LEMMA TotalSame ==
  ASSUME NEW S, NEW h, NEW g, \A x \in S : g[x] = h[x]
  PROVE  Brk!Total(g, S) = Brk!Total(h, S)
<1>1. Brk!Units(g, S) = Brk!Units(h, S)
  BY DEF Brk!Units
<1> QED BY <1>1 DEF Brk!Total

LEMMA TotalZero ==
  ASSUME NEW S, NEW h, \A x \in S : h[x] = 0
  PROVE  Brk!Total(h, S) = 0
<1>1. \A u : u \notin Brk!Units(h, S)
  <2>1. \A n : n \notin 1 .. 0
    OBVIOUS
  <2> QED BY <2>1, UnitsOf
<1>2. Brk!Units(h, S) = {}
  BY <1>1
<1> QED BY <1>2, FS_EmptySet, TotalIs

\* Counters that hold nothing may be left out.
LEMMA TotalSkip ==
  ASSUME NEW S, NEW T \in SUBSET S, NEW h, \A x \in S \ T : h[x] = 0
  PROVE  Brk!Total(h, T) = Brk!Total(h, S)
<1>1. \A n : n \notin 1 .. 0
  OBVIOUS
<1>2. \A u : u \in Brk!Units(h, S) <=> u \in Brk!Units(h, T)
  BY <1>1, UnitsOf
<1>3. Brk!Units(h, S) = Brk!Units(h, T)
  BY <1>2
<1> QED BY <1>3 DEF Brk!Total

LEMMA TotalOneMore ==
  ASSUME NEW S, IsFiniteSet(S), NEW x \in S, NEW h, NEW g, \A y \in S : h[y] \in Nat,
         g[x] = h[x] + 1, \A y \in S \ {x} : g[y] = h[y]
  PROVE  Brk!Total(g, S) = Brk!Total(h, S) + 1
<1> DEFINE u == <<x, h[x] + 1>>
<1>1. h[x] + 1 \notin 1 .. h[x] /\ 1 .. g[x] = (1 .. h[x]) \cup {h[x] + 1}
  OBVIOUS
<1>2. u \notin Brk!Units(h, S)
  <2> SUFFICES ASSUME u \in Brk!Units(h, S) PROVE FALSE
    OBVIOUS
  <2>1. PICK y \in S : \E n \in 1 .. h[y] : u = <<y, n>>
    BY UnitsOf
  <2> QED BY <1>1, <2>1
<1>3. \A v : v \in Brk!Units(g, S) <=> v \in Brk!Units(h, S) \cup {u}
  <2>1. ASSUME NEW v \in Brk!Units(g, S) PROVE v \in Brk!Units(h, S) \cup {u}
    <3>1. PICK y \in S : \E n \in 1 .. g[y] : v = <<y, n>>
      BY UnitsOf
    <3>2. PICK n \in 1 .. g[y] : v = <<y, n>>
      BY <3>1
    <3>3. CASE y = x /\ n = h[x] + 1
      BY <3>2, <3>3
    <3>4. CASE n \in 1 .. h[y]
      BY <3>2, <3>4, UnitsOf
    <3> QED BY <1>1, <3>2, <3>3, <3>4
  <2>2. ASSUME NEW v \in Brk!Units(h, S) PROVE v \in Brk!Units(g, S)
    <3>1. PICK y \in S : \E n \in 1 .. h[y] : v = <<y, n>>
      BY UnitsOf
    <3>2. 1 .. h[y] \subseteq 1 .. g[y]
      BY <1>1
    <3> QED BY <3>1, <3>2, UnitsOf
  <2>3. u \in Brk!Units(g, S)
    <3>1. h[x] + 1 \in 1 .. g[x]
      BY <1>1
    <3> QED BY <3>1, UnitsOf
  <2> QED BY <2>1, <2>2, <2>3
<1>4. Brk!Units(g, S) = Brk!Units(h, S) \cup {u}
  BY <1>3
<1>5. IsFiniteSet(Brk!Units(h, S))
  BY TotalFinite
<1> HIDE DEF u
<1> QED BY <1>2, <1>4, <1>5, FS_AddElement, TotalIs

\* The counters may be renamed.
LEMMA TotalRenamed ==
  ASSUME NEW S, NEW T, IsFiniteSet(S), NEW f \in Bijection(S, T), NEW h, NEW g,
         \A x \in S : h[x] \in Nat /\ g[f[x]] = h[x]
  PROVE  Brk!Total(g, T) = Brk!Total(h, S)
<1> DEFINE m == [u \in Brk!Units(h, S) |-> <<f[u[1]], u[2]>>]
<1>1. /\ f \in [S -> T] /\ \A t \in T : \E x \in S : f[x] = t
      /\ \A x, y \in S : f[x] = f[y] => x = y
  BY DEF Bijection, Injection, Surjection, IsInjective
<1>2. \A u \in Brk!Units(h, S) : u[1] \in S /\ u[2] \in 1 .. h[u[1]] /\ u = <<u[1], u[2]>>
  BY UnitsOf
<1>3. \A u \in Brk!Units(h, S) : m[u] \in Brk!Units(g, T)
  <2> TAKE u \in Brk!Units(h, S)
  <2>1. f[u[1]] \in T /\ u[2] \in 1 .. g[f[u[1]]]
    BY <1>1, <1>2
  <2>2. m[u] = <<f[u[1]], u[2]>>
    OBVIOUS
  <2> HIDE DEF m
  <2> QED BY <2>1, <2>2, UnitsOf
<1>4. ASSUME NEW u \in Brk!Units(h, S), NEW v \in Brk!Units(h, S), m[u] = m[v] PROVE u = v
  <2>1. f[u[1]] = f[v[1]] /\ u[2] = v[2]
    BY <1>4
  <2> QED BY <1>1, <1>2, <2>1
<1>5. ASSUME NEW w \in Brk!Units(g, T) PROVE \E u \in Brk!Units(h, S) : m[u] = w
  <2>1. PICK t \in T : \E n \in 1 .. g[t] : w = <<t, n>>
    BY UnitsOf
  <2>2. PICK n \in 1 .. g[t] : w = <<t, n>>
    BY <2>1
  <2>3. PICK x \in S : f[x] = t
    BY <1>1
  <2>4. n \in 1 .. h[x]
    BY <2>2, <2>3
  <2>5. <<x, n>> \in Brk!Units(h, S)
    BY <2>4, UnitsOf
  <2>6. m[<<x, n>>] = w
    BY <2>2, <2>3, <2>5
  <2> QED BY <2>5, <2>6
<1>6. m \in Bijection(Brk!Units(h, S), Brk!Units(g, T))
  <2>1. m \in [Brk!Units(h, S) -> Brk!Units(g, T)]
    BY <1>3
  <2> HIDE DEF m
  <2> QED BY <1>4, <1>5, <2>1 DEF Bijection, Injection, Surjection, IsInjective
<1> HIDE DEF m
<1>7. IsFiniteSet(Brk!Units(h, S))
  BY TotalFinite
<1> QED BY <1>6, <1>7, FS_Bijection, TotalIs DEF ExistsBijection

\* Counters that each sum up a part of others sum them all up together.
LEMMA TotalGathered ==
  ASSUME NEW K, NEW A, IsFiniteSet(A), NEW h, NEW g, NEW home \in [A -> K],
         \A a \in A : g[a] \in Nat,
         NEW shares \in [K -> SUBSET A], \A k \in K : \A a \in A : a \in shares[k] <=> home[a] = k,
         \A k \in K : h[k] = Brk!Total(g, shares[k])
  PROVE  Brk!Total(h, K) = Brk!Total(g, A)
<1> DEFINE P(k) == shares[k]
<1> DEFINE B(k) == Bijection(1 .. h[k], Brk!Units(g, P(k)))
<1> DEFINE e == [k \in K |-> CHOOSE f : f \in B(k)]
<1> DEFINE m == [u \in Brk!Units(h, K) |-> e[u[1]][u[2]]]
<1>1. ASSUME NEW k \in K PROVE h[k] \in Nat /\ e[k] \in B(k)
  <2>1. P(k) \in SUBSET A /\ \A a \in P(k) : g[a] \in Nat
    OBVIOUS
  <2>2. IsFiniteSet(P(k))
    <3> HIDE DEF P
    <3> QED BY <2>1, FS_Subset
  <2>3. IsFiniteSet(Brk!Units(g, P(k)))
    <3> HIDE DEF P
    <3> QED BY <2>1, <2>2, TotalFinite
  <2>4. h[k] = Cardinality(Brk!Units(g, P(k)))
    BY TotalIs
  <2>5. h[k] \in Nat /\ ExistsBijection(1 .. h[k], Brk!Units(g, P(k)))
    <3> HIDE DEF P
    <3> QED BY <2>3, <2>4, FS_CardinalityType
  <2>6. \E f : f \in B(k)
    <3> HIDE DEF P
    <3> QED BY <2>5 DEF ExistsBijection
  <2>7. e[k] = CHOOSE f : f \in B(k)
    OBVIOUS
  <2> HIDE DEF B, e
  <2> QED BY <2>5, <2>6, <2>7
<1>2. ASSUME NEW k \in K
      PROVE  /\ \A n \in 1 .. h[k] : e[k][n] \in Brk!Units(g, P(k))
             /\ \A w \in Brk!Units(g, P(k)) : \E n \in 1 .. h[k] : e[k][n] = w
             /\ \A n, o \in 1 .. h[k] : e[k][n] = e[k][o] => n = o
  <2>1. e[k] \in B(k)
    BY <1>1
  <2> HIDE DEF e, P
  <2> QED BY <2>1 DEF Bijection, Injection, Surjection, IsInjective
<1>3. \A u \in Brk!Units(h, K) : u[1] \in K /\ u[2] \in 1 .. h[u[1]] /\ u = <<u[1], u[2]>>
  BY UnitsOf
<1>4. \A u \in Brk!Units(h, K) : m[u] = e[u[1]][u[2]]
  <2> HIDE DEF e
  <2> QED OBVIOUS
<1>5. ASSUME NEW k \in K, NEW w \in Brk!Units(g, P(k))
      PROVE  w[1] \in A /\ home[w[1]] = k /\ w \in Brk!Units(g, A)
  <2>1. PICK a \in P(k) : \E n \in 1 .. g[a] : w = <<a, n>>
    <3> HIDE DEF P
    <3> QED BY <1>5, UnitsOf
  <2>2. a \in A /\ home[a] = k /\ w[1] = a
    BY <2>1
  <2> QED BY <2>1, <2>2, UnitsOf
<1> HIDE DEF e
<1>6. \A u \in Brk!Units(h, K) : m[u] \in Brk!Units(g, P(u[1]))
  <2> HIDE DEF P, m
  <2> QED BY <1>2, <1>3, <1>4
<1> HIDE DEF m, P
<1>7. ASSUME NEW u \in Brk!Units(h, K), NEW v \in Brk!Units(h, K), m[u] = m[v] PROVE u = v
  <2>1. u[1] = v[1]
    <3>1. home[m[u][1]] = u[1] /\ home[m[v][1]] = v[1]
      BY <1>3, <1>5, <1>6
    <3> QED BY <1>7, <3>1
  <2>2. u[2] = v[2]
    BY <1>2, <1>3, <1>4, <1>7, <2>1
  <2> QED BY <1>3, <2>1, <2>2
<1>8. ASSUME NEW w \in Brk!Units(g, A) PROVE \E u \in Brk!Units(h, K) : m[u] = w
  <2>1. PICK a \in A : \E n \in 1 .. g[a] : w = <<a, n>>
    BY UnitsOf
  <2>2. home[a] \in K /\ a \in P(home[a])
    BY DEF P
  <2>3. w \in Brk!Units(g, P(home[a]))
    BY <2>1, <2>2, UnitsOf
  <2>4. PICK n \in 1 .. h[home[a]] : e[home[a]][n] = w
    BY <1>2, <2>2, <2>3
  <2>5. <<home[a], n>> \in Brk!Units(h, K)
    BY <2>2, <2>4, UnitsOf
  <2>6. m[<<home[a], n>>] = w
    BY <1>4, <2>4, <2>5
  <2> QED BY <2>5, <2>6
<1>9. m \in [Brk!Units(h, K) -> Brk!Units(g, A)]
  <2>1. m = [u \in Brk!Units(h, K) |-> m[u]]
    BY DEF m
  <2>2. \A u \in Brk!Units(h, K) : m[u] \in Brk!Units(g, A)
    BY <1>3, <1>5, <1>6
  <2> QED BY <2>1, <2>2
<1>10. m \in Bijection(Brk!Units(h, K), Brk!Units(g, A))
  BY <1>7, <1>8, <1>9 DEF Bijection, Injection, Surjection, IsInjective
<1>11. IsFiniteSet(Brk!Units(g, A)) /\ Brk!Total(g, A) = Brk!Total(h, K)
  <2>1. IsFiniteSet(Brk!Units(g, A))
    BY TotalFinite
  <2>2. ExistsBijection(Brk!Units(g, A), Brk!Units(h, K))
    <3>1. ExistsBijection(Brk!Units(h, K), Brk!Units(g, A))
      BY <1>10 DEF ExistsBijection
    <3> QED BY <3>1, Fun_ExistsBijSymmetric
  <2> QED BY <2>1, <2>2, FS_Bijection, TotalIs
<1> QED BY <1>11

-----------------------------------------------------------------------------
(* Facts of arithmetic *)

LEMMA Scaled ==
  ASSUME NEW j \in Int, NEW k \in Int, NEW w \in Nat
  PROVE  /\ j * w \in Int /\ (j + k) * w = j * w + k * w /\ (j - k) * w = j * w - k * w
         /\ j <= k => j * w <= k * w
         /\ j < k => j * w + w <= k * w
<1>1. j * w \in Int /\ k * w \in Int /\ (j + k) * w = j * w + k * w /\ (j - k) * w = j * w - k * w
  OBVIOUS
<1>2. ASSUME NEW i \in Int, i <= k PROVE i * w <= k * w
  <2>1. k - i \in Nat /\ (k - i) * w = k * w - i * w
    BY <1>2
  <2>2. (k - i) * w \in Nat
    BY <2>1
  <2>3. i * w \in Int
    OBVIOUS
  <2> QED BY <1>1, <2>1, <2>2, <2>3
<1>3. j < k => j * w + w <= k * w
  <2> SUFFICES ASSUME j < k PROVE j * w + w <= k * w
    OBVIOUS
  <2>1. (j + 1) * w = j * w + w
    OBVIOUS
  <2> QED BY <1>2, <2>1
<1> QED BY <1>1, <1>2, <1>3

LEMMA Divided ==
  ASSUME NEW x \in Nat, NEW w \in Nat \ {0}
  PROVE  x \div w \in Nat /\ (x \div w) * w <= x /\ x < (x \div w) * w + w
<1>1. x \div w \in Nat /\ x = (x \div w) * w + (x % w) /\ x % w \in 0 .. w - 1
  OBVIOUS
<1>2. (x \div w) * w \in Nat
  BY <1>1
<1> QED BY <1>1, <1>2

\* A cursor goes around a ring once.
LEMMA Around ==
  ASSUME NEW n \in Nat \ {0}, NEW x \in 0 .. 2 * n - 1
  PROVE  x % n = IF x < n THEN x ELSE x - n
OBVIOUS

LEMMA SpanFacts ==
  /\ Buckets \in Nat \ {0} /\ Brk!Width \in Nat \ {0}
  /\ Brk!Span = Buckets * Brk!Width /\ Brk!Span \in Nat /\ Brk!Width <= Brk!Span
  /\ 0 \in Brk!Ages /\ 0 \in Brk!Slots /\ IsFiniteSet(Brk!Ages)
<1>1. Buckets \in Nat \ {0} /\ Brk!Width \in Nat \ {0}
  <2>1. Window \div Buckets \in Int
    BY PlatformAssumption
  <2> QED BY <2>1, PlatformAssumption DEF Brk!Width
<1>2. Brk!Span = Buckets * Brk!Width
  BY DEF Brk!Span
<1>3. Brk!Span \in Int /\ 1 * Brk!Width <= Buckets * Brk!Width
  BY <1>1, <1>2, Scaled
<1>4. Brk!Span \in Nat /\ Brk!Width <= Brk!Span
  BY <1>1, <1>2, <1>3
<1>5. 0 \in Brk!Ages /\ 0 \in Brk!Slots
  BY <1>1, <1>4 DEF Brk!Ages, Brk!Slots
<1>6. 0 \in Int /\ Brk!Span - 1 \in Int
  BY <1>4
<1>7. IsFiniteSet(Brk!Ages)
  BY <1>6, FS_Interval DEF Brk!Ages
<1> QED BY <1>1, <1>2, <1>4, <1>5, <1>7

-----------------------------------------------------------------------------
(* The breaker's ring of buckets *)

Breakers ==
  [state : {"closed", "open", "half_open"},
   buckets : [Brk!Slots -> [successes : Nat, failures : Nat]], cursor : Brk!Slots, age : 0 .. Brk!Span,
   openAge : 0 .. OpenTimeout, probesInFlight : 0 .. HalfOpenProbes,
   probeSuccesses : 0 .. HalfOpenProbes - 1, log : [BOOLEAN -> [Brk!Ages -> Nat]]]

\* How many buckets the cursor is ahead of slot i.
Back(r, i) == IF i <= r.cursor THEN r.cursor - i ELSE r.cursor - i + Buckets

\* How long ago slot i began, and the ages that it stands for.
Began(r, i) == r.age + Back(r, i) * Brk!Width
Interval(began) == {a \in Brk!Ages : began - Brk!Width < a /\ a <= began}

Held(r, i, ok) == IF ok THEN r.buckets[i].successes ELSE r.buckets[i].failures

\* No outcome is younger than the current bucket, and a bucket whose interval is not
\* over holds what was recorded in it.
RingInv(r) ==
  /\ \A ok \in BOOLEAN, a \in Brk!Ages : r.log[ok][a] # 0 => a > r.age - Brk!Width
  /\ \A ok \in BOOLEAN, i \in Brk!Slots :
       Began(r, i) < Brk!Span =>
         Held(r, i, ok) = Brk!Total(r.log[ok], Interval(Began(r, i)))

LEMMA BackFacts ==
  ASSUME NEW r \in Breakers, NEW i \in Brk!Slots
  PROVE  /\ Back(r, i) \in 0 .. Buckets - 1 /\ Back(r, i) * Brk!Width \in Nat
         /\ Back(r, i) = 0 <=> i = r.cursor
         /\ Back(r, i) * Brk!Width <= Brk!Span - Brk!Width
         /\ Began(r, i) \in Nat
<1>1. Back(r, i) \in 0 .. Buckets - 1 /\ (Back(r, i) = 0 <=> i = r.cursor)
  <2>1. r.cursor \in 0 .. Buckets - 1 /\ i \in 0 .. Buckets - 1
    BY DEF Breakers, Brk!Slots
  <2> QED BY <2>1, SpanFacts DEF Back
<1>2. Back(r, i) * Brk!Width + Brk!Width <= Buckets * Brk!Width /\ Back(r, i) * Brk!Width \in Int
      /\ 0 * Brk!Width <= Back(r, i) * Brk!Width
  BY <1>1, SpanFacts, Scaled
<1>3. r.age \in Nat
  BY SpanFacts DEF Breakers
<1> QED BY <1>1, <1>2, <1>3, SpanFacts DEF Began

LEMMA IntervalFinite ==
  ASSUME NEW e
  PROVE  Interval(e) \in SUBSET Brk!Ages /\ IsFiniteSet(Interval(e))
<1>1. Interval(e) \in SUBSET Brk!Ages
  BY DEF Interval
<1> QED BY <1>1, SpanFacts, FS_Subset

\* Buckets that were emptied just now.
LEMMA EmptyRing ==
  ASSUME NEW r \in Breakers, r.buckets = Brk!NoOutcomes, r.age = 0,
         \A ok \in BOOLEAN, a \in Brk!Ages : r.log[ok][a] # 0 => a > Brk!Span - Brk!Width
  PROVE  RingInv(r)
<1>1. ASSUME NEW ok \in BOOLEAN, NEW a \in Brk!Ages, r.log[ok][a] # 0 PROVE a > r.age - Brk!Width
  <2>1. a \in Int /\ a > Brk!Span - Brk!Width
    BY <1>1, SpanFacts DEF Brk!Ages
  <2> QED BY <2>1, SpanFacts
<1>2. ASSUME NEW ok \in BOOLEAN, NEW i \in Brk!Slots
      PROVE  Held(r, i, ok) = Brk!Total(r.log[ok], Interval(Began(r, i)))
  <2>1. Held(r, i, ok) = 0
    BY DEF Held, Brk!NoOutcomes
  <2>2. ASSUME NEW a \in Interval(Began(r, i)) PROVE r.log[ok][a] = 0
    <3>1. a \in Brk!Ages /\ a <= Back(r, i) * Brk!Width
      BY BackFacts DEF Interval, Began
    <3>2. a \in Int /\ a <= Brk!Span - Brk!Width
      BY <3>1, BackFacts, SpanFacts DEF Brk!Ages
    <3> QED BY <3>1, <3>2, SpanFacts
  <2> QED BY <2>1, <2>2, TotalZero
<1> QED BY <1>1, <1>2 DEF RingInv

\* The same buckets and log.
LEMMA SameRing ==
  ASSUME NEW r \in Breakers, NEW q \in Breakers, RingInv(r),
         q.buckets = r.buckets, q.cursor = r.cursor, q.age = r.age, q.log = r.log
  PROVE  RingInv(q)
BY DEF RingInv, Held, Back, Began

LEMMA JumpedRing ==
  ASSUME NEW r \in Breakers, RingInv(r), r.age \div Brk!Width >= Buckets
  PROVE  Brk!Slid(r) \in Breakers /\ RingInv(Brk!Slid(r)) /\ Brk!Slid(r).age < Brk!Width
<1> DEFINE q == [r EXCEPT !.buckets = Brk!NoOutcomes, !.cursor = 0, !.age = 0]
<1>1. Brk!Slid(r) = q
  BY DEF Brk!Slid
<1>2. /\ q \in Breakers /\ q.buckets = Brk!NoOutcomes /\ q.age = 0 /\ q.log = r.log
  <2>1. Brk!NoOutcomes \in [Brk!Slots -> [successes : Nat, failures : Nat]]
    BY DEF Brk!NoOutcomes
  <2>2. 0 \in Brk!Slots /\ 0 \in 0 .. Brk!Span
    BY SpanFacts
  <2> QED BY <2>1, <2>2 DEF Breakers
<1>3. r.age \in Int /\ r.age >= Brk!Span
  <2>1. r.age \in Nat
    BY SpanFacts DEF Breakers
  <2>2. r.age \div Brk!Width \in Nat /\ (r.age \div Brk!Width) * Brk!Width <= r.age
    BY <2>1, SpanFacts, Divided
  <2>3. Buckets * Brk!Width <= (r.age \div Brk!Width) * Brk!Width /\ (r.age \div Brk!Width) * Brk!Width \in Int
    BY <2>2, SpanFacts, Scaled
  <2> QED BY <2>1, <2>2, <2>3, SpanFacts
<1>4. ASSUME NEW ok \in BOOLEAN, NEW a \in Brk!Ages, q.log[ok][a] # 0 PROVE a > Brk!Span - Brk!Width
  <2>1. a \in Int /\ a > r.age - Brk!Width
    BY <1>2, <1>4, SpanFacts DEF RingInv, Brk!Ages
  <2> QED BY <1>3, <2>1, SpanFacts
<1> HIDE DEF q
<1>5. RingInv(q)
  BY <1>2, <1>4, EmptyRing
<1> QED BY <1>1, <1>2, <1>5, SpanFacts

\* Where a slot is after the cursor went on.
LEMMA PassedSlots ==
  ASSUME NEW r \in Breakers, NEW steps \in 0 .. Buckets - 1, NEW i \in Brk!Slots,
         NEW q \in Breakers, q.cursor = (r.cursor + steps) % Buckets
  PROVE  LET passed == {(r.cursor + j) % Buckets : j \in 1 .. steps}
         IN  /\ i \in passed => Back(q, i) = Back(r, i) + steps - Buckets
             /\ i \notin passed => Back(q, i) = Back(r, i) + steps
<1> DEFINE c == r.cursor
<1>1. c \in 0 .. Buckets - 1 /\ i \in 0 .. Buckets - 1 /\ Buckets \in Nat \ {0}
  BY SpanFacts DEF Breakers, Brk!Slots
<1>2. \A j \in 0 .. steps : (c + j) % Buckets = IF c + j < Buckets THEN c + j ELSE c + j - Buckets
  <2> TAKE j \in 0 .. steps
  <2>1. PICK x \in 0 .. 2 * Buckets - 1 : x = c + j
    <3> HIDE DEF c
    <3> QED BY <1>1
  <2>2. x % Buckets = IF x < Buckets THEN x ELSE x - Buckets
    BY <1>1, Around
  <2> HIDE DEF c
  <2> QED BY <1>1, <2>1, <2>2
<1>3. q.cursor = IF c + steps < Buckets THEN c + steps ELSE c + steps - Buckets
  <2>1. steps \in 0 .. steps
    OBVIOUS
  <2> QED BY <1>2, <2>1
<1>4. Back(r, i) = (IF i <= c THEN c - i ELSE c - i + Buckets)
  BY DEF Back
<1>5. Back(q, i) = (IF i <= q.cursor THEN q.cursor - i ELSE q.cursor - i + Buckets)
  BY DEF Back
<1>6. CASE \E j \in 1 .. steps : i = (c + j) % Buckets
  <2>1. PICK j \in 1 .. steps : i = (c + j) % Buckets
    BY <1>6
  <2>2. i = IF c + j < Buckets THEN c + j ELSE c + j - Buckets
    BY <1>2, <2>1
  <2> HIDE DEF c
  <2>3. Back(q, i) = Back(r, i) + steps - Buckets
    BY <1>1, <1>3, <1>4, <1>5, <2>2
  <2> QED BY <1>6, <2>3 DEF c
<1>7. CASE ~\E j \in 1 .. steps : i = (c + j) % Buckets
  <2> DEFINE d == IF i > c THEN i - c ELSE i - c + Buckets
  <2>1. d \in 1 .. Buckets /\ (d <= steps => i = IF c + d < Buckets THEN c + d ELSE c + d - Buckets)
    BY <1>1
  <2>2. d > steps
    <3> SUFFICES ASSUME d <= steps PROVE FALSE
      BY <2>1
    <3>1. d \in 1 .. steps /\ d \in 0 .. steps
      BY <2>1
    <3>2. i = (c + d) % Buckets
      BY <1>2, <2>1, <3>1
    <3> HIDE DEF c, d
    <3> QED BY <1>7, <3>1, <3>2
  <2>3. Back(q, i) = Back(r, i) + steps
    <3> HIDE DEF c
    <3> QED BY <1>1, <1>3, <1>4, <1>5, <2>1, <2>2
  <2> QED BY <1>7, <2>3
<1> QED BY <1>6, <1>7

LEMMA SteppedRing ==
  ASSUME NEW r \in Breakers, RingInv(r), r.age \div Brk!Width < Buckets
  PROVE  Brk!Slid(r) \in Breakers /\ RingInv(Brk!Slid(r)) /\ Brk!Slid(r).age < Brk!Width
<1> DEFINE w == Brk!Width
<1> DEFINE steps == r.age \div w
<1> DEFINE passed == {(r.cursor + j) % Buckets : j \in 1 .. steps}
<1> DEFINE kept == [i \in Brk!Slots |-> IF i \in passed THEN Brk!NoOutcomes[i] ELSE r.buckets[i]]
<1> DEFINE q == [r EXCEPT !.buckets = kept, !.cursor = (r.cursor + steps) % Buckets, !.age = r.age - steps * w]
<1>1. steps \in Nat /\ steps * w <= r.age /\ r.age < steps * w + w /\ steps * w \in Nat /\ r.age \in 0 .. Brk!Span
  <2>1. r.age \in Nat /\ r.age \in 0 .. Brk!Span
    BY SpanFacts DEF Breakers
  <2> QED BY <2>1, SpanFacts, Divided
<1>2. Brk!Slid(r) = q
  <2>1. ~(steps >= Buckets)
    BY <1>1, SpanFacts
  <2> QED BY <2>1 DEF Brk!Slid
<1>3. kept \in [Brk!Slots -> [successes : Nat, failures : Nat]]
  BY DEF Breakers, Brk!NoOutcomes
<1>4. (r.cursor + steps) % Buckets \in Brk!Slots /\ r.age - steps * w \in 0 .. Brk!Span
  <2>1. (r.cursor + steps) % Buckets \in 0 .. Buckets - 1
    <3> DEFINE x == r.cursor + steps
    <3>1. r.cursor \in 0 .. Buckets - 1
      BY DEF Breakers, Brk!Slots
    <3> HIDE DEF steps
    <3>2. x \in Nat
      BY <1>1, <3>1, SpanFacts
    <3> HIDE DEF x
    <3>3. x % Buckets \in 0 .. Buckets - 1
      BY <3>2, SpanFacts
    <3> QED BY <3>3 DEF x
  <2>2. r.age - steps * w \in 0 .. Brk!Span
    <3> HIDE DEF steps
    <3> QED BY <1>1, SpanFacts
  <2> QED BY <2>1, <2>2 DEF Brk!Slots
<1>5. /\ q \in Breakers /\ q.buckets = kept /\ q.cursor = (r.cursor + steps) % Buckets
      /\ q.age = r.age - steps * w /\ q.log = r.log
  <2> HIDE DEF kept, steps, w
  <2> QED BY <1>3, <1>4 DEF Breakers
<1> HIDE DEF q
<1>6. q.age < w
  <2> HIDE DEF steps
  <2> QED BY <1>1, <1>5, SpanFacts
<1>7. steps \in 0 .. Buckets - 1
  BY <1>1, SpanFacts
<1>8. \A i \in Brk!Slots : /\ i \in passed => Back(q, i) = Back(r, i) + steps - Buckets
                           /\ i \notin passed => Back(q, i) = Back(r, i) + steps
  <2> HIDE DEF steps
  <2> QED BY <1>5, <1>7, PassedSlots
<1>9. \A i \in Brk!Slots : /\ Back(r, i) \in 0 .. Buckets - 1 /\ Back(r, i) * w \in Nat
                           /\ Back(q, i) \in 0 .. Buckets - 1 /\ Back(q, i) * w \in Nat
  BY <1>5, BackFacts
<1>10. ASSUME NEW ok \in BOOLEAN, NEW a \in Brk!Ages, q.log[ok][a] # 0 PROVE a > q.age - w
  <2>1. a \in Nat
    BY SpanFacts DEF Brk!Ages
  <2> QED BY <1>6, <2>1, <1>1, <1>5, SpanFacts
<1>11. ASSUME NEW ok \in BOOLEAN, NEW i \in Brk!Slots, i \notin passed, Began(q, i) < Brk!Span
       PROVE  Held(q, i, ok) = Brk!Total(q.log[ok], Interval(Began(q, i)))
  <2>1. Back(q, i) * w = Back(r, i) * w + steps * w
    <3>1. Back(q, i) = Back(r, i) + steps
      BY <1>8, <1>11
    <3> HIDE DEF steps, w
    <3> QED BY <3>1, <1>1, <1>9, SpanFacts, Scaled DEF w
  <2>2. Began(q, i) = Began(r, i)
    <3> HIDE DEF steps
    <3> QED BY <1>1, <1>5, <1>9, <2>1, SpanFacts DEF Began
  <2>4. Held(q, i, ok) = Held(r, i, ok)
    <3>1. q.buckets[i] = r.buckets[i]
      BY <1>5, <1>11
    <3> QED BY <3>1 DEF Held
  <2> QED BY <1>5, <1>11, <2>2, <2>4 DEF RingInv
<1>12. ASSUME NEW ok \in BOOLEAN, NEW i \in Brk!Slots, i \in passed
       PROVE  Held(q, i, ok) = Brk!Total(q.log[ok], Interval(Began(q, i)))
  <2>1. Held(q, i, ok) = 0
    <3>1. q.buckets[i] = Brk!NoOutcomes[i]
      BY <1>5, <1>12
    <3> QED BY <3>1 DEF Held, Brk!NoOutcomes
  <2>2. q.age + Back(q, i) * w <= r.age - w
    <3>1. Back(q, i) < steps
      <4>1. Back(q, i) = Back(r, i) + steps - Buckets
        BY <1>8, <1>12
      <4> HIDE DEF steps
      <4> QED BY <1>1, <1>9, <4>1, SpanFacts
    <3>2. Back(q, i) * w + w <= steps * w
      <4> HIDE DEF steps
      <4> QED BY <3>1, <1>1, <1>9, SpanFacts, Scaled
    <3> HIDE DEF steps
    <3> QED BY <3>2, <1>1, <1>5, <1>9, SpanFacts
  <2>3. ASSUME NEW a \in Interval(Began(q, i)) PROVE q.log[ok][a] = 0
    <3>1. a \in Brk!Ages /\ a <= q.age + Back(q, i) * w
      BY DEF Interval, Began
    <3>2. a \in Int /\ ~(a > r.age - w)
      <4>1. a \in Int
        BY <3>1, SpanFacts DEF Brk!Ages
      <4>2. q.age + Back(q, i) * w \in Int /\ r.age - w \in Int
        BY <1>1, <1>5, <1>9, SpanFacts
      <4> QED BY <2>2, <3>1, <4>1, <4>2
    <3> QED BY <1>5, <3>1, <3>2 DEF RingInv
  <2> QED BY <2>1, <2>3, TotalZero
<1>13. RingInv(q)
  BY <1>10, <1>11, <1>12 DEF RingInv
<1> QED BY <1>2, <1>5, <1>6, <1>13

\* advance keeps the ring.
LEMMA AdvancedRing ==
  ASSUME NEW r \in Breakers, RingInv(r)
  PROVE  Brk!Advance(r) \in Breakers /\ RingInv(Brk!Advance(r)) /\ Brk!Advance(r).age < Brk!Width
<1> DEFINE q == Brk!HalfOpened(r)
<1>1. /\ q \in Breakers /\ q.buckets = r.buckets /\ q.cursor = r.cursor /\ q.age = r.age /\ q.log = r.log
  <2>1. HalfOpenProbes \in Nat \ {0}
    BY PlatformAssumption
  <2>2. 0 \in 0 .. HalfOpenProbes /\ 0 \in 0 .. HalfOpenProbes - 1
    BY <2>1
  <2>3. CASE q = r
    BY <2>3
  <2>4. CASE q = [r EXCEPT !.state = "half_open", !.probesInFlight = 0, !.probeSuccesses = 0]
    <3> HIDE DEF q
    <3> QED BY <2>2, <2>4 DEF Breakers
  <2> QED BY <2>3, <2>4 DEF Brk!HalfOpened
<1>2. Brk!Advance(r) = Brk!Slid(q)
  BY DEF Brk!Advance
<1> HIDE DEF q
<1>3. RingInv(q)
  BY <1>1, SameRing
<1>4. q.age \div Brk!Width >= Buckets \/ q.age \div Brk!Width < Buckets
  <2>1. q.age \in Nat
    BY <1>1, SpanFacts DEF Breakers
  <2>2. q.age \div Brk!Width \in Nat
    BY <2>1, SpanFacts, Divided
  <2> QED BY <2>2, SpanFacts
<1> QED BY <1>1, <1>2, <1>3, <1>4, JumpedRing, SteppedRing

LEMMA CountedRing ==
  ASSUME NEW r \in Breakers, RingInv(r), r.age < Brk!Width, NEW ok \in BOOLEAN
  PROVE  Brk!Counted(r, ok) \in Breakers /\ RingInv(Brk!Counted(r, ok))
<1> DEFINE c == r.cursor
<1> DEFINE counted == [r.log EXCEPT ![ok] = [r.log[ok] EXCEPT ![0] = r.log[ok][0] + 1]]
<1> DEFINE slot == IF ok THEN [r.buckets[c] EXCEPT !.successes = r.buckets[c].successes + 1]
                   ELSE [r.buckets[c] EXCEPT !.failures = r.buckets[c].failures + 1]
<1> DEFINE buckets == [r.buckets EXCEPT ![c] = slot]
<1> DEFINE q == [r EXCEPT !.log = counted, !.buckets = buckets]
<1>1. /\ c \in Brk!Slots /\ r.age \in Nat /\ r.log \in [BOOLEAN -> [Brk!Ages -> Nat]]
      /\ r.buckets \in [Brk!Slots -> [successes : Nat, failures : Nat]]
  BY SpanFacts DEF Breakers
<1>2. Brk!Counted(r, ok) = q
  BY <1>1 DEF Brk!Counted, Breakers
<1>3. slot \in [successes : Nat, failures : Nat]
  BY <1>1
<1>4. buckets \in [Brk!Slots -> [successes : Nat, failures : Nat]]
  <2> HIDE DEF slot, c
  <2> QED BY <1>1, <1>3
<1>5. counted \in [BOOLEAN -> [Brk!Ages -> Nat]]
  <2>1. r.log[ok] \in [Brk!Ages -> Nat]
    BY <1>1
  <2>2. [r.log[ok] EXCEPT ![0] = r.log[ok][0] + 1] \in [Brk!Ages -> Nat]
    BY <2>1, SpanFacts
  <2> QED BY <1>1, <2>2
<1>6. q \in Breakers /\ q.cursor = c /\ q.age = r.age /\ q.log = counted /\ q.buckets = buckets
  <2> HIDE DEF counted, buckets
  <2> QED BY <1>4, <1>5 DEF Breakers
<1> HIDE DEF q
<1>7. /\ q.log[ok][0] = r.log[ok][0] + 1
      /\ \A a \in Brk!Ages : a # 0 => q.log[ok][a] = r.log[ok][a]
      /\ \A other \in BOOLEAN : other # ok => q.log[other] = r.log[other]
  BY <1>1, <1>6, SpanFacts
<1>8. /\ \A i \in Brk!Slots, other \in BOOLEAN : i # c \/ other # ok => Held(q, i, other) = Held(r, i, other)
      /\ Held(q, c, ok) = Held(r, c, ok) + 1
  <2>1. q.buckets[c] = slot /\ \A i \in Brk!Slots : i # c => q.buckets[i] = r.buckets[i]
    <3> HIDE DEF slot
    <3> QED BY <1>1, <1>6
  <2>2. Held(q, c, ok) = Held(r, c, ok) + 1
    BY <1>1, <2>1 DEF Held
  <2>3. ASSUME NEW other \in BOOLEAN, other # ok PROVE Held(q, c, other) = Held(r, c, other)
    BY <1>1, <2>1, <2>3 DEF Held
  <2>4. ASSUME NEW i \in Brk!Slots, i # c, NEW other \in BOOLEAN PROVE Held(q, i, other) = Held(r, i, other)
    BY <2>1, <2>4 DEF Held
  <2> QED BY <2>2, <2>3, <2>4
<1>9. \A i \in Brk!Slots : Back(q, i) = Back(r, i) /\ Began(q, i) = Began(r, i)
  BY <1>6 DEF Back, Began
<1>10. ASSUME NEW other \in BOOLEAN, NEW a \in Brk!Ages, q.log[other][a] # 0 PROVE a > q.age - Brk!Width
  <2>1. CASE a = 0
    BY <1>1, <1>6, <2>1, SpanFacts
  <2>2. CASE a # 0 \/ other # ok
    BY <1>6, <1>7, <1>10, <2>2 DEF RingInv
  <2> QED BY <2>1, <2>2
<1>11. ASSUME NEW other \in BOOLEAN, NEW i \in Brk!Slots, Began(q, i) < Brk!Span
       PROVE  Held(q, i, other) = Brk!Total(q.log[other], Interval(Began(q, i)))
  <2> DEFINE I == Interval(Began(r, i))
  <2>1. Held(r, i, other) = Brk!Total(r.log[other], I)
    BY <1>9, <1>11 DEF RingInv
  <2>2. I \in SUBSET Brk!Ages /\ IsFiniteSet(I) /\ \A a \in I : r.log[other][a] \in Nat
    <3>1. I \in SUBSET Brk!Ages /\ IsFiniteSet(I)
      BY IntervalFinite
    <3> HIDE DEF I
    <3> QED BY <1>1, <3>1
  <2>3. CASE other # ok
    BY <1>7, <1>8, <1>9, <2>1, <2>3
  <2>4. CASE other = ok /\ i = c
    <3>1. Began(r, i) = r.age
      BY <1>1, <2>4, BackFacts, SpanFacts DEF Began
    <3>2. 0 \in I
      BY <1>1, <3>1, SpanFacts DEF Interval
    <3> HIDE DEF I
    <3>3. \A a \in I \ {0} : q.log[ok][a] = r.log[ok][a]
      BY <1>7, <2>2
    <3>4. Brk!Total(q.log[ok], I) = Brk!Total(r.log[ok], I) + 1
      BY <1>7, <2>2, <2>4, <3>2, <3>3, TotalOneMore
    <3> QED BY <1>8, <1>9, <2>1, <2>4, <3>4 DEF I
  <2>5. CASE other = ok /\ i # c
    <3>1. Began(r, i) >= Brk!Width
      <4>1. Back(r, i) \in Nat /\ Back(r, i) >= 1
        BY <2>5, BackFacts, SpanFacts
      <4>2. 1 * Brk!Width <= Back(r, i) * Brk!Width /\ Back(r, i) * Brk!Width \in Int
        BY <4>1, SpanFacts, Scaled
      <4> QED BY <1>1, <4>2, SpanFacts DEF Began
    <3>2. 0 \notin I
      BY <3>1, BackFacts, SpanFacts DEF Interval
    <3> HIDE DEF I
    <3>3. \A a \in I : q.log[ok][a] = r.log[ok][a]
      BY <1>7, <2>2, <3>2
    <3>4. Brk!Total(q.log[ok], I) = Brk!Total(r.log[ok], I)
      BY <3>3, TotalSame
    <3> QED BY <1>8, <1>9, <2>1, <2>5, <3>4 DEF I
  <2> QED BY <2>3, <2>4, <2>5
<1>12. RingInv(q)
  BY <1>10, <1>11 DEF RingInv
<1> QED BY <1>2, <1>6, <1>12

\* open and close start over.
LEMMA EmptiedRing ==
  ASSUME NEW r \in Breakers, NEW state \in {"closed", "open", "half_open"}
  PROVE  Brk!Emptied(r, state) \in Breakers /\ RingInv(Brk!Emptied(r, state))
<1> DEFINE q == Brk!Emptied(r, state)
<1>1. /\ Brk!NoOutcomes \in [Brk!Slots -> [successes : Nat, failures : Nat]]
      /\ Brk!NoLog \in [BOOLEAN -> [Brk!Ages -> Nat]]
  BY DEF Brk!NoOutcomes, Brk!NoLog
<1>2. 0 \in Brk!Slots /\ 0 \in 0 .. Brk!Span /\ 0 \in 0 .. HalfOpenProbes /\ 0 \in 0 .. HalfOpenProbes - 1
  BY SpanFacts, PlatformAssumption
<1>3. q \in Breakers /\ q.buckets = Brk!NoOutcomes /\ q.age = 0 /\ q.log = Brk!NoLog
  BY <1>1, <1>2 DEF Breakers, Brk!Emptied
<1>4. \A ok \in BOOLEAN, a \in Brk!Ages : q.log[ok][a] = 0
  BY <1>3 DEF Brk!NoLog
<1> HIDE DEF q
<1>5. RingInv(q)
  BY <1>3, <1>4, EmptyRing
<1> QED BY <1>3, <1>5 DEF q

\* A tick makes the buckets and the outcomes older.
LEMMA TickedRing ==
  ASSUME b \in Breakers, RingInv(b), Brk!Tick
  PROVE  b' \in Breakers /\ RingInv(b')
<1> DEFINE older == Brk!Older(b.log)
<1> DEFINE age == IF b.age < Brk!Span THEN b.age + 1 ELSE b.age
<1> DEFINE openAge == IF b.state = "open" /\ b.openAge < OpenTimeout THEN b.openAge + 1 ELSE b.openAge
<1>1. b.age \in 0 .. Brk!Span /\ b.log \in [BOOLEAN -> [Brk!Ages -> Nat]] /\ b.openAge \in 0 .. OpenTimeout
  BY DEF Breakers
<1>2. \A ok \in BOOLEAN, a \in Brk!Ages : older[ok][a] = IF a = 0 THEN 0 ELSE b.log[ok][a - 1]
  BY DEF Brk!Older
<1>3. older \in [BOOLEAN -> [Brk!Ages -> Nat]]
  <2>1. \A a \in Brk!Ages : a # 0 => a - 1 \in Brk!Ages
    BY SpanFacts DEF Brk!Ages
  <2> QED BY <1>1, <2>1 DEF Brk!Older
<1>4. age \in 0 .. Brk!Span /\ openAge \in 0 .. OpenTimeout
  BY <1>1, SpanFacts, PlatformAssumption
<1>5. b' = [b EXCEPT !.age = age, !.log = older, !.openAge = openAge]
  BY DEF Brk!Tick, Breakers
<1>6. b' \in Breakers /\ b'.age = age /\ b'.log = older /\ b'.cursor = b.cursor /\ b'.buckets = b.buckets
  <2> HIDE DEF age, older, openAge
  <2> QED BY <1>3, <1>4, <1>5 DEF Breakers
<1>7. \A i \in Brk!Slots : Back(b', i) = Back(b, i)
  BY <1>6 DEF Back
<1>8. ASSUME NEW ok \in BOOLEAN, NEW a \in Brk!Ages, b'.log[ok][a] # 0
      PROVE  a \in Int /\ a # 0 /\ a - 1 \in Brk!Ages /\ b.log[ok][a - 1] # 0
  <2>1. a # 0
    BY <1>2, <1>6, <1>8
  <2>2. a \in Int /\ a - 1 \in Brk!Ages
    BY <2>1, SpanFacts DEF Brk!Ages
  <2> QED BY <1>2, <1>6, <1>8, <2>1, <2>2
<1>9. ASSUME NEW ok \in BOOLEAN, NEW a \in Brk!Ages, b'.log[ok][a] # 0 PROVE a > b'.age - Brk!Width
  <2>1. a \in Int /\ a - 1 \in Brk!Ages /\ b.log[ok][a - 1] # 0
    BY <1>8, <1>9
  <2>2. a - 1 > b.age - Brk!Width
    BY <2>1 DEF RingInv
  <2> QED BY <1>1, <1>6, <2>1, <2>2, SpanFacts
<1>10. ASSUME NEW ok \in BOOLEAN, NEW i \in Brk!Slots, Began(b', i) < Brk!Span
       PROVE  Held(b', i, ok) = Brk!Total(b'.log[ok], Interval(Began(b', i)))
  <2> DEFINE I == Interval(Began(b, i))
  <2> DEFINE J == Interval(Began(b', i))
  <2> DEFINE K == {a \in J : a # 0 /\ a - 1 \in I}
  <2>1. Back(b, i) * Brk!Width \in Nat /\ Began(b, i) \in Nat
    BY BackFacts
  <2>2. b.age < Brk!Span /\ Began(b', i) = Began(b, i) + 1
    BY <1>1, <1>6, <1>7, <1>10, <2>1, SpanFacts DEF Began
  <2>3. Held(b', i, ok) = Brk!Total(b.log[ok], I)
    <3>1. Held(b', i, ok) = Held(b, i, ok)
      BY <1>6 DEF Held
    <3> QED BY <1>10, <2>1, <2>2, <3>1, SpanFacts DEF RingInv
  <2>4. \A a \in I : a \in Brk!Ages /\ a \in Nat /\ a + 1 \in Brk!Ages /\ a + 1 \in K /\ (a + 1) - 1 = a
    <3>1. \A a \in I : a \in Brk!Ages /\ a \in Nat /\ Began(b, i) - Brk!Width < a /\ a <= Began(b, i)
      BY SpanFacts DEF Interval, Brk!Ages
    <3>2. \A a \in I : a + 1 \in Brk!Ages /\ a + 1 \in J
      BY <1>10, <2>1, <2>2, <3>1, SpanFacts DEF Interval, Brk!Ages
    <3> HIDE DEF I, J
    <3> QED BY <3>1, <3>2
  <2>5. \A a \in J : a \in Brk!Ages /\ a \in Int /\ (a # 0 => a - 1 \in I)
    <3>1. \A a \in J : a \in Brk!Ages /\ a \in Int /\ Began(b', i) - Brk!Width < a /\ a <= Began(b', i)
      BY SpanFacts DEF Interval, Brk!Ages
    <3>2. \A a \in J : a # 0 => a - 1 \in I
      BY <2>1, <2>2, <3>1, SpanFacts DEF Interval, Brk!Ages
    <3> QED BY <3>1, <3>2
  <2>6. I \in SUBSET Brk!Ages /\ IsFiniteSet(I)
    BY IntervalFinite
  <2> HIDE DEF I, J
  <2> DEFINE f == [a \in I |-> a + 1]
  <2>7. f \in Bijection(I, K)
    <3>1. f \in [I -> K]
      BY <2>4
    <3>2. \A a, c \in I : f[a] = f[c] => a = c
      BY <2>4
    <3>3. \A a \in K : \E c \in I : f[c] = a
      <4> TAKE a \in K
      <4>1. a \in Int /\ a - 1 \in I /\ f[a - 1] = a
        BY <2>5
      <4> QED BY <4>1
    <3> HIDE DEF f, K
    <3> QED BY <3>1, <3>2, <3>3 DEF Bijection, Injection, Surjection, IsInjective
  <2>8. \A a \in I : b.log[ok][a] \in Nat /\ b'.log[ok][f[a]] = b.log[ok][a]
    <3> TAKE a \in I
    <3>1. b'.log[ok][a + 1] = b.log[ok][(a + 1) - 1]
      BY <1>2, <1>6, <2>4
    <3> QED BY <1>1, <2>4, <3>1
  <2> HIDE DEF f
  <2>9. Brk!Total(b'.log[ok], K) = Brk!Total(b.log[ok], I)
    <3> DEFINE h == b.log[ok]
    <3> DEFINE g == b'.log[ok]
    <3>1. \A a \in I : h[a] \in Nat /\ g[f[a]] = h[a]
      BY <2>8
    <3> HIDE DEF h, g, K
    <3>2. Brk!Total(g, K) = Brk!Total(h, I)
      BY <2>6, <2>7, <3>1, TotalRenamed
    <3> QED BY <3>2 DEF h, g
  <2>10. Brk!Total(b'.log[ok], K) = Brk!Total(b'.log[ok], J)
    <3>1. \A a \in J \ K : b'.log[ok][a] = 0
      BY <1>2, <1>6, <2>5
    <3>2. K \in SUBSET J
      OBVIOUS
    <3> HIDE DEF K
    <3> QED BY <3>1, <3>2, TotalSkip
  <2> QED BY <2>3, <2>9, <2>10 DEF J
<1> QED BY <1>6, <1>9, <1>10 DEF RingInv

\* The buckets of an advanced breaker hold what the log holds up to the last one's age.
LEMMA WindowHeld ==
  ASSUME NEW r \in Breakers, RingInv(r), r.age < Brk!Width, NEW ok \in BOOLEAN
  PROVE  Brk!Total([i \in Brk!Slots |-> Held(r, i, ok)], Brk!Slots)
           = Brk!Total(r.log[ok], 0 .. r.age + Brk!Span - Brk!Width)
<1> DEFINE w == Brk!Width
<1> DEFINE t == r.age + Brk!Span - w
<1> DEFINE A == 0 .. t
<1> DEFINE far(a) == (a - r.age + w - 1) \div w
<1> DEFINE slot(k) == IF k <= r.cursor THEN r.cursor - k ELSE r.cursor - k + Buckets
<1> DEFINE home == [a \in A |-> slot(far(a))]
<1> DEFINE h == [i \in Brk!Slots |-> Held(r, i, ok)]
<1> DEFINE g == r.log[ok]
<1>1. r.age \in 0 .. w - 1 /\ r.cursor \in 0 .. Buckets - 1 /\ g \in [Brk!Ages -> Nat] /\ w \in Nat \ {0}
  BY SpanFacts DEF Breakers, Brk!Slots
<1>2. t \in Nat /\ A \in SUBSET Brk!Ages /\ IsFiniteSet(A)
  <2>1. t \in Nat /\ t <= Brk!Span - 1
    BY <1>1, SpanFacts
  <2>2. A \in SUBSET Brk!Ages
    <3> HIDE DEF t
    <3> QED BY <2>1, SpanFacts DEF Brk!Ages
  <2>3. IsFiniteSet(A)
    BY <2>2, SpanFacts, FS_Subset
  <2> QED BY <2>1, <2>2, <2>3
<1>3. \A k \in 0 .. Buckets - 1 : slot(k) \in Brk!Slots /\ Back(r, slot(k)) = k
  BY <1>1, SpanFacts DEF Back, Brk!Slots
<1>4. \A i \in Brk!Slots : Back(r, i) \in 0 .. Buckets - 1 /\ slot(Back(r, i)) = i /\ Began(r, i) <= t
  <2> TAKE i \in Brk!Slots
  <2>1. Back(r, i) \in 0 .. Buckets - 1 /\ Back(r, i) * w <= Brk!Span - w /\ Back(r, i) * w \in Nat
    BY BackFacts
  <2>2. slot(Back(r, i)) = i
    <3>1. i \in 0 .. Buckets - 1
      BY DEF Brk!Slots
    <3> QED BY <1>1, <3>1, SpanFacts DEF Back
  <2>3. Began(r, i) <= t
    BY <1>1, <2>1, SpanFacts DEF Began
  <2> QED BY <2>1, <2>2, <2>3
<1>5. \A a \in A : /\ a \in Nat /\ far(a) \in 0 .. Buckets - 1 /\ far(a) * w \in Nat
                   /\ far(a) * w <= a - r.age + w - 1 /\ a - r.age + w - 1 < far(a) * w + w
  <2> TAKE a \in A
  <2>1. a \in Nat /\ a <= t
    <3> HIDE DEF t
    <3> QED BY <1>2
  <2>2. PICK x \in Nat : x = a - r.age + w - 1
    BY <1>1, <2>1
  <2>3. x \div w \in Nat /\ (x \div w) * w <= x /\ x < (x \div w) * w + w
    BY <1>1, Divided
  <2>4. x < Brk!Span
    BY <1>1, <2>1, <2>2, SpanFacts
  <2>5. x \div w < Buckets
    <3> SUFFICES ASSUME x \div w >= Buckets PROVE FALSE
      BY <2>3, SpanFacts
    <3>1. Buckets * w <= (x \div w) * w /\ (x \div w) * w \in Int
      BY <2>3, SpanFacts, Scaled
    <3> QED BY <2>3, <2>4, <3>1, SpanFacts
  <2>6. (x \div w) * w \in Nat
    BY <1>1, <2>3
  <2>7. far(a) = x \div w
    BY <2>2
  <2> HIDE DEF far
  <2> QED BY <2>1, <2>2, <2>3, <2>5, <2>6, <2>7, SpanFacts
<1>6. home \in [A -> Brk!Slots] /\ \A a \in A : home[a] = slot(far(a))
  <2> HIDE DEF slot, far, A
  <2> QED BY <1>3, <1>5
<1> HIDE DEF home, A
<1>7. ASSUME NEW i \in Brk!Slots PROVE {a \in A : home[a] = i} = Interval(Began(r, i))
  <2> DEFINE k == Back(r, i)
  <2>1. k \in 0 .. Buckets - 1 /\ k * w \in Nat /\ Began(r, i) = r.age + k * w /\ Began(r, i) <= t /\ slot(k) = i
    BY <1>4, BackFacts DEF Began
  <2>2. ASSUME NEW a \in A, home[a] = i PROVE a \in Interval(Began(r, i))
    <3>1. far(a) = k
      <4>1. slot(far(a)) = i /\ far(a) \in 0 .. Buckets - 1
        BY <1>5, <1>6, <2>2
      <4> HIDE DEF far, slot
      <4> QED BY <1>3, <4>1
    <3>2. k * w <= a - r.age + w - 1 /\ a - r.age + w - 1 < k * w + w /\ a \in Nat
      <4> HIDE DEF far, k
      <4> QED BY <1>5, <3>1
    <3>3. a \in Brk!Ages
      BY <1>2
    <3> HIDE DEF k
    <3> QED BY <1>1, <2>1, <3>2, <3>3 DEF Interval
  <2>3. ASSUME NEW a \in Interval(Began(r, i)) PROVE a \in A /\ home[a] = i
    <3>1. a \in Nat /\ Began(r, i) - w < a /\ a <= Began(r, i)
      BY SpanFacts DEF Interval, Brk!Ages
    <3>2. a \in A
      <4> HIDE DEF k, t
      <4> QED BY <1>1, <1>2, <2>1, <3>1 DEF A
    <3>3. k * w <= a - r.age + w - 1 /\ a - r.age + w - 1 < k * w + w
      <4> HIDE DEF k
      <4> QED BY <1>1, <2>1, <3>1
    <3>4. far(a) \in 0 .. Buckets - 1 /\ far(a) * w \in Nat /\ far(a) * w <= a - r.age + w - 1
          /\ a - r.age + w - 1 < far(a) * w + w
      BY <1>5, <3>2
    <3> DEFINE m == far(a)
    <3> HIDE DEF k, far
    <3>5. ~(m < k)
      <4> SUFFICES ASSUME m < k PROVE FALSE
        OBVIOUS
      <4>1. m * w + w <= k * w
        BY <1>1, <2>1, <3>4, SpanFacts, Scaled
      <4> QED BY <1>1, <2>1, <3>1, <3>3, <3>4, <4>1
    <3>6. ~(k < m)
      <4> SUFFICES ASSUME k < m PROVE FALSE
        OBVIOUS
      <4>1. k * w + w <= m * w
        BY <1>1, <2>1, <3>4, SpanFacts, Scaled
      <4> QED BY <1>1, <2>1, <3>1, <3>3, <3>4, <4>1
    <3>7. far(a) = k
      BY <2>1, <3>4, <3>5, <3>6, SpanFacts
    <3> HIDE DEF slot
    <3> QED BY <1>6, <2>1, <3>2, <3>7
  <2> QED BY <2>2, <2>3
<1> DEFINE shares == [i \in Brk!Slots |-> Interval(Began(r, i))]
<1>8. /\ shares \in [Brk!Slots -> SUBSET A]
      /\ \A i \in Brk!Slots : \A a \in A : a \in shares[i] <=> home[a] = i
      /\ \A i \in Brk!Slots : h[i] = Brk!Total(g, shares[i])
  <2>1. ASSUME NEW i \in Brk!Slots
        PROVE  /\ Interval(Began(r, i)) \in SUBSET A
               /\ \A a \in A : a \in Interval(Began(r, i)) <=> home[a] = i
               /\ h[i] = Brk!Total(g, Interval(Began(r, i)))
    <3>1. Began(r, i) < Brk!Span
      BY <1>1, <1>4, BackFacts, SpanFacts
    <3>2. h[i] = Brk!Total(g, Interval(Began(r, i)))
      BY <3>1 DEF RingInv
    <3> HIDE DEF h, g
    <3>3. \A a : a \in Interval(Began(r, i)) <=> a \in A /\ home[a] = i
      BY <1>7
    <3> QED BY <3>2, <3>3
  <2> HIDE DEF h, g
  <2> QED BY <2>1
<1>9. \A a \in A : g[a] \in Nat
  BY <1>1, <1>2
<1> HIDE DEF h, g, shares
<1>10. Brk!Total(h, Brk!Slots) = Brk!Total(g, A)
  BY <1>2, <1>6, <1>8, <1>9, TotalGathered
<1> QED BY <1>10 DEF h, g, A

LEMMA WindowExact ==
  ASSUME b \in Breakers, RingInv(b)
  PROVE  Brk!WindowCounts
<1> DEFINE r == Brk!Advance(b)
<1> DEFINE t == r.age + Brk!Span - Brk!Width
<1>1. r \in Breakers /\ RingInv(r) /\ r.age < Brk!Width
  BY AdvancedRing
<1> HIDE DEF r
<1>2. r.age \in Nat
  BY <1>1, SpanFacts DEF Breakers
<1>3. t \in Brk!Span - Brk!Width .. Brk!Span - 1
  BY <1>1, <1>2, SpanFacts
<1>4. Brk!Successes(r) = Brk!Total(r.log[TRUE], 0 .. t)
  <2>1. Brk!Total([i \in Brk!Slots |-> Held(r, i, TRUE)], Brk!Slots) = Brk!Total(r.log[TRUE], 0 .. t)
    BY <1>1, WindowHeld
  <2>2. [i \in Brk!Slots |-> Held(r, i, TRUE)] = [i \in Brk!Slots |-> r.buckets[i].successes]
    BY DEF Held
  <2> QED BY <2>1, <2>2 DEF Brk!Successes
<1>5. Brk!Failures(r) = Brk!Total(r.log[FALSE], 0 .. t)
  <2>1. Brk!Total([i \in Brk!Slots |-> Held(r, i, FALSE)], Brk!Slots) = Brk!Total(r.log[FALSE], 0 .. t)
    BY <1>1, WindowHeld
  <2>2. [i \in Brk!Slots |-> Held(r, i, FALSE)] = [i \in Brk!Slots |-> r.buckets[i].failures]
    BY DEF Held
  <2> QED BY <2>1, <2>2 DEF Brk!Failures
<1> HIDE DEF t
<1> QED BY <1>3, <1>4, <1>5 DEF Brk!WindowCounts, r

-----------------------------------------------------------------------------
(* The breaker's steps *)

Calls == [Callers -> [at : {"idle", "sent", "wait"}, index : 1 .. MaxAttempts, as : {"normal", "probe", "late"}]]

\* The probes that are under way.
Probing(calls) == {c \in Callers : calls[c].at = "sent" /\ calls[c].as = "probe"}

BreakerInv ==
  /\ b \in Breakers /\ RingInv(b) /\ call \in Calls
  /\ b.state = "half_open" => b.probesInFlight <= Cardinality(Probing(call))

LEMMA ProbingFinite ==
  ASSUME NEW calls
  PROVE  IsFiniteSet(Probing(calls)) /\ Cardinality(Probing(calls)) \in Nat
<1>1. Probing(calls) \in SUBSET Callers
  BY DEF Probing
<1>2. IsFiniteSet(Callers)
  BY PlatformAssumption
<1> QED BY <1>1, <1>2, FS_Subset, FS_CardinalityType

\* What advance does to the probes.
LEMMA AdvancedProbes ==
  ASSUME b \in Breakers
  PROVE  LET r == Brk!Advance(b)
         IN  /\ r.state = b.state => r.probesInFlight = b.probesInFlight
             /\ r.state # b.state => r.probesInFlight = 0
             /\ b.state = "half_open" => r.state = b.state
<1> DEFINE q == Brk!HalfOpened(b)
<1> DEFINE r == Brk!Slid(q)
<1>1. /\ q \in Breakers
      /\ q.state = b.state => q.probesInFlight = b.probesInFlight
      /\ q.state # b.state => q.probesInFlight = 0
      /\ b.state = "half_open" => q.state = b.state
  <2>1. 0 \in 0 .. HalfOpenProbes /\ 0 \in 0 .. HalfOpenProbes - 1
    BY PlatformAssumption
  <2>2. CASE q = b
    BY <2>2
  <2>3. CASE b.state = "open" /\ q = [b EXCEPT !.state = "half_open", !.probesInFlight = 0, !.probeSuccesses = 0]
    <3> HIDE DEF q
    <3> QED BY <2>1, <2>3 DEF Breakers
  <2> QED BY <2>2, <2>3 DEF Brk!HalfOpened
<1> HIDE DEF q
<1>2. r.state = q.state /\ r.probesInFlight = q.probesInFlight
  BY <1>1 DEF Brk!Slid, Breakers
<1>3. Brk!Advance(b) = r
  BY DEF Brk!Advance, q
<1> HIDE DEF r
<1> QED BY <1>1, <1>2, <1>3

\* What the outcome of a call makes of an advanced breaker.
LEMMA RecordedBreaker ==
  ASSUME NEW r \in Breakers, RingInv(r), r.age < Brk!Width, NEW ok \in BOOLEAN
  PROVE  LET q == Brk!Recorded(r, ok)
         IN  /\ q \in Breakers /\ RingInv(q)
             /\ q.state = "half_open" =>
                  /\ r.state = "half_open"
                  /\ q.probesInFlight = IF r.probesInFlight > 0 THEN r.probesInFlight - 1 ELSE 0
<1> DEFINE q == Brk!Recorded(r, ok)
<1>1. ASSUME NEW s \in Breakers
      PROVE  /\ Brk!Open(s) \in Breakers /\ RingInv(Brk!Open(s)) /\ Brk!Open(s).state = "open"
             /\ Brk!Close(s) \in Breakers /\ RingInv(Brk!Close(s)) /\ Brk!Close(s).state = "closed"
  <2> DEFINE e == Brk!Emptied(s, "open")
  <2> DEFINE o == Brk!Open(s)
  <2>1. e \in Breakers /\ RingInv(e) /\ e.state = "open"
    <3>1. e.state = "open"
      BY DEF Brk!Emptied, Breakers
    <3> QED BY <3>1, EmptiedRing
  <2>2. o = [e EXCEPT !.openAge = 0]
    BY DEF Brk!Open
  <2> HIDE DEF e, o
  <2>3. /\ o \in Breakers /\ o.state = "open"
        /\ o.buckets = e.buckets /\ o.cursor = e.cursor /\ o.age = e.age /\ o.log = e.log
    <3>1. 0 \in 0 .. OpenTimeout
      BY PlatformAssumption
    <3> QED BY <2>1, <2>2, <3>1 DEF Breakers
  <2>4. RingInv(o)
    BY <2>1, <2>3, SameRing
  <2>5. Brk!Close(s) \in Breakers /\ RingInv(Brk!Close(s)) /\ Brk!Close(s).state = "closed"
    <3>1. Brk!Emptied(s, "closed").state = "closed"
      BY DEF Brk!Emptied, Breakers
    <3> QED BY <3>1, EmptiedRing DEF Brk!Close
  <2> QED BY <2>3, <2>4, <2>5 DEF o
<1>2. CASE r.state = "half_open"
  <2> DEFINE left == IF r.probesInFlight > 0 THEN r.probesInFlight - 1 ELSE r.probesInFlight
  <2> DEFINE p == [r EXCEPT !.probesInFlight = left]
  <2>1. r.probesInFlight \in 0 .. HalfOpenProbes /\ r.probeSuccesses \in 0 .. HalfOpenProbes - 1 /\ HalfOpenProbes \in Nat
    BY PlatformAssumption DEF Breakers
  <2>2. left \in 0 .. HalfOpenProbes /\ left = IF r.probesInFlight > 0 THEN r.probesInFlight - 1 ELSE 0
    BY <2>1
  <2>3. /\ p \in Breakers /\ p.state = "half_open" /\ p.probesInFlight = left /\ p.probeSuccesses = r.probeSuccesses
        /\ p.buckets = r.buckets /\ p.cursor = r.cursor /\ p.age = r.age /\ p.log = r.log
    <3> HIDE DEF left
    <3> QED BY <1>2, <2>2 DEF Breakers
  <2>4. Brk!ProbeRecorded(r, ok) =
          IF ~ok THEN Brk!Open(p)
          ELSE IF p.probeSuccesses + 1 >= HalfOpenProbes THEN Brk!Close(p)
          ELSE [p EXCEPT !.probeSuccesses = @ + 1]
    BY DEF Brk!ProbeRecorded
  <2>5. q = Brk!ProbeRecorded(r, ok)
    BY <1>2 DEF Brk!Recorded
  <2> HIDE DEF p, left, q
  <2>6. CASE q = Brk!Open(p) \/ q = Brk!Close(p)
    BY <1>1, <2>3, <2>6 DEF q
  <2>7. CASE q = [p EXCEPT !.probeSuccesses = p.probeSuccesses + 1] /\ ~(p.probeSuccesses + 1 >= HalfOpenProbes)
    <3>1. p.probeSuccesses + 1 \in 0 .. HalfOpenProbes - 1
      BY <2>1, <2>3, <2>7
    <3>2. /\ q \in Breakers /\ q.probesInFlight = left
          /\ q.buckets = p.buckets /\ q.cursor = p.cursor /\ q.age = p.age /\ q.log = p.log
      BY <2>3, <2>7, <3>1 DEF Breakers
    <3>3. RingInv(q)
      BY <2>3, <3>2, SameRing
    <3> QED BY <1>2, <2>2, <3>2, <3>3 DEF q
  <2> QED BY <2>4, <2>5, <2>6, <2>7
<1>3. CASE r.state # "half_open"
  <2> DEFINE p == Brk!Counted(r, ok)
  <2>1. p \in Breakers /\ RingInv(p)
    BY CountedRing
  <2>2. p.state = r.state
    BY DEF Brk!Counted, Breakers
  <2>3. q = Brk!Open(p) \/ q = p
    BY <1>3 DEF Brk!Recorded
  <2> HIDE DEF p, q
  <2> QED BY <1>1, <1>3, <2>1, <2>2, <2>3 DEF q
<1> QED BY <1>2, <1>3

LEMMA LateCalls ==
  ASSUME call \in Calls, NEW q
  PROVE  /\ Brk!Late(q) \in Calls
         /\ q.state = b.state => Brk!Late(q) = call
<1>1. Brk!Late(q) \in Calls
  BY DEF Brk!Late, Calls
<1>2. q.state = b.state => Brk!Late(q) = call
  BY DEF Brk!Late, Calls
<1> QED BY <1>1, <1>2

\* One call less or more.
LEMMA OtherProbes ==
  ASSUME call \in Calls, NEW c \in Callers, NEW x, call' = [call EXCEPT ![c] = x]
  PROVE  /\ x.at # "sent" => Probing(call') = Probing(call) \ {c}
         /\ x.at = "sent" /\ x.as = "probe" => Probing(call') = Probing(call) \cup {c}
<1>1. call'[c] = x /\ \A d \in Callers : d # c => call'[d] = call[d]
  BY DEF Calls
<1> QED BY <1>1 DEF Probing

LEMMA IdleCall ==
  /\ Brk!Idle \in [at : {"idle", "sent", "wait"}, index : 1 .. MaxAttempts, as : {"normal", "probe", "late"}]
  /\ Brk!Idle.at = "idle"
<1>1. 1 \in 1 .. MaxAttempts
  BY PlatformAssumption
<1> QED BY <1>1 DEF Brk!Idle

LEMMA AttemptStep ==
  ASSUME BreakerInv, NEW c \in Callers, Brk!Attempt(c)
  PROVE  BreakerInv'
<1> DEFINE r == Brk!Advance(b)
<1> DEFINE late == Brk!Late(r)
<1>1. r \in Breakers /\ RingInv(r)
  BY AdvancedRing DEF BreakerInv
<1>2. /\ r.state = b.state => r.probesInFlight = b.probesInFlight
      /\ r.state # b.state => r.probesInFlight = 0
  BY AdvancedProbes DEF BreakerInv
<1>3. late \in Calls /\ (r.state = b.state => late = call) /\ call[c].at # "sent" /\ call \in Calls
  BY LateCalls DEF BreakerInv, Brk!Attempt
<1>4. IsFiniteSet(Probing(call)) /\ Cardinality(Probing(call)) \in Nat
      /\ IsFiniteSet(Probing(call')) /\ Cardinality(Probing(call')) \in Nat
  BY ProbingFinite
<1>5. r.probesInFlight \in 0 .. HalfOpenProbes /\ HalfOpenProbes \in Nat
  BY <1>1, PlatformAssumption DEF Breakers
<1>6. c \notin Probing(call)
  BY <1>3 DEF Probing
<1> HIDE DEF late
<1>7. CASE Brk!Admits(r) /\ r.state = "half_open" /\ b' = [r EXCEPT !.probesInFlight = @ + 1]
           /\ call' = [late EXCEPT ![c].at = "sent", ![c].as = "probe"]
  <2> HIDE DEF r
  <2> DEFINE x == [late[c] EXCEPT !.at = "sent", !.as = "probe"]
  <2>1. r.probesInFlight < HalfOpenProbes
    BY <1>7 DEF Brk!Admits
  <2>2. r.probesInFlight + 1 \in 0 .. HalfOpenProbes
    BY <1>5, <2>1
  <2>3. /\ b' \in Breakers /\ b'.probesInFlight = r.probesInFlight + 1 /\ b'.state = r.state
        /\ b'.buckets = r.buckets /\ b'.cursor = r.cursor /\ b'.age = r.age /\ b'.log = r.log
    BY <1>1, <1>7, <2>2 DEF Breakers
  <2>4. RingInv(b')
    BY <1>1, <2>3, SameRing
  <2>5. x.at = "sent" /\ x.as = "probe" /\ call' = [late EXCEPT ![c] = x]
        /\ x \in [at : {"idle", "sent", "wait"}, index : 1 .. MaxAttempts, as : {"normal", "probe", "late"}]
    BY <1>3, <1>7 DEF Calls
  <2> HIDE DEF x
  <2>6. call' \in Calls /\ c \in Probing(call')
    BY <1>3, <2>5 DEF Calls, Probing
  <2>7. b'.probesInFlight <= Cardinality(Probing(call'))
    <3>1. CASE r.state = b.state
      <4>1. call' = [call EXCEPT ![c] = x]
        BY <1>3, <2>5, <3>1
      <4>2. Probing(call') = Probing(call) \cup {c}
        BY <1>3, <2>5, <4>1, OtherProbes
      <4>3. Cardinality(Probing(call')) = Cardinality(Probing(call)) + 1
        BY <1>4, <1>6, <4>2, FS_AddElement
      <4>4. r.probesInFlight <= Cardinality(Probing(call))
        BY <1>2, <1>7, <3>1 DEF BreakerInv
      <4> QED BY <1>4, <1>5, <2>3, <4>3, <4>4
    <3>2. CASE r.state # b.state
      <4>1. Cardinality(Probing(call')) # 0
        BY <1>4, <2>6, FS_EmptySet
      <4> QED BY <1>2, <1>4, <2>3, <3>2, <4>1
    <3> QED BY <3>1, <3>2
  <2> QED BY <2>3, <2>4, <2>6, <2>7 DEF BreakerInv
<1>8. CASE r.state # "half_open" /\ b' = r
           /\ call' = [late EXCEPT ![c].at = "sent", ![c].as = "normal"]
  <2>1. call' \in Calls
    BY <1>3, <1>8 DEF Calls
  <2> HIDE DEF r
  <2> QED BY <1>1, <1>8, <2>1 DEF BreakerInv
<1>9. CASE b' = r /\ call' = [late EXCEPT ![c] = Brk!Idle]
  <2> HIDE DEF r
  <2>1. call' \in Calls
    BY <1>3, <1>9, IdleCall DEF Calls
  <2>2. ASSUME r.state = "half_open" PROVE r.probesInFlight <= Cardinality(Probing(call'))
    <3>1. CASE r.state = b.state
      <4>1. Probing(call') = Probing(call) \ {c}
        BY <1>3, <1>9, <3>1, IdleCall, OtherProbes
      <4>2. Probing(call') = Probing(call)
        BY <1>6, <4>1
      <4> QED BY <1>2, <2>2, <3>1, <4>2 DEF BreakerInv
    <3>2. CASE r.state # b.state
      BY <1>2, <1>4, <3>2
    <3> QED BY <3>1, <3>2
  <2> QED BY <1>1, <1>9, <2>1, <2>2 DEF BreakerInv
<1> QED BY <1>7, <1>8, <1>9 DEF Brk!Attempt, late

\* The end of a call, by an answer or by its context.
LEMMA ReportStep ==
  ASSUME BreakerInv, NEW c \in Callers, NEW ok \in BOOLEAN, Brk!Report(c, ok)
  PROVE  BreakerInv'
<1> DEFINE r == Brk!Advance(b)
<1> DEFINE q == Brk!Recorded(r, ok)
<1> DEFINE late == Brk!Late(q)
<1>1. r \in Breakers /\ RingInv(r) /\ r.age < Brk!Width
  BY AdvancedRing DEF BreakerInv
<1>2. /\ r.state = b.state => r.probesInFlight = b.probesInFlight
      /\ r.state # b.state => r.probesInFlight = 0
  BY AdvancedProbes DEF BreakerInv
<1> HIDE DEF r
<1>3. /\ q \in Breakers /\ RingInv(q)
      /\ q.state = "half_open" => /\ r.state = "half_open"
                                  /\ q.probesInFlight = IF r.probesInFlight > 0 THEN r.probesInFlight - 1 ELSE 0
  BY <1>1, RecordedBreaker
<1>4. late \in Calls /\ (q.state = b.state => late = call) /\ call \in Calls
  BY LateCalls DEF BreakerInv
<1>5. IsFiniteSet(Probing(call)) /\ Cardinality(Probing(call)) \in Nat
      /\ IsFiniteSet(Probing(call')) /\ Cardinality(Probing(call')) \in Nat
  BY ProbingFinite
<1>6. r.probesInFlight \in Nat
  BY <1>1, PlatformAssumption DEF Breakers
<1>7. PICK next \in Brk!After(c, ok) : call' = [late EXCEPT ![c] = next]
  BY DEF Brk!Report, r
<1>8. b' = q
  BY DEF Brk!Report, r
<1> HIDE DEF q, late
<1>9. /\ next \in [at : {"idle", "sent", "wait"}, index : 1 .. MaxAttempts, as : {"normal", "probe", "late"}]
      /\ next.at # "sent"
  <2>1. next = Brk!Idle \/ (call[c].index < MaxAttempts /\ next = [Brk!Idle EXCEPT !.at = "wait", !.index = call[c].index + 1])
    BY <1>7 DEF Brk!After
  <2>2. call[c].index \in 1 .. MaxAttempts /\ MaxAttempts \in Nat
    BY <1>4, PlatformAssumption DEF Calls
  <2>3. call[c].index < MaxAttempts => call[c].index + 1 \in 1 .. MaxAttempts
    BY <2>2
  <2> QED BY <2>1, <2>3, IdleCall
<1>10. call' \in Calls
  BY <1>4, <1>7, <1>9 DEF Calls
<1>11. ASSUME q.state = "half_open" PROVE q.probesInFlight <= Cardinality(Probing(call'))
  <2>1. CASE r.state = b.state
    <3>1. call' = [call EXCEPT ![c] = next]
      BY <1>3, <1>4, <1>7, <1>11, <2>1
    <3>2. Probing(call') = Probing(call) \ {c}
      BY <1>4, <1>9, <3>1, OtherProbes
    <3>3. Cardinality(Probing(call')) >= Cardinality(Probing(call)) - 1
      BY <1>5, <3>2, FS_RemoveElement
    <3>4. r.probesInFlight <= Cardinality(Probing(call))
      BY <1>2, <1>3, <1>11, <2>1 DEF BreakerInv
    <3> QED BY <1>3, <1>5, <1>6, <1>11, <3>3, <3>4
  <2>2. CASE r.state # b.state
    BY <1>2, <1>3, <1>5, <1>11, <2>2
  <2> QED BY <2>1, <2>2
<1> QED BY <1>3, <1>8, <1>10, <1>11 DEF BreakerInv

LEMMA OtherSteps ==
  ASSUME BreakerInv, (\E c \in Callers : Brk!Cancel(c)) \/ Brk!State \/ Brk!Tick \/ Brk!ServiceChanges
  PROVE  BreakerInv'
<1>1. ASSUME NEW c \in Callers, Brk!Cancel(c) PROVE BreakerInv'
  <2>1. call \in Calls /\ call[c].at = "wait" /\ call' = [call EXCEPT ![c] = Brk!Idle] /\ b' = b
    BY <1>1 DEF BreakerInv, Brk!Cancel
  <2>2. Probing(call') = Probing(call) \ {c}
    BY <2>1, IdleCall, OtherProbes
  <2>3. Probing(call') = Probing(call)
    BY <2>1, <2>2 DEF Probing
  <2>4. call' \in Calls
    BY <2>1, IdleCall DEF Calls
  <2> QED BY <2>1, <2>3, <2>4 DEF BreakerInv
<1>2. CASE Brk!State
  <2> DEFINE r == Brk!Advance(b)
  <2>1. r \in Breakers /\ RingInv(r)
    BY AdvancedRing DEF BreakerInv
  <2>2. /\ r.state = b.state => r.probesInFlight = b.probesInFlight
        /\ r.state # b.state => r.probesInFlight = 0
    BY AdvancedProbes DEF BreakerInv
  <2>3. b' = r /\ call' = Brk!Late(b')
    BY <1>2 DEF Brk!State
  <2>4. call' \in Calls /\ (b'.state = b.state => call' = call)
    BY <2>3, LateCalls DEF BreakerInv
  <2>5. Cardinality(Probing(call')) \in Nat
    BY ProbingFinite
  <2> HIDE DEF r
  <2>6. ASSUME b'.state = "half_open" PROVE b'.probesInFlight <= Cardinality(Probing(call'))
    <3>1. CASE b'.state = b.state
      BY <2>2, <2>3, <2>4, <2>6, <3>1 DEF BreakerInv
    <3>2. CASE b'.state # b.state
      BY <2>2, <2>3, <2>5, <3>2
    <3> QED BY <3>1, <3>2
  <2> QED BY <2>1, <2>3, <2>4, <2>6 DEF BreakerInv
<1>3. CASE Brk!Tick
  <2>1. b' \in Breakers /\ RingInv(b')
    BY <1>3, TickedRing DEF BreakerInv
  <2>2. b'.state = b.state /\ b'.probesInFlight = b.probesInFlight /\ call' = call
    BY <1>3 DEF Brk!Tick, BreakerInv, Breakers
  <2> QED BY <2>1, <2>2 DEF BreakerInv
<1>4. CASE Brk!ServiceChanges
  BY <1>4 DEF Brk!ServiceChanges, BreakerInv
<1> QED BY <1>1, <1>2, <1>3, <1>4

LEMMA BreakerStep ==
  ASSUME BreakerInv, [Brk!Next]_breakerVars
  PROVE  BreakerInv'
<1>1. CASE UNCHANGED breakerVars
  BY <1>1 DEF breakerVars, BreakerInv
<1>2. CASE Brk!Next
  BY <1>2, AttemptStep, ReportStep, OtherSteps DEF Brk!Next, Brk!Answer, Brk!Abandon
<1> QED BY <1>1, <1>2

LEMMA BreakerInit ==
  ASSUME Brk!Init
  PROVE  BreakerInv
<1>1. /\ Brk!NoOutcomes \in [Brk!Slots -> [successes : Nat, failures : Nat]]
      /\ Brk!NoLog \in [BOOLEAN -> [Brk!Ages -> Nat]]
  BY DEF Brk!NoOutcomes, Brk!NoLog
<1>2. /\ 0 \in Brk!Slots /\ 0 \in 0 .. Brk!Span /\ 0 \in 0 .. HalfOpenProbes /\ 0 \in 0 .. HalfOpenProbes - 1
      /\ 0 \in 0 .. OpenTimeout
  BY SpanFacts, PlatformAssumption
<1>3. b \in Breakers /\ b.buckets = Brk!NoOutcomes /\ b.age = 0 /\ b.log = Brk!NoLog /\ b.state = "closed"
  BY <1>1, <1>2 DEF Breakers, Brk!Init
<1>4. \A ok \in BOOLEAN, a \in Brk!Ages : b.log[ok][a] = 0
  BY <1>3 DEF Brk!NoLog
<1>5. RingInv(b)
  BY <1>3, <1>4, EmptyRing
<1>6. call \in Calls
  BY IdleCall DEF Brk!Init, Calls
<1> QED BY <1>3, <1>5, <1>6 DEF BreakerInv

\* For any window, number of buckets, probes and callers: the ring counts exactly the
\* outcomes of a span that ends now, and every probe that is counted as in flight is a
\* call that will report.
THEOREM BreakerTheorem == MCSafety => []BreakerSound
<1>1. MCInit => BreakerInv
  BY BreakerInit DEF MCInit
<1>2. MCNext \/ UNCHANGED suiteVars => [Brk!Next]_breakerVars
  BY DEF MCNext, BreakerPart, DispatchPart, RegistryPart, SchedulerPart, RecoveryPart, suiteVars, breakerVars
<1>3. BreakerInv /\ [MCNext]_suiteVars => BreakerInv'
  BY <1>2, BreakerStep
<1>4. BreakerInv => BreakerSound
  <2> SUFFICES ASSUME BreakerInv PROVE BreakerSound
    OBVIOUS
  <2>1. Brk!Cardinality(Probing(call)) = Cardinality(Probing(call))
    BY DEF Brk!Cardinality, Cardinality
  <2>2. Brk!NoPhantomProbe
    BY <2>1 DEF Brk!NoPhantomProbe, Probing, BreakerInv
  <2> QED BY <2>2, WindowExact DEF BreakerSound, BreakerInv
<1> QED BY <1>1, <1>3, <1>4, PTL DEF MCSafety

-----------------------------------------------------------------------------
(* The worker pool's scheduler *)

SleepInv == pending \in [Sched!Queues -> Nat] /\ Sched!NoneSleepsBesideWork

LEMMA SchedulerStep ==
  ASSUME SleepInv, [Sched!Next]_schedulerVars
  PROVE  SleepInv'
<1>1. CASE UNCHANGED schedulerVars
  BY <1>1 DEF schedulerVars, SleepInv, Sched!NoneSleepsBesideWork, Sched!Runnable
<1>2. ASSUME NEW q \in Sched!Queues, Sched!Put(q) PROVE SleepInv'
  <2>1. pending' \in [Sched!Queues -> Nat] /\ asleep' = {}
    BY <1>2 DEF SleepInv, Sched!Put
  <2> QED BY <2>1 DEF SleepInv, Sched!NoneSleepsBesideWork
<1>3. ASSUME NEW t \in Takers, Sched!Take(t) PROVE SleepInv'
  <2>1. CASE Sched!Runnable = {} /\ pending' = pending
    BY <2>1 DEF SleepInv, Sched!NoneSleepsBesideWork, Sched!Runnable
  <2>2. ASSUME NEW q \in Sched!Queues, Sched!Runnable # {}, Sched!Selected(q), UNCHANGED asleep,
               pending' = [pending EXCEPT ![q] = @ - 1]
        PROVE  SleepInv'
    <3>1. asleep = {} /\ asleep' = {}
      BY <2>2 DEF SleepInv, Sched!NoneSleepsBesideWork
    <3>2. pending[q] - 1 \in Nat
      BY <2>2 DEF SleepInv, Sched!Selected, Sched!Runnable
    <3>3. pending' \in [Sched!Queues -> Nat]
      BY <2>2, <3>2 DEF SleepInv
    <3> QED BY <3>1, <3>3 DEF SleepInv, Sched!NoneSleepsBesideWork
  <2> QED BY <1>3, <2>1, <2>2 DEF Sched!Take
<1> QED BY <1>1, <1>2, <1>3 DEF Sched!Next

\* For any takers and capacity: no goroutine of the pool sleeps while a queue has a
\* delivery (take picks the channel it waits on under the mutex that put closes it under).
THEOREM WakeTheorem == MCSafety => []Sched!NoneSleepsBesideWork
<1>1. MCInit => SleepInv
  BY DEF MCInit, Sched!Init, SleepInv, Sched!NoneSleepsBesideWork
<1>2. MCNext \/ UNCHANGED suiteVars => [Sched!Next]_schedulerVars
  BY DEF MCNext, BreakerPart, DispatchPart, RegistryPart, SchedulerPart, RecoveryPart, suiteVars, schedulerVars
<1>3. SleepInv /\ [MCNext]_suiteVars => SleepInv'
  BY <1>2, SchedulerStep
<1>4. SleepInv => Sched!NoneSleepsBesideWork
  BY DEF SleepInv
<1> QED BY <1>1, <1>3, <1>4, PTL DEF MCSafety

-----------------------------------------------------------------------------
(* The recovery reconciler *)

Scans == [at : {"idle", "scan"}, start : Nat, offset : Nat, page : SUBSET Resources]
ScansOK == scan \in [Reconcilers -> Scans] /\ nextScan \in [Reconcilers -> Nat]

CommandsInv == command \in [Resources -> [made : Nat, sent : {0, 1}, dead : BOOLEAN]] /\ Rec!RecoveryBounded
RecoveryInv == CommandsInv /\ ScansOK

\* The pages of a round are resources.
LEMMA AfterScan ==
  ASSUME NEW s \in Scans, NEW page \in SUBSET Resources
  PROVE  Rec!After(s, page) \in Scans
<1>1. Rec!Idle \in Scans
  BY DEF Rec!Idle, Scans
<1> QED BY <1>1 DEF Rec!After, Scans

LEMMA ScansStep ==
  ASSUME ScansOK, [Rec!Next]_recoveryVars
  PROVE  ScansOK'
<1>1. CASE UNCHANGED <<scan, nextScan>>
  BY <1>1 DEF ScansOK
<1>2. ASSUME NEW m \in Reconcilers, Rec!BeginRound(m) PROVE ScansOK'
  <2> DEFINE x == [Rec!Idle EXCEPT !.at = "scan", !.start = nextScan[m]]
  <2>1. x \in Scans
    BY DEF ScansOK, Scans, Rec!Idle
  <2>2. (nextScan[m] + 1) % Classes \in Nat
    BY PlatformAssumption DEF ScansOK
  <2>3. scan' = [scan EXCEPT ![m] = x] /\ nextScan' = [nextScan EXCEPT ![m] = (nextScan[m] + 1) % Classes]
    BY <1>2 DEF Rec!BeginRound
  <2> HIDE DEF x
  <2> QED BY <2>1, <2>2, <2>3 DEF ScansOK
<1>3. ASSUME NEW m \in Reconcilers, Rec!ScanPage(m) PROVE ScansOK'
  <2> DEFINE s == [scan[m] EXCEPT !.offset = scan[m].offset + 1]
  <2>1. s \in Scans
    BY DEF ScansOK, Scans
  <2>2. PICK page \in SUBSET Resources : scan' = [scan EXCEPT ![m] = Rec!After(s, page)]
    <3> DEFINE p == Rec!Page(m, (scan[m].start + scan[m].offset) % Classes, Rec!Slot(scan[m].offset))
    <3>1. p \in SUBSET Resources
      BY DEF Rec!Page, Rec!FirstOf, Rec!Candidates
    <3>2. scan' = [scan EXCEPT ![m] = Rec!After(s, p)]
      BY <1>3 DEF Rec!ScanPage
    <3> HIDE DEF p, s
    <3> QED BY <3>1, <3>2
  <2> HIDE DEF s
  <2>3. Rec!After(s, page) \in Scans /\ nextScan' = nextScan
    BY <1>3, <2>1, AfterScan DEF Rec!ScanPage
  <2> QED BY <2>2, <2>3 DEF ScansOK
<1>4. ASSUME NEW m \in Reconcilers, Rec!Recover(m) PROVE ScansOK'
  <2>1. PICK r \in scan[m].page : scan' = [scan EXCEPT ![m] = Rec!After(scan[m], scan[m].page \ {r})]
    BY <1>4 DEF Rec!Recover
  <2>2. scan[m] \in Scans /\ scan[m].page \ {r} \in SUBSET Resources
    BY DEF ScansOK, Scans
  <2>3. Rec!After(scan[m], scan[m].page \ {r}) \in Scans /\ nextScan' = nextScan
    BY <1>4, <2>2, AfterScan DEF Rec!Recover
  <2> QED BY <2>1, <2>3 DEF ScansOK
<1>5. \/ UNCHANGED <<scan, nextScan>>
      \/ \E m \in Reconcilers : Rec!BeginRound(m) \/ Rec!ScanPage(m) \/ Rec!Recover(m)
  BY DEF Rec!Next, recoveryVars, Rec!StartOperation, Rec!LeaseRunsOut, Rec!StaleAfter, Rec!EndTask
<1> QED BY <1>1, <1>2, <1>3, <1>4, <1>5

\* The steps that touch at most the row of resource r.
LEMMA OneCommand ==
  ASSUME CommandsInv, NEW r \in Resources, NEW x \in [made : Nat, sent : {0, 1}, dead : BOOLEAN],
         command' = [command EXCEPT ![r] = x], x.made <= MaxRecoveryEvents,
         stopped' = stopped, r \in stopped => x.sent = 0
  PROVE  CommandsInv'
<1>1. command'[r] = x /\ \A s \in Resources : s # r => command'[s] = command[s]
  BY DEF CommandsInv
<1>2. command' \in [Resources -> [made : Nat, sent : {0, 1}, dead : BOOLEAN]]
  BY DEF CommandsInv
<1>3. Rec!RecoveryBounded'
  BY <1>1 DEF CommandsInv, Rec!RecoveryBounded, Rec!Attempts
<1> QED BY <1>2, <1>3 DEF CommandsInv

LEMMA EnsureStep ==
  ASSUME CommandsInv, NEW r \in Resources, Rec!Ensure(r)
  PROVE  CommandsInv'
<1>1. CASE UNCHANGED <<command, stopped>>
  BY <1>1 DEF CommandsInv, Rec!RecoveryBounded, Rec!Attempts
<1>2. CASE command' = command /\ stopped' = stopped \cup {r} /\ ~Rec!Active(r)
  <2>1. r \in Resources => command[r].sent = 0
    BY <1>2 DEF Rec!Active, CommandsInv
  <2> QED BY <1>2, <2>1 DEF CommandsInv, Rec!RecoveryBounded, Rec!Attempts
<1>3. CASE Rec!EnsureRecovery(r) /\ r \notin stopped /\ ~Rec!Active(r) /\ Rec!Attempts(r) < MaxRecoveryEvents
  <2> DEFINE x == [made |-> command[r].made + 1, sent |-> command[r].sent + 1, dead |-> FALSE]
  <2>1. command' = [command EXCEPT ![r] = x] /\ stopped' = stopped
    BY <1>3 DEF Rec!EnsureRecovery, CommandsInv
  <2>2. command[r].made \in Nat /\ command[r].made < MaxRecoveryEvents /\ command[r].sent = 0
    BY <1>3 DEF Rec!Active, Rec!Attempts, CommandsInv
  <2>3. x \in [made : Nat, sent : {0, 1}, dead : BOOLEAN] /\ x.made <= MaxRecoveryEvents
    BY <2>2, PlatformAssumption
  <2> HIDE DEF x
  <2> QED BY <1>3, <2>1, <2>3, OneCommand
<1>4. \/ UNCHANGED <<command, stopped>>
      \/ command' = command /\ stopped' = stopped \cup {r} /\ ~Rec!Active(r)
      \/ Rec!EnsureRecovery(r) /\ r \notin stopped /\ ~Rec!Active(r) /\ Rec!Attempts(r) < MaxRecoveryEvents
  <2>4. Rec!Attempts(r) \in Nat /\ MaxRecoveryEvents \in Nat
    BY PlatformAssumption DEF Rec!Attempts, CommandsInv
  <2>1. CASE r \in stopped \/ Rec!Active(r)
    BY <2>1 DEF Rec!Ensure, Rec!Leave
  <2>2. CASE ~(r \in stopped \/ Rec!Active(r)) /\ Rec!Attempts(r) >= MaxRecoveryEvents
    BY <2>2, <2>4 DEF Rec!Ensure, Rec!Leave, Rec!Stop
  <2>3. CASE ~(r \in stopped \/ Rec!Active(r)) /\ Rec!Attempts(r) < MaxRecoveryEvents
    BY <2>3, <2>4 DEF Rec!Ensure, Rec!Leave
  <2> QED BY <2>1, <2>2, <2>3, <2>4
<1> QED BY <1>1, <1>2, <1>3, <1>4

LEMMA CommandsStep ==
  ASSUME CommandsInv, ScansOK, [Rec!Next]_recoveryVars
  PROVE  CommandsInv'
<1>1. CASE UNCHANGED <<command, stopped>>
  BY <1>1 DEF CommandsInv, Rec!RecoveryBounded, Rec!Attempts
<1>2. ASSUME NEW r \in Resources, Rec!EndTask(r) PROVE CommandsInv'
  <2>1. PICK dead \in BOOLEAN : command' = [command EXCEPT ![r].sent = @ - 1, ![r].dead = dead]
    BY <1>2 DEF Rec!EndTask
  <2> DEFINE x == [command[r] EXCEPT !.sent = command[r].sent - 1, !.dead = dead]
  <2>2. command[r] \in [made : Nat, sent : {0, 1}, dead : BOOLEAN] /\ command[r].sent - 1 = 0
        /\ command[r].made <= MaxRecoveryEvents
    BY <1>2 DEF Rec!EndTask, CommandsInv, Rec!RecoveryBounded, Rec!Attempts
  <2>3. x \in [made : Nat, sent : {0, 1}, dead : BOOLEAN] /\ x.made <= MaxRecoveryEvents /\ x.sent = 0
    <3>1. \A y \in [made : Nat, sent : {0, 1}, dead : BOOLEAN], v \in BOOLEAN :
            /\ [y EXCEPT !.sent = 0, !.dead = v] \in [made : Nat, sent : {0, 1}, dead : BOOLEAN]
            /\ [y EXCEPT !.sent = 0, !.dead = v].made = y.made
            /\ [y EXCEPT !.sent = 0, !.dead = v].sent = 0
      OBVIOUS
    <3> QED BY <2>1, <2>2, <3>1
  <2>4. command' = [command EXCEPT ![r] = x] /\ stopped' = stopped
    BY <1>2, <2>1 DEF Rec!EndTask, CommandsInv
  <2> HIDE DEF x
  <2> QED BY <2>3, <2>4, OneCommand
<1>3. ASSUME NEW m \in Reconcilers, Rec!Recover(m) PROVE CommandsInv'
  <2>1. scan[m].page \in SUBSET Resources
    BY DEF ScansOK, Scans
  <2> QED BY <1>3, <2>1, EnsureStep DEF Rec!Recover
<1>4. \/ UNCHANGED <<command, stopped>> \/ (\E r \in Resources : Rec!EndTask(r))
      \/ \E m \in Reconcilers : Rec!Recover(m)
  BY DEF Rec!Next, recoveryVars, Rec!StartOperation, Rec!LeaseRunsOut, Rec!StaleAfter, Rec!BeginRound, Rec!ScanPage
<1> QED BY <1>1, <1>2, <1>3, <1>4

\* For any reconcilers, retryable classes and budget: a resource never gets more new
\* commands than its budget, never has two under way, and is not given up while it has
\* one (ensureWithPolicy).
THEOREM RecoveryTheorem == MCSafety => []Rec!RecoveryBounded
<1>1. MCInit => RecoveryInv
  <2> SUFFICES ASSUME MCInit PROVE RecoveryInv
    OBVIOUS
  <2>1. command = [r \in Resources |-> [made |-> 0, sent |-> 1, dead |-> FALSE]] /\ stopped = {}
    BY DEF MCInit, Rec!Init
  <2>2. ScansOK
    BY DEF MCInit, Rec!Init, Rec!Idle, ScansOK, Scans
  <2> QED BY <2>1, <2>2, PlatformAssumption DEF RecoveryInv, CommandsInv, Rec!RecoveryBounded, Rec!Attempts
<1>2. MCNext \/ UNCHANGED suiteVars => [Rec!Next]_recoveryVars
  BY DEF MCNext, BreakerPart, DispatchPart, RegistryPart, SchedulerPart, RecoveryPart, suiteVars, recoveryVars
<1>3. RecoveryInv /\ [MCNext]_suiteVars => RecoveryInv'
  BY <1>2, ScansStep, CommandsStep DEF RecoveryInv
<1>4. RecoveryInv => Rec!RecoveryBounded
  BY DEF RecoveryInv, CommandsInv
<1> QED BY <1>1, <1>3, <1>4, PTL DEF MCSafety

=============================================================================
