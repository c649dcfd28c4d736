---------------------------- MODULE TaskDelivery ----------------------------
(***************************************************************************)
(* One asynchronous task from its outbox delivery to its receipt: the      *)
(* dispatchers that publish it (outbox), the broker's queues (RabbitMQ),   *)
(* the consumers that execute it (taskqueue) and the replay of             *)
(* publications without a receipt (outbox execution recovery).             *)
(*                                                                         *)
(* A message is the retry count in its header.  The main queue and the     *)
(* delay queues that feed it are one queue: a consumer may take a message  *)
(* at any later time.                                                      *)
(***************************************************************************)
EXTENDS Naturals, FiniteSets, FiniteSetsExt

CONSTANTS Dispatchers, Consumers,
          MaxRetry,   \* x-max-retry of the task
          MaxFaults,  \* how many faults happen
          MaxCopies,  \* a publication is replayed only below this many copies of it
          Nobody

ASSUME DeliveryAssumption ==
  /\ MaxRetry \in Nat /\ MaxFaults \in Nat /\ MaxCopies \in Nat \ {0}
  /\ Nobody \notin Dispatchers \cup Consumers

Counts == 0 .. MaxRetry

VARIABLES dlv,     \* the outbox_deliveries row
          disp,    \* dispatchers
          queue,   \* broker: messages by retry count
          dlq,     \* broker: the dead letter queue holds the task
          cons,    \* consumers, each with at most one unacknowledged message
          exec,    \* the task_executions row
          result,  \* the task_results row
          failure, \* whether a task_failures row exists
          done,    \* the handler's business effect is committed
          faults

vars == <<dlv, disp, queue, dlq, cons, exec, result, failure, done, faults>>

\* A handler's outcome, then what happens to the message.
Outcomes == {"ok", "fail", "skip"}
Settling == {"ack", "busy", "retry", "dlq", "nack"}

TypeOK ==
  /\ dlv \in [status : {"pending", "sending", "published"}, owner : Dispatchers \cup {Nobody},
              retry : Counts]
  /\ disp \in [Dispatchers -> [pc : {"idle", "send", "ack", "fail"}, retry : Counts]]
  /\ queue \in [Counts -> Nat] /\ dlq \in BOOLEAN
  /\ cons \in [Consumers -> [pc : {"idle", "claim", "run"} \cup Outcomes \cup Settling,
                             header : Counts, count : Counts, late : BOOLEAN]]
  /\ exec \in [status : {"none", "running", "retry", "finished"}, owner : Consumers \cup {Nobody},
               timer : {"set", "over"}, count : Counts]
  /\ result \in {"none", "succeeded", "dead"} /\ failure \in BOOLEAN /\ done \in BOOLEAN
  /\ faults \in 0 .. MaxFaults

IdleConsumer == [pc |-> "idle", header |-> 0, count |-> 0, late |-> FALSE]
IdleDispatcher == [pc |-> "idle", retry |-> 0]

\* The business transaction has just committed its outbox rows.
Init ==
  /\ dlv = [status |-> "pending", owner |-> Nobody, retry |-> 0]
  /\ disp = [d \in Dispatchers |-> IdleDispatcher]
  /\ queue = [n \in Counts |-> 0] /\ dlq = FALSE
  /\ cons = [c \in Consumers |-> IdleConsumer]
  /\ exec = [status |-> "none", owner |-> Nobody, timer |-> "over", count |-> 0]
  /\ result = "none" /\ failure = FALSE /\ done = FALSE
  /\ faults = 0

Fault == faults < MaxFaults /\ faults' = faults + 1

-----------------------------------------------------------------------------
(* Dispatchers *)

OwnsDelivery(d) == dlv.status = "sending" /\ dlv.owner = d

\* claimDeliveries: due rows, and rows whose lease has run out.
ClaimDelivery(d) ==
  /\ disp[d].pc = "idle"
  /\ \/ dlv.status = "pending" /\ UNCHANGED faults
     \/ dlv.status = "sending" /\ disp[dlv.owner].pc = "idle" /\ UNCHANGED faults
     \/ dlv.status = "sending" /\ disp[dlv.owner].pc # "idle" /\ Fault
  /\ dlv' = [dlv EXCEPT !.status = "sending", !.owner = d]
  /\ disp' = [disp EXCEPT ![d] = [pc |-> "send", retry |-> dlv.retry]]
  /\ UNCHANGED <<queue, dlq, cons, exec, result, failure, done>>

Publish(n) == queue' = [queue EXCEPT ![n] = @ + 1]

\* sendDelivery: published and confirmed; or, as a fault, refused, or accepted
\* with the confirmation lost.
SendDelivery(d) ==
  /\ disp[d].pc = "send"
  /\ \/ /\ Publish(disp[d].retry)
        /\ disp' = [disp EXCEPT ![d].pc = "ack"]
        /\ UNCHANGED faults
     \/ /\ Fault
        /\ Publish(disp[d].retry) \/ UNCHANGED queue
        /\ disp' = [disp EXCEPT ![d].pc = "fail"]
  /\ UNCHANGED <<dlv, dlq, cons, exec, result, failure, done>>

\* ackDelivery and failDelivery, fenced by the lease token.
RecordDelivery(d) ==
  /\ disp[d].pc \in {"ack", "fail"}
  /\ dlv' = IF ~OwnsDelivery(d) THEN dlv
            ELSE [dlv EXCEPT !.status = IF disp[d].pc = "ack" THEN "published" ELSE "pending",
                             !.owner = Nobody]
  /\ disp' = [disp EXCEPT ![d] = IdleDispatcher]
  /\ UNCHANGED <<queue, dlq, cons, exec, result, failure, done, faults>>

CrashDispatcher(d) ==
  /\ disp[d].pc # "idle" /\ Fault
  /\ disp' = [disp EXCEPT ![d] = IdleDispatcher]
  /\ UNCHANGED <<dlv, queue, dlq, cons, exec, result, failure, done>>

\* The copies of the task that the broker holds, delivered or not.
Copies ==
  MapThenSumSet(LAMBDA n : queue[n], Counts) + Cardinality({c \in Consumers : cons[c].pc # "idle"})

\* recoverPublished: a publication that has been without a receipt for too long,
\* nobody executing it, goes out again under the same task id.
RecoverPublished ==
  /\ dlv.status = "published" /\ result = "none"
  /\ exec.status # "none" => exec.status \in {"running", "retry"} /\ exec.timer = "over"
  /\ Copies < MaxCopies
  /\ dlv' = [dlv EXCEPT !.status = "pending", !.retry = IF exec.status = "none" THEN @ ELSE exec.count]
  /\ UNCHANGED <<disp, queue, dlq, cons, exec, result, failure, done, faults>>

\* The broker loses a message it had confirmed.
LoseMessage(n) ==
  /\ queue[n] > 0 /\ Fault
  /\ queue' = [queue EXCEPT ![n] = @ - 1]
  /\ UNCHANGED <<dlv, disp, dlq, cons, exec, result, failure, done>>

-----------------------------------------------------------------------------
(* Consumers *)

Go(c, pc) == cons' = [cons EXCEPT ![c].pc = pc]

Receive(c, n) ==
  /\ cons[c].pc = "idle" /\ queue[n] > 0
  /\ queue' = [queue EXCEPT ![n] = @ - 1]
  /\ cons' = [cons EXCEPT ![c] = [pc |-> "claim", header |-> n, count |-> n, late |-> FALSE]]
  /\ UNCHANGED <<dlv, disp, dlq, exec, result, failure, done, faults>>

\* Mutants: a live lease does not keep others away; a recorded success is answered
\* like a busy task.
RefusalUnleased ==
  CASE result = "succeeded" -> "ack"
    [] result = "dead" \/ (result = "none" /\ exec.status = "finished") -> "dlq"
    [] OTHER -> "none"
RefusalCycles ==
  CASE result = "dead" -> "dlq"
    [] result = "succeeded" \/ (exec.status \in {"running", "retry"} /\ exec.timer = "set") -> "busy"
    [] OTHER -> "none"

\* claim: what a consumer does with a delivery it may not execute.
Refusal ==
  CASE result = "succeeded" -> "ack"
    [] result = "dead" -> "dlq"
    [] result = "none" /\ exec.status \in {"running", "retry"} /\ exec.timer = "set" -> "busy"
    [] result = "none" /\ exec.status = "finished" -> "dlq"
    [] OTHER -> "none"

\* Mutant: the header's retry count is believed.
ClaimByHeader(c) ==
  /\ cons[c].pc = "claim"
  /\ IF Refusal # "none"
       THEN Go(c, Refusal) /\ UNCHANGED exec
       ELSE /\ exec' = [status |-> "running", owner |-> c, timer |-> "set", count |-> cons[c].header]
            /\ Go(c, "run")
  /\ UNCHANGED <<dlv, disp, queue, dlq, result, failure, done, faults>>

\* The retry count of an existing row overrides the header's.
Claim(c) ==
  LET count == IF exec.status = "none" THEN cons[c].header ELSE exec.count IN
  /\ cons[c].pc = "claim"
  /\ IF Refusal # "none"
       THEN Go(c, Refusal) /\ UNCHANGED exec
       ELSE /\ exec' = [status |-> "running", owner |-> c, timer |-> "set", count |-> count]
            /\ cons' = [cons EXCEPT ![c].pc = "run", ![c].count = count]
  /\ UNCHANGED <<dlv, disp, queue, dlq, result, failure, done, faults>>

\* The handler returns; one that fails or is cancelled may have committed.
Handle(c) ==
  /\ cons[c].pc = "run"
  /\ \E out \in Outcomes :
       /\ Go(c, out)
       /\ done' \in IF out = "ok" THEN {TRUE} ELSE {done, TRUE}
  /\ UNCHANGED <<dlv, disp, queue, dlq, exec, result, failure, faults>>

OwnsExecution(c) == exec.status = "running" /\ exec.owner = c /\ exec.timer = "set"

Terminal(c) == cons[c].pc = "skip" \/ (cons[c].pc = "fail" /\ cons[c].count >= MaxRetry)

Finished == [exec EXCEPT !.status = "finished", !.owner = Nobody, !.timer = "over"]
Retrying(count, timer) == [status |-> "retry", owner |-> Nobody, timer |-> timer, count |-> count]

\* Receipts are inserted only where there is none.
InsertSuccess == result' = (IF result = "none" THEN "succeeded" ELSE result)
RecordFailure ==
  IF result = "succeeded" THEN UNCHANGED <<result, failure>>
  ELSE failure' = TRUE /\ result' = "dead"

\* finish: the receipt and the row's last state in one transaction, fenced by the
\* lease; what then happens to the delivery follows from the outcome.
FinishLost(c) ==
  /\ ~OwnsExecution(c)
  /\ Go(c, "nack") /\ UNCHANGED <<exec, result, failure>>

\* Mutant: the success is saved outside the fence.
FinishSuccessUnfenced(c) ==
  /\ cons[c].pc = "ok"
  /\ result' = "succeeded" /\ UNCHANGED <<exec, failure>>
  /\ Go(c, "ack")

FinishSuccess(c) ==
  /\ OwnsExecution(c) /\ cons[c].pc = "ok"
  /\ exec' = Finished /\ InsertSuccess
  /\ Go(c, "ack") /\ UNCHANGED failure
FinishDead(c) ==
  /\ OwnsExecution(c) /\ Terminal(c)
  /\ exec' = Finished /\ RecordFailure
  /\ Go(c, "dlq")
FinishRetry(c) ==
  /\ OwnsExecution(c) /\ cons[c].pc = "fail" /\ ~Terminal(c)
  /\ exec' = Retrying(cons[c].count + 1, "set")
  /\ Go(c, "retry") /\ UNCHANGED <<result, failure>>

Finish(c) ==
  /\ cons[c].pc \in Outcomes
  /\ FinishLost(c) \/ FinishSuccess(c) \/ FinishDead(c) \/ FinishRetry(c)
  /\ UNCHANGED <<dlv, disp, queue, dlq, done, faults>>

\* Publish to a delay queue or to the dead letter queue, then acknowledge; a lost
\* confirmation returns the delivery as well.
Republish(c) ==
  /\ cons[c].pc \in {"busy", "retry", "dlq"}
  /\ CASE cons[c].pc = "busy" -> Publish(cons[c].header)
       [] cons[c].pc = "retry" -> Publish(cons[c].count + 1)
       [] OTHER -> UNCHANGED queue
  /\ dlq' = (dlq \/ cons[c].pc = "dlq")
  /\ \/ Go(c, "ack") /\ UNCHANGED faults
     \/ Go(c, "nack") /\ Fault
  /\ UNCHANGED <<dlv, disp, exec, result, failure, done>>

Acknowledge(c) ==
  /\ cons[c].pc = "ack"
  /\ cons' = [cons EXCEPT ![c] = IdleConsumer]
  /\ UNCHANGED <<dlv, disp, queue, dlq, exec, result, failure, done, faults>>

Requeue(c) ==
  /\ queue' = [queue EXCEPT ![cons[c].header] = @ + 1]
  /\ cons' = [cons EXCEPT ![c] = IdleConsumer]

Nack(c) ==
  /\ cons[c].pc = "nack"
  /\ Requeue(c)
  /\ UNCHANGED <<dlv, disp, dlq, exec, result, failure, done, faults>>

Executing(c) == cons[c].pc \in {"run"} \cup Outcomes

\* A lease runs out when its owner is gone or, as a fault, is merely late (a
\* history field); a retry becomes due.
TimerRunsOut ==
  /\ exec.timer = "set"
  /\ IF exec.status = "running" /\ Executing(exec.owner)
       THEN Fault /\ cons' = [cons EXCEPT ![exec.owner].late = TRUE]
       ELSE UNCHANGED <<faults, cons>>
  /\ exec' = [exec EXCEPT !.timer = "over"]
  /\ UNCHANGED <<dlv, disp, queue, dlq, result, failure, done>>

-----------------------------------------------------------------------------
(* Faults of consumers *)

\* A database, publish or acknowledgement error, or a lease that could not be
\* renewed: the delivery goes back to the broker.
StepFails(c) ==
  /\ cons[c].pc \in {"claim", "busy", "retry", "dlq", "ack"} \cup Outcomes /\ Fault
  /\ Go(c, "nack")
  /\ UNCHANGED <<dlv, disp, queue, dlq, exec, result, failure, done>>

\* Shutdown does not spend a retry.
Shutdown(c) ==
  /\ Executing(c) /\ Fault
  /\ exec' = IF OwnsExecution(c) THEN Retrying(cons[c].count, "over") ELSE exec
  /\ Go(c, "nack")
  /\ UNCHANGED <<dlv, disp, queue, dlq, result, failure, done>>

\* A process that dies in the handler may leave its effect behind.
EffectOfDying(c) == done' \in IF cons[c].pc = "run" THEN {done, TRUE} ELSE {done}

\* A handler that ignores its cancellation: recordStuck spends a retry, keeps the
\* lease to the end of the process, and the process exits.
Stuck(c) ==
  /\ cons[c].pc = "run" /\ OwnsExecution(c) /\ Fault
  /\ IF cons[c].count >= MaxRetry
       THEN RecordFailure /\ UNCHANGED exec
       ELSE exec' = [exec EXCEPT !.count = cons[c].count + 1] /\ UNCHANGED <<result, failure>>
  /\ Requeue(c) /\ EffectOfDying(c)
  /\ UNCHANGED <<dlv, disp, dlq>>

\* The process dies; the broker redelivers what was not acknowledged.
CrashConsumer(c) ==
  /\ cons[c].pc # "idle" /\ Fault
  /\ Requeue(c) /\ EffectOfDying(c)
  /\ UNCHANGED <<dlv, disp, dlq, exec, result, failure>>

ConsumerStep(c) ==
  \/ Claim(c) \/ Handle(c) \/ Finish(c) \/ Republish(c) \/ Acknowledge(c) \/ Nack(c)

Next ==
  \/ \E d \in Dispatchers : ClaimDelivery(d) \/ SendDelivery(d) \/ RecordDelivery(d) \/ CrashDispatcher(d)
  \/ RecoverPublished
  \/ \E n \in Counts : LoseMessage(n)
  \/ \E c \in Consumers, n \in Counts : Receive(c, n)
  \/ \E c \in Consumers : ConsumerStep(c) \/ StepFails(c) \/ Shutdown(c) \/ Stuck(c) \/ CrashConsumer(c)
  \/ TimerRunsOut

Spec == Init /\ [][Next]_vars

\* Dispatchers poll, consumers reconnect, the recovery batch runs periodically,
\* time passes and handlers are bounded by their timeout.
Fairness ==
  /\ WF_vars(\E d \in Dispatchers : ClaimDelivery(d))
  /\ \A d \in Dispatchers : WF_vars(SendDelivery(d)) /\ WF_vars(RecordDelivery(d))
  /\ WF_vars(RecoverPublished) /\ WF_vars(TimerRunsOut)
  /\ WF_vars(\E c \in Consumers, n \in Counts : Receive(c, n))
  /\ \A c \in Consumers : WF_vars(ConsumerStep(c))

FairSpec == Spec /\ Fairness

-----------------------------------------------------------------------------
(* Properties *)

\* Two consumers execute the task at the same time only if the lease of one ran
\* out under it: a stuck handler takes its process down before its lease ends.
OneExecutor ==
  \A b, c \in Consumers :
    cons[b].pc = "run" /\ cons[c].pc = "run" /\ b # c => cons[b].late \/ cons[c].late

\* A success receipt means that the handler's effect is committed, and a task in
\* the dead letter queue (or with a failure row) has a dead receipt: no path
\* reports an outcome that is not recorded.  A finished execution has a receipt:
\* recoverPublished would stop its whole scan at one without.
ReceiptsTellTheTruth ==
  /\ result = "succeeded" => done
  /\ dlq => result = "dead"
  /\ failure <=> result = "dead"
  /\ exec.status = "finished" => result # "none"

\* What is recorded is kept: no replayed or redelivered message with an older
\* header and no late handler forgets a retry that the execution row has counted,
\* or changes a receipt.
RecordsKept ==
  [][/\ exec.status # "none" => exec'.count >= exec.count
     /\ result # "none" => result' = result]_vars

\* Every task gets its receipt in spite of lost messages, lost confirmations,
\* crashes and redeliveries, and then its messages drain: none cycles on.
TaskSettles == <>(result # "none") /\ <>[](Copies = 0)
=============================================================================
