------------------------------- MODULE Upload -------------------------------
(***************************************************************************)
(* Upload sessions of one user (package upload): quota reservations, the   *)
(* multipart upload at the provider, and the durable operations that drive *)
(* a session from Create to a file entry or to a terminal failure.         *)
(*                                                                         *)
(* Operations are rows of the storage-operation ledger (StorageOps): here  *)
(* a row keeps its state, attempt, owner and upload id; waiting out a      *)
(* backoff is part of "pending".  Workers run one operation's handler,     *)
(* one step per provider call or database transaction.                     *)
(***************************************************************************)
EXTENDS Naturals

CONSTANTS Sessions,     \* upload requests, each with its own idempotency key
          Workers,      \* upload workers
          Size,         \* declared size of each session's file
          Name,         \* its normalised name (all in one folder)
          Content,      \* its declared sha256
          Quota,        \* quota_bytes of the user
          MaxAttempts,  \* attempts of an operation
          MaxFaults,    \* how many errors, crashes, outlived leases and stops happen
          Nobody, NoOp

ASSUME UploadConstants ==
  /\ Size \in [Sessions -> Nat \ {0}]
  /\ Quota \in Nat /\ MaxAttempts \in Nat \ {0}
  /\ MaxFaults \in Nat
  /\ Nobody \notin Workers

Kinds == {"create", "complete", "abort", "staging"}
Ops == Sessions \X Kinds

ASSUME NoOpAssumption == NoOp \notin Ops

\* Provider upload ids of one session, in the order they are initiated; 0 is "".
\* Attempts bound how many there are.
UploadIds == Nat

VARIABLES sess,      \* upload_sessions
          user,      \* used_logical_bytes and reserved_bytes
          entry,     \* sessions whose file entry is live
          overdue,   \* sessions past expires_at
          confirming,\* ConfirmParts calls that have read the status
          op,        \* storage_operations of the sessions
          stopped,   \* operations whose recovery family has stopped_at set
          wk,        \* upload workers
          mp,        \* provider: open multipart uploads
          made,      \* provider: multipart uploads initiated so far
          staged,    \* provider: sessions whose staging object exists
          reply,     \* what the last Create of a session answered
          faults     \* faults so far, and whether a worker outlived its lease

vars == <<sess, user, entry, overdue, confirming, op, stopped, wk, mp, made, staged, reply, faults>>

Active == {"initializing", "created", "uploading", "completing", "verifying"}
Expirable == {"initializing", "created", "uploading"}
Gone == {"aborted", "expired", "failed"}
Status == Active \cup Gone \cup {"none", "completed"}

\* "skip" records success without doing anything; "err" is RecordError.
Steps == {"idle", "begin", "list", "new", "persist", "finish", "call", "mark", "clear", "skip", "err"}

TypeOK ==
  /\ sess \in [Sessions -> [status : Status, reserved : Nat, id : UploadIds, parts : BOOLEAN]]
  /\ user \in [used : Nat, reserved : Nat]
  /\ entry \subseteq Sessions /\ overdue \subseteq Sessions /\ confirming \subseteq Sessions
  /\ op \in [Ops -> [state : {"absent", "pending", "running", "succeeded", "dead"},
                     attempt : 0..MaxAttempts, owner : Workers \cup {Nobody}, id : UploadIds]]
  /\ stopped \subseteq Ops
  /\ wk \in [Workers -> [pc : Steps, op : Ops \cup {NoOp}, id : UploadIds, gone : BOOLEAN]]
  /\ mp \in [Sessions -> SUBSET UploadIds] /\ made \in [Sessions -> UploadIds]
  /\ staged \subseteq Sessions
  /\ reply \in [Sessions -> {"none", "multipart", "quota", "name", "file_exists"}]
  /\ faults \in [n : 0 .. MaxFaults, outlived : BOOLEAN]

NoOpRow == [state |-> "absent", attempt |-> 0, owner |-> Nobody, id |-> 0]
IdleWorker == [pc |-> "idle", op |-> NoOp, id |-> 0, gone |-> FALSE]

Init ==
  /\ sess = [s \in Sessions |-> [status |-> "none", reserved |-> 0, id |-> 0, parts |-> FALSE]]
  /\ user = [used |-> 0, reserved |-> 0]
  /\ entry = {} /\ overdue = {} /\ confirming = {} /\ stopped = {} /\ staged = {}
  /\ op = [o \in Ops |-> NoOpRow]
  /\ wk = [w \in Workers |-> IdleWorker]
  /\ mp = [s \in Sessions |-> {}]
  /\ made = [s \in Sessions |-> 0]
  /\ reply = [s \in Sessions |-> "none"]
  /\ faults = [n |-> 0, outlived |-> FALSE]

Fault(outlived) ==
  /\ faults.n < MaxFaults
  /\ faults' = [n |-> faults.n + 1, outlived |-> faults.outlived \/ outlived]

-----------------------------------------------------------------------------
(* Quota and operations *)

FitsQuotaIgnoringReserved(n) == user.used + n <= Quota

FitsQuota(n) == user.used + user.reserved + n <= Quota
MinusFloor(a, b) == IF a >= b THEN a - b ELSE 0           \* GREATEST(a - b, 0)
ReserveQuota(n) == user' = [user EXCEPT !.reserved = @ + n]
ReleaseQuota(n) == user' = [user EXCEPT !.reserved = MinusFloor(@, n)]
CommitQuota(reserved, logical) ==
  user' = [used |-> user.used + logical, reserved |-> MinusFloor(user.reserved, reserved)]

\* storageops.Enqueue under the key "<kind>:<session>".
Enqueue(ops, s, kind, id) ==
  IF ops[<<s, kind>>].state = "absent"
    THEN [ops EXCEPT ![<<s, kind>>] = [NoOpRow EXCEPT !.state = "pending", !.id = id]]
    ELSE ops

SetStatus(s, status) == sess' = [sess EXCEPT ![s].status = status]
CloseKeepsReservation(s, status) == SetStatus(s, status)

Close(s, status) == sess' = [sess EXCEPT ![s].status = status, ![s].reserved = 0]

\* multipart.abort is only enqueued for a session that knows its upload id.
EnqueueAbort(ops, s, id) == IF id = 0 THEN ops ELSE Enqueue(ops, s, "abort", id)

-----------------------------------------------------------------------------
(* The user's requests *)

\* A live session holds its name only until expires_at.
NameTaken(s) ==
  \/ \E t \in entry : Name[t] = Name[s]
  \/ \E t \in Sessions \ overdue : Name[t] = Name[s] /\ sess[t].status \in Active

\* FindOwnedWith: the user has a live entry with this content.
OwnsContent(s) == \E t \in entry : Content[t] = Content[s]

\* Create.  For content the user already stores, the instant branch runs into
\* the unique (owner, object) check of CreateFile and is rolled back.
Create(s) ==
  /\ sess[s].status = "none"
  /\ UNCHANGED <<entry, overdue, confirming, stopped, wk, mp, made, staged, faults>>
  /\ \/ /\ NameTaken(s)
        /\ reply' = [reply EXCEPT ![s] = "name"]
        /\ UNCHANGED <<sess, user, op>>
     \/ /\ ~NameTaken(s) /\ FitsQuota(Size[s]) /\ OwnsContent(s)
        /\ reply' = [reply EXCEPT ![s] = "file_exists"]
        /\ UNCHANGED <<sess, user, op>>
     \/ /\ ~NameTaken(s) /\ ~FitsQuota(Size[s])
        /\ reply' = [reply EXCEPT ![s] = "quota"]
        /\ UNCHANGED <<sess, user, op>>
     \/ /\ ~NameTaken(s) /\ FitsQuota(Size[s]) /\ ~OwnsContent(s)
        /\ reply' = [reply EXCEPT ![s] = "multipart"]
        /\ ReserveQuota(Size[s])
        /\ sess' = [sess EXCEPT ![s].status = "initializing", ![s].reserved = Size[s]]
        /\ op' = Enqueue(op, s, "create", 0)

\* ConfirmParts reads the status first and stores the parts in a transaction of
\* its own; the last of the parts arrives with it.
ConfirmRead(s) ==
  /\ s \notin confirming
  /\ sess[s].status \in {"created", "uploading"} /\ ~sess[s].parts
  /\ confirming' = confirming \cup {s}
  /\ UNCHANGED <<sess, user, entry, overdue, op, stopped, wk, mp, made, staged, reply, faults>>

ConfirmStoreAnyStatus(s) ==
  /\ s \in confirming
  /\ confirming' = confirming \ {s}
  /\ sess' = [sess EXCEPT ![s].parts = TRUE, ![s].status = "uploading"]
  /\ UNCHANGED <<user, entry, overdue, op, stopped, wk, mp, made, staged, reply, faults>>

ConfirmStore(s) ==
  /\ s \in confirming
  /\ confirming' = confirming \ {s}
  /\ sess' = [sess EXCEPT ![s].parts = TRUE,
                          ![s].status = IF @ = "created" THEN "uploading" ELSE @]
  /\ UNCHANGED <<user, entry, overdue, op, stopped, wk, mp, made, staged, reply, faults>>

Complete(s) ==
  /\ sess[s].status \in {"created", "uploading"}
  /\ sess[s].parts /\ sess[s].id # 0
  /\ SetStatus(s, "completing")
  /\ op' = Enqueue(op, s, "complete", sess[s].id)
  /\ UNCHANGED <<user, entry, overdue, confirming, stopped, wk, mp, made, staged, reply, faults>>

\* Abort is refused while the provider completes or the object is verified; an
\* expired session can still be aborted.
Abort(s) ==
  /\ sess[s].status \in Expirable \cup {"expired"}
  /\ ReleaseQuota(sess[s].reserved)
  /\ Close(s, "aborted")
  /\ op' = EnqueueAbort(op, s, sess[s].id)
  /\ UNCHANGED <<entry, overdue, confirming, stopped, wk, mp, made, staged, reply, faults>>

\* drive.FileManager.Delete of the uploaded file.
DeleteFile(s) ==
  /\ s \in entry
  /\ entry' = entry \ {s}
  /\ user' = [user EXCEPT !.used = MinusFloor(@, Size[s])]
  /\ UNCHANGED <<sess, overdue, confirming, op, stopped, wk, mp, made, staged, reply, faults>>

-----------------------------------------------------------------------------
(* Maintenance *)

PassExpiry(s) ==
  /\ sess[s].status \in Active /\ s \notin overdue
  /\ overdue' = overdue \cup {s}
  /\ UNCHANGED <<sess, user, entry, confirming, op, stopped, wk, mp, made, staged, reply, faults>>

Expire(s) ==
  /\ sess[s].status \in Expirable /\ s \in overdue
  /\ ReleaseQuota(sess[s].reserved)
  /\ Close(s, "expired")
  /\ op' = EnqueueAbort(op, s, sess[s].id)
  /\ UNCHANGED <<entry, overdue, confirming, stopped, wk, mp, made, staged, reply, faults>>

\* The operation a session in this status waits for.
Waiting(s) == IF sess[s].status = "initializing" THEN <<s, "create">> ELSE <<s, "complete">>

\* convergeSucceededOperation: the provider's work is recorded, the session's
\* own transaction was lost.
Converge(s) ==
  /\ sess[s].status \in {"initializing", "completing"}
  /\ op[Waiting(s)].state = "succeeded"
  /\ sess[s].status = "initializing" => op[<<s, "create">>].id # 0
  /\ sess' = IF sess[s].status = "initializing"
               THEN [sess EXCEPT ![s].status = "created", ![s].id = op[<<s, "create">>].id]
               ELSE [sess EXCEPT ![s].status = "verifying"]
  /\ UNCHANGED <<user, entry, overdue, confirming, op, stopped, wk, mp, made, staged, reply, faults>>

\* An operation that is neither succeeded nor dead is given up.
GiveUp(ops, o) ==
  IF ops[o].state \in {"succeeded", "dead"} THEN ops
  ELSE [ops EXCEPT ![o].state = "dead", ![o].owner = Nobody]

RetireKeepsStaging(s) ==
  /\ sess[s].status \in {"initializing", "completing"}
  /\ op[Waiting(s)].state = "dead" \/ (Waiting(s) \in stopped /\ op[Waiting(s)].state # "running")
  /\ ReleaseQuota(sess[s].reserved)
  /\ Close(s, "failed")
  /\ op' = EnqueueAbort(GiveUp(op, Waiting(s)), s, sess[s].id)
  /\ UNCHANGED <<entry, overdue, confirming, stopped, wk, mp, made, staged, reply, faults>>

\* RetireStoppedSessions.
Retire(s) ==
  LET o == Waiting(s)
      id == IF sess[s].id # 0 THEN sess[s].id ELSE op[o].id
  IN /\ sess[s].status \in {"initializing", "completing"}
     /\ op[o].state = "dead" \/ (o \in stopped /\ op[o].state # "running")
     /\ ReleaseQuota(sess[s].reserved)
     /\ Close(s, "failed")
     /\ op' = Enqueue(EnqueueAbort(GiveUp(op, o), s, id), s, "staging", 0)
     /\ UNCHANGED <<entry, overdue, confirming, stopped, wk, mp, made, staged, reply, faults>>

VerifyCommitUnchecked(s) ==
  /\ sess[s].status = "verifying" /\ s \in staged
  /\ entry' = entry \cup {s}
  /\ CommitQuota(sess[s].reserved, Size[s])
  /\ Close(s, "completed")
  /\ op' = Enqueue(op, s, "staging", 0)
  /\ UNCHANGED <<overdue, confirming, stopped, wk, mp, made, staged, reply, faults>>

\* Verify, once the staging object was read and its canonical copy is ensured
\* (ContentStore has those steps): the transaction that publishes the file.
VerifyCommit(s) ==
  /\ sess[s].status = "verifying" /\ s \in staged
  /\ ~\E t \in entry : Name[t] = Name[s]
  /\ ~OwnsContent(s)
  /\ entry' = entry \cup {s}
  /\ CommitQuota(sess[s].reserved, Size[s])
  /\ Close(s, "completed")
  /\ op' = Enqueue(op, s, "staging", 0)
  /\ UNCHANGED <<overdue, confirming, stopped, wk, mp, made, staged, reply, faults>>

\* fail: a hash mismatch, a name taken meanwhile, content the user has meanwhile,
\* or verification given up by its task or by retireStoppedVerifications.
VerifyFail(s) ==
  /\ sess[s].status = "verifying"
  /\ ReleaseQuota(sess[s].reserved)
  /\ Close(s, "failed")
  /\ op' = Enqueue(op, s, "staging", 0)
  /\ UNCHANGED <<entry, overdue, confirming, stopped, wk, mp, made, staged, reply, faults>>

-----------------------------------------------------------------------------
(* The ledger, as StorageOps describes it *)

\* Due for a claim: the row is pending or the worker of its lease is gone.
Due(o) == op[o].state = "pending" \/ (op[o].state = "running" /\ wk[op[o].owner].op # o)

\* A worker so slow that it could not renew its lease, which is a fault.
Slow(o) == op[o].state = "running" /\ wk[op[o].owner].op = o
Lapsed(o) == (Due(o) /\ UNCHANGED faults) \/ (Slow(o) /\ Fault(TRUE))

Claim(w, o) ==
  /\ wk[w].pc = "idle"
  /\ op[o].attempt < MaxAttempts
  /\ Lapsed(o)
  /\ op' = [op EXCEPT ![o].state = "running", ![o].owner = w, ![o].attempt = @ + 1]
  \* ReconcileStorageOperation reads the row before it claims it, so the upload
  \* id it works with may be the empty one of an earlier moment.
  /\ \E id \in IF o[2] = "create" THEN {op[o].id, 0} ELSE {op[o].id} :
       wk' = [wk EXCEPT ![w] = [pc |-> IF o[2] \in {"create", "complete"} THEN "begin" ELSE "call",
                                op |-> o, id |-> id, gone |-> FALSE]]
  /\ UNCHANGED <<sess, user, entry, overdue, confirming, stopped, mp, made, staged, reply>>

StopExhausted(o) ==
  /\ op[o].attempt >= MaxAttempts
  /\ Lapsed(o)
  /\ op' = [op EXCEPT ![o].state = "dead", ![o].owner = Nobody]
  /\ UNCHANGED <<sess, user, entry, overdue, confirming, stopped, wk, mp, made, staged, reply>>

\* recovery.ensureWithPolicy out of recovery events for an operation that the
\* scan of recoverStorageOperations selects; a live replacement is left alone.
RecoveryStops(o) ==
  /\ o \notin stopped
  /\ \/ Due(o) /\ Fault(FALSE)
     \/ Slow(o) /\ Fault(TRUE)
     \/ /\ op[o].state = "succeeded" /\ Fault(FALSE)
        /\ sess[o[1]].status \in {"initializing", "completing"} /\ Waiting(o[1]) = o
  /\ stopped' = stopped \cup {o}
  /\ op' = GiveUp(op, o)
  /\ UNCHANGED <<sess, user, entry, overdue, confirming, wk, mp, made, staged, reply>>

Owns(w) == op[wk[w].op].state = "running" /\ op[wk[w].op].owner = w

\* MarkSucceededOwned returns nil.
MaySucceed(w) == Owns(w) \/ op[wk[w].op].state = "succeeded"
Succeeded(w) ==
  IF Owns(w) THEN [op EXCEPT ![wk[w].op].state = "succeeded", ![wk[w].op].owner = Nobody] ELSE op

-----------------------------------------------------------------------------
(* Handlers *)

SessionOf(w) == wk[w].op[1]
Running(w, kind, pc) == wk[w].pc = pc /\ wk[w].op \in Sessions \X {kind}
Go(w, pc) == wk' = [wk EXCEPT ![w].pc = pc]
Done(w) == wk' = [wk EXCEPT ![w] = IdleWorker]

\* The provider did the work, the handler sees an error.
AnswerLost(w) == Fault(FALSE) /\ Go(w, "err")
Answer(w, pc) == (Go(w, pc) /\ UNCHANGED faults) \/ AnswerLost(w)

\* reconcileMultipartCreate reads the session.
CreateBegin(w) ==
  LET status == sess[SessionOf(w)].status IN
  /\ Running(w, "create", "begin")
  /\ wk' = [wk EXCEPT ![w].gone = status \in Gone,
                      ![w].pc = IF status \notin Gone \cup {"initializing"} THEN "skip"
                                ELSE IF wk[w].id # 0 THEN "persist" ELSE "list"]
  /\ UNCHANGED <<sess, user, entry, overdue, confirming, op, stopped, mp, made, staged, reply, faults>>

Newest(ids) == CHOOSE i \in ids : \A j \in ids : j <= i

CreateListAbortsAll(w) ==
  LET open == mp[SessionOf(w)] IN
  /\ Running(w, "create", "list")
  /\ mp' = [mp EXCEPT ![SessionOf(w)] = {}]
  /\ IF open = {} THEN Go(w, IF wk[w].gone THEN "skip" ELSE "new")
     ELSE wk' = [wk EXCEPT ![w].pc = "persist", ![w].id = Newest(open)]
  /\ UNCHANGED <<sess, user, entry, overdue, confirming, op, stopped, made, staged, reply, faults>>

\* recoverExistingMultipartUpload keeps the newest upload and aborts the rest.
CreateList(w) ==
  LET open == mp[SessionOf(w)] IN
  /\ Running(w, "create", "list")
  /\ IF open = {}
       THEN /\ Go(w, IF wk[w].gone THEN "skip" ELSE "new")
            /\ UNCHANGED mp
       ELSE /\ mp' = [mp EXCEPT ![SessionOf(w)] = {Newest(open)}]
            /\ wk' = [wk EXCEPT ![w].pc = "persist", ![w].id = Newest(open)]
  /\ UNCHANGED <<sess, user, entry, overdue, confirming, op, stopped, made, staged, reply, faults>>

\* NewMultipartUpload; its answer may be lost.
CreateNew(w) ==
  LET id == made[SessionOf(w)] + 1 IN
  /\ Running(w, "create", "new")
  /\ made' = [made EXCEPT ![SessionOf(w)] = id]
  /\ mp' = [mp EXCEPT ![SessionOf(w)] = @ \cup {id}]
  /\ \/ wk' = [wk EXCEPT ![w].pc = "persist", ![w].id = id] /\ UNCHANGED faults
     \/ AnswerLost(w)
  /\ UNCHANGED <<sess, user, entry, overdue, confirming, op, stopped, staged, reply>>

\* persistMultipartUploadID: fenced, and only into an empty column.
CreatePersist(w) ==
  LET o == wk[w].op IN
  /\ Running(w, "create", "persist")
  /\ op' = IF Owns(w) /\ op[o].id = 0 THEN [op EXCEPT ![o].id = wk[w].id] ELSE op
  /\ Go(w, IF op'[o].id = wk[w].id THEN "finish" ELSE "err")
  /\ UNCHANGED <<sess, user, entry, overdue, confirming, stopped, mp, made, staged, reply, faults>>

\* The closing transaction; a lost lease rolls it back.
CreateFinish(w) ==
  LET s == SessionOf(w) IN
  /\ Running(w, "create", "finish")
  /\ IF MaySucceed(w)
       THEN /\ sess' = IF sess[s].status = "initializing"
                         THEN [sess EXCEPT ![s].status = "created", ![s].id = wk[w].id]
                         ELSE sess
            /\ op' = IF sess[s].status \in Gone
                       THEN EnqueueAbort(Succeeded(w), s, wk[w].id) ELSE Succeeded(w)
            /\ Done(w)
       ELSE /\ Go(w, "err")
            /\ UNCHANGED <<sess, op>>
  /\ UNCHANGED <<user, entry, overdue, confirming, stopped, mp, made, staged, reply, faults>>

\* reconcileMultipartComplete reads the session.
CompleteBegin(w) ==
  LET status == sess[SessionOf(w)].status IN
  /\ Running(w, "complete", "begin")
  /\ wk' = [wk EXCEPT ![w].id = sess[SessionOf(w)].id,
                      ![w].pc = CASE status \in {"verifying", "completed"} -> "skip"
                                  [] status = "completing" -> "call"
                                  [] OTHER -> "err"]
  /\ UNCHANGED <<sess, user, entry, overdue, confirming, op, stopped, mp, made, staged, reply, faults>>

\* CompleteMultipartUpload; on any error a staging object of the declared size
\* counts as completed.
CompleteCall(w) ==
  LET s == SessionOf(w) IN
  /\ Running(w, "complete", "call")
  /\ IF wk[w].id \in mp[s]
       THEN /\ mp' = [mp EXCEPT ![s] = @ \ {wk[w].id}]
            /\ staged' = staged \cup {s}
            /\ Answer(w, "mark")
       ELSE /\ Go(w, IF s \in staged THEN "mark" ELSE "err")
            /\ UNCHANGED <<mp, staged, faults>>
  /\ UNCHANGED <<sess, user, entry, overdue, confirming, op, stopped, made, reply>>

\* The transaction after the operation was recorded as succeeded.
CompleteFinish(w) ==
  LET s == SessionOf(w) IN
  /\ Running(w, "complete", "finish")
  /\ IF sess[s].status \in {"completing", "verifying", "completed"} THEN Done(w) ELSE Go(w, "err")
  /\ sess' = IF sess[s].status = "completing" THEN [sess EXCEPT ![s].status = "verifying"] ELSE sess
  /\ UNCHANGED <<user, entry, overdue, confirming, op, stopped, mp, made, staged, reply, faults>>

\* AbortMultipartUpload: NoSuchUpload counts as done.
AbortCall(w) ==
  /\ Running(w, "abort", "call")
  /\ mp' = [mp EXCEPT ![SessionOf(w)] = @ \ {wk[w].id}]
  /\ Answer(w, "mark")
  /\ UNCHANGED <<sess, user, entry, overdue, confirming, op, stopped, made, staged, reply>>

AbortClear(w) ==
  /\ Running(w, "abort", "clear")
  /\ sess' = [sess EXCEPT ![SessionOf(w)].id = 0]
  /\ Done(w)
  /\ UNCHANGED <<user, entry, overdue, confirming, op, stopped, mp, made, staged, reply, faults>>

StagingCall(w) ==
  /\ Running(w, "staging", "call")
  /\ staged' = staged \ {SessionOf(w)}
  /\ Answer(w, "mark")
  /\ UNCHANGED <<sess, user, entry, overdue, confirming, op, stopped, mp, made, reply>>

\* MarkSucceededOwned outside any other transaction.
Mark(w) ==
  /\ wk[w].pc \in {"mark", "skip"}
  /\ op' = Succeeded(w)
  /\ IF ~MaySucceed(w) THEN Go(w, "err")
     ELSE IF wk[w].pc = "mark" /\ wk[w].op[2] = "complete" THEN Go(w, "finish")
     ELSE IF wk[w].pc = "mark" /\ wk[w].op[2] = "abort" THEN Go(w, "clear")
     ELSE Done(w)
  /\ UNCHANGED <<sess, user, entry, overdue, confirming, stopped, mp, made, staged, reply, faults>>

\* Any call or transaction of the handler may fail without an effect.
StepFails(w) ==
  /\ Fault(FALSE) /\ wk[w].pc \notin {"idle", "err"}
  /\ Go(w, "err")
  /\ UNCHANGED <<sess, user, entry, overdue, confirming, op, stopped, mp, made, staged, reply>>

\* RecordError, fenced like every outcome.
RecordError(w) ==
  LET o == wk[w].op IN
  /\ wk[w].pc = "err"
  /\ op' = IF Owns(w)
             THEN [op EXCEPT ![o].state = IF op[o].attempt >= MaxAttempts THEN "dead" ELSE "pending",
                             ![o].owner = Nobody]
             ELSE op
  /\ Done(w)
  /\ UNCHANGED <<sess, user, entry, overdue, confirming, stopped, mp, made, staged, reply, faults>>

Crash(w) ==
  /\ Fault(FALSE) /\ wk[w].pc # "idle"
  /\ Done(w)
  /\ UNCHANGED <<sess, user, entry, overdue, confirming, op, stopped, mp, made, staged, reply>>

HandlerStep(w) ==
  \/ CreateBegin(w) \/ CreateList(w) \/ CreateNew(w) \/ CreatePersist(w) \/ CreateFinish(w)
  \/ CompleteBegin(w) \/ CompleteCall(w) \/ CompleteFinish(w)
  \/ AbortCall(w) \/ AbortClear(w) \/ StagingCall(w)
  \/ Mark(w) \/ RecordError(w)

SessionStep(s) ==
  \/ Create(s) \/ ConfirmRead(s) \/ ConfirmStore(s) \/ Complete(s) \/ Abort(s) \/ DeleteFile(s)
  \/ PassExpiry(s) \/ Expire(s) \/ Converge(s) \/ Retire(s)
  \/ VerifyCommit(s) \/ VerifyFail(s)

Next ==
  \/ \E s \in Sessions : SessionStep(s)
  \/ \E w \in Workers : HandlerStep(w) \/ StepFails(w) \/ Crash(w)
  \/ \E w \in Workers, o \in Ops : Claim(w, o)
  \/ \E o \in Ops : StopExhausted(o) \/ RecoveryStops(o)

Spec == Init /\ [][Next]_vars

\* Worker processes keep running and are restarted (bootstrap/worker.go), the
\* reconcilers and the cleanup loop are periodic, time passes, and a verify task
\* is retried until it ends or is retired.  No fairness for the user, for faults
\* or for the provider's answers.
Fairness ==
  /\ \A w \in Workers : WF_vars(HandlerStep(w))
  /\ \A o \in Ops : WF_vars(Due(o) /\ \E w \in Workers : Claim(w, o))
                     /\ WF_vars(Due(o) /\ StopExhausted(o))
  /\ \A s \in Sessions :
       /\ WF_vars(PassExpiry(s)) /\ WF_vars(Expire(s))
       /\ WF_vars(Converge(s)) /\ WF_vars(Retire(s))
       /\ WF_vars(VerifyCommit(s) \/ VerifyFail(s))

FairSpec == Spec /\ Fairness

-----------------------------------------------------------------------------
(* Properties *)

\* The bytes a session counts on are at the provider, however the completing
\* call, its lost answer, a takeover and the cleanup interleave: Verify finds the
\* staging object; and the upload id handed out to the client (PresignParts) or
\* completed with is still open, or completed already, as no retry of
\* multipart.create aborts the upload that was persisted.  The latter needs
\* leases that are not outlived.
BytesPresent ==
  \A s \in Sessions :
    /\ sess[s].status = "verifying" => s \in staged
    /\ sess[s].status \in {"created", "uploading", "completing"} /\ ~faults.outlived
         => sess[s].id \in mp[s] \/ s \in staged

\* No late handler, confirmation or cleanup revives a session that has ended; an
\* expired one may still be aborted by its user.
EndedStaysEnded ==
  [][\A s \in Sessions :
       /\ sess[s].status \in {"completed", "failed", "aborted"} => sess'[s].status = sess[s].status
       /\ sess[s].status = "expired" => sess'[s].status \in {"expired", "aborted"}]_vars

\* Reservations can never promise more than the user's quota.
QuotaHolds == user.used + user.reserved <= Quota

\* Sessions that race for a name or store the same content end with one file:
\* the checks of Create are long past when Verify commits.
OneFilePerNameAndContent ==
  \A s, t \in entry : s # t => Name[s] # Name[t] /\ Content[s] # Content[t]

\* Every session ends, which returns its reservation, and then its multipart
\* uploads and its staging object are removed, unless an operation of the session
\* ran out of attempts (such a row stays behind for an operator) or a worker that
\* outlived its lease left something behind.
SessionsSettle ==
  \A s \in Sessions :
    /\ sess[s].status \in Active ~> sess[s].status \in Gone \cup {"completed"}
    /\ sess[s].status \in Gone \cup {"completed"}
         ~> \/ mp[s] = {} /\ s \notin staged
            \/ faults.outlived
            \/ \E kind \in Kinds : op[<<s, kind>>].state = "dead"
=============================================================================
