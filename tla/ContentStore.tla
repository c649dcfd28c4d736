---------------------------- MODULE ContentStore ----------------------------
(***************************************************************************)
(* The physical object behind one (sha256, size): the file_objects row,    *)
(* the canonical bytes at the provider, the verify tasks that copy their   *)
(* staging object there (upload), the files that reference it (drive,      *)
(* sharing) and its garbage collection (objectstore).                      *)
(*                                                                         *)
(* Every key "objects/sha256/xx/<hash>/v<n>" is written n here and the     *)
(* base key is 0.  Operations are rows of the ledger of StorageOps, of     *)
(* which only state and owner matter; the faults that use up attempts are  *)
(* bounded together by MaxFaults.                                          *)
(***************************************************************************)
EXTENDS Naturals, FiniteSets

CONSTANTS Sessions,    \* upload sessions with this content, one verify task each
          Owner,       \* the user of each session
          Importers,   \* users that may import a shared file once
          Workers,     \* upload and maintenance reconcilers
          MaxVersion,  \* bound on the version of the object row
          MaxFaults,   \* how many steps fail or crash and leases are outlived
          Nobody

ASSUME ContentAssumption ==
  /\ MaxVersion \in Nat /\ MaxFaults \in Nat
  /\ Nobody \notin Sessions \cup Workers /\ Sessions \cap Workers = {}

Actors == Sessions \cup Workers
Owners == {Owner[s] : s \in Sessions} \cup Importers
Versions == 0 .. MaxVersion
Keys == Versions

VARIABLES obj,      \* the file_objects row
          live,     \* owners with a live file entry on the object
          imported, \* importers that had their turn
          blob,     \* provider: canonical keys that hold bytes
          up,       \* status of each upload session
          staged,   \* provider: sessions whose staging object exists
          ensure,   \* canonical.ensure operation of each key
          del,      \* object.delete operation of each version
          job,      \* what each verify task and worker is doing
          faults    \* faults so far, and whether an actor outlived its lease

vars == <<obj, live, imported, blob, up, staged, ensure, del, job, faults>>

OpStates == {"absent", "pending", "running", "succeeded", "dead"}
Steps == {"idle", "exec", "check", "copy", "mark", "final", "fail", "verdict", "remove", "commit", "err"}

TypeOK ==
  /\ obj \in [status : {"none", "ready", "deleting", "deleted"}, key : Keys, ver : Versions,
              refs : Nat]
  /\ live \subseteq Owners /\ imported \subseteq Importers
  /\ blob \subseteq Keys /\ staged \subseteq Sessions
  /\ up \in [Sessions -> {"verifying", "completed", "failed"}]
  /\ ensure \in [Keys -> [state : OpStates, by : Sessions \cup {Nobody}, owner : Actors \cup {Nobody}]]
  /\ del \in [Versions -> [state : OpStates, key : Keys, owner : Actors \cup {Nobody}]]
  /\ job \in [Actors -> [pc : Steps, kind : {"none", "ensure", "delete"}, k : Keys]]
  /\ faults \in [n : 0 .. MaxFaults, outlived : BOOLEAN]

Idle == [pc |-> "idle", kind |-> "none", k |-> 0]

\* Sessions whose multipart upload has been completed.
Init ==
  /\ obj = [status |-> "none", key |-> 0, ver |-> 0, refs |-> 0]
  /\ live = {} /\ imported = {} /\ blob = {}
  /\ up = [s \in Sessions |-> "verifying"]
  /\ staged = Sessions
  /\ ensure = [k \in Keys |-> [state |-> "absent", by |-> Nobody, owner |-> Nobody]]
  /\ del = [v \in Versions |-> [state |-> "absent", key |-> 0, owner |-> Nobody]]
  /\ job = [a \in Actors |-> Idle]
  /\ faults = [n |-> 0, outlived |-> FALSE]

Fault(outlived) ==
  /\ faults.n < MaxFaults
  /\ faults' = [n |-> faults.n + 1, outlived |-> faults.outlived \/ outlived]

-----------------------------------------------------------------------------
(* The object row *)

RevivalKeyFixed == 0

\* RevivalKey: the next life of a deleted object gets a key of its own.
RevivalKey == obj.ver

\* CreateOrGet with key k: the row that is "ready" afterwards.
Reusable(k) == obj.status \in {"none", "ready"} \/ (obj.status = "deleted" /\ k = RevivalKey)
CreateOrGet(k) ==
  CASE obj.status = "none"  -> [status |-> "ready", key |-> k, ver |-> 1, refs |-> 0]
    [] obj.status = "ready" -> obj
    [] OTHER                -> [obj EXCEPT !.status = "ready", !.key = k, !.ver = @ + 1]

WithReference(o) == [o EXCEPT !.refs = @ + 1, !.ver = @ + 1]
WithoutReference(o) == [o EXCEPT !.refs = @ - 1, !.ver = @ + 1]
Retired(o) == [o EXCEPT !.status = "deleting", !.ver = @ + 1]

\* MaxVersion as a guard of every step that writes the row.
Counted == obj'.ver \in Versions

\* storageops.Enqueue under the keys "canonical.ensure:<key>" and
\* "object.delete:<id>:<version>".
EnqueueEnsure(k, s) ==
  IF ensure[k].state = "absent"
    THEN [ensure EXCEPT ![k] = [state |-> "pending", by |-> s, owner |-> Nobody]] ELSE ensure
EnqueueDelete(v, k) ==
  IF del[v].state = "absent"
    THEN [del EXCEPT ![v] = [state |-> "pending", key |-> k, owner |-> Nobody]] ELSE del

-----------------------------------------------------------------------------
(* Jobs and the rows they own *)

Row(kind, k) == IF kind = "ensure" THEN ensure[k] ELSE del[k]
RowOf(a) == Row(job[a].kind, job[a].k)
SetRow(kind, k, state, owner) ==
  IF kind = "ensure"
    THEN /\ ensure' = [ensure EXCEPT ![k].state = state, ![k].owner = owner]
         /\ UNCHANGED del
    ELSE /\ del' = [del EXCEPT ![k].state = state, ![k].owner = owner]
         /\ UNCHANGED ensure

Executing(a, kind, k) ==
  job[a].kind = kind /\ job[a].k = k /\ job[a].pc \in {"check", "copy", "mark", "verdict", "remove", "commit", "err"}

\* A row to claim: pending, or its actor is gone; or, as a fault, its actor was too
\* slow to renew the lease.
Due(kind, k) ==
  LET row == Row(kind, k) IN
  row.state = "pending" \/ (row.state = "running" /\ ~Executing(row.owner, kind, k))
Slow(kind, k) == Row(kind, k).state = "running" /\ Executing(Row(kind, k).owner, kind, k)
Claimable(kind, k) == (Due(kind, k) /\ UNCHANGED faults) \/ (Slow(kind, k) /\ Fault(TRUE))

Owns(a) == RowOf(a).state = "running" /\ RowOf(a).owner = a

Go(a, pc) == job' = [job EXCEPT ![a].pc = pc]

\* The job's row is done: a verify task goes on to its transaction.
Finish(a) == IF a \in Sessions THEN Go(a, "final") ELSE job' = [job EXCEPT ![a] = Idle]

\* MarkSucceededOwned and what follows.
Succeed(a) ==
  IF Owns(a)
    THEN SetRow(job[a].kind, job[a].k, "succeeded", Nobody) /\ Finish(a)
    ELSE /\ IF RowOf(a).state = "succeeded" THEN Finish(a) ELSE Go(a, "err")
         /\ UNCHANGED <<ensure, del>>

-----------------------------------------------------------------------------
(* Verify tasks *)

\* The transaction of ensureCanonical; while the object is being deleted it fails
\* and the task is retried.
EnsureCanonical(s) ==
  /\ job[s].pc = "idle" /\ up[s] = "verifying" /\ s \in staged
  /\ obj.status # "deleting"
  /\ LET k == CASE obj.status = "none" -> 0
                [] obj.status = "ready" -> obj.key
                [] OTHER -> RevivalKey
     IN IF obj.status = "ready" \/ ensure[k].state = "succeeded"
          THEN /\ job' = [job EXCEPT ![s] = [pc |-> "final", kind |-> "ensure", k |-> k]]
               /\ UNCHANGED ensure
          ELSE /\ job' = [job EXCEPT ![s] = [pc |-> "exec", kind |-> "ensure", k |-> k]]
               /\ ensure' = EnqueueEnsure(k, s)
  /\ UNCHANGED <<obj, live, imported, blob, up, staged, del, faults>>

ExecuteCanonicalEnsureClaimOnly(s) ==
  /\ job[s].pc = "exec"
  /\ Claimable("ensure", job[s].k)
  /\ SetRow("ensure", job[s].k, "running", s)
  /\ Go(s, "check")
  /\ UNCHANGED <<obj, live, imported, blob, up, staged>>

\* executeCanonicalEnsure: claim the row, or see how another one ended it.
ExecuteCanonicalEnsure(s) ==
  LET k == job[s].k IN
  /\ job[s].pc = "exec"
  /\ \/ /\ Claimable("ensure", k)
        /\ SetRow("ensure", k, "running", s)
        /\ Go(s, "check")
     \/ /\ ensure[k].state \in {"succeeded", "dead"}
        /\ Go(s, IF ensure[k].state = "dead" THEN "fail" ELSE "final")
        /\ UNCHANGED <<ensure, del, faults>>
  /\ UNCHANGED <<obj, live, imported, blob, up, staged>>

\* Its 30 second deadline, while another actor runs the copy.
EnsureTimesOut(s) ==
  /\ job[s].pc = "exec" /\ ensure[job[s].k].state = "running"
  /\ job' = [job EXCEPT ![s] = Idle]
  /\ UNCHANGED <<obj, live, imported, blob, up, staged, ensure, del, faults>>

\* The transaction that publishes the file.
Publish(s) ==
  /\ job[s].pc = "final"
  /\ \/ /\ up[s] = "verifying" /\ Reusable(job[s].k) /\ Owner[s] \notin live
        /\ obj' = WithReference(CreateOrGet(job[s].k)) /\ Counted
        /\ live' = live \cup {Owner[s]}
        /\ up' = [up EXCEPT ![s] = "completed"]
        /\ job' = [job EXCEPT ![s] = Idle]
     \/ /\ up[s] = "verifying" /\ Reusable(job[s].k) /\ Owner[s] \in live   \* upload.file_exists
        /\ Go(s, "fail")
        /\ UNCHANGED <<obj, live, up>>
     \/ /\ up[s] # "verifying" \/ ~Reusable(job[s].k)                      \* retried
        /\ job' = [job EXCEPT ![s] = Idle]
        /\ UNCHANGED <<obj, live, up>>
  /\ UNCHANGED <<imported, blob, staged, ensure, del, faults>>

\* registerCanonicalCleanup of a failed session: the copy it asked for becomes a
\* zero-reference object that is already being deleted.
Adopts(s, k) ==
  /\ ensure[k].state # "absent" /\ ensure[k].by = s
  /\ obj.status = "none" \/ (obj.status = "deleted" /\ k = RevivalKey)
RegisterCanonicalCleanup(s) ==
  IF \E k \in Keys : Adopts(s, k)
    THEN \E k \in Keys :
           /\ Adopts(s, k)
           /\ obj' = Retired(CreateOrGet(k)) /\ Counted
           /\ del' = EnqueueDelete(obj'.ver, k)
    ELSE UNCHANGED <<obj, del>>

\* fail: by the task itself, by the last retry, or by retireStoppedVerifications
\* while a task is still at work.
Fail(s) ==
  /\ up[s] = "verifying"
  /\ RegisterCanonicalCleanup(s)
  /\ up' = [up EXCEPT ![s] = "failed"]
  /\ job' = IF job[s].pc = "fail" THEN [job EXCEPT ![s] = Idle] ELSE job
  /\ UNCHANGED <<live, imported, blob, staged, ensure, faults>>

\* A task that lost that race has nothing left to do.
FailAgain(s) ==
  /\ job[s].pc = "fail" /\ up[s] # "verifying"
  /\ job' = [job EXCEPT ![s] = Idle]
  /\ UNCHANGED <<obj, live, imported, blob, up, staged, ensure, del, faults>>

\* The staging.delete operation of a session that has ended.
DeleteStaging(s) ==
  /\ up[s] # "verifying" /\ s \in staged
  /\ staged' = staged \ {s}
  /\ UNCHANGED <<obj, live, imported, blob, up, ensure, del, job, faults>>

-----------------------------------------------------------------------------
(* The copy, by whoever claimed its row *)

Claim(w, kind, k) ==
  /\ job[w].pc = "idle" /\ Claimable(kind, k)
  /\ SetRow(kind, k, "running", w)
  /\ job' = [job EXCEPT ![w] = [pc |-> IF kind = "ensure" THEN "check" ELSE "verdict", kind |-> kind, k |-> k]]
  /\ UNCHANGED <<obj, live, imported, blob, up, staged>>

\* The bytes of a session that has failed are not copied any more.
CopyCheck(a) ==
  /\ job[a].pc = "check"
  /\ IF up[RowOf(a).by] = "failed"
       THEN Succeed(a)
       ELSE Go(a, "copy") /\ UNCHANGED <<ensure, del>>
  /\ UNCHANGED <<obj, live, imported, blob, up, staged, faults>>

CopyObject(a) ==
  /\ job[a].pc = "copy"
  /\ IF RowOf(a).by \in staged
       THEN blob' = blob \cup {job[a].k} /\ Go(a, "mark")
       ELSE UNCHANGED blob /\ Go(a, "err")
  /\ UNCHANGED <<obj, live, imported, up, staged, ensure, del, faults>>

MarkCopied(a) ==
  /\ job[a].pc = "mark"
  /\ Succeed(a)
  /\ UNCHANGED <<obj, live, imported, blob, up, staged, faults>>

\* RecordError: another attempt, or none left.
RecordError(a) ==
  /\ job[a].pc = "err"
  /\ job' = [job EXCEPT ![a] = Idle]
  /\ IF Owns(a)
       THEN SetRow(job[a].kind, job[a].k, "pending", Nobody)
       ELSE UNCHANGED <<ensure, del>>
  /\ UNCHANGED <<obj, live, imported, blob, up, staged, faults>>

-----------------------------------------------------------------------------
(* Files and garbage collection *)

\* sharing.Import of the shared file: the object must be ready.
Import(i) ==
  /\ i \notin imported /\ i \notin live /\ live # {} /\ obj.status = "ready"
  /\ imported' = imported \cup {i}
  /\ live' = live \cup {i}
  /\ obj' = WithReference(obj) /\ Counted
  /\ UNCHANGED <<blob, up, staged, ensure, del, job, faults>>

\* drive.FileManager.Delete.
DeleteFile(o) ==
  /\ o \in live
  /\ live' = live \ {o}
  /\ obj' = WithoutReference(obj) /\ Counted
  /\ UNCHANGED <<imported, blob, up, staged, ensure, del, job, faults>>

GarbageCollectUnchecked ==
  /\ obj.status \in {"ready", "deleting"}
  /\ obj' = (IF obj.status = "ready" THEN Retired(obj) ELSE obj) /\ Counted
  /\ del' = EnqueueDelete(obj'.ver, obj.key)
  /\ UNCHANGED <<live, imported, blob, up, staged, ensure, job, faults>>

\* GarbageCollect, on the command of the last Delete or of recovery.
GarbageCollect ==
  /\ obj.status \in {"ready", "deleting"} /\ live = {} /\ obj.refs = 0
  /\ obj' = (IF obj.status = "ready" THEN Retired(obj) ELSE obj) /\ Counted
  /\ del' = EnqueueDelete(obj'.ver, obj.key)
  /\ UNCHANGED <<live, imported, blob, up, staged, ensure, job, faults>>

DeleteVerdictNoWait(w) ==
  /\ job[w].pc = "verdict"
  /\ IF live # {} \/ obj.refs > 0 \/ obj.status # "deleting" \/ obj.key # RowOf(w).key
       THEN Succeed(w)
       ELSE Go(w, "remove") /\ UNCHANGED <<ensure, del>>
  /\ UNCHANGED <<obj, live, imported, blob, up, staged, faults>>

\* performObjectDelete looks at the row without a lock, then waits for a copy to
\* this key to end.
DeleteVerdict(w) ==
  /\ job[w].pc = "verdict"
  /\ IF live # {} \/ obj.refs > 0 \/ obj.status # "deleting" \/ obj.key # RowOf(w).key
       THEN Succeed(w)
       ELSE /\ Go(w, IF ensure[RowOf(w).key].state = "running" THEN "err" ELSE "remove")
            /\ UNCHANGED <<ensure, del>>
  /\ UNCHANGED <<obj, live, imported, blob, up, staged, faults>>

RemoveObject(w) ==
  /\ job[w].pc = "remove"
  /\ blob' = blob \ {RowOf(w).key}
  /\ Go(w, "commit")
  /\ UNCHANGED <<obj, live, imported, up, staged, ensure, del, faults>>

\* The closing transaction, only for the owner of the row.
DeleteCommit(w) ==
  /\ job[w].pc = "commit"
  /\ IF ~Owns(w) \/ live # {} \/ obj.refs > 0
       THEN Go(w, "err") /\ UNCHANGED <<obj, ensure, del>>
       ELSE /\ obj' = IF obj.status = "deleting" /\ obj.key = RowOf(w).key
                        THEN [obj EXCEPT !.status = "deleted", !.ver = @ + 1] ELSE obj
            /\ Counted
            /\ Succeed(w)
  /\ UNCHANGED <<live, imported, blob, up, staged, faults>>

-----------------------------------------------------------------------------
(* Faults *)

\* A step fails, before or after its effect at the provider.
StepFails(a) ==
  /\ Fault(FALSE)
  /\ job[a].pc \in {"check", "copy", "mark", "verdict", "remove", "commit"}
  /\ Go(a, "err")
  /\ blob' \in {blob} \cup (IF job[a].pc = "copy" /\ RowOf(a).by \in staged
                              THEN {blob \cup {job[a].k}}
                            ELSE IF job[a].pc = "remove" THEN {blob \ {RowOf(a).key}} ELSE {})
  /\ UNCHANGED <<obj, live, imported, up, staged, ensure, del>>

\* The process of an actor ends; its lease runs out.
Crash(a) ==
  /\ Fault(FALSE)
  /\ job[a].pc # "idle"
  /\ job' = [job EXCEPT ![a] = Idle]
  /\ UNCHANGED <<obj, live, imported, blob, up, staged, ensure, del>>

\* A row runs out of attempts.
Exhausted(kind, k) ==
  /\ Due(kind, k) /\ Fault(FALSE)
  /\ SetRow(kind, k, "dead", Nobody)
  /\ UNCHANGED <<obj, live, imported, blob, up, staged, job>>

TaskStep(s) ==
  \/ EnsureCanonical(s) \/ ExecuteCanonicalEnsure(s) \/ Publish(s) \/ FailAgain(s)

JobStep(a) ==
  \/ CopyCheck(a) \/ CopyObject(a) \/ MarkCopied(a) \/ RecordError(a)
  \/ DeleteVerdict(a) \/ RemoveObject(a) \/ DeleteCommit(a)

Next ==
  \/ \E s \in Sessions : TaskStep(s) \/ EnsureTimesOut(s) \/ Fail(s) \/ DeleteStaging(s)
  \/ \E a \in Actors : JobStep(a) \/ StepFails(a) \/ Crash(a)
  \/ \E w \in Workers, kind \in {"ensure", "delete"}, k \in Keys : Claim(w, kind, k)
  \/ \E i \in Importers : Import(i)
  \/ \E o \in Owners : DeleteFile(o)
  \/ GarbageCollect
  \/ \E kind \in {"ensure", "delete"}, k \in Keys : Exhausted(kind, k)

Spec == Init /\ [][Next]_vars

\* Tasks are redelivered and processes restarted; the periodic scans and the
\* backoff of a deferred row let both kinds of claimable rows have their turn, hence the
\* strong fairness.  A task fails its session only when it has to.
Fairness ==
  /\ \A s \in Sessions :
       WF_vars(TaskStep(s)) /\ WF_vars(job[s].pc = "fail" /\ Fail(s)) /\ WF_vars(DeleteStaging(s))
  /\ \A a \in Actors : WF_vars(JobStep(a))
  /\ \A kind \in {"ensure", "delete"} : SF_vars(\E w \in Workers, k \in Keys : Due(kind, k) /\ Claim(w, kind, k))
  /\ WF_vars(GarbageCollect)

FairSpec == Spec /\ Fairness

-----------------------------------------------------------------------------
(* Properties *)

\* A ready object has its bytes: no delayed delete, takeover or repeated copy of
\* an earlier life of the row touches the key it points to, and a copy that was
\* skipped because its session failed is never published.
ReadyBytesExist == obj.status = "ready" => obj.key \in blob

\* The reference count is the number of live files, and an object with live files
\* is never on its way to deletion.
ReferencesExact ==
  /\ obj.refs = Cardinality(live)
  /\ live # {} => obj.status = "ready"

\* Canonical bytes are never lost track of: they belong to the object row until it
\* is deleted, or to a session that has yet to be published or to fail (and then
\* adopts them).  Needs leases that are not outlived.
NoOrphanedCopy ==
  \A k \in blob :
    \/ faults.outlived
    \/ obj.key = k /\ obj.status \in {"ready", "deleting"}
    \/ ensure[k].by # Nobody /\ up[ensure[k].by] = "verifying"

SomeDead ==
  \/ \E k \in Keys : ensure[k].state = "dead"
  \/ \E v \in Versions : del[v].state = "dead"

\* In the end every verify task has got through, whatever copy, deletion or revival
\* of the same content it met; no row is left "deleting", where it would block
\* every upload of that content; and content that nobody references is gone from
\* the provider.  The exceptions are an operation that ran out of attempts and
\* bytes copied by an actor that outlived its lease.
ContentSettles ==
  <>[](\/ SomeDead
       \/ /\ \A s \in Sessions : up[s] # "verifying"
          /\ obj.status # "deleting"
          /\ live # {} \/ obj.key \notin blob \/ faults.outlived)
=============================================================================
