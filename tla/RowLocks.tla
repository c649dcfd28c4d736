------------------------------ MODULE RowLocks ------------------------------
(***************************************************************************)
(* The order in which the transactions of drive, sharing, upload and       *)
(* objectstore take their locks.  A transaction is the sequence of locks   *)
(* that its statements take, with PostgreSQL's row lock modes: "key" (FOR  *)
(* KEY SHARE, taken by a foreign key on the row it refers to), "share"     *)
(* (FOR SHARE), "write" (an UPDATE) and "update" (FOR UPDATE); advisory    *)
(* locks are "update".  What the statements read and write is the matter   *)
(* of the other modules.                                                   *)
(***************************************************************************)
EXTENDS Naturals, SequencesExt, FiniteSetsExt

CONSTANTS Transactions,  \* records [kind, user, file, object], see Plan
          MaxConcurrent  \* how many of them run at once

VARIABLES wanted,   \* the locks each running transaction has yet to take, in order
          taken,    \* the locks it holds
          victims   \* transactions PostgreSQL has cancelled

vars == <<wanted, taken, victims>>

running == DOMAIN wanted

Lock(mode, table, row) == [mode |-> mode, row |-> <<table, row>>]

\* ownerepoch.BumpContent and BumpACL.
BumpEpoch(user) == Lock("write", "epoch", user)

\* drive.CreateFile: the folder, the row with its foreign keys, the epoch.
CreateFile(user, object) ==
  <<Lock("share", "folder", user), Lock("key", "user", user), Lock("key", "object", object),
    BumpEpoch(user)>>

\* Mutation: the quota before the object.
DeleteFileQuotaFirst(t) ==
  <<Lock("update", "entry", t.file), BumpEpoch(t.user), Lock("write", "user", t.user),
    Lock("write", "object", t.object)>>

\* drive.FileManager.Delete.
DeleteFile(t) ==
  <<Lock("update", "entry", t.file), BumpEpoch(t.user), Lock("write", "object", t.object),
    Lock("write", "user", t.user)>>

\* sharing.Create, UpdateExpiry, Revoke and Import; the share row bears the name
\* of its file.
ShareCreate(t) == <<Lock("share", "entry", t.file), Lock("key", "user", t.user), BumpEpoch(t.user)>>
ShareUpdateExpiry(t) ==
  <<Lock("update", "share", t.file), Lock("share", "entry", t.file), BumpEpoch(t.user)>>
ShareRevoke(t) == <<Lock("update", "share", t.file), BumpEpoch(t.user)>>
ShareImport(t) ==
  <<Lock("share", "share", t.file), Lock("share", "entry", t.file), Lock("write", "user", t.user)>>
    \o CreateFile(t.user, t.object) \o <<Lock("write", "object", t.object)>>

\* upload.Verify's transaction for content that has an object, and upload.fail.
UploadVerify(t) ==
  <<Lock("update", "session", t.file), Lock("update", "content", t.object), Lock("update", "object", t.object)>>
    \o CreateFile(t.user, t.object)
    \o <<Lock("write", "object", t.object), Lock("write", "user", t.user)>>
UploadFail(t) ==
  <<Lock("update", "session", t.file), Lock("update", "content", t.object), Lock("update", "object", t.object),
    Lock("write", "user", t.user)>>

\* upload.Abort, Expire and RetireStoppedSessions.
UploadEnd(t) ==
  <<Lock("update", "session", t.file), Lock("update", "operation", t.file), Lock("write", "user", t.user)>>

\* objectstore: the transaction after the provider's delete.
DeleteCommit(t) == <<Lock("update", "operation", t.object), Lock("update", "object", t.object)>>

Plan(t) ==
  CASE t.kind = "delete"  -> DeleteFile(t)
    [] t.kind = "share"   -> ShareCreate(t)
    [] t.kind = "expiry"  -> ShareUpdateExpiry(t)
    [] t.kind = "revoke"  -> ShareRevoke(t)
    [] t.kind = "import"  -> ShareImport(t)
    [] t.kind = "verify"  -> UploadVerify(t)
    [] t.kind = "fail"    -> UploadFail(t)
    [] t.kind = "end"     -> UploadEnd(t)
    [] t.kind = "deleted" -> DeleteCommit(t)

TypeOK ==
  /\ running \subseteq Transactions /\ victims \subseteq running
  /\ \A t \in running : IsSuffix(wanted[t], Plan(t)) /\ taken[t] \subseteq ToSet(Plan(t))

Init ==
  /\ \E S \in kSubset(MaxConcurrent, Transactions) :
       wanted = [t \in S |-> Plan(t)] /\ taken = [t \in S |-> {}]
  /\ victims = {}

-----------------------------------------------------------------------------
(* Locks *)

\* PostgreSQL's table of conflicting row locks.
Conflicts(m, n) ==
  \/ "update" \in {m, n}
  \/ "write" \in {m, n} /\ {m, n} # {"write", "key"}

WaitsFor(t, u) ==
  /\ t # u /\ wanted[t] # <<>>
  /\ \E l \in taken[u] : l.row = Head(wanted[t]).row /\ Conflicts(l.mode, Head(wanted[t]).mode)

Acquire(t) ==
  /\ wanted[t] # <<>>
  /\ ~\E u \in running : WaitsFor(t, u)
  /\ taken' = [taken EXCEPT ![t] = @ \cup {Head(wanted[t])}]
  /\ wanted' = [wanted EXCEPT ![t] = Tail(@)]
  /\ UNCHANGED victims

\* Commit and rollback release everything.
Commit(t) ==
  /\ wanted[t] = <<>> /\ taken[t] # {}
  /\ taken' = [taken EXCEPT ![t] = {}]
  /\ UNCHANGED <<wanted, victims>>

Waiting == {t \in running : \E u \in running : WaitsFor(t, u)}

\* A set of transactions that wait for each other.
Deadlocked(S) == S # {} /\ \A t \in S : \E u \in S : WaitsFor(t, u)

\* deadlock_timeout: PostgreSQL cancels one of them.
CancelVictim(t) ==
  /\ \E S \in SUBSET Waiting :
       /\ t \in S /\ Deadlocked(S)
       /\ \A R \in SUBSET S : Deadlocked(R) => R = S
  /\ victims' = victims \cup {t}
  /\ wanted' = [wanted EXCEPT ![t] = <<>>] /\ taken' = [taken EXCEPT ![t] = {}]

Next == \E t \in running : Acquire(t) \/ Commit(t) \/ CancelVictim(t)

Spec == Init /\ [][Next]_vars

-----------------------------------------------------------------------------
(* Properties *)

\* An import locks the quota row before the epoch, a verification of known content
\* locks the object before the epoch; everything else takes share, entry, session,
\* epoch, object, quota in this order.  Deadlocks therefore need an import or, in
\* a circle of four transactions, two verifications: deletions, share
\* management, failed and ended uploads and the collector never lock each
\* other out.  One verification against a deletion by the same user of the same
\* object would do too; drive.CreateFile never lets a verification get that far
\* (MCAccounts!TransactionsAssumption).
OrderedLocks ==
  \A S \in SUBSET Waiting :
    Deadlocked(S) => \/ \E t \in S : t.kind = "import"
                     \/ Cardinality({t \in S : t.kind = "verify"}) >= 2
=============================================================================
