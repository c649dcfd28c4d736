---------------------------- MODULE DriveListing ----------------------------
(***************************************************************************)
(* Listings of one folder (drive.Service Children and ChildrenPage) while  *)
(* the owner's writes commit: the two-level cache whose keys name the      *)
(* owner's epoch, and page sequences whose cursor is fenced by the epoch.  *)
(*                                                                         *)
(* A child has a position, its rank, that stands for its normalised name;  *)
(* rank 0 is "not in this folder".  A committed write changes one child    *)
(* and the owner's epoch together (DriveTree).  The content and the ACL    *)
(* epoch are one counter.  Concurrent loads of one key that singleflight   *)
(* merges are separate loads here: a merged reader receives what its       *)
(* leader has just put in the local cache.  Requests of the two kinds use  *)
(* different keys and do not touch each other; a behaviour has one kind.   *)
(***************************************************************************)
EXTENDS Naturals, FiniteSets, Sequences, SequencesExt

CONSTANTS FolderIds, FileIds,  \* children, numbered
          MaxRank,             \* positions
          Limit,               \* page size
          Readers,             \* clients
          Processes, Home,     \* API processes and the one that serves a client
          MaxEpoch,            \* bound on committed writes
          None

Ids == FolderIds \cup FileIds
Epochs == 1 .. MaxEpoch

VARIABLES rank,    \* the children's rows
          epoch,   \* owner_content_epochs
          past,    \* history: the rows at each epoch
          local,   \* first cache level, of each process
          shared,  \* second cache level, in Redis
          rd       \* the clients' requests

vars == <<rank, epoch, past, local, shared, rd>>

Kinds == {"all", "page"}
Keys == Kinds \X (0 .. MaxEpoch)
Listings == [folders : Seq(FolderIds), files : Seq(FileIds)]

TypeOK ==
  /\ rank \in [Ids -> 0 .. MaxRank] /\ epoch \in Epochs
  /\ past \in Seq([Ids -> 0 .. MaxRank]) /\ Len(past) = epoch
  /\ \A k \in Keys : shared[k] \in Listings \cup {None}
  /\ \A p \in Processes, k \in Keys : local[p][k] \in Listings \cup {None}
  /\ \A r \in Readers :
       /\ rd[r].kind \in Kinds /\ rd[r].start \in 0 .. epoch /\ rd[r].epoch \in 0 .. epoch
       /\ rd[r].after \in Ids \cup {None} /\ rd[r].got \in Seq(Ids)
       /\ rd[r].folders \in Seq(FolderIds) /\ rd[r].files \in Seq(FileIds)

\* A client at rest.
Idle(kind) == [pc |-> "idle", kind |-> kind, start |-> 0, epoch |-> 0, after |-> None, at |-> 0,
         folders |-> <<>>, files |-> <<>>, got |-> <<>>]

Init ==
  /\ rank = [i \in Ids |-> i]
  /\ epoch = 1 /\ past = <<rank>>
  /\ local = [p \in Processes |-> [k \in Keys |-> None]]
  /\ shared = [k \in Keys |-> None]
  /\ \E kind \in Kinds : rd = [r \in Readers |-> Idle(kind)]

-----------------------------------------------------------------------------
(* Committed writes *)

\* Create, delete, rename or move a child; active names of a kind are unique.
Write(i, to) ==
  /\ epoch < MaxEpoch /\ rank[i] # to
  /\ to # 0 => \A j \in (IF i \in FolderIds THEN FolderIds ELSE FileIds) : rank[j] # to
  /\ rank' = [rank EXCEPT ![i] = to]
  /\ epoch' = epoch + 1
  /\ past' = Append(past, rank')
  /\ UNCHANGED <<local, shared, rd>>

-----------------------------------------------------------------------------
(* The queries *)

\* ORDER BY name_normalized, id: the n-th row has n - 1 before it.
Precedes(ranks, i, j) == ranks[i] < ranks[j] \/ (ranks[i] = ranks[j] /\ i < j)
Sorted(S, ranks) ==
  [n \in 1 .. Cardinality(S) |-> CHOOSE i \in S : Cardinality({j \in S : Precedes(ranks, j, i)}) = n - 1]
Present(S) == {i \in S : rank[i] # 0}
After(S, r) ==
  {i \in Present(S) : rank[i] > rd[r].at \/ (rank[i] = rd[r].at /\ i > rd[r].after)}
FirstOf(s, n) == SubSeq(s, 1, IF Len(s) < n THEN Len(s) ELSE n)

\* loadChildrenPage: the rows after the cursor, and one more than the page has.
FolderRows(r) ==
  CASE rd[r].kind = "all" -> Sorted(Present(FolderIds), rank)
    [] rd[r].kind = "page" /\ rd[r].after = None -> FirstOf(Sorted(Present(FolderIds), rank), Limit + 1)
    [] rd[r].kind = "page" /\ rd[r].after \in FolderIds -> FirstOf(Sorted(After(FolderIds, r), rank), Limit + 1)
    [] rd[r].kind = "page" /\ rd[r].after \in FileIds -> <<>>
FileRows(r) ==
  CASE rd[r].kind = "all" -> Sorted(Present(FileIds), rank)
    [] rd[r].kind = "page" /\ rd[r].after \notin FileIds -> FirstOf(Sorted(Present(FileIds), rank), Limit + 1)
    [] rd[r].kind = "page" /\ rd[r].after \in FileIds -> FirstOf(Sorted(After(FileIds, r), rank), Limit + 1)

-----------------------------------------------------------------------------
(* Requests *)

Go(r, pc) == rd' = [rd EXCEPT ![r].pc = pc]
ReadOnly == UNCHANGED <<rank, epoch, past, local, shared>>

Ask(r) ==
  /\ rd[r].pc = "idle"
  /\ rd' = [rd EXCEPT ![r].pc = "epoch", ![r].start = epoch]
  /\ ReadOnly

\* The folder's row, then the epoch; a cursor of another epoch is stale and the
\* client starts again.
ReadEpoch(r) ==
  /\ rd[r].pc = "epoch"
  /\ IF rd[r].after = None
       THEN rd' = [rd EXCEPT ![r].epoch = epoch, ![r].pc = "lookup"]
       ELSE rd' = [rd EXCEPT ![r] = IF rd[r].epoch = epoch THEN [@ EXCEPT !.pc = "folders"] ELSE Idle(rd[r].kind)]
  /\ ReadOnly

\* Mutant: the key leaves the epoch out.
KeyWithoutEpoch(r) == <<rd[r].kind, 0>>

\* readCacheKey, and the key of a first page.
Key(r) == <<rd[r].kind, rd[r].epoch>>

\* A value from the cache is checked against the epoch when it is a page.
Taken(r, v) ==
  rd' = [rd EXCEPT ![r].folders = v.folders, ![r].files = v.files,
                   ![r].pc = IF rd[r].kind = "page" THEN "recheck" ELSE "answer"]

\* JSONStore.Load: the local cache, then Redis.  A local entry may be expired, pushed
\* out or deleted by clearFolder; Redis may have lost the entry or not answer.
Lookup(r) ==
  /\ rd[r].pc = "lookup"
  /\ LET p == Home[r]
         k == Key(r)
     IN \/ local[p][k] # None /\ Taken(r, local[p][k]) /\ UNCHANGED <<local, shared>>
        \/ /\ shared[k] # None
           /\ local' = [local EXCEPT ![p][k] = shared[k]]
           /\ Taken(r, shared[k]) /\ UNCHANGED shared
        \/ /\ local' = [local EXCEPT ![p][k] = None]
           /\ shared' \in {shared, [shared EXCEPT ![k] = None]}
           /\ Go(r, "folders")
  /\ UNCHANGED <<rank, epoch, past>>

ReadFolders(r) ==
  /\ rd[r].pc = "folders"
  /\ rd' = [rd EXCEPT ![r].folders = FolderRows(r), ![r].pc = "files"]
  /\ ReadOnly

ReadFiles(r) ==
  /\ rd[r].pc = "files"
  /\ rd' = [rd EXCEPT ![r].files = FileRows(r), ![r].pc = IF rd[r].kind = "page" THEN "verify" ELSE "fill"]
  /\ ReadOnly

\* A first page that was overtaken is read again in a snapshot; a later page is stale.
Overtaken(r) == rd' = [rd EXCEPT ![r] = IF rd[r].after = None THEN [@ EXCEPT !.pc = "snapshot"] ELSE Idle(rd[r].kind)]

\* Mutant: the rows are not checked against the epoch.
VerifyNothing(r) ==
  /\ rd[r].pc = "verify"
  /\ Go(r, IF rd[r].after = None THEN "fill" ELSE "answer")
  /\ ReadOnly

\* The epoch is still the one that was read before the rows.
Verify(r) ==
  /\ rd[r].pc = "verify"
  /\ IF rd[r].epoch = epoch THEN Go(r, IF rd[r].after = None THEN "fill" ELSE "answer") ELSE Overtaken(r)
  /\ ReadOnly

Value(r) == [folders |-> rd[r].folders, files |-> rd[r].files]

\* loadSource: into the local cache, and into Redis if this process holds the fill
\* lease.
Fill(r) ==
  /\ rd[r].pc = "fill"
  /\ local' = [local EXCEPT ![Home[r]][Key(r)] = Value(r)]
  /\ \E pc \in {"publish", IF rd[r].kind = "page" THEN "recheck" ELSE "answer"} : Go(r, pc)
  /\ UNCHANGED <<rank, epoch, past, shared>>

Publish(r) ==
  /\ rd[r].pc = "publish"
  /\ shared' = [shared EXCEPT ![Key(r)] = Value(r)]
  /\ Go(r, IF rd[r].kind = "page" THEN "recheck" ELSE "answer")
  /\ UNCHANGED <<rank, epoch, past, local>>

Recheck(r) ==
  /\ rd[r].pc = "recheck"
  /\ IF rd[r].epoch = epoch THEN Go(r, "answer") ELSE Overtaken(r)
  /\ ReadOnly

\* ChildrenPage: rows and epoch in one REPEATABLE READ transaction, without a cache.
Snapshot(r) ==
  /\ rd[r].pc = "snapshot"
  /\ rd' = [rd EXCEPT ![r].epoch = epoch, ![r].folders = FolderRows(r), ![r].files = FileRows(r),
                      ![r].pc = "answer"]
  /\ ReadOnly

\* Children: all folders, then all files.
AnswerAll(r) ==
  /\ rd[r].pc = "answer" /\ rd[r].kind = "all"
  /\ rd' = [rd EXCEPT ![r] = [@ EXCEPT !.got = rd[r].folders \o rd[r].files, !.folders = <<>>, !.files = <<>>,
                                       !.pc = "done"]]
  /\ ReadOnly

\* ChildrenPage: folders before files, cut to the page; the client asks for the page
\* after the last row.  The cursor names the rank that the row had when it was read.
AnswerPage(r) ==
  /\ rd[r].pc = "answer" /\ rd[r].kind = "page"
  /\ LET rows == rd[r].folders \o rd[r].files
         page == FirstOf(rows, Limit)
         more == Len(rows) > Len(page)
         got == rd[r].got \o page
     IN rd' = [rd EXCEPT ![r] = [@ EXCEPT !.got = got, !.folders = <<>>, !.files = <<>>, !.pc = IF more THEN "epoch" ELSE "done",
                                          !.after = IF more THEN Last(page) ELSE None,
                                          !.at = IF more THEN past[rd[r].epoch][Last(page)] ELSE 0]]
  /\ ReadOnly

Step(r) ==
  \/ ReadEpoch(r) \/ Lookup(r) \/ ReadFolders(r) \/ ReadFiles(r) \/ Verify(r) \/ Fill(r)
  \/ Publish(r) \/ Recheck(r) \/ Snapshot(r) \/ AnswerAll(r) \/ AnswerPage(r)

Next ==
  \/ \E i \in Ids, to \in 0 .. MaxRank : Write(i, to)
  \/ \E r \in Readers : Ask(r) \/ Step(r)

Spec == Init /\ [][Next]_vars

-----------------------------------------------------------------------------
(* Properties *)

\* The listing of a kind of children when they had these ranks.
ListingOf(S, ranks) == Sorted({i \in S : ranks[i] # 0}, ranks)

\* "A write invalidates an in-flight page sequence so clients restart from page one
\* instead of silently skipping or duplicating rows": the pages of a sequence that
\* is answered to its end are the folder as it was at one epoch, no older than the
\* first request.
PagesAreOneListing ==
  \A r \in Readers : rd[r].pc = "done" /\ rd[r].kind = "page" =>
    /\ rd[r].epoch >= rd[r].start
    /\ rd[r].got = ListingOf(FolderIds, past[rd[r].epoch]) \o ListingOf(FileIds, past[rd[r].epoch])

\* A cached listing is never older than the request it answers: folders and files
\* are as they were at epochs since the request came in.
ListingIsFresh ==
  \A r \in Readers : rd[r].pc = "done" /\ rd[r].kind = "all" =>
    \E e, f \in rd[r].start .. epoch :
      e <= f /\ rd[r].got = ListingOf(FolderIds, past[e]) \o ListingOf(FileIds, past[f])
=============================================================================
