----------------------------- MODULE Documents ------------------------------
(***************************************************************************)
(* The AI document of one object and its versions (ai.Service): indexers   *)
(* that build a new version under a lease while readers use the active     *)
(* one, a reprocess task, and the deletion of the object below them.       *)
(*                                                                         *)
(* Versions are numbered in the order they are made, over all documents of *)
(* the object, so a version's number stands for its id, its lease token    *)
(* (made with it, kept by one indexer) and the order of generations.  The  *)
(* object's key changes with each upload of the content: `life`.           *)
(***************************************************************************)
EXTENDS Naturals

CONSTANTS Indexers,     \* task deliveries at work
          MaxVersions,  \* bound: versions ever made
          MaxLives      \* bound: uploads of the content

VARIABLES object,     \* file_objects: status, key; whether the bytes are there
          document,   \* ai_documents: id is that of its first version, 0 without a row
          versions,   \* ai_document_versions
          indexer,
          reprocess   \* tasks.status of the one reprocess task

vars == <<object, document, versions, indexer, reprocess>>

Numbers == 1 .. MaxVersions
NoVersion == 0
NoDocument == [id |-> 0, active |-> NoVersion, status |-> "none"]
Unmade == [status |-> "unmade", retired |-> FALSE, lease |-> "none"]
Idle == [at |-> "idle", force |-> FALSE, task |-> FALSE, life |-> 0, doc |-> NoDocument,
         version |-> NoVersion, failed |-> FALSE]

Init ==
  /\ object = [status |-> "ready", life |-> 1, bytes |-> TRUE]
  /\ document = NoDocument /\ versions = [v \in Numbers |-> Unmade]
  /\ indexer = [i \in Indexers |-> Idle] /\ reprocess = "none"

Go(i, at) == indexer' = [indexer EXCEPT ![i].at = at]

\* The end of runIndex; a task's status is written afterwards.
End(i, failed) ==
  indexer' = [indexer EXCEPT ![i] = IF @.task THEN [@ EXCEPT !.at = "report", !.failed = failed] ELSE Idle]

Made == {v \in Numbers : versions[v].status # "unmade"}
With(status) == {v \in Numbers : versions[v].status = status}
Ended(status) == [status |-> status, retired |-> FALSE, lease |-> "none"]

-----------------------------------------------------------------------------
(* Deliveries *)

\* ai.index.requested; its runs are not forced.
IndexRequested(i) ==
  /\ indexer[i] = Idle /\ Go(i, "get")
  /\ UNCHANGED <<object, document, versions, reprocess>>

\* A second request with the same key finds the first one's task.
RequestReprocess ==
  /\ object.status = "ready" /\ reprocess = "none" /\ reprocess' = "pending"
  /\ UNCHANGED <<object, document, versions, indexer>>

ProcessTask(i) ==
  /\ indexer[i] = Idle /\ reprocess \in {"pending", "running", "failed"} /\ reprocess' = "running"
  /\ indexer' = [indexer EXCEPT ![i] = [Idle EXCEPT !.at = "get", !.force = TRUE, !.task = TRUE]]
  /\ UNCHANGED <<object, document, versions>>

ReportTask(i) ==
  /\ indexer[i].at = "report" /\ reprocess' = IF indexer[i].failed THEN "failed" ELSE "succeeded"
  /\ indexer' = [indexer EXCEPT ![i] = Idle]
  /\ UNCHANGED <<object, document, versions>>

-----------------------------------------------------------------------------
(* runIndex *)

GetObject(i) ==
  /\ indexer[i].at = "get"
  /\ IF object.status = "ready"
     THEN indexer' = [indexer EXCEPT ![i].at = "start", ![i].life = object.life]
     ELSE End(i, TRUE)
  /\ UNCHANGED <<object, document, versions, reprocess>>

\* The version to build next: an expired one is kept as failed.
Building(v) ==
  [u \in Numbers |->
     CASE u = v -> [status |-> "building", retired |-> FALSE, lease |-> "valid"]
       [] u \in With("building") -> Ended("failed")
       [] OTHER -> versions[u]]

\* The document's row when a replacement starts, made when there is none.
Started(v) == IF document.id = 0 THEN [id |-> v, active |-> NoVersion, status |-> "processing"]
                                 ELSE [document EXCEPT !.status = "processing"]

\* MAX(generation) + 1
After(v) == v - 1 \in Made \cup {0} /\ \A u \in Made : u < v

Build(i, v) ==
  /\ document' = Started(v) /\ versions' = Building(v)
  /\ indexer' = [indexer EXCEPT ![i] = [indexer[i] EXCEPT !.at = "read", !.version = v, !.doc = Started(v)]]

\* startDocumentVersion, one transaction under the document's row lock.
StartDocumentVersion(i) ==
  /\ indexer[i].at = "start"
  /\ \/ /\ ~indexer[i].force /\ document.active \in With("indexed")
        /\ End(i, FALSE) /\ UNCHANGED <<document, versions>>
     \/ /\ indexer[i].force \/ document.active \notin With("indexed")
        /\ \E v \in With("building") : versions[v].lease = "valid"
        /\ End(i, TRUE) /\ UNCHANGED <<document, versions>>
     \/ /\ indexer[i].force \/ document.active \notin With("indexed")
        /\ \A v \in With("building") : versions[v].lease = "expired"
        /\ \E v \in Numbers \ Made : After(v) /\ Build(i, v)
  /\ UNCHANGED <<object, reprocess>>

\* Too large, or the stored bytes are gone or cannot be read.
ReadObject(i) ==
  /\ indexer[i].at = "read"
  /\ \/ object.bytes /\ object.life = indexer[i].life /\ Go(i, "parse")
     \/ Go(i, "fail") \/ Go(i, "unsupported")
  /\ UNCHANGED <<object, document, versions, reprocess>>

\* Parsing and chunking: nothing usable, an error, or chunks.
Parse(i) ==
  /\ indexer[i].at = "parse" /\ (Go(i, "unsupported") \/ Go(i, "fail") \/ Go(i, "touch"))
  /\ UNCHANGED <<object, document, versions, reprocess>>

Holds(i) == versions[indexer[i].version].status = "building"

\* touchDocumentVersion, before the embeddings and after each batch of them.
TouchDocumentVersion(i) ==
  LET v == indexer[i].version IN
  /\ indexer[i].at \in {"touch", "embed"}
  /\ IF Holds(i) /\ versions[v].lease = "valid"
     THEN Go(i, IF indexer[i].at = "touch" THEN "embed" ELSE "commit")
     ELSE Go(i, "fail")
  /\ UNCHANGED <<object, document, versions, reprocess>>

\* The provider, or the enrichment, fails.
EmbedFails(i) ==
  /\ indexer[i].at \in {"embed", "commit"} /\ Go(i, "fail")
  /\ UNCHANGED <<object, document, versions, reprocess>>

Published(i) ==
  /\ versions' = [v \in Numbers |->
       CASE v = indexer[i].version -> Ended("indexed")
         [] v \in With("indexed") -> [versions[v] EXCEPT !.retired = TRUE]
         [] OTHER -> versions[v]]
  /\ document' = [document EXCEPT !.active = indexer[i].version, !.status = "indexed"]
  /\ End(i, FALSE)

\* Mutation: the version is published whoever builds now.
CommitStale(i) ==
  /\ indexer[i].at = "commit"
  /\ IF document.id = indexer[i].doc.id THEN Published(i) ELSE Go(i, "fail") /\ UNCHANGED <<document, versions>>
  /\ UNCHANGED <<object, reprocess>>

\* The transaction that writes the chunks, retires the version before and moves
\* the pointer.  It does not look at the lease, only at the fence.
CommitVersion(i) ==
  /\ indexer[i].at = "commit"
  /\ IF Holds(i) THEN Published(i) ELSE Go(i, "fail") /\ UNCHANGED <<document, versions>>
  /\ UNCHANGED <<object, reprocess>>

\* finishUnsupportedVersion: a document with an active version keeps it.
FinishUnsupported(i) ==
  /\ indexer[i].at = "unsupported"
  /\ IF Holds(i)
     THEN /\ versions' = [versions EXCEPT ![indexer[i].version] = Ended("unsupported")]
          /\ document' = [document EXCEPT !.status = IF document.active = NoVersion THEN "unsupported" ELSE "indexed"]
          /\ End(i, FALSE)
     ELSE End(i, TRUE) /\ UNCHANGED <<document, versions>>
  /\ UNCHANGED <<object, reprocess>>

\* finishFailedVersion, first statement.
FailVersion(i) ==
  /\ indexer[i].at = "fail" /\ Go(i, "summary")
  /\ versions' = IF Holds(i) THEN [versions EXCEPT ![indexer[i].version] = Ended("failed")] ELSE versions
  /\ UNCHANGED <<object, document, reprocess>>

\* Second statement: only a document without an active version has failed.
FailDocument(i) ==
  /\ indexer[i].at = "summary" /\ End(i, TRUE)
  /\ document' = IF /\ indexer[i].doc.active = NoVersion
                    /\ document.id = indexer[i].doc.id /\ document.active = NoVersion
                 THEN [document EXCEPT !.status = "failed"] ELSE document
  /\ UNCHANGED <<object, versions, reprocess>>

-----------------------------------------------------------------------------
(* Faults, and the object below *)

Crash(i) ==
  /\ indexer[i].at \notin {"idle", "get"} /\ indexer' = [indexer EXCEPT ![i] = Idle]
  /\ UNCHANGED <<object, document, versions, reprocess>>

LeaseExpires ==
  /\ \E v \in With("building") : /\ versions[v].lease = "valid"
                                 /\ versions' = [versions EXCEPT ![v].lease = "expired"]
  /\ UNCHANGED <<object, document, indexer, reprocess>>

GarbageCollect ==
  /\ object.status = "ready" /\ object' = [object EXCEPT !.status = "deleting"]
  /\ UNCHANGED <<document, versions, indexer, reprocess>>

RemoveBytes ==
  /\ object.status = "deleting" /\ object.bytes /\ object' = [object EXCEPT !.bytes = FALSE]
  /\ UNCHANGED <<document, versions, indexer, reprocess>>

\* The last transaction of performObjectDelete; the versions go with the document.
DeleteObject ==
  /\ object.status = "deleting" /\ ~object.bytes /\ object' = [object EXCEPT !.status = "deleted"]
  /\ document' = NoDocument
  /\ versions' = [v \in Numbers |-> IF v \in Made THEN Ended("gone") ELSE versions[v]]
  /\ UNCHANGED <<indexer, reprocess>>

Revive ==
  /\ object.status = "deleted" /\ object.life < MaxLives
  /\ object' = [status |-> "ready", life |-> object.life + 1, bytes |-> TRUE]
  /\ UNCHANGED <<document, versions, indexer, reprocess>>

Next ==
  \/ RequestReprocess \/ LeaseExpires \/ GarbageCollect \/ RemoveBytes \/ DeleteObject \/ Revive
  \/ \E i \in Indexers :
       \/ IndexRequested(i) \/ ProcessTask(i) \/ ReportTask(i)
       \/ GetObject(i) \/ StartDocumentVersion(i) \/ ReadObject(i) \/ Parse(i) \/ TouchDocumentVersion(i)
       \/ EmbedFails(i) \/ CommitVersion(i) \/ FinishUnsupported(i) \/ FailVersion(i) \/ FailDocument(i)
       \/ Crash(i)

-----------------------------------------------------------------------------

\* "A stale indexer can never switch the active pointer after another worker has
\* taken over": the active version is the one indexed version that is not
\* retired, and none that was indexed is newer.  An object that is deleted has
\* none.
ActiveVersionFenced ==
  /\ {v \in With("indexed") : ~versions[v].retired} = {document.active} \ {NoVersion}
  /\ document.active # NoVersion => \A v \in With("indexed") : v <= document.active
  /\ object.status = "deleted" => document.active = NoVersion

\* A failed or unsupported replacement never hides the index that is in use: the
\* summary of a document with an active version is indexed or processing.
SummaryKeepsIndex == document.active # NoVersion => document.status \in {"indexed", "processing"}
=============================================================================
