---------------------------- MODULE ContentIndex ----------------------------
(***************************************************************************)
(* The search projection of one object's content (search.Projector): the   *)
(* rows of search_content_projections, the Elasticsearch documents and the *)
(* Qdrant points of its chunks, in one index generation.                   *)
(*                                                                         *)
(* A document version has one chunk here, with a new id in every version:  *)
(* version and chunk are one number.  All writes of a generation carry the *)
(* same index epoch, so a fence compares tombstones alone.                 *)
(***************************************************************************)
EXTENDS Naturals, FiniteSets

CONSTANTS Projectors,   \* event handlers
          Snapshots,    \* those that run a backfill or a repair as well
          MaxVersions,  \* bound: versions of the document, over all lives of the object
          MaxEvents,    \* bound: events emitted
          MaxFaults     \* bound: crashes and failed publications

VARIABLES source,    \* the object's status, its active version (0: none) and the versions made
          due,       \* how many events wait for a handler; all are handled alike
          row,       \* PostgreSQL: state per chunk
          es,        \* Elasticsearch: document per chunk
          point,     \* Qdrant: point per chunk
          deleted,   \* Qdrant: chunks with a deletion record
          worker,
          faults

vars == <<source, due, row, es, point, deleted, worker, faults>>
index == <<row, es, point, deleted>>

Chunks == 1 .. MaxVersions
States == {"absent", "live", "dead"}
Idle == [at |-> "idle", event |-> FALSE, page |-> {}, rows |-> {}, item |-> [chunk |-> 0, state |-> "absent"]]

Init ==
  /\ source = [status |-> "ready", active |-> 0, made |-> 0, emitted |-> 1] /\ due = 1
  /\ row = [c \in Chunks |-> "absent"] /\ es = [c \in Chunks |-> "absent"]
  /\ point = [c \in Chunks |-> "absent"] /\ deleted = {}
  /\ worker = [w \in Projectors |-> Idle] /\ faults = 0

-----------------------------------------------------------------------------
(* What happens to the object, each with its event *)

Emit(s) ==
  /\ s.emitted < MaxEvents
  /\ source' = [s EXCEPT !.emitted = @ + 1] /\ due' = due + 1
  /\ UNCHANGED <<index, worker, faults>>

\* The transaction of an indexer that publishes a version; ai.indexed.
Publish ==
  /\ source.status = "ready" /\ source.made < MaxVersions
  /\ Emit([source EXCEPT !.made = @ + 1, !.active = source.made + 1])

\* object.gc.requested, when the object is retired and when it is deleted.
Retire == source.status = "ready" /\ Emit([source EXCEPT !.status = "deleting"])
Delete == source.status = "deleting" /\ Emit([source EXCEPT !.status = "deleted", !.active = 0])

\* object.ready, of the next upload of the content.
Revive == source.status = "deleted" /\ Emit([source EXCEPT !.status = "ready"])

-----------------------------------------------------------------------------
(* The projection: one transaction that holds the object and the document *)

Buried(state) == IF state = "absent" THEN "absent" ELSE "dead"

\* upsertContent of a live chunk: a tombstone of the same epoch stays.
Upserted(state) == IF state = "dead" THEN "dead" ELSE "live"

\* Mutation: chunks of older versions are left to the authorization query.
ProjectedOwn(wanted) ==
  [c \in Chunks |->
     IF source.status # "ready" THEN Buried(row[c])
     ELSE IF c = source.active /\ c \in wanted THEN Upserted(row[c]) ELSE row[c]]

\* projectObjectChunks: every chunk of an object that is not ready is buried, and
\* so are those of other versions than the active one; a document that is
\* missing or has no active version leaves the rows alone.
Projected(wanted) ==
  [c \in Chunks |->
     IF source.status # "ready" THEN Buried(row[c])
     ELSE IF source.active = 0 THEN row[c]
     ELSE IF c # source.active THEN Buried(row[c])
     ELSE IF c \in wanted THEN Upserted(row[c]) ELSE row[c]]

ProjectObject(w, event) ==
  /\ worker[w] = Idle /\ row' = Projected(Chunks)
  /\ worker' = [worker EXCEPT ![w] = [Idle EXCEPT !.at = "load", !.event = event, !.page = Chunks]]
  /\ UNCHANGED <<source, es, point, deleted, faults>>

\* An event's handler; the same again without an event.
Project(w) == due > 0 /\ due' = due - 1 /\ ProjectObject(w, TRUE)
RepairObject(w) == ProjectObject(w, FALSE) /\ UNCHANGED due

\* SnapshotContent: a page of active chunks, read before anything is locked.
ReadPage(w) ==
  /\ worker[w] = Idle /\ source.active # 0
  /\ worker' = [worker EXCEPT ![w] = [Idle EXCEPT !.at = "page", !.page = {source.active}]]
  /\ UNCHANGED <<source, due, index, faults>>

\* It reads the facts again under the locks.
ProjectPage(w) ==
  /\ worker[w].at = "page" /\ row' = Projected(worker[w].page)
  /\ worker' = [worker EXCEPT ![w].at = "load"]
  /\ UNCHANGED <<source, due, es, point, deleted, faults>>

-----------------------------------------------------------------------------
(* publishExternal, after the transaction and outside any *)

LoadRows(w) ==
  /\ worker[w].at = "load"
  /\ worker' = [worker EXCEPT ![w].at = "publish",
       ![w].rows = {r \in [chunk : worker[w].page, state : {"live", "dead"}] : row[r.chunk] = r.state}]
  /\ UNCHANGED <<source, due, index, faults>>

\* The script: a tombstone wins a tie.
PutElasticsearch(w) ==
  /\ worker[w].at = "publish"
  /\ \E r \in worker[w].rows :
       /\ es' = [es EXCEPT ![r.chunk] = IF r.state = "dead" THEN "dead" ELSE Upserted(@)]
       /\ worker' = [worker EXCEPT ![w].at = "vector", ![w].rows = @ \ {r}, ![w].item = r]
  /\ UNCHANGED <<source, due, row, point, deleted, faults>>

\* Qdrant has no conditional write: the point is overwritten, or a deletion
\* record is added beside it; the point is masked in a second request.
PutQdrant(w) ==
  LET r == worker[w].item IN
  /\ worker[w].at = "vector" /\ worker' = [worker EXCEPT ![w].at = "mask"]
  /\ IF r.state = "dead"
     THEN deleted' = deleted \cup {r.chunk} /\ UNCHANGED point
     ELSE point' = [point EXCEPT ![r.chunk] = "live"] /\ UNCHANGED deleted
  /\ UNCHANGED <<source, due, row, es, faults>>

\* maskTombstone, maskDeletedPoints.
MaskQdrant(w) ==
  LET c == worker[w].item.chunk IN
  /\ worker[w].at = "mask" /\ worker' = [worker EXCEPT ![w].at = "publish"]
  /\ point' = [point EXCEPT ![c] = IF c \in deleted THEN Buried(@) ELSE @]
  /\ UNCHANGED <<source, due, row, es, deleted, faults>>

\* The checkpoint and the acknowledgement; a page is recorded instead.
Acknowledge(w) ==
  /\ worker[w].at = "publish" /\ worker[w].rows = {}
  /\ worker' = [worker EXCEPT ![w] = Idle]
  /\ UNCHANGED <<source, due, index, faults>>

\* The process dies or a write fails; the event is delivered again.
Fail(w) ==
  /\ worker[w] # Idle /\ faults < MaxFaults /\ faults' = faults + 1
  /\ worker' = [worker EXCEPT ![w] = Idle] /\ due' = IF worker[w].event THEN due + 1 ELSE due
  /\ UNCHANGED <<source, index>>

Next ==
  \/ Publish \/ Retire \/ Delete \/ Revive
  \/ \E w \in Snapshots : RepairObject(w) \/ ReadPage(w) \/ ProjectPage(w)
  \/ \E w \in Projectors : Project(w) \/ LoadRows(w) \/ PutElasticsearch(w) \/ PutQdrant(w) \/ MaskQdrant(w)
                        \/ Acknowledge(w) \/ Fail(w)

-----------------------------------------------------------------------------
(* Searches *)

\* SearchText and SearchVector of Elasticsearch: esVisibleFilter.
VisibleText == {c \in Chunks : es[c] = "live"}

\* SearchVector of Qdrant: the filter on the payload, then visibleCandidates.
VisibleVector == {c \in Chunks : point[c] = "live" /\ c \notin deleted}

Quiet == due = 0 /\ \A w \in Projectors : worker[w] = Idle

\* When the last event is handled both indexes show the active version's chunks,
\* whatever late write arrived: nothing of an object that is not ready, and of an
\* indexed one this version alone.
ContentCaughtUp ==
  Quiet => \A visible \in {VisibleText, VisibleVector} :
             IF source.status # "ready" THEN visible = {}
             ELSE source.active # 0 => visible = {source.active}
=============================================================================
