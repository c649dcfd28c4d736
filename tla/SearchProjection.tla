-------------------------- MODULE SearchProjection --------------------------
(***************************************************************************)
(* The search projection of one file (search.Projector).  Transactions of  *)
(* the drive and of sharing emit events; projectors handle them in any     *)
(* order and more than once, re-read the file's row, write it into the     *)
(* PostgreSQL projection of every live index generation and then, outside  *)
(* any transaction, into the external index.  A backfill builds a new      *)
(* generation meanwhile and is activated.                                  *)
(*                                                                         *)
(* A projected value keeps what the fences compare: the file's version,    *)
(* the owner's ACL epoch and the tombstone.  The index epoch is the same   *)
(* for all values of one generation.  Reads of a transaction are separate  *)
(* steps (PostgreSQL runs it READ COMMITTED), its writes are one.          *)
(***************************************************************************)
EXTENDS Naturals, Sequences, FiniteSets

CONSTANTS Workers,     \* projectors and backfills
          Targets,     \* index generations 1, 2, ...; 1 is the workers' own
          MaxWrites,   \* bound: committed changes with an event
          MaxACL,      \* bound: the owner's ACL epoch, 1 at the start
          MaxFaults,   \* bound: crashes, failed statements and publications, outlived leases
          None

ASSUME SearchAssumption ==
  /\ MaxWrites \in Nat /\ MaxACL \in Nat \ {0} /\ MaxFaults \in Nat
  /\ Targets \subseteq Nat /\ 1 \in Targets
  /\ None \notin [ver : Nat, acl : Nat, dead : BOOLEAN]

VARIABLES src,     \* the file's row; version 0 before it is created
          acl,     \* owner_content_epochs.acl_epoch
          events,  \* emitted events, in commit order
          row,     \* search_file_projections, per generation
          doc,     \* the document in the external index, per generation
          gen,     \* search_index_versions.state; a stalled one is building with an error
          scanned, \* generations whose snapshot is finished
          chk,     \* search_projection_checkpoints.state
          acked,   \* event_consumptions
          ended,   \* tasks with a receipt: succeeded or given up
          wk,      \* the workers
          raced,   \* history: generations hit by one of two races, see Overtaken, Torn
          faults

vars == <<src, acl, events, row, doc, gen, scanned, chk, acked, ended, wk, raced, faults>>
source == <<src, acl, events>>
index == <<row, doc, raced>>
control == <<gen, scanned>>
progress == <<chk, acked, ended>>

Nums == 1 .. MaxWrites
Values == [ver : 0 .. MaxWrites, acl : 0 .. MaxACL, dead : BOOLEAN]
Kinds == {"file", "delete", "share", "folder"}
Places == {"idle", "check", "source", "acl", "project", "load", "put", "settle", "ack"}

\* ev = 0 is a backfill's snapshot; value is what was read last.
Idle == [at |-> "idle", ev |-> 0, t |-> 1, todo |-> {}, failed |-> "no", value |-> None]

TypeOK ==
  /\ src \in [ver : 0 .. MaxWrites, dead : BOOLEAN] /\ acl \in 1 .. MaxACL
  /\ events \in Seq([kind : Kinds, ver : 0 .. MaxWrites, acl : 1 .. MaxACL])
  /\ row \in [Targets -> Values \cup {None}] /\ doc \in [Targets -> Values \cup {None}]
  /\ gen \in [Targets -> {"absent", "building", "stalled", "failed", "active", "retired"}]
  /\ scanned \subseteq Targets
  /\ chk \in [Nums \X Targets -> {"none", "pending", "publishing", "failed", "indexed"}]
  /\ acked \subseteq Nums \X Targets
  /\ ended \in [Nums -> {"open", "done", "dead"}]
  /\ wk \in [Workers -> [at : Places, ev : 0 .. MaxWrites, t : Targets, todo : SUBSET Targets,
                         failed : {"no", "retry", "skip"}, value : Values \cup {None}]]
  /\ raced \subseteq Targets /\ faults \in 0 .. MaxFaults

Init ==
  /\ src = [ver |-> 0, dead |-> FALSE] /\ acl = 1 /\ events = << >>
  /\ row = [t \in Targets |-> None] /\ doc = [t \in Targets |-> None]
  /\ gen = [t \in Targets |-> IF t = 1 THEN "active" ELSE "absent"] /\ scanned = {1}
  /\ chk = [p \in Nums \X Targets |-> "none"] /\ acked = {}
  /\ ended = [e \in Nums |-> "open"]
  /\ wk = [w \in Workers |-> Idle] /\ raced = {} /\ faults = 0

-----------------------------------------------------------------------------
(* The fences.  PostgreSQL's ON CONFLICT ... WHERE and the script of the   *)
(* Elasticsearch update state the same rule.                               *)

\* Mutation: the last write wins.
AcceptsAll(old, new) == TRUE

Accepts(old, new) ==
  old = None \/ ( /\ old.ver <= new.ver /\ old.acl <= new.acl
                  /\ (~old.dead \/ new.dead \/ old.ver < new.ver) )

Upsert(old, new) == IF Accepts(old, new) THEN new ELSE old

\* tombstoneFile is an UPDATE: it leaves no trace of a file it has no row of.
TombstoneRow(old, ver) ==
  IF old # None /\ old.ver <= ver THEN [old EXCEPT !.ver = ver, !.dead = TRUE] ELSE old

\* The external TombstoneFile is an upsert; its document has no ACL version.
TombstoneDoc(old, ver) ==
  IF old = None THEN [ver |-> ver, acl |-> 0, dead |-> TRUE] ELSE TombstoneRow(old, ver)

-----------------------------------------------------------------------------
(* The business transactions, each with its event. *)

Emit(kind, ver, epoch) ==
  /\ Len(events) < MaxWrites
  /\ events' = Append(events, [kind |-> kind, ver |-> ver, acl |-> epoch])
  /\ UNCHANGED <<index, control, progress, wk, faults>>

\* Upload, import, rename or move.
WriteFile ==
  /\ ~src.dead /\ src' = [src EXCEPT !.ver = @ + 1]
  /\ Emit("file", src'.ver, acl) /\ UNCHANGED acl

DeleteFile ==
  /\ src.ver > 0 /\ ~src.dead /\ src' = [ver |-> src.ver + 1, dead |-> TRUE]
  /\ Emit("delete", src'.ver, acl) /\ UNCHANGED acl

\* Create, change or revoke a share; BumpACL.
ChangeShare ==
  /\ src.ver > 0 /\ acl < MaxACL /\ acl' = acl + 1
  /\ Emit("share", src.ver, acl') /\ UNCHANGED src

\* A share of another file of the owner: the epoch moves, no event of ours.
ShareOther ==
  /\ src.ver > 0 /\ acl < MaxACL /\ acl' = acl + 1
  /\ UNCHANGED <<src, events, index, control, progress, wk, faults>>

WriteFolder == src.ver > 0 /\ Emit("folder", src.ver, acl) /\ UNCHANGED <<src, acl>>

-----------------------------------------------------------------------------
(* Handler and handleTarget, for the event of worker w. *)

Event(w) == events[wk[w].ev]
Key(w) == <<wk[w].ev, wk[w].t>>
Least(S) == CHOOSE t \in S : \A u \in S : t <= u

Building == {t \in Targets : gen[t] \in {"building", "stalled"}}

Live == Building \cup {t \in Targets : gen[t] = "active"}

\* Handler: the generations to write are read once, at the start.  A worker
\* that has outlived its lease still holds the event while another starts it.
Receive(w, e) ==
  /\ wk[w].at = "idle" /\ e \in 1 .. Len(events) /\ ended[e] = "open"
  /\ IF \E v \in Workers : wk[v].at # "idle" /\ wk[v].ev = e
     THEN faults < MaxFaults /\ faults' = faults + 1 ELSE UNCHANGED faults
  /\ wk' = [wk EXCEPT ![w] = [Idle EXCEPT !.at = "check", !.ev = e, !.todo = Live \cup {1}]]
  /\ UNCHANGED <<source, index, control, progress>>

\* What the handler's return makes of the task; an error worth a retry gives
\* it up at its last try.
Outcomes(failed) ==
  CASE failed = "no" -> {"done"}
    [] failed = "skip" -> {"dead"}
    [] failed = "retry" -> {"open", "dead"}

\* The worker's next target, or the handler's return.
Onward(w, todo, failed) ==
  IF todo # {}
  THEN /\ wk' = [wk EXCEPT ![w].at = "check", ![w].t = Least(todo), ![w].todo = todo,
                           ![w].failed = failed, ![w].value = None]
       /\ UNCHANGED ended
  ELSE /\ wk' = [wk EXCEPT ![w] = Idle]
       /\ \E outcome \in Outcomes(failed) :
            ended' = [ended EXCEPT ![wk[w].ev] = IF @ = "open" THEN outcome ELSE @]

\* Handler cannot read its list of generations, at the last try of the task.
NoTargets(e) ==
  /\ e \in 1 .. Len(events) /\ ended[e] = "open"
  /\ faults < MaxFaults /\ faults' = faults + 1
  /\ ended' = [ended EXCEPT ![e] = "dead"]
  /\ UNCHANGED <<source, index, control, chk, acked, wk>>

\* An acknowledged event is skipped, a published one only acknowledged.
Check(w) ==
  /\ wk[w].at = "check" /\ UNCHANGED <<source, index, control, chk, acked, faults>>
  /\ \/ Key(w) \in acked /\ Onward(w, wk[w].todo \ {wk[w].t}, wk[w].failed)
     \/ /\ Key(w) \notin acked /\ UNCHANGED ended
        /\ wk' = [wk EXCEPT ![w].at = IF chk[Key(w)] = "indexed" THEN "ack"
                                      ELSE IF Event(w).kind = "delete" THEN "project"
                                      ELSE IF Event(w).kind = "folder" THEN "acl" ELSE "source"]

\* projectFileWithACL reads the row and then the epoch, projectOwner first
\* the epoch; the event of a share brings its own.
NoValue == [ver |-> 0, acl |-> 0, dead |-> FALSE]
Read(w) == IF wk[w].value = None THEN NoValue ELSE wk[w].value
OwnEpoch(w) == wk[w].ev # 0 /\ Event(w).kind = "share"
EpochFirst(w) == wk[w].ev # 0 /\ Event(w).kind = "folder"

ReadSource(w) ==
  /\ wk[w].at = "source"
  /\ wk' = [wk EXCEPT ![w].value = [Read(w) EXCEPT !.ver = src.ver, !.dead = src.dead,
                                                   !.acl = IF OwnEpoch(w) THEN Event(w).acl ELSE Read(w).acl],
                      ![w].at = IF OwnEpoch(w) \/ EpochFirst(w) THEN "project" ELSE "acl"]
  /\ UNCHANGED <<source, index, control, progress, faults>>

\* The file changed between the two reads: an old version will be written
\* with a new epoch.
Torn(w) == wk[w].value # None /\ wk[w].value.ver # src.ver

ReadACL(w) ==
  /\ wk[w].at = "acl" /\ raced' = IF Torn(w) THEN raced \cup {wk[w].t} ELSE raced
  /\ wk' = [wk EXCEPT ![w].value = [Read(w) EXCEPT !.acl = acl],
                      ![w].at = IF EpochFirst(w) THEN "source" ELSE "project"]
  /\ UNCHANGED <<source, row, doc, control, progress, faults>>

\* Generations for which a worker has read the live file and not yet written
\* its first row: a tombstone that comes now finds nothing to mark.
Overtaken ==
  {t \in Targets : row[t] = None /\
     \E w \in Workers : /\ wk[w].t = t /\ wk[w].at \in {"acl", "project"}
                        /\ wk[w].value # None /\ wk[w].value.ver > 0 /\ ~wk[w].value.dead}

\* Commit of project and beginCheckpoint; a delete's tombstone goes to the
\* rows of all generations.  A snapshot keeps no checkpoint.
Project(w) ==
  /\ wk[w].at = "project"
  /\ row' = IF wk[w].ev # 0 /\ Event(w).kind = "delete"
            THEN [t \in Targets |-> TombstoneRow(row[t], Event(w).ver)]
            ELSE [row EXCEPT ![wk[w].t] = Upsert(@, wk[w].value)]
  /\ raced' = IF wk[w].ev # 0 /\ Event(w).kind = "delete" THEN raced \cup Overtaken ELSE raced
  /\ chk' = IF wk[w].ev = 0 THEN chk ELSE [chk EXCEPT ![Key(w)] = "pending"]
  /\ wk' = [wk EXCEPT ![w].at = "load", ![w].value = None]
  /\ UNCHANGED <<source, doc, control, acked, ended, faults>>

\* Mutation: the checkpoint says indexed before the publication.
LoadSettled(w) ==
  /\ wk[w].at = "load"
  /\ chk' = IF wk[w].ev = 0 THEN chk ELSE [chk EXCEPT ![Key(w)] = "indexed"]
  /\ wk' = [wk EXCEPT ![w].at = "put", ![w].value = row[wk[w].t]]
  /\ UNCHANGED <<source, index, control, acked, ended, faults>>

\* publishExternal loads the projected row again.
Load(w) ==
  /\ wk[w].at = "load"
  /\ chk' = IF wk[w].ev = 0 THEN chk ELSE [chk EXCEPT ![Key(w)] = "publishing"]
  /\ wk' = [wk EXCEPT ![w].at = "put", ![w].value = row[wk[w].t]]
  /\ UNCHANGED <<source, index, control, acked, ended, faults>>

\* What the external index makes of the request.
Published(w) ==
  IF wk[w].value # None THEN Upsert(doc[wk[w].t], wk[w].value)
  ELSE IF wk[w].ev # 0 /\ Event(w).kind = "delete" THEN TombstoneDoc(doc[wk[w].t], Event(w).ver)
  ELSE doc[wk[w].t]

Put(w) ==
  /\ wk[w].at = "put" /\ doc' = [doc EXCEPT ![wk[w].t] = Published(w)]
  /\ wk' = [wk EXCEPT ![w].at = "settle", ![w].value = None]
  /\ UNCHANGED <<source, row, raced, control, progress, faults>>

\* The publication fails, with or without effect.  The other generations are
\* still written; a permanent error gives the task up in the end (SkipRetry).
\* failBackfillVersions: a snapshot keeps its cursor unless the error is
\* permanent.
PutFails(w, how) ==
  /\ wk[w].at = "put" /\ faults < MaxFaults /\ faults' = faults + 1
  /\ doc' \in {doc, [doc EXCEPT ![wk[w].t] = Published(w)]}
  /\ UNCHANGED <<source, row, raced, scanned, acked>>
  /\ IF wk[w].ev = 0
     THEN /\ wk' = [wk EXCEPT ![w] = Idle] /\ UNCHANGED <<chk, ended>>
          /\ gen' = [gen EXCEPT ![wk[w].t] = IF wk[w].t \notin Building THEN @
                                             ELSE IF how = "skip" THEN "failed" ELSE "stalled"]
     ELSE /\ UNCHANGED gen
          /\ chk' = [chk EXCEPT ![Key(w)] = "failed"]
          /\ Onward(w, wk[w].todo \ {wk[w].t}, IF wk[w].failed = "skip" THEN "skip" ELSE how)

\* Cursor and checksum of a snapshot, of a generation still being built.
Scanned(w) ==
  /\ wk' = [wk EXCEPT ![w] = Idle] /\ UNCHANGED chk
  /\ IF wk[w].t \in Building
     THEN gen' = [gen EXCEPT ![wk[w].t] = "building"] /\ scanned' = scanned \cup {wk[w].t}
     ELSE UNCHANGED control

\* The last checkpoint (a tombstoned one counts as indexed).
Settle(w) ==
  /\ wk[w].at = "settle" /\ UNCHANGED <<source, index, acked, ended, faults>>
  /\ IF wk[w].ev = 0 THEN Scanned(w)
     ELSE /\ chk' = [chk EXCEPT ![Key(w)] = "indexed"] /\ UNCHANGED control
          /\ wk' = [wk EXCEPT ![w].at = "ack"]

Ack(w) ==
  /\ wk[w].at = "ack" /\ acked' = acked \cup {Key(w)}
  /\ Onward(w, wk[w].todo \ {wk[w].t}, wk[w].failed)
  /\ UNCHANGED <<source, index, control, chk, faults>>

\* A statement of handleTarget or of a snapshot fails and its transaction with
\* it: the checkpoint stays as it was, and there may be none.  The error is
\* worth a retry, a snapshot keeps its cursor.
TargetFails(w) ==
  /\ wk[w].at \notin {"idle", "put"} /\ faults < MaxFaults /\ faults' = faults + 1
  /\ UNCHANGED <<source, index, scanned, chk, acked>>
  /\ IF wk[w].ev = 0
     THEN /\ wk' = [wk EXCEPT ![w] = Idle] /\ UNCHANGED ended
          /\ gen' = [gen EXCEPT ![wk[w].t] = IF wk[w].t \in Building THEN "stalled" ELSE @]
     ELSE /\ UNCHANGED gen
          /\ Onward(w, wk[w].todo \ {wk[w].t}, IF wk[w].failed = "skip" THEN "skip" ELSE "retry")

\* The process dies, or the lease is lost and its context cancelled.
Crash(w) ==
  /\ wk[w].at # "idle" /\ faults < MaxFaults /\ faults' = faults + 1
  /\ wk' = [wk EXCEPT ![w] = Idle]
  /\ UNCHANGED <<source, index, control, progress>>

-----------------------------------------------------------------------------
(* Index generations. *)

\* ensureBackfillVersions and the scan from the cursor on; with nothing left
\* to scan it is finished at once.
Backfill(w, t) ==
  /\ wk[w].at = "idle" /\ UNCHANGED <<source, index, progress, faults>>
  /\ \/ gen[t] \in {"absent", "building"} /\ t \notin scanned
     \/ gen[t] = "stalled"
  /\ IF src.ver = 0 \/ t \in scanned
     THEN /\ scanned' = scanned \cup {t} /\ UNCHANGED wk
          /\ gen' = [gen EXCEPT ![t] = "building"]
     ELSE /\ wk' = [wk EXCEPT ![w] = [Idle EXCEPT !.at = "source", !.t = t]] /\ UNCHANGED scanned
          /\ gen' = [gen EXCEPT ![t] = IF @ = "absent" THEN "building" ELSE @]

Unfinished(t) == {e \in Nums : chk[<<e, t>>] \in {"pending", "publishing", "failed"}}

Activated(t) ==
  [u \in Targets |-> IF u = t THEN "active" ELSE IF gen[u] = "active" THEN "retired" ELSE gen[u]]

\* Mutation: unfinished publications are not looked at.
ActivateUnchecked(t) ==
  /\ gen[t] = "building" /\ t \in scanned /\ gen' = Activated(t)
  /\ UNCHANGED <<source, index, scanned, progress, wk, faults>>

ActivateTarget(t) ==
  /\ gen[t] = "building" /\ t \in scanned /\ Unfinished(t) = {}
  /\ gen' = Activated(t)
  /\ UNCHANGED <<source, index, scanned, progress, wk, faults>>

Handle(w) ==
  \/ \E e \in Nums : Receive(w, e)
  \/ Check(w) \/ ReadSource(w) \/ ReadACL(w) \/ Project(w) \/ Load(w) \/ Put(w)
  \/ Settle(w) \/ Ack(w)

Next ==
  \/ WriteFile \/ DeleteFile \/ ChangeShare \/ ShareOther \/ WriteFolder
  \/ \E w \in Workers : Handle(w) \/ Crash(w) \/ TargetFails(w)
                        \/ \E how \in {"retry", "skip"} : PutFails(w, how)
  \/ \E e \in Nums : NoTargets(e)
  \/ \E w \in Workers, t \in Targets : Backfill(w, t)
  \/ \E t \in Targets : ActivateTarget(t)

Spec == Init /\ [][Next]_vars

-----------------------------------------------------------------------------
(* Properties. *)

\* The generations that are complete and receive events.
Served == {t \in scanned : t = 1 \/ gen[t] \notin {"failed", "retired"}}

\* A document that reflects event e, or something later.  The fence lets a
\* later version with an older epoch overtake an epoch; the event of that
\* version brings the epoch then.
Covers(d, e) ==
  d # None /\ d.ver >= e.ver /\ (e.kind = "delete" => d.dead)
           /\ (d.acl >= e.acl \/ d.dead \/ d.ver > e.ver)

Quiet == (\A w \in Workers : wk[w].at = "idle") /\ \A e \in 1 .. Len(events) : ended[e] = "done"

\* What is indexed is what the file's row says, and no event brought a newer
\* epoch.
Agrees(v) ==
  /\ v # None /\ v.ver = src.ver /\ v.dead = src.dead
  /\ v.dead \/ \A e \in 1 .. Len(events) : events[e].acl <= v.acl

\* Whatever was handled is in every generation whose snapshot is finished:
\* an event handled with a list of generations read before the backfill
\* began is in what the backfill read, and no publication of an older row
\* takes it away again (Handler, Snapshot, publishExternal).  Once every event
\* is handled and nobody is at work, projection and external index say of the
\* file exactly what its row says, with every ACL epoch announced for it.
\* Exceptions are a first projection that a delete overtook and a torn read
\* (raced).
CaughtUp ==
  \A t \in Served \ raced :
    /\ \A e \in 1 .. Len(events) : ended[e] = "done" => Covers(doc[t], events[e])
    /\ Quiet /\ src.ver > 0 => Agrees(doc[t]) /\ (row[t] = None \/ Agrees(row[t]))

\* A deleted file never appears in the external index again, whichever late
\* creates, updates and share changes are published after its tombstone.
NeverRevived == [][\A t \in Targets : doc[t] # None /\ doc[t].dead => doc'[t].dead]_vars

\* The publication of e to t is recorded, or the task has said success.
Begun(e, t) == ended[e] = "done" \/ chk[<<e, t>>] # "none"

\* A generation goes live only with every event that was handled and every
\* publication that has begun, also those whose worker died or whose task was
\* given up (ActivateTarget).  It does not count a task that has yet to reach
\* the generation, nor one given up before its first checkpoint was written.
ActivatesCaughtUp ==
  [][\A t \in Targets : gen[t] # "active" /\ gen'[t] = "active" =>
       t \in raced \/ \A e \in 1 .. Len(events) : Begun(e, t) => Covers(doc[t], events[e])]_vars

\* docs/SEARCH_SYNC_AUDIT_2026-11-06.md: the events emitted after a generation
\* was registered cover a delete that is concurrent with its snapshot.  Once
\* all is handled, no projection of a rebuilt generation would show the file.
SnapshotKeepsDeletion ==
  Quiet /\ src.dead => \A t \in Served \ {1} : row[t] = None \/ row[t].dead
=============================================================================
