---------------------------- MODULE SearchProofs ----------------------------
(***************************************************************************)
(* Proofs about SearchProjection, for any number of projectors, index      *)
(* generations, writes, ACL changes and faults: a handled event is in      *)
(* every served generation, a tombstone is never taken back, and a         *)
(* generation goes live with everything that has ended.                    *)
(*                                                                         *)
(* CaughtUp speaks of the external document alone.  What keeps it true is  *)
(* spread over the workers: the rows they have read and not yet written,   *)
(* the requests they have loaded and not yet sent, the generations still   *)
(* on their lists and the checkpoints of those they gave up.  SearchInv    *)
(* says of each what it owes to whom.  Two facts carry the proof.  The     *)
(* fence only lets values grow (UpsertGrows), so that what covers an event *)
(* goes on covering it.  And a value the fence refuses was refused by one  *)
(* that covers the same events (UpsertCovers): both say nothing that the   *)
(* file's row did not say (Known), and neither pairs a new epoch with a    *)
(* version older than the events of that epoch (Coherent).                 *)
(***************************************************************************)
EXTENDS SearchProjection, WellFoundedInduction, TLAPS

-----------------------------------------------------------------------------
(* The inductive invariant. *)

\* The types, without the bounds of the instances.
Indexed == [ver : Nat, acl : Nat, dead : BOOLEAN]
Emitted == [kind : Kinds, ver : Nat, acl : Nat]
Handling == [at : Places, ev : Nat, t : Targets, todo : SUBSET Targets,
             failed : {"no", "retry", "skip"}, value : Indexed \cup {None}]
States == {"absent", "building", "stalled", "failed", "active", "retired"}
Checkpoints == {"none", "pending", "publishing", "failed", "indexed"}

TypeInv ==
  /\ src \in [ver : Nat, dead : BOOLEAN]
  /\ acl \in Nat
  /\ events \in Seq(Emitted)
  /\ row \in [Targets -> Indexed \cup {None}]
  /\ doc \in [Targets -> Indexed \cup {None}]
  /\ gen \in [Targets -> States]
  /\ scanned \subseteq Targets
  /\ chk \in [Nums \X Targets -> Checkpoints]
  /\ acked \subseteq Nums \X Targets
  /\ ended \in [Nums -> {"open", "done", "dead"}]
  /\ wk \in [Workers -> Handling]
  /\ raced \subseteq Targets
  /\ faults \in Nat

Emissions == 1 .. Len(events)

\* Events carry the version and the epoch of their transaction: the last one
\* carries the newest of both, and the delete is the file's last version.
SourceInv ==
  /\ Len(events) <= MaxWrites
  /\ src.dead => src.ver > 0
  /\ src.ver > 0 => Len(events) > 0 /\ events[Len(events)].ver = src.ver
  /\ \A e \in Emissions :
       /\ 1 <= events[e].ver /\ events[e].ver <= src.ver
       /\ events[e].acl <= acl
       /\ events[e].acl <= events[Len(events)].acl
       /\ events[e].kind = "delete" => src.dead /\ events[e].ver = src.ver

\* Receipts, checkpoints and acknowledgements belong to events, snapshots to
\* generations that have begun.
BookInv ==
  /\ \A e \in Nums : ended[e] # "open" => e \in Emissions
  /\ \A e \in Nums : \A t \in Targets : chk[<<e, t>>] # "none" \/ <<e, t>> \in acked => e \in Emissions
  /\ \A t \in scanned : gen[t] # "absent"
  /\ 1 \in scanned
  /\ \A w \in Workers : wk[w].at # "idle" /\ wk[w].ev = 0 => gen[wk[w].t] # "absent"

\* A value that was read from the file's row or tombstoned by its delete.
Known(v) ==
  /\ v.ver <= src.ver
  /\ v.acl <= acl
  /\ v.dead <=> src.dead /\ v.ver = src.ver

\* A value with a newer epoch than an event's has at least its version: the
\* epoch was not read after the file had moved on (Torn).
Coherent(v) == \A e \in Emissions : events[e].acl < v.acl => events[e].ver <= v.ver

\* The order in which the fences let values grow.
Below(a, b) == a.ver <= b.ver /\ a.acl <= b.acl /\ (a.dead => b.dead)

Grow(a, b) == a = None \/ (b # None /\ Below(a, b))

Comparable(a, b) == Below(a, b) \/ Below(b, a)

Brings(v, e) == v.ver >= e.ver /\ v.acl >= e.acl

Deleting(w) == wk[w].ev # 0 /\ events[wk[w].ev].kind = "delete"

KnownInv ==
  /\ \A t \in Targets : (row[t] # None => Known(row[t])) /\ (doc[t] # None => Known(doc[t]))
  /\ \A w \in Workers : wk[w].value # None => Known(wk[w].value)

\* What a worker holds at each place of the handler: the first of two reads,
\* both, or nothing; what it has read is as new as its event.
Shape(w) ==
  /\ wk[w].ev \in 0 .. Len(events)
  /\ wk[w].at \in {"check", "ack"} => wk[w].ev # 0
  /\ wk[w].at \in {"check", "load", "settle", "ack"} => wk[w].value = None
  /\ wk[w].at \in {"source", "acl"} => ~Deleting(w)
  /\ wk[w].at = "source" =>
       IF EpochFirst(w)
       THEN wk[w].value # None /\ wk[w].value.acl >= Event(w).acl
       ELSE wk[w].value = None /\ src.ver >= 1
  /\ wk[w].at = "acl" =>
       IF EpochFirst(w)
       THEN wk[w].value = None
       ELSE wk[w].value # None /\ wk[w].value.ver >= 1 /\ (wk[w].ev # 0 => wk[w].value.ver >= Event(w).ver)
  /\ wk[w].at = "project" =>
       IF Deleting(w) THEN wk[w].value = None
       ELSE wk[w].value # None /\ wk[w].value.ver >= 1 /\ (wk[w].ev # 0 => Brings(wk[w].value, Event(w)))

ShapeInv == \A w \in Workers : Shape(w)

\* The document, and the requests that will be offered to it.
InFlight(t) == {w \in Workers : wk[w].at = "put" /\ wk[w].t = t}
Pub(t) == ({doc[t]} \cup {wk[w].value : w \in InFlight(t)}) \ {None}

\* Nobody is about to write the row of a file that was alive when it was read.
NoLive(t) ==
  \A w \in Workers : ~( /\ wk[w].t = t /\ wk[w].at \in {"acl", "project"}
                        /\ wk[w].value # None /\ wk[w].value.ver > 0 /\ ~wk[w].value.dead )

\* The delete has reached the generation: its row is a tombstone, or there is
\* none and none of a living file will come.
Buried(t) == src.dead /\ IF row[t] = None THEN NoLive(t) ELSE row[t].dead

\* The row is ahead of everything published, and what is published is of one
\* chain.  Without a row only bare tombstones are published.
TargetOK(t) ==
  /\ row[t] # None => Coherent(row[t])
  /\ \A a \in Pub(t) : Coherent(a)
  /\ \A a, b \in Pub(t) : Comparable(a, b)
  /\ row[t] # None => \A a \in Pub(t) : Below(a, row[t])
  /\ row[t] = None /\ Pub(t) # {} => Buried(t) /\ \A a \in Pub(t) : a.dead /\ a.acl = 0

TargetInv == \A t \in Targets \ raced : TargetOK(t)

\* What worker w will publish, or has published, contains event e.
Reflects(w, e) ==
  /\ wk[w].at = "acl" => wk[w].value.ver >= e.ver
  /\ wk[w].at = "project" => Brings(wk[w].value, e)
  /\ wk[w].at = "load" => Covers(row[wk[w].t], e)
  /\ wk[w].at = "put" => Covers(wk[w].value, e)
  /\ wk[w].at \in {"settle", "ack"} => Covers(doc[wk[w].t], e)

\* A worker's own event is in what it projects, loads, publishes and settles;
\* a delete that finds no row publishes a bare tombstone into a generation of
\* tombstones only.
Honest(w) ==
  /\ wk[w].at = "project" /\ wk[w].value # None => Coherent(wk[w].value)
  /\ wk[w].at = "load" /\ ~Deleting(w) => row[wk[w].t] # None
  /\ wk[w].at = "put" /\ wk[w].value = None =>
        Deleting(w) /\ \A a \in Pub(wk[w].t) : a.dead
  /\ wk[w].at \in {"load", "put"} /\ Deleting(w) => Buried(wk[w].t)
  /\ /\ wk[w].at \in {"load", "put", "settle", "ack"} /\ wk[w].ev # 0
     /\ wk[w].at = "load" => ~Deleting(w)
     /\ wk[w].at = "put" => wk[w].value # None
     => Reflects(w, Event(w))

HonestInv == \A w \in Workers : wk[w].t \notin raced => Honest(w)

\* Nobody says that generation t has event e: the task has not succeeded, and
\* whoever handles it has t on his list or will not report success.
Owed(t, e) ==
  /\ ended[e] # "done"
  /\ \A w \in Workers : wk[w].at # "idle" /\ wk[w].ev = e => t \in wk[w].todo \/ wk[w].failed # "no"

Kept(t, e) == Covers(doc[t], events[e]) \/ Owed(t, e)

\* A checkpoint that says indexed and an acknowledgement are true.
AckedInv ==
  \A e \in Emissions : \A t \in Targets \ raced :
    chk[<<e, t>>] = "indexed" \/ <<e, t>> \in acked => Covers(doc[t], events[e])

\* A served generation has every event that is not still owed to it.
ServedInv == \A t \in Served \ raced : \A e \in Emissions : Kept(t, e)

\* While a generation is being scanned, each event is there already, is owed to
\* it, or is in what the snapshot has read.
SnapshotInv ==
  \A w \in Workers : \A e \in Emissions :
    wk[w].ev = 0 /\ wk[w].at \in {"acl", "project", "load", "put", "settle"}
      /\ wk[w].t \in Building \ raced =>
        Kept(wk[w].t, e) \/ Reflects(w, events[e])

SearchInv ==
  /\ TypeInv /\ SourceInv /\ BookInv /\ KnownInv /\ ShapeInv /\ TargetInv /\ HonestInv
  /\ AckedInv /\ ServedInv /\ SnapshotInv

-----------------------------------------------------------------------------
(* The fences. *)

LEMMA NoneIsNoValue ==
  ASSUME NEW v \in Indexed
  PROVE  v # None
BY SearchAssumption DEF Indexed

\* What covers an event goes on covering it while it grows.
LEMMA CoversGrow ==
  ASSUME NEW a \in Indexed \cup {None}, NEW b \in Indexed \cup {None}, NEW e \in Emitted,
         Grow(a, b), Covers(a, e)
  PROVE  Covers(b, e)
BY DEF Grow, Below, Covers, Indexed, Emitted

LEMMA GrowTransitive ==
  ASSUME NEW a \in Indexed \cup {None}, NEW b \in Indexed \cup {None}, NEW c \in Indexed \cup {None},
         Grow(a, b), Grow(b, c)
  PROVE  Grow(a, c)
BY DEF Grow, Below, Indexed

LEMMA UpsertType ==
  ASSUME NEW a \in Indexed \cup {None}, NEW v \in Indexed
  PROVE  /\ Upsert(a, v) \in Indexed
         /\ Upsert(a, v) = a \/ Upsert(a, v) = v
BY DEF Upsert, Accepts

\* The fence never takes anything back.
LEMMA UpsertGrows ==
  ASSUME TypeInv, NEW a \in Indexed \cup {None}, NEW v \in Indexed,
         a # None => Known(a), Known(v)
  PROVE  Grow(a, Upsert(a, v))
<1>1. CASE a = None
  BY <1>1 DEF Grow
<1>2. CASE a # None /\ Accepts(a, v)
  <2>1. a \in Indexed /\ v # None
    BY <1>2, NoneIsNoValue
  <2>2. a.dead => v.dead
    BY <1>2, <2>1 DEF Accepts, Known, TypeInv, Indexed
  <2> QED
    BY <1>2, <2>1, <2>2 DEF Grow, Below, Accepts, Upsert
<1>3. CASE a # None /\ ~Accepts(a, v)
  BY <1>3 DEF Grow, Below, Upsert, Indexed
<1> QED
  BY <1>1, <1>2, <1>3

\* After an upsert the event is covered, also when the fence refused it.
LEMMA UpsertCovers ==
  ASSUME TypeInv, SourceInv, NEW e \in Emissions,
         NEW a \in Indexed \cup {None}, NEW v \in Indexed,
         a # None => Known(a) /\ Coherent(a), Known(v), Brings(v, events[e])
  PROVE  Covers(Upsert(a, v), events[e])
<1>0. /\ events[e] \in Emitted /\ v # None
      /\ events[e].ver <= src.ver
      /\ events[e].kind = "delete" => src.dead /\ events[e].ver = src.ver
  BY NoneIsNoValue DEF TypeInv, SourceInv, Emissions
<1>1. CASE Accepts(a, v)
  <2>1. events[e].kind = "delete" => v.dead
    BY <1>0 DEF Known, Brings, TypeInv, Indexed, Emitted
  <2> QED
    BY <1>0, <1>1, <2>1 DEF Upsert, Covers, Brings
<1>2. CASE ~Accepts(a, v)
  <2>1. a \in Indexed /\ a # None /\ Known(a) /\ Coherent(a)
    BY <1>2 DEF Accepts
  <2>2. CASE a.ver > v.ver
    <3>1. a.ver > events[e].ver
      BY <1>0, <2>1, <2>2 DEF Brings, Indexed, Emitted
    <3>2. events[e].kind # "delete"
      BY <1>0, <2>1, <3>1 DEF Known, TypeInv, Indexed, Emitted
    <3> QED
      BY <1>0, <1>2, <2>1, <3>1, <3>2 DEF Covers, Upsert, Indexed, Emitted
  <2>3. CASE a.acl > v.acl
    <3>1. a.acl > events[e].acl
      BY <1>0, <2>1, <2>3 DEF Brings, Indexed, Emitted
    <3>2. a.ver >= events[e].ver
      BY <1>0, <2>1, <3>1 DEF Coherent, Indexed, Emitted
    <3>3. events[e].kind = "delete" => a.dead
      BY <1>0, <2>1, <3>2 DEF Known, TypeInv, Indexed, Emitted
    <3> QED
      BY <1>0, <1>2, <2>1, <3>1, <3>2, <3>3 DEF Covers, Upsert, Indexed, Emitted
  <2>4. CASE a.dead /\ a.ver >= v.ver
    <3>1. a.ver >= events[e].ver
      BY <1>0, <2>1, <2>4 DEF Brings, Indexed, Emitted
    <3> QED
      BY <1>0, <1>2, <2>1, <2>4, <3>1 DEF Covers, Upsert, Indexed, Emitted
  <2> QED
    BY <1>2, <2>1, <2>2, <2>3, <2>4 DEF Accepts, Indexed
<1> QED
  BY <1>1, <1>2

\* Of two values of one chain an upsert leaves the greater.
LEMMA UpsertOfComparable ==
  ASSUME NEW a \in Indexed \cup {None}, NEW v \in Indexed,
         a # None => Comparable(a, v)
  PROVE  Grow(v, Upsert(a, v))
<1>1. CASE Accepts(a, v)
  BY <1>1, NoneIsNoValue DEF Grow, Below, Upsert, Indexed
<1>2. CASE ~Accepts(a, v)
  <2>1. a \in Indexed /\ a # None
    BY <1>2 DEF Accepts
  <2>2. ~Below(a, v)
    BY <1>2, <2>1 DEF Accepts, Below, Indexed
  <2> QED
    BY <1>2, <2>1, <2>2 DEF Grow, Comparable, Upsert
<1> QED
  BY <1>1, <1>2

\* The tombstone of the delete changes a row to what the file's row says.
LEMMA TombstoneKnown ==
  ASSUME TypeInv, src.dead, NEW a \in Indexed \cup {None}, a # None => Known(a)
  PROVE  /\ TombstoneRow(a, src.ver) \in Indexed \cup {None}
         /\ a = None => TombstoneRow(a, src.ver) = None
         /\ a # None => /\ TombstoneRow(a, src.ver) = [ver |-> src.ver, acl |-> a.acl, dead |-> TRUE]
                        /\ TombstoneRow(a, src.ver) \in Indexed
                        /\ Known(TombstoneRow(a, src.ver))
         /\ Grow(a, TombstoneRow(a, src.ver))
<1>1. CASE a = None
  BY <1>1 DEF TombstoneRow, Grow
<1>2. CASE a # None
  <2>1. a \in Indexed /\ a.ver <= src.ver /\ a.acl <= acl
    BY <1>2 DEF Known
  <2>2. TombstoneRow(a, src.ver) = [a EXCEPT !.ver = src.ver, !.dead = TRUE]
    BY <1>2, <2>1 DEF TombstoneRow
  <2>3. TombstoneRow(a, src.ver) = [ver |-> src.ver, acl |-> a.acl, dead |-> TRUE]
    BY <2>1, <2>2 DEF Indexed
  <2> DEFINE r == [ver |-> src.ver, acl |-> a.acl, dead |-> TRUE]
  <2>4. r \in Indexed /\ r.ver = src.ver /\ r.acl = a.acl /\ r.dead = TRUE
    BY <2>1 DEF TypeInv, Indexed
  <2> HIDE DEF r
  <2>5. Known(r)
    BY <2>1, <2>4 DEF TypeInv, Known
  <2>6. Grow(a, r)
    <3>1. a.ver <= r.ver /\ a.acl <= r.acl
      BY <2>1, <2>4 DEF TypeInv, Indexed
    <3>2. a.dead => r.dead
      BY <2>4
    <3> QED
      BY <2>4, <3>1, <3>2, NoneIsNoValue DEF Grow, Below
  <2> QED
    BY <1>2, <2>3, <2>4, <2>5, <2>6 DEF r
<1> QED
  BY <1>1, <1>2

LEMMA LeastIn ==
  ASSUME NEW S \in SUBSET Targets, S # {}
  PROVE  Least(S) \in S
<1>1. S \subseteq Nat
  BY SearchAssumption
<1>2. PICK x \in S : \A y \in S : ~ (<<y, x>> \in OpToRel(<, Nat))
  BY <1>1, NatLessThanWellFounded, WFMin
<1>3. ASSUME NEW y \in S PROVE x <= y
  <2>1. x \in Nat /\ y \in Nat
    BY <1>1
  <2>2. ~(y < x)
    BY <1>2, <2>1 DEF OpToRel
  <2> QED
    BY <2>1, <2>2
<1> QED
  BY <1>3 DEF Least

-----------------------------------------------------------------------------
(* The business transactions. *)

\* What the five transactions have in common.
SourceStep == WriteFile \/ DeleteFile \/ ChangeShare \/ ShareOther \/ WriteFolder

Advances ==
  /\ UNCHANGED <<row, doc, raced, gen, scanned, chk, acked, ended, wk, faults>>
  /\ src' \in [ver : Nat, dead : BOOLEAN] /\ acl' \in Nat /\ events' \in Seq(Emitted)
  /\ src.ver <= src'.ver /\ acl <= acl'
  /\ src.dead => src'.dead /\ src'.ver = src.ver
  /\ src'.dead => src.dead \/ src.ver < src'.ver
  /\ src'.ver >= 1
  /\ Len(events') <= MaxWrites
  /\ \A e \in Emissions : events'[e] = events[e]
  /\ \/ events' = events /\ src' = src
     \/ /\ Len(events') = Len(events) + 1
        /\ events'[Len(events) + 1].ver = src'.ver /\ events'[Len(events) + 1].acl = acl'
        /\ events'[Len(events) + 1].kind = "delete" => src'.dead

\* An event is appended.
LEMMA EmitAppends ==
  ASSUME TypeInv, NEW k \in Kinds, NEW v \in Nat, NEW a \in Nat, Emit(k, v, a)
  PROVE  /\ UNCHANGED <<row, doc, raced, gen, scanned, chk, acked, ended, wk, faults>>
         /\ events' \in Seq(Emitted)
         /\ Len(events') <= MaxWrites
         /\ \A e \in Emissions : events'[e] = events[e]
         /\ Len(events') = Len(events) + 1
         /\ events'[Len(events) + 1] = [kind |-> k, ver |-> v, acl |-> a]
<1> DEFINE n == [kind |-> k, ver |-> v, acl |-> a]
<1>1. n \in Emitted
  BY DEF Emitted
<1>2. events' = Append(events, n) /\ Len(events) < MaxWrites /\ events \in Seq(Emitted)
  BY DEF Emit, TypeInv
<1> HIDE DEF n
<1>3. /\ events' \in Seq(Emitted) /\ Len(events') = Len(events) + 1
      /\ events'[Len(events) + 1] = n
      /\ \A e \in Emissions : events'[e] = events[e]
  BY <1>1, <1>2 DEF Emissions
<1>4. Len(events') <= MaxWrites
  BY <1>2, <1>3, SearchAssumption
<1>5. UNCHANGED <<row, doc, raced, gen, scanned, chk, acked, ended, wk, faults>>
  BY DEF Emit, index, control, progress
<1> QED
  BY <1>3, <1>4, <1>5 DEF n

\* Each of the five transactions moves the file and its events forward.
LEMMA SourceAdvances ==
  ASSUME TypeInv, SourceInv, SourceStep
  PROVE  Advances
<1>0. src \in [ver : Nat, dead : BOOLEAN] /\ acl \in Nat /\ events \in Seq(Emitted)
  BY DEF TypeInv
<1>1. CASE WriteFile
  <2>1. src' \in [ver : Nat, dead : BOOLEAN] /\ src'.ver = src.ver + 1 /\ ~src.dead /\ ~src'.dead /\ acl' = acl
    BY <1>0, <1>1 DEF WriteFile
  <2>2. Emit("file", src'.ver, acl)
    BY <1>1 DEF WriteFile
  <2> DEFINE v == src'.ver
  <2>3. v \in Nat /\ "file" \in Kinds /\ Emit("file", v, acl)
    BY <2>1, <2>2 DEF Kinds
  <2> HIDE DEF v
  <2>4. /\ UNCHANGED <<row, doc, raced, gen, scanned, chk, acked, ended, wk, faults>>
        /\ events' \in Seq(Emitted)
        /\ Len(events') <= MaxWrites
        /\ \A e \in Emissions : events'[e] = events[e]
        /\ Len(events') = Len(events) + 1
        /\ events'[Len(events) + 1] = [kind |-> "file", ver |-> v, acl |-> acl]
    BY <1>0, <2>3, EmitAppends
  <2> QED
    BY <1>0, <2>1, <2>4 DEF Advances, v
<1>2. CASE DeleteFile
  <2>1. src' \in [ver : Nat, dead : BOOLEAN] /\ src'.ver = src.ver + 1 /\ ~src.dead /\ src'.dead /\ acl' = acl
    BY <1>0, <1>2 DEF DeleteFile
  <2>2. Emit("delete", src'.ver, acl)
    BY <1>2 DEF DeleteFile
  <2> DEFINE v == src'.ver
  <2>3. v \in Nat /\ "delete" \in Kinds /\ Emit("delete", v, acl)
    BY <2>1, <2>2 DEF Kinds
  <2> HIDE DEF v
  <2>4. /\ UNCHANGED <<row, doc, raced, gen, scanned, chk, acked, ended, wk, faults>>
        /\ events' \in Seq(Emitted)
        /\ Len(events') <= MaxWrites
        /\ \A e \in Emissions : events'[e] = events[e]
        /\ Len(events') = Len(events) + 1
        /\ events'[Len(events) + 1] = [kind |-> "delete", ver |-> v, acl |-> acl]
    BY <1>0, <2>3, EmitAppends
  <2> QED
    BY <1>0, <2>1, <2>4 DEF Advances, v
<1>3. CASE ChangeShare
  <2>1. src' = src /\ src.ver > 0 /\ acl' = acl + 1 /\ acl' \in Nat
    BY <1>0, <1>3 DEF ChangeShare
  <2>2. Emit("share", src.ver, acl')
    BY <1>3 DEF ChangeShare
  <2> DEFINE a == acl'
  <2>3. a \in Nat /\ src.ver \in Nat /\ "share" \in Kinds /\ Emit("share", src.ver, a)
    BY <1>0, <2>1, <2>2 DEF Kinds
  <2> HIDE DEF a
  <2>4. /\ UNCHANGED <<row, doc, raced, gen, scanned, chk, acked, ended, wk, faults>>
        /\ events' \in Seq(Emitted)
        /\ Len(events') <= MaxWrites
        /\ \A e \in Emissions : events'[e] = events[e]
        /\ Len(events') = Len(events) + 1
        /\ events'[Len(events) + 1] = [kind |-> "share", ver |-> src.ver, acl |-> a]
    BY <2>3, EmitAppends
  <2> QED
    BY <1>0, <2>1, <2>4 DEF Advances, a
<1>4. CASE ShareOther
  BY <1>0, <1>4 DEF ShareOther, Advances, index, control, progress, SourceInv
<1>5. CASE WriteFolder
  <2>1. src' = src /\ src.ver > 0 /\ acl' = acl /\ Emit("folder", src.ver, acl) /\ "folder" \in Kinds
    BY <1>5 DEF WriteFolder, Kinds
  <2>4. /\ UNCHANGED <<row, doc, raced, gen, scanned, chk, acked, ended, wk, faults>>
        /\ events' \in Seq(Emitted)
        /\ Len(events') <= MaxWrites
        /\ \A e \in Emissions : events'[e] = events[e]
        /\ Len(events') = Len(events) + 1
        /\ events'[Len(events) + 1] = [kind |-> "folder", ver |-> src.ver, acl |-> acl]
    BY <1>0, <2>1, EmitAppends
  <2> QED
    BY <1>0, <2>1, <2>4 DEF Advances
<1> QED
  BY <1>1, <1>2, <1>3, <1>4, <1>5 DEF SourceStep

\* What was read before a transaction was still read from the file's row.
LEMMA AdvanceKnown ==
  ASSUME TypeInv, Advances, NEW v \in Indexed, Known(v)
  PROVE  /\ v.ver <= src'.ver /\ v.acl <= acl'
         /\ v.dead <=> src'.dead /\ v.ver = src'.ver
BY DEF TypeInv, Advances, Known, Indexed

\* A new event has the newest epoch, so no value is ahead of it.
LEMMA AdvanceCoherent ==
  ASSUME TypeInv, Advances, NEW v \in Indexed, Known(v), Coherent(v),
         NEW e \in 1 .. Len(events'), events'[e].acl < v.acl
  PROVE  events'[e].ver <= v.ver
<1>0. acl \in Nat /\ acl' \in Nat /\ Len(events) \in Nat /\ v.acl \in Nat /\ v.acl <= acl /\ acl <= acl'
  BY DEF TypeInv, Advances, Known, Indexed
<1>1. CASE e \in Emissions
  BY <1>1 DEF Advances, Coherent
<1>2. CASE e \notin Emissions
  <2>1. Len(events') = Len(events) + 1 /\ events'[Len(events) + 1].acl = acl'
    BY <1>2 DEF Advances, Emissions
  <2>2. e = Len(events) + 1
    BY <1>0, <1>2, <2>1 DEF Emissions
  <2> QED
    BY <1>0, <2>1, <2>2
<1> QED
  BY <1>1, <1>2

LEMMA AdvanceBooks ==
  ASSUME SearchInv, Advances
  PROVE  TypeInv' /\ SourceInv' /\ BookInv' /\ KnownInv' /\ ShapeInv'
<1> USE DEF SearchInv
<1>0. /\ events \in Seq(Emitted) /\ events' \in Seq(Emitted) /\ Len(events) \in Nat /\ Len(events') \in Nat
      /\ Emissions \subseteq Emissions'
      /\ src.ver \in Nat /\ src'.ver \in Nat /\ acl \in Nat /\ acl' \in Nat
      /\ \A e \in Emissions : events'[e] = events[e] /\ events[e] \in Emitted
  BY DEF TypeInv, Advances, Emissions
<1>1. TypeInv'
  BY DEF TypeInv, Advances
<1>2. SourceInv'
  <2>1. /\ Len(events') <= MaxWrites
        /\ src'.dead => src'.ver > 0
        /\ src'.ver > 0 => Len(events') > 0 /\ events'[Len(events')].ver = src'.ver
    BY <1>0 DEF Advances, SourceInv
  <2>2. ASSUME NEW e \in Emissions'
        PROVE  /\ 1 <= events'[e].ver /\ events'[e].ver <= src'.ver
               /\ events'[e].acl <= acl'
               /\ events'[e].acl <= events'[Len(events')].acl
               /\ events'[e].kind = "delete" => src'.dead /\ events'[e].ver = src'.ver
    <3>1. CASE e \in Emissions
      <4>1. /\ 1 <= events[e].ver /\ events[e].ver <= src.ver
            /\ events[e].acl <= acl
            /\ events[e].acl <= events[Len(events)].acl
            /\ events[e].kind = "delete" => src.dead /\ events[e].ver = src.ver
        BY <3>1 DEF SourceInv
      <4>2. events'[e] = events[e] /\ events[e].ver \in Nat /\ events[e].acl \in Nat
        BY <1>0, <3>1 DEF Emitted
      <4>3. events'[e].acl <= events'[Len(events')].acl
        <5>1. CASE events' = events
          BY <4>1, <5>1
        <5>2. CASE Len(events') = Len(events) + 1 /\ events'[Len(events) + 1].acl = acl'
          <6>1. acl <= acl'
            BY DEF Advances
          <6> QED
            BY <1>0, <4>1, <4>2, <5>2, <6>1
        <5> QED
          BY <5>1, <5>2 DEF Advances
      <4>4. src.ver <= src'.ver /\ acl <= acl' /\ (src.dead => src'.dead /\ src'.ver = src.ver)
        BY DEF Advances
      <4> QED
        BY <1>0, <4>1, <4>2, <4>3, <4>4
    <3>2. CASE e \notin Emissions
      <4>1. e = Len(events) + 1 /\ Len(events') = Len(events) + 1
        BY <1>0, <3>2 DEF Advances, Emissions
      <4> QED
        BY <1>0, <4>1 DEF Advances
    <3> QED
      BY <3>1, <3>2
  <2> QED
    BY <2>1, <2>2 DEF SourceInv
<1>3. BookInv'
  BY <1>0 DEF BookInv, Advances
<1>4. KnownInv'
  <2>1. ASSUME NEW v \in Indexed, Known(v) PROVE Known(v)'
    BY <2>1, AdvanceKnown DEF Known
  <2>2. ASSUME NEW t \in Targets
        PROVE  (row[t] # None => Known(row[t]))' /\ (doc[t] # None => Known(doc[t]))'
    <3>1. row'[t] = row[t] /\ doc'[t] = doc[t] /\ row[t] \in Indexed \cup {None} /\ doc[t] \in Indexed \cup {None}
      BY DEF TypeInv, Advances
    <3> QED
      BY <2>1, <3>1 DEF KnownInv, Known
  <2>3. ASSUME NEW w \in Workers
        PROVE  (wk[w].value # None => Known(wk[w].value))'
    <3>1. wk'[w] = wk[w] /\ wk[w].value \in Indexed \cup {None}
      BY DEF TypeInv, Advances, Handling
    <3> QED
      BY <2>1, <3>1 DEF KnownInv, Known
  <2> QED
    BY <2>2, <2>3 DEF KnownInv
<1>5. ShapeInv'
  <2> SUFFICES ASSUME NEW w \in Workers PROVE Shape(w)'
    BY DEF ShapeInv
  <2>1. Shape(w) /\ wk'[w] = wk[w] /\ wk[w] \in Handling
    BY DEF ShapeInv, Advances, TypeInv
  <2>2. wk[w].ev \in 0 .. Len(events) /\ wk[w].ev \in 0 .. Len(events')
    BY <1>0, <2>1 DEF Shape, Advances
  <2>3. wk[w].ev # 0 => wk[w].ev \in Emissions /\ events'[wk[w].ev] = events[wk[w].ev]
    BY <1>0, <2>2 DEF Emissions
  <2>4. Deleting(w)' = Deleting(w) /\ EpochFirst(w)' = EpochFirst(w) /\ (wk[w].ev # 0 => Event(w)' = Event(w))
    BY <2>1, <2>3 DEF Deleting, EpochFirst, Event
  <2>5. EpochFirst(w) => wk[w].ev # 0
    BY DEF EpochFirst
  <2>6. src.ver >= 1 => src'.ver >= 1
    BY <1>0 DEF Advances
  <2> QED
    BY <2>1, <2>2, <2>4, <2>5, <2>6 DEF Shape, Brings
<1> QED
  BY <1>1, <1>2, <1>3, <1>4, <1>5

LEMMA AdvanceRest ==
  ASSUME SearchInv, Advances
  PROVE  TargetInv' /\ HonestInv' /\ AckedInv' /\ ServedInv' /\ SnapshotInv'
<1> USE DEF SearchInv
<1>0. /\ events \in Seq(Emitted) /\ events' \in Seq(Emitted) /\ Len(events) \in Nat /\ Len(events') \in Nat
      /\ Emissions \subseteq Emissions' /\ Emissions \subseteq Nums /\ Emissions' \subseteq Nums
      /\ \A e \in Emissions : events'[e] = events[e] /\ events[e] \in Emitted
  BY SearchAssumption DEF TypeInv, SourceInv, Advances, Emissions, Nums
<1>1. row' = row /\ doc' = doc /\ wk' = wk /\ raced' = raced /\ gen' = gen /\ scanned' = scanned
      /\ chk' = chk /\ acked' = acked /\ ended' = ended /\ (src.dead => src'.dead)
  BY DEF Advances
<1>2. ASSUME NEW t \in Targets
      PROVE  Pub(t)' = Pub(t) /\ NoLive(t)' = NoLive(t) /\ (Buried(t) => Buried(t)')
  BY <1>1 DEF Pub, NoLive, Buried, InFlight
<1>3. ASSUME NEW t \in Targets, NEW a \in Pub(t) PROVE a \in Indexed /\ Known(a)
  BY DEF Pub, InFlight, TypeInv, Handling, KnownInv
<1>4. ASSUME NEW v \in Indexed, Known(v), Coherent(v) PROVE Coherent(v)'
  BY <1>4, AdvanceCoherent DEF Coherent, Emissions
<1>5. TargetInv'
  <2> SUFFICES ASSUME NEW t \in Targets, t \notin raced PROVE TargetOK(t)'
    BY <1>1 DEF TargetInv
  <2>1. TargetOK(t)
    BY DEF TargetInv
  <2>2. (row[t] # None => Coherent(row[t]))'
    <3>1. row'[t] = row[t] /\ row[t] \in Indexed \cup {None} /\ (row[t] # None => Known(row[t]) /\ Coherent(row[t]))
      BY <1>1, <2>1 DEF TypeInv, KnownInv, TargetOK
    <3> QED
      BY <1>4, <3>1 DEF Coherent
  <2>3. ASSUME NEW a \in Pub(t) PROVE Coherent(a)'
    BY <1>3, <1>4, <2>1 DEF TargetOK
  <2> QED
    BY <1>1, <1>2, <2>1, <2>2, <2>3 DEF TargetOK, Comparable, Below
<1>6. ASSUME NEW w \in Workers
      PROVE  /\ Deleting(w)' = Deleting(w)
             /\ wk[w].ev # 0 => wk[w].ev \in Emissions /\ Event(w)' = Event(w)
             /\ wk[w].ev \in 0 .. Len(events)
             /\ wk[w] \in Handling /\ wk'[w] = wk[w]
  <2>1. wk[w].ev \in 0 .. Len(events) /\ wk'[w] = wk[w]
    BY <1>1 DEF ShapeInv, Shape
  <2>2. wk[w].ev # 0 => wk[w].ev \in Emissions /\ events'[wk[w].ev] = events[wk[w].ev]
    BY <1>0, <2>1 DEF Emissions
  <2> QED
    BY <2>1, <2>2 DEF Deleting, Event, TypeInv
<1>7. HonestInv'
  <2> SUFFICES ASSUME NEW w \in Workers, wk[w].t \notin raced PROVE Honest(w)'
    BY <1>1 DEF HonestInv
  <2>1. Honest(w)
    BY DEF HonestInv
  <2>2. wk[w].t \in Targets
    BY DEF TypeInv, Handling
  <2>3. (wk[w].at = "project" /\ wk[w].value # None => Coherent(wk[w].value))'
    <3>1. wk'[w] = wk[w] /\ wk[w].value \in Indexed \cup {None}
      BY <1>1 DEF TypeInv, Handling
    <3>2. wk[w].value # None => Known(wk[w].value)
      BY DEF KnownInv
    <3> QED
      BY <1>4, <2>1, <3>1, <3>2 DEF Honest, Coherent
  <2>4. (wk[w].ev # 0 => (Reflects(w, Event(w)) => Reflects(w, Event(w))'))
    BY <1>1, <1>6 DEF Reflects, Covers, Brings
  <2>5. Pub(wk[w].t)' = Pub(wk[w].t) /\ (Buried(wk[w].t) => Buried(wk[w].t)')
    BY <1>1, <2>2 DEF Pub, NoLive, Buried, InFlight
  <2> QED
    BY <1>1, <1>6, <2>1, <2>3, <2>4, <2>5 DEF Honest
<1>8. AckedInv'
  <2> SUFFICES ASSUME NEW e \in Emissions', NEW t \in Targets, t \notin raced,
                      chk[<<e, t>>] = "indexed" \/ <<e, t>> \in acked
               PROVE  Covers(doc[t], events[e])'
    BY <1>1 DEF AckedInv
  <2>1. e \in Emissions
    BY <1>0 DEF BookInv
  <2> QED
    BY <1>0, <1>1, <2>1 DEF AckedInv, Covers
<1>9. ASSUME NEW t \in Targets, NEW e \in Emissions', e \in Emissions => Kept(t, e)
      PROVE  Kept(t, e)'
  <2>1. CASE e \in Emissions
    BY <1>0, <1>1, <1>9, <2>1 DEF Kept, Owed, Covers
  <2>2. CASE e \notin Emissions
    <3>1. ended[e] = "open"
      BY <1>0, <2>2 DEF BookInv
    <3>2. \A w \in Workers : wk[w].ev # e
      <4> SUFFICES ASSUME NEW w \in Workers, wk[w].ev = e PROVE FALSE
        OBVIOUS
      <4>1. e # 0
        BY DEF Emissions
      <4> QED
        BY <1>6, <2>2, <4>1
    <3> QED
      BY <1>1, <3>1, <3>2 DEF Kept, Owed
  <2> QED
    BY <2>1, <2>2
<1>10. ServedInv'
  <2>1. Served' = Served /\ Served \subseteq Targets
    BY <1>1 DEF Served, TypeInv
  <2> QED
    BY <1>1, <1>9, <2>1 DEF ServedInv
<1>11. SnapshotInv'
  <2> SUFFICES ASSUME NEW w \in Workers, NEW e \in Emissions',
                 wk[w].ev = 0, wk[w].at \in {"acl", "project", "load", "put", "settle"},
                 wk[w].t \in Building \ raced, ~ Kept(wk[w].t, e)'
               PROVE  Reflects(w, events[e])'
    BY <1>1 DEF SnapshotInv, Building
  <2>1. wk[w].t \in Targets /\ wk'[w] = wk[w]
    BY <1>1 DEF TypeInv, Handling
  <2>2. PICK t \in Targets : t = wk[w].t
    BY <2>1
  <2>3. ~ Kept(t, e)'
    BY <2>1, <2>2 DEF Kept, Owed
  <2>4. e \in Emissions /\ ~Kept(t, e)
    BY <1>9, <2>3
  <2>5. Reflects(w, events[e])
    BY <2>2, <2>4 DEF SnapshotInv
  <2> QED
    BY <1>0, <1>1, <2>4, <2>5 DEF Reflects, Covers, Brings
<1> QED
  BY <1>5, <1>7, <1>8, <1>10, <1>11

\* The business transactions preserve the invariant.
LEMMA AdvanceStep ==
  ASSUME SearchInv, SourceStep
  PROVE  SearchInv'
<1>1. Advances
  BY SourceAdvances DEF SearchInv
<1> QED
  BY <1>1, AdvanceBooks, AdvanceRest DEF SearchInv

-----------------------------------------------------------------------------
(* What a worker's step leaves alone. *)

\* A step of worker w alone.
Work(w) ==
  /\ src' = src /\ acl' = acl /\ events' = events
  /\ TypeInv'
  /\ \A x \in Workers : x # w => wk'[x] = wk[x]
  /\ raced \subseteq raced'

\* A worker that changes its place and its value keeps the rest.
LEMMA MovedTo ==
  ASSUME TypeInv, NEW w \in Workers, NEW p \in Places, NEW v \in Indexed \cup {None},
         wk' = [wk EXCEPT ![w].at = p, ![w].value = v] \/ wk' = [wk EXCEPT ![w].value = v, ![w].at = p]
  PROVE  /\ wk' \in [Workers -> Handling]
         /\ \A x \in Workers : x # w => wk'[x] = wk[x]
         /\ wk'[w].at = p /\ wk'[w].value = v
         /\ wk'[w].ev = wk[w].ev /\ wk'[w].t = wk[w].t
         /\ wk'[w].todo = wk[w].todo /\ wk'[w].failed = wk[w].failed
<1>1. wk \in [Workers -> Handling] /\ wk[w] \in Handling
  BY DEF TypeInv
<1>2. CASE wk' = [wk EXCEPT ![w].at = p, ![w].value = v]
  <2> DEFINE r == [wk[w] EXCEPT !.at = p, !.value = v]
  <2>1. r \in Handling /\ r.at = p /\ r.value = v /\ r.ev = wk[w].ev /\ r.t = wk[w].t
        /\ r.todo = wk[w].todo /\ r.failed = wk[w].failed
    BY <1>1 DEF Handling
  <2>2. wk' = [wk EXCEPT ![w] = r]
    BY <1>1, <1>2
  <2> QED
    BY <1>1, <2>1, <2>2
<1>3. CASE wk' = [wk EXCEPT ![w].value = v, ![w].at = p]
  <2> DEFINE r == [wk[w] EXCEPT !.value = v, !.at = p]
  <2>1. r \in Handling /\ r.at = p /\ r.value = v /\ r.ev = wk[w].ev /\ r.t = wk[w].t
        /\ r.todo = wk[w].todo /\ r.failed = wk[w].failed
    BY <1>1 DEF Handling
  <2>2. wk' = [wk EXCEPT ![w] = r]
    BY <1>1, <1>3
  <2> QED
    BY <1>1, <2>1, <2>2
<1> QED
  BY <1>2, <1>3

LEMMA MovedAt ==
  ASSUME TypeInv, NEW w \in Workers, NEW p \in Places, wk' = [wk EXCEPT ![w].at = p]
  PROVE  /\ wk' \in [Workers -> Handling]
         /\ \A x \in Workers : x # w => wk'[x] = wk[x]
         /\ wk'[w].at = p /\ wk'[w].value = wk[w].value
         /\ wk'[w].ev = wk[w].ev /\ wk'[w].t = wk[w].t
         /\ wk'[w].todo = wk[w].todo /\ wk'[w].failed = wk[w].failed
<1>1. wk \in [Workers -> Handling] /\ wk[w] \in Handling
  BY DEF TypeInv
<1> DEFINE r == [wk[w] EXCEPT !.at = p]
<1>2. r \in Handling /\ r.at = p /\ r.value = wk[w].value /\ r.ev = wk[w].ev /\ r.t = wk[w].t
      /\ r.todo = wk[w].todo /\ r.failed = wk[w].failed
  BY <1>1 DEF Handling
<1>3. wk' = [wk EXCEPT ![w] = r]
  BY <1>1
<1> QED
  BY <1>1, <1>2, <1>3

LEMMA IdleType ==
  /\ Idle \in Handling
  /\ Idle.at = "idle" /\ Idle.ev = 0 /\ Idle.value = None
BY SearchAssumption DEF Idle, Handling, Places

LEMMA Replaced ==
  ASSUME TypeInv, NEW w \in Workers, NEW r \in Handling, wk' = [wk EXCEPT ![w] = r]
  PROVE  /\ wk' \in [Workers -> Handling]
         /\ \A x \in Workers : x # w => wk'[x] = wk[x]
         /\ wk'[w] = r
BY DEF TypeInv

\* What Onward does: the next target, or a receipt that says done only when
\* nothing failed.
MovesOn(w, todo, failed) ==
  /\ wk' \in [Workers -> Handling] /\ ended' \in [Nums -> {"open", "done", "dead"}]
  /\ \A x \in Workers : x # w => wk'[x] = wk[x]
  /\ wk'[w].value = None
  /\ \A e \in Nums : e # wk[w].ev => ended'[e] = ended[e]
  /\ \/ /\ wk'[w].at = "check" /\ wk'[w].t \in todo /\ wk'[w].todo = todo
        /\ wk'[w].failed = failed /\ wk'[w].ev = wk[w].ev /\ ended' = ended
     \/ /\ todo = {} /\ wk'[w].at = "idle" /\ wk'[w].ev = 0
        /\ ended[wk[w].ev] # "open" => ended'[wk[w].ev] = ended[wk[w].ev]
        /\ ended'[wk[w].ev] = "done" => ended[wk[w].ev] = "done" \/ failed = "no"

\* Onward, in the form the proofs use.
LEMMA OnwardMoves ==
  ASSUME TypeInv, NEW w \in Workers, wk[w].ev \in Nums, NEW todo \in SUBSET Targets,
         NEW failed \in {"no", "retry", "skip"}, Onward(w, todo, failed)
  PROVE  MovesOn(w, todo, failed)
<1>0. wk \in [Workers -> Handling] /\ wk[w] \in Handling /\ ended \in [Nums -> {"open", "done", "dead"}]
  BY DEF TypeInv
<1>1. CASE todo # {}
  <2>1. Least(todo) \in todo /\ Least(todo) \in Targets
    BY <1>1, LeastIn
  <2> DEFINE r == [at |-> "check", ev |-> wk[w].ev, t |-> Least(todo), todo |-> todo,
                   failed |-> failed, value |-> None]
  <2>2. r \in Handling
    BY <1>0, <2>1 DEF Handling, Places
  <2>3. wk' = [wk EXCEPT ![w] = r] /\ ended' = ended
    BY <1>0, <1>1 DEF Onward, Handling
  <2> QED
    BY <1>0, <2>1, <2>2, <2>3 DEF MovesOn
<1>2. CASE todo = {}
  <2>1. wk' = [wk EXCEPT ![w] = Idle]
    BY <1>2 DEF Onward
  <2>2. /\ wk' \in [Workers -> Handling] /\ wk'[w] = Idle
        /\ \A x \in Workers : x # w => wk'[x] = wk[x]
    BY <2>1, IdleType, Replaced
  <2>3. PICK outcome \in Outcomes(failed) :
          ended' = [ended EXCEPT ![wk[w].ev] = IF @ = "open" THEN outcome ELSE @]
    BY <1>2 DEF Onward
  <2>4. outcome \in {"open", "done", "dead"} /\ (outcome = "done" => failed = "no")
    <3>1. CASE failed = "no"
      BY <3>1 DEF Outcomes
    <3>2. CASE failed = "retry"
      BY <3>2 DEF Outcomes
    <3>3. CASE failed = "skip"
      BY <3>3 DEF Outcomes
    <3> QED
      BY <3>1, <3>2, <3>3
  <2>5. /\ ended' \in [Nums -> {"open", "done", "dead"}]
        /\ \A e \in Nums : e # wk[w].ev => ended'[e] = ended[e]
        /\ ended[wk[w].ev] # "open" => ended'[wk[w].ev] = ended[wk[w].ev]
        /\ ended'[wk[w].ev] = "done" => ended[wk[w].ev] = "done" \/ failed = "no"
    BY <1>0, <2>3, <2>4
  <2> QED
    BY <1>2, <2>2, <2>5, IdleType DEF MovesOn
<1> QED
  BY <1>1, <1>2

\* The event of a worker that handles one.
LEMMA EventOf ==
  ASSUME TypeInv, SourceInv, ShapeInv, NEW w \in Workers
  PROVE  /\ wk[w] \in Handling /\ wk[w].ev \in Nat /\ wk[w].t \in Targets
         /\ wk[w].ev # 0 => /\ wk[w].ev \in Emissions /\ wk[w].ev \in Nums
                            /\ Event(w) = events[wk[w].ev] /\ Event(w) \in Emitted
                            /\ <<wk[w].ev, wk[w].t>> \in Nums \X Targets
<1>1. wk[w] \in Handling /\ wk[w].ev \in 0 .. Len(events) /\ Len(events) \in Nat /\ events \in Seq(Emitted)
      /\ Len(events) <= MaxWrites
  BY DEF TypeInv, SourceInv, ShapeInv, Shape
<1>2. wk[w].ev # 0 => wk[w].ev \in Emissions /\ wk[w].ev \in Nums
  BY <1>1, SearchAssumption DEF Emissions, Nums
<1> QED
  BY <1>1, <1>2 DEF Handling, Event, Emissions

\* The parts of the invariant that a worker's step preserves by its own.
LEMMA WorkBooks ==
  ASSUME SearchInv, NEW w \in Workers, Work(w), BookInv', Shape(w)',
         \A t \in Targets : row'[t] # row[t] /\ row'[t] # None => Known(row'[t]),
         \A t \in Targets : doc'[t] # doc[t] /\ doc'[t] # None => Known(doc'[t]),
         wk'[w].value # None => Known(wk'[w].value)
  PROVE  TypeInv' /\ SourceInv' /\ BookInv' /\ KnownInv' /\ ShapeInv'
<1> USE DEF SearchInv
<1>1. SourceInv'
  BY DEF Work, SourceInv, Emissions
<1>2. KnownInv'
  BY DEF Work, KnownInv, Known
<1>3. ASSUME NEW x \in Workers, x # w PROVE Shape(x)'
  <2>1. wk'[x] = wk[x] /\ src' = src /\ events' = events /\ Shape(x)
    BY <1>3 DEF Work, ShapeInv
  <2>2. Deleting(x)' = Deleting(x) /\ EpochFirst(x)' = EpochFirst(x) /\ Event(x)' = Event(x)
    BY <2>1 DEF Deleting, EpochFirst, Event
  <2> QED
    BY <2>1, <2>2 DEF Shape, Brings
<1> QED
  BY <1>1, <1>2, <1>3 DEF Work, ShapeInv

LEMMA BookFrame ==
  ASSUME SearchInv, NEW w \in Workers, Work(w),
         UNCHANGED <<gen, scanned>>,
         \A e \in Nums : ended'[e] # "open" => ended[e] # "open" \/ e \in Emissions,
         \A e \in Nums : \A t \in Targets :
            chk'[<<e, t>>] # "none" \/ <<e, t>> \in acked' =>
              chk[<<e, t>>] # "none" \/ <<e, t>> \in acked \/ e \in Emissions,
         wk'[w].at # "idle" /\ wk'[w].ev = 0 => wk[w].at # "idle" /\ wk[w].ev = 0 /\ wk'[w].t = wk[w].t
  PROVE  BookInv'
<1>1. Emissions' = Emissions
  BY DEF Work, Emissions
<1>2. \A x \in Workers : x # w => wk'[x] = wk[x]
  BY DEF Work
<1> QED
  BY <1>1, <1>2 DEF SearchInv, BookInv

\* What the steps do, one lemma for each.
LEMMA ReceiveFacts ==
  ASSUME SearchInv, NEW w \in Workers, NEW e \in Nums, Receive(w, e)
  PROVE  /\ Work(w) /\ BookInv' /\ Shape(w)'
         /\ UNCHANGED <<row, doc, raced, gen, scanned, chk, acked, ended>>
         /\ wk[w].at = "idle" /\ e \in Emissions /\ ended[e] = "open"
         /\ wk'[w].at = "check" /\ wk'[w].ev = e /\ wk'[w].todo = Live \cup {1} /\ wk'[w].value = None
<1> USE DEF SearchInv
<1>1. /\ wk' = [wk EXCEPT ![w] = [Idle EXCEPT !.at = "check", !.ev = e, !.todo = Live \cup {1}]]
      /\ UNCHANGED <<src, acl, events, row, doc, raced, gen, scanned, chk, acked, ended>>
      /\ wk[w].at = "idle" /\ e \in Emissions /\ ended[e] = "open"
      /\ faults' \in Nat
  BY DEF Receive, source, index, control, progress, Emissions, TypeInv
<1> DEFINE r == [Idle EXCEPT !.at = "check", !.ev = e, !.todo = Live \cup {1}]
<1>2. Live \cup {1} \in SUBSET Targets /\ e \in Nat /\ "check" \in Places
  BY SearchAssumption DEF Live, Building, Nums, Places
<1>3. r \in Handling /\ r.at = "check" /\ r.ev = e /\ r.todo = Live \cup {1} /\ r.value = None
  BY <1>2, IdleType DEF Handling
<1> HIDE DEF r
<1>4. wk' \in [Workers -> Handling] /\ wk'[w] = r /\ \A x \in Workers : x # w => wk'[x] = wk[x]
  BY <1>1, <1>3, Replaced DEF r
<1>5. Work(w)
  BY <1>1, <1>4 DEF Work, TypeInv
<1>6. BookInv'
  BY <1>1, <1>2, <1>3, <1>4, <1>5, BookFrame DEF Emissions
<1>7. Shape(w)'
  <2>1. e \in 0 .. Len(events') /\ e # 0
    BY <1>1, <1>2 DEF Emissions, TypeInv
  <2> QED
    BY <1>3, <1>4, <2>1 DEF Shape
<1> QED
  BY <1>1, <1>3, <1>4, <1>5, <1>6, <1>7

LEMMA CheckFacts ==
  ASSUME SearchInv, NEW w \in Workers, Check(w)
  PROVE  /\ Work(w) /\ BookInv' /\ Shape(w)'
         /\ UNCHANGED <<row, doc, raced, gen, scanned, chk, acked>>
         /\ wk[w].at = "check" /\ wk[w].ev # 0 /\ wk'[w].value = None
         /\ \/ /\ <<wk[w].ev, wk[w].t>> \in acked
               /\ MovesOn(w, wk[w].todo \ {wk[w].t}, wk[w].failed)
            \/ /\ ended' = ended /\ wk'[w].ev = wk[w].ev /\ wk'[w].t = wk[w].t
               /\ wk'[w].todo = wk[w].todo /\ wk'[w].failed = wk[w].failed
               /\ wk'[w].at \in {"ack", "project", "acl", "source"}
               /\ wk'[w].at = "ack" => chk[<<wk[w].ev, wk[w].t>>] = "indexed"
               /\ wk'[w].at = "project" => Deleting(w)
               /\ wk'[w].at = "acl" => EpochFirst(w)
<1> USE DEF SearchInv
<1>1. /\ UNCHANGED <<src, acl, events, row, doc, raced, gen, scanned, chk, acked, faults>>
      /\ wk[w].at = "check" /\ wk[w].ev # 0 /\ wk[w].value = None
  BY DEF Check, source, index, control, ShapeInv, Shape
<1>2. /\ wk[w] \in Handling /\ wk[w].ev \in Emissions /\ wk[w].ev \in Nums /\ wk[w].t \in Targets
      /\ Event(w) = events[wk[w].ev] /\ Event(w) \in Emitted
      /\ <<wk[w].ev, wk[w].t>> \in Nums \X Targets
      /\ wk[w].todo \in SUBSET Targets /\ wk[w].failed \in {"no", "retry", "skip"}
  BY <1>1, EventOf DEF Handling
<1>3. CASE Key(w) \in acked /\ Onward(w, wk[w].todo \ {wk[w].t}, wk[w].failed)
  <2>1. MovesOn(w, wk[w].todo \ {wk[w].t}, wk[w].failed)
    BY <1>2, <1>3, OnwardMoves
  <2>2. Work(w)
    BY <1>1, <2>1 DEF Work, TypeInv, MovesOn
  <2>3. BookInv'
    BY <1>1, <1>2, <2>1, <2>2, BookFrame DEF MovesOn
  <2>4. Shape(w)'
    BY <1>1, <1>2, <2>1 DEF Shape, MovesOn, ShapeInv
  <2> QED
    BY <1>1, <1>3, <2>1, <2>2, <2>3, <2>4 DEF MovesOn, Key
<1>4. CASE /\ Key(w) \notin acked /\ UNCHANGED ended
           /\ wk' = [wk EXCEPT ![w].at = IF chk[Key(w)] = "indexed" THEN "ack"
                                         ELSE IF Event(w).kind = "delete" THEN "project"
                                         ELSE IF Event(w).kind = "folder" THEN "acl" ELSE "source"]
  <2> DEFINE p == IF chk[Key(w)] = "indexed" THEN "ack"
                  ELSE IF Event(w).kind = "delete" THEN "project"
                  ELSE IF Event(w).kind = "folder" THEN "acl" ELSE "source"
  <2>1. /\ p \in Places /\ p \in {"ack", "project", "acl", "source"}
        /\ p = "ack" => chk[<<wk[w].ev, wk[w].t>>] = "indexed"
        /\ p = "project" => Event(w).kind = "delete"
        /\ p = "acl" => Event(w).kind = "folder"
        /\ p = "source" => Event(w).kind # "delete" /\ Event(w).kind # "folder"
    BY DEF Places, Key
  <2>2. wk' = [wk EXCEPT ![w].at = p]
    BY <1>4
  <2> HIDE DEF p
  <2>3. /\ wk' \in [Workers -> Handling]
        /\ \A x \in Workers : x # w => wk'[x] = wk[x]
        /\ wk'[w].at = p /\ wk'[w].value = wk[w].value
        /\ wk'[w].ev = wk[w].ev /\ wk'[w].t = wk[w].t
        /\ wk'[w].todo = wk[w].todo /\ wk'[w].failed = wk[w].failed
    BY <2>1, <2>2, MovedAt
  <2>4. Work(w)
    BY <1>1, <1>4, <2>3 DEF Work, TypeInv
  <2>5. BookInv'
    BY <1>1, <1>4, <2>3, <2>4, BookFrame
  <2>6. /\ Event(w)' = Event(w) /\ (Deleting(w) <=> Event(w).kind = "delete")
        /\ (EpochFirst(w) <=> Event(w).kind = "folder")
        /\ Deleting(w)' = Deleting(w) /\ EpochFirst(w)' = EpochFirst(w)
    BY <1>1, <2>3 DEF Event, Deleting, EpochFirst
  <2>7. src.ver >= 1 /\ src' = src
    BY <1>1, <1>2 DEF SourceInv, TypeInv, Emitted
  <2>8. Shape(w)'
    BY <1>1, <2>1, <2>3, <2>6, <2>7 DEF Shape, ShapeInv
  <2> QED
    BY <1>1, <1>4, <2>1, <2>3, <2>4, <2>5, <2>6, <2>8
<1> QED
  BY <1>3, <1>4 DEF Check

LEMMA ReadSourceFacts ==
  ASSUME SearchInv, NEW w \in Workers, ReadSource(w)
  PROVE  /\ Work(w) /\ BookInv' /\ Shape(w)' /\ Known(wk'[w].value)
         /\ UNCHANGED <<row, doc, raced, gen, scanned, chk, acked, ended>>
         /\ wk[w].at = "source" /\ wk'[w].at \in {"acl", "project"}
         /\ wk'[w].ev = wk[w].ev /\ wk'[w].t = wk[w].t /\ wk'[w].todo = wk[w].todo
         /\ wk'[w].failed = wk[w].failed /\ wk'[w].value \in Indexed
         /\ wk'[w].value.ver = src.ver /\ wk'[w].value.dead = src.dead
         /\ wk'[w].at = "project" => wk[w].ev # 0
<1> USE DEF SearchInv
<1> DEFINE a == IF OwnEpoch(w) THEN Event(w).acl ELSE Read(w).acl
           v == [Read(w) EXCEPT !.ver = src.ver, !.dead = src.dead, !.acl = a]
           p == IF OwnEpoch(w) \/ EpochFirst(w) THEN "project" ELSE "acl"
<1>1. /\ UNCHANGED <<src, acl, events, row, doc, raced, gen, scanned, chk, acked, ended, faults>>
      /\ wk[w].at = "source" /\ ~Deleting(w)
  BY DEF ReadSource, source, index, control, progress, ShapeInv, Shape
<1>2. /\ wk[w] \in Handling /\ wk[w].value \in Indexed \cup {None}
      /\ wk[w].ev # 0 => /\ wk[w].ev \in Emissions /\ Event(w) = events[wk[w].ev] /\ Event(w) \in Emitted
                         /\ Event(w).acl <= acl /\ 1 <= Event(w).ver /\ Event(w).ver <= src.ver
  BY EventOf DEF Handling, SourceInv
<1>3. Read(w) \in Indexed /\ Read(w).acl <= acl
  <2>1. CASE wk[w].value = None
    BY <2>1 DEF Read, NoValue, Indexed, TypeInv
  <2>2. CASE wk[w].value # None
    BY <1>2, <2>2 DEF Read, KnownInv, Known
  <2> QED
    BY <2>1, <2>2
<1>4. a \in Nat /\ a <= acl
  BY <1>2, <1>3 DEF OwnEpoch, Indexed, Emitted
<1>5. /\ v \in Indexed /\ v.ver = src.ver /\ v.dead = src.dead /\ v.acl = a
  BY <1>3, <1>4 DEF Indexed, TypeInv
<1>6. p \in Places
  BY DEF Places
<1>7. wk' = [wk EXCEPT ![w].value = v, ![w].at = p]
  BY <1>1, <1>3 DEF ReadSource
<1> HIDE DEF v, p
<1>8. /\ wk' \in [Workers -> Handling]
      /\ \A x \in Workers : x # w => wk'[x] = wk[x]
      /\ wk'[w].at = p /\ wk'[w].value = v
      /\ wk'[w].ev = wk[w].ev /\ wk'[w].t = wk[w].t
      /\ wk'[w].todo = wk[w].todo /\ wk'[w].failed = wk[w].failed
  BY <1>5, <1>6, <1>7, MovedTo
<1>9. Work(w)
  BY <1>1, <1>8 DEF Work, TypeInv
<1>10. BookInv'
  BY <1>1, <1>8, <1>9, BookFrame
<1>11. Known(v)
  BY <1>4, <1>5 DEF Known, TypeInv
<1>12. src.ver \in Nat /\ src.ver >= 1
  BY <1>1, <1>2 DEF ShapeInv, Shape, TypeInv, Emitted, EpochFirst
<1>13. /\ Event(w)' = Event(w) /\ Deleting(w)' = Deleting(w) /\ EpochFirst(w)' = EpochFirst(w)
  BY <1>1, <1>8 DEF Event, Deleting, EpochFirst
<1>14. p = "project" => wk[w].ev # 0 /\ Brings(v, Event(w))
  <2> SUFFICES ASSUME p = "project" PROVE wk[w].ev # 0 /\ Brings(v, Event(w))
    OBVIOUS
  <2>1. OwnEpoch(w) \/ EpochFirst(w)
    BY DEF p
  <2>2. wk[w].ev # 0
    BY <2>1 DEF OwnEpoch, EpochFirst
  <2>3. CASE OwnEpoch(w)
    BY <1>2, <1>5, <2>2, <2>3 DEF Brings, Emitted
  <2>4. CASE ~OwnEpoch(w)
    <3>1. EpochFirst(w) /\ wk[w].value # None /\ wk[w].value.acl >= Event(w).acl
      BY <1>1, <2>1, <2>4 DEF ShapeInv, Shape
    <3>2. a = wk[w].value.acl
      BY <2>4, <3>1 DEF Read
    <3> QED
      BY <1>2, <1>5, <2>2, <3>1, <3>2 DEF Brings
  <2> QED
    BY <2>2, <2>3, <2>4
<1>15. p = "acl" => ~EpochFirst(w)
  BY DEF p
<1>16. p \in {"acl", "project"} /\ v # None
  BY <1>5, NoneIsNoValue DEF p
<1>17. Shape(w)'
  <2>1. wk'[w].ev \in 0 .. Len(events')
    BY <1>1, <1>8 DEF ShapeInv, Shape
  <2>2. wk[w].ev # 0 => v.ver >= Event(w).ver
    BY <1>2, <1>5
  <2>3. (wk[w].ev # 0 => Brings(wk[w].value, Event(w)))' <=> (wk[w].ev # 0 => Brings(v, Event(w)))
    BY <1>8, <1>13 DEF Brings
  <2> QED
    BY <1>1, <1>5, <1>8, <1>12, <1>13, <1>14, <1>15, <1>16, <2>1, <2>2, <2>3 DEF Shape
<1> QED
  BY <1>1, <1>5, <1>8, <1>9, <1>10, <1>11, <1>14, <1>16, <1>17

LEMMA ReadACLFacts ==
  ASSUME SearchInv, NEW w \in Workers, ReadACL(w)
  PROVE  /\ Work(w) /\ BookInv' /\ Shape(w)' /\ Known(wk'[w].value)
         /\ UNCHANGED <<row, doc, gen, scanned, chk, acked, ended>>
         /\ wk[w].at = "acl"
         /\ wk'[w].ev = wk[w].ev /\ wk'[w].t = wk[w].t /\ wk'[w].todo = wk[w].todo
         /\ wk'[w].failed = wk[w].failed /\ wk'[w].value \in Indexed
         /\ IF EpochFirst(w) THEN wk'[w].at = "source"
            ELSE /\ wk'[w].at = "project" /\ wk[w].value # None
                 /\ wk'[w].value.ver = wk[w].value.ver /\ wk'[w].value.dead = wk[w].value.dead
                 /\ wk'[w].value.acl = acl
                 /\ wk'[w].t \notin raced' => wk[w].value.ver = src.ver
<1> USE DEF SearchInv
<1> DEFINE v == [Read(w) EXCEPT !.acl = acl]
           p == IF EpochFirst(w) THEN "source" ELSE "project"
<1>1. /\ UNCHANGED <<src, acl, events, row, doc, gen, scanned, chk, acked, ended, faults>>
      /\ raced' = IF Torn(w) THEN raced \cup {wk[w].t} ELSE raced
      /\ wk[w].at = "acl" /\ ~Deleting(w)
  BY DEF ReadACL, source, control, progress, ShapeInv, Shape
<1>2. /\ wk[w] \in Handling /\ wk[w].value \in Indexed \cup {None} /\ wk[w].t \in Targets
      /\ wk[w].ev # 0 => /\ wk[w].ev \in Emissions /\ Event(w) = events[wk[w].ev] /\ Event(w) \in Emitted
                         /\ Event(w).acl <= acl
      /\ EpochFirst(w) => wk[w].value = None /\ wk[w].ev # 0
      /\ ~EpochFirst(w) => /\ wk[w].value # None /\ wk[w].value.ver >= 1
                           /\ wk[w].ev # 0 => wk[w].value.ver >= Event(w).ver
  BY <1>1, EventOf DEF Handling, SourceInv, ShapeInv, Shape, EpochFirst
<1>3. /\ Read(w) \in Indexed
      /\ EpochFirst(w) => Read(w).ver = 0 /\ Read(w).dead = FALSE
      /\ ~EpochFirst(w) => Read(w) = wk[w].value
  BY <1>2 DEF Read, NoValue, Indexed
<1>4. /\ v \in Indexed /\ v.ver = Read(w).ver /\ v.dead = Read(w).dead /\ v.acl = acl
  BY <1>3 DEF Indexed, TypeInv
<1>5. p \in Places /\ (EpochFirst(w) => p = "source") /\ (~EpochFirst(w) => p = "project")
  BY DEF Places
<1>6. wk' = [wk EXCEPT ![w].value = v, ![w].at = p]
  BY DEF ReadACL
<1> HIDE DEF v, p
<1>7. v # None
  BY <1>4, NoneIsNoValue
<1>8. /\ wk' \in [Workers -> Handling]
      /\ \A x \in Workers : x # w => wk'[x] = wk[x]
      /\ wk'[w].at = p /\ wk'[w].value = v
      /\ wk'[w].ev = wk[w].ev /\ wk'[w].t = wk[w].t
      /\ wk'[w].todo = wk[w].todo /\ wk'[w].failed = wk[w].failed
  BY <1>4, <1>5, <1>6, MovedTo
<1>9. Work(w)
  BY <1>1, <1>2, <1>8 DEF Work, TypeInv
<1>10. BookInv'
  BY <1>1, <1>8, <1>9, BookFrame
<1>11. Known(v)
  <2>0. src.ver \in Nat /\ acl \in Nat /\ src.dead \in BOOLEAN /\ (src.dead => src.ver > 0)
    BY DEF TypeInv, SourceInv
  <2>1. CASE EpochFirst(w)
    <3>1. v.ver = 0 /\ v.dead = FALSE
      BY <1>3, <1>4, <2>1
    <3> QED
      BY <1>4, <2>0, <3>1 DEF Known
  <2>2. CASE ~EpochFirst(w)
    <3>1. v.ver = wk[w].value.ver /\ v.dead = wk[w].value.dead /\ Known(wk[w].value)
      BY <1>2, <1>3, <1>4, <2>2 DEF KnownInv
    <3> QED
      BY <1>4, <2>0, <3>1 DEF Known
  <2> QED
    BY <2>1, <2>2
<1>12. /\ Event(w)' = Event(w) /\ Deleting(w)' = Deleting(w) /\ EpochFirst(w)' = EpochFirst(w)
  BY <1>1, <1>8 DEF Event, Deleting, EpochFirst
<1>13. wk[w].ev # 0 => v.acl >= Event(w).acl
  BY <1>2, <1>4
<1>14. ~EpochFirst(w) /\ wk[w].t \notin raced' => wk[w].value.ver = src.ver
  BY <1>1, <1>2 DEF Torn
<1>15. Shape(w)'
  <2>1. wk'[w].ev \in 0 .. Len(events')
    BY <1>1, <1>8 DEF ShapeInv, Shape
  <2>2. ~EpochFirst(w) => v.ver >= 1 /\ (wk[w].ev # 0 => Brings(v, Event(w)))
    BY <1>2, <1>3, <1>4, <1>13 DEF Brings
  <2>3. (wk[w].ev # 0 => Brings(wk[w].value, Event(w)))' <=> (wk[w].ev # 0 => Brings(v, Event(w)))
    BY <1>8, <1>12 DEF Brings
  <2> QED
    BY <1>1, <1>2, <1>5, <1>7, <1>8, <1>12, <1>13, <2>1, <2>2, <2>3 DEF Shape
<1> QED
  BY <1>1, <1>2, <1>3, <1>4, <1>5, <1>8, <1>9, <1>10, <1>11, <1>14, <1>15

LEMMA ProjectFacts ==
  ASSUME SearchInv, NEW w \in Workers, Project(w)
  PROVE  /\ Work(w) /\ BookInv' /\ Shape(w)'
         /\ UNCHANGED <<doc, gen, scanned, acked, ended>>
         /\ wk[w].at = "project" /\ wk'[w].at = "load" /\ wk'[w].value = None
         /\ wk'[w].ev = wk[w].ev /\ wk'[w].t = wk[w].t /\ wk'[w].todo = wk[w].todo
         /\ wk'[w].failed = wk[w].failed
         /\ \A q \in Nums \X Targets : chk'[q] = chk[q] \/ (q = <<wk[w].ev, wk[w].t>> /\ chk'[q] = "pending")
         /\ \A t \in Targets : Grow(row[t], row'[t]) /\ (row'[t] # None => Known(row'[t]))
         /\ IF Deleting(w)
            THEN /\ src.dead /\ raced' = raced \cup Overtaken
                 /\ \A t \in Targets : row'[t] = TombstoneRow(row[t], src.ver)
            ELSE /\ raced' = raced /\ wk[w].value \in Indexed
                 /\ \A t \in Targets : row'[t] = IF t = wk[w].t THEN Upsert(row[t], wk[w].value) ELSE row[t]
<1> USE DEF SearchInv
<1>1. /\ UNCHANGED <<src, acl, events, doc, gen, scanned, acked, ended, faults>>
      /\ wk[w].at = "project" /\ wk' = [wk EXCEPT ![w].at = "load", ![w].value = None]
      /\ chk' = IF wk[w].ev = 0 THEN chk ELSE [chk EXCEPT ![<<wk[w].ev, wk[w].t>>] = "pending"]
  BY DEF Project, source, control, Key
<1>2. /\ wk[w] \in Handling /\ wk[w].t \in Targets /\ wk[w].value \in Indexed \cup {None}
      /\ wk[w].ev # 0 => /\ wk[w].ev \in Emissions /\ wk[w].ev \in Nums /\ Event(w) = events[wk[w].ev]
                         /\ <<wk[w].ev, wk[w].t>> \in Nums \X Targets
  BY EventOf DEF Handling
<1>3. /\ wk' \in [Workers -> Handling]
      /\ \A x \in Workers : x # w => wk'[x] = wk[x]
      /\ wk'[w].at = "load" /\ wk'[w].value = None
      /\ wk'[w].ev = wk[w].ev /\ wk'[w].t = wk[w].t
      /\ wk'[w].todo = wk[w].todo /\ wk'[w].failed = wk[w].failed
  <2>1. "load" \in Places /\ None \in Indexed \cup {None}
    BY DEF Places
  <2> QED
    BY <1>1, <2>1, MovedTo
<1>4. /\ chk' \in [Nums \X Targets -> Checkpoints]
      /\ \A q \in Nums \X Targets : chk'[q] = chk[q] \/ (q = <<wk[w].ev, wk[w].t>> /\ chk'[q] = "pending" /\ wk[w].ev # 0)
  <2>1. chk \in [Nums \X Targets -> Checkpoints] /\ "pending" \in Checkpoints
    BY DEF TypeInv, Checkpoints
  <2>2. CASE wk[w].ev = 0
    BY <1>1, <2>1, <2>2
  <2>3. CASE wk[w].ev # 0
    <3> DEFINE k == <<wk[w].ev, wk[w].t>>
    <3>1. k \in Nums \X Targets /\ chk' = [chk EXCEPT ![k] = "pending"]
      BY <1>1, <1>2, <2>3
    <3> HIDE DEF k
    <3>2. chk' \in [Nums \X Targets -> Checkpoints] /\ \A q \in Nums \X Targets : chk'[q] = chk[q] \/ (q = k /\ chk'[q] = "pending")
      BY <2>1, <3>1
    <3> QED
      BY <2>3, <3>2 DEF k
  <2> QED
    BY <2>2, <2>3
<1>5. /\ row' \in [Targets -> Indexed \cup {None}]
      /\ raced \subseteq raced' /\ raced' \subseteq Targets
      /\ \A t \in Targets : Grow(row[t], row'[t]) /\ (row'[t] # None => Known(row'[t]))
      /\ IF Deleting(w)
         THEN /\ src.dead /\ raced' = raced \cup Overtaken
              /\ \A t \in Targets : row'[t] = TombstoneRow(row[t], src.ver)
         ELSE /\ raced' = raced /\ wk[w].value \in Indexed
              /\ \A t \in Targets : row'[t] = IF t = wk[w].t THEN Upsert(row[t], wk[w].value) ELSE row[t]
  <2>0. row \in [Targets -> Indexed \cup {None}] /\ raced \subseteq Targets
    BY DEF TypeInv
  <2>1. CASE Deleting(w)
    <3>1. src.dead /\ Event(w).ver = src.ver /\ wk[w].ev # 0 /\ Event(w).kind = "delete"
      BY <1>2, <2>1 DEF Deleting, SourceInv
    <3>2. row' = [t \in Targets |-> TombstoneRow(row[t], src.ver)] /\ raced' = raced \cup Overtaken
      BY <3>1 DEF Project
    <3>3. ASSUME NEW t \in Targets
          PROVE  /\ row'[t] = TombstoneRow(row[t], src.ver) /\ row'[t] \in Indexed \cup {None}
                 /\ Grow(row[t], row'[t]) /\ (row'[t] # None => Known(row'[t]))
      <4>1. row[t] \in Indexed \cup {None} /\ (row[t] # None => Known(row[t])) /\ row'[t] = TombstoneRow(row[t], src.ver)
        BY <2>0, <3>2 DEF KnownInv
      <4> QED
        BY <3>1, <4>1, TombstoneKnown
    <3>4. Overtaken \subseteq Targets
      BY DEF Overtaken
    <3> QED
      BY <2>0, <2>1, <3>1, <3>2, <3>3, <3>4
  <2>2. CASE ~Deleting(w)
    <3>1. ~(wk[w].ev # 0 /\ Event(w).kind = "delete")
      BY <1>2, <2>2 DEF Deleting, Event
    <3>2. row' = [row EXCEPT ![wk[w].t] = Upsert(row[wk[w].t], wk[w].value)] /\ raced' = raced
      BY <3>1 DEF Project
    <3>3. wk[w].value # None /\ wk[w].value \in Indexed /\ Known(wk[w].value)
      BY <1>1, <1>2, <2>2 DEF ShapeInv, Shape, KnownInv
    <3>4. ASSUME NEW t \in Targets
          PROVE  /\ row'[t] = (IF t = wk[w].t THEN Upsert(row[t], wk[w].value) ELSE row[t])
                 /\ row'[t] \in Indexed \cup {None}
                 /\ Grow(row[t], row'[t]) /\ (row'[t] # None => Known(row'[t]))
      <4>1. row[t] \in Indexed \cup {None} /\ (row[t] # None => Known(row[t]))
        BY <2>0 DEF KnownInv
      <4>2. CASE t = wk[w].t
        <5>1. row'[t] = Upsert(row[t], wk[w].value)
          BY <2>0, <3>2, <4>2
        <5> QED
          BY <3>3, <4>1, <4>2, <5>1, UpsertType, UpsertGrows
      <4>3. CASE t # wk[w].t
        <5>1. row'[t] = row[t]
          BY <2>0, <3>2, <4>3
        <5> QED
          BY <4>1, <4>3, <5>1 DEF Grow, Below, Indexed
      <4> QED
        BY <4>2, <4>3
    <3>5. row' \in [Targets -> Indexed \cup {None}]
      BY <2>0, <1>2, <3>2, <3>3, UpsertType
    <3> QED
      BY <2>0, <2>2, <3>2, <3>3, <3>4, <3>5
  <2> QED
    BY <2>1, <2>2
<1>6. Work(w)
  BY <1>1, <1>3, <1>4, <1>5 DEF Work, TypeInv
<1>7. BookInv'
  <2>1. ASSUME NEW e \in Nums, NEW t \in Targets, chk'[<<e, t>>] # "none"
        PROVE  chk[<<e, t>>] # "none" \/ e \in Emissions
    <3>1. <<e, t>> \in Nums \X Targets
      OBVIOUS
    <3> QED
      BY <1>2, <1>4, <2>1, <3>1
  <2> QED
    BY <1>1, <1>3, <1>6, <2>1, BookFrame
<1>8. Shape(w)'
  BY <1>1, <1>3 DEF Shape, ShapeInv
<1> QED
  BY <1>1, <1>3, <1>4, <1>5, <1>6, <1>7, <1>8

LEMMA LoadFacts ==
  ASSUME SearchInv, NEW w \in Workers, Load(w)
  PROVE  /\ Work(w) /\ BookInv' /\ Shape(w)' /\ (wk'[w].value # None => Known(wk'[w].value))
         /\ UNCHANGED <<row, doc, raced, gen, scanned, acked, ended>>
         /\ wk[w].at = "load" /\ wk'[w].at = "put" /\ wk'[w].value = row[wk[w].t]
         /\ wk'[w].ev = wk[w].ev /\ wk'[w].t = wk[w].t /\ wk'[w].todo = wk[w].todo
         /\ wk'[w].failed = wk[w].failed
         /\ \A q \in Nums \X Targets : chk'[q] = chk[q] \/ (q = <<wk[w].ev, wk[w].t>> /\ chk'[q] = "publishing")
<1> USE DEF SearchInv
<1>1. /\ UNCHANGED <<src, acl, events, row, doc, raced, gen, scanned, acked, ended, faults>>
      /\ wk[w].at = "load" /\ wk' = [wk EXCEPT ![w].at = "put", ![w].value = row[wk[w].t]]
      /\ chk' = IF wk[w].ev = 0 THEN chk ELSE [chk EXCEPT ![<<wk[w].ev, wk[w].t>>] = "publishing"]
  BY DEF Load, source, index, control, Key
<1>2. /\ wk[w] \in Handling /\ wk[w].t \in Targets /\ row[wk[w].t] \in Indexed \cup {None}
      /\ wk[w].ev # 0 => wk[w].ev \in Emissions /\ <<wk[w].ev, wk[w].t>> \in Nums \X Targets
  BY EventOf DEF TypeInv
<1>3. /\ wk' \in [Workers -> Handling]
      /\ \A x \in Workers : x # w => wk'[x] = wk[x]
      /\ wk'[w].at = "put" /\ wk'[w].value = row[wk[w].t]
      /\ wk'[w].ev = wk[w].ev /\ wk'[w].t = wk[w].t
      /\ wk'[w].todo = wk[w].todo /\ wk'[w].failed = wk[w].failed
  <2> DEFINE r == [wk[w] EXCEPT !.at = "put", !.value = row[wk[w].t]]
  <2>1. r \in Handling /\ r.at = "put" /\ r.value = row[wk[w].t] /\ r.ev = wk[w].ev /\ r.t = wk[w].t
        /\ r.todo = wk[w].todo /\ r.failed = wk[w].failed
    BY <1>2 DEF Handling, Places
  <2>2. wk' = [wk EXCEPT ![w] = r]
    BY <1>1 DEF TypeInv
  <2> HIDE DEF r
  <2> QED
    BY <2>1, <2>2, Replaced
<1>4. /\ chk' \in [Nums \X Targets -> Checkpoints]
      /\ \A q \in Nums \X Targets : chk'[q] = chk[q] \/ (q = <<wk[w].ev, wk[w].t>> /\ chk'[q] = "publishing" /\ wk[w].ev # 0)
  <2>1. chk \in [Nums \X Targets -> Checkpoints] /\ "publishing" \in Checkpoints
    BY DEF TypeInv, Checkpoints
  <2>2. CASE wk[w].ev = 0
    BY <1>1, <2>1, <2>2
  <2>3. CASE wk[w].ev # 0
    <3> DEFINE k == <<wk[w].ev, wk[w].t>>
    <3>1. k \in Nums \X Targets /\ chk' = [chk EXCEPT ![k] = "publishing"]
      BY <1>1, <1>2, <2>3
    <3> HIDE DEF k
    <3>2. chk' \in [Nums \X Targets -> Checkpoints] /\ \A q \in Nums \X Targets : chk'[q] = chk[q] \/ (q = k /\ chk'[q] = "publishing")
      BY <2>1, <3>1
    <3> QED
      BY <2>3, <3>2 DEF k
  <2> QED
    BY <2>2, <2>3
<1>6. Work(w)
  BY <1>1, <1>3, <1>4 DEF Work, TypeInv
<1>7. BookInv'
  <2>1. ASSUME NEW e \in Nums, NEW t \in Targets, chk'[<<e, t>>] # "none"
        PROVE  chk[<<e, t>>] # "none" \/ e \in Emissions
    <3>1. <<e, t>> \in Nums \X Targets
      OBVIOUS
    <3> QED
      BY <1>2, <1>4, <2>1, <3>1
  <2> QED
    BY <1>1, <1>3, <1>6, <2>1, BookFrame
<1>8. Shape(w)'
  BY <1>1, <1>3 DEF Shape, ShapeInv
<1>9. wk'[w].value # None => Known(wk'[w].value)
  BY <1>2, <1>3 DEF KnownInv
<1> QED
  BY <1>1, <1>3, <1>4, <1>6, <1>7, <1>8, <1>9

\* The document after a publication.
LEMMA PublishedFacts ==
  ASSUME SearchInv, NEW w \in Workers, wk[w].at = "put"
  PROVE  /\ Published(w) \in Indexed \cup {None}
         /\ Published(w) # None => Known(Published(w))
         /\ Grow(doc[wk[w].t], Published(w))
         /\ wk[w].value # None => Published(w) = Upsert(doc[wk[w].t], wk[w].value)
         /\ wk[w].value = None => Published(w) \in {doc[wk[w].t], TombstoneDoc(doc[wk[w].t], src.ver)}
         /\ wk[w].value = None /\ Deleting(w) =>
              src.dead /\ Published(w) = TombstoneDoc(doc[wk[w].t], src.ver)
<1> USE DEF SearchInv
<1> DEFINE d == doc[wk[w].t]
<1>1. /\ wk[w] \in Handling /\ wk[w].t \in Targets /\ wk[w].value \in Indexed \cup {None}
      /\ d \in Indexed \cup {None} /\ (d # None => Known(d))
      /\ wk[w].value # None => Known(wk[w].value)
      /\ wk[w].ev # 0 => wk[w].ev \in Emissions /\ Event(w) = events[wk[w].ev]
  BY EventOf DEF TypeInv, KnownInv, Handling
<1>2. CASE wk[w].value # None
  <2>1. Published(w) = Upsert(d, wk[w].value)
    BY <1>2 DEF Published
  <2>2. Upsert(d, wk[w].value) \in Indexed /\ Known(Upsert(d, wk[w].value))
    <3>1. wk[w].value \in Indexed
      BY <1>1, <1>2
    <3>2. /\ Upsert(d, wk[w].value) \in Indexed
          /\ Upsert(d, wk[w].value) = d \/ Upsert(d, wk[w].value) = wk[w].value
      BY <1>1, <3>1, UpsertType
    <3> QED
      BY <1>1, <1>2, <3>2, NoneIsNoValue
  <2>3. Grow(d, Upsert(d, wk[w].value))
    BY <1>1, <1>2, UpsertGrows
  <2> QED
    BY <1>2, <2>1, <2>2, <2>3
<1>3. CASE wk[w].value = None /\ Deleting(w)
  <2>1. src.dead /\ Event(w).ver = src.ver /\ wk[w].ev # 0 /\ Event(w).kind = "delete"
    BY <1>1, <1>3 DEF Deleting, SourceInv
  <2>2. Published(w) = TombstoneDoc(d, src.ver)
    BY <1>3, <2>1 DEF Published
  <2>3. CASE d = None
    <3> DEFINE r == [ver |-> src.ver, acl |-> 0, dead |-> TRUE]
    <3>1. Published(w) = r
      BY <2>2, <2>3 DEF TombstoneDoc
    <3>2. r \in Indexed /\ r.ver = src.ver /\ r.acl = 0 /\ r.dead = TRUE
      BY DEF Indexed, TypeInv
    <3> HIDE DEF r
    <3>3. Known(r)
      BY <2>1, <3>2 DEF Known, TypeInv
    <3> QED
      BY <1>3, <2>1, <2>2, <2>3, <3>1, <3>2, <3>3 DEF Grow
  <2>4. CASE d # None
    <3>1. Published(w) = TombstoneRow(d, src.ver)
      BY <2>2, <2>4 DEF TombstoneDoc
    <3> QED
      BY <1>1, <1>3, <2>1, <2>2, <2>4, <3>1, TombstoneKnown
  <2> QED
    BY <2>3, <2>4
<1>4. CASE wk[w].value = None /\ ~Deleting(w)
  <2>1. Published(w) = d
    BY <1>1, <1>4 DEF Published, Deleting
  <2>2. Grow(d, d)
    BY <1>1 DEF Grow, Below, Indexed
  <2> QED
    BY <1>1, <1>4, <2>1, <2>2
<1> QED
  BY <1>2, <1>3, <1>4

\* A publication changes its own document, which grows.
DocMoves(w) ==
  /\ doc' \in [Targets -> Indexed \cup {None}]
  /\ \A t \in Targets : /\ Grow(doc[t], doc'[t])
                        /\ doc'[t] # None => Known(doc'[t])
                        /\ t # wk[w].t => doc'[t] = doc[t]
  /\ doc'[wk[w].t] \in {doc[wk[w].t], Published(w)}

\* A publication, successful or not, moves one document forward.
LEMMA PublicationMoves ==
  ASSUME SearchInv, NEW w \in Workers, wk[w].at = "put",
         doc' \in {doc, [doc EXCEPT ![wk[w].t] = Published(w)]}
  PROVE  DocMoves(w)
<1>1. /\ Published(w) \in Indexed \cup {None}
      /\ Published(w) # None => Known(Published(w))
      /\ Grow(doc[wk[w].t], Published(w))
  BY PublishedFacts
<1>2. wk[w].t \in Targets /\ doc \in [Targets -> Indexed \cup {None}]
  BY DEF SearchInv, TypeInv, Handling
<1>3. ASSUME NEW t \in Targets PROVE Grow(doc[t], doc[t]) /\ (doc[t] # None => Known(doc[t]))
  <2>1. doc[t] \in Indexed \cup {None}
    BY <1>2
  <2> QED
    BY <2>1 DEF Grow, Below, Indexed, SearchInv, KnownInv
<1>4. CASE doc' = doc
  BY <1>2, <1>3, <1>4 DEF DocMoves
<1>5. CASE doc' = [doc EXCEPT ![wk[w].t] = Published(w)]
  <2>1. doc' \in [Targets -> Indexed \cup {None}] /\ doc'[wk[w].t] = Published(w)
        /\ \A t \in Targets : t # wk[w].t => doc'[t] = doc[t]
    BY <1>1, <1>2, <1>5
  <2>2. ASSUME NEW t \in Targets
        PROVE  Grow(doc[t], doc'[t]) /\ (doc'[t] # None => Known(doc'[t]))
    <3>1. CASE t = wk[w].t
      BY <1>1, <2>1, <3>1
    <3>2. CASE t # wk[w].t
      <4>1. doc'[t] = doc[t]
        BY <2>1, <3>2
      <4> QED
        BY <1>3, <4>1
    <3> QED
      BY <3>1, <3>2
  <2> QED
    BY <2>1, <2>2 DEF DocMoves
<1> QED
  BY <1>4, <1>5

LEMMA PutFacts ==
  ASSUME SearchInv, NEW w \in Workers, Put(w)
  PROVE  /\ Work(w) /\ BookInv' /\ Shape(w)' /\ DocMoves(w) /\ doc'[wk[w].t] = Published(w)
         /\ UNCHANGED <<row, raced, gen, scanned, chk, acked, ended>>
         /\ wk[w].at = "put" /\ wk'[w].at = "settle" /\ wk'[w].value = None
         /\ wk'[w].ev = wk[w].ev /\ wk'[w].t = wk[w].t /\ wk'[w].todo = wk[w].todo
         /\ wk'[w].failed = wk[w].failed
<1> USE DEF SearchInv
<1>1. /\ UNCHANGED <<src, acl, events, row, raced, gen, scanned, chk, acked, ended, faults>>
      /\ wk[w].at = "put" /\ wk' = [wk EXCEPT ![w].at = "settle", ![w].value = None]
      /\ doc' = [doc EXCEPT ![wk[w].t] = Published(w)]
  BY DEF Put, source, control, progress
<1>2. DocMoves(w)
  BY <1>1, PublicationMoves
<1>3. wk[w].t \in Targets /\ doc \in [Targets -> Indexed \cup {None}]
  BY DEF TypeInv, Handling
<1>4. doc'[wk[w].t] = Published(w)
  BY <1>1, <1>3
<1>5. /\ wk' \in [Workers -> Handling]
      /\ \A x \in Workers : x # w => wk'[x] = wk[x]
      /\ wk'[w].at = "settle" /\ wk'[w].value = None
      /\ wk'[w].ev = wk[w].ev /\ wk'[w].t = wk[w].t
      /\ wk'[w].todo = wk[w].todo /\ wk'[w].failed = wk[w].failed
  <2>1. "settle" \in Places /\ None \in Indexed \cup {None}
    BY DEF Places
  <2> QED
    BY <1>1, <2>1, MovedTo
<1>6. Work(w)
  BY <1>1, <1>2, <1>5 DEF Work, TypeInv, DocMoves
<1>7. BookInv'
  BY <1>1, <1>5, <1>6, BookFrame
<1>8. Shape(w)'
  BY <1>1, <1>5 DEF Shape, ShapeInv
<1> QED
  BY <1>1, <1>2, <1>4, <1>5, <1>6, <1>7, <1>8

LEMMA SettleFacts ==
  ASSUME SearchInv, NEW w \in Workers, Settle(w), wk[w].ev # 0
  PROVE  /\ Work(w) /\ BookInv' /\ Shape(w)'
         /\ UNCHANGED <<row, doc, raced, gen, scanned, acked, ended>>
         /\ wk[w].at = "settle" /\ wk'[w].at = "ack" /\ wk'[w].value = None
         /\ wk'[w].ev = wk[w].ev /\ wk'[w].t = wk[w].t /\ wk'[w].todo = wk[w].todo
         /\ wk'[w].failed = wk[w].failed
         /\ \A q \in Nums \X Targets : chk'[q] = chk[q] \/ (q = <<wk[w].ev, wk[w].t>> /\ chk'[q] = "indexed")
<1> USE DEF SearchInv
<1>1. /\ UNCHANGED <<src, acl, events, row, doc, raced, gen, scanned, acked, ended, faults>>
      /\ wk[w].at = "settle" /\ wk' = [wk EXCEPT ![w].at = "ack"]
      /\ chk' = [chk EXCEPT ![<<wk[w].ev, wk[w].t>>] = "indexed"]
  BY DEF Settle, source, index, control, Key
<1>2. /\ wk[w].ev \in Emissions /\ <<wk[w].ev, wk[w].t>> \in Nums \X Targets
  BY EventOf
<1>3. wk[w].value = None
  BY <1>1 DEF ShapeInv, Shape
<1>4. /\ wk' \in [Workers -> Handling]
      /\ \A x \in Workers : x # w => wk'[x] = wk[x]
      /\ wk'[w].at = "ack" /\ wk'[w].value = wk[w].value
      /\ wk'[w].ev = wk[w].ev /\ wk'[w].t = wk[w].t
      /\ wk'[w].todo = wk[w].todo /\ wk'[w].failed = wk[w].failed
  <2>1. "ack" \in Places
    BY DEF Places
  <2> QED
    BY <1>1, <2>1, MovedAt
<1>5. /\ chk' \in [Nums \X Targets -> Checkpoints]
      /\ \A q \in Nums \X Targets : chk'[q] = chk[q] \/ (q = <<wk[w].ev, wk[w].t>> /\ chk'[q] = "indexed")
  <2>1. chk \in [Nums \X Targets -> Checkpoints] /\ "indexed" \in Checkpoints
    BY DEF TypeInv, Checkpoints
  <2> DEFINE k == <<wk[w].ev, wk[w].t>>
  <2>2. k \in Nums \X Targets /\ chk' = [chk EXCEPT ![k] = "indexed"]
    BY <1>1, <1>2
  <2> HIDE DEF k
  <2>3. chk' \in [Nums \X Targets -> Checkpoints] /\ \A q \in Nums \X Targets : chk'[q] = chk[q] \/ (q = k /\ chk'[q] = "indexed")
    BY <2>1, <2>2
  <2> QED
    BY <2>3 DEF k
<1>6. Work(w)
  BY <1>1, <1>4, <1>5 DEF Work, TypeInv
<1>7. BookInv'
  <2>1. ASSUME NEW e \in Nums, NEW t \in Targets, chk'[<<e, t>>] # "none"
        PROVE  chk[<<e, t>>] # "none" \/ e \in Emissions
    <3>1. <<e, t>> \in Nums \X Targets
      OBVIOUS
    <3> QED
      BY <1>2, <1>5, <2>1, <3>1
  <2> QED
    BY <1>1, <1>4, <1>6, <2>1, BookFrame
<1>8. Shape(w)'
  BY <1>1, <1>3, <1>4 DEF Shape, ShapeInv
<1> QED
  BY <1>1, <1>3, <1>4, <1>5, <1>6, <1>7, <1>8

LEMMA AckFacts ==
  ASSUME SearchInv, NEW w \in Workers, Ack(w)
  PROVE  /\ Work(w) /\ BookInv' /\ Shape(w)'
         /\ UNCHANGED <<row, doc, raced, gen, scanned, chk>>
         /\ wk[w].at = "ack" /\ wk[w].ev # 0 /\ acked' = acked \cup {<<wk[w].ev, wk[w].t>>}
         /\ MovesOn(w, wk[w].todo \ {wk[w].t}, wk[w].failed)
<1> USE DEF SearchInv
<1>1. /\ UNCHANGED <<src, acl, events, row, doc, raced, gen, scanned, chk, faults>>
      /\ wk[w].at = "ack" /\ wk[w].ev # 0 /\ acked' = acked \cup {<<wk[w].ev, wk[w].t>>}
      /\ Onward(w, wk[w].todo \ {wk[w].t}, wk[w].failed)
  BY DEF Ack, Key, source, index, control, ShapeInv, Shape
<1>2. /\ wk[w] \in Handling /\ wk[w].ev \in Emissions /\ wk[w].ev \in Nums /\ wk[w].t \in Targets
      /\ <<wk[w].ev, wk[w].t>> \in Nums \X Targets
      /\ wk[w].todo \in SUBSET Targets /\ wk[w].failed \in {"no", "retry", "skip"}
  BY <1>1, EventOf DEF Handling
<1>3. MovesOn(w, wk[w].todo \ {wk[w].t}, wk[w].failed)
  BY <1>1, <1>2, OnwardMoves
<1>4. Work(w)
  BY <1>1, <1>2, <1>3 DEF Work, TypeInv, MovesOn
<1>5. BookInv'
  <2>1. ASSUME NEW e \in Nums, NEW t \in Targets, <<e, t>> \in acked'
        PROVE  <<e, t>> \in acked \/ e \in Emissions
    BY <1>1, <1>2, <2>1
  <2> QED
    BY <1>1, <1>2, <1>3, <1>4, <2>1, BookFrame DEF MovesOn
<1>6. Shape(w)'
  BY <1>1, <1>2, <1>3 DEF Shape, MovesOn, ShapeInv
<1> QED
  BY <1>1, <1>3, <1>4, <1>5, <1>6

LEMMA CrashFacts ==
  ASSUME SearchInv, NEW w \in Workers, Crash(w)
  PROVE  /\ Work(w) /\ BookInv' /\ Shape(w)'
         /\ UNCHANGED <<row, doc, raced, gen, scanned, chk, acked, ended>>
         /\ wk'[w] = Idle
<1> USE DEF SearchInv
<1>1. /\ UNCHANGED <<src, acl, events, row, doc, raced, gen, scanned, chk, acked, ended>>
      /\ wk' = [wk EXCEPT ![w] = Idle] /\ faults' \in Nat
  BY DEF Crash, source, index, control, progress, TypeInv
<1>2. wk' \in [Workers -> Handling] /\ wk'[w] = Idle /\ \A x \in Workers : x # w => wk'[x] = wk[x]
  BY <1>1, IdleType, Replaced
<1>3. Work(w)
  BY <1>1, <1>2 DEF Work, TypeInv
<1>4. BookInv'
  BY <1>1, <1>2, <1>3, IdleType, BookFrame
<1>5. Shape(w)'
  BY <1>1, <1>2, IdleType DEF Shape, TypeInv
<1> QED
  BY <1>1, <1>2, <1>3, <1>4, <1>5

\* What backfills do to the generations: nothing becomes active or retired.
GenMoves ==
  /\ gen' \in [Targets -> States]
  /\ \A t \in Targets : \/ gen'[t] = gen[t]
                        \/ /\ gen[t] \in {"absent", "building", "stalled"}
                           /\ gen'[t] \in {"building", "stalled", "failed"}

\* Steps that move generations keep the books.
LEMMA GenBooks ==
  ASSUME SearchInv, NEW w \in Workers, Work(w), GenMoves, UNCHANGED <<chk, acked, ended>>,
         \A t \in scanned' : t \in scanned \/ gen'[t] # "absent", scanned \subseteq scanned',
         wk'[w].at # "idle" /\ wk'[w].ev = 0 => gen'[wk'[w].t] # "absent"
  PROVE  BookInv'
<1>1. Emissions' = Emissions
  BY DEF Work, Emissions
<1>2. \A x \in Workers : x # w => wk'[x] = wk[x]
  BY DEF Work
<1>3. \A t \in Targets : gen[t] # "absent" => gen'[t] # "absent"
  BY DEF GenMoves
<1>4. scanned \subseteq Targets /\ \A x \in Workers : wk[x].t \in Targets
  BY DEF SearchInv, TypeInv, Handling
<1> QED
  BY <1>1, <1>2, <1>3, <1>4 DEF SearchInv, BookInv

LEMMA FailFacts ==
  ASSUME SearchInv, NEW w \in Workers, NEW how \in {"retry", "skip"}, PutFails(w, how), wk[w].ev # 0
  PROVE  /\ Work(w) /\ BookInv' /\ Shape(w)' /\ DocMoves(w)
         /\ UNCHANGED <<row, raced, gen, scanned, acked>>
         /\ wk[w].at = "put"
         /\ chk'[<<wk[w].ev, wk[w].t>>] = "failed"
         /\ \A q \in Nums \X Targets : chk'[q] = chk[q] \/ (q = <<wk[w].ev, wk[w].t>> /\ chk'[q] = "failed")
         /\ \E f \in {"retry", "skip"} : MovesOn(w, wk[w].todo \ {wk[w].t}, f)
<1> USE DEF SearchInv
<1> DEFINE f == IF wk[w].failed = "skip" THEN "skip" ELSE how
<1>1. /\ UNCHANGED <<src, acl, events, row, raced, gen, scanned, acked>>
      /\ wk[w].at = "put" /\ faults' \in Nat
      /\ doc' \in {doc, [doc EXCEPT ![wk[w].t] = Published(w)]}
      /\ chk' = [chk EXCEPT ![<<wk[w].ev, wk[w].t>>] = "failed"]
      /\ Onward(w, wk[w].todo \ {wk[w].t}, f)
  BY DEF PutFails, source, Key, TypeInv
<1>2. DocMoves(w)
  BY <1>1, PublicationMoves
<1>3. /\ wk[w] \in Handling /\ wk[w].ev \in Emissions /\ wk[w].ev \in Nums /\ wk[w].t \in Targets
      /\ <<wk[w].ev, wk[w].t>> \in Nums \X Targets
      /\ wk[w].todo \in SUBSET Targets
  BY EventOf DEF Handling
<1>4. f \in {"retry", "skip"}
  OBVIOUS
<1> HIDE DEF f
<1>5. MovesOn(w, wk[w].todo \ {wk[w].t}, f)
  BY <1>1, <1>3, <1>4, OnwardMoves
<1>6. /\ chk' \in [Nums \X Targets -> Checkpoints] /\ chk'[<<wk[w].ev, wk[w].t>>] = "failed"
      /\ \A q \in Nums \X Targets : chk'[q] = chk[q] \/ (q = <<wk[w].ev, wk[w].t>> /\ chk'[q] = "failed")
  <2>1. chk \in [Nums \X Targets -> Checkpoints] /\ "failed" \in Checkpoints
    BY DEF TypeInv, Checkpoints
  <2> DEFINE k == <<wk[w].ev, wk[w].t>>
  <2>2. k \in Nums \X Targets /\ chk' = [chk EXCEPT ![k] = "failed"]
    BY <1>1, <1>3
  <2> HIDE DEF k
  <2>3. /\ chk' \in [Nums \X Targets -> Checkpoints] /\ chk'[k] = "failed"
        /\ \A q \in Nums \X Targets : chk'[q] = chk[q] \/ (q = k /\ chk'[q] = "failed")
    BY <2>1, <2>2
  <2> QED
    BY <2>3 DEF k
<1>7. Work(w)
  BY <1>1, <1>2, <1>5, <1>6 DEF Work, TypeInv, MovesOn, DocMoves
<1>8. BookInv'
  <2>1. ASSUME NEW e \in Nums, NEW t \in Targets, chk'[<<e, t>>] # "none"
        PROVE  chk[<<e, t>>] # "none" \/ e \in Emissions
    <3>1. <<e, t>> \in Nums \X Targets
      OBVIOUS
    <3> QED
      BY <1>3, <1>6, <2>1, <3>1
  <2> QED
    BY <1>1, <1>3, <1>5, <1>7, <2>1, BookFrame DEF MovesOn
<1>9. Shape(w)'
  BY <1>1, <1>3, <1>5 DEF Shape, MovesOn, ShapeInv
<1> QED
  BY <1>1, <1>2, <1>4, <1>5, <1>6, <1>7, <1>8, <1>9

LEMMA SnapshotFailFacts ==
  ASSUME SearchInv, NEW w \in Workers, NEW how \in {"retry", "skip"}, PutFails(w, how), wk[w].ev = 0
  PROVE  /\ Work(w) /\ BookInv' /\ Shape(w)' /\ DocMoves(w) /\ GenMoves
         /\ UNCHANGED <<row, raced, scanned, chk, acked, ended>>
         /\ wk[w].at = "put" /\ wk'[w] = Idle
         /\ \A t \in Targets : gen[t] = "absent" => gen'[t] = "absent"
<1> USE DEF SearchInv
<1>1. /\ UNCHANGED <<src, acl, events, row, raced, scanned, chk, acked, ended>>
      /\ wk[w].at = "put" /\ faults' \in Nat
      /\ doc' \in {doc, [doc EXCEPT ![wk[w].t] = Published(w)]}
      /\ wk' = [wk EXCEPT ![w] = Idle]
      /\ gen' = [gen EXCEPT ![wk[w].t] = IF wk[w].t \notin Building THEN gen[wk[w].t]
                                         ELSE IF how = "skip" THEN "failed" ELSE "stalled"]
  BY DEF PutFails, source, TypeInv
<1>2. DocMoves(w)
  BY <1>1, PublicationMoves
<1>3. wk' \in [Workers -> Handling] /\ wk'[w] = Idle /\ \A x \in Workers : x # w => wk'[x] = wk[x]
  BY <1>1, IdleType, Replaced
<1>4. GenMoves /\ \A t \in Targets : gen[t] = "absent" => gen'[t] = "absent"
  <2>1. wk[w].t \in Targets /\ gen \in [Targets -> States]
    BY DEF TypeInv, Handling
  <2>2. CASE wk[w].t \notin Building
    BY <1>1, <2>1, <2>2 DEF GenMoves
  <2>3. CASE wk[w].t \in Building
    BY <1>1, <2>1, <2>3 DEF GenMoves, Building, States
  <2> QED
    BY <2>2, <2>3
<1>5. Work(w)
  BY <1>1, <1>2, <1>3, <1>4 DEF Work, TypeInv, DocMoves, GenMoves
<1>6. BookInv'
  BY <1>1, <1>3, <1>4, <1>5, IdleType, GenBooks
<1>7. Shape(w)'
  BY <1>1, <1>3, IdleType DEF Shape, TypeInv
<1> QED
  BY <1>1, <1>2, <1>3, <1>4, <1>5, <1>6, <1>7

LEMMA TargetFailsFacts ==
  ASSUME SearchInv, NEW w \in Workers, TargetFails(w), wk[w].ev # 0
  PROVE  /\ Work(w) /\ BookInv' /\ Shape(w)'
         /\ UNCHANGED <<row, doc, raced, gen, scanned, chk, acked>>
         /\ wk[w].at # "idle"
         /\ \E f \in {"retry", "skip"} : MovesOn(w, wk[w].todo \ {wk[w].t}, f)
<1> USE DEF SearchInv
<1> DEFINE f == IF wk[w].failed = "skip" THEN "skip" ELSE "retry"
<1>1. /\ UNCHANGED <<src, acl, events, row, doc, raced, gen, scanned, chk, acked>>
      /\ wk[w].at # "idle" /\ faults' \in Nat
      /\ Onward(w, wk[w].todo \ {wk[w].t}, f)
  BY DEF TargetFails, source, index, TypeInv
<1>2. /\ wk[w].ev \in Emissions /\ wk[w].ev \in Nums
      /\ wk[w].todo \ {wk[w].t} \in SUBSET Targets
  BY EventOf DEF Handling
<1>3. f \in {"retry", "skip"}
  OBVIOUS
<1> HIDE DEF f
<1>4. MovesOn(w, wk[w].todo \ {wk[w].t}, f)
  BY <1>1, <1>2, <1>3, OnwardMoves
<1>5. Work(w)
  BY <1>1, <1>4 DEF Work, TypeInv, MovesOn
<1>6. BookInv'
  BY <1>1, <1>2, <1>4, <1>5, BookFrame DEF MovesOn
<1>7. Shape(w)'
  BY <1>1, <1>2, <1>4 DEF Shape, MovesOn, ShapeInv
<1> QED
  BY <1>1, <1>3, <1>4, <1>5, <1>6, <1>7

LEMMA SnapshotStopsFacts ==
  ASSUME SearchInv, NEW w \in Workers, TargetFails(w), wk[w].ev = 0
  PROVE  /\ Work(w) /\ BookInv' /\ Shape(w)' /\ GenMoves
         /\ UNCHANGED <<row, doc, raced, scanned, chk, acked, ended>>
         /\ wk'[w] = Idle
<1> USE DEF SearchInv
<1>1. /\ UNCHANGED <<src, acl, events, row, doc, raced, scanned, chk, acked, ended>>
      /\ faults' \in Nat
      /\ wk' = [wk EXCEPT ![w] = Idle]
      /\ gen' = [gen EXCEPT ![wk[w].t] = IF wk[w].t \in Building THEN "stalled" ELSE gen[wk[w].t]]
  BY DEF TargetFails, source, index, TypeInv
<1>2. wk' \in [Workers -> Handling] /\ wk'[w] = Idle /\ \A x \in Workers : x # w => wk'[x] = wk[x]
  BY <1>1, IdleType, Replaced
<1>3. GenMoves /\ \A t \in Targets : gen[t] = "absent" => gen'[t] = "absent"
  <2>1. wk[w].t \in Targets /\ gen \in [Targets -> States]
    BY DEF TypeInv, Handling
  <2>2. CASE wk[w].t \notin Building
    BY <1>1, <2>1, <2>2 DEF GenMoves
  <2>3. CASE wk[w].t \in Building
    BY <1>1, <2>1, <2>3 DEF GenMoves, Building, States
  <2> QED
    BY <2>2, <2>3
<1>4. Work(w)
  BY <1>1, <1>2, <1>3 DEF Work, TypeInv, GenMoves
<1>5. BookInv'
  BY <1>1, <1>2, <1>3, <1>4, IdleType, GenBooks
<1>6. Shape(w)'
  BY <1>1, <1>2, IdleType DEF Shape, TypeInv
<1> QED
  BY <1>1, <1>2, <1>3, <1>4, <1>5, <1>6

LEMMA ScannedFacts ==
  ASSUME SearchInv, NEW w \in Workers, Settle(w), wk[w].ev = 0
  PROVE  /\ Work(w) /\ BookInv' /\ Shape(w)' /\ GenMoves
         /\ UNCHANGED <<row, doc, raced, chk, acked, ended>>
         /\ wk[w].at = "settle" /\ wk'[w] = Idle
         /\ \A t \in Targets : gen'[t] = gen[t] \/ (gen[t] \in {"building", "stalled"} /\ gen'[t] = "building")
         /\ scanned' = IF wk[w].t \in Building THEN scanned \cup {wk[w].t} ELSE scanned
<1> USE DEF SearchInv
<1>1. /\ UNCHANGED <<src, acl, events, row, doc, raced, chk, acked, ended, faults>>
      /\ wk[w].at = "settle" /\ wk' = [wk EXCEPT ![w] = Idle]
      /\ IF wk[w].t \in Building
         THEN gen' = [gen EXCEPT ![wk[w].t] = "building"] /\ scanned' = scanned \cup {wk[w].t}
         ELSE gen' = gen /\ scanned' = scanned
  BY DEF Settle, Scanned, source, index, control
<1>2. wk' \in [Workers -> Handling] /\ wk'[w] = Idle /\ \A x \in Workers : x # w => wk'[x] = wk[x]
  BY <1>1, IdleType, Replaced
<1>3. wk[w].t \in Targets /\ gen \in [Targets -> States] /\ scanned \subseteq Targets
  BY DEF TypeInv, Handling
<1>4. /\ gen' \in [Targets -> States] /\ scanned' \subseteq Targets /\ scanned \subseteq scanned'
      /\ \A t \in Targets : gen'[t] = gen[t] \/ (gen[t] \in {"building", "stalled"} /\ gen'[t] = "building")
      /\ \A t \in scanned' : t \in scanned \/ gen'[t] # "absent"
      /\ scanned' = IF wk[w].t \in Building THEN scanned \cup {wk[w].t} ELSE scanned
  <2>1. CASE wk[w].t \in Building
    BY <1>1, <1>3, <2>1 DEF Building, States
  <2>2. CASE wk[w].t \notin Building
    BY <1>1, <1>3, <2>2
  <2> QED
    BY <2>1, <2>2
<1>5. GenMoves
  BY <1>4 DEF GenMoves
<1>6. Work(w)
  BY <1>1, <1>2, <1>4 DEF Work, TypeInv
<1>7. BookInv'
  BY <1>1, <1>2, <1>4, <1>5, <1>6, IdleType, GenBooks
<1>8. Shape(w)'
  BY <1>1, <1>2, IdleType DEF Shape, TypeInv
<1> QED
  BY <1>1, <1>2, <1>4, <1>5, <1>6, <1>7, <1>8

LEMMA BackfillFacts ==
  ASSUME SearchInv, NEW w \in Workers, NEW t \in Targets, Backfill(w, t)
  PROVE  /\ Work(w) /\ BookInv' /\ Shape(w)' /\ GenMoves /\ wk[w].at = "idle"
         /\ UNCHANGED <<row, doc, raced, chk, acked, ended>>
         /\ gen[t] \in {"absent", "building", "stalled"} /\ gen'[t] \in {"building", "stalled"}
         /\ \A u \in Targets : u # t => gen'[u] = gen[u]
         /\ \/ /\ wk'[w] = wk[w] /\ scanned' = scanned \cup {t}
               /\ src.ver = 0 \/ (t \in scanned /\ gen[t] = "stalled")
            \/ /\ scanned' = scanned /\ t \notin scanned
               /\ wk'[w].at = "source" /\ wk'[w].ev = 0 /\ wk'[w].t = t /\ wk'[w].value = None
<1> USE DEF SearchInv
<1>0. /\ UNCHANGED <<src, acl, events, row, doc, raced, chk, acked, ended, faults>>
      /\ wk[w].at = "idle"
      /\ (gen[t] \in {"absent", "building"} /\ t \notin scanned) \/ gen[t] = "stalled"
  BY DEF Backfill, source, index, progress
<1>1. gen \in [Targets -> States] /\ scanned \subseteq Targets /\ wk \in [Workers -> Handling] /\ wk[w] \in Handling
  BY DEF TypeInv
<1>2. CASE src.ver = 0 \/ t \in scanned
  <2>1. scanned' = scanned \cup {t} /\ wk' = wk /\ gen' = [gen EXCEPT ![t] = "building"]
    BY <1>2 DEF Backfill
  <2>2. /\ gen' \in [Targets -> States] /\ scanned' \subseteq Targets /\ gen'[t] = "building"
        /\ \A u \in Targets : u # t => gen'[u] = gen[u]
    BY <1>1, <2>1 DEF States
  <2>3. GenMoves
    BY <1>0, <2>2 DEF GenMoves
  <2>4. Work(w)
    BY <1>0, <1>1, <2>1, <2>2 DEF Work, TypeInv
  <2>5. \A u \in scanned' : u \in scanned \/ gen'[u] # "absent"
    BY <2>1, <2>2
  <2>6. wk'[w].at = "idle" /\ wk'[w] = wk[w]
    BY <1>0, <2>1
  <2>7. BookInv'
    BY <1>0, <2>1, <2>3, <2>4, <2>5, <2>6, GenBooks
  <2>8. Shape(w)'
    BY <1>0, <2>6 DEF Shape, ShapeInv
  <2> QED
    BY <1>0, <1>2, <2>1, <2>2, <2>3, <2>4, <2>6, <2>7, <2>8
<1>3. CASE ~(src.ver = 0 \/ t \in scanned)
  <2> DEFINE r == [Idle EXCEPT !.at = "source", !.t = t]
  <2>1. scanned' = scanned /\ wk' = [wk EXCEPT ![w] = r]
        /\ gen' = [gen EXCEPT ![t] = IF gen[t] = "absent" THEN "building" ELSE gen[t]]
    BY <1>3 DEF Backfill
  <2>2. r \in Handling /\ r.at = "source" /\ r.ev = 0 /\ r.t = t /\ r.value = None
    BY IdleType DEF Handling, Places
  <2> HIDE DEF r
  <2>3. wk' \in [Workers -> Handling] /\ wk'[w] = r /\ \A x \in Workers : x # w => wk'[x] = wk[x]
    BY <2>1, <2>2, Replaced
  <2>4. /\ gen' \in [Targets -> States] /\ gen'[t] \in {"building", "stalled"}
        /\ \A u \in Targets : u # t => gen'[u] = gen[u]
    BY <1>0, <1>1, <2>1 DEF States
  <2>5. GenMoves
    BY <1>0, <2>4 DEF GenMoves
  <2>6. Work(w)
    BY <1>0, <1>1, <2>1, <2>3, <2>4 DEF Work, TypeInv
  <2>7. BookInv'
    BY <1>0, <2>1, <2>2, <2>3, <2>4, <2>5, <2>6, GenBooks
  <2>8. src'.ver >= 1 /\ 0 \in 0 .. Len(events')
    BY <1>0, <1>3 DEF TypeInv
  <2>9. ~Deleting(w)' /\ ~EpochFirst(w)'
    BY <2>2, <2>3 DEF Deleting, EpochFirst
  <2>10. Shape(w)'
    BY <2>2, <2>3, <2>8, <2>9 DEF Shape
  <2> QED
    BY <1>0, <1>3, <2>1, <2>2, <2>3, <2>4, <2>5, <2>6, <2>7, <2>10
<1> QED
  BY <1>2, <1>3

-----------------------------------------------------------------------------
(* What a worker's step makes of the projection and of the index. *)

\* A worker that holds a living file's row read it before the delete, and
\* held it before.
Fresh(w) ==
  /\ wk'[w].at \in {"acl", "project"} /\ wk'[w].value # None /\ wk'[w].value.ver > 0 /\ ~wk'[w].value.dead
  => \/ ~src.dead
     \/ /\ wk[w].at \in {"acl", "project"} /\ wk'[w].t = wk[w].t
        /\ wk[w].value # None /\ wk[w].value.ver > 0 /\ ~wk[w].value.dead

AllDead(t) == \A a \in Pub(t) : a.dead

\* Rows and documents grow, and what was buried stays buried.
IndexStep ==
  /\ \A t \in Targets : Grow(row[t], row'[t]) /\ Grow(doc[t], doc'[t])
  /\ \A t \in Targets \ raced' : /\ TargetOK(t)'
                                 /\ Buried(t) => Buried(t)'
                                 /\ Buried(t) /\ AllDead(t) => AllDead(t)'

LEMMA GrowSelf ==
  ASSUME NEW a \in Indexed \cup {None}
  PROVE  Grow(a, a)
BY DEF Grow, Below, Indexed

\* Whatever is published was read from the file's row.
LEMMA PubType ==
  ASSUME SearchInv, NEW t \in Targets, NEW a \in Pub(t)
  PROVE  a \in Indexed /\ Known(a)
BY DEF SearchInv, Pub, InFlight, TypeInv, Handling, KnownInv

\* After the delete nobody reads a living file any more.
LEMMA NoLiveStays ==
  ASSUME SearchInv, NEW w \in Workers, Work(w), Fresh(w), src.dead, NEW t \in Targets, NoLive(t)
  PROVE  NoLive(t)'
<1> SUFFICES ASSUME NEW x \in Workers, wk'[x].t = t, wk'[x].at \in {"acl", "project"},
                    wk'[x].value # None, wk'[x].value.ver > 0, ~wk'[x].value.dead
             PROVE  FALSE
  BY DEF NoLive
<1>1. CASE x # w
  BY <1>1 DEF Work, NoLive
<1>2. CASE x = w
  BY <1>2 DEF Fresh, NoLive
<1> QED
  BY <1>1, <1>2

LEMMA CoherentStays ==
  ASSUME NEW w, Work(w), NEW v, Coherent(v)
  PROVE  Coherent(v)'
BY DEF Work, Coherent, Emissions

\* A generation stays in order when its row and its publications do.
LEMMA TargetFrame ==
  ASSUME SearchInv, NEW w \in Workers, Work(w), Fresh(w), NEW t \in Targets \ raced',
         row'[t] = row[t], Pub(t)' \subseteq Pub(t)
  PROVE  /\ TargetOK(t)' /\ (Buried(t) => Buried(t)')
         /\ Buried(t) /\ AllDead(t) => AllDead(t)'
<1>1. TargetOK(t)
  BY DEF SearchInv, TargetInv, Work
<1>2. Buried(t) => Buried(t)'
  <2>1. src' = src
    BY DEF Work
  <2> QED
    BY <2>1, NoLiveStays DEF Buried
<1>3. (row[t] # None => Coherent(row[t]))'
  <2> SUFFICES ASSUME row[t] # None PROVE Coherent(row[t])'
    OBVIOUS
  <2>1. Coherent(row[t]) /\ events' = events
    BY <1>1 DEF TargetOK, Work
  <2> QED
    BY <2>1 DEF Coherent, Emissions
<1>4. ASSUME NEW a \in Pub(t)' PROVE Coherent(a)'
  <2>1. a \in Pub(t)
    OBVIOUS
  <2> QED
    BY <1>1, <2>1, CoherentStays DEF TargetOK
<1>5. ASSUME NEW a \in Pub(t)', NEW b \in Pub(t)' PROVE Comparable(a, b)'
  BY <1>1 DEF TargetOK, Comparable, Below
<1>6. (row[t] # None => \A a \in Pub(t) : Below(a, row[t]))'
  BY <1>1 DEF TargetOK, Below
<1>7. (row[t] = None /\ Pub(t) # {} => Buried(t) /\ \A a \in Pub(t) : a.dead /\ a.acl = 0)'
  BY <1>1, <1>2 DEF TargetOK
<1>8. TargetOK(t)'
  BY <1>3, <1>4, <1>5, <1>6, <1>7 DEF TargetOK
<1>9. AllDead(t) => AllDead(t)'
  BY DEF AllDead
<1> QED
  BY <1>2, <1>8, <1>9

LEMMA PubFrame ==
  ASSUME SearchInv, NEW w \in Workers, Work(w), NEW t \in Targets,
         wk'[w].at # "put", doc'[t] \in Pub(t) \cup {doc[t], None}
  PROVE  Pub(t)' \subseteq Pub(t)
<1> SUFFICES ASSUME NEW a \in Pub(t)' PROVE a \in Pub(t)
  OBVIOUS
<1>1. a # None /\ (a = doc'[t] \/ \E x \in Workers : wk'[x].at = "put" /\ wk'[x].t = t /\ a = wk'[x].value)
  BY DEF Pub, InFlight
<1>2. CASE a = doc'[t]
  BY <1>1, <1>2 DEF Pub
<1>3. CASE \E x \in Workers : wk'[x].at = "put" /\ wk'[x].t = t /\ a = wk'[x].value
  <2>1. PICK x \in Workers : wk'[x].at = "put" /\ wk'[x].t = t /\ a = wk'[x].value
    BY <1>3
  <2>2. wk'[x] = wk[x]
    BY <2>1 DEF Work
  <2> QED
    BY <1>1, <2>1, <2>2 DEF Pub, InFlight
<1> QED
  BY <1>1, <1>2, <1>3

\* A step that writes and loads nothing.
LEMMA QuietIndex ==
  ASSUME SearchInv, NEW w \in Workers, Work(w), Fresh(w), row' = row, doc' = doc, wk'[w].at # "put"
  PROVE  IndexStep
<1>1. ASSUME NEW t \in Targets PROVE Grow(row[t], row'[t]) /\ Grow(doc[t], doc'[t])
  <2>1. row[t] \in Indexed \cup {None} /\ doc[t] \in Indexed \cup {None}
    BY DEF SearchInv, TypeInv
  <2> QED
    BY <2>1, GrowSelf
<1>2. ASSUME NEW t \in Targets \ raced'
      PROVE  /\ TargetOK(t)' /\ (Buried(t) => Buried(t)')
             /\ Buried(t) /\ AllDead(t) => AllDead(t)'
  <2>1. Pub(t)' \subseteq Pub(t)
    BY PubFrame
  <2>2. row'[t] = row[t]
    OBVIOUS
  <2> QED
    BY <2>1, <2>2, TargetFrame
<1> QED
  BY <1>1, <1>2 DEF IndexStep

\* Loading a row adds a request below it.
LEMMA LoadIndex ==
  ASSUME SearchInv, NEW w \in Workers, Load(w)
  PROVE  IndexStep
<1>0. /\ Work(w) /\ row' = row /\ doc' = doc /\ raced' = raced
      /\ wk'[w].at = "put" /\ wk'[w].value = row[wk[w].t] /\ wk'[w].t = wk[w].t
  BY LoadFacts
<1>1. ASSUME NEW t \in Targets PROVE Grow(row[t], row'[t]) /\ Grow(doc[t], doc'[t])
  <2>1. row[t] \in Indexed \cup {None} /\ doc[t] \in Indexed \cup {None}
    BY DEF SearchInv, TypeInv
  <2> QED
    BY <1>0, <2>1, GrowSelf
<1>2. Fresh(w)
  BY <1>0 DEF Fresh
<1>3. ASSUME NEW t \in Targets, NEW a \in Pub(t)' PROVE a \in Pub(t) \/ (a = row[t] /\ row[t] # None)
  <2>1. a # None /\ (a = doc[t] \/ \E x \in Workers : wk'[x].at = "put" /\ wk'[x].t = t /\ a = wk'[x].value)
    BY <1>0 DEF Pub, InFlight
  <2>2. CASE a = doc[t]
    BY <2>1, <2>2 DEF Pub
  <2>3. CASE \E x \in Workers : wk'[x].at = "put" /\ wk'[x].t = t /\ a = wk'[x].value
    <3>1. PICK x \in Workers : wk'[x].at = "put" /\ wk'[x].t = t /\ a = wk'[x].value
      BY <2>3
    <3>2. CASE x = w
      BY <1>0, <2>1, <3>1, <3>2
    <3>3. CASE x # w
      <4>1. wk'[x] = wk[x]
        BY <1>0, <3>3 DEF Work
      <4> QED
        BY <2>1, <3>1, <4>1 DEF Pub, InFlight
    <3> QED
      BY <3>2, <3>3
  <2> QED
    BY <2>1, <2>2, <2>3
<1>4. ASSUME NEW t \in Targets \ raced'
      PROVE  /\ TargetOK(t)' /\ (Buried(t) => Buried(t)')
             /\ Buried(t) /\ AllDead(t) => AllDead(t)'
  <2>0. TargetOK(t) /\ row'[t] = row[t] /\ row[t] \in Indexed \cup {None}
    BY <1>0 DEF SearchInv, TargetInv, TypeInv
  <2>1. CASE row[t] = None
    <3>1. Pub(t)' \subseteq Pub(t)
      BY <1>3, <2>1
    <3> QED
      BY <1>0, <1>2, <2>0, <3>1, TargetFrame
  <2>2. CASE row[t] # None
    <3>1. Buried(t) => Buried(t)' /\ row[t].dead
      BY <1>0, <2>0, <2>2 DEF Buried, Work
    <3>2. Coherent(row[t])'
      <4>1. Coherent(row[t]) /\ events' = events
        BY <1>0, <2>0, <2>2 DEF TargetOK, Work
      <4> QED
        BY <2>0, <4>1 DEF Coherent, Emissions
    <3>3. ASSUME NEW a \in Pub(t)' PROVE Coherent(a)' /\ Below(a, row[t])
      <4>1. CASE a \in Pub(t)
        <5>1. Coherent(a) /\ Below(a, row[t])
          BY <2>0, <2>2, <4>1 DEF TargetOK
        <5> QED
          BY <1>0, <5>1, CoherentStays
      <4>2. CASE a = row[t]
        <5>1. Below(a, row[t])
          BY <2>0, <2>2, <4>2 DEF Below, Indexed
        <5>2. Coherent(row[t])
          BY <2>0, <2>2 DEF TargetOK
        <5>3. Coherent(a)
          BY <5>2, <4>2
        <5> QED
          BY <1>0, <5>1, <5>3, CoherentStays
      <4> QED
        BY <1>3, <4>1, <4>2
    <3>4. ASSUME NEW a \in Pub(t)', NEW b \in Pub(t)' PROVE Comparable(a, b)
      <4>1. (a \in Pub(t) \/ a = row[t]) /\ (b \in Pub(t) \/ b = row[t])
        BY <1>3
      <4>2. Below(a, row[t]) /\ Below(b, row[t])
        BY <3>3
      <4> QED
        BY <2>0, <4>1, <4>2 DEF TargetOK, Comparable
    <3>5. TargetOK(t)'
      <4>1. (\A a, b \in Pub(t) : Comparable(a, b))'
        BY <3>4 DEF Comparable, Below
      <4>2. (\A a \in Pub(t) : Below(a, row[t]))'
        BY <2>0, <3>3 DEF Below
      <4> QED
        BY <2>0, <2>2, <3>2, <3>3, <4>1, <4>2 DEF TargetOK
    <3>6. Buried(t) /\ AllDead(t) => AllDead(t)'
      BY <1>3, <3>1 DEF AllDead
    <3> QED
      BY <3>1, <3>5, <3>6
  <2> QED
    BY <2>1, <2>2
<1> QED
  BY <1>1, <1>4 DEF IndexStep

\* A tombstone is the newest version.
LEMMA KnownDead ==
  ASSUME TypeInv, src.dead, NEW v \in Indexed, Known(v)
  PROVE  /\ v.dead <=> v.ver = src.ver
         /\ v.ver \in Nat /\ v.acl \in Nat
BY DEF TypeInv, Known, Indexed

LEMMA CoherentNewest ==
  ASSUME TypeInv, SourceInv, NEW v, v.ver = src.ver
  PROVE  Coherent(v)
BY DEF TypeInv, SourceInv, Coherent

\* Writing a row, or tombstoning all rows, keeps them ahead of what is published.
LEMMA ProjectIndex ==
  ASSUME SearchInv, NEW w \in Workers, Project(w)
  PROVE  IndexStep
<1>0. /\ Work(w) /\ doc' = doc /\ wk[w].at = "project" /\ wk'[w].at = "load"
      /\ \A t \in Targets : Grow(row[t], row'[t]) /\ (row'[t] # None => Known(row'[t]))
      /\ IF Deleting(w)
         THEN /\ src.dead /\ raced' = raced \cup Overtaken
              /\ \A t \in Targets : row'[t] = TombstoneRow(row[t], src.ver)
         ELSE /\ raced' = raced /\ wk[w].value \in Indexed
              /\ \A t \in Targets : row'[t] = IF t = wk[w].t THEN Upsert(row[t], wk[w].value) ELSE row[t]
  BY ProjectFacts
<1>1. Fresh(w) /\ TypeInv /\ SourceInv
  BY <1>0 DEF Fresh, SearchInv
<1>2. ASSUME NEW t \in Targets PROVE Grow(doc[t], doc'[t])
  <2>1. doc[t] \in Indexed \cup {None}
    BY DEF SearchInv, TypeInv
  <2> QED
    BY <1>0, <2>1, GrowSelf
<1>3. ASSUME NEW t \in Targets \ raced'
      PROVE  /\ TargetOK(t)' /\ (Buried(t) => Buried(t)')
             /\ Buried(t) /\ AllDead(t) => AllDead(t)'
  <2>0. /\ TargetOK(t) /\ row[t] \in Indexed \cup {None} /\ row'[t] \in Indexed \cup {None}
        /\ Grow(row[t], row'[t]) /\ (row'[t] # None => Known(row'[t])) /\ src' = src /\ t \in Targets
        /\ t \notin raced /\ events' = events
    BY <1>0 DEF SearchInv, TargetInv, TypeInv, Work
  <2>1. Pub(t)' \subseteq Pub(t)
    BY <1>0, PubFrame
  <2>2. row[t] = None /\ row'[t] # None =>
          ~Deleting(w) /\ t = wk[w].t /\ row'[t] = wk[w].value /\ wk[w].value # None /\ wk[w].value.ver > 0
    <3> SUFFICES ASSUME row[t] = None, row'[t] # None
                 PROVE  ~Deleting(w) /\ t = wk[w].t /\ row'[t] = wk[w].value /\ wk[w].value # None
                        /\ wk[w].value.ver > 0
      OBVIOUS
    <3>1. ~Deleting(w)
      BY <1>0 DEF TombstoneRow
    <3>2. t = wk[w].t /\ row'[t] = wk[w].value
      BY <1>0, <3>1 DEF Upsert, Accepts
    <3>3. wk[w].value # None /\ wk[w].value.ver >= 1 /\ wk[w].value \in Indexed
      BY <1>0, <3>1 DEF SearchInv, ShapeInv, Shape
    <3> QED
      BY <3>1, <3>2, <3>3 DEF Indexed
  <2>3. Buried(t) => Buried(t)' /\ (row'[t] # None => row'[t].dead)
    <3> SUFFICES ASSUME Buried(t) PROVE Buried(t)' /\ (row'[t] # None => row'[t].dead)
      OBVIOUS
    <3>1. CASE row[t] # None
      <4>1. row[t].dead /\ src.dead
        BY <3>1 DEF Buried
      <4>2. row'[t] # None /\ row'[t].dead
        BY <2>0, <3>1, <4>1 DEF Grow, Below
      <4> QED
        BY <2>0, <4>1, <4>2 DEF Buried
    <3>2. CASE row[t] = None /\ row'[t] = None
      <4>1. NoLive(t) /\ src.dead
        BY <3>2 DEF Buried
      <4>2. NoLive(t)'
        BY <1>0, <1>1, <2>0, <4>1, NoLiveStays
      <4> QED
        BY <2>0, <3>2, <4>1, <4>2 DEF Buried
    <3>3. CASE row[t] = None /\ row'[t] # None
      <4>1. NoLive(t) /\ src.dead
        BY <3>3 DEF Buried
      <4>2. wk[w].value.dead
        BY <1>0, <2>2, <3>3, <4>1 DEF NoLive
      <4>3. row'[t].dead
        BY <2>2, <3>3, <4>2
      <4> QED
        BY <2>0, <3>3, <4>1, <4>3 DEF Buried
    <3> QED
      BY <3>1, <3>2, <3>3
  <2>4. row'[t] # None => Coherent(row'[t])
    <3> SUFFICES ASSUME row'[t] # None PROVE Coherent(row'[t])
      OBVIOUS
    <3>1. CASE Deleting(w)
      <4>1. row[t] # None
        BY <2>2, <3>1
      <4>2. Known(row[t]) /\ src.dead
        BY <1>0, <2>0, <3>1, <4>1 DEF SearchInv, KnownInv
      <4>3. row'[t] = [ver |-> src.ver, acl |-> row[t].acl, dead |-> TRUE]
        BY <1>0, <1>1, <2>0, <3>1, <4>1, <4>2, TombstoneKnown
      <4>4. row'[t].ver = src.ver
        BY <4>3
      <4> QED
        BY <1>1, <4>4, CoherentNewest
    <3>2. CASE ~Deleting(w)
      <4>1. row'[t] = row[t] \/ (t = wk[w].t /\ row'[t] = wk[w].value)
        BY <1>0, <3>2 DEF Upsert
      <4>2. t = wk[w].t => Honest(w)
        BY <2>0 DEF SearchInv, HonestInv
      <4>3. CASE row'[t] = row[t]
        BY <2>0, <4>3 DEF TargetOK
      <4>4. CASE t = wk[w].t /\ row'[t] = wk[w].value
        BY <1>0, <4>2, <4>4 DEF Honest
      <4> QED
        BY <4>1, <4>3, <4>4
    <3> QED
      BY <3>1, <3>2
  <2>5. ASSUME NEW a \in Pub(t), row'[t] # None PROVE Below(a, row'[t])
    <3>0. a \in Indexed /\ Known(a) /\ row'[t] \in Indexed /\ Known(row'[t])
      BY <2>0, <2>5, PubType
    <3>1. CASE row[t] # None
      <4>1. Below(a, row[t]) /\ Below(row[t], row'[t]) /\ row[t] \in Indexed
        BY <2>0, <2>5, <3>1 DEF TargetOK, Grow
      <4> QED
        BY <3>0, <4>1 DEF Below, Indexed
    <3>2. CASE row[t] = None
      <4>1. Buried(t) /\ a.dead /\ a.acl = 0
        BY <2>0, <2>5, <3>2 DEF TargetOK
      <4>2. src.dead /\ row'[t].dead
        BY <2>3, <2>5, <4>1 DEF Buried
      <4>3. a.ver = src.ver /\ row'[t].ver = src.ver /\ row'[t].acl \in Nat /\ src.ver \in Nat
        BY <1>1, <3>0, <4>1, <4>2, KnownDead DEF TypeInv
      <4> QED
        BY <4>1, <4>2, <4>3 DEF Below
    <3> QED
      BY <3>1, <3>2
  <2>6. TargetOK(t)'
    <3>1. (row[t] # None => Coherent(row[t]))'
      BY <2>0, <2>4 DEF Coherent, Emissions
    <3>2. ASSUME NEW a \in Pub(t)' PROVE Coherent(a)'
      <4>1. Coherent(a)
        BY <2>0, <2>1 DEF TargetOK
      <4> QED
        BY <1>0, <4>1, CoherentStays
    <3>3. (\A a, b \in Pub(t) : Comparable(a, b))'
      BY <2>0, <2>1 DEF TargetOK, Comparable, Below
    <3>4. (row[t] # None => \A a \in Pub(t) : Below(a, row[t]))'
      BY <2>1, <2>5 DEF Below
    <3>5. (row[t] = None /\ Pub(t) # {} => Buried(t) /\ \A a \in Pub(t) : a.dead /\ a.acl = 0)'
      <4> SUFFICES ASSUME row'[t] = None, Pub(t)' # {} PROVE (Buried(t) /\ \A a \in Pub(t) : a.dead /\ a.acl = 0)'
        OBVIOUS
      <4>1. row[t] = None /\ Pub(t) # {}
        BY <2>0, <2>1 DEF Grow
      <4> QED
        BY <2>0, <2>1, <2>3, <4>1 DEF TargetOK
    <3> QED
      BY <3>1, <3>2, <3>3, <3>4, <3>5 DEF TargetOK
  <2>7. AllDead(t) => AllDead(t)'
    BY <2>1 DEF AllDead
  <2> QED
    BY <2>3, <2>6, <2>7
<1> QED
  BY <1>0, <1>2, <1>3 DEF IndexStep

\* A publication replaces the document by something of the same chain.
LEMMA PutIndex ==
  ASSUME SearchInv, NEW w \in Workers, Work(w), Fresh(w), DocMoves(w), row' = row, raced' = raced,
         wk[w].at = "put", wk'[w].at # "put"
  PROVE  IndexStep
<1>0. TypeInv /\ SourceInv /\ wk[w].t \in Targets /\ wk[w].value \in Indexed \cup {None}
  BY DEF SearchInv, TypeInv, Handling
<1>1. ASSUME NEW t \in Targets PROVE Grow(row[t], row'[t]) /\ Grow(doc[t], doc'[t])
  <2>1. row[t] \in Indexed \cup {None} /\ Grow(doc[t], doc'[t])
    BY <1>0 DEF TypeInv, DocMoves
  <2> QED
    BY <2>1, GrowSelf
<1>2. ASSUME NEW t \in Targets \ raced'
      PROVE  /\ TargetOK(t)' /\ (Buried(t) => Buried(t)')
             /\ Buried(t) /\ AllDead(t) => AllDead(t)'
  <2>0. TargetOK(t) /\ row'[t] = row[t] /\ row[t] \in Indexed \cup {None} /\ doc[t] \in Indexed \cup {None}
        /\ (row[t] # None => Known(row[t])) /\ (doc[t] # None => Known(doc[t]))
    BY <1>0 DEF SearchInv, TargetInv, TypeInv, KnownInv
  <2>1. CASE doc'[t] \in Pub(t) \cup {doc[t], None}
    <3>1. Pub(t)' \subseteq Pub(t)
      BY <2>1, PubFrame
    <3> QED
      BY <2>0, <3>1, TargetFrame
  <2>2. CASE doc'[t] \notin Pub(t) \cup {doc[t], None}
    <3>1. t = wk[w].t /\ doc'[t] = Published(w)
      BY <2>2 DEF DocMoves
    <3>2. wk[w].value = None
      <4> SUFFICES ASSUME wk[w].value # None PROVE FALSE
        OBVIOUS
      <4>1. Published(w) = Upsert(doc[t], wk[w].value)
        BY <3>1, PublishedFacts
      <4>2. Published(w) \in {doc[t], wk[w].value}
        BY <4>1 DEF Upsert
      <4>3. wk[w].value \in Pub(t)
        BY <3>1 DEF Pub, InFlight
      <4> QED
        BY <2>2, <3>1, <4>2, <4>3
    <3>3. Deleting(w) /\ AllDead(t) /\ Buried(t)
      BY <3>1, <3>2 DEF SearchInv, HonestInv, Honest, AllDead
    <3>4. src.dead /\ doc'[t] = TombstoneDoc(doc[t], src.ver)
      BY <3>1, <3>2, <3>3, PublishedFacts
    <3>5. doc[t] = None
      <4> SUFFICES ASSUME doc[t] # None PROVE FALSE
        OBVIOUS
      <4>1. doc[t] \in Pub(t)
        BY DEF Pub
      <4>2. doc[t].dead /\ doc[t] \in Indexed /\ Known(doc[t])
        BY <2>0, <3>3, <4>1 DEF AllDead
      <4>3. doc[t].ver = src.ver /\ doc[t].dead = TRUE
        BY <1>0, <3>4, <4>2, KnownDead DEF Indexed
      <4>4. doc'[t] = [doc[t] EXCEPT !.ver = src.ver, !.dead = TRUE]
        BY <1>0, <3>4, <4>3 DEF TombstoneDoc, TombstoneRow, TypeInv
      <4>5. doc'[t] = doc[t]
        BY <4>2, <4>3, <4>4 DEF Indexed
      <4> QED
        BY <2>2, <4>5
    <3> DEFINE z == [ver |-> src.ver, acl |-> 0, dead |-> TRUE]
    <3>6. doc'[t] = z
      BY <3>4, <3>5 DEF TombstoneDoc
    <3>7. z.ver = src.ver /\ z.acl = 0 /\ z.dead /\ src.ver \in Nat
      BY <1>0 DEF TypeInv
    <3> HIDE DEF z
    <3>8. ASSUME NEW a \in Pub(t)' PROVE a \in Pub(t) \/ a = z
      <4>1. a # None /\ (a = doc'[t] \/ \E x \in Workers : wk'[x].at = "put" /\ wk'[x].t = t /\ a = wk'[x].value)
        BY DEF Pub, InFlight
      <4>2. CASE \E x \in Workers : wk'[x].at = "put" /\ wk'[x].t = t /\ a = wk'[x].value
        <5>1. PICK x \in Workers : wk'[x].at = "put" /\ wk'[x].t = t /\ a = wk'[x].value
          BY <4>2
        <5>2. wk'[x] = wk[x]
          BY <5>1 DEF Work
        <5> QED
          BY <4>1, <5>1, <5>2 DEF Pub, InFlight
      <4> QED
        BY <3>6, <4>1, <4>2
    <3>9. Buried(t)'
      <4>1. src' = src
        BY DEF Work
      <4> QED
        BY <2>0, <3>3, <4>1, NoLiveStays DEF Buried
    <3>10. ASSUME NEW a \in Pub(t) PROVE Below(z, a)
      <4>1. a \in Indexed /\ Known(a) /\ a.dead
        BY <3>3, PubType DEF AllDead
      <4>2. a.ver = src.ver /\ a.acl \in Nat
        BY <1>0, <3>4, <4>1, KnownDead
      <4> QED
        BY <3>7, <4>1, <4>2 DEF Below
    <3>11. row[t] # None => Below(z, row[t])
      <4> SUFFICES ASSUME row[t] # None PROVE Below(z, row[t])
        OBVIOUS
      <4>1. row[t] \in Indexed /\ Known(row[t]) /\ row[t].dead
        BY <2>0, <3>3 DEF Buried
      <4>2. row[t].ver = src.ver /\ row[t].acl \in Nat
        BY <1>0, <3>4, <4>1, KnownDead
      <4> QED
        BY <3>7, <4>1, <4>2 DEF Below
    <3>12. Below(z, z)
      BY <3>7 DEF Below
    <3>13. TargetOK(t)'
      <4>1. (row[t] # None => Coherent(row[t]))'
        <5>1. events' = events /\ (row[t] # None => Coherent(row[t]))
          BY <2>0 DEF Work, TargetOK
        <5> QED
          BY <2>0, <5>1 DEF Coherent, Emissions
      <4>2. ASSUME NEW a \in Pub(t)' PROVE Coherent(a)'
        <5>1. CASE a \in Pub(t)
          <6>1. Coherent(a)
            BY <2>0, <5>1 DEF TargetOK
          <6> QED
            BY <6>1, CoherentStays
        <5>2. CASE a = z
          <6>1. a.ver = src.ver
            BY <3>7, <5>2
          <6>2. Coherent(a)
            BY <1>0, <6>1, CoherentNewest
          <6> QED
            BY <6>2, CoherentStays
        <5> QED
          BY <3>8, <5>1, <5>2
      <4>3. (\A a, b \in Pub(t) : Comparable(a, b))'
        <5> SUFFICES ASSUME NEW a \in Pub(t)', NEW b \in Pub(t)' PROVE Comparable(a, b)
          BY DEF Comparable, Below
        <5>1. (a \in Pub(t) \/ a = z) /\ (b \in Pub(t) \/ b = z)
          BY <3>8
        <5> QED
          BY <2>0, <3>10, <3>12, <5>1 DEF TargetOK, Comparable
      <4>4. (row[t] # None => \A a \in Pub(t) : Below(a, row[t]))'
        BY <2>0, <3>8, <3>11 DEF TargetOK, Below
      <4>5. (row[t] = None /\ Pub(t) # {} => Buried(t) /\ \A a \in Pub(t) : a.dead /\ a.acl = 0)'
        BY <2>0, <3>7, <3>8, <3>9 DEF TargetOK
      <4> QED
        BY <4>1, <4>2, <4>3, <4>4, <4>5 DEF TargetOK
    <3>14. AllDead(t)'
      BY <3>3, <3>7, <3>8 DEF AllDead
    <3> QED
      BY <3>9, <3>13, <3>14
  <2> QED
    BY <2>1, <2>2
<1> QED
  BY <1>1, <1>2 DEF IndexStep

-----------------------------------------------------------------------------
(* What a worker's step leaves of the claims about the others. *)

LEMMA DocCovers ==
  ASSUME SearchInv, NEW w, Work(w), IndexStep, NEW t \in Targets, NEW e \in Emissions,
         Covers(doc[t], events[e])
  PROVE  Covers(doc'[t], events[e])
<1>1. doc[t] \in Indexed \cup {None} /\ doc'[t] \in Indexed \cup {None} /\ events[e] \in Emitted
  BY DEF SearchInv, Work, TypeInv, Emissions
<1> QED
  BY <1>1, CoversGrow DEF IndexStep

LEMMA RowCovers ==
  ASSUME SearchInv, NEW w, Work(w), IndexStep, NEW t \in Targets, NEW e \in Emissions,
         Covers(row[t], events[e])
  PROVE  Covers(row'[t], events[e])
<1>1. row[t] \in Indexed \cup {None} /\ row'[t] \in Indexed \cup {None} /\ events[e] \in Emitted
  BY DEF SearchInv, Work, TypeInv, Emissions
<1> QED
  BY <1>1, CoversGrow DEF IndexStep

\* What a worker will publish goes on containing an event while others work.
LEMMA ReflectsStays ==
  ASSUME SearchInv, NEW w \in Workers, Work(w), IndexStep, NEW x \in Workers, x # w,
         NEW e \in Emissions, Reflects(x, events[e])
  PROVE  Reflects(x, events[e])'
<1>1. wk'[x] = wk[x] /\ events' = events /\ wk[x].t \in Targets
  BY DEF Work, SearchInv, TypeInv, Handling
<1>2. Covers(doc[wk[x].t], events[e]) => Covers(doc'[wk[x].t], events[e])
  BY <1>1, DocCovers
<1>3. Covers(row[wk[x].t], events[e]) => Covers(row'[wk[x].t], events[e])
  BY <1>1, RowCovers
<1> QED
  BY <1>1, <1>2, <1>3 DEF Reflects, Covers, Brings

\* Another worker's step leaves a worker honest.
LEMMA HonestFrame ==
  ASSUME SearchInv, NEW w \in Workers, Work(w), IndexStep, NEW x \in Workers, x # w, wk[x].t \notin raced'
  PROVE  Honest(x)'
<1>0. /\ wk'[x] = wk[x] /\ events' = events /\ wk[x].t \in Targets /\ raced \subseteq raced'
      /\ wk[x].ev # 0 => wk[x].ev \in Emissions /\ Event(x) = events[wk[x].ev]
  BY EventOf DEF Work, SearchInv
<1>1. Honest(x)
  BY <1>0 DEF SearchInv, HonestInv
<1>2. PICK t \in Targets \ raced' : t = wk[x].t
  BY <1>0
<1>3. /\ Buried(t) => Buried(t)'
      /\ Buried(t) /\ AllDead(t) => AllDead(t)'
      /\ Grow(row[t], row'[t])
  BY <1>2 DEF IndexStep
<1>4. Deleting(x)' = Deleting(x) /\ Event(x)' = Event(x)
  BY <1>0 DEF Deleting, Event
<1>5. (wk[x].at = "project" /\ wk[x].value # None => Coherent(wk[x].value))'
  BY <1>0, <1>1 DEF Honest, Coherent, Emissions
<1>6. (wk[x].at = "load" /\ ~Deleting(x) => row[wk[x].t] # None)'
  BY <1>0, <1>1, <1>2, <1>3, <1>4 DEF Honest, Grow
<1>7. wk[x].at = "put" /\ wk[x].value = None => Deleting(x) /\ AllDead(t)'
  BY <1>1, <1>2, <1>3 DEF Honest, AllDead
<1>8. (wk[x].at = "put" /\ wk[x].value = None => Deleting(x) /\ \A a \in Pub(wk[x].t) : a.dead)'
  <2>1. Pub(t)' = Pub(wk[x].t)'
    BY <1>0, <1>2 DEF Pub, InFlight
  <2> QED
    BY <1>0, <1>4, <1>7, <2>1 DEF AllDead
<1>9. (wk[x].at \in {"load", "put"} /\ Deleting(x) => Buried(wk[x].t))'
  <2>1. Buried(t)' => Buried(wk[x].t)'
    BY <1>0, <1>2 DEF Buried, NoLive
  <2> QED
    BY <1>0, <1>1, <1>2, <1>3, <1>4, <2>1 DEF Honest
<1>10. ( /\ wk[x].at \in {"load", "put", "settle", "ack"} /\ wk[x].ev # 0
         /\ wk[x].at = "load" => ~Deleting(x)
         /\ wk[x].at = "put" => wk[x].value # None
         => Reflects(x, Event(x)) )'
  <2> SUFFICES ASSUME wk[x].at \in {"load", "put", "settle", "ack"}, wk[x].ev # 0,
                      wk[x].at = "load" => ~Deleting(x), wk[x].at = "put" => wk[x].value # None
               PROVE  Reflects(x, Event(x))'
    BY <1>0, <1>4
  <2>1. PICK e \in Emissions : e = wk[x].ev
    BY <1>0
  <2>2. Reflects(x, events[e])
    BY <1>0, <1>1, <2>1 DEF Honest
  <2>3. Reflects(x, events[e])'
    BY <2>2, ReflectsStays
  <2> QED
    BY <1>0, <2>1, <2>3 DEF Event
<1> QED
  BY <1>5, <1>6, <1>8, <1>9, <1>10 DEF Honest

\* No generation that gets events loses one.
KeepStep ==
  \A t \in (Live \cup {1}) \ raced' : \A e \in Emissions : Kept(t, e) => Kept(t, e)'

\* A generation keeps an event when the step reports no success without it and
\* does not drop the generation from the list.
LEMMA KeepFrame ==
  ASSUME SearchInv, NEW w \in Workers, Work(w), IndexStep, NEW t \in Targets, NEW e \in Emissions, Kept(t, e),
         ended[e] # "done" /\ ended'[e] = "done" => Covers(doc'[t], events[e]),
         Owed(t, e) /\ wk'[w].at # "idle" /\ wk'[w].ev = e =>
           t \in wk'[w].todo \/ wk'[w].failed # "no" \/ Covers(doc'[t], events[e])
  PROVE  Kept(t, e)'
<1>0. events' = events /\ \A x \in Workers : x # w => wk'[x] = wk[x]
  BY DEF Work
<1>1. CASE Covers(doc'[t], events[e])
  BY <1>0, <1>1 DEF Kept, Covers
<1>2. CASE ~Covers(doc'[t], events[e])
  <2>1. ~Covers(doc[t], events[e])
    BY <1>2, DocCovers
  <2>2. Owed(t, e)
    BY <2>1 DEF Kept
  <2>3. ended'[e] # "done"
    BY <1>2, <2>2 DEF Owed
  <2>4. ASSUME NEW x \in Workers, wk'[x].at # "idle", wk'[x].ev = e
        PROVE  t \in wk'[x].todo \/ wk'[x].failed # "no"
    <3>1. CASE x = w
      BY <1>2, <2>2, <2>4, <3>1
    <3>2. CASE x # w
      BY <1>0, <1>2, <2>2, <2>4, <3>2 DEF Owed
    <3> QED
      BY <3>1, <3>2
  <2> QED
    BY <2>3, <2>4 DEF Kept, Owed
<1> QED
  BY <1>1, <1>2

\* Going on to the next target drops a target only once it has the event, or
\* with a failure.
LEMMA OnwardKeeps ==
  ASSUME SearchInv, NEW w \in Workers, Work(w), IndexStep, NEW t \in Targets, NEW e \in Emissions, Kept(t, e),
         NEW f \in {"no", "retry", "skip"}, MovesOn(w, wk[w].todo \ {wk[w].t}, f),
         wk[w].at # "idle", wk[w].ev \in Nums, wk[w].failed # "no" => f # "no",
         t = wk[w].t /\ e = wk[w].ev => Covers(doc'[t], events[e]) \/ f # "no"
  PROVE  Kept(t, e)'
<1>0. e \in Nums
  BY SearchAssumption DEF SearchInv, SourceInv, TypeInv, Emissions, Nums
<1>1. CASE e # wk[w].ev
  <2>1. ended'[e] = ended[e] /\ (wk'[w].at # "idle" => wk'[w].ev # e)
    BY <1>0, <1>1 DEF MovesOn
  <2> QED
    BY <2>1, KeepFrame
<1>2. CASE e = wk[w].ev /\ Covers(doc'[t], events[e])
  BY <1>2 DEF Work, Kept, Covers
<1>3. CASE e = wk[w].ev /\ ~Covers(doc'[t], events[e])
  <2>1. ~Covers(doc[t], events[e]) /\ Owed(t, e)
    BY <1>3, DocCovers DEF Kept
  <2>2. t \in wk[w].todo \/ wk[w].failed # "no"
    BY <1>3, <2>1 DEF Owed
  <2>3. t \in wk[w].todo \ {wk[w].t} \/ f # "no"
    BY <1>3, <2>2
  <2>4. ended[e] # "done" /\ ended'[e] # "done"
    BY <1>3, <2>1, <2>3 DEF MovesOn, Owed
  <2>5. wk'[w].at # "idle" => t \in wk'[w].todo \/ wk'[w].failed # "no"
    BY <2>3 DEF MovesOn
  <2> QED
    BY <2>4, <2>5, KeepFrame
<1> QED
  BY <1>1, <1>2, <1>3

\* SnapshotInv, of one worker.
SnapshotOK(w) ==
  \A e \in Emissions :
    wk[w].ev = 0 /\ wk[w].at \in {"acl", "project", "load", "put", "settle"}
      /\ wk[w].t \in Building \ raced =>
        Kept(wk[w].t, e) \/ Reflects(w, events[e])

\* A served generation is on the list of every handler that starts.
LEMMA LiveTargets ==
  ASSUME SearchInv
  PROVE  /\ Served \subseteq Live \cup {1} /\ Live \cup {1} \subseteq Targets
         /\ Building \subseteq Live
<1>1. gen \in [Targets -> States] /\ scanned \subseteq Targets /\ 1 \in Targets
      /\ \A t \in scanned : gen[t] # "absent"
  BY SearchAssumption DEF SearchInv, TypeInv, BookInv
<1> QED
  BY <1>1 DEF Served, Live, Building, States

\* The rest of the invariant, from what a step does to its worker, to the index
\* and to the events.
LEMMA RestFrame ==
  ASSUME SearchInv, NEW w \in Workers, Work(w), IndexStep, KeepStep, GenMoves,
         wk'[w].t \notin raced' => Honest(w)', SnapshotOK(w)', ServedInv',
         \A e \in Emissions : \A t \in Targets \ raced' :
           chk'[<<e, t>>] = "indexed" \/ <<e, t>> \in acked' =>
             chk[<<e, t>>] = "indexed" \/ <<e, t>> \in acked \/ Covers(doc'[t], events[e])
  PROVE  TargetInv' /\ HonestInv' /\ AckedInv' /\ ServedInv' /\ SnapshotInv'
<1>0. events' = events /\ Emissions' = Emissions /\ raced \subseteq raced'
      /\ \A x \in Workers : x # w => wk'[x] = wk[x]
  BY DEF Work, Emissions
<1>1. TargetInv'
  BY DEF IndexStep, TargetInv
<1>2. HonestInv'
  <2> SUFFICES ASSUME NEW x \in Workers, wk'[x].t \notin raced' PROVE Honest(x)'
    BY DEF HonestInv
  <2>1. CASE x = w
    BY <2>1
  <2>2. CASE x # w
    BY <1>0, <2>2, HonestFrame
  <2> QED
    BY <2>1, <2>2
<1>3. AckedInv'
  <2> SUFFICES ASSUME NEW e \in Emissions, NEW t \in Targets \ raced',
                      chk'[<<e, t>>] = "indexed" \/ <<e, t>> \in acked'
               PROVE  Covers(doc'[t], events[e])
    BY <1>0 DEF AckedInv, Covers
  <2>1. CASE Covers(doc'[t], events[e])
    BY <2>1
  <2>2. CASE chk[<<e, t>>] = "indexed" \/ <<e, t>> \in acked
    <3>1. Covers(doc[t], events[e])
      BY <1>0, <2>2 DEF SearchInv, AckedInv
    <3> QED
      BY <3>1, DocCovers
  <2> QED
    BY <2>1, <2>2
<1>4. SnapshotInv'
  <2> SUFFICES ASSUME NEW x \in Workers PROVE SnapshotOK(x)'
    BY DEF SnapshotInv, SnapshotOK
  <2>1. CASE x = w
    BY <2>1
  <2>2. CASE x # w
    <3>0. wk'[x] = wk[x] /\ wk[x].t \in Targets
      BY <1>0, <2>2 DEF SearchInv, TypeInv, Handling
    <3> SUFFICES ASSUME NEW e \in Emissions, wk[x].ev = 0,
                        wk[x].at \in {"acl", "project", "load", "put", "settle"},
                        wk[x].t \in Building' \ raced'
                 PROVE  (Kept(wk[x].t, e) \/ Reflects(x, events[e]))'
      BY <1>0, <3>0 DEF SnapshotOK
    <3>1. PICK t \in Targets : t = wk[x].t
      BY <3>0
    <3>2. t \in Building
      <4>1. gen[t] # "absent"
        BY <3>1 DEF SearchInv, BookInv
      <4>2. gen'[t] \in {"building", "stalled"}
        BY <3>1 DEF Building
      <4> QED
        BY <4>1, <4>2 DEF GenMoves, Building
    <3>3. Kept(t, e) \/ Reflects(x, events[e])
      BY <1>0, <3>1, <3>2 DEF SearchInv, SnapshotInv
    <3>4. CASE Kept(t, e)
      <4>1. Kept(t, e)'
        BY <3>1, <3>2, <3>4, LiveTargets DEF KeepStep
      <4> QED
        BY <3>0, <3>1, <4>1 DEF Kept, Owed
    <3>5. CASE Reflects(x, events[e])
      BY <2>2, <3>5, ReflectsStays
    <3> QED
      BY <3>3, <3>4, <3>5
  <2> QED
    BY <2>1, <2>2
<1> QED
  BY <1>1, <1>2, <1>3, <1>4

\* A step that leaves the generations alone.
LEMMA ServedFrame ==
  ASSUME SearchInv, NEW w \in Workers, Work(w), KeepStep, UNCHANGED <<gen, scanned>>
  PROVE  ServedInv' /\ GenMoves
<1>1. Served' = Served /\ raced \subseteq raced' /\ Emissions' = Emissions /\ gen \in [Targets -> States]
  BY DEF Served, Work, Emissions, SearchInv, TypeInv
<1>2. GenMoves
  BY <1>1 DEF GenMoves
<1> QED
  BY <1>1, <1>2, LiveTargets DEF ServedInv, SearchInv, KeepStep

-----------------------------------------------------------------------------
(* The steps of the workers. *)

LEMMA EmissionType ==
  ASSUME SearchInv, NEW e \in Emissions
  PROVE  /\ events[e] \in Emitted /\ events[e].ver \in Nat /\ events[e].acl \in Nat
         /\ events[e].ver <= src.ver /\ events[e].acl <= acl /\ src.ver \in Nat /\ acl \in Nat
<1>1. events[e] \in Emitted
  BY DEF SearchInv, TypeInv, Emissions
<1> QED
  BY <1>1 DEF SearchInv, SourceInv, TypeInv, Emitted

LEMMA HonestIdle ==
  ASSUME NEW w, wk'[w].at \in {"idle", "check", "source", "acl"}
  PROVE  Honest(w)'
BY DEF Honest

LEMMA SnapshotIdle ==
  ASSUME NEW w, wk'[w].ev # 0 \/ wk'[w].at \in {"idle", "check", "source", "ack"}
  PROVE  SnapshotOK(w)'
BY DEF SnapshotOK

\* A worker that keeps its event and its list drops nothing.
LEMMA SameJobKeeps ==
  ASSUME SearchInv, NEW w \in Workers, Work(w), IndexStep, ended' = ended,
         \/ wk'[w].at = "idle" \/ wk'[w].ev = 0
         \/ /\ wk[w].at # "idle" /\ wk'[w].ev = wk[w].ev /\ wk'[w].todo = wk[w].todo
            /\ wk'[w].failed = wk[w].failed
  PROVE  KeepStep
<1> SUFFICES ASSUME NEW t \in (Live \cup {1}) \ raced', NEW e \in Emissions, Kept(t, e)
             PROVE  Kept(t, e)'
  BY DEF KeepStep
<1>1. t \in Targets \ raced' /\ e # 0
  BY LiveTargets DEF Emissions
<1>2. Owed(t, e) /\ wk'[w].at # "idle" /\ wk'[w].ev = e =>
        t \in wk'[w].todo \/ wk'[w].failed # "no" \/ Covers(doc'[t], events[e])
  BY <1>1 DEF Owed
<1> QED
  BY <1>1, <1>2, KeepFrame

\* The list a handler starts with names every served generation.
LEMMA ReceiveStep ==
  ASSUME SearchInv, NEW w \in Workers, NEW e \in Nums, Receive(w, e)
  PROVE  SearchInv'
<1>1. /\ Work(w) /\ BookInv' /\ Shape(w)'
      /\ UNCHANGED <<row, doc, raced, gen, scanned, chk, acked, ended>>
      /\ wk[w].at = "idle" /\ e \in Emissions /\ ended[e] = "open"
      /\ wk'[w].at = "check" /\ wk'[w].ev = e /\ wk'[w].todo = Live \cup {1} /\ wk'[w].value = None
  BY ReceiveFacts
<1>2. IndexStep
  BY <1>1, QuietIndex DEF Fresh
<1>3. KeepStep
  <2> SUFFICES ASSUME NEW t \in (Live \cup {1}) \ raced', NEW i \in Emissions, Kept(t, i)
               PROVE  Kept(t, i)'
    BY DEF KeepStep
  <2>1. t \in Targets
    BY LiveTargets
  <2> QED
    BY <1>1, <1>2, <2>1, KeepFrame
<1>4. Honest(w)' /\ SnapshotOK(w)' /\ ServedInv' /\ GenMoves
  <2>1. e # 0
    BY DEF Nums
  <2> QED
    BY <1>1, <1>3, <2>1, HonestIdle, SnapshotIdle, ServedFrame
<1>5. TypeInv' /\ SourceInv' /\ BookInv' /\ KnownInv' /\ ShapeInv'
  BY <1>1, WorkBooks
<1>6. TargetInv' /\ HonestInv' /\ AckedInv' /\ ServedInv' /\ SnapshotInv'
  BY <1>1, <1>2, <1>3, <1>4, RestFrame
<1> QED
  BY <1>5, <1>6 DEF SearchInv

LEMMA CheckStep ==
  ASSUME SearchInv, NEW w \in Workers, Check(w)
  PROVE  SearchInv'
<1>0. /\ wk[w].ev \in Emissions /\ wk[w].ev \in Nums /\ wk[w].t \in Targets /\ Event(w) = events[wk[w].ev]
      /\ wk[w].failed \in {"no", "retry", "skip"} /\ wk[w].at = "check" /\ wk[w].ev # 0
  BY CheckFacts, EventOf DEF SearchInv, Handling
<1>1. /\ Work(w) /\ BookInv' /\ Shape(w)'
      /\ UNCHANGED <<row, doc, raced, gen, scanned, chk, acked>>
      /\ wk'[w].value = None
  BY CheckFacts
<1>2. wk'[w].at # "put" /\ Fresh(w)
  <2>1. wk'[w].at # "put"
    BY CheckFacts DEF MovesOn
  <2> QED
    BY <1>1, <2>1 DEF Fresh
<1>3. IndexStep
  BY <1>1, <1>2, QuietIndex
<1>4. CASE <<wk[w].ev, wk[w].t>> \in acked /\ MovesOn(w, wk[w].todo \ {wk[w].t}, wk[w].failed)
  <2>1. KeepStep
    <3> SUFFICES ASSUME NEW t \in (Live \cup {1}) \ raced', NEW i \in Emissions, Kept(t, i)
                 PROVE  Kept(t, i)'
      BY DEF KeepStep
    <3>1. t \in Targets
      BY LiveTargets
    <3>2. t = wk[w].t /\ i = wk[w].ev => Covers(doc'[t], events[i])
      BY <1>1, <1>4, <3>1 DEF SearchInv, AckedInv
    <3> QED
      BY <1>0, <1>1, <1>3, <1>4, <3>1, <3>2, OnwardKeeps
  <2>2. Honest(w)' /\ SnapshotOK(w)'
    BY <1>4, HonestIdle, SnapshotIdle DEF MovesOn
  <2>3. ServedInv' /\ GenMoves
    BY <1>1, <2>1, ServedFrame
  <2> QED
    BY <1>1, <1>3, <2>1, <2>2, <2>3, WorkBooks, RestFrame DEF SearchInv
<1>5. CASE /\ ended' = ended /\ wk'[w].ev = wk[w].ev /\ wk'[w].t = wk[w].t
           /\ wk'[w].todo = wk[w].todo /\ wk'[w].failed = wk[w].failed
           /\ wk'[w].at \in {"ack", "project", "acl", "source"}
           /\ wk'[w].at = "ack" => chk[<<wk[w].ev, wk[w].t>>] = "indexed"
           /\ wk'[w].at = "project" => Deleting(w)
           /\ wk'[w].at = "acl" => EpochFirst(w)
  <2>1. KeepStep
    BY <1>0, <1>1, <1>3, <1>5, SameJobKeeps
  <2>2. ServedInv' /\ GenMoves
    BY <1>1, <2>1, ServedFrame
  <2>3. SnapshotOK(w)'
    BY <1>0, <1>5, SnapshotIdle
  <2>4. wk'[w].t \notin raced' => Honest(w)'
    <3> SUFFICES ASSUME wk'[w].t \notin raced' PROVE Honest(w)'
      OBVIOUS
    <3>1. CASE wk'[w].at = "ack"
      <4>1. Covers(doc[wk[w].t], events[wk[w].ev])
        BY <1>0, <1>1, <1>5, <3>1 DEF SearchInv, AckedInv
      <4>2. Reflects(w, Event(w))'
        BY <1>1, <1>5, <3>1, <4>1 DEF Reflects, Covers, Event, Work
      <4> QED
        BY <3>1, <4>2 DEF Honest
    <3>2. CASE wk'[w].at = "project"
      BY <1>1, <3>2 DEF Honest
    <3>3. CASE wk'[w].at \in {"acl", "source"}
      BY <3>3, HonestIdle
    <3> QED
      BY <1>5, <3>1, <3>2, <3>3
  <2> QED
    BY <1>1, <1>3, <2>1, <2>2, <2>3, <2>4, WorkBooks, RestFrame DEF SearchInv
<1> QED
  BY <1>4, <1>5, CheckFacts

\* What is read now is as new as every event so far.
LEMMA ReadSourceStep ==
  ASSUME SearchInv, NEW w \in Workers, ReadSource(w)
  PROVE  SearchInv'
<1>1. /\ Work(w) /\ BookInv' /\ Shape(w)' /\ Known(wk'[w].value)
      /\ UNCHANGED <<row, doc, raced, gen, scanned, chk, acked, ended>>
      /\ wk[w].at = "source" /\ wk'[w].at \in {"acl", "project"}
      /\ wk'[w].ev = wk[w].ev /\ wk'[w].t = wk[w].t /\ wk'[w].todo = wk[w].todo
      /\ wk'[w].failed = wk[w].failed /\ wk'[w].value \in Indexed
      /\ wk'[w].value.ver = src.ver /\ wk'[w].value.dead = src.dead
      /\ wk'[w].at = "project" => wk[w].ev # 0
  BY ReadSourceFacts
<1>2. Fresh(w)
  BY <1>1 DEF Fresh
<1>3. IndexStep
  BY <1>1, <1>2, QuietIndex
<1>4. KeepStep
  BY <1>1, <1>3, SameJobKeeps
<1>5. ServedInv' /\ GenMoves
  BY <1>1, <1>4, ServedFrame
<1>6. Coherent(wk'[w].value)
  BY <1>1, CoherentNewest DEF SearchInv
<1>7. Honest(w)'
  <2>1. Coherent(wk[w].value)'
    BY <1>1, <1>6 DEF Coherent, Work, Emissions
  <2> QED
    BY <1>1, <2>1 DEF Honest
<1>8. SnapshotOK(w)'
  <2>1. CASE wk'[w].at = "project"
    BY <1>1, <2>1, SnapshotIdle
  <2>2. CASE wk'[w].at = "acl"
    <3>1. ASSUME NEW e \in Emissions' PROVE Reflects(w, events[e])'
      <4>1. events'[e].ver <= src.ver /\ events'[e].ver \in Nat /\ src.ver \in Nat
        BY <1>1, EmissionType DEF Work, Emissions
      <4> QED
        BY <1>1, <2>2, <4>1 DEF Reflects
    <3> QED
      BY <3>1 DEF SnapshotOK
  <2> QED
    BY <1>1, <2>1, <2>2
<1> QED
  BY <1>1, <1>3, <1>4, <1>5, <1>7, <1>8, WorkBooks, RestFrame DEF SearchInv

\* The epoch read now is the newest; a torn read marks the generation.
LEMMA ReadACLStep ==
  ASSUME SearchInv, NEW w \in Workers, ReadACL(w)
  PROVE  SearchInv'
<1>1. /\ Work(w) /\ BookInv' /\ Shape(w)' /\ Known(wk'[w].value)
      /\ UNCHANGED <<row, doc, gen, scanned, chk, acked, ended>>
      /\ wk[w].at = "acl"
      /\ wk'[w].ev = wk[w].ev /\ wk'[w].t = wk[w].t /\ wk'[w].todo = wk[w].todo
      /\ wk'[w].failed = wk[w].failed /\ wk'[w].value \in Indexed
      /\ IF EpochFirst(w) THEN wk'[w].at = "source"
         ELSE /\ wk'[w].at = "project" /\ wk[w].value # None
              /\ wk'[w].value.ver = wk[w].value.ver /\ wk'[w].value.dead = wk[w].value.dead
              /\ wk'[w].value.acl = acl
              /\ wk'[w].t \notin raced' => wk[w].value.ver = src.ver
  BY ReadACLFacts
<1>2. Fresh(w) /\ wk'[w].at # "put"
  BY <1>1 DEF Fresh
<1>3. IndexStep
  BY <1>1, <1>2, QuietIndex
<1>4. KeepStep
  BY <1>1, <1>3, SameJobKeeps
<1>5. ServedInv' /\ GenMoves
  BY <1>1, <1>4, ServedFrame
<1>6. wk'[w].t \notin raced' => Honest(w)'
  <2> SUFFICES ASSUME wk'[w].t \notin raced' PROVE Honest(w)'
    OBVIOUS
  <2>1. CASE EpochFirst(w)
    BY <1>1, <2>1, HonestIdle
  <2>2. CASE ~EpochFirst(w)
    <3>1. wk'[w].value.ver = src.ver
      BY <1>1, <2>2
    <3>2. Coherent(wk'[w].value)
      BY <3>1, CoherentNewest DEF SearchInv
    <3>3. Coherent(wk[w].value)'
      BY <1>1, <3>2 DEF Coherent, Work, Emissions
    <3> QED
      BY <1>1, <2>2, <3>3 DEF Honest
  <2> QED
    BY <2>1, <2>2
<1>7. SnapshotOK(w)'
  <2>1. CASE EpochFirst(w)
    BY <1>1, <2>1, SnapshotIdle
  <2>2. CASE ~EpochFirst(w) /\ wk'[w].t \notin raced'
    <3>1. ASSUME NEW e \in Emissions' PROVE Reflects(w, events[e])'
      <4>1. events'[e].ver <= src.ver /\ events'[e].acl <= acl
            /\ events'[e].ver \in Nat /\ src.ver \in Nat /\ events'[e].acl \in Nat /\ acl \in Nat
        BY <1>1, EmissionType DEF Work, Emissions
      <4> QED
        BY <1>1, <2>2, <4>1 DEF Reflects, Brings
    <3> QED
      BY <3>1 DEF SnapshotOK
  <2>3. CASE wk'[w].t \in raced'
    BY <2>3 DEF SnapshotOK
  <2> QED
    BY <2>1, <2>2, <2>3
<1> QED
  BY <1>1, <1>3, <1>4, <1>5, <1>6, <1>7, WorkBooks, RestFrame DEF SearchInv

\* The row contains the event afterwards, or there is none and a delete leaves
\* that to the external tombstone.
LEMMA ProjectStep ==
  ASSUME SearchInv, NEW w \in Workers, Project(w)
  PROVE  SearchInv'
<1>1. /\ Work(w) /\ BookInv' /\ Shape(w)'
      /\ UNCHANGED <<doc, gen, scanned, acked, ended>>
      /\ wk[w].at = "project" /\ wk'[w].at = "load" /\ wk'[w].value = None
      /\ wk'[w].ev = wk[w].ev /\ wk'[w].t = wk[w].t /\ wk'[w].todo = wk[w].todo
      /\ wk'[w].failed = wk[w].failed
      /\ \A q \in Nums \X Targets : chk'[q] = chk[q] \/ (q = <<wk[w].ev, wk[w].t>> /\ chk'[q] = "pending")
      /\ \A t \in Targets : Grow(row[t], row'[t]) /\ (row'[t] # None => Known(row'[t]))
      /\ IF Deleting(w)
         THEN /\ src.dead /\ raced' = raced \cup Overtaken
              /\ \A t \in Targets : row'[t] = TombstoneRow(row[t], src.ver)
         ELSE /\ raced' = raced /\ wk[w].value \in Indexed
              /\ \A t \in Targets : row'[t] = IF t = wk[w].t THEN Upsert(row[t], wk[w].value) ELSE row[t]
  BY ProjectFacts
<1>2. IndexStep
  BY ProjectIndex
<1>3. Emissions \subseteq Nums
  BY SearchAssumption DEF SearchInv, SourceInv, TypeInv, Emissions, Nums
<1>4. ASSUME NEW e \in Emissions, NEW t \in Targets
      PROVE  chk'[<<e, t>>] = chk[<<e, t>>] \/ chk'[<<e, t>>] = "pending"
  <2>1. <<e, t>> \in Nums \X Targets
    BY <1>3
  <2> QED
    BY <1>1, <2>1
<1>5. KeepStep
  BY <1>1, <1>2, <1>4, SameJobKeeps
<1>6. ServedInv' /\ GenMoves
  BY <1>1, <1>5, ServedFrame
<1>7. TypeInv' /\ SourceInv' /\ BookInv' /\ KnownInv' /\ ShapeInv'
  BY <1>1, WorkBooks
<1>8. PICK t \in Targets : t = wk[w].t
  BY DEF SearchInv, TypeInv, Handling
<1>9. ASSUME ~Deleting(w), t \notin raced', NEW e \in Emissions, Brings(wk[w].value, events[e])
      PROVE  Covers(row'[t], events[e])
  <2>1. /\ wk[w].value \in Indexed /\ Known(wk[w].value) /\ row[t] \in Indexed \cup {None}
        /\ row'[t] = Upsert(row[t], wk[w].value)
    <3>1. wk[w].value \in Indexed /\ row'[t] = Upsert(row[t], wk[w].value)
      BY <1>1, <1>8, <1>9
    <3> QED
      BY <3>1, NoneIsNoValue DEF SearchInv, KnownInv, TypeInv
  <2>2. row[t] # None => Known(row[t]) /\ Coherent(row[t])
    BY <1>1, <1>9 DEF SearchInv, KnownInv, TargetInv, TargetOK
  <2> QED
    BY <1>9, <2>1, <2>2, UpsertCovers DEF SearchInv
<1>10. Deleting(w)' = Deleting(w) /\ events' = events /\ Emissions' = Emissions
  BY <1>1 DEF Deleting, Work, Emissions
<1>11. wk'[w].t \notin raced' => Honest(w)'
  <2> SUFFICES ASSUME t \notin raced' PROVE Honest(w)'
    BY <1>1, <1>8
  <2>1. ~Deleting(w) => row'[t] # None
    <3> SUFFICES ASSUME ~Deleting(w) PROVE row'[t] # None
      OBVIOUS
    <3>1. wk[w].value \in Indexed /\ row'[t] = Upsert(row[t], wk[w].value) /\ row[t] \in Indexed \cup {None}
      BY <1>1, <1>8 DEF SearchInv, TypeInv
    <3>2. Upsert(row[t], wk[w].value) \in Indexed
      BY <3>1, UpsertType
    <3> QED
      BY <3>1, <3>2, NoneIsNoValue
  <2>2. Deleting(w) => Buried(t)'
    <3> SUFFICES ASSUME Deleting(w) PROVE Buried(t)'
      OBVIOUS
    <3>1. src.dead /\ src' = src /\ row'[t] = TombstoneRow(row[t], src.ver) /\ t \notin Overtaken
          /\ row[t] \in Indexed \cup {None} /\ (row[t] # None => Known(row[t]))
      BY <1>1 DEF Work, SearchInv, TypeInv, KnownInv
    <3>2. CASE row[t] = None
      <4>1. NoLive(t)
        BY <3>1, <3>2 DEF Overtaken, NoLive
      <4>2. NoLive(t)'
        BY <1>1, <3>1, <4>1, NoLiveStays DEF Fresh
      <4>3. row'[t] = None
        BY <3>1, <3>2 DEF TombstoneRow
      <4> QED
        BY <3>1, <4>2, <4>3 DEF Buried
    <3>3. CASE row[t] # None
      <4>1. /\ row'[t] = [ver |-> src.ver, acl |-> row[t].acl, dead |-> TRUE]
            /\ row'[t] \in Indexed
        BY <3>1, <3>3, TombstoneKnown DEF SearchInv
      <4>2. row'[t].dead /\ row'[t] # None
        <5>1. row'[t].dead
          BY <4>1
        <5>2. row'[t] # None
          BY <4>1, NoneIsNoValue
        <5> QED
          BY <5>1, <5>2
      <4> QED
        BY <3>1, <4>2 DEF Buried
    <3> QED
      BY <3>2, <3>3
  <2>3. ~Deleting(w) /\ wk[w].ev # 0 => Covers(row'[t], Event(w))
    <3> SUFFICES ASSUME ~Deleting(w), wk[w].ev # 0 PROVE Covers(row'[t], Event(w))
      OBVIOUS
    <3>1. wk[w].ev \in Emissions /\ Event(w) = events[wk[w].ev] /\ Brings(wk[w].value, Event(w))
      BY <1>1, EventOf DEF SearchInv, ShapeInv, Shape
    <3> QED
      BY <1>9, <3>1
  <2>4. Event(w)' = Event(w)
    BY <1>1, <1>10 DEF Event
  <2>5. ~Deleting(w) /\ wk[w].ev # 0 => Reflects(w, Event(w))'
    BY <1>1, <1>8, <2>3, <2>4 DEF Reflects, Covers
  <2>6. Buried(t)' => Buried(wk[w].t)'
    BY <1>1, <1>8 DEF Buried, NoLive
  <2> QED
    BY <1>1, <1>8, <1>10, <2>1, <2>2, <2>5, <2>6 DEF Honest
<1>12. SnapshotOK(w)'
  <2> SUFFICES ASSUME NEW e \in Emissions, wk[w].ev = 0, t \in Building', t \notin raced'
               PROVE  (Kept(wk[w].t, e) \/ Reflects(w, events[e]))'
    BY <1>1, <1>8, <1>10 DEF SnapshotOK
  <2>1. t \in Building /\ t \notin raced
    BY <1>1 DEF Building, Work
  <2>2. Kept(t, e) \/ Reflects(w, events[e])
    BY <1>1, <1>8, <2>1 DEF SearchInv, SnapshotInv
  <2>3. CASE Kept(t, e)
    <3>1. Kept(t, e)'
      BY <2>1, <2>3, <1>5, LiveTargets DEF KeepStep
    <3> QED
      BY <1>1, <1>8, <3>1 DEF Kept, Owed
  <2>4. CASE Reflects(w, events[e])
    <3>1. ~Deleting(w) /\ Brings(wk[w].value, events[e])
      BY <1>1, <2>4 DEF Deleting, Reflects
    <3>2. Covers(row'[t], events[e])
      BY <1>9, <3>1
    <3> QED
      BY <1>1, <1>8, <1>10, <3>2 DEF Reflects, Covers
  <2> QED
    BY <2>2, <2>3, <2>4
<1>13. \A e \in Emissions : \A u \in Targets \ raced' :
           chk'[<<e, u>>] = "indexed" \/ <<e, u>> \in acked' =>
             chk[<<e, u>>] = "indexed" \/ <<e, u>> \in acked \/ Covers(doc'[u], events[e])
  BY <1>1, <1>4
<1> QED
  BY <1>1, <1>2, <1>5, <1>6, <1>7, <1>11, <1>12, <1>13, RestFrame DEF SearchInv

\* The row is loaded again and contains what it contained.
LEMMA LoadStep ==
  ASSUME SearchInv, NEW w \in Workers, Load(w)
  PROVE  SearchInv'
<1>1. /\ Work(w) /\ BookInv' /\ Shape(w)' /\ (wk'[w].value # None => Known(wk'[w].value))
      /\ UNCHANGED <<row, doc, raced, gen, scanned, acked, ended>>
      /\ wk[w].at = "load" /\ wk'[w].at = "put" /\ wk'[w].value = row[wk[w].t]
      /\ wk'[w].ev = wk[w].ev /\ wk'[w].t = wk[w].t /\ wk'[w].todo = wk[w].todo
      /\ wk'[w].failed = wk[w].failed
      /\ \A q \in Nums \X Targets : chk'[q] = chk[q] \/ (q = <<wk[w].ev, wk[w].t>> /\ chk'[q] = "publishing")
  BY LoadFacts
<1>2. IndexStep
  BY LoadIndex
<1>3. Emissions \subseteq Nums
  BY SearchAssumption DEF SearchInv, SourceInv, TypeInv, Emissions, Nums
<1>4. ASSUME NEW e \in Emissions, NEW t \in Targets
      PROVE  chk'[<<e, t>>] = chk[<<e, t>>] \/ chk'[<<e, t>>] = "publishing"
  <2>1. <<e, t>> \in Nums \X Targets
    BY <1>3
  <2> QED
    BY <1>1, <2>1
<1>5. KeepStep
  BY <1>1, <1>2, <1>4, SameJobKeeps
<1>6. ServedInv' /\ GenMoves
  BY <1>1, <1>5, ServedFrame
<1>7. TypeInv' /\ SourceInv' /\ BookInv' /\ KnownInv' /\ ShapeInv'
  BY <1>1, WorkBooks
<1>8. PICK t \in Targets : t = wk[w].t
  BY DEF SearchInv, TypeInv, Handling
<1>10. Deleting(w)' = Deleting(w) /\ events' = events /\ Emissions' = Emissions
  BY <1>1 DEF Deleting, Work, Emissions
<1>11. wk'[w].t \notin raced' => Honest(w)'
  <2> SUFFICES ASSUME t \notin raced' PROVE Honest(w)'
    BY <1>1, <1>8
  <2>1. Honest(w) /\ TargetOK(t) /\ t \in Targets \ raced'
    BY <1>1, <1>8 DEF SearchInv, HonestInv, TargetInv
  <2>2. Deleting(w) => Buried(t) /\ Buried(t)'
    BY <1>1, <1>2, <1>8, <2>1 DEF Honest, IndexStep
  <2>3. row[t] = None => Deleting(w) /\ AllDead(t)'
    <3> SUFFICES ASSUME row[t] = None PROVE Deleting(w) /\ AllDead(t)'
      OBVIOUS
    <3>1. Deleting(w)
      BY <1>1, <1>8, <2>1 DEF Honest
    <3>2. AllDead(t)
      BY <2>1 DEF TargetOK, AllDead
    <3> QED
      BY <1>2, <2>1, <2>2, <3>1, <3>2 DEF IndexStep
  <2>4. Buried(t)' => Buried(wk[w].t)'
    BY <1>1, <1>8 DEF Buried, NoLive
  <2>5. AllDead(t)' => (\A a \in Pub(wk[w].t) : a.dead)'
    BY <1>1, <1>8 DEF AllDead, Pub, InFlight
  <2>6. row[t] # None /\ wk[w].ev # 0 => Covers(row[t], Event(w))
    <3> SUFFICES ASSUME row[t] # None, wk[w].ev # 0 PROVE Covers(row[t], Event(w))
      OBVIOUS
    <3>1. CASE ~Deleting(w)
      <4>1. Reflects(w, Event(w))
        BY <1>1, <2>1, <3>1 DEF Honest
      <4> QED
        BY <1>1, <1>8, <4>1 DEF Reflects
    <3>2. CASE Deleting(w)
      <4>1. src.dead /\ row[t].dead /\ row[t] \in Indexed /\ Known(row[t]) /\ TypeInv
        BY <2>2, <3>2 DEF Buried, SearchInv, KnownInv, TypeInv
      <4>2. row[t].ver = src.ver
        BY <4>1, KnownDead
      <4>3. wk[w].ev \in Emissions /\ Event(w) = events[wk[w].ev]
        BY EventOf DEF SearchInv
      <4>4. Event(w).ver <= src.ver /\ Event(w).ver \in Nat /\ src.ver \in Nat
        BY <4>3, EmissionType
      <4> QED
        BY <4>1, <4>2, <4>4 DEF Covers
    <3> QED
      BY <3>1, <3>2
  <2>7. Event(w)' = Event(w)
    BY <1>1, <1>10 DEF Event
  <2>8. row[t] # None /\ wk[w].ev # 0 => Reflects(w, Event(w))'
    BY <1>1, <1>8, <2>6, <2>7 DEF Reflects, Covers
  <2> QED
    BY <1>1, <1>8, <1>10, <2>2, <2>3, <2>4, <2>5, <2>8 DEF Honest
<1>12. SnapshotOK(w)'
  <2> SUFFICES ASSUME NEW e \in Emissions, wk[w].ev = 0, t \in Building', t \notin raced'
               PROVE  (Kept(wk[w].t, e) \/ Reflects(w, events[e]))'
    BY <1>1, <1>8, <1>10 DEF SnapshotOK
  <2>1. t \in Building /\ t \notin raced
    BY <1>1 DEF Building, Work
  <2>2. Kept(t, e) \/ Reflects(w, events[e])
    BY <1>1, <1>8, <2>1 DEF SearchInv, SnapshotInv
  <2>3. CASE Kept(t, e)
    <3>1. Kept(t, e)'
      BY <2>1, <2>3, <1>5, LiveTargets DEF KeepStep
    <3> QED
      BY <1>1, <1>8, <3>1 DEF Kept, Owed
  <2>4. CASE Reflects(w, events[e])
    <3>1. Covers(row[t], events[e])
      BY <1>1, <1>8, <2>4 DEF Reflects
    <3> QED
      BY <1>1, <1>8, <1>10, <3>1 DEF Reflects, Covers
  <2> QED
    BY <2>2, <2>3, <2>4
<1>13. \A e \in Emissions : \A u \in Targets \ raced' :
           chk'[<<e, u>>] = "indexed" \/ <<e, u>> \in acked' =>
             chk[<<e, u>>] = "indexed" \/ <<e, u>> \in acked \/ Covers(doc'[u], events[e])
  BY <1>1, <1>4
<1> QED
  BY <1>1, <1>2, <1>5, <1>6, <1>7, <1>11, <1>12, <1>13, RestFrame DEF SearchInv

\* The document covers what the request covered.
LEMMA PublishedCovers ==
  ASSUME SearchInv, NEW w \in Workers, wk[w].at = "put", wk[w].t \notin raced,
         NEW e \in Emissions, wk[w].value # None, Covers(wk[w].value, events[e])
  PROVE  Covers(Published(w), events[e])
<1>1. /\ wk[w].t \in Targets /\ wk[w].value \in Indexed
      /\ doc[wk[w].t] \in Indexed \cup {None} /\ events[e] \in Emitted
  BY EmissionType DEF SearchInv, TypeInv, Handling
<1>2. Published(w) = Upsert(doc[wk[w].t], wk[w].value) /\ Published(w) \in Indexed \cup {None}
  BY PublishedFacts
<1>3. doc[wk[w].t] # None => Comparable(doc[wk[w].t], wk[w].value)
  <2>1. PICK t \in Targets : t = wk[w].t
    BY <1>1
  <2>2. wk[w].value \in Pub(t) /\ (doc[t] # None => doc[t] \in Pub(t))
    BY <2>1 DEF Pub, InFlight
  <2> QED
    BY <2>1, <2>2 DEF SearchInv, TargetInv, TargetOK
<1>4. Grow(wk[w].value, Published(w))
  BY <1>1, <1>2, <1>3, UpsertOfComparable
<1> QED
  BY <1>1, <1>2, <1>4, CoversGrow

\* The external tombstone covers the delete, in a generation that has no row.
LEMMA TombstoneCovers ==
  ASSUME SearchInv, NEW w \in Workers, wk[w].at = "put", wk[w].value = None, Deleting(w)
  PROVE  Covers(Published(w), Event(w))
<1>1. /\ wk[w].t \in Targets /\ doc[wk[w].t] \in Indexed \cup {None} /\ TypeInv
      /\ (doc[wk[w].t] # None => Known(doc[wk[w].t]))
      /\ Event(w).ver <= src.ver /\ Event(w).ver \in Nat /\ src.ver \in Nat
  <2>1. wk[w].ev \in Emissions /\ Event(w) = events[wk[w].ev] /\ wk[w].t \in Targets
    BY EventOf DEF SearchInv, Deleting
  <2> QED
    BY <2>1, EmissionType DEF SearchInv, TypeInv, KnownInv
<1>2. src.dead /\ Published(w) = TombstoneDoc(doc[wk[w].t], src.ver)
      /\ Published(w) \in Indexed \cup {None}
  BY PublishedFacts
<1>3. \E n : Published(w) = [ver |-> src.ver, acl |-> n, dead |-> TRUE]
  <2>1. CASE doc[wk[w].t] = None
    BY <1>2, <2>1 DEF TombstoneDoc
  <2>2. CASE doc[wk[w].t] # None
    <3>1. Published(w) = TombstoneRow(doc[wk[w].t], src.ver)
      BY <1>2, <2>2 DEF TombstoneDoc
    <3>2. TombstoneRow(doc[wk[w].t], src.ver) = [ver |-> src.ver, acl |-> doc[wk[w].t].acl, dead |-> TRUE]
      BY <1>1, <1>2, <2>2, TombstoneKnown
    <3> QED
      BY <3>1, <3>2
  <2> QED
    BY <2>1, <2>2
<1>4. Published(w).ver = src.ver /\ Published(w).dead
  BY <1>3
<1>5. Published(w) # None
  <2>1. CASE doc[wk[w].t] = None
    <3>1. Published(w) = [ver |-> src.ver, acl |-> 0, dead |-> TRUE]
      BY <1>2, <2>1 DEF TombstoneDoc
    <3>2. Published(w) \in Indexed
      BY <1>1, <3>1 DEF Indexed
    <3> QED
      BY <3>2, NoneIsNoValue
  <2>2. CASE doc[wk[w].t] # None
    <3>1. Grow(doc[wk[w].t], Published(w))
      BY PublishedFacts
    <3> QED
      BY <2>2, <3>1 DEF Grow
  <2> QED
    BY <2>1, <2>2
<1> QED
  BY <1>1, <1>4, <1>5 DEF Covers

\* A publication brings its event into the document.
LEMMA PutStep ==
  ASSUME SearchInv, NEW w \in Workers, Put(w)
  PROVE  SearchInv'
<1>1. /\ Work(w) /\ BookInv' /\ Shape(w)' /\ DocMoves(w) /\ doc'[wk[w].t] = Published(w)
      /\ UNCHANGED <<row, raced, gen, scanned, chk, acked, ended>>
      /\ wk[w].at = "put" /\ wk'[w].at = "settle" /\ wk'[w].value = None
      /\ wk'[w].ev = wk[w].ev /\ wk'[w].t = wk[w].t /\ wk'[w].todo = wk[w].todo
      /\ wk'[w].failed = wk[w].failed
  BY PutFacts
<1>2. IndexStep
  BY <1>1, PutIndex DEF Fresh
<1>5. KeepStep
  BY <1>1, <1>2, SameJobKeeps
<1>6. ServedInv' /\ GenMoves
  BY <1>1, <1>5, ServedFrame
<1>7. TypeInv' /\ SourceInv' /\ BookInv' /\ KnownInv' /\ ShapeInv'
  BY <1>1, WorkBooks DEF DocMoves
<1>8. PICK t \in Targets : t = wk[w].t
  BY DEF SearchInv, TypeInv, Handling
<1>10. Deleting(w)' = Deleting(w) /\ events' = events /\ Emissions' = Emissions /\ Event(w)' = Event(w)
  BY <1>1 DEF Deleting, Work, Emissions, Event
<1>11. wk'[w].t \notin raced' => Honest(w)'
  <2> SUFFICES ASSUME t \notin raced' PROVE Honest(w)'
    BY <1>1, <1>8
  <2>1. Honest(w) /\ wk[w].t \notin raced
    BY <1>1, <1>8 DEF SearchInv, HonestInv
  <2>2. wk[w].ev # 0 => Covers(doc'[wk[w].t], Event(w))
    <3> SUFFICES ASSUME wk[w].ev # 0 PROVE Covers(Published(w), Event(w))
      BY <1>1
    <3>1. wk[w].ev \in Emissions /\ Event(w) = events[wk[w].ev]
      BY EventOf DEF SearchInv
    <3>2. CASE wk[w].value # None
      <4>1. Covers(wk[w].value, events[wk[w].ev])
        BY <1>1, <2>1, <3>1, <3>2 DEF Honest, Reflects
      <4> QED
        BY <1>1, <2>1, <3>1, <3>2, <4>1, PublishedCovers
    <3>3. CASE wk[w].value = None
      <4>1. Deleting(w)
        BY <1>1, <2>1, <3>3 DEF Honest
      <4> QED
        BY <1>1, <3>3, <4>1, TombstoneCovers
    <3> QED
      BY <3>2, <3>3
  <2>3. wk[w].ev # 0 => Reflects(w, Event(w))'
    BY <1>1, <1>10, <2>2 DEF Reflects, Covers
  <2> QED
    BY <1>1, <2>3 DEF Honest
<1>12. SnapshotOK(w)'
  <2> SUFFICES ASSUME NEW e \in Emissions, wk[w].ev = 0, t \in Building', t \notin raced'
               PROVE  (Kept(wk[w].t, e) \/ Reflects(w, events[e]))'
    BY <1>1, <1>8, <1>10 DEF SnapshotOK
  <2>1. t \in Building /\ t \notin raced /\ wk[w].t \notin raced
    BY <1>1, <1>8 DEF Building, Work
  <2>2. Kept(t, e) \/ Reflects(w, events[e])
    BY <1>1, <1>8, <2>1 DEF SearchInv, SnapshotInv
  <2>3. CASE Kept(t, e)
    <3>1. Kept(t, e)'
      BY <2>1, <2>3, <1>5, LiveTargets DEF KeepStep
    <3> QED
      BY <1>1, <1>8, <3>1 DEF Kept, Owed
  <2>4. CASE Reflects(w, events[e])
    <3>1. Covers(wk[w].value, events[e]) /\ wk[w].value # None
      BY <1>1, <2>4 DEF Reflects, Covers
    <3>2. Covers(doc'[wk[w].t], events[e])
      BY <1>1, <2>1, <3>1, PublishedCovers
    <3> QED
      BY <1>1, <1>10, <3>2 DEF Reflects, Covers
  <2> QED
    BY <2>2, <2>3, <2>4
<1> QED
  BY <1>1, <1>2, <1>5, <1>6, <1>7, <1>11, <1>12, RestFrame DEF SearchInv

\* After a failed publication the task will not succeed.
LEMMA FailStep ==
  ASSUME SearchInv, NEW w \in Workers, NEW how \in {"retry", "skip"}, PutFails(w, how), wk[w].ev # 0
  PROVE  SearchInv'
<1>1. /\ Work(w) /\ BookInv' /\ Shape(w)' /\ DocMoves(w)
      /\ UNCHANGED <<row, raced, gen, scanned, acked>>
      /\ wk[w].at = "put"
      /\ chk'[<<wk[w].ev, wk[w].t>>] = "failed"
      /\ \A q \in Nums \X Targets : chk'[q] = chk[q] \/ (q = <<wk[w].ev, wk[w].t>> /\ chk'[q] = "failed")
      /\ \E f \in {"retry", "skip"} : MovesOn(w, wk[w].todo \ {wk[w].t}, f)
  BY FailFacts
<1>2. PICK f \in {"retry", "skip"} : MovesOn(w, wk[w].todo \ {wk[w].t}, f)
  BY <1>1
<1>3. IndexStep
  BY <1>1, <1>2, PutIndex DEF Fresh, MovesOn
<1>4. wk[w].ev \in Nums /\ Emissions \subseteq Nums
  <2>1. wk[w].ev \in Nums
    BY EventOf DEF SearchInv
  <2>2. Emissions \subseteq Nums
    BY SearchAssumption DEF SearchInv, SourceInv, TypeInv, Emissions, Nums
  <2> QED
    BY <2>1, <2>2
<1>5. ASSUME NEW e \in Emissions, NEW t \in Targets
      PROVE  chk'[<<e, t>>] = chk[<<e, t>>] \/ chk'[<<e, t>>] = "failed"
  <2>1. <<e, t>> \in Nums \X Targets
    BY <1>4
  <2> QED
    BY <1>1, <2>1
<1>6. KeepStep
  <2> SUFFICES ASSUME NEW t \in (Live \cup {1}) \ raced', NEW i \in Emissions, Kept(t, i)
               PROVE  Kept(t, i)'
    BY DEF KeepStep
  <2>1. t \in Targets
    BY LiveTargets
  <2> QED
    BY <1>1, <1>2, <1>3, <1>4, <2>1, OnwardKeeps
<1>7. Honest(w)' /\ SnapshotOK(w)'
  BY <1>2, HonestIdle, SnapshotIdle DEF MovesOn
<1>8. ServedInv' /\ GenMoves
  BY <1>1, <1>6, ServedFrame
<1>9. TypeInv' /\ SourceInv' /\ BookInv' /\ KnownInv' /\ ShapeInv'
  BY <1>1, <1>2, WorkBooks DEF DocMoves, MovesOn
<1>10. \A e \in Emissions : \A u \in Targets \ raced' :
           chk'[<<e, u>>] = "indexed" \/ <<e, u>> \in acked' =>
             chk[<<e, u>>] = "indexed" \/ <<e, u>> \in acked \/ Covers(doc'[u], events[e])
  BY <1>1, <1>5
<1> QED
  BY <1>1, <1>3, <1>6, <1>7, <1>8, <1>9, <1>10, RestFrame DEF SearchInv

\* A generation becomes served only with all events kept.
LEMMA ServedShrinks ==
  ASSUME SearchInv, NEW w \in Workers, Work(w), KeepStep, GenMoves,
         \A t \in scanned' \ raced' : t \in scanned \/ \A e \in Emissions : Kept(t, e) /\ t \in Live
  PROVE  ServedInv'
<1>0. Emissions' = Emissions /\ raced \subseteq raced' /\ Served \subseteq Live \cup {1}
  BY LiveTargets DEF Work, Emissions
<1> SUFFICES ASSUME NEW t \in Served' \ raced', NEW e \in Emissions PROVE Kept(t, e)'
  BY <1>0 DEF ServedInv
<1>1. CASE t \in scanned
  <2>1. t \in Served
    <3>1. t = 1 \/ gen'[t] \notin {"failed", "retired"}
      BY DEF Served
    <3>2. t \in Targets
      BY <1>1 DEF SearchInv, TypeInv
    <3> QED
      BY <1>1, <3>1, <3>2 DEF Served, GenMoves
  <2>2. Kept(t, e)
    BY <1>0, <2>1 DEF SearchInv, ServedInv
  <2> QED
    BY <1>0, <2>1, <2>2 DEF KeepStep
<1>2. CASE t \notin scanned
  <2>1. Kept(t, e) /\ t \in Live
    BY <1>2 DEF Served
  <2> QED
    BY <2>1 DEF KeepStep
<1> QED
  BY <1>1, <1>2

\* A failed snapshot leaves its generation unfinished.
LEMMA SnapshotFailStep ==
  ASSUME SearchInv, NEW w \in Workers, NEW how \in {"retry", "skip"}, PutFails(w, how), wk[w].ev = 0
  PROVE  SearchInv'
<1>1. /\ Work(w) /\ BookInv' /\ Shape(w)' /\ DocMoves(w) /\ GenMoves
      /\ UNCHANGED <<row, raced, scanned, chk, acked, ended>>
      /\ wk[w].at = "put" /\ wk'[w].at = "idle" /\ wk'[w].value = None
  BY SnapshotFailFacts, IdleType
<1>2. IndexStep
  BY <1>1, PutIndex DEF Fresh
<1>3. KeepStep
  BY <1>1, <1>2, SameJobKeeps
<1>4. ServedInv'
  BY <1>1, <1>3, ServedShrinks
<1>5. Honest(w)' /\ SnapshotOK(w)'
  BY <1>1, HonestIdle, SnapshotIdle
<1>6. TypeInv' /\ SourceInv' /\ BookInv' /\ KnownInv' /\ ShapeInv'
  BY <1>1, WorkBooks DEF DocMoves
<1> QED
  BY <1>1, <1>2, <1>3, <1>4, <1>5, <1>6, RestFrame DEF SearchInv

\* After a failed statement the task will not succeed either.
LEMMA TargetFailsStep ==
  ASSUME SearchInv, NEW w \in Workers, TargetFails(w), wk[w].ev # 0
  PROVE  SearchInv'
<1>1. /\ Work(w) /\ BookInv' /\ Shape(w)'
      /\ UNCHANGED <<row, doc, raced, gen, scanned, chk, acked>>
      /\ wk[w].at # "idle"
      /\ \E f \in {"retry", "skip"} : MovesOn(w, wk[w].todo \ {wk[w].t}, f)
  BY TargetFailsFacts
<1>2. PICK f \in {"retry", "skip"} : MovesOn(w, wk[w].todo \ {wk[w].t}, f)
  BY <1>1
<1>3. IndexStep
  BY <1>1, <1>2, QuietIndex DEF Fresh, MovesOn
<1>4. wk[w].ev \in Nums
  BY EventOf DEF SearchInv
<1>5. KeepStep
  <2> SUFFICES ASSUME NEW t \in (Live \cup {1}) \ raced', NEW i \in Emissions, Kept(t, i)
               PROVE  Kept(t, i)'
    BY DEF KeepStep
  <2>1. t \in Targets
    BY LiveTargets
  <2> QED
    BY <1>1, <1>2, <1>3, <1>4, <2>1, OnwardKeeps
<1>6. Honest(w)' /\ SnapshotOK(w)'
  BY <1>2, HonestIdle, SnapshotIdle DEF MovesOn
<1>7. ServedInv' /\ GenMoves
  BY <1>1, <1>5, ServedFrame
<1> QED
  BY <1>1, <1>2, <1>3, <1>5, <1>6, <1>7, WorkBooks, RestFrame DEF SearchInv, MovesOn

\* A snapshot that stops leaves its generation unfinished.
LEMMA SnapshotStopsStep ==
  ASSUME SearchInv, NEW w \in Workers, TargetFails(w), wk[w].ev = 0
  PROVE  SearchInv'
<1>1. /\ Work(w) /\ BookInv' /\ Shape(w)' /\ GenMoves
      /\ UNCHANGED <<row, doc, raced, scanned, chk, acked, ended>>
      /\ wk'[w].at = "idle" /\ wk'[w].value = None
  BY SnapshotStopsFacts, IdleType
<1>2. IndexStep
  BY <1>1, QuietIndex DEF Fresh
<1>3. KeepStep
  BY <1>1, <1>2, SameJobKeeps
<1>4. ServedInv'
  BY <1>1, <1>3, ServedShrinks
<1>5. Honest(w)' /\ SnapshotOK(w)'
  BY <1>1, HonestIdle, SnapshotIdle
<1>6. TypeInv' /\ SourceInv' /\ BookInv' /\ KnownInv' /\ ShapeInv'
  BY <1>1, WorkBooks
<1> QED
  BY <1>1, <1>2, <1>3, <1>4, <1>5, <1>6, RestFrame DEF SearchInv

\* A task given up before its first generation says success of none.
LEMMA NoTargetsStep ==
  ASSUME SearchInv, NEW i \in Nums, NoTargets(i)
  PROVE  SearchInv'
<1>0. UNCHANGED <<src, acl, events, row, doc, gen, raced, scanned, chk, acked, wk>>
  BY DEF NoTargets, source, index, control
<1>1. /\ i \in Emissions /\ faults' \in Nat
      /\ ended' \in [Nums -> {"open", "done", "dead"}]
      /\ \A e \in Nums : ended'[e] = ended[e] \/ (e = i /\ ended'[e] = "dead")
  BY DEF NoTargets, Emissions, SearchInv, TypeInv
<1>2. TypeInv' /\ SourceInv' /\ KnownInv' /\ BookInv'
  BY <1>0, <1>1 DEF SearchInv, TypeInv, SourceInv, KnownInv, Known, Emissions, BookInv
<1>3. ShapeInv'
  BY <1>0 DEF SearchInv, ShapeInv, Shape, Deleting, EpochFirst, Event, Brings
<1>4. TargetInv'
  <2> SUFFICES ASSUME NEW t \in Targets \ raced PROVE TargetOK(t)'
    BY <1>0 DEF TargetInv
  <2>1. Pub(t)' = Pub(t) /\ Buried(t)' = Buried(t)
    BY <1>0 DEF Pub, InFlight, Buried, NoLive
  <2>2. TargetOK(t)
    BY DEF SearchInv, TargetInv
  <2> QED
    BY <1>0, <2>1, <2>2 DEF TargetOK, Coherent, Comparable, Below, Emissions
<1>5. HonestInv'
  BY <1>0 DEF SearchInv, HonestInv, Honest, Reflects, Deleting, Event, Buried, NoLive, Pub, InFlight,
              Coherent, Emissions, Covers, Brings
<1>6. Emissions' = Emissions /\ Emissions \subseteq Nums
  BY <1>0, SearchAssumption DEF SearchInv, SourceInv, TypeInv, Emissions, Nums
<1>7. ASSUME NEW t, NEW e \in Emissions, Kept(t, e) PROVE Kept(t, e)'
  BY <1>0, <1>1, <1>6, <1>7 DEF Kept, Owed, Covers
<1>8. AckedInv'
  BY <1>0 DEF SearchInv, AckedInv, Covers, Emissions
<1>9. ServedInv'
  BY <1>0, <1>6, <1>7 DEF SearchInv, ServedInv, Served
<1>10. SnapshotInv'
  <2> SUFFICES ASSUME NEW w \in Workers, NEW e \in Emissions, wk[w].ev = 0,
                      wk[w].at \in {"acl", "project", "load", "put", "settle"},
                      wk[w].t \in Building \ raced
               PROVE  (Kept(wk[w].t, e) \/ Reflects(w, events[e]))'
    BY <1>0, <1>6 DEF SnapshotInv, Building
  <2>1. CASE Kept(wk[w].t, e)
    BY <1>0, <1>1, <1>7, <2>1 DEF Kept, Owed, Covers
  <2>2. CASE Reflects(w, events[e])
    BY <1>0, <2>2 DEF Reflects, Covers, Brings
  <2> QED
    BY <2>1, <2>2 DEF SearchInv, SnapshotInv
<1> QED
  BY <1>2, <1>3, <1>4, <1>5, <1>8, <1>9, <1>10 DEF SearchInv

\* The checkpoint says indexed when the event is in the document.
LEMMA SettleStep ==
  ASSUME SearchInv, NEW w \in Workers, Settle(w), wk[w].ev # 0
  PROVE  SearchInv'
<1>1. /\ Work(w) /\ BookInv' /\ Shape(w)'
      /\ UNCHANGED <<row, doc, raced, gen, scanned, acked, ended>>
      /\ wk[w].at = "settle" /\ wk'[w].at = "ack" /\ wk'[w].value = None
      /\ wk'[w].ev = wk[w].ev /\ wk'[w].t = wk[w].t /\ wk'[w].todo = wk[w].todo
      /\ wk'[w].failed = wk[w].failed
      /\ \A q \in Nums \X Targets : chk'[q] = chk[q] \/ (q = <<wk[w].ev, wk[w].t>> /\ chk'[q] = "indexed")
  BY SettleFacts
<1>2. IndexStep
  BY <1>1, QuietIndex DEF Fresh
<1>3. wk[w].t \notin raced => Covers(doc[wk[w].t], Event(w))
  BY <1>1 DEF SearchInv, HonestInv, Honest, Reflects
<1>4. Event(w) = events[wk[w].ev]
  BY EventOf DEF SearchInv
<1>5. ASSUME NEW e \in Emissions, NEW t \in Targets \ raced'
      PROVE  chk'[<<e, t>>] = chk[<<e, t>>] \/ Covers(doc'[t], events[e])
  <2>1. <<e, t>> \in Nums \X Targets
    BY SearchAssumption DEF SearchInv, SourceInv, TypeInv, Emissions, Nums
  <2>2. chk'[<<e, t>>] = chk[<<e, t>>] \/ (e = wk[w].ev /\ t = wk[w].t)
    BY <1>1, <2>1
  <2> QED
    BY <1>1, <1>3, <1>4, <2>2
<1>6. KeepStep
  BY <1>1, <1>2, <1>5, SameJobKeeps
<1>7. ServedInv' /\ GenMoves
  BY <1>1, <1>6, ServedFrame
<1>8. wk'[w].t \notin raced' => Honest(w)'
  <2> SUFFICES ASSUME wk'[w].t \notin raced' PROVE Honest(w)'
    OBVIOUS
  <2>1. Covers(doc[wk[w].t], Event(w)) /\ Event(w)' = Event(w)
    BY <1>1, <1>3 DEF Event, Work
  <2>2. Reflects(w, Event(w))'
    BY <1>1, <2>1 DEF Reflects, Covers
  <2> QED
    BY <1>1, <2>2 DEF Honest
<1>9. SnapshotOK(w)'
  BY <1>1, SnapshotIdle
<1>10. TypeInv' /\ SourceInv' /\ BookInv' /\ KnownInv' /\ ShapeInv'
  BY <1>1, WorkBooks
<1>11. \A e \in Emissions : \A u \in Targets \ raced' :
           chk'[<<e, u>>] = "indexed" \/ <<e, u>> \in acked' =>
             chk[<<e, u>>] = "indexed" \/ <<e, u>> \in acked \/ Covers(doc'[u], events[e])
  BY <1>1, <1>5
<1> QED
  BY <1>1, <1>2, <1>6, <1>7, <1>8, <1>9, <1>10, <1>11, RestFrame DEF SearchInv

\* A finished snapshot makes its generation served.
LEMMA ScannedStep ==
  ASSUME SearchInv, NEW w \in Workers, Settle(w), wk[w].ev = 0
  PROVE  SearchInv'
<1>1. /\ Work(w) /\ BookInv' /\ Shape(w)' /\ GenMoves
      /\ UNCHANGED <<row, doc, raced, chk, acked, ended>>
      /\ wk[w].at = "settle" /\ wk'[w].at = "idle" /\ wk'[w].value = None
      /\ scanned' = IF wk[w].t \in Building THEN scanned \cup {wk[w].t} ELSE scanned
  BY ScannedFacts, IdleType
<1>2. IndexStep
  BY <1>1, QuietIndex DEF Fresh
<1>3. KeepStep
  BY <1>1, <1>2, SameJobKeeps
<1>4. ASSUME NEW t \in scanned' \ raced', t \notin scanned, NEW e \in Emissions PROVE Kept(t, e) /\ t \in Live
  <2>1. t = wk[w].t /\ t \in Building /\ t \notin raced
    BY <1>1, <1>4
  <2>2. Kept(wk[w].t, e) \/ Reflects(w, events[e])
    BY <1>1, <2>1 DEF SearchInv, SnapshotInv
  <2>3. Kept(t, e)
    BY <1>1, <2>1, <2>2 DEF Kept, Reflects
  <2> QED
    BY <2>1, <2>3, LiveTargets
<1>5. ServedInv'
  BY <1>1, <1>3, <1>4, ServedShrinks
<1>6. Honest(w)' /\ SnapshotOK(w)'
  BY <1>1, HonestIdle, SnapshotIdle
<1>7. TypeInv' /\ SourceInv' /\ BookInv' /\ KnownInv' /\ ShapeInv'
  BY <1>1, WorkBooks
<1> QED
  BY <1>1, <1>2, <1>3, <1>5, <1>6, <1>7, RestFrame DEF SearchInv

\* The acknowledgement is made when the event is in the document.
LEMMA AckStep ==
  ASSUME SearchInv, NEW w \in Workers, Ack(w)
  PROVE  SearchInv'
<1>1. /\ Work(w) /\ BookInv' /\ Shape(w)'
      /\ UNCHANGED <<row, doc, raced, gen, scanned, chk>>
      /\ wk[w].at = "ack" /\ wk[w].ev # 0 /\ acked' = acked \cup {<<wk[w].ev, wk[w].t>>}
      /\ MovesOn(w, wk[w].todo \ {wk[w].t}, wk[w].failed)
  BY AckFacts
<1>2. wk'[w].value = None /\ wk'[w].at \in {"check", "idle"}
  BY <1>1 DEF MovesOn
<1>3. IndexStep
  BY <1>1, <1>2, QuietIndex DEF Fresh
<1>4. wk[w].ev \in Nums /\ Event(w) = events[wk[w].ev] /\ wk[w].failed \in {"no", "retry", "skip"}
  BY <1>1, EventOf DEF SearchInv, Handling
<1>5. wk[w].t \notin raced => Covers(doc[wk[w].t], Event(w))
  BY <1>1 DEF SearchInv, HonestInv, Honest, Reflects
<1>6. KeepStep
  <2> SUFFICES ASSUME NEW t \in (Live \cup {1}) \ raced', NEW i \in Emissions, Kept(t, i)
               PROVE  Kept(t, i)'
    BY DEF KeepStep
  <2>1. t \in Targets
    BY LiveTargets
  <2>2. t = wk[w].t /\ i = wk[w].ev => Covers(doc'[t], events[i])
    BY <1>1, <1>4, <1>5
  <2> QED
    BY <1>1, <1>3, <1>4, <2>1, <2>2, OnwardKeeps
<1>7. ServedInv' /\ GenMoves
  BY <1>1, <1>6, ServedFrame
<1>8. Honest(w)' /\ SnapshotOK(w)'
  BY <1>2, HonestIdle, SnapshotIdle
<1>9. TypeInv' /\ SourceInv' /\ BookInv' /\ KnownInv' /\ ShapeInv'
  BY <1>1, <1>2, WorkBooks
<1>10. ASSUME NEW e \in Emissions, NEW u \in Targets \ raced', <<e, u>> \in acked'
       PROVE  <<e, u>> \in acked \/ Covers(doc'[u], events[e])
  <2>1. <<e, u>> \in acked \/ (e = wk[w].ev /\ u = wk[w].t)
    BY <1>1, <1>10
  <2> QED
    BY <1>1, <1>4, <1>5, <2>1
<1> QED
  BY <1>1, <1>3, <1>6, <1>7, <1>8, <1>9, <1>10, RestFrame DEF SearchInv

\* A crash forgets only what was not promised.
LEMMA CrashStep ==
  ASSUME SearchInv, NEW w \in Workers, Crash(w)
  PROVE  SearchInv'
<1>1. /\ Work(w) /\ BookInv' /\ Shape(w)'
      /\ UNCHANGED <<row, doc, raced, gen, scanned, chk, acked, ended>>
      /\ wk'[w].at = "idle" /\ wk'[w].value = None
  BY CrashFacts, IdleType
<1>2. IndexStep
  BY <1>1, QuietIndex DEF Fresh
<1>3. KeepStep
  BY <1>1, <1>2, SameJobKeeps
<1>4. ServedInv' /\ GenMoves
  BY <1>1, <1>3, ServedFrame
<1>5. Honest(w)' /\ SnapshotOK(w)'
  BY <1>1, HonestIdle, SnapshotIdle
<1>6. TypeInv' /\ SourceInv' /\ BookInv' /\ KnownInv' /\ ShapeInv'
  BY <1>1, WorkBooks
<1> QED
  BY <1>1, <1>2, <1>3, <1>4, <1>5, <1>6, RestFrame DEF SearchInv

\* A new generation starts with nothing promised, and with no file nothing is
\* missing.
LEMMA BackfillStep ==
  ASSUME SearchInv, NEW w \in Workers, NEW t \in Targets, Backfill(w, t)
  PROVE  SearchInv'
<1>1. /\ Work(w) /\ BookInv' /\ Shape(w)' /\ GenMoves /\ wk[w].at = "idle"
      /\ UNCHANGED <<row, doc, raced, chk, acked, ended>>
      /\ gen[t] \in {"absent", "building", "stalled"}
      /\ \/ /\ wk'[w] = wk[w] /\ scanned' = scanned \cup {t}
            /\ src.ver = 0 \/ (t \in scanned /\ gen[t] = "stalled")
         \/ /\ scanned' = scanned /\ t \notin scanned
            /\ wk'[w].at = "source" /\ wk'[w].ev = 0 /\ wk'[w].t = t /\ wk'[w].value = None
  BY BackfillFacts
<1>2. wk'[w].at \in {"idle", "source"} /\ (wk'[w].value # None => wk'[w] = wk[w])
  BY <1>1
<1>3. IndexStep
  BY <1>1, <1>2, QuietIndex DEF Fresh
<1>4. KeepStep
  BY <1>1, <1>2, <1>3, SameJobKeeps
<1>5. ServedInv'
  <2>1. CASE src.ver = 0
    <3>1. Emissions = {} /\ Emissions' = Emissions
      <4>1. ASSUME NEW e \in Emissions PROVE FALSE
        <5>1. 1 <= events[e].ver /\ events[e].ver <= 0 /\ events[e].ver \in Nat
          BY <2>1, EmissionType DEF SearchInv, SourceInv
        <5> QED
          BY <5>1
      <4> QED
        BY <1>1, <4>1 DEF Work, Emissions
    <3> QED
      BY <3>1 DEF ServedInv
  <2>2. CASE scanned' = scanned
    BY <1>1, <1>4, <2>2, ServedShrinks
  <2> QED
    BY <1>1, <2>1, <2>2
<1>6. Honest(w)' /\ SnapshotOK(w)'
  BY <1>2, HonestIdle, SnapshotIdle
<1>7. wk'[w].value # None => Known(wk'[w].value)
  BY <1>2 DEF SearchInv, KnownInv
<1>8. TypeInv' /\ SourceInv' /\ BookInv' /\ KnownInv' /\ ShapeInv'
  BY <1>1, <1>7, WorkBooks
<1> QED
  BY <1>1, <1>3, <1>4, <1>5, <1>6, <1>8, RestFrame DEF SearchInv

-----------------------------------------------------------------------------
(* Activation, the initial state and the next-state relation. *)

LEMMA ActivatedFacts ==
  ASSUME SearchInv, NEW t \in Targets, ActivateTarget(t)
  PROVE  /\ UNCHANGED <<src, acl, events, row, doc, raced, scanned, chk, acked, ended, wk, faults>>
         /\ gen[t] = "building" /\ t \in scanned /\ Unfinished(t) = {}
         /\ gen' \in [Targets -> States]
         /\ \A u \in Targets : \/ u = t /\ gen'[u] = "active"
                               \/ gen[u] = "active" /\ gen'[u] = "retired"
                               \/ gen'[u] = gen[u]
<1>1. /\ UNCHANGED <<src, acl, events, row, doc, raced, scanned, chk, acked, ended, wk, faults>>
      /\ gen[t] = "building" /\ t \in scanned /\ Unfinished(t) = {} /\ gen' = Activated(t)
  BY DEF ActivateTarget, source, index, progress
<1>2. gen \in [Targets -> States]
  BY DEF SearchInv, TypeInv
<1>3. \A u \in Targets : gen'[u] = IF u = t THEN "active" ELSE IF gen[u] = "active" THEN "retired" ELSE gen[u]
  BY <1>1 DEF Activated
<1>4. gen' \in [Targets -> States]
  <2>1. \A u \in Targets : gen'[u] \in States
    BY <1>2, <1>3 DEF States
  <2> QED
    BY <1>1, <2>1 DEF Activated
<1> QED
  BY <1>1, <1>3, <1>4

\* An activation changes no index.
LEMMA ActivateStep ==
  ASSUME SearchInv, NEW t \in Targets, ActivateTarget(t)
  PROVE  SearchInv'
<1>1. /\ UNCHANGED <<src, acl, events, row, doc, raced, scanned, chk, acked, ended, wk, faults>>
      /\ gen[t] = "building" /\ t \in scanned
      /\ gen' \in [Targets -> States]
      /\ \A u \in Targets : \/ u = t /\ gen'[u] = "active"
                            \/ gen[u] = "active" /\ gen'[u] = "retired"
                            \/ gen'[u] = gen[u]
  BY ActivatedFacts
<1>2. TypeInv' /\ SourceInv' /\ KnownInv'
  BY <1>1 DEF SearchInv, TypeInv, SourceInv, KnownInv, Known, Emissions
<1>3. BookInv'
  <2>1. \A u \in Targets : gen[u] # "absent" => gen'[u] # "absent"
    BY <1>1
  <2>2. scanned \subseteq Targets /\ \A w \in Workers : wk[w].t \in Targets
    BY DEF SearchInv, TypeInv, Handling
  <2> QED
    BY <1>1, <2>1, <2>2 DEF SearchInv, BookInv, Emissions
<1>4. ShapeInv'
  BY <1>1 DEF SearchInv, ShapeInv, Shape, Deleting, EpochFirst, Event, Brings
<1>5. TargetInv'
  BY <1>1 DEF SearchInv, TargetInv, TargetOK, Pub, InFlight, Coherent, Comparable, Below, Buried, NoLive, Emissions
<1>6. HonestInv'
  BY <1>1 DEF SearchInv, HonestInv, Honest, Reflects, Deleting, Event, Buried, NoLive, Pub, InFlight,
              Coherent, Emissions, Covers, Brings
<1>7. AckedInv'
  BY <1>1 DEF SearchInv, AckedInv, Covers, Emissions
<1>8. ASSUME NEW u \in Targets, NEW e \in Emissions, Kept(u, e) PROVE Kept(u, e)'
  BY <1>1, <1>8 DEF Kept, Owed, Covers
<1>9. ServedInv'
  <2> SUFFICES ASSUME NEW u \in Served' \ raced', NEW e \in Emissions PROVE Kept(u, e)'
    BY <1>1 DEF ServedInv, Emissions
  <2>1. u \in Targets /\ u \in scanned
    BY <1>1 DEF Served, SearchInv, TypeInv
  <2>2. u \in Served
    BY <1>1, <2>1 DEF Served
  <2> QED
    BY <1>1, <1>8, <2>1, <2>2 DEF SearchInv, ServedInv
<1>10. SnapshotInv'
  <2> SUFFICES ASSUME NEW w \in Workers, NEW e \in Emissions, wk[w].ev = 0,
                      wk[w].at \in {"acl", "project", "load", "put", "settle"},
                      wk[w].t \in Building' \ raced
               PROVE  (Kept(wk[w].t, e) \/ Reflects(w, events[e]))'
    BY <1>1 DEF SnapshotInv, Emissions
  <2>1. PICK u \in Targets : u = wk[w].t
    BY DEF SearchInv, TypeInv, Handling
  <2>2. u \in Building
    BY <1>1, <2>1 DEF Building
  <2>3. Kept(u, e) \/ Reflects(w, events[e])
    BY <2>1, <2>2 DEF SearchInv, SnapshotInv
  <2>4. CASE Kept(u, e)
    BY <1>1, <1>8, <2>1, <2>4 DEF Kept, Owed, Covers
  <2>5. CASE Reflects(w, events[e])
    BY <1>1, <2>5 DEF Reflects, Covers, Brings
  <2> QED
    BY <2>3, <2>4, <2>5
<1> QED
  BY <1>2, <1>3, <1>4, <1>5, <1>6, <1>7, <1>9, <1>10 DEF SearchInv

LEMMA SearchStutter ==
  ASSUME SearchInv, UNCHANGED vars
  PROVE  SearchInv'
<1>1. UNCHANGED <<src, acl, events, row, doc, gen, raced, scanned, chk, acked, ended, wk, faults>>
  BY DEF vars
<1>2. TypeInv' /\ SourceInv' /\ KnownInv' /\ BookInv'
  BY <1>1 DEF SearchInv, TypeInv, SourceInv, KnownInv, Known, Emissions, BookInv
<1>3. ShapeInv'
  BY <1>1 DEF SearchInv, ShapeInv, Shape, Deleting, EpochFirst, Event, Brings
<1>4. TargetInv'
  BY <1>1 DEF SearchInv, TargetInv, TargetOK, Pub, InFlight, Coherent, Comparable, Below, Buried, NoLive, Emissions
<1>5. HonestInv'
  BY <1>1 DEF SearchInv, HonestInv, Honest, Reflects, Deleting, Event, Buried, NoLive, Pub, InFlight,
              Coherent, Emissions, Covers, Brings
<1>6. AckedInv' /\ ServedInv' /\ SnapshotInv'
  BY <1>1 DEF SearchInv, AckedInv, ServedInv, Served, SnapshotInv, Building, Kept, Owed, Covers, Emissions,
              Reflects, Brings
<1> QED
  BY <1>2, <1>3, <1>4, <1>5, <1>6 DEF SearchInv

LEMMA SearchInit ==
  ASSUME Init
  PROVE  SearchInv
<1>1. /\ src = [ver |-> 0, dead |-> FALSE] /\ acl = 1 /\ events = << >>
      /\ \A t \in Targets : row[t] = None /\ doc[t] = None
      /\ \A w \in Workers : wk[w] = Idle
      /\ \A w \in Workers : wk[w].at = "idle" /\ wk[w].ev = 0 /\ wk[w].value = None
      /\ \A q \in Nums \X Targets : chk[q] = "none"
      /\ acked = {} /\ \A e \in Nums : ended[e] = "open"
      /\ scanned = {1} /\ gen[1] = "active"
  BY SearchAssumption, IdleType DEF Init
<1>2. Len(events) = 0 /\ Emissions = {}
  BY <1>1 DEF Emissions
<1>3. TypeInv
  <2>1. src \in [ver : Nat, dead : BOOLEAN] /\ acl \in Nat /\ events \in Seq(Emitted)
    BY <1>1
  <2>2. /\ row \in [Targets -> Indexed \cup {None}] /\ doc \in [Targets -> Indexed \cup {None}]
        /\ gen \in [Targets -> States] /\ scanned \subseteq Targets
    BY SearchAssumption DEF Init, States
  <2>3. /\ chk \in [Nums \X Targets -> Checkpoints] /\ acked \subseteq Nums \X Targets
        /\ ended \in [Nums -> {"open", "done", "dead"}]
    BY DEF Init, Checkpoints
  <2>4. wk \in [Workers -> Handling] /\ raced \subseteq Targets /\ faults \in Nat
    BY IdleType DEF Init
  <2> QED
    BY <2>1, <2>2, <2>3, <2>4 DEF TypeInv
<1>4. SourceInv
  <2>1. 0 <= MaxWrites
    BY SearchAssumption
  <2>2. src.ver = 0 /\ src.dead = FALSE
    BY <1>1
  <2> QED
    BY <1>2, <2>1, <2>2 DEF SourceInv
<1>5. BookInv
  <2>1. \A e \in Nums : \A t \in Targets : chk[<<e, t>>] = "none"
    BY <1>1
  <2> QED
    BY <1>1, <2>1 DEF BookInv
<1>6. KnownInv /\ ShapeInv
  <2>1. \A w \in Workers : wk[w].ev \in 0 .. Len(events)
    BY <1>1, <1>2
  <2> QED
    BY <1>1, <2>1 DEF KnownInv, ShapeInv, Shape
<1>7. TargetInv
  <2>1. \A t \in Targets : Pub(t) = {}
    BY <1>1 DEF Pub, InFlight
  <2> QED
    BY <1>1, <2>1 DEF TargetInv, TargetOK
<1>8. HonestInv
  BY <1>1 DEF HonestInv, Honest
<1>9. AckedInv /\ ServedInv /\ SnapshotInv
  BY <1>2 DEF AckedInv, ServedInv, SnapshotInv
<1> QED
  BY <1>3, <1>4, <1>5, <1>6, <1>7, <1>8, <1>9 DEF SearchInv

LEMMA SearchNext ==
  ASSUME SearchInv, [Next]_vars
  PROVE  SearchInv'
<1>1. CASE UNCHANGED vars
  BY <1>1, SearchStutter
<1>2. CASE SourceStep
  BY <1>2, AdvanceStep
<1>3. CASE \E w \in Workers : Handle(w)
  <2>1. PICK w \in Workers : Handle(w)
    BY <1>3
  <2>2. CASE \E e \in Nums : Receive(w, e)
    BY <2>2, ReceiveStep
  <2>3. CASE Check(w) \/ ReadSource(w) \/ ReadACL(w)
    BY <2>3, CheckStep, ReadSourceStep, ReadACLStep
  <2>4. CASE Project(w) \/ Load(w) \/ Put(w)
    BY <2>4, ProjectStep, LoadStep, PutStep
  <2>5. CASE Settle(w) \/ Ack(w)
    BY <2>5, SettleStep, ScannedStep, AckStep
  <2> QED
    BY <2>1, <2>2, <2>3, <2>4, <2>5 DEF Handle
<1>4. CASE \E w \in Workers : Crash(w)
  BY <1>4, CrashStep
<1>5. CASE \E w \in Workers : \E how \in {"retry", "skip"} : PutFails(w, how)
  BY <1>5, FailStep, SnapshotFailStep
<1>6. CASE \E w \in Workers, t \in Targets : Backfill(w, t)
  BY <1>6, BackfillStep
<1>7. CASE \E t \in Targets : ActivateTarget(t)
  BY <1>7, ActivateStep
<1>8. CASE \E w \in Workers : TargetFails(w)
  BY <1>8, TargetFailsStep, SnapshotStopsStep
<1>9. CASE \E e \in Nums : NoTargets(e)
  BY <1>9, NoTargetsStep
<1> QED
  BY <1>1, <1>2, <1>3, <1>4, <1>5, <1>6, <1>7, <1>8, <1>9 DEF Next, SourceStep

-----------------------------------------------------------------------------
(* The theorems. *)

\* A value that covers the newest event, and whatever grew from it, says what
\* the file's row says.
LEMMA CoveringAgrees ==
  ASSUME SearchInv, src.ver > 0, NEW d \in Indexed, NEW v \in Indexed,
         Covers(d, events[Len(events)]), Below(d, v), Known(d), Known(v)
  PROVE  Agrees(v)
<1> DEFINE n == Len(events)
<1>1. n \in Emissions /\ events[n].ver = src.ver
  BY DEF SearchInv, TypeInv, SourceInv, Emissions
<1>2. events[n] \in Emitted /\ events[n].acl \in Nat /\ src.ver \in Nat
  BY <1>1, EmissionType
<1>3. \A e \in Emissions : events[e].acl <= events[n].acl
  BY DEF SearchInv, SourceInv
<1> HIDE DEF n
<1>4. d.ver >= src.ver /\ (d.acl >= events[n].acl \/ d.dead \/ d.ver > src.ver)
  BY <1>1 DEF Covers, n
<1>5. v.ver = src.ver /\ d.ver = src.ver
  BY <1>2, <1>4 DEF Known, Below, Indexed
<1>6. v # None /\ v.dead = src.dead
  BY <1>5, NoneIsNoValue DEF Known, Indexed, SearchInv, TypeInv
<1>7. d.dead \/ d.acl >= events[n].acl
  BY <1>2, <1>4, <1>5 DEF Indexed
<1>8. ASSUME ~v.dead, NEW e \in Emissions PROVE events[e].acl <= v.acl
  <2>1. d.acl >= events[n].acl /\ d.acl <= v.acl
    BY <1>7, <1>8 DEF Below
  <2>2. events[e].acl \in Nat /\ events[e].acl <= events[n].acl
    BY <1>3, EmissionType
  <2> QED
    BY <1>2, <2>1, <2>2 DEF Indexed
<1> QED
  BY <1>5, <1>6, <1>8 DEF Agrees, Emissions

LEMMA SearchCaughtUp ==
  ASSUME SearchInv
  PROVE  CaughtUp
<1> SUFFICES ASSUME NEW t \in Served \ raced
             PROVE  /\ \A e \in Emissions : ended[e] = "done" => Covers(doc[t], events[e])
                    /\ Quiet /\ src.ver > 0 => Agrees(doc[t]) /\ (row[t] = None \/ Agrees(row[t]))
  BY DEF CaughtUp, Emissions
<1>1. t \in Targets
  BY DEF Served, SearchInv, TypeInv
<1>2. ASSUME NEW e \in Emissions, ended[e] = "done" PROVE Covers(doc[t], events[e])
  BY <1>2 DEF SearchInv, ServedInv, Kept, Owed
<1>3. ASSUME Quiet, src.ver > 0 PROVE Agrees(doc[t]) /\ (row[t] = None \/ Agrees(row[t]))
  <2>1. Len(events) \in Emissions
    BY <1>3 DEF SearchInv, TypeInv, SourceInv, Emissions
  <2>2. Covers(doc[t], events[Len(events)])
    BY <1>2, <1>3, <2>1 DEF Quiet, Emissions
  <2>3. doc[t] # None /\ doc[t] \in Indexed /\ Known(doc[t])
    BY <1>1, <2>2 DEF Covers, SearchInv, TypeInv, KnownInv
  <2>4. Below(doc[t], doc[t])
    BY <2>3 DEF Below, Indexed
  <2>5. Agrees(doc[t])
    BY <1>3, <2>2, <2>3, <2>4, CoveringAgrees
  <2>6. ASSUME row[t] # None PROVE Agrees(row[t])
    <3>1. row[t] \in Indexed /\ Known(row[t])
      BY <1>1, <2>6 DEF SearchInv, TypeInv, KnownInv
    <3>2. doc[t] \in Pub(t)
      BY <2>3 DEF Pub
    <3>3. Below(doc[t], row[t])
      BY <1>1, <2>6, <3>2 DEF SearchInv, TargetInv, TargetOK
    <3> QED
      BY <1>3, <2>2, <2>3, <3>1, <3>3, CoveringAgrees
  <2> QED
    BY <2>5, <2>6
<1> QED
  BY <1>2, <1>3

\* Every step lets the external documents grow, whatever is published in
\* whichever order.
LEMMA DocGrows ==
  ASSUME SearchInv, [Next]_vars, NEW t \in Targets
  PROVE  Grow(doc[t], doc'[t])
<1>0. doc' = doc => Grow(doc[t], doc'[t])
  <2>1. doc[t] \in Indexed \cup {None}
    BY DEF SearchInv, TypeInv
  <2> QED
    BY <2>1, GrowSelf
<1>1. CASE UNCHANGED vars
  BY <1>0, <1>1 DEF vars
<1>2. CASE SourceStep
  BY <1>0, <1>2, SourceAdvances DEF Advances, SearchInv
<1>3. CASE \E w \in Workers : Handle(w)
  <2>1. PICK w \in Workers : Handle(w)
    BY <1>3
  <2>2. CASE Put(w)
    BY <2>2, PutFacts DEF DocMoves
  <2>3. CASE \E e \in Nums : Receive(w, e)
    BY <1>0, <2>3 DEF Receive, index
  <2>4. CASE Check(w) \/ ReadSource(w) \/ ReadACL(w) \/ Project(w)
    BY <1>0, <2>4 DEF Check, ReadSource, ReadACL, Project, index
  <2>5. CASE Load(w) \/ Settle(w) \/ Ack(w)
    BY <1>0, <2>5 DEF Load, Settle, Ack, index
  <2> QED
    BY <2>1, <2>2, <2>3, <2>4, <2>5 DEF Handle
<1>4. CASE \E w \in Workers : Crash(w)
  BY <1>0, <1>4 DEF Crash, index
<1>5. CASE \E w \in Workers : \E how \in {"retry", "skip"} : PutFails(w, how)
  BY <1>5, FailFacts, SnapshotFailFacts DEF DocMoves
<1>6. CASE \E w \in Workers, u \in Targets : Backfill(w, u)
  BY <1>0, <1>6 DEF Backfill, index
<1>7. CASE \E u \in Targets : ActivateTarget(u)
  BY <1>0, <1>7 DEF ActivateTarget, index
<1>8. CASE (\E w \in Workers : TargetFails(w)) \/ \E e \in Nums : NoTargets(e)
  BY <1>0, <1>8 DEF TargetFails, NoTargets, index
<1> QED
  BY <1>1, <1>2, <1>3, <1>4, <1>5, <1>6, <1>7, <1>8 DEF Next, SourceStep

\* Only ActivateTarget makes a generation active.
LEMMA GoesLive ==
  ASSUME SearchInv, [Next]_vars, NEW t \in Targets, gen[t] # "active", gen'[t] = "active"
  PROVE  ActivateTarget(t)
<1>0. gen' # gen /\ ~GenMoves
  BY DEF GenMoves
<1>1. ~UNCHANGED vars
  BY <1>0 DEF vars
<1>2. ~SourceStep
  BY <1>0, SourceAdvances DEF Advances, SearchInv
<1>3. ASSUME NEW w \in Workers, Handle(w) PROVE FALSE
  <2>1. CASE \E e \in Nums : Receive(w, e)
    BY <1>0, <2>1 DEF Receive, control
  <2>2. CASE Check(w) \/ ReadSource(w) \/ ReadACL(w) \/ Project(w)
    BY <1>0, <2>2 DEF Check, ReadSource, ReadACL, Project, control
  <2>3. CASE Load(w) \/ Put(w) \/ Ack(w)
    BY <1>0, <2>3 DEF Load, Put, Ack, control
  <2>4. CASE Settle(w) /\ wk[w].ev # 0
    BY <1>0, <2>4 DEF Settle, control
  <2>5. CASE Settle(w) /\ wk[w].ev = 0
    BY <1>0, <2>5, ScannedFacts
  <2> QED
    BY <1>3, <2>1, <2>2, <2>3, <2>4, <2>5 DEF Handle
<1>4. ~\E w \in Workers : Crash(w)
  BY <1>0 DEF Crash, control
<1>5. ASSUME NEW w \in Workers, NEW how \in {"retry", "skip"}, PutFails(w, how) PROVE FALSE
  BY <1>0, <1>5, FailFacts, SnapshotFailFacts
<1>6. ASSUME NEW w \in Workers, NEW u \in Targets, Backfill(w, u) PROVE FALSE
  BY <1>0, <1>6, BackfillFacts
<1>7. ASSUME NEW w \in Workers, TargetFails(w) PROVE FALSE
  <2>1. CASE wk[w].ev = 0
    BY <1>0, <1>7, <2>1, SnapshotStopsFacts
  <2>2. CASE wk[w].ev # 0
    BY <1>0, <1>7, <2>2, TargetFailsFacts
  <2> QED
    BY <2>1, <2>2
<1>8. ~\E e \in Nums : NoTargets(e)
  BY <1>0 DEF NoTargets, control
<1>9. PICK u \in Targets : ActivateTarget(u)
  BY <1>1, <1>2, <1>3, <1>4, <1>5, <1>6, <1>7, <1>8 DEF Next, SourceStep
<1>10. u = t
  BY <1>9, ActivatedFacts
<1> QED
  BY <1>9, <1>10

LEMMA LiveCovers ==
  ASSUME SearchInv, NEW t \in Targets, ActivateTarget(t), t \notin raced, NEW e \in Emissions, Begun(e, t)
  PROVE  Covers(doc[t], events[e])
<1>1. gen[t] = "building" /\ t \in scanned /\ Unfinished(t) = {}
  BY ActivatedFacts
<1>2. e \in Nums
  BY SearchAssumption DEF SearchInv, SourceInv, TypeInv, Emissions, Nums
<1>3. CASE ended[e] = "done"
  BY <1>1, <1>3 DEF SearchInv, ServedInv, Served, Kept, Owed
<1>4. CASE chk[<<e, t>>] # "none"
  <2>1. chk[<<e, t>>] \in Checkpoints /\ chk[<<e, t>>] \notin {"pending", "publishing", "failed"}
    BY <1>1, <1>2 DEF Unfinished, SearchInv, TypeInv
  <2> QED
    BY <1>4, <2>1 DEF Checkpoints, SearchInv, AckedInv
<1> QED
  BY <1>3, <1>4 DEF Begun

\* Every handled event is in the external document of every served generation,
\* and once all is quiet projection and document say what the file's row says
\* and carry every announced epoch (Handler, Snapshot, publishExternal),
\* except where a delete overtook a first projection or a read was torn.
THEOREM CaughtUpTheorem == Spec => []CaughtUp
<1>1. Init => SearchInv
  BY SearchInit
<1>2. SearchInv /\ [Next]_vars => SearchInv'
  BY SearchNext
<1>3. SearchInv => CaughtUp
  BY SearchCaughtUp
<1> QED
  BY <1>1, <1>2, <1>3, PTL DEF Spec

\* No publication takes a tombstone out of the external index, not even where
\* one of the two races has happened (the script of UpsertFile and
\* TombstoneFile).
THEOREM NeverRevivedTheorem == Spec => NeverRevived
<1>1. Init => SearchInv
  BY SearchInit
<1>2. SearchInv /\ [Next]_vars => SearchInv'
  BY SearchNext
<1>3. SearchInv /\ [Next]_vars => [\A t \in Targets : doc[t] # None /\ doc[t].dead => doc'[t].dead]_vars
  <2> SUFFICES ASSUME SearchInv, [Next]_vars, NEW t \in Targets, doc[t] # None, doc[t].dead
               PROVE  doc'[t].dead
    OBVIOUS
  <2>1. Grow(doc[t], doc'[t])
    BY DocGrows
  <2> QED
    BY <2>1 DEF Grow, Below
<1> QED
  BY <1>1, <1>2, <1>3, PTL DEF Spec, NeverRevived

\* A generation goes live with every event that was handled and every
\* publication that has begun: an unfinished checkpoint keeps it from going
\* live, and one that says indexed is true (ActivateTarget).
THEOREM ActivationTheorem == Spec => ActivatesCaughtUp
<1>1. Init => SearchInv
  BY SearchInit
<1>2. SearchInv /\ [Next]_vars => SearchInv'
  BY SearchNext
<1>3. SearchInv /\ [Next]_vars =>
        [\A t \in Targets : gen[t] # "active" /\ gen'[t] = "active" =>
           t \in raced \/ \A e \in 1 .. Len(events) : Begun(e, t) => Covers(doc[t], events[e])]_vars
  <2> SUFFICES ASSUME SearchInv, [Next]_vars, NEW t \in Targets, gen[t] # "active", gen'[t] = "active",
                      t \notin raced, NEW e \in Emissions, Begun(e, t)
               PROVE  Covers(doc[t], events[e])
    BY DEF Emissions
  <2>1. ActivateTarget(t)
    BY GoesLive
  <2> QED
    BY <2>1, LiveCovers
<1> QED
  BY <1>1, <1>2, <1>3, PTL DEF Spec, ActivatesCaughtUp

=============================================================================
