------------------------- MODULE ContentStoreProofs -------------------------
(***************************************************************************)
(* Proofs about ContentStore, for any number of sessions, users and        *)
(* workers, any number of faults and any number of lives of the object.    *)
(*                                                                         *)
(* Three ideas carry the invariant.  Versions of the row only grow, so a   *)
(* key is fresh, that is, about to become the key of a new life, once.     *)
(* Every deletion names a key older than the row, so it never names the    *)
(* key of a ready object nor a fresh one.  And as long as no actor         *)
(* outlives its lease, an actor at work owns its row, so nothing is copied *)
(* behind the back of a deletion that found no copy running.               *)
(***************************************************************************)
EXTENDS ContentStore, FiniteSetTheorems, TLAPS

-----------------------------------------------------------------------------
(* The inductive invariant *)

\* A key whose next publication or adoption creates or revives the row, and a key
\* that is fresh or belongs to an earlier life.
Fresh(k) == (obj.status = "none" /\ k = 0) \/ (obj.status = "deleted" /\ k = obj.ver)
Known(k) == IF obj.status = "none" THEN k = 0 ELSE k < obj.ver \/ Fresh(k)

\* Versions only grow, so a key is fresh once.
RowInv ==
  /\ obj.status = "none" => obj.refs = 0 /\ obj.ver = 0
  /\ obj.status # "none" => obj.key < obj.ver
  /\ IsFiniteSet(live)

\* A copy that was asked for: the session behind it is still verifying as long as
\* its key is fresh, and it is given up only with that session.
Requested(k) ==
  LET row == ensure[k] IN
  /\ Known(k) /\ row.by \in Sessions
  /\ row.state = "running" => row.owner \in Actors
  /\ up[row.by] # "verifying" => ~Fresh(k)
  /\ row.state # "succeeded" => Fresh(k) \/ up[row.by] = "failed"
  /\ row.state = "succeeded" /\ Fresh(k) => k \in blob
EnsureInv ==
  /\ \A k \in Keys : ensure[k].state # "absent" => Requested(k)
  /\ obj.status = "ready" => ensure[obj.key].state = "succeeded"

\* A deletion names a key of an earlier life, or of this one once it is ending.
DelInv ==
  \A v \in Versions : del[v].state # "absent" =>
    /\ obj.status # "none" /\ del[v].key < obj.ver
    /\ obj.status = "ready" => del[v].key # obj.key
    /\ del[v].state = "running" => del[v].owner \in Actors

\* What an actor knows of the row it works on.
Copying(a) ==
  /\ job[a].pc \in {"exec", "check", "copy", "mark", "final", "fail", "err"}
  /\ Known(job[a].k)
  /\ job[a].pc \in {"exec", "check", "copy", "mark", "err"} => ensure[job[a].k].state # "absent"
  /\ job[a].pc = "mark" /\ Fresh(job[a].k) => job[a].k \in blob
  /\ job[a].pc = "final" /\ Fresh(job[a].k) => ensure[job[a].k].state = "succeeded"
Deleting(a) ==
  /\ job[a].pc \in {"verdict", "remove", "commit", "err"} /\ a \notin Sessions
  /\ del[job[a].k].state # "absent"
JobOK(a) ==
  \/ job[a].pc = "idle"
  \/ job[a].kind = "ensure" /\ Copying(a)
  \/ job[a].kind = "delete" /\ Deleting(a)
JobInv == \A a \in Actors : JobOK(a)

SafetyInv == TypeOK /\ RowInv /\ EnsureInv /\ DelInv /\ JobInv /\ ReferencesExact /\ ReadyBytesExist

\* As long as no actor outlived its lease: who is at work owns the row, a copy is
\* under way only to a key that is still needed or that a deletion waits for,
\* nothing is copied behind the back of a deletion, which therefore leaves nothing
\* behind, and all bytes belong to the row or to a copy that was asked for.
AtWork == {"check", "copy", "mark", "verdict", "remove", "commit", "err"}
OwnersInv == \A a \in Actors : job[a].pc \in AtWork => Owns(a)
CopiesInv ==
  \A a \in Actors : job[a].pc = "copy" => Fresh(job[a].k) \/ (obj.status = "deleting" /\ obj.key = job[a].k)
BehindInv ==
  \A w, a \in Actors : job[w].pc \in {"remove", "commit"} /\ job[a].pc = "copy" => job[a].k # del[job[w].k].key
GoneInv == \A w \in Actors : job[w].pc = "commit" => del[job[w].k].key \notin blob
Kept(k) == Fresh(k) \/ (obj.key = k /\ obj.status \in {"ready", "deleting"})
BytesInv == \A k \in blob : ensure[k].state # "absent" /\ Kept(k)
LeaseInv == OwnersInv /\ CopiesInv /\ BehindInv /\ GoneInv /\ BytesInv

IInv == SafetyInv /\ (faults.outlived \/ LeaseInv)

-----------------------------------------------------------------------------
(* Lemmas about the state and its operators *)

\* The fields of the records.
LEMMA Fields ==
  ASSUME TypeOK
  PROVE  /\ obj.status \in {"none", "ready", "deleting", "deleted"}
         /\ obj.key \in Keys /\ obj.key \in Nat /\ obj.ver \in Keys /\ obj.ver \in Nat /\ obj.refs \in Nat
         /\ \A k \in Keys : /\ ensure[k].state \in OpStates /\ ensure[k].by \in Sessions \cup {Nobody}
                            /\ ensure[k].owner \in Actors \cup {Nobody}
         /\ \A v \in Keys : /\ del[v].state \in OpStates /\ del[v].key \in Keys /\ del[v].key \in Nat
                            /\ del[v].owner \in Actors \cup {Nobody}
         /\ \A a \in Actors : /\ job[a].pc \in Steps /\ job[a].kind \in {"none", "ensure", "delete"}
                              /\ job[a].k \in Keys
         /\ 0 \in Keys
<1>1. Keys \subseteq Nat /\ 0 \in Keys /\ Keys = Versions
  BY ContentAssumption DEF Keys, Versions
<1>2. /\ obj.status \in {"none", "ready", "deleting", "deleted"}
      /\ obj.key \in Keys /\ obj.ver \in Keys /\ obj.refs \in Nat
  BY <1>1 DEF TypeOK
<1>3. \A k \in Keys : /\ ensure[k].state \in OpStates /\ ensure[k].by \in Sessions \cup {Nobody}
                      /\ ensure[k].owner \in Actors \cup {Nobody}
  BY DEF TypeOK
<1>4. \A v \in Keys : /\ del[v].state \in OpStates /\ del[v].key \in Keys
                      /\ del[v].owner \in Actors \cup {Nobody}
  BY <1>1 DEF TypeOK
<1>5. \A a \in Actors : /\ job[a].pc \in Steps /\ job[a].kind \in {"none", "ensure", "delete"}
                        /\ job[a].k \in Keys
  BY DEF TypeOK
<1> QED
  BY <1>1, <1>2, <1>3, <1>4, <1>5

\* What the jobs' phases and rows say of the job's kind.
LEMMA Kinds ==
  ASSUME TypeOK, JobInv, NEW a \in Actors
  PROVE  /\ job[a].pc \in {"exec", "check", "copy", "mark", "final", "fail"} => job[a].kind = "ensure" /\ Copying(a)
         /\ job[a].pc \in {"verdict", "remove", "commit"} => job[a].kind = "delete" /\ Deleting(a)
         /\ job[a].pc = "err" =>
              \/ job[a].kind = "ensure" /\ Copying(a)
              \/ job[a].kind = "delete" /\ Deleting(a)
  BY Fields, SMT DEF JobInv, JobOK, Copying, Deleting

\* A step that leaves the object row alone.
LEMMA SameRow ==
  ASSUME obj' = obj
  PROVE  /\ \A k \in Keys : (Fresh(k)' <=> Fresh(k)) /\ (Known(k)' <=> Known(k))
  BY DEF Fresh, Known

\* A step that writes a row which is ready or being deleted afterwards: no key is
\* fresh and all the known ones stay known.
LEMMA LiveRow ==
  ASSUME TypeOK, obj'.status \in {"ready", "deleting"}, obj'.ver \in Nat, obj'.ver > obj.ver
  PROVE  \A k \in Keys : ~Fresh(k)' /\ (Known(k) => Known(k)')
  BY Fields, ContentAssumption, SMT DEF Fresh, Known, Keys, Versions

\* The end of a life: the only fresh key is one that nobody knew.
LEMMA RetiredRow ==
  ASSUME TypeOK, obj.status = "deleting", obj'.status = "deleted", obj'.ver = obj.ver + 1
  PROVE  \A k \in Keys : (Fresh(k)' => ~Known(k)) /\ (Known(k) => Known(k)')
  BY Fields, ContentAssumption, SMT DEF Fresh, Known, Keys, Versions

\* While the row is ready or being deleted no key is fresh.
LEMMA NoneFresh ==
  ASSUME obj.status \in {"ready", "deleting"}, NEW k \in Keys
  PROVE  ~Fresh(k)
  BY DEF Fresh

\* There is one fresh key, and a known key that may be reused is fresh.
LEMMA OneFresh ==
  ASSUME TypeOK, obj.status \in {"none", "deleted"}
  PROVE  /\ \A j, k \in Keys : Fresh(j) /\ Fresh(k) => j = k
         /\ \A k \in Keys : Known(k) /\ Reusable(k) => Fresh(k)
  BY Fields, SMT DEF Fresh, Known, Reusable, RevivalKey

\* A deletion names no fresh key.
LEMMA DeletedNotFresh ==
  ASSUME TypeOK, DelInv, NEW v \in Keys, del[v].state # "absent"
  PROVE  ~Fresh(del[v].key)
  BY Fields, SMT DEF DelInv, Fresh, Keys

\* Rows, as a claim or an end of a job writes them.
LEMMA SetRowTypes ==
  ASSUME TypeOK, NEW kind \in {"ensure", "delete"}, NEW k \in Keys, NEW state \in OpStates,
         NEW owner \in Actors \cup {Nobody}, SetRow(kind, k, state, owner)
  PROVE  /\ ensure' \in [Keys -> [state : OpStates, by : Sessions \cup {Nobody}, owner : Actors \cup {Nobody}]]
         /\ del' \in [Versions -> [state : OpStates, key : Keys, owner : Actors \cup {Nobody}]]
         /\ kind = "ensure" => /\ ensure'[k].state = state /\ ensure'[k].owner = owner /\ ensure'[k].by = ensure[k].by
                               /\ \A j \in Keys \ {k} : ensure'[j] = ensure[j]
                               /\ del' = del
         /\ kind = "delete" => /\ del'[k].state = state /\ del'[k].owner = owner /\ del'[k].key = del[k].key
                               /\ \A j \in Keys \ {k} : del'[j] = del[j]
                               /\ ensure' = ensure
<1>1. CASE kind = "ensure"
  <2> DEFINE T == [state : OpStates, by : Sessions \cup {Nobody}, owner : Actors \cup {Nobody}]
             r == [ensure[k] EXCEPT !.state = state, !.owner = owner]
  <2>1. ensure \in [Keys -> T] /\ ensure[k] \in T
    BY DEF TypeOK, Keys
  <2>2. r \in T /\ r.state = state /\ r.owner = owner /\ r.by = ensure[k].by
    BY <2>1
  <2>3. ensure' = [ensure EXCEPT ![k] = r] /\ del' = del
    BY <1>1, <2>1 DEF SetRow
  <2> HIDE DEF T, r
  <2>4. ensure' \in [Keys -> T] /\ ensure'[k] = r /\ \A j \in Keys \ {k} : ensure'[j] = ensure[j]
    BY <2>1, <2>2, <2>3
  <2> QED
    BY <1>1, <2>2, <2>3, <2>4 DEF T, TypeOK, Keys
<1>2. CASE kind = "delete"
  <2> DEFINE T == [state : OpStates, key : Keys, owner : Actors \cup {Nobody}]
             r == [del[k] EXCEPT !.state = state, !.owner = owner]
  <2>1. del \in [Keys -> T] /\ del[k] \in T
    BY DEF TypeOK, Keys
  <2>2. r \in T /\ r.state = state /\ r.owner = owner /\ r.key = del[k].key
    BY <2>1
  <2>3. del' = [del EXCEPT ![k] = r] /\ ensure' = ensure
    BY <1>2, <2>1 DEF SetRow
  <2> HIDE DEF T, r
  <2>4. del' \in [Keys -> T] /\ del'[k] = r /\ \A j \in Keys \ {k} : del'[j] = del[j]
    BY <2>1, <2>2, <2>3
  <2> QED
    BY <1>2, <2>2, <2>3, <2>4 DEF T, TypeOK, Keys
<1> QED
  BY <1>1, <1>2

\* Jobs, as a step of one actor writes them.
LEMMA GoTypes ==
  ASSUME TypeOK, NEW a \in Actors, NEW pc \in Steps, Go(a, pc)
  PROVE  /\ job' \in [Actors -> [pc : Steps, kind : {"none", "ensure", "delete"}, k : Keys]]
         /\ job'[a].pc = pc /\ job'[a].kind = job[a].kind /\ job'[a].k = job[a].k
         /\ \A b \in Actors \ {a} : job'[b] = job[b]
<1> DEFINE Job == [pc : Steps, kind : {"none", "ensure", "delete"}, k : Keys]
           j == [job[a] EXCEPT !.pc = pc]
<1>1. job \in [Actors -> Job] /\ job' = [job EXCEPT ![a] = j]
  BY DEF TypeOK, Go
<1>2. job[a] \in Job
  BY <1>1
<1>3. j \in Job /\ j.pc = pc /\ j.kind = job[a].kind /\ j.k = job[a].k
  BY <1>2
<1> HIDE DEF Job, j
<1>4. job' \in [Actors -> Job] /\ job'[a] = j /\ \A b \in Actors \ {a} : job'[b] = job[b]
  BY <1>1, <1>3
<1> QED
  BY <1>3, <1>4 DEF Job

LEMMA IdleTypes ==
  ASSUME TypeOK, NEW a \in Actors, job' = [job EXCEPT ![a] = Idle]
  PROVE  /\ job' \in [Actors -> [pc : Steps, kind : {"none", "ensure", "delete"}, k : Keys]]
         /\ job'[a].pc = "idle"
         /\ \A b \in Actors \ {a} : job'[b] = job[b]
  BY Fields, SMT DEF TypeOK, Idle, Steps

LEMMA StartTypes ==
  ASSUME TypeOK, NEW a \in Actors, NEW pc \in Steps, NEW kind \in {"ensure", "delete"}, NEW k \in Keys,
         job' = [job EXCEPT ![a] = [pc |-> pc, kind |-> kind, k |-> k]]
  PROVE  /\ job' \in [Actors -> [pc : Steps, kind : {"none", "ensure", "delete"}, k : Keys]]
         /\ job'[a].pc = pc /\ job'[a].kind = kind /\ job'[a].k = k
         /\ \A b \in Actors \ {a} : job'[b] = job[b]
  BY SMT DEF TypeOK

LEMMA FaultTypes ==
  ASSUME TypeOK, NEW o \in BOOLEAN, Fault(o)
  PROVE  faults' \in [n : 0 .. MaxFaults, outlived : BOOLEAN]
  <1>1. faults.n + 1 \in 0 .. MaxFaults
    BY ContentAssumption, SMT DEF TypeOK, Fault
  <1>2. (faults.outlived \/ o) \in BOOLEAN
    OBVIOUS
  <1> QED
    BY <1>1, <1>2, SMT DEF Fault

-----------------------------------------------------------------------------
(* What steps have in common *)

\* What no step takes back: rows stay, a copy that is done stays done, keys stay
\* known, and a key that is known does not become fresh; bytes at a fresh key stay.
Forward ==
  \A k \in Keys :
    /\ ensure[k].state # "absent" => ensure'[k].state # "absent"
    /\ ensure[k].state = "succeeded" => ensure'[k].state = "succeeded"
    /\ del[k].state # "absent" => del'[k].state # "absent"
    /\ Known(k) => Known(k)' /\ (Fresh(k)' => Fresh(k))
    /\ Fresh(k)' /\ k \in blob => k \in blob'

\* So a job that did not move knows what it knew.
LEMMA OtherJobs ==
  ASSUME TypeOK, Forward, NEW b \in Actors, JobOK(b), job'[b] = job[b]
  PROVE  JobOK(b)'
<1>1. job[b].k \in Keys
  BY Fields
<1> QED
  BY <1>1 DEF JobOK, Copying, Deleting, Forward

\* A step that writes one row that is pending or running.
LEMMA RowWritten ==
  ASSUME SafetyInv, NEW kind \in {"ensure", "delete"}, NEW k \in Keys, NEW state \in OpStates \ {"absent"},
         NEW owner \in Actors \cup {Nobody}, SetRow(kind, k, state, owner),
         Row(kind, k).state \in {"pending", "running"},
         state = "running" => owner \in Actors,
         kind = "ensure" /\ state = "succeeded" /\ Fresh(k) => k \in blob,
         UNCHANGED <<obj, live, up, blob>>
  PROVE  EnsureInv' /\ DelInv' /\ Forward /\ RowInv' /\ ReferencesExact' /\ ReadyBytesExist'
<1>0. TypeOK /\ RowInv /\ EnsureInv /\ DelInv /\ ReferencesExact /\ ReadyBytesExist
  BY DEF SafetyInv
<1>1. \A j \in Keys : (Fresh(j)' <=> Fresh(j)) /\ (Known(j)' <=> Known(j))
  BY SameRow
<1>2. RowInv' /\ ReferencesExact' /\ ReadyBytesExist'
  BY <1>0 DEF RowInv, ReferencesExact, ReadyBytesExist
<1>3. CASE kind = "ensure"
  <2>1. /\ ensure'[k].state = state /\ ensure'[k].owner = owner /\ ensure'[k].by = ensure[k].by
        /\ \A j \in Keys \ {k} : ensure'[j] = ensure[j]
        /\ del' = del
    BY <1>0, <1>3, SetRowTypes
  <2>2. ensure[k].state \in {"pending", "running"}
    BY <1>3 DEF Row
  <2>3. EnsureInv'
    <3>1. ASSUME NEW j \in Keys, ensure'[j].state # "absent" PROVE Requested(j)'
      <4>1. Requested(j)
        BY <3>1, <2>1, <2>2, <1>0 DEF EnsureInv
      <4>2. CASE j = k
        BY <4>1, <4>2, <2>1, <2>2, <1>1, <1>3 DEF Requested
      <4>3. CASE j # k
        BY <4>1, <4>3, <2>1, <1>1 DEF Requested
      <4> QED
        BY <4>2, <4>3
    <3>2. obj'.status = "ready" => ensure'[obj'.key].state = "succeeded"
      BY <1>0, <2>1, <2>2, Fields DEF EnsureInv
    <3> QED
      BY <3>1, <3>2 DEF EnsureInv
  <2>4. DelInv'
    BY <1>0, <2>1 DEF DelInv
  <2>5. Forward
    BY <1>1, <2>1, <2>2 DEF Forward
  <2> QED
    BY <1>2, <2>3, <2>4, <2>5
<1>4. CASE kind = "delete"
  <2>1. /\ del'[k].state = state /\ del'[k].owner = owner /\ del'[k].key = del[k].key
        /\ \A j \in Keys \ {k} : del'[j] = del[j]
        /\ ensure' = ensure
    BY <1>0, <1>4, SetRowTypes
  <2>2. del[k].state \in {"pending", "running"}
    BY <1>4 DEF Row
  <2>3. EnsureInv'
    BY <1>0, <1>1, <2>1 DEF EnsureInv, Requested
  <2>4. DelInv'
    BY <1>0, <2>1, <2>2, Fields DEF DelInv, Keys
  <2>5. Forward
    BY <1>1, <2>1, <2>2 DEF Forward
  <2> QED
    BY <1>2, <2>3, <2>4, <2>5
<1> QED
  BY <1>3, <1>4

\* A step that leaves the rows alone and removes no bytes that are needed.
LEMMA RowsKept ==
  ASSUME SafetyInv, UNCHANGED <<obj, live, up, ensure, del>>,
         \A k \in Keys : k \in blob /\ (Fresh(k) \/ (obj.status = "ready" /\ k = obj.key)) => k \in blob'
  PROVE  EnsureInv' /\ DelInv' /\ Forward /\ RowInv' /\ ReferencesExact' /\ ReadyBytesExist'
<1>0. TypeOK /\ RowInv /\ EnsureInv /\ DelInv /\ ReferencesExact /\ ReadyBytesExist
  BY DEF SafetyInv
<1>1. \A j \in Keys : (Fresh(j)' <=> Fresh(j)) /\ (Known(j)' <=> Known(j))
  BY SameRow
<1>2. RowInv' /\ ReferencesExact'
  BY <1>0 DEF RowInv, ReferencesExact
<1>3. ReadyBytesExist'
  BY <1>0, Fields DEF ReadyBytesExist
<1>4. EnsureInv'
  BY <1>0, <1>1 DEF EnsureInv, Requested
<1>5. DelInv'
  BY <1>0 DEF DelInv
<1>6. Forward
  BY <1>1 DEF Forward
<1> QED
  BY <1>2, <1>3, <1>4, <1>5, <1>6

LEMMA OneJobMoves ==
  ASSUME TypeOK, JobInv, Forward, NEW a \in Actors, JobOK(a)',
         \A b \in Actors \ {a} : job'[b] = job[b]
  PROVE  JobInv'
<1>1. ASSUME NEW b \in Actors, b # a PROVE JobOK(b)'
  BY <1>1, OtherJobs DEF JobInv
<1> QED
  BY <1>1 DEF JobInv

LEMMA FinishTypes ==
  ASSUME TypeOK, NEW a \in Actors, Finish(a)
  PROVE  /\ job' \in [Actors -> [pc : Steps, kind : {"none", "ensure", "delete"}, k : Keys]]
         /\ \A b \in Actors \ {a} : job'[b] = job[b]
         /\ \/ job'[a].pc = "idle"
            \/ a \in Sessions /\ job'[a].pc = "final" /\ job'[a].kind = job[a].kind /\ job'[a].k = job[a].k
<1>1. CASE a \in Sessions
  BY <1>1, GoTypes DEF Finish, Steps
<1>2. CASE a \notin Sessions
  BY <1>2, IdleTypes DEF Finish
<1> QED
  BY <1>1, <1>2

\* The end of a job while the object row does not move.
LEMMA SucceedInv ==
  ASSUME SafetyInv, NEW a \in Actors, Succeed(a),
         job[a].pc \in {"check", "mark", "verdict"},
         job[a].kind = "ensure" /\ Fresh(job[a].k) => job[a].k \in blob,
         UNCHANGED <<obj, live, imported, blob, up, staged, faults>>
  PROVE  SafetyInv'
<1>0. TypeOK /\ JobInv
  BY DEF SafetyInv
<1>1. /\ job[a].k \in Keys /\ job[a].pc \in Steps
      /\ \/ job[a].kind = "ensure" /\ Copying(a)
         \/ job[a].kind = "delete" /\ Deleting(a)
  BY <1>0, Fields, Kinds
<1>2. \A j \in Keys : (Fresh(j)' <=> Fresh(j)) /\ (Known(j)' <=> Known(j))
  BY SameRow
<1>3. CASE Owns(a)
  <2>1. SetRow(job[a].kind, job[a].k, "succeeded", Nobody) /\ Finish(a)
    BY <1>3 DEF Succeed
  <2>2. Row(job[a].kind, job[a].k).state = "running"
    BY <1>3 DEF Owns, RowOf
  <2>3. EnsureInv' /\ DelInv' /\ Forward /\ RowInv' /\ ReferencesExact' /\ ReadyBytesExist'
    BY <1>1, <2>1, <2>2, RowWritten DEF OpStates
  <2>4. TypeOK'
    <3>1. /\ ensure' \in [Keys -> [state : OpStates, by : Sessions \cup {Nobody}, owner : Actors \cup {Nobody}]]
          /\ del' \in [Versions -> [state : OpStates, key : Keys, owner : Actors \cup {Nobody}]]
      BY <1>0, <1>1, <2>1, SetRowTypes DEF OpStates
    <3>2. job' \in [Actors -> [pc : Steps, kind : {"none", "ensure", "delete"}, k : Keys]]
      BY <1>0, <2>1, FinishTypes
    <3> QED
      BY <1>0, <3>1, <3>2 DEF TypeOK
  <2>5. JobOK(a)'
    <3>1. CASE job[a].kind = "ensure"
      <4>1. ensure'[job[a].k].state = "succeeded"
        BY <1>0, <1>1, <2>1, <3>1, SetRowTypes DEF OpStates
      <4> QED
        BY <1>0, <1>1, <1>2, <2>1, <3>1, <4>1, FinishTypes DEF JobOK, Copying
    <3>2. CASE job[a].kind = "delete"
      BY <1>0, <1>1, <2>1, <3>2, FinishTypes DEF JobOK, Deleting
    <3> QED
      BY <1>1, <3>1, <3>2
  <2>6. JobInv'
    BY <1>0, <2>1, <2>3, <2>5, FinishTypes, OneJobMoves
  <2> QED
    BY <2>3, <2>4, <2>6 DEF SafetyInv
<1>4. CASE ~Owns(a)
  <2>1. UNCHANGED <<ensure, del>> /\ (IF RowOf(a).state = "succeeded" THEN Finish(a) ELSE Go(a, "err"))
    BY <1>4 DEF Succeed
  <2>2. EnsureInv' /\ DelInv' /\ Forward /\ RowInv' /\ ReferencesExact' /\ ReadyBytesExist'
    BY <2>1, RowsKept
  <2>3. CASE RowOf(a).state = "succeeded"
    <3>1. Finish(a)
      BY <2>1, <2>3
    <3>2. TypeOK'
      BY <1>0, <2>1, <3>1, FinishTypes DEF TypeOK
    <3>3. JobOK(a)'
      <4>1. CASE job[a].kind = "ensure"
        <5>1. ensure'[job[a].k].state = "succeeded"
          BY <2>1, <2>3, <4>1 DEF RowOf, Row
        <5> QED
          BY <1>0, <1>1, <1>2, <3>1, <4>1, <5>1, FinishTypes DEF JobOK, Copying
      <4>2. CASE job[a].kind = "delete"
        BY <1>0, <1>1, <3>1, <4>2, FinishTypes DEF JobOK, Deleting
      <4> QED
        BY <1>1, <4>1, <4>2
    <3> QED
      BY <1>0, <2>2, <3>1, <3>2, <3>3, FinishTypes, OneJobMoves DEF SafetyInv
  <2>4. CASE RowOf(a).state # "succeeded"
    <3>1. Go(a, "err")
      BY <2>1, <2>4
    <3>2. TypeOK'
      BY <1>0, <2>1, <3>1, GoTypes DEF TypeOK, Steps
    <3>3. /\ job'[a].pc = "err" /\ job'[a].kind = job[a].kind /\ job'[a].k = job[a].k
          /\ \A b \in Actors \ {a} : job'[b] = job[b]
      BY <1>0, <3>1, GoTypes DEF Steps
    <3>4. JobOK(a)'
      BY <1>0, <1>1, <1>2, <2>1, <3>3 DEF JobOK, Copying, Deleting
    <3> QED
      BY <1>0, <2>2, <3>2, <3>3, <3>4, OneJobMoves DEF SafetyInv
  <2> QED
    BY <2>3, <2>4
<1> QED
  BY <1>3, <1>4

\* A step that moves one job, and perhaps bytes, but no row.
LEMMA JobMoves ==
  ASSUME SafetyInv, NEW a \in Actors, JobOK(a)',
         UNCHANGED <<obj, live, imported, up, staged, ensure, del>>,
         faults' \in [n : 0 .. MaxFaults, outlived : BOOLEAN],
         job' \in [Actors -> [pc : Steps, kind : {"none", "ensure", "delete"}, k : Keys]],
         \A b \in Actors \ {a} : job'[b] = job[b],
         blob' \subseteq Keys,
         \A k \in Keys : k \in blob /\ (Fresh(k) \/ (obj.status = "ready" /\ k = obj.key)) => k \in blob'
  PROVE  SafetyInv'
<1>0. TypeOK /\ JobInv
  BY DEF SafetyInv
<1>1. EnsureInv' /\ DelInv' /\ Forward /\ RowInv' /\ ReferencesExact' /\ ReadyBytesExist'
  BY RowsKept
<1>2. TypeOK'
  BY <1>0 DEF TypeOK
<1>3. JobInv'
  BY <1>0, <1>1, OneJobMoves
<1> QED
  BY <1>1, <1>2, <1>3 DEF SafetyInv

\* A step that writes one row that is pending or running, and moves one job.
LEMMA RowAndJob ==
  ASSUME SafetyInv, NEW a \in Actors, JobOK(a)',
         NEW kind \in {"ensure", "delete"}, NEW k \in Keys, NEW state \in {"pending", "running", "dead"},
         NEW owner \in Actors \cup {Nobody}, SetRow(kind, k, state, owner),
         Row(kind, k).state \in {"pending", "running"},
         state = "running" => owner \in Actors,
         UNCHANGED <<obj, live, imported, blob, up, staged>>,
         faults' \in [n : 0 .. MaxFaults, outlived : BOOLEAN],
         job' \in [Actors -> [pc : Steps, kind : {"none", "ensure", "delete"}, k : Keys]],
         \A b \in Actors \ {a} : job'[b] = job[b]
  PROVE  SafetyInv'
<1>0. TypeOK /\ JobInv
  BY DEF SafetyInv
<1>1. EnsureInv' /\ DelInv' /\ Forward /\ RowInv' /\ ReferencesExact' /\ ReadyBytesExist'
  BY RowWritten DEF OpStates
<1>2. TypeOK'
  <2>1. /\ ensure' \in [Keys -> [state : OpStates, by : Sessions \cup {Nobody}, owner : Actors \cup {Nobody}]]
        /\ del' \in [Versions -> [state : OpStates, key : Keys, owner : Actors \cup {Nobody}]]
    BY <1>0, SetRowTypes DEF OpStates
  <2> QED
    BY <1>0, <2>1 DEF TypeOK
<1>3. JobInv'
  BY <1>0, <1>1, OneJobMoves
<1> QED
  BY <1>1, <1>2, <1>3 DEF SafetyInv

\* What a claim finds and leaves.
LEMMA ClaimableRow ==
  ASSUME TypeOK, NEW kind \in {"ensure", "delete"}, NEW k \in Keys, Claimable(kind, k)
  PROVE  /\ Row(kind, k).state \in {"pending", "running"}
         /\ faults' \in [n : 0 .. MaxFaults, outlived : BOOLEAN]
<1>1. Row(kind, k).state \in {"pending", "running"}
  BY DEF Claimable, Due, Slow
<1>2. CASE UNCHANGED faults
  BY <1>1, <1>2 DEF TypeOK
<1>3. CASE Fault(TRUE)
  BY <1>1, <1>3, FaultTypes
<1> QED
  BY <1>2, <1>3 DEF Claimable

-----------------------------------------------------------------------------
(* The actions *)

LEMMA IdleInv ==
  ASSUME SafetyInv, NEW a \in Actors, job' = [job EXCEPT ![a] = Idle],
         UNCHANGED <<obj, live, imported, blob, up, staged, ensure, del>>,
         faults' \in [n : 0 .. MaxFaults, outlived : BOOLEAN]
  PROVE  SafetyInv'
<1>0. TypeOK
  BY DEF SafetyInv
<1>1. JobOK(a)'
  BY <1>0, IdleTypes DEF JobOK
<1>2. blob' \subseteq Keys
  BY <1>0 DEF TypeOK
<1> QED
  BY <1>0, <1>1, <1>2, IdleTypes, JobMoves

LEMMA QuietTaskInv ==
  ASSUME SafetyInv, NEW s \in Sessions, EnsureTimesOut(s) \/ FailAgain(s)
  PROVE  SafetyInv'
<1>0. TypeOK /\ s \in Actors
  BY DEF SafetyInv, Actors
<1>1. faults' \in [n : 0 .. MaxFaults, outlived : BOOLEAN]
  BY <1>0 DEF EnsureTimesOut, FailAgain, TypeOK
<1> QED
  BY <1>0, <1>1, IdleInv DEF EnsureTimesOut, FailAgain

LEMMA CrashInv ==
  ASSUME SafetyInv, NEW a \in Actors, Crash(a)
  PROVE  SafetyInv'
<1>0. TypeOK
  BY DEF SafetyInv
<1>1. faults' \in [n : 0 .. MaxFaults, outlived : BOOLEAN]
  BY <1>0, FaultTypes DEF Crash
<1> QED
  BY <1>0, <1>1, IdleInv DEF Crash

LEMMA DeleteStagingInv ==
  ASSUME SafetyInv, NEW s \in Sessions, DeleteStaging(s)
  PROVE  SafetyInv'
<1>0. TypeOK /\ JobInv
  BY DEF SafetyInv
<1>1. EnsureInv' /\ DelInv' /\ Forward /\ RowInv' /\ ReferencesExact' /\ ReadyBytesExist'
  BY RowsKept DEF DeleteStaging
<1>2. TypeOK'
  BY <1>0 DEF TypeOK, DeleteStaging
<1>3. JobInv'
  BY <1>0, <1>1, OtherJobs DEF JobInv, DeleteStaging
<1> QED
  BY <1>1, <1>2, <1>3 DEF SafetyInv

LEMMA ExecuteInv ==
  ASSUME SafetyInv, NEW s \in Sessions, ExecuteCanonicalEnsure(s)
  PROVE  SafetyInv'
<1>0. TypeOK /\ JobInv /\ s \in Actors /\ job[s].k \in Keys
  BY Fields DEF SafetyInv, Actors
<1>1. job[s].pc = "exec" /\ job[s].kind = "ensure" /\ Copying(s)
  BY <1>0, Kinds DEF ExecuteCanonicalEnsure
<1>2. UNCHANGED <<obj, live, imported, blob, up, staged>>
  BY DEF ExecuteCanonicalEnsure
<1>3. \A j \in Keys : (Fresh(j)' <=> Fresh(j)) /\ (Known(j)' <=> Known(j))
  BY <1>2, SameRow
<1>4. CASE Claimable("ensure", job[s].k) /\ SetRow("ensure", job[s].k, "running", s) /\ Go(s, "check")
  <2>1. /\ job'[s].pc = "check" /\ job'[s].kind = job[s].kind /\ job'[s].k = job[s].k
        /\ \A b \in Actors \ {s} : job'[b] = job[b]
        /\ job' \in [Actors -> [pc : Steps, kind : {"none", "ensure", "delete"}, k : Keys]]
    BY <1>0, <1>4, GoTypes DEF Steps
  <2>2. ensure'[job[s].k].state = "running"
    BY <1>0, <1>4, SetRowTypes DEF OpStates
  <2>3. JobOK(s)'
    BY <1>0, <1>1, <1>3, <2>1, <2>2 DEF JobOK, Copying
  <2> QED
    BY <1>0, <1>2, <1>4, <2>1, <2>3, ClaimableRow, RowAndJob
<1>5. CASE /\ ensure[job[s].k].state \in {"succeeded", "dead"}
           /\ Go(s, IF ensure[job[s].k].state = "dead" THEN "fail" ELSE "final")
           /\ UNCHANGED <<ensure, del, faults>>
  <2> DEFINE pc == IF ensure[job[s].k].state = "dead" THEN "fail" ELSE "final"
  <2>1. pc \in Steps
    BY DEF Steps
  <2>2. /\ job'[s].pc = pc /\ job'[s].kind = job[s].kind /\ job'[s].k = job[s].k
        /\ \A b \in Actors \ {s} : job'[b] = job[b]
        /\ job' \in [Actors -> [pc : Steps, kind : {"none", "ensure", "delete"}, k : Keys]]
    BY <1>0, <1>5, <2>1, GoTypes
  <2>3. JobOK(s)'
    BY <1>0, <1>1, <1>3, <1>5, <2>2 DEF JobOK, Copying
  <2>4. faults' \in [n : 0 .. MaxFaults, outlived : BOOLEAN] /\ blob' \subseteq Keys
    BY <1>0, <1>2, <1>5 DEF TypeOK
  <2> QED
    BY <1>0, <1>2, <1>5, <2>2, <2>3, <2>4, JobMoves
<1> QED
  BY <1>4, <1>5 DEF ExecuteCanonicalEnsure

LEMMA ClaimInv ==
  ASSUME SafetyInv, NEW w \in Workers, NEW kind \in {"ensure", "delete"}, NEW k \in Keys, Claim(w, kind, k)
  PROVE  SafetyInv'
<1>0. TypeOK /\ JobInv /\ EnsureInv /\ w \in Actors /\ w \notin Sessions
  BY ContentAssumption DEF SafetyInv, Actors
<1>1. UNCHANGED <<obj, live, imported, blob, up, staged>>
  BY DEF Claim
<1>2. \A j \in Keys : (Fresh(j)' <=> Fresh(j)) /\ (Known(j)' <=> Known(j))
  BY <1>1, SameRow
<1> DEFINE pc == IF kind = "ensure" THEN "check" ELSE "verdict"
<1>3. pc \in Steps
  BY DEF Steps
<1>4. job' = [job EXCEPT ![w] = [pc |-> pc, kind |-> kind, k |-> k]]
  BY DEF Claim
<1>5. /\ job'[w].pc = pc /\ job'[w].kind = kind /\ job'[w].k = k
      /\ \A b \in Actors \ {w} : job'[b] = job[b]
      /\ job' \in [Actors -> [pc : Steps, kind : {"none", "ensure", "delete"}, k : Keys]]
  BY <1>0, <1>3, <1>4, StartTypes
<1>6. /\ SetRow(kind, k, "running", w) /\ Row(kind, k).state \in {"pending", "running"}
      /\ faults' \in [n : 0 .. MaxFaults, outlived : BOOLEAN]
  BY <1>0, ClaimableRow DEF Claim
<1>7. JobOK(w)'
  <2>1. CASE kind = "ensure"
    <3>1. Known(k)
      BY <1>0, <1>6, <2>1 DEF Row, EnsureInv, Requested
    <3>2. ensure'[k].state = "running"
      BY <1>0, <1>6, <2>1, SetRowTypes DEF OpStates
    <3> QED
      BY <1>2, <1>5, <2>1, <3>1, <3>2 DEF JobOK, Copying
  <2>2. CASE kind = "delete"
    <3>1. del'[k].state = "running"
      BY <1>0, <1>6, <2>2, SetRowTypes DEF OpStates
    <3> QED
      BY <1>0, <1>5, <2>2, <3>1 DEF JobOK, Deleting
  <2> QED
    BY <2>1, <2>2
<1> QED
  BY <1>0, <1>1, <1>5, <1>6, <1>7, RowAndJob

LEMMA ExhaustedInv ==
  ASSUME SafetyInv, NEW kind \in {"ensure", "delete"}, NEW k \in Keys, Exhausted(kind, k)
  PROVE  SafetyInv'
<1>0. TypeOK /\ JobInv
  BY DEF SafetyInv
<1>1. /\ SetRow(kind, k, "dead", Nobody) /\ UNCHANGED <<obj, live, imported, blob, up, staged, job>>
      /\ Row(kind, k).state \in {"pending", "running"}
  BY DEF Exhausted, Due
<1>2. faults' \in [n : 0 .. MaxFaults, outlived : BOOLEAN]
  BY <1>0, FaultTypes DEF Exhausted
<1>3. EnsureInv' /\ DelInv' /\ Forward /\ RowInv' /\ ReferencesExact' /\ ReadyBytesExist'
  BY <1>1, RowWritten DEF OpStates
<1>4. TypeOK'
  <2>1. /\ ensure' \in [Keys -> [state : OpStates, by : Sessions \cup {Nobody}, owner : Actors \cup {Nobody}]]
        /\ del' \in [Versions -> [state : OpStates, key : Keys, owner : Actors \cup {Nobody}]]
    BY <1>0, <1>1, SetRowTypes DEF OpStates
  <2> QED
    BY <1>0, <1>1, <1>2, <2>1 DEF TypeOK
<1>5. JobInv'
  BY <1>0, <1>1, <1>3, OtherJobs DEF JobInv
<1> QED
  BY <1>3, <1>4, <1>5 DEF SafetyInv

LEMMA EnsureCanonicalInv ==
  ASSUME SafetyInv, NEW s \in Sessions, EnsureCanonical(s)
  PROVE  SafetyInv'
<1>0. TypeOK /\ JobInv /\ EnsureInv /\ RowInv /\ DelInv /\ ReferencesExact /\ ReadyBytesExist /\ s \in Actors
  BY DEF SafetyInv, Actors
<1>1. /\ up[s] = "verifying" /\ obj.status # "deleting"
      /\ UNCHANGED <<obj, live, imported, blob, up, staged, del, faults>>
  BY DEF EnsureCanonical
<1>2. \A j \in Keys : (Fresh(j)' <=> Fresh(j)) /\ (Known(j)' <=> Known(j))
  BY <1>1, SameRow
<1> DEFINE k == CASE obj.status = "none" -> 0
                  [] obj.status = "ready" -> obj.key
                  [] OTHER -> RevivalKey
<1>3. /\ k \in Keys /\ Known(k)
      /\ Fresh(k) <=> obj.status # "ready"
  <2>1. CASE obj.status = "none"
    BY <2>1, <1>0, Fields DEF Known, Fresh
  <2>2. CASE obj.status = "ready"
    BY <2>2, <1>0, Fields DEF Known, Fresh, RowInv
  <2>3. CASE obj.status = "deleted"
    BY <2>3, <1>0, Fields DEF Known, Fresh, RevivalKey
  <2> QED
    BY <2>1, <2>2, <2>3, <1>0, <1>1, Fields
<1>4. \/ /\ obj.status = "ready" \/ ensure[k].state = "succeeded"
         /\ job' = [job EXCEPT ![s] = [pc |-> "final", kind |-> "ensure", k |-> k]]
         /\ UNCHANGED ensure
      \/ /\ obj.status # "ready" /\ ensure[k].state # "succeeded"
         /\ job' = [job EXCEPT ![s] = [pc |-> "exec", kind |-> "ensure", k |-> k]]
         /\ ensure' = EnqueueEnsure(k, s)
  BY DEF EnsureCanonical
<1> HIDE DEF k
<1>5. CASE /\ obj.status = "ready" \/ ensure[k].state = "succeeded"
           /\ job' = [job EXCEPT ![s] = [pc |-> "final", kind |-> "ensure", k |-> k]]
           /\ UNCHANGED ensure
  <2>1. /\ job'[s].pc = "final" /\ job'[s].kind = "ensure" /\ job'[s].k = k
        /\ \A b \in Actors \ {s} : job'[b] = job[b]
        /\ job' \in [Actors -> [pc : Steps, kind : {"none", "ensure", "delete"}, k : Keys]]
    BY <1>0, <1>3, <1>5, StartTypes DEF Steps
  <2>2. JobOK(s)'
    BY <1>2, <1>3, <1>5, <2>1 DEF JobOK, Copying
  <2>3. faults' \in [n : 0 .. MaxFaults, outlived : BOOLEAN] /\ blob' \subseteq Keys
    BY <1>0, <1>1 DEF TypeOK
  <2> QED
    BY <1>0, <1>1, <1>5, <2>1, <2>2, <2>3, JobMoves
<1>6. CASE /\ obj.status # "ready" /\ ensure[k].state # "succeeded"
           /\ job' = [job EXCEPT ![s] = [pc |-> "exec", kind |-> "ensure", k |-> k]]
           /\ ensure' = EnqueueEnsure(k, s)
  <2>1. /\ job'[s].pc = "exec" /\ job'[s].kind = "ensure" /\ job'[s].k = k
        /\ \A b \in Actors \ {s} : job'[b] = job[b]
        /\ job' \in [Actors -> [pc : Steps, kind : {"none", "ensure", "delete"}, k : Keys]]
    BY <1>0, <1>3, <1>6, StartTypes DEF Steps
  <2>2. /\ ensure' \in [Keys -> [state : OpStates, by : Sessions \cup {Nobody}, owner : Actors \cup {Nobody}]]
        /\ \A j \in Keys : ensure[j].state # "absent" \/ j # k => ensure'[j] = ensure[j]
        /\ ensure[k].state = "absent" => ensure'[k].state = "pending" /\ ensure'[k].by = s
    <3>1. CASE ensure[k].state = "absent"
      <4>1. ensure' = [ensure EXCEPT ![k] = [state |-> "pending", by |-> s, owner |-> Nobody]]
        BY <1>6, <3>1 DEF EnqueueEnsure
      <4> QED
        BY <1>0, <1>3, <3>1, <4>1 DEF TypeOK, OpStates
    <3>2. CASE ensure[k].state # "absent"
      BY <1>0, <1>6, <3>2 DEF EnqueueEnsure, TypeOK
    <3> QED
      BY <3>1, <3>2
  <2>3. TypeOK'
    BY <1>0, <1>1, <2>1, <2>2 DEF TypeOK
  <2>4. Forward
    BY <1>1, <1>2, <2>2 DEF Forward
  <2>5. ensure'[k].state # "absent"
    BY <1>3, <2>2
  <2>6. JobOK(s)'
    BY <1>2, <1>3, <2>1, <2>5 DEF JobOK, Copying
  <2>7. JobInv'
    BY <1>0, <2>1, <2>4, <2>6, OneJobMoves
  <2>8. EnsureInv'
    <3>1. ASSUME NEW j \in Keys, ensure'[j].state # "absent" PROVE Requested(j)'
      <4>1. CASE ensure[j].state = "absent"
        <5>1. j = k /\ ensure'[j].state = "pending" /\ ensure'[j].by = s
          BY <2>2, <3>1, <4>1
        <5> QED
          BY <1>1, <1>2, <1>3, <1>6, <5>1 DEF Requested
      <4>2. CASE ensure[j].state # "absent"
        <5>1. Requested(j) /\ ensure'[j] = ensure[j]
          BY <1>0, <2>2, <4>2 DEF EnsureInv
        <5> QED
          BY <1>1, <1>2, <5>1 DEF Requested
      <4> QED
        BY <4>1, <4>2
    <3>2. obj'.status # "ready"
      BY <1>1, <1>6
    <3> QED
      BY <3>1, <3>2 DEF EnsureInv
  <2>9. DelInv' /\ RowInv' /\ ReferencesExact' /\ ReadyBytesExist'
    BY <1>0, <1>1 DEF DelInv, RowInv, ReferencesExact, ReadyBytesExist
  <2> QED
    BY <2>3, <2>7, <2>8, <2>9 DEF SafetyInv
<1> QED
  BY <1>4, <1>5, <1>6

\* A job that goes on to its next phase, within its kind.
LEMMA GoInv ==
  ASSUME SafetyInv, NEW a \in Actors, NEW pc, Go(a, pc),
         \/ job[a].kind = "ensure" /\ Copying(a) /\ pc \in {"copy", "err"}
         \/ job[a].kind = "ensure" /\ Copying(a) /\ pc = "mark" /\ job[a].k \in blob'
         \/ job[a].kind = "delete" /\ Deleting(a) /\ pc \in {"remove", "commit", "err"},
         job[a].pc \in {"check", "copy", "mark", "verdict", "remove", "commit", "err"},
         UNCHANGED <<obj, live, imported, up, staged, ensure, del>>,
         faults' \in [n : 0 .. MaxFaults, outlived : BOOLEAN],
         blob' \subseteq Keys,
         \A k \in Keys : k \in blob /\ (Fresh(k) \/ (obj.status = "ready" /\ k = obj.key)) => k \in blob'
  PROVE  SafetyInv'
<1>0. TypeOK /\ job[a].k \in Keys /\ pc \in Steps
  BY Fields DEF SafetyInv, Steps
<1>1. \A j \in Keys : (Fresh(j)' <=> Fresh(j)) /\ (Known(j)' <=> Known(j))
  BY SameRow
<1>2. /\ job'[a].pc = pc /\ job'[a].kind = job[a].kind /\ job'[a].k = job[a].k
      /\ \A b \in Actors \ {a} : job'[b] = job[b]
      /\ job' \in [Actors -> [pc : Steps, kind : {"none", "ensure", "delete"}, k : Keys]]
  BY <1>0, GoTypes
<1>3. JobOK(a)'
  BY <1>0, <1>1, <1>2 DEF JobOK, Copying, Deleting
<1> QED
  BY <1>2, <1>3, JobMoves

LEMMA CopyCheckInv ==
  ASSUME SafetyInv, NEW a \in Actors, CopyCheck(a)
  PROVE  SafetyInv'
<1>0. TypeOK /\ JobInv /\ EnsureInv /\ job[a].k \in Keys
  BY Fields DEF SafetyInv
<1>1. job[a].pc = "check" /\ job[a].kind = "ensure" /\ Copying(a)
  BY <1>0, Kinds DEF CopyCheck
<1>2. UNCHANGED <<obj, live, imported, blob, up, staged, faults>>
  BY DEF CopyCheck
<1>3. RowOf(a) = ensure[job[a].k] /\ Requested(job[a].k)
  BY <1>0, <1>1 DEF RowOf, Row, EnsureInv, Copying
<1>4. CASE up[RowOf(a).by] = "failed"
  <2>1. ~Fresh(job[a].k)
    BY <1>3, <1>4 DEF Requested
  <2> QED
    BY <1>1, <1>2, <1>4, <2>1, SucceedInv DEF CopyCheck
<1>5. CASE up[RowOf(a).by] # "failed"
  <2>1. Go(a, "copy") /\ UNCHANGED <<ensure, del>>
    BY <1>5 DEF CopyCheck
  <2>2. faults' \in [n : 0 .. MaxFaults, outlived : BOOLEAN] /\ blob' \subseteq Keys
    BY <1>0, <1>2 DEF TypeOK
  <2> QED
    BY <1>1, <1>2, <2>1, <2>2, GoInv
<1> QED
  BY <1>4, <1>5

LEMMA MarkCopiedInv ==
  ASSUME SafetyInv, NEW a \in Actors, MarkCopied(a)
  PROVE  SafetyInv'
<1>0. TypeOK /\ JobInv
  BY DEF SafetyInv
<1>1. job[a].pc = "mark" /\ job[a].kind = "ensure" /\ Copying(a)
  BY <1>0, Kinds DEF MarkCopied
<1>2. Fresh(job[a].k) => job[a].k \in blob
  BY <1>1 DEF Copying
<1> QED
  BY <1>1, <1>2, SucceedInv DEF MarkCopied

LEMMA CopyObjectInv ==
  ASSUME SafetyInv, NEW a \in Actors, CopyObject(a)
  PROVE  SafetyInv'
<1>0. TypeOK /\ JobInv /\ job[a].k \in Keys
  BY Fields DEF SafetyInv
<1>1. job[a].pc = "copy" /\ job[a].kind = "ensure" /\ Copying(a)
  BY <1>0, Kinds DEF CopyObject
<1>2. UNCHANGED <<obj, live, imported, up, staged, ensure, del, faults>>
  BY DEF CopyObject
<1>3. \/ blob' = blob \cup {job[a].k} /\ Go(a, "mark")
      \/ blob' = blob /\ Go(a, "err")
  BY DEF CopyObject
<1>4. faults' \in [n : 0 .. MaxFaults, outlived : BOOLEAN] /\ blob' \subseteq Keys
  BY <1>0, <1>2, <1>3 DEF TypeOK
<1> QED
  BY <1>1, <1>2, <1>3, <1>4, GoInv

LEMMA DeletedBytes ==
  ASSUME SafetyInv, NEW w \in Actors, job[w].kind = "delete", Deleting(w)
  PROVE  /\ RowOf(w) = del[job[w].k] /\ RowOf(w).key \in Keys
         /\ ~Fresh(RowOf(w).key) /\ (obj.status = "ready" => RowOf(w).key # obj.key)
<1>0. TypeOK /\ DelInv /\ job[w].k \in Keys /\ job[w].k \in Versions
  BY Fields DEF SafetyInv, Keys
<1>1. RowOf(w) = del[job[w].k] /\ del[job[w].k].state # "absent"
  BY DEF RowOf, Row, Deleting
<1> QED
  BY <1>0, <1>1, Fields, DeletedNotFresh DEF DelInv

LEMMA RemoveObjectInv ==
  ASSUME SafetyInv, NEW w \in Actors, RemoveObject(w)
  PROVE  SafetyInv'
<1>0. TypeOK /\ JobInv
  BY DEF SafetyInv
<1>1. job[w].pc = "remove" /\ job[w].kind = "delete" /\ Deleting(w)
  BY <1>0, Kinds DEF RemoveObject
<1>2. /\ UNCHANGED <<obj, live, imported, up, staged, ensure, del, faults>>
      /\ blob' = blob \ {RowOf(w).key} /\ Go(w, "commit")
  BY DEF RemoveObject
<1>3. faults' \in [n : 0 .. MaxFaults, outlived : BOOLEAN] /\ blob' \subseteq Keys
  BY <1>0, <1>2 DEF TypeOK
<1>4. \A k \in Keys : k \in blob /\ (Fresh(k) \/ (obj.status = "ready" /\ k = obj.key)) => k \in blob'
  BY <1>1, <1>2, DeletedBytes
<1> QED
  BY <1>1, <1>2, <1>3, <1>4, GoInv

LEMMA StepFailsInv ==
  ASSUME SafetyInv, NEW a \in Actors, StepFails(a)
  PROVE  SafetyInv'
<1>0. TypeOK /\ JobInv /\ job[a].k \in Keys
  BY Fields DEF SafetyInv
<1>1. /\ job[a].pc \in {"check", "copy", "mark", "verdict", "remove", "commit"} /\ Go(a, "err")
      /\ UNCHANGED <<obj, live, imported, up, staged, ensure, del>>
  BY DEF StepFails
<1>2. \/ job[a].kind = "ensure" /\ Copying(a) /\ job[a].pc # "remove"
      \/ job[a].kind = "delete" /\ Deleting(a) /\ job[a].pc # "copy"
  BY <1>0, <1>1, Kinds
<1>3. faults' \in [n : 0 .. MaxFaults, outlived : BOOLEAN]
  BY <1>0, FaultTypes DEF StepFails
<1>4. \/ blob' = blob \/ blob' = blob \cup {job[a].k}
      \/ job[a].pc = "remove" /\ blob' = blob \ {RowOf(a).key}
  BY DEF StepFails
<1>5. /\ blob' \subseteq Keys
      /\ \A k \in Keys : k \in blob /\ (Fresh(k) \/ (obj.status = "ready" /\ k = obj.key)) => k \in blob'
  <2>1. CASE job[a].pc = "remove" /\ blob' = blob \ {RowOf(a).key}
    BY <1>0, <1>2, <2>1, DeletedBytes DEF TypeOK
  <2>2. CASE blob' = blob \/ blob' = blob \cup {job[a].k}
    BY <1>0, <2>2 DEF TypeOK
  <2> QED
    BY <1>4, <2>1, <2>2
<1> QED
  BY <1>1, <1>2, <1>3, <1>5, GoInv

LEMMA RecordErrorInv ==
  ASSUME SafetyInv, NEW a \in Actors, RecordError(a)
  PROVE  SafetyInv'
<1>0. TypeOK /\ JobInv /\ job[a].k \in Keys
  BY Fields DEF SafetyInv
<1>1. /\ job[a].pc = "err" /\ job[a].kind \in {"ensure", "delete"}
      /\ job' = [job EXCEPT ![a] = Idle]
      /\ UNCHANGED <<obj, live, imported, blob, up, staged, faults>>
  BY <1>0, Kinds DEF RecordError
<1>2. faults' \in [n : 0 .. MaxFaults, outlived : BOOLEAN]
  BY <1>0, <1>1 DEF TypeOK
<1>3. CASE Owns(a)
  <2>1. SetRow(job[a].kind, job[a].k, "pending", Nobody) /\ Row(job[a].kind, job[a].k).state = "running"
    BY <1>3 DEF RecordError, Owns, RowOf
  <2>2. JobOK(a)'
    BY <1>0, <1>1, IdleTypes DEF JobOK
  <2> QED
    BY <1>0, <1>1, <1>2, <2>1, <2>2, IdleTypes, RowAndJob
<1>4. CASE ~Owns(a)
  BY <1>1, <1>2, <1>4, IdleInv DEF RecordError
<1> QED
  BY <1>3, <1>4

LEMMA DeleteVerdictInv ==
  ASSUME SafetyInv, NEW w \in Actors, DeleteVerdict(w)
  PROVE  SafetyInv'
<1>0. TypeOK /\ JobInv
  BY DEF SafetyInv
<1>1. job[w].pc = "verdict" /\ job[w].kind = "delete" /\ Deleting(w)
  BY <1>0, Kinds DEF DeleteVerdict
<1>2. UNCHANGED <<obj, live, imported, blob, up, staged, faults>>
  BY DEF DeleteVerdict
<1>3. CASE Succeed(w)
  BY <1>1, <1>2, <1>3, SucceedInv
<1>4. CASE (Go(w, "err") \/ Go(w, "remove")) /\ UNCHANGED <<ensure, del>>
  <2>1. faults' \in [n : 0 .. MaxFaults, outlived : BOOLEAN] /\ blob' \subseteq Keys
    BY <1>0, <1>2 DEF TypeOK
  <2> QED
    BY <1>1, <1>2, <1>4, <2>1, GoInv
<1> QED
  BY <1>3, <1>4 DEF DeleteVerdict

-----------------------------------------------------------------------------
(* The actions that write the object row *)

\* The row that CreateOrGet returns for a key that may be used.
LEMMA CreatedRow ==
  ASSUME TypeOK, RowInv, NEW k \in Keys, Known(k), Reusable(k)
  PROVE  LET o == CreateOrGet(k) IN
         /\ o \in [status : {"ready"}, key : Keys, ver : Nat, refs : Nat]
         /\ o.key = IF obj.status = "ready" THEN obj.key ELSE k
         /\ o.refs = obj.refs /\ o.key < o.ver /\ o.ver >= obj.ver
<1> DEFINE o == CreateOrGet(k)
<1>0. /\ obj \in [status : {"none", "ready", "deleting", "deleted"}, key : Keys, ver : Versions, refs : Nat]
      /\ Keys \subseteq Nat /\ Versions = Keys
  BY ContentAssumption DEF TypeOK, Keys, Versions
<1>1. CASE obj.status = "none"
  <2>1. k = 0 /\ obj.refs = 0 /\ o = [status |-> "ready", key |-> k, ver |-> 1, refs |-> 0]
    BY <1>1 DEF Known, RowInv, CreateOrGet
  <2>2. obj.ver = 0
    BY <1>1 DEF RowInv
  <2> QED
    BY <1>1, <2>1, <2>2
<1>2. CASE obj.status = "ready"
  BY <1>0, <1>2 DEF RowInv, CreateOrGet
<1>3. CASE obj.status = "deleted"
  <2>1. k = obj.ver /\ o = [obj EXCEPT !.status = "ready", !.key = k, !.ver = obj.ver + 1]
    BY <1>3 DEF Reusable, RevivalKey, CreateOrGet
  <2>2. o.status = "ready" /\ o.key = k /\ o.ver = obj.ver + 1 /\ o.refs = obj.refs
    BY <1>0, <2>1
  <2>3. o \in [status : {"ready"}, key : Keys, ver : Nat, refs : Nat]
    <3>1. obj.ver + 1 \in Nat /\ obj.refs \in Nat
      BY Fields
    <3>2. o = [status |-> "ready", key |-> k, ver |-> obj.ver + 1, refs |-> obj.refs]
      BY <1>0, <2>1
    <3> QED
      BY <3>1, <3>2
  <2>4. k < obj.ver + 1 /\ obj.ver + 1 >= obj.ver
    BY <1>0, <2>1
  <2> QED
    BY <1>3, <2>2, <2>3, <2>4
<1> QED
  BY <1>0, <1>1, <1>2, <1>3 DEF Reusable

LEMMA ReferenceRow ==
  ASSUME NEW o \in [status : {"none", "ready", "deleting", "deleted"}, key : Keys, ver : Nat, refs : Nat]
  PROVE  /\ WithReference(o) \in [status : {o.status}, key : {o.key}, ver : {o.ver + 1}, refs : {o.refs + 1}]
         /\ WithoutReference(o) \in [status : {o.status}, key : {o.key}, ver : {o.ver + 1}, refs : {o.refs - 1}]
         /\ Retired(o) \in [status : {"deleting"}, key : {o.key}, ver : {o.ver + 1}, refs : {o.refs}]
  BY DEF WithReference, WithoutReference, Retired

\* A step that writes the row and leaves it ready or being deleted; the key is the
\* old one, or the fresh one of a copy that was asked for.
LEMMA LiveRowInv ==
  ASSUME SafetyInv, obj'.status \in {"ready", "deleting"}, obj'.ver \in Nat, obj'.ver > obj.ver,
         ensure' = ensure, blob' = blob, obj'.key < obj'.ver,
         IsFiniteSet(live'),
         obj'.key = obj.key \/ (obj.status \in {"none", "deleted"} /\ Fresh(obj'.key)),
         obj'.status = "ready" => ensure[obj'.key].state = "succeeded" /\ obj'.key \in blob,
         \A s \in Sessions : up'[s] = up[s] \/ (up[s] = "verifying" /\ up'[s] \in {"completed", "failed"}),
         \A k \in Keys : ensure[k].state # "absent" /\ ensure[k].state # "succeeded" =>
            up'[ensure[k].by] = "failed",
         \A k \in Keys : /\ del[k].state # "absent" => del'[k].state # "absent"
  PROVE  EnsureInv' /\ RowInv' /\ Forward /\ ReadyBytesExist'
<1>0. TypeOK /\ EnsureInv /\ RowInv
  BY DEF SafetyInv
<1>1. \A k \in Keys : ~Fresh(k)' /\ (Known(k) => Known(k)')
  BY <1>0, LiveRow
<1>2. Forward
  BY <1>1 DEF Forward
<1>3. RowInv'
  BY DEF RowInv
<1>4. ReadyBytesExist'
  BY DEF ReadyBytesExist
<1>5. EnsureInv'
  BY <1>0, <1>1 DEF EnsureInv, Requested
<1> QED
  BY <1>2, <1>3, <1>4, <1>5

\* Every row but the one of a copy that is done belongs to a failed session, once
\* its key is not fresh.
LEMMA UnfinishedCopies ==
  ASSUME SafetyInv, NEW k \in Keys, ensure[k].state # "absent", ensure[k].state # "succeeded", ~Fresh(k)
  PROVE  up[ensure[k].by] = "failed" /\ ensure[k].by \in Sessions
  BY DEF SafetyInv, EnsureInv, Requested

\* The deletions of earlier lives, when the row moves on without a new one.
LEMMA DeletionsKept ==
  ASSUME SafetyInv, del' = del, obj'.status # "none", obj'.ver \in Nat, obj'.ver >= obj.ver,
         obj'.status = "ready" => (obj.status = "ready" /\ obj'.key = obj.key) \/ Fresh(obj'.key)
  PROVE  DelInv'
<1>0. TypeOK /\ DelInv
  BY DEF SafetyInv
<1>1. ASSUME NEW v \in Versions, del[v].state # "absent"
      PROVE  /\ del[v].key < obj'.ver
             /\ obj'.status = "ready" => del[v].key # obj'.key
             /\ del[v].state = "running" => del[v].owner \in Actors
  <2>1. v \in Keys /\ del[v].key \in Nat /\ obj.ver \in Nat /\ ~Fresh(del[v].key)
    BY <1>0, <1>1, Fields, DeletedNotFresh DEF Keys
  <2> QED
    BY <1>0, <1>1, <2>1 DEF DelInv
<1> QED
  BY <1>1 DEF DelInv

LEMMA PublishInv ==
  ASSUME SafetyInv, NEW s \in Sessions, Publish(s)
  PROVE  SafetyInv'
<1>0. TypeOK /\ JobInv /\ EnsureInv /\ RowInv /\ ReferencesExact /\ ReadyBytesExist /\ s \in Actors /\ job[s].k \in Keys
  BY Fields DEF SafetyInv, Actors
<1>1. job[s].pc = "final" /\ job[s].kind = "ensure" /\ Copying(s) /\ Known(job[s].k)
  BY <1>0, Kinds DEF Publish, Copying
<1>2. UNCHANGED <<imported, blob, staged, ensure, del, faults>>
  BY DEF Publish
<1>3. CASE /\ up[s] = "verifying" /\ Reusable(job[s].k) /\ Owner[s] \notin live
           /\ obj' = WithReference(CreateOrGet(job[s].k)) /\ Counted
           /\ live' = live \cup {Owner[s]}
           /\ up' = [up EXCEPT ![s] = "completed"]
           /\ job' = [job EXCEPT ![s] = Idle]
  <2> DEFINE k == job[s].k
             o == CreateOrGet(k)
  <2>1. /\ o \in [status : {"ready"}, key : Keys, ver : Nat, refs : Nat]
        /\ o.key = IF obj.status = "ready" THEN obj.key ELSE k
        /\ o.refs = obj.refs /\ o.key < o.ver /\ o.ver >= obj.ver
    BY <1>0, <1>1, <1>3, CreatedRow
  <2>2. obj' \in [status : {"ready"}, key : {o.key}, ver : {o.ver + 1}, refs : {o.refs + 1}]
    BY <1>3, <2>1, ReferenceRow
  <2> HIDE DEF o
  <2>3. /\ obj'.status = "ready" /\ obj'.key = o.key /\ obj'.ver = o.ver + 1 /\ obj'.refs = obj.refs + 1
        /\ obj'.ver \in Nat /\ obj'.ver > obj.ver /\ obj'.key < obj'.ver /\ obj'.key \in Keys
    <3>1. obj'.status = "ready" /\ obj'.key = o.key /\ obj'.ver = o.ver + 1 /\ obj'.refs = obj.refs + 1
      BY <2>1, <2>2
    <3>2. o.key \in Nat /\ o.ver \in Nat /\ o.key \in Keys /\ obj.ver \in Nat
      BY <1>0, <2>1, ContentAssumption, Fields DEF Keys, Versions
    <3> QED
      BY <2>1, <3>1, <3>2
  <2>4. obj.status # "ready" => obj.status \in {"none", "deleted"} /\ Fresh(k)
    BY <1>0, <1>1, <1>3, OneFresh, Fields DEF Reusable
  <2>5. ensure[o.key].state = "succeeded" /\ o.key \in blob
    <3>1. CASE obj.status = "ready"
      BY <1>0, <2>1, <3>1 DEF EnsureInv, ReadyBytesExist
    <3>2. CASE obj.status # "ready"
      <4>1. Fresh(k) /\ o.key = k /\ ensure[k].state = "succeeded"
        BY <1>1, <2>1, <2>4, <3>2 DEF Copying
      <4> QED
        BY <1>0, <4>1 DEF EnsureInv, Requested
    <3> QED
      BY <3>1, <3>2
  <2>6. /\ \A t \in Sessions : up'[t] = up[t] \/ (up[t] = "verifying" /\ up'[t] \in {"completed", "failed"})
        /\ up' \in [Sessions -> {"verifying", "completed", "failed"}]
    BY <1>0, <1>3 DEF TypeOK
  <2>7. ASSUME NEW j \in Keys, ensure[j].state # "absent", ensure[j].state # "succeeded"
        PROVE  up'[ensure[j].by] = "failed"
    <3>1. ~Fresh(j)
      <4>1. CASE obj.status = "ready"
        BY <4>1, NoneFresh
      <4>2. CASE obj.status # "ready"
        <5>1. Fresh(k) /\ ensure[k].state = "succeeded"
          BY <1>1, <2>4, <4>2 DEF Copying
        <5> QED
          BY <1>0, <2>4, <2>7, <4>2, <5>1, OneFresh
      <4> QED
        BY <4>1, <4>2
    <3> QED
      BY <1>0, <1>3, <2>7, <3>1, UnfinishedCopies DEF TypeOK
  <2>8. IsFiniteSet(live') /\ Cardinality(live') = obj.refs + 1
    BY <1>0, <1>3, FS_AddElement DEF RowInv, ReferencesExact
  <2>9. ReferencesExact'
    BY <2>3, <2>8 DEF ReferencesExact
  <2>10. EnsureInv' /\ RowInv' /\ Forward /\ ReadyBytesExist'
    BY <1>2, <2>1, <2>3, <2>4, <2>5, <2>6, <2>7, <2>8, LiveRowInv
  <2>11. DelInv'
    BY <1>2, <2>1, <2>3, <2>4, DeletionsKept, Fields, <1>0
  <2>12. TypeOK'
    <3>1. obj' \in [status : {"none", "ready", "deleting", "deleted"}, key : Keys, ver : Versions, refs : Nat]
      BY <1>0, <1>3, <2>1, <2>2, <2>3, Fields DEF Counted
    <3>2. live' \subseteq Owners
      BY <1>0, <1>3 DEF TypeOK, Owners
    <3>3. job' \in [Actors -> [pc : Steps, kind : {"none", "ensure", "delete"}, k : Keys]]
      BY <1>0, <1>3, IdleTypes
    <3> QED
      BY <1>0, <1>2, <2>6, <3>1, <3>2, <3>3 DEF TypeOK
  <2>13. JobInv'
    BY <1>0, <1>3, <2>10, IdleTypes, OneJobMoves DEF JobOK
  <2> QED
    BY <2>9, <2>10, <2>11, <2>12, <2>13 DEF SafetyInv
<1>4. CASE Go(s, "fail") /\ UNCHANGED <<obj, live, up>>
  <2>1. /\ job'[s].pc = "fail" /\ job'[s].kind = job[s].kind /\ job'[s].k = job[s].k
        /\ \A b \in Actors \ {s} : job'[b] = job[b]
        /\ job' \in [Actors -> [pc : Steps, kind : {"none", "ensure", "delete"}, k : Keys]]
    BY <1>0, <1>4, GoTypes DEF Steps
  <2>2. JobOK(s)'
    BY <1>0, <1>1, <1>4, <2>1, SameRow DEF JobOK, Copying
  <2>3. faults' \in [n : 0 .. MaxFaults, outlived : BOOLEAN] /\ blob' \subseteq Keys
    BY <1>0, <1>2 DEF TypeOK
  <2> QED
    BY <1>0, <1>2, <1>4, <2>1, <2>2, <2>3, JobMoves
<1>5. CASE job' = [job EXCEPT ![s] = Idle] /\ UNCHANGED <<obj, live, up>>
  <2>1. faults' \in [n : 0 .. MaxFaults, outlived : BOOLEAN]
    BY <1>0, <1>2 DEF TypeOK
  <2> QED
    BY <1>0, <1>2, <1>5, <2>1, IdleInv
<1> QED
  BY <1>3, <1>4, <1>5 DEF Publish

LEMMA EnqueuedDelete ==
  ASSUME TypeOK, NEW v \in Versions, NEW k \in Keys, del' = EnqueueDelete(v, k)
  PROVE  /\ del' \in [Versions -> [state : OpStates, key : Keys, owner : Actors \cup {Nobody}]]
         /\ \A j \in Versions :
              \/ del'[j] = del[j]
              \/ j = v /\ del[j].state = "absent" /\ del'[j].state = "pending" /\ del'[j].key = k
<1>1. CASE del[v].state = "absent"
  <2>1. del' = [del EXCEPT ![v] = [state |-> "pending", key |-> k, owner |-> Nobody]]
    BY <1>1 DEF EnqueueDelete
  <2> QED
    BY <1>1, <2>1 DEF TypeOK, OpStates
<1>2. CASE del[v].state # "absent"
  BY <1>2 DEF EnqueueDelete, TypeOK
<1> QED
  BY <1>1, <1>2

\* A new deletion, of the life that is ending.
LEMMA DeletionAdded ==
  ASSUME SafetyInv, NEW v \in Versions, NEW k \in Keys, del' = EnqueueDelete(v, k),
         obj'.status = "deleting", obj'.ver \in Nat, obj'.ver >= obj.ver, k < obj'.ver
  PROVE  DelInv'
<1>0. TypeOK /\ DelInv
  BY DEF SafetyInv
<1>1. \A j \in Versions : del[j].key \in Nat /\ obj.ver \in Nat
  BY <1>0, Fields DEF Keys
<1>2. \A j \in Versions :
        \/ del'[j] = del[j]
        \/ j = v /\ del[j].state = "absent" /\ del'[j].state = "pending" /\ del'[j].key = k
  BY <1>0, EnqueuedDelete
<1> QED
  BY <1>0, <1>1, <1>2 DEF DelInv

LEMMA FailInv ==
  ASSUME SafetyInv, NEW s \in Sessions, Fail(s)
  PROVE  SafetyInv'
<1>0. TypeOK /\ JobInv /\ EnsureInv /\ RowInv /\ ReferencesExact /\ ReadyBytesExist /\ s \in Actors
  BY DEF SafetyInv, Actors
<1>1. /\ up[s] = "verifying" /\ up' = [up EXCEPT ![s] = "failed"]
      /\ UNCHANGED <<live, imported, blob, staged, ensure, faults>>
  BY DEF Fail
<1>2. /\ up' \in [Sessions -> {"verifying", "completed", "failed"}] /\ up'[s] = "failed"
      /\ \A t \in Sessions \ {s} : up'[t] = up[t]
  BY <1>0, <1>1 DEF TypeOK
<1>3. /\ job' \in [Actors -> [pc : Steps, kind : {"none", "ensure", "delete"}, k : Keys]]
      /\ \A b \in Actors \ {s} : job'[b] = job[b]
      /\ job'[s] = job[s] \/ job'[s].pc = "idle"
  <2>1. CASE job[s].pc = "fail"
    BY <1>0, <2>1, IdleTypes DEF Fail
  <2>2. CASE job[s].pc # "fail"
    BY <1>0, <2>2 DEF Fail, TypeOK
  <2> QED
    BY <2>1, <2>2
<1>4. Forward => JobInv'
  <2>1. ASSUME Forward PROVE JobOK(s)'
    <3>1. CASE job'[s] = job[s]
      BY <1>0, <2>1, <3>1, OtherJobs DEF JobInv
    <3>2. CASE job'[s].pc = "idle"
      BY <3>2 DEF JobOK
    <3> QED
      BY <1>3, <3>1, <3>2
  <2> QED
    BY <1>0, <1>3, <2>1, OneJobMoves
<1>5. CASE ~\E k \in Keys : Adopts(s, k)
  <2>1. UNCHANGED <<obj, del>>
    BY <1>5 DEF Fail, RegisterCanonicalCleanup
  <2>2. \A j \in Keys : (Fresh(j)' <=> Fresh(j)) /\ (Known(j)' <=> Known(j))
    BY <2>1, SameRow
  <2>3. ASSUME NEW j \in Keys, ensure[j].state # "absent" PROVE Requested(j)'
    <3>1. Requested(j)
      BY <1>0, <2>3 DEF EnsureInv
    <3>2. CASE ensure[j].by = s
      <4>1. ~Fresh(j)
        BY <1>5, <2>3, <3>2 DEF Adopts, Fresh, RevivalKey
      <4> QED
        BY <1>1, <1>2, <2>2, <3>1, <3>2, <4>1 DEF Requested
    <3>3. CASE ensure[j].by # s
      BY <1>1, <1>2, <2>2, <3>1, <3>3 DEF Requested
    <3> QED
      BY <3>2, <3>3
  <2>4. EnsureInv'
    BY <1>0, <1>1, <2>1, <2>3 DEF EnsureInv
  <2>5. DelInv' /\ RowInv' /\ ReferencesExact' /\ ReadyBytesExist'
    BY <1>1, <2>1 DEF SafetyInv, DelInv, RowInv, ReferencesExact, ReadyBytesExist
  <2>6. Forward
    BY <1>1, <2>1, <2>2 DEF Forward
  <2>7. TypeOK'
    BY <1>0, <1>1, <1>2, <1>3, <2>1 DEF TypeOK
  <2> QED
    BY <1>4, <2>4, <2>5, <2>6, <2>7 DEF SafetyInv
<1>6. CASE \E k \in Keys : Adopts(s, k)
  <2>1. PICK k \in Keys : /\ Adopts(s, k)
                          /\ obj' = Retired(CreateOrGet(k)) /\ Counted
                          /\ del' = EnqueueDelete(obj'.ver, k)
    BY <1>6 DEF Fail, RegisterCanonicalCleanup
  <2>2. Known(k) /\ Reusable(k) /\ obj.status \in {"none", "deleted"} /\ ensure[k].by = s /\ ensure[k].state # "absent"
    BY <1>0, <2>1 DEF Adopts, EnsureInv, Requested, Reusable
  <2>3. Fresh(k)
    BY <1>0, <2>2, OneFresh
  <2> DEFINE o == CreateOrGet(k)
  <2>4. /\ o \in [status : {"ready"}, key : Keys, ver : Nat, refs : Nat]
        /\ o.key = k /\ o.refs = obj.refs /\ o.key < o.ver /\ o.ver >= obj.ver
    BY <1>0, <2>2, CreatedRow
  <2>5. obj' \in [status : {"deleting"}, key : {o.key}, ver : {o.ver + 1}, refs : {o.refs}]
    BY <2>1, <2>4, ReferenceRow
  <2> HIDE DEF o
  <2>6. /\ obj'.status = "deleting" /\ obj'.key = k /\ obj'.refs = obj.refs
        /\ obj'.ver \in Nat /\ obj'.ver > obj.ver /\ k < obj'.ver
    <3>1. obj'.status = "deleting" /\ obj'.key = k /\ obj'.ver = o.ver + 1 /\ obj'.refs = obj.refs
      BY <2>4, <2>5
    <3>2. k \in Nat /\ o.ver \in Nat /\ obj.ver \in Nat
      BY <1>0, <2>4, ContentAssumption, Fields DEF Keys, Versions
    <3> QED
      BY <2>4, <3>1, <3>2
  <2>7. obj'.ver \in Versions
    BY <2>1 DEF Counted
  <2>8. ASSUME NEW j \in Keys, ensure[j].state # "absent", ensure[j].state # "succeeded"
        PROVE  up'[ensure[j].by] = "failed"
    <3>1. CASE j = k
      BY <1>2, <2>2, <3>1
    <3>2. CASE j # k
      <4>1. ~Fresh(j)
        BY <1>0, <2>2, <2>3, <3>2, OneFresh
      <4> QED
        BY <1>2, <2>8, <4>1, UnfinishedCopies
    <3> QED
      BY <3>1, <3>2
  <2>9. \A j \in Keys : del[j].state # "absent" => del'[j].state # "absent"
    BY <1>0, <2>1, <2>7, EnqueuedDelete DEF Keys
  <2>10. IsFiniteSet(live')
    BY <1>0, <1>1 DEF RowInv
  <2>11. \A t \in Sessions : up'[t] = up[t] \/ (up[t] = "verifying" /\ up'[t] \in {"completed", "failed"})
    BY <1>1, <1>2
  <2>12. EnsureInv' /\ RowInv' /\ Forward /\ ReadyBytesExist'
    BY <1>1, <2>2, <2>3, <2>6, <2>8, <2>9, <2>10, <2>11, LiveRowInv
  <2>13. ReferencesExact'
    BY <1>0, <1>1, <2>2, <2>6 DEF ReferencesExact
  <2>14. DelInv'
    BY <2>1, <2>6, <2>7, DeletionAdded, Fields, <1>0
  <2>15. TypeOK'
    <3>1. obj' \in [status : {"none", "ready", "deleting", "deleted"}, key : Keys, ver : Versions, refs : Nat]
      BY <1>0, <2>4, <2>5, <2>6, <2>7, Fields
    <3>2. del' \in [Versions -> [state : OpStates, key : Keys, owner : Actors \cup {Nobody}]]
      BY <1>0, <2>1, <2>7, EnqueuedDelete
    <3> QED
      BY <1>0, <1>1, <1>2, <1>3, <3>1, <3>2 DEF TypeOK
  <2> QED
    BY <1>4, <2>12, <2>13, <2>14, <2>15 DEF SafetyInv
<1> QED
  BY <1>5, <1>6

LEMMA ReferencesInv ==
  ASSUME SafetyInv, (\E i \in Importers : Import(i)) \/ (\E o \in Owners : DeleteFile(o))
  PROVE  SafetyInv'
<1>0. TypeOK /\ JobInv /\ EnsureInv /\ RowInv /\ ReferencesExact /\ ReadyBytesExist
  BY DEF SafetyInv
<1>1. /\ obj.status = "ready" /\ Counted /\ obj' \in {WithReference(obj), WithoutReference(obj)}
      /\ UNCHANGED <<blob, up, staged, ensure, del, job, faults>>
  BY <1>0 DEF Import, DeleteFile, ReferencesExact
<1> DEFINE Exact == /\ live' \subseteq Owners /\ imported' \subseteq Importers /\ IsFiniteSet(live')
                    /\ obj'.refs = Cardinality(live') /\ obj'.refs \in Nat
<1>2. Exact
  <2>0. /\ obj \in [status : {"none", "ready", "deleting", "deleted"}, key : Keys, ver : Nat, refs : Nat]
        /\ IsFiniteSet(live) /\ obj.refs = Cardinality(live) /\ live \subseteq Owners /\ imported \subseteq Importers
    BY <1>0, ContentAssumption DEF TypeOK, RowInv, ReferencesExact, Versions
  <2>1. ASSUME NEW i \in Importers, Import(i) PROVE Exact
    <3>1. obj'.refs = obj.refs + 1
      BY <2>0, <2>1, ReferenceRow DEF Import
    <3>2. i \notin live /\ live' = live \cup {i} /\ imported' = imported \cup {i}
      BY <2>1 DEF Import
    <3>3. IsFiniteSet(live') /\ Cardinality(live') = Cardinality(live) + 1
      BY <2>0, <3>2, FS_AddElement
    <3> QED
      BY <2>0, <3>1, <3>2, <3>3 DEF Owners
  <2>2. ASSUME NEW o \in Owners, DeleteFile(o) PROVE Exact
    <3>1. obj'.refs = obj.refs - 1
      BY <2>0, <2>2, ReferenceRow DEF DeleteFile
    <3>2. o \in live /\ live' = live \ {o} /\ imported' = imported
      BY <2>2 DEF DeleteFile
    <3>3. IsFiniteSet(live') /\ Cardinality(live') = Cardinality(live) - 1 /\ Cardinality(live') \in Nat
      BY <2>0, <3>2, FS_RemoveElement, FS_CardinalityType
    <3> QED
      BY <2>0, <3>1, <3>2, <3>3
  <2> QED
    BY <2>1, <2>2
<1>3. /\ obj'.status = "ready" /\ obj'.key = obj.key /\ obj'.ver = obj.ver + 1
      /\ obj' \in [status : {"ready"}, key : {obj.key}, ver : {obj.ver + 1}, refs : {obj'.refs}]
  <2>1. obj \in [status : {"none", "ready", "deleting", "deleted"}, key : Keys, ver : Nat, refs : Nat]
    BY <1>0, ContentAssumption DEF TypeOK, Versions
  <2>2. \/ obj' \in [status : {"ready"}, key : {obj.key}, ver : {obj.ver + 1}, refs : {obj.refs + 1}]
        \/ obj' \in [status : {"ready"}, key : {obj.key}, ver : {obj.ver + 1}, refs : {obj.refs - 1}]
    BY <1>1, <2>1, ReferenceRow
  <2> QED
    BY <2>2
<1>4. /\ obj'.ver \in Nat /\ obj'.ver > obj.ver /\ obj'.key < obj'.ver
  BY <1>0, <1>1, <1>3, Fields DEF RowInv
<1>5. ASSUME NEW j \in Keys, ensure[j].state # "absent", ensure[j].state # "succeeded"
      PROVE  up'[ensure[j].by] = "failed"
  BY <1>1, <1>5, NoneFresh, UnfinishedCopies
<1>6. EnsureInv' /\ RowInv' /\ Forward /\ ReadyBytesExist'
  <2>1. ensure[obj'.key].state = "succeeded" /\ obj'.key \in blob
    BY <1>0, <1>1, <1>3 DEF EnsureInv, ReadyBytesExist
  <2> QED
    BY <1>1, <1>2, <1>3, <1>4, <1>5, <2>1, LiveRowInv
<1>7. DelInv'
  BY <1>0, <1>1, <1>3, <1>4, Fields, DeletionsKept
<1>8. ReferencesExact'
  BY <1>2, <1>3 DEF ReferencesExact
<1>9. TypeOK'
  <2>1. obj' \in [status : {"none", "ready", "deleting", "deleted"}, key : Keys, ver : Versions, refs : Nat]
    BY <1>0, <1>1, <1>2, <1>3, Fields DEF Counted
  <2> QED
    BY <1>0, <1>1, <1>2, <2>1 DEF TypeOK
<1>10. JobInv'
  BY <1>0, <1>1, <1>6, OtherJobs DEF JobInv
<1> QED
  BY <1>6, <1>7, <1>8, <1>9, <1>10 DEF SafetyInv

LEMMA GarbageCollectInv ==
  ASSUME SafetyInv, GarbageCollect
  PROVE  SafetyInv'
<1>0. TypeOK /\ JobInv /\ EnsureInv /\ RowInv /\ ReferencesExact /\ ReadyBytesExist
  BY DEF SafetyInv
<1>1. /\ obj.status \in {"ready", "deleting"} /\ live = {} /\ obj.refs = 0
      /\ UNCHANGED <<live, imported, blob, up, staged, ensure, job, faults>>
      /\ del' = EnqueueDelete(obj'.ver, obj.key) /\ Counted
  BY DEF GarbageCollect
<1>2. /\ obj'.status = "deleting" /\ obj'.key = obj.key /\ obj'.refs = 0 /\ obj'.ver \in Versions
      /\ obj' = obj \/ obj'.ver = obj.ver + 1
      /\ obj' \in [status : {"deleting"}, key : {obj.key}, ver : {obj'.ver}, refs : {0}]
  <2>0. obj'.ver \in Versions
    BY <1>1 DEF Counted
  <2>1. obj \in [status : {"none", "ready", "deleting", "deleted"}, key : Keys, ver : Nat, refs : Nat]
    BY <1>0, ContentAssumption DEF TypeOK, Versions
  <2>2. CASE obj.status = "ready"
    <3>1. obj' \in [status : {"deleting"}, key : {obj.key}, ver : {obj.ver + 1}, refs : {obj.refs}]
      BY <2>1, <2>2, ReferenceRow DEF GarbageCollect
    <3> QED
      BY <1>1, <2>0, <3>1
  <2>3. CASE obj.status = "deleting"
    BY <1>1, <2>0, <2>1, <2>3 DEF GarbageCollect
  <2> QED
    BY <1>1, <2>2, <2>3
<1>3. obj'.ver \in Nat /\ obj'.ver >= obj.ver /\ obj.key < obj'.ver /\ obj.key \in Keys
  BY <1>0, <1>1, <1>2, Fields, ContentAssumption DEF RowInv, Versions
<1>4. \A j \in Keys : del[j].state # "absent" => del'[j].state # "absent"
  BY <1>0, <1>1, <1>2, <1>3, EnqueuedDelete DEF Keys
<1>5. ASSUME NEW j \in Keys, ensure[j].state # "absent", ensure[j].state # "succeeded"
      PROVE  up'[ensure[j].by] = "failed"
  BY <1>1, <1>5, NoneFresh, UnfinishedCopies
<1>6. EnsureInv' /\ RowInv' /\ Forward /\ ReadyBytesExist'
  <2>1. CASE obj' = obj
    <3>1. \A j \in Keys : (Fresh(j)' <=> Fresh(j)) /\ (Known(j)' <=> Known(j))
      BY <2>1, SameRow
    <3>2. Forward
      BY <1>1, <1>4, <3>1 DEF Forward
    <3>3. EnsureInv'
      BY <1>0, <1>1, <2>1, <3>1 DEF EnsureInv, Requested
    <3>4. RowInv' /\ ReadyBytesExist'
      BY <1>0, <1>1, <2>1 DEF RowInv, ReadyBytesExist
    <3> QED
      BY <3>2, <3>3, <3>4
  <2>2. CASE obj'.ver = obj.ver + 1
    <3>1. obj'.ver > obj.ver /\ IsFiniteSet(live')
      BY <1>0, <1>1, <2>2, Fields DEF RowInv
    <3> QED
      BY <1>1, <1>2, <1>3, <1>4, <1>5, <3>1, LiveRowInv
  <2> QED
    BY <1>2, <2>1, <2>2
<1>7. DelInv'
  BY <1>0, <1>1, <1>2, <1>3, DeletionAdded
<1>8. ReferencesExact'
  BY <1>0, <1>1, <1>2 DEF ReferencesExact
<1>9. TypeOK'
  <2>1. obj' \in [status : {"none", "ready", "deleting", "deleted"}, key : Keys, ver : Versions, refs : Nat]
    BY <1>0, <1>2, Fields
  <2>2. del' \in [Versions -> [state : OpStates, key : Keys, owner : Actors \cup {Nobody}]]
    BY <1>0, <1>1, <1>2, <1>3, EnqueuedDelete
  <2> QED
    BY <1>0, <1>1, <2>1, <2>2 DEF TypeOK
<1>10. JobInv'
  BY <1>0, <1>1, <1>6, OtherJobs DEF JobInv
<1> QED
  BY <1>6, <1>7, <1>8, <1>9, <1>10 DEF SafetyInv

\* The closing transaction of a deletion, by the owner of its row.
LEMMA DeletionEnds ==
  ASSUME SafetyInv, NEW w \in Actors, DeleteCommit(w), Owns(w), live = {}, ~(obj.refs > 0)
  PROVE  /\ job[w].pc = "commit" /\ job[w].kind = "delete" /\ Deleting(w)
         /\ SetRow("delete", job[w].k, "succeeded", Nobody) /\ job' = [job EXCEPT ![w] = Idle]
         /\ obj' = IF obj.status = "deleting" /\ obj.key = RowOf(w).key
                     THEN [obj EXCEPT !.status = "deleted", !.ver = @ + 1] ELSE obj
         /\ UNCHANGED <<live, imported, blob, up, staged, faults>> /\ Counted
<1>0. TypeOK /\ JobInv
  BY DEF SafetyInv
<1>1. job[w].pc = "commit" /\ job[w].kind = "delete" /\ Deleting(w)
  BY <1>0, Kinds DEF DeleteCommit
<1>2. Succeed(w) /\ w \notin Sessions
  BY <1>1 DEF DeleteCommit, Deleting
<1>3. SetRow("delete", job[w].k, "succeeded", Nobody) /\ job' = [job EXCEPT ![w] = Idle]
  BY <1>1, <1>2 DEF Succeed, Finish
<1> QED
  BY <1>1, <1>3 DEF DeleteCommit

LEMMA DeleteCommitInv ==
  ASSUME SafetyInv, NEW w \in Actors, DeleteCommit(w)
  PROVE  SafetyInv'
<1>0. /\ TypeOK /\ JobInv /\ EnsureInv /\ RowInv /\ DelInv /\ ReferencesExact /\ ReadyBytesExist
      /\ job[w].k \in Keys
  BY Fields DEF SafetyInv
<1>1. CASE ~Owns(w) \/ live # {} \/ obj.refs > 0
  <2>1. job[w].pc = "commit" /\ job[w].kind = "delete" /\ Deleting(w)
    BY <1>0, Kinds DEF DeleteCommit
  <2>2. Go(w, "err") /\ UNCHANGED <<obj, ensure, del, live, imported, blob, up, staged, faults>>
    BY <1>1 DEF DeleteCommit
  <2>3. faults' \in [n : 0 .. MaxFaults, outlived : BOOLEAN] /\ blob' \subseteq Keys
    BY <1>0, <2>2 DEF TypeOK
  <2> QED
    BY <2>1, <2>2, <2>3, GoInv
<1>2. CASE Owns(w) /\ live = {} /\ ~(obj.refs > 0)
  <2>1. /\ job[w].pc = "commit" /\ job[w].kind = "delete" /\ Deleting(w)
        /\ SetRow("delete", job[w].k, "succeeded", Nobody) /\ job' = [job EXCEPT ![w] = Idle]
        /\ obj' = IF obj.status = "deleting" /\ obj.key = RowOf(w).key
                    THEN [obj EXCEPT !.status = "deleted", !.ver = @ + 1] ELSE obj
        /\ UNCHANGED <<live, imported, blob, up, staged, faults>> /\ Counted
    BY <1>2, DeletionEnds
  <2>2. /\ del'[job[w].k].state = "succeeded" /\ del'[job[w].k].key = del[job[w].k].key
        /\ \A j \in Keys \ {job[w].k} : del'[j] = del[j]
        /\ ensure' = ensure
        /\ del' \in [Versions -> [state : OpStates, key : Keys, owner : Actors \cup {Nobody}]]
    BY <1>0, <2>1, SetRowTypes DEF OpStates
  <2>3. del[job[w].k].state # "absent"
    BY <2>1 DEF Deleting
  <2>4. /\ job' \in [Actors -> [pc : Steps, kind : {"none", "ensure", "delete"}, k : Keys]]
        /\ \A b \in Actors \ {w} : job'[b] = job[b]
        /\ JobOK(w)'
    BY <1>0, <2>1, IdleTypes DEF JobOK
  <2>5. CASE obj.status = "deleting" /\ obj.key = RowOf(w).key
    <3>1. /\ obj'.status = "deleted" /\ obj'.ver = obj.ver + 1 /\ obj'.key = obj.key /\ obj'.refs = obj.refs
          /\ obj' \in [status : {"deleted"}, key : Keys, ver : {obj'.ver}, refs : Nat]
      BY <1>0, <2>1, <2>5 DEF TypeOK
    <3>2. \A k \in Keys : (Fresh(k)' => ~Known(k)) /\ (Known(k) => Known(k)')
      BY <1>0, <2>5, <3>1, RetiredRow
    <3>3. \A k \in Keys : ~Fresh(k)
      BY <2>5, NoneFresh
    <3>4. EnsureInv'
      <4>1. ASSUME NEW j \in Keys, ensure[j].state # "absent" PROVE Requested(j)'
        <5>1. Requested(j)
          BY <1>0, <4>1 DEF EnsureInv
        <5> QED
          BY <2>1, <2>2, <3>2, <3>3, <5>1 DEF Requested
      <4> QED
        BY <2>2, <3>1, <4>1 DEF EnsureInv
    <3>5. ASSUME NEW b \in Actors, b # w PROVE JobOK(b)'
      <4>1. JobOK(b) /\ job'[b] = job[b] /\ job[b].k \in Keys
        BY <1>0, <2>4, <3>5, Fields DEF JobInv
      <4>2. del'[job[b].k].state = "absent" => del[job[b].k].state = "absent"
        BY <2>2, <4>1
      <4> QED
        BY <2>2, <3>2, <4>1, <4>2 DEF JobOK, Copying, Deleting
    <3>6. JobInv'
      BY <2>4, <3>5 DEF JobInv
    <3>7. RowInv' /\ ReferencesExact' /\ ReadyBytesExist'
      BY <1>0, <1>2, <2>1, <3>1, Fields DEF RowInv, ReferencesExact, ReadyBytesExist
    <3>8. DelInv'
      <4>1. ASSUME NEW v \in Versions, del'[v].state # "absent"
            PROVE  del'[v].key < obj'.ver /\ (del'[v].state = "running" => del'[v].owner \in Actors)
        <5>1. v \in Keys /\ del[v].key \in Nat /\ obj.ver \in Nat
          BY <1>0, Fields DEF Keys
        <5>2. del[v].state # "absent" /\ del'[v].key = del[v].key
          BY <2>2, <2>3, <4>1, <5>1
        <5>3. del[v].key < obj.ver /\ (del[v].state = "running" => del[v].owner \in Actors)
          BY <1>0, <5>2 DEF DelInv
        <5>4. del'[v].state = "running" => del'[v] = del[v]
          BY <2>2, <5>1
        <5> QED
          BY <3>1, <5>1, <5>2, <5>3, <5>4
      <4> QED
        BY <3>1, <4>1 DEF DelInv
    <3>9. TypeOK'
      <4>1. obj' \in [status : {"none", "ready", "deleting", "deleted"}, key : Keys, ver : Versions, refs : Nat]
        BY <2>1, <3>1 DEF Counted
      <4> QED
        BY <1>0, <2>1, <2>2, <2>4, <4>1 DEF TypeOK
    <3> QED
      BY <3>4, <3>6, <3>7, <3>8, <3>9 DEF SafetyInv
  <2>6. CASE ~(obj.status = "deleting" /\ obj.key = RowOf(w).key)
    <3>1. obj' = obj /\ Row("delete", job[w].k).state = "running"
      BY <1>2, <2>1, <2>6 DEF Owns, RowOf
    <3>2. EnsureInv' /\ DelInv' /\ Forward /\ RowInv' /\ ReferencesExact' /\ ReadyBytesExist'
      BY <1>0, <2>1, <3>1, RowWritten DEF OpStates
    <3>3. JobInv'
      BY <1>0, <2>4, <3>2, OneJobMoves
    <3>4. TypeOK'
      BY <1>0, <2>1, <2>2, <2>4, <3>1 DEF TypeOK
    <3> QED
      BY <3>2, <3>3, <3>4 DEF SafetyInv
  <2> QED
    BY <2>5, <2>6
<1> QED
  BY <1>1, <1>2

LEMMA InitSafety == Init => SafetyInv
<1> SUFFICES ASSUME Init PROVE SafetyInv
  OBVIOUS
<1>1. TypeOK
  <2>1. 0 \in Keys /\ Keys = Versions /\ 0 \in 0 .. MaxFaults
    BY ContentAssumption DEF Keys, Versions
  <2> QED
    BY <2>1 DEF Init, TypeOK, Idle, OpStates, Steps
<1>2. RowInv /\ ReferencesExact /\ ReadyBytesExist
  BY FS_EmptySet DEF Init, RowInv, ReferencesExact, ReadyBytesExist
<1>3. EnsureInv /\ DelInv /\ JobInv
  BY DEF Init, EnsureInv, DelInv, JobInv, JobOK, Idle
<1> QED
  BY <1>1, <1>2, <1>3 DEF SafetyInv

LEMMA NextSafety == SafetyInv /\ [Next]_vars => SafetyInv'
<1> SUFFICES ASSUME SafetyInv, [Next]_vars PROVE SafetyInv'
  OBVIOUS
<1>1. ASSUME NEW s \in Sessions, TaskStep(s) \/ EnsureTimesOut(s) \/ Fail(s) \/ DeleteStaging(s) PROVE SafetyInv'
  BY <1>1, EnsureCanonicalInv, ExecuteInv, PublishInv, QuietTaskInv, FailInv, DeleteStagingInv DEF TaskStep
<1>2. ASSUME NEW a \in Actors, JobStep(a) \/ StepFails(a) \/ Crash(a) PROVE SafetyInv'
  BY <1>2, CopyCheckInv, CopyObjectInv, MarkCopiedInv, RecordErrorInv, DeleteVerdictInv, RemoveObjectInv,
     DeleteCommitInv, StepFailsInv, CrashInv DEF JobStep
<1>3. CASE UNCHANGED vars
  BY <1>3 DEF vars, SafetyInv, TypeOK, RowInv, EnsureInv, Requested, Known, Fresh, DelInv, JobInv, JobOK, Copying,
     Deleting, ReferencesExact, ReadyBytesExist
<1> QED
  BY <1>1, <1>2, <1>3, ClaimInv, ReferencesInv, GarbageCollectInv, ExhaustedInv DEF Next

-----------------------------------------------------------------------------
(* While no lease is outlived *)

\* Nobody is at work on a row that is due, and one actor at most on any other.
LEMMA AloneOnRow ==
  ASSUME TypeOK, OwnersInv, NEW b \in Actors, job[b].pc \in AtWork
  PROVE  /\ ~Due(job[b].kind, job[b].k)
         /\ RowOf(b).state = "running" /\ RowOf(b).owner = b
         /\ \A a \in Actors : Owns(a) /\ job[a].kind = job[b].kind /\ job[a].k = job[b].k => a = b
<1>1. Owns(b)
  BY DEF OwnersInv
<1>2. Executing(b, job[b].kind, job[b].k)
  BY DEF Executing, AtWork
<1> QED
  BY <1>1, <1>2 DEF Owns, RowOf, Due

LEMMA OtherRow ==
  ASSUME TypeOK, NEW kind \in {"ensure", "delete"}, NEW k \in Keys, NEW state \in OpStates,
         NEW owner \in Actors \cup {Nobody}, SetRow(kind, k, state, owner),
         NEW b \in Actors, job'[b] = job[b], job[b].kind \in {"ensure", "delete"},
         job[b].kind # kind \/ job[b].k # k
  PROVE  RowOf(b)' = RowOf(b)
<1>1. job[b].k \in Keys
  BY Fields
<1> QED
  BY <1>1, SetRowTypes DEF RowOf, Row

\* A step of one actor on a row nobody else is at work on.
LEMMA OwnersKept ==
  ASSUME SafetyInv, OwnersInv, NEW a \in Actors, NEW kind \in {"ensure", "delete"}, NEW k \in Keys,
         NEW state \in OpStates, NEW owner \in Actors \cup {Nobody}, SetRow(kind, k, state, owner),
         Due(kind, k) \/ (Owns(a) /\ job[a].kind = kind /\ job[a].k = k),
         \A b \in Actors \ {a} : job'[b] = job[b],
         job'[a].pc \in AtWork => Owns(a)'
  PROVE  OwnersInv'
<1>0. TypeOK /\ JobInv
  BY DEF SafetyInv
<1>1. ASSUME NEW b \in Actors, b # a, job'[b].pc \in AtWork PROVE Owns(b)'
  <2>1. job[b].pc \in AtWork /\ job'[b] = job[b]
    BY <1>1
  <2>2. job[b].kind # kind \/ job[b].k # k
    BY <1>0, <1>1, <2>1, AloneOnRow
  <2>3. job[b].kind \in {"ensure", "delete"}
    BY <1>0, <2>1, Kinds DEF AtWork
  <2>4. RowOf(b)' = RowOf(b)
    BY <1>0, <2>1, <2>2, <2>3, OtherRow
  <2> QED
    BY <2>1, <2>4 DEF OwnersInv, Owns
<1> QED
  BY <1>1 DEF OwnersInv

\* A step that moves neither the object row nor bytes, and starts no copy and no
\* removal.
LEMMA LeaseKept ==
  ASSUME SafetyInv, LeaseInv, Forward, OwnersInv', obj' = obj, blob' = blob,
         \A v \in Keys : del[v].state # "absent" => del'[v].key = del[v].key,
         \A b \in Actors : job'[b].pc \in {"copy", "remove", "commit"} => job'[b] = job[b]
  PROVE  LeaseInv'
<1>0. TypeOK /\ JobInv /\ CopiesInv /\ BehindInv /\ GoneInv /\ BytesInv
  BY DEF SafetyInv, LeaseInv
<1>1. \A j \in Keys : (Fresh(j)' <=> Fresh(j)) /\ (Known(j)' <=> Known(j))
  BY SameRow
<1>2. \A b \in Actors : job[b].k \in Keys
  BY <1>0, Fields
<1>3. \A b \in Actors : job[b].pc \in {"remove", "commit"} => del'[job[b].k].key = del[job[b].k].key
  BY <1>0, <1>2, Kinds DEF Deleting
<1>4. CopiesInv'
  BY <1>0, <1>1, <1>2 DEF CopiesInv
<1>5. BehindInv'
  BY <1>0, <1>3 DEF BehindInv
<1>6. GoneInv'
  BY <1>0, <1>3 DEF GoneInv
<1>7. blob \subseteq Keys
  BY <1>0 DEF TypeOK
<1>8. BytesInv'
  BY <1>0, <1>1, <1>7 DEF BytesInv, Kept, Forward
<1> QED
  BY <1>4, <1>5, <1>6, <1>8 DEF LeaseInv

\* A step that ends jobs at most, and writes no row of a job at work.
LEMMA LeaseRow ==
  ASSUME SafetyInv, LeaseInv, blob' = blob, ensure' = ensure,
         \A v \in Keys : del[v].state # "absent" => del'[v] = del[v],
         \A b \in Actors : job'[b] = job[b] \/ job'[b].pc \notin AtWork,
         CopiesInv', \A k \in blob : Kept(k)'
  PROVE  LeaseInv'
<1>0. TypeOK /\ JobInv /\ OwnersInv /\ BehindInv /\ GoneInv /\ BytesInv
  BY DEF SafetyInv, LeaseInv
<1>1. \A b \in Actors : job[b].k \in Keys
  BY <1>0, Fields
<1>2. \A b \in Actors : job[b].pc \in {"remove", "commit"} => del'[job[b].k] = del[job[b].k]
  BY <1>0, <1>1, Kinds DEF Deleting
<1>3. OwnersInv'
  <2>1. ASSUME NEW b \in Actors, job'[b].pc \in AtWork PROVE Owns(b)'
    <3>1. job'[b] = job[b] /\ Owns(b)
      BY <1>0, <2>1 DEF OwnersInv
    <3>2. job[b].kind = "delete" => del'[job[b].k] = del[job[b].k]
      BY <1>1, <3>1 DEF Owns, RowOf, Row
    <3>3. job[b].kind \in {"ensure", "delete"}
      BY <1>0, <2>1, <3>1, Kinds DEF AtWork
    <3> QED
      BY <3>1, <3>2, <3>3 DEF Owns, RowOf, Row
  <2> QED
    BY <2>1 DEF OwnersInv
<1>4. BehindInv' /\ GoneInv'
  BY <1>0, <1>2 DEF BehindInv, GoneInv, AtWork
<1>5. BytesInv'
  BY <1>0 DEF BytesInv
<1> QED
  BY <1>3, <1>4, <1>5 DEF LeaseInv

\* A step that moves neither rows at work nor bytes, and ends jobs or makes them fail.
LEMMA LeaseQuiet ==
  ASSUME SafetyInv, LeaseInv, UNCHANGED <<obj, blob, del>>,
         \A k \in Keys : ensure[k].state # "absent" => ensure'[k] = ensure[k],
         \A b \in Actors :
           \/ job'[b] = job[b] \/ job'[b].pc \notin AtWork
           \/ /\ job[b].pc \in AtWork /\ job'[b].pc = "err"
              /\ job'[b].kind = job[b].kind /\ job'[b].k = job[b].k
  PROVE  LeaseInv'
<1>0. TypeOK /\ JobInv /\ OwnersInv
  BY DEF SafetyInv, LeaseInv
<1>1. \A j \in Keys : (Fresh(j)' <=> Fresh(j)) /\ (Known(j)' <=> Known(j))
  BY SameRow
<1>2. Forward
  BY <1>1 DEF Forward
<1>3. OwnersInv'
  <2>1. ASSUME NEW b \in Actors, job'[b].pc \in AtWork PROVE Owns(b)'
    <3>1. /\ job[b].pc \in AtWork /\ job'[b].kind = job[b].kind /\ job'[b].k = job[b].k /\ Owns(b)
          /\ job[b].k \in Keys
      BY <1>0, <2>1, Fields DEF OwnersInv
    <3> QED
      BY <3>1 DEF Owns, RowOf, Row
  <2> QED
    BY <2>1 DEF OwnersInv
<1>4. \A b \in Actors : job'[b].pc \in {"copy", "remove", "commit"} => job'[b] = job[b]
  BY DEF AtWork
<1> QED
  BY <1>2, <1>3, <1>4, LeaseKept

LEMMA QuietTaskLease ==
  ASSUME SafetyInv, LeaseInv, NEW s \in Sessions, EnsureTimesOut(s) \/ FailAgain(s) \/ DeleteStaging(s)
  PROVE  LeaseInv'
<1>0. TypeOK /\ s \in Actors
  BY DEF SafetyInv, Actors
<1>1. CASE EnsureTimesOut(s) \/ FailAgain(s)
  <2>1. job' = [job EXCEPT ![s] = Idle] /\ UNCHANGED <<obj, blob, del, ensure>>
    BY <1>1 DEF EnsureTimesOut, FailAgain
  <2> QED
    BY <1>0, <2>1, IdleTypes, LeaseQuiet DEF AtWork
<1>2. CASE DeleteStaging(s)
  BY <1>2, LeaseQuiet DEF DeleteStaging
<1> QED
  BY <1>1, <1>2

LEMMA CrashLease ==
  ASSUME SafetyInv, LeaseInv, NEW a \in Actors, Crash(a)
  PROVE  LeaseInv'
<1>0. TypeOK /\ job' = [job EXCEPT ![a] = Idle] /\ UNCHANGED <<obj, blob, del, ensure>>
  BY DEF SafetyInv, Crash
<1> QED
  BY <1>0, IdleTypes, LeaseQuiet DEF AtWork

LEMMA EnsureCanonicalLease ==
  ASSUME SafetyInv, LeaseInv, NEW s \in Sessions, EnsureCanonical(s)
  PROVE  LeaseInv'
<1>0. TypeOK /\ s \in Actors /\ UNCHANGED <<obj, blob, del>>
  BY DEF SafetyInv, Actors, EnsureCanonical
<1>1. PICK pc, k : /\ pc \in {"final", "exec"}
                   /\ job' = [job EXCEPT ![s] = [pc |-> pc, kind |-> "ensure", k |-> k]]
                   /\ ensure' = ensure \/ ensure' = EnqueueEnsure(k, s)
  BY DEF EnsureCanonical
<1>2. \A b \in Actors : job'[b] = job[b] \/ job'[b].pc \notin AtWork
  BY <1>0, <1>1 DEF AtWork, TypeOK
<1>3. \A j \in Keys : ensure[j].state # "absent" => ensure'[j] = ensure[j]
  BY <1>0, <1>1 DEF EnqueueEnsure, TypeOK
<1> QED
  BY <1>0, <1>2, <1>3, LeaseQuiet

\* A claim without a fault finds a row nobody is at work on.
LEMMA TakeRow ==
  ASSUME SafetyInv, LeaseInv, NEW a \in Actors, NEW kind \in {"ensure", "delete"}, NEW k \in Keys,
         Due(kind, k), SetRow(kind, k, "running", a),
         \A b \in Actors \ {a} : job'[b] = job[b],
         job'[a].pc \in {"check", "verdict"}, job'[a].kind = kind, job'[a].k = k,
         UNCHANGED <<obj, live, up, blob>>
  PROVE  LeaseInv'
<1>0. TypeOK /\ OwnersInv /\ Row(kind, k).state \in {"pending", "running"}
  BY DEF SafetyInv, LeaseInv, Due
<1>1. Forward
  BY <1>0, RowWritten DEF OpStates
<1>2. /\ kind = "ensure" => ensure'[k].state = "running" /\ ensure'[k].owner = a /\ del' = del
      /\ kind = "delete" => del'[k].state = "running" /\ del'[k].owner = a /\ del'[k].key = del[k].key
      /\ kind = "delete" => \A j \in Keys \ {k} : del'[j] = del[j]
  BY <1>0, SetRowTypes DEF OpStates
<1>3. Owns(a)'
  BY <1>2 DEF Owns, RowOf, Row
<1>4. OwnersInv'
  BY <1>0, <1>3, OwnersKept DEF OpStates
<1>5. \A v \in Keys : del'[v].key = del[v].key
  BY <1>2
<1>6. \A b \in Actors : job'[b].pc \in {"copy", "remove", "commit"} => job'[b] = job[b]
  OBVIOUS
<1> QED
  BY <1>1, <1>4, <1>5, <1>6, LeaseKept

\* A claim with a fault is a lease outlived.
LEMMA NoFaultyClaim ==
  ASSUME TypeOK, NEW kind, NEW k, Claimable(kind, k), ~faults'.outlived
  PROVE  Due(kind, k) /\ ~faults.outlived
<1>1. ASSUME Fault(TRUE) PROVE faults'.outlived
  <2>1. faults'.outlived = (faults.outlived \/ TRUE)
    BY <1>1, Zenon DEF Fault
  <2> QED
    BY <2>1
<1> QED
  BY <1>1 DEF Claimable

LEMMA ExecuteLease ==
  ASSUME SafetyInv, LeaseInv, NEW s \in Sessions, ExecuteCanonicalEnsure(s), ~faults'.outlived
  PROVE  LeaseInv'
<1>0. TypeOK /\ JobInv /\ s \in Actors /\ job[s].k \in Keys
  BY Fields DEF SafetyInv, Actors
<1>1. job[s].pc = "exec" /\ job[s].kind = "ensure" /\ UNCHANGED <<obj, live, imported, blob, up, staged>>
  BY <1>0, Kinds DEF ExecuteCanonicalEnsure
<1>2. CASE Claimable("ensure", job[s].k) /\ SetRow("ensure", job[s].k, "running", s) /\ Go(s, "check")
  <2>1. /\ job'[s].pc = "check" /\ job'[s].kind = "ensure" /\ job'[s].k = job[s].k
        /\ \A b \in Actors \ {s} : job'[b] = job[b]
    BY <1>0, <1>1, <1>2, GoTypes DEF Steps
  <2>2. Due("ensure", job[s].k)
    BY <1>0, <1>2, NoFaultyClaim
  <2> QED
    BY <1>0, <1>1, <1>2, <2>1, <2>2, TakeRow
<1>3. CASE /\ Go(s, IF ensure[job[s].k].state = "dead" THEN "fail" ELSE "final")
           /\ UNCHANGED <<ensure, del>>
  <2>1. \A b \in Actors : job'[b] = job[b] \/ job'[b].pc \notin AtWork
    BY <1>0, <1>3, GoTypes DEF Steps, AtWork
  <2> QED
    BY <1>1, <1>3, <2>1, LeaseQuiet
<1> QED
  BY <1>2, <1>3 DEF ExecuteCanonicalEnsure

LEMMA ClaimLease ==
  ASSUME SafetyInv, LeaseInv, NEW w \in Workers, NEW kind \in {"ensure", "delete"}, NEW k \in Keys,
         Claim(w, kind, k), ~faults'.outlived
  PROVE  LeaseInv'
<1>0. TypeOK /\ w \in Actors
  BY DEF SafetyInv, Actors
<1> DEFINE pc == IF kind = "ensure" THEN "check" ELSE "verdict"
<1>1. pc \in Steps /\ pc \in {"check", "verdict"}
  BY DEF Steps
<1>2. job' = [job EXCEPT ![w] = [pc |-> pc, kind |-> kind, k |-> k]]
  BY DEF Claim
<1>3. /\ job'[w].pc = pc /\ job'[w].kind = kind /\ job'[w].k = k
      /\ \A b \in Actors \ {w} : job'[b] = job[b]
  BY <1>0, <1>1, <1>2, StartTypes
<1>4. Due(kind, k) /\ SetRow(kind, k, "running", w) /\ UNCHANGED <<obj, live, up, blob>>
  BY <1>0, NoFaultyClaim DEF Claim
<1> QED
  BY <1>0, <1>1, <1>3, <1>4, TakeRow

\* The owner of a row lets go of it.
LEMMA LeaveRow ==
  ASSUME SafetyInv, LeaseInv, NEW a \in Actors, job[a].kind \in {"ensure", "delete"}, Owns(a),
         NEW state \in {"pending", "succeeded"}, SetRow(job[a].kind, job[a].k, state, Nobody),
         job[a].kind = "ensure" /\ state = "succeeded" /\ Fresh(job[a].k) => job[a].k \in blob,
         \A b \in Actors \ {a} : job'[b] = job[b], job'[a].pc \notin AtWork,
         UNCHANGED <<obj, live, up, blob>>
  PROVE  LeaseInv'
<1>0. TypeOK /\ OwnersInv /\ job[a].k \in Keys /\ Row(job[a].kind, job[a].k).state = "running"
  BY Fields DEF SafetyInv, LeaseInv, Owns, RowOf
<1>1. Forward
  BY <1>0, RowWritten DEF OpStates
<1>2. OwnersInv'
  BY <1>0, OwnersKept DEF OpStates
<1>3. \A v \in Keys : del'[v].key = del[v].key
  BY <1>0, SetRowTypes DEF OpStates
<1>4. \A b \in Actors : job'[b].pc \in {"copy", "remove", "commit"} => job'[b] = job[b]
  BY DEF AtWork
<1> QED
  BY <1>1, <1>2, <1>3, <1>4, LeaseKept

LEMMA SucceedLease ==
  ASSUME SafetyInv, LeaseInv, NEW a \in Actors, Succeed(a), job[a].pc \in {"check", "mark", "verdict"},
         job[a].kind = "ensure" /\ Fresh(job[a].k) => job[a].k \in blob,
         UNCHANGED <<obj, live, up, blob>>
  PROVE  LeaseInv'
<1>0. TypeOK /\ JobInv /\ OwnersInv
  BY DEF SafetyInv, LeaseInv
<1>1. Owns(a) /\ job[a].kind \in {"ensure", "delete"}
  BY <1>0, Kinds DEF OwnersInv, AtWork
<1>2. SetRow(job[a].kind, job[a].k, "succeeded", Nobody) /\ Finish(a)
  BY <1>1 DEF Succeed
<1>3. (\A b \in Actors \ {a} : job'[b] = job[b]) /\ job'[a].pc \notin AtWork
  BY <1>0, <1>2, FinishTypes DEF AtWork
<1> QED
  BY <1>1, <1>2, <1>3, LeaveRow

LEMMA RecordErrorLease ==
  ASSUME SafetyInv, LeaseInv, NEW a \in Actors, RecordError(a)
  PROVE  LeaseInv'
<1>0. TypeOK /\ JobInv /\ OwnersInv
  BY DEF SafetyInv, LeaseInv
<1>1. Owns(a) /\ job[a].kind \in {"ensure", "delete"}
  BY <1>0, Kinds DEF OwnersInv, AtWork, RecordError
<1>2. SetRow(job[a].kind, job[a].k, "pending", Nobody) /\ job' = [job EXCEPT ![a] = Idle]
  BY <1>1 DEF RecordError
<1>3. (\A b \in Actors \ {a} : job'[b] = job[b]) /\ job'[a].pc \notin AtWork
  BY <1>0, <1>2, IdleTypes DEF AtWork
<1> QED
  BY <1>1, <1>2, <1>3, LeaveRow DEF RecordError

LEMMA ExhaustedLease ==
  ASSUME SafetyInv, LeaseInv, NEW kind \in {"ensure", "delete"}, NEW k \in Keys, Exhausted(kind, k)
  PROVE  LeaseInv'
<1>0. /\ TypeOK /\ JobInv /\ OwnersInv /\ Due(kind, k) /\ SetRow(kind, k, "dead", Nobody)
      /\ UNCHANGED <<obj, live, up, blob, job>> /\ Row(kind, k).state \in {"pending", "running"}
  BY DEF SafetyInv, LeaseInv, Exhausted, Due
<1>1. Forward
  BY <1>0, RowWritten DEF OpStates
<1>2. ASSUME NEW b \in Actors, job[b].pc \in AtWork PROVE Owns(b)'
  <2>1. job[b].kind # kind \/ job[b].k # k
    BY <1>0, <1>2, AloneOnRow
  <2>2. job[b].kind \in {"ensure", "delete"}
    BY <1>0, <1>2, Kinds DEF AtWork
  <2>3. RowOf(b)' = RowOf(b)
    BY <1>0, <2>1, <2>2, OtherRow DEF OpStates
  <2> QED
    BY <1>0, <1>2, <2>3 DEF OwnersInv, Owns
<1>3. OwnersInv'
  BY <1>0, <1>2 DEF OwnersInv
<1>4. \A v \in Keys : del'[v].key = del[v].key
  BY <1>0, SetRowTypes DEF OpStates
<1> QED
  BY <1>0, <1>1, <1>3, <1>4, LeaseKept

LEMMA CopyCheckLease ==
  ASSUME SafetyInv, LeaseInv, NEW a \in Actors, CopyCheck(a)
  PROVE  LeaseInv'
<1>0. /\ TypeOK /\ JobInv /\ EnsureInv /\ OwnersInv /\ CopiesInv /\ BehindInv /\ GoneInv /\ BytesInv
      /\ job[a].k \in Keys
  BY Fields DEF SafetyInv, LeaseInv
<1>1. job[a].pc = "check" /\ job[a].kind = "ensure" /\ Copying(a)
  BY <1>0, Kinds DEF CopyCheck
<1>2. UNCHANGED <<obj, live, imported, blob, up, staged, faults>>
  BY DEF CopyCheck
<1>3. RowOf(a) = ensure[job[a].k] /\ Requested(job[a].k)
  BY <1>0, <1>1 DEF RowOf, Row, EnsureInv, Copying
<1>4. CASE up[RowOf(a).by] = "failed"
  <2>1. ~Fresh(job[a].k)
    BY <1>3, <1>4 DEF Requested
  <2> QED
    BY <1>1, <1>2, <1>4, <2>1, SucceedLease DEF CopyCheck
<1>5. CASE up[RowOf(a).by] # "failed"
  <2>1. Go(a, "copy") /\ UNCHANGED <<ensure, del>>
    BY <1>5 DEF CopyCheck
  <2>2. /\ job'[a].pc = "copy" /\ job'[a].kind = job[a].kind /\ job'[a].k = job[a].k
        /\ \A b \in Actors \ {a} : job'[b] = job[b]
    BY <1>0, <2>1, GoTypes DEF Steps
  <2>3. Fresh(job[a].k)
    BY <1>0, <1>1, <1>3, <1>5 DEF OwnersInv, AtWork, Owns, Requested
  <2>4. \A j \in Keys : (Fresh(j)' <=> Fresh(j)) /\ (Known(j)' <=> Known(j))
    BY <1>2, SameRow
  <2>5. \A w \in Actors : job[w].pc \in {"remove", "commit"} => ~Fresh(del[job[w].k].key)
    BY <1>0, Kinds, DeletedBytes
  <2>6. \A b \in Actors : job[b].k \in Keys
    BY <1>0, Fields
  <2>7. OwnersInv'
    BY <1>0, <1>1, <2>1, <2>2 DEF OwnersInv, AtWork, Owns, RowOf, Row
  <2>8. CopiesInv'
    BY <1>0, <1>2, <2>2, <2>3, <2>4, <2>6 DEF CopiesInv
  <2>9. BehindInv'
    BY <1>0, <2>1, <2>2, <2>3, <2>5 DEF BehindInv
  <2>10. GoneInv'
    BY <1>0, <1>2, <2>1, <2>2 DEF GoneInv
  <2>11. BytesInv'
    BY <1>0, <1>2, <2>1, <2>4 DEF BytesInv, Kept, TypeOK
  <2> QED
    BY <2>7, <2>8, <2>9, <2>10, <2>11 DEF LeaseInv
<1> QED
  BY <1>4, <1>5

LEMMA MarkCopiedLease ==
  ASSUME SafetyInv, LeaseInv, NEW a \in Actors, MarkCopied(a)
  PROVE  LeaseInv'
<1>0. TypeOK /\ JobInv
  BY DEF SafetyInv
<1>1. job[a].pc = "mark" /\ job[a].kind = "ensure" /\ Copying(a)
  BY <1>0, Kinds DEF MarkCopied
<1>2. Fresh(job[a].k) => job[a].k \in blob
  BY <1>1 DEF Copying
<1> QED
  BY <1>1, <1>2, SucceedLease DEF MarkCopied

LEMMA DeleteVerdictLease ==
  ASSUME SafetyInv, LeaseInv, NEW w \in Actors, DeleteVerdict(w)
  PROVE  LeaseInv'
<1>0. TypeOK /\ JobInv /\ OwnersInv /\ CopiesInv /\ BehindInv /\ GoneInv /\ BytesInv
  BY DEF SafetyInv, LeaseInv
<1>1. job[w].pc = "verdict" /\ job[w].kind = "delete" /\ RowOf(w) = del[job[w].k]
  BY <1>0, Kinds DEF DeleteVerdict, RowOf, Row
<1>2. UNCHANGED <<obj, live, imported, blob, up, staged, faults>>
  BY DEF DeleteVerdict
<1>3. CASE Succeed(w)
  BY <1>1, <1>2, <1>3, SucceedLease
<1>4. CASE Go(w, "err") /\ UNCHANGED <<ensure, del>>
  <2>1. /\ job'[w].pc = "err" /\ job'[w].kind = job[w].kind /\ job'[w].k = job[w].k
        /\ \A b \in Actors \ {w} : job'[b] = job[b]
    BY <1>0, <1>4, GoTypes DEF Steps
  <2> QED
    BY <1>1, <1>2, <1>4, <2>1, LeaseQuiet DEF AtWork
<1>5. CASE Go(w, "remove") /\ ensure[RowOf(w).key].state # "running" /\ UNCHANGED <<ensure, del>>
  <2>1. /\ job'[w].pc = "remove" /\ job'[w].kind = job[w].kind /\ job'[w].k = job[w].k
        /\ \A b \in Actors \ {w} : job'[b] = job[b]
    BY <1>0, <1>5, GoTypes DEF Steps
  <2>2. \A j \in Keys : (Fresh(j)' <=> Fresh(j)) /\ (Known(j)' <=> Known(j))
    BY <1>2, SameRow
  <2>3. \A b \in Actors : job[b].k \in Keys
    BY <1>0, Fields
  <2>4. \A a \in Actors : job[a].pc = "copy" => job[a].k # del[job[w].k].key
    <3>1. \A a \in Actors : job[a].pc = "copy" => ensure[job[a].k].state = "running"
      BY <1>0, Kinds DEF OwnersInv, AtWork, Owns, RowOf, Row
    <3> QED
      BY <1>1, <1>5, <3>1
  <2>5. OwnersInv'
    BY <1>0, <1>1, <1>5, <2>1 DEF OwnersInv, AtWork, Owns, RowOf, Row
  <2>6. CopiesInv'
    BY <1>0, <1>2, <2>1, <2>2, <2>3 DEF CopiesInv
  <2>7. BehindInv'
    BY <1>0, <1>5, <2>1, <2>4 DEF BehindInv
  <2>8. GoneInv'
    BY <1>0, <1>2, <1>5, <2>1 DEF GoneInv
  <2>9. BytesInv'
    BY <1>0, <1>2, <1>5, <2>2 DEF BytesInv, Kept, TypeOK
  <2> QED
    BY <2>5, <2>6, <2>7, <2>8, <2>9 DEF LeaseInv
<1> QED
  BY <1>3, <1>4, <1>5 DEF DeleteVerdict

\* A step at the provider: bytes copied by the owner of a copy, or removed by the
\* owner of a deletion.
LEMMA ProviderLease ==
  ASSUME SafetyInv, LeaseInv, NEW a \in Actors, NEW pc \in {"mark", "commit", "err"}, Go(a, pc),
         \/ blob' = blob /\ pc # "commit"
         \/ job[a].pc = "copy" /\ blob' = blob \cup {job[a].k} /\ pc # "commit"
         \/ job[a].pc = "remove" /\ blob' = blob \ {RowOf(a).key},
         job[a].pc \in AtWork,
         UNCHANGED <<obj, ensure, del>>
  PROVE  LeaseInv'
<1>0. /\ TypeOK /\ JobInv /\ OwnersInv /\ CopiesInv /\ BehindInv /\ GoneInv /\ BytesInv
      /\ \A b \in Actors : job[b].k \in Keys
  BY Fields DEF SafetyInv, LeaseInv
<1>1. /\ job'[a].pc = pc /\ job'[a].kind = job[a].kind /\ job'[a].k = job[a].k
      /\ \A b \in Actors \ {a} : job'[b] = job[b]
  BY <1>0, GoTypes DEF Steps
<1>2. \A j \in Keys : (Fresh(j)' <=> Fresh(j)) /\ (Known(j)' <=> Known(j))
  BY SameRow
<1>3. job[a].pc = "remove" => RowOf(a) = del[job[a].k]
  BY <1>0, Kinds DEF RowOf, Row
<1>4. OwnersInv'
  BY <1>0, <1>1 DEF OwnersInv, AtWork, Owns, RowOf, Row
<1>5. CopiesInv'
  BY <1>0, <1>1, <1>2 DEF CopiesInv
<1>6. BehindInv'
  <2>1. job'[a].pc = "commit" => job[a].pc = "remove"
    BY <1>1
  <2> QED
    BY <1>0, <1>1, <2>1 DEF BehindInv
<1>7. GoneInv'
  <2>1. ASSUME NEW w \in Actors, job'[w].pc = "commit" PROVE del[job'[w].k].key \notin blob'
    <3>1. CASE w = a
      BY <1>1, <1>3, <2>1, <3>1
    <3>2. CASE w # a
      <4>1. job[w].pc = "commit" /\ job'[w] = job[w]
        BY <1>1, <2>1, <3>2
      <4> QED
        BY <1>0, <4>1 DEF GoneInv, BehindInv
    <3> QED
      BY <3>1, <3>2
  <2> QED
    BY <2>1 DEF GoneInv
<1>8. BytesInv'
  <2>1. \A k \in Keys : Kept(k)' <=> Kept(k)
    BY <1>2 DEF Kept
  <2>2. job[a].pc = "copy" => Kept(job[a].k) /\ ensure[job[a].k].state # "absent"
    BY <1>0, Kinds DEF CopiesInv, Kept, Copying
  <2>3. blob \subseteq Keys
    BY <1>0 DEF TypeOK
  <2> QED
    BY <1>0, <2>1, <2>2, <2>3 DEF BytesInv
<1> QED
  BY <1>4, <1>5, <1>6, <1>7, <1>8 DEF LeaseInv

LEMMA ProviderStepsLease ==
  ASSUME SafetyInv, LeaseInv, NEW a \in Actors, CopyObject(a) \/ RemoveObject(a) \/ StepFails(a)
  PROVE  LeaseInv'
<1>1. CASE CopyObject(a)
  BY <1>1, ProviderLease DEF CopyObject, AtWork
<1>2. CASE RemoveObject(a)
  BY <1>2, ProviderLease DEF RemoveObject, AtWork
<1>3. CASE StepFails(a)
  <2>1. /\ Go(a, "err") /\ job[a].pc \in AtWork /\ UNCHANGED <<obj, ensure, del>>
        /\ \/ blob' = blob
           \/ job[a].pc = "copy" /\ blob' = blob \cup {job[a].k}
           \/ job[a].pc = "remove" /\ blob' = blob \ {RowOf(a).key}
    BY <1>3 DEF StepFails, AtWork
  <2> QED
    BY <2>1, ProviderLease
<1> QED
  BY <1>1, <1>2, <1>3

-----------------------------------------------------------------------------
(* The object row, while no lease is outlived *)

\* Nobody copies to the key of a copy that is done.
LEMMA CopiesRun ==
  ASSUME SafetyInv, LeaseInv, NEW a \in Actors, job[a].pc = "copy"
  PROVE  ensure[job[a].k].state = "running" /\ job[a].k \in Keys
<1>0. TypeOK /\ JobInv /\ OwnersInv
  BY DEF SafetyInv, LeaseInv
<1> QED
  BY <1>0, Kinds, Fields DEF OwnersInv, AtWork, Owns, RowOf, Row

LEMMA PublishLease ==
  ASSUME SafetyInv, LeaseInv, NEW s \in Sessions, Publish(s)
  PROVE  LeaseInv'
<1>0. /\ TypeOK /\ JobInv /\ EnsureInv /\ RowInv /\ CopiesInv /\ BytesInv
      /\ s \in Actors /\ job[s].k \in Keys
  BY Fields DEF SafetyInv, LeaseInv, Actors
<1>1. job[s].pc = "final" /\ job[s].kind = "ensure" /\ Copying(s) /\ Known(job[s].k)
  BY <1>0, Kinds DEF Publish, Copying
<1>2. UNCHANGED <<imported, blob, staged, ensure, del, faults>>
  BY DEF Publish
<1>3. CASE /\ Reusable(job[s].k)
           /\ obj' = WithReference(CreateOrGet(job[s].k))
           /\ job' = [job EXCEPT ![s] = Idle]
  <2> DEFINE k == job[s].k
             o == CreateOrGet(k)
  <2>1. /\ o \in [status : {"ready"}, key : Keys, ver : Nat, refs : Nat]
        /\ o.key = IF obj.status = "ready" THEN obj.key ELSE k
    BY <1>0, <1>1, <1>3, CreatedRow
  <2>2. obj' \in [status : {"ready"}, key : {o.key}, ver : {o.ver + 1}, refs : {o.refs + 1}]
    BY <1>3, <2>1, ReferenceRow
  <2> HIDE DEF o
  <2>3. obj'.status = "ready" /\ obj'.key = o.key
    BY <2>2
  <2>4. \A j \in Keys : Fresh(j) => obj.status # "ready" /\ j = k /\ ensure[j].state = "succeeded"
    <3>1. ASSUME NEW j \in Keys, Fresh(j) PROVE obj.status # "ready" /\ j = k /\ ensure[j].state = "succeeded"
      <4>1. obj.status \in {"none", "deleted"}
        BY <3>1 DEF Fresh
      <4>2. Fresh(k) /\ j = k
        BY <1>0, <1>1, <1>3, <3>1, <4>1, OneFresh
      <4> QED
        BY <1>1, <4>1, <4>2 DEF Copying
    <3> QED
      BY <3>1
  <2>5. obj.status # "deleting"
    BY <1>3 DEF Reusable
  <2>6. CopiesInv'
    <3>1. ASSUME NEW a \in Actors PROVE job'[a].pc # "copy"
      <4>1. job[a].pc # "copy"
        BY <1>0, <2>4, <2>5, CopiesRun DEF CopiesInv
      <4> QED
        BY <1>0, <1>3, <4>1, IdleTypes
    <3> QED
      BY <3>1 DEF CopiesInv
  <2>7. \A j \in blob : Kept(j)'
    BY <1>0, <2>1, <2>3, <2>4, <2>5 DEF BytesInv, Kept, TypeOK
  <2>8. \A b \in Actors : job'[b] = job[b] \/ job'[b].pc \notin AtWork
    BY <1>0, <1>3, IdleTypes DEF AtWork
  <2> QED
    BY <1>2, <2>6, <2>7, <2>8, LeaseRow
<1>4. CASE Go(s, "fail") /\ UNCHANGED <<obj, live, up>>
  <2>1. \A b \in Actors : job'[b] = job[b] \/ job'[b].pc \notin AtWork
    BY <1>0, <1>4, GoTypes DEF Steps, AtWork
  <2> QED
    BY <1>2, <1>4, <2>1, LeaseQuiet
<1>5. CASE job' = [job EXCEPT ![s] = Idle] /\ UNCHANGED <<obj, live, up>>
  BY <1>0, <1>2, <1>5, IdleTypes, LeaseQuiet DEF AtWork
<1> QED
  BY <1>3, <1>4, <1>5 DEF Publish

LEMMA FailLease ==
  ASSUME SafetyInv, LeaseInv, NEW s \in Sessions, Fail(s)
  PROVE  LeaseInv'
<1>0. TypeOK /\ JobInv /\ EnsureInv /\ RowInv /\ CopiesInv /\ BytesInv /\ s \in Actors
  BY DEF SafetyInv, LeaseInv, Actors
<1>1. UNCHANGED <<blob, ensure>>
  BY DEF Fail
<1>2. \A b \in Actors : job'[b] = job[b] \/ job'[b].pc \notin AtWork
  <2>1. CASE job[s].pc = "fail"
    BY <1>0, <2>1, IdleTypes DEF Fail, AtWork
  <2>2. CASE job[s].pc # "fail"
    BY <2>2 DEF Fail
  <2> QED
    BY <2>1, <2>2
<1>3. CASE ~\E k \in Keys : Adopts(s, k)
  <2>1. UNCHANGED <<obj, del>>
    BY <1>3 DEF Fail, RegisterCanonicalCleanup
  <2> QED
    BY <1>1, <1>2, <2>1, LeaseQuiet
<1>4. CASE \E k \in Keys : Adopts(s, k)
  <2>1. PICK k \in Keys : /\ Adopts(s, k)
                          /\ obj' = Retired(CreateOrGet(k)) /\ Counted
                          /\ del' = EnqueueDelete(obj'.ver, k)
    BY <1>4 DEF Fail, RegisterCanonicalCleanup
  <2>2. Known(k) /\ Reusable(k) /\ obj.status \in {"none", "deleted"}
    BY <1>0, <2>1 DEF Adopts, EnsureInv, Requested, Reusable
  <2>3. \A j \in Keys : Fresh(j) => j = k
    BY <1>0, <2>2, OneFresh
  <2> DEFINE o == CreateOrGet(k)
  <2>4. o \in [status : {"ready"}, key : Keys, ver : Nat, refs : Nat] /\ o.key = k
    BY <1>0, <2>2, CreatedRow
  <2>5. obj' \in [status : {"deleting"}, key : {o.key}, ver : {o.ver + 1}, refs : {o.refs}]
    BY <2>1, <2>4, ReferenceRow
  <2> HIDE DEF o
  <2>6. obj'.status = "deleting" /\ obj'.key = k
    BY <2>4, <2>5
  <2>7. \A v \in Keys : del[v].state # "absent" => del'[v] = del[v]
    <3>1. obj'.ver \in Versions
      BY <2>1 DEF Counted
    <3> QED
      BY <1>0, <2>1, <3>1, EnqueuedDelete DEF Keys
  <2>8. CopiesInv'
    <3>1. ASSUME NEW a \in Actors, job'[a].pc = "copy" PROVE job'[a].k = k
      <4>1. job'[a] = job[a] /\ job[a].k \in Keys
        BY <1>0, <1>2, <3>1, Fields DEF AtWork
      <4> QED
        BY <1>0, <2>2, <2>3, <3>1, <4>1 DEF CopiesInv
    <3> QED
      BY <2>6, <3>1 DEF CopiesInv
  <2>9. \A j \in blob : Kept(j)'
    BY <1>0, <2>2, <2>3, <2>6 DEF BytesInv, Kept, TypeOK
  <2> QED
    BY <1>1, <1>2, <2>7, <2>8, <2>9, LeaseRow
<1> QED
  BY <1>3, <1>4

\* Steps on a row that is ready or being deleted and keeps its key.
LEMMA LiveRowLease ==
  ASSUME SafetyInv, LeaseInv, UNCHANGED <<blob, ensure, job>>,
         \A v \in Keys : del[v].state # "absent" => del'[v] = del[v],
         obj.status \in {"ready", "deleting"}, obj'.status \in {"ready", "deleting"}, obj'.key = obj.key,
         obj.status = "deleting" => obj'.status = "deleting"
  PROVE  LeaseInv'
<1>0. TypeOK /\ CopiesInv /\ BytesInv
  BY DEF SafetyInv, LeaseInv
<1>1. \A j \in Keys : ~Fresh(j)
  BY NoneFresh
<1>2. CopiesInv'
  BY <1>0, <1>1, CopiesRun DEF CopiesInv
<1>3. \A j \in blob : Kept(j)'
  BY <1>0, <1>1 DEF BytesInv, Kept, TypeOK
<1> QED
  BY <1>2, <1>3, LeaseRow

LEMMA ReferencesLease ==
  ASSUME SafetyInv, LeaseInv, (\E i \in Importers : Import(i)) \/ (\E o \in Owners : DeleteFile(o)) \/ GarbageCollect
  PROVE  LeaseInv'
<1>0. TypeOK /\ ReferencesExact /\ RowInv
  BY DEF SafetyInv
<1>1. obj \in [status : {"none", "ready", "deleting", "deleted"}, key : Keys, ver : Nat, refs : Nat]
  BY <1>0, ContentAssumption DEF TypeOK, Versions
<1>2. CASE (\E i \in Importers : Import(i)) \/ (\E o \in Owners : DeleteFile(o))
  <2>1. /\ obj.status = "ready" /\ obj' \in {WithReference(obj), WithoutReference(obj)}
        /\ UNCHANGED <<blob, ensure, del, job>>
    BY <1>0, <1>2 DEF Import, DeleteFile, ReferencesExact
  <2>2. obj'.status = obj.status /\ obj'.key = obj.key
    BY <1>1, <2>1, ReferenceRow
  <2> QED
    BY <2>1, <2>2, LiveRowLease
<1>3. CASE GarbageCollect
  <2>1. /\ obj.status \in {"ready", "deleting"} /\ UNCHANGED <<blob, ensure, job>> /\ obj'.ver \in Versions
        /\ obj' \in {Retired(obj), obj} /\ (obj.status = "ready" => obj' = Retired(obj))
        /\ del' = EnqueueDelete(obj'.ver, obj.key)
    BY <1>3 DEF GarbageCollect, Counted
  <2>2. obj'.status = "deleting" /\ obj'.key = obj.key
    BY <1>1, <2>1, ReferenceRow
  <2>3. \A v \in Keys : del[v].state # "absent" => del'[v] = del[v]
    BY <1>0, <1>1, <2>1, EnqueuedDelete DEF Keys
  <2> QED
    BY <2>1, <2>2, <2>3, LiveRowLease
<1> QED
  BY <1>2, <1>3

LEMMA DeleteCommitLease ==
  ASSUME SafetyInv, LeaseInv, NEW w \in Actors, DeleteCommit(w)
  PROVE  LeaseInv'
<1>0. /\ TypeOK /\ JobInv /\ OwnersInv /\ CopiesInv /\ BehindInv /\ GoneInv /\ BytesInv
      /\ job[w].k \in Keys
  BY Fields DEF SafetyInv, LeaseInv
<1>1. CASE ~Owns(w) \/ live # {} \/ obj.refs > 0
  <2>1. Go(w, "err") /\ job[w].pc \in AtWork /\ UNCHANGED <<obj, ensure, del, blob>>
    BY <1>1 DEF DeleteCommit, AtWork
  <2>2. /\ job'[w].pc = "err" /\ job'[w].kind = job[w].kind /\ job'[w].k = job[w].k
        /\ \A b \in Actors \ {w} : job'[b] = job[b]
    BY <1>0, <2>1, GoTypes DEF Steps
  <2> QED
    BY <2>1, <2>2, LeaseQuiet
<1>2. CASE Owns(w) /\ live = {} /\ ~(obj.refs > 0)
  <2>1. /\ job[w].pc = "commit" /\ job[w].kind = "delete" /\ Deleting(w)
        /\ SetRow("delete", job[w].k, "succeeded", Nobody) /\ job' = [job EXCEPT ![w] = Idle]
        /\ obj' = IF obj.status = "deleting" /\ obj.key = RowOf(w).key
                    THEN [obj EXCEPT !.status = "deleted", !.ver = @ + 1] ELSE obj
        /\ UNCHANGED <<live, imported, blob, up, staged, faults>> /\ Counted
    BY <1>2, DeletionEnds
  <2>2. job'[w].pc \notin AtWork /\ \A b \in Actors \ {w} : job'[b] = job[b]
    BY <1>0, <2>1, IdleTypes DEF AtWork
  <2>3. CASE ~(obj.status = "deleting" /\ obj.key = RowOf(w).key)
    <3>1. obj' = obj /\ SetRow(job[w].kind, job[w].k, "succeeded", Nobody)
      BY <2>1, <2>3
    <3> QED
      BY <1>2, <2>1, <2>2, <3>1, LeaveRow
  <2>4. CASE obj.status = "deleting" /\ obj.key = RowOf(w).key
    <3>1. RowOf(w).key = del[job[w].k].key
      BY <2>1 DEF RowOf, Row
    <3>2. \A a \in Actors : job[a].pc # "copy"
      <4>1. \A a \in Actors : job[a].k \in Keys
        BY <1>0, Fields
      <4> QED
        BY <1>0, <2>1, <2>4, <3>1, <4>1, NoneFresh DEF CopiesInv, BehindInv
    <3>3. blob = {}
      BY <1>0, <2>1, <2>4, <3>1, NoneFresh DEF GoneInv, BytesInv, Kept, TypeOK
    <3>4. OwnersInv'
      BY <1>0, <1>2, <2>1, <2>2, OwnersKept DEF OpStates
    <3>5. CopiesInv' /\ BehindInv'
      BY <2>2, <3>2 DEF CopiesInv, BehindInv, AtWork
    <3>6. GoneInv' /\ BytesInv'
      BY <2>1, <3>3 DEF GoneInv, BytesInv
    <3> QED
      BY <3>4, <3>5, <3>6 DEF LeaseInv
  <2> QED
    BY <2>3, <2>4
<1> QED
  BY <1>1, <1>2

-----------------------------------------------------------------------------
(* The theorems *)

LEMMA InitInv == Init => IInv
<1> SUFFICES ASSUME Init PROVE IInv
  OBVIOUS
<1>1. SafetyInv
  BY InitSafety
<1>2. LeaseInv
  BY DEF Init, Idle, AtWork, LeaseInv, OwnersInv, CopiesInv, BehindInv, GoneInv, BytesInv
<1> QED
  BY <1>1, <1>2 DEF IInv

\* An outlived lease is not forgotten.
LEMMA OutlivedStays ==
  ASSUME Next, faults.outlived
  PROVE  faults'.outlived
<1>1. UNCHANGED faults \/ Fault(TRUE) \/ Fault(FALSE)
  BY DEF Next, TaskStep, JobStep, EnsureCanonical, ExecuteCanonicalEnsure, Publish, FailAgain, EnsureTimesOut, Fail,
     DeleteStaging, CopyCheck, CopyObject, MarkCopied, RecordError, DeleteVerdict, RemoveObject, DeleteCommit,
     StepFails, Crash, Claim, Import, DeleteFile, GarbageCollect, Exhausted, Claimable
<1>2. ASSUME NEW o, Fault(o) PROVE faults'.outlived
  <2>1. faults'.outlived = (faults.outlived \/ o)
    BY <1>2, Zenon DEF Fault
  <2> QED
    BY <2>1
<1> QED
  BY <1>1, <1>2

LEMMA NextInv == IInv /\ [Next]_vars => IInv'
<1> SUFFICES ASSUME IInv, [Next]_vars PROVE IInv'
  OBVIOUS
<1>0. SafetyInv /\ SafetyInv'
  BY NextSafety DEF IInv
<1>1. CASE faults'.outlived
  BY <1>0, <1>1 DEF IInv
<1>2. CASE ~faults'.outlived /\ Next
  <2>0. LeaseInv
    BY <1>2, OutlivedStays DEF IInv
  <2>1. ASSUME NEW s \in Sessions, TaskStep(s) \/ EnsureTimesOut(s) \/ Fail(s) \/ DeleteStaging(s) PROVE LeaseInv'
    BY <1>0, <1>2, <2>0, <2>1, EnsureCanonicalLease, ExecuteLease, PublishLease, QuietTaskLease, FailLease DEF TaskStep
  <2>2. ASSUME NEW a \in Actors, JobStep(a) \/ StepFails(a) \/ Crash(a) PROVE LeaseInv'
    BY <1>0, <2>0, <2>2, CopyCheckLease, MarkCopiedLease, RecordErrorLease, DeleteVerdictLease, ProviderStepsLease,
       DeleteCommitLease, CrashLease DEF JobStep
  <2>3. LeaseInv'
    BY <1>0, <1>2, <2>0, <2>1, <2>2, ClaimLease, ReferencesLease, ExhaustedLease DEF Next
  <2> QED
    BY <1>0, <2>3 DEF IInv
<1>3. CASE ~faults'.outlived /\ UNCHANGED vars
  <2>1. LeaseInv
    BY <1>3 DEF IInv, vars
  <2>2. LeaseInv'
    BY <1>0, <1>3, <2>1, LeaseQuiet DEF vars
  <2> QED
    BY <1>0, <2>2 DEF IInv
<1> QED
  BY <1>1, <1>2, <1>3

\* Every variable keeps its type; in particular a reference count, which the code
\* decrements without looking, never goes below zero.
THEOREM TypeCorrect == Spec => []TypeOK
<1>1. IInv => TypeOK
  BY DEF IInv, SafetyInv
<1> QED
  BY <1>1, InitInv, NextInv, PTL DEF Spec

\* file_objects.reference_count is the number of live files, and an object with live
\* files is ready: whatever publications, imports, deletes, collections and failures
\* of the same content interleave.
THEOREM ReferencesTheorem == Spec => []ReferencesExact
<1>1. IInv => ReferencesExact
  BY DEF IInv, SafetyInv
<1> QED
  BY <1>1, InitInv, NextInv, PTL DEF Spec

\* A ready object has its bytes, even when actors outlive their leases: versioned
\* keys keep a late copy or a late removal away from the key of the current life.
THEOREM ReadyBytesTheorem == Spec => []ReadyBytesExist
<1>1. IInv => ReadyBytesExist
  BY DEF IInv, SafetyInv
<1> QED
  BY <1>1, InitInv, NextInv, PTL DEF Spec

\* Unless a lease is outlived, canonical bytes belong to the object row or to a copy
\* whose session is still verifying and will publish or adopt them.
THEOREM NoOrphanTheorem == Spec => []NoOrphanedCopy
<1>1. IInv => NoOrphanedCopy
  <2> SUFFICES ASSUME IInv, ~faults.outlived, NEW k \in blob
               PROVE  \/ obj.key = k /\ obj.status \in {"ready", "deleting"}
                      \/ ensure[k].by # Nobody /\ up[ensure[k].by] = "verifying"
    BY DEF NoOrphanedCopy
  <2>1. k \in Keys /\ ensure[k].state # "absent" /\ Kept(k) /\ EnsureInv
    BY DEF IInv, SafetyInv, TypeOK, LeaseInv, BytesInv
  <2>2. Requested(k)
    BY <2>1 DEF EnsureInv
  <2> QED
    BY <2>1, <2>2, ContentAssumption DEF Kept, Requested
<1> QED
  BY <1>1, InitInv, NextInv, PTL DEF Spec

=============================================================================
