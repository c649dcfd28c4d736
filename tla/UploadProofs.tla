---------------------------- MODULE UploadProofs ----------------------------
(***************************************************************************)
(* Proofs about Upload, for any number of sessions of any sizes, any       *)
(* number of workers and any number of attempts and faults.                *)
(*                                                                         *)
(* Every step is first reduced to its effect on one session: what its row, *)
(* the rows of its operations, its worker and its uploads at the provider  *)
(* become (the Effect lemmas).  The invariants are then about one session  *)
(* at a time, and a step leaves the other sessions Apart.  The counters of *)
(* the user's row are sums over all sessions; they are stated as           *)
(* cardinalities of sets of units, one for each byte, which a step extends *)
(* or cuts by the units of its own session.                                *)
(***************************************************************************)
EXTENDS MCUpload, FiniteSetTheorems, WellFoundedInduction, TLAPS

-----------------------------------------------------------------------------
(* The inductive invariant *)

\* A worker is idle or in a phase of the handler of an operation that exists.
Phases(kind) ==
  CASE kind = "create"   -> {"begin", "list", "new", "persist", "finish", "skip", "err"}
    [] kind = "complete" -> {"begin", "call", "mark", "finish", "skip", "err"}
    [] kind = "abort"    -> {"call", "mark", "clear", "err"}
    [] OTHER             -> {"call", "mark", "err"}
WorkerOK(w) ==
  \/ wk[w].pc = "idle" /\ wk[w].op = NoOp
  \/ wk[w].op \in Ops /\ wk[w].pc \in Phases(wk[w].op[2]) /\ op[wk[w].op].state # "absent"
WorkersInv == \A w \in Workers : WorkerOK(w)

\* A session holds a reservation as long as it is active, and a file entry is
\* that of a completed session.
SessionsInv ==
  /\ \A s \in Sessions : sess[s].reserved = IF sess[s].status \in Active THEN Size[s] ELSE 0
  /\ \A s \in entry : sess[s].status = "completed"

\* The two counters of the user's row, as numbers of units: a unit is a byte of
\* one session or of one file.
Units(bytes) == {u \in Sessions \X Nat : u[2] \in 1 .. bytes[u[1]]}
Held == [s \in Sessions |-> sess[s].reserved]
Stored == [s \in Sessions |-> IF s \in entry THEN Size[s] ELSE 0]
Reservations == Units(Held)
Files == Units(Stored)
CountersExact ==
  /\ IsFiniteSet(Reservations) /\ user.reserved = Cardinality(Reservations)
  /\ IsFiniteSet(Files) /\ user.used = Cardinality(Files)

\* Which operations a session has, by its status: those that remove something
\* exist for sessions that have ended.
RowsOK(s) ==
  /\ sess[s].status = "none" => op[<<s, "create">>].state = "absent"
  /\ op[<<s, "complete">>].state # "absent"
       => sess[s].status \in {"completing", "verifying", "completed", "failed"}
  /\ op[<<s, "abort">>].state # "absent" => sess[s].status \in Gone
  /\ op[<<s, "staging">>].state # "absent" => sess[s].status \in {"completed", "failed"}
RowsInv == \A s \in Sessions : RowsOK(s)

\* The provider counts upload ids up.
OpenInv == \A s \in Sessions : \A i \in mp[s] : i <= made[s]

\* What a completed multipart upload rests on: its staging object is there until
\* the session has ended.
Uploaded(s) == s \in staged \/ sess[s].status \in {"completed", "failed"}
StagedOK(s) ==
  /\ sess[s].status = "verifying" => s \in staged
  /\ op[<<s, "complete">>].state = "succeeded" => Uploaded(s)
  /\ \A w \in Workers :
       wk[w].op = <<s, "complete">> /\ wk[w].pc \in {"mark", "finish", "skip"} => Uploaded(s)
StagedInv == \A s \in Sessions : StagedOK(s)

\* As long as no worker outlived its lease: a worker of multipart.create owns the
\* row, so there is one; the upload of a session is settled once the session is
\* created; and before that the id that is persisted, or about to be, is the
\* newest open upload, the one that another attempt would keep.
NewestOpen(s, id) == id \in mp[s] /\ \A i \in mp[s] : i <= id
CreatedOK(s) ==
  /\ sess[s].status \in Active \ {"initializing"} => op[<<s, "create">>].state = "succeeded"
  /\ sess[s].status = "initializing" /\ op[<<s, "create">>].id # 0 => NewestOpen(s, op[<<s, "create">>].id)
  /\ sess[s].status \in {"created", "uploading", "completing"} => sess[s].id \in mp[s] \/ s \in staged
CreatingOK(w, s) ==
  /\ wk[w].pc = "begin" /\ wk[w].id # 0 => wk[w].id = op[<<s, "create">>].id
  /\ wk[w].pc = "new" => mp[s] = {} /\ op[<<s, "create">>].id = 0
  /\ wk[w].pc \in {"persist", "finish"} => NewestOpen(s, wk[w].id)
LeaseOK(s) ==
  /\ CreatedOK(s)
  /\ \A w \in Workers :
       wk[w].op = <<s, "create">> => Owns(w) /\ (sess[s].status = "initializing" => CreatingOK(w, s))
LeaseInv == \A s \in Sessions : LeaseOK(s)

SafetyInv ==
  /\ TypeOK /\ WorkersInv /\ SessionsInv /\ CountersExact /\ QuotaHolds
  /\ RowsInv /\ OpenInv /\ StagedInv /\ OneFilePerNameAndContent
IInv == SafetyInv /\ (faults.outlived \/ LeaseInv)

-----------------------------------------------------------------------------
(* Rows and how the operators write them *)

OpStates == {"absent", "pending", "running", "succeeded", "dead"}
SessionRow == [status : Status, reserved : Nat, id : UploadIds, parts : BOOLEAN]
OpRow == [state : OpStates, attempt : 0..MaxAttempts, owner : Workers \cup {Nobody}, id : UploadIds]
WorkerRow == [pc : Steps, op : Ops \cup {NoOp}, id : UploadIds, gone : BOOLEAN]

LEMMA Pairs ==
  /\ \A s \in Sessions, kind \in Kinds : <<s, kind>> \in Ops /\ <<s, kind>>[1] = s /\ <<s, kind>>[2] = kind
  /\ \A o \in Ops : o[1] \in Sessions /\ o[2] \in Kinds /\ o = <<o[1], o[2]>>
  BY DEF Ops

LEMMA Typed ==
  TypeOK <=>
    /\ sess \in [Sessions -> SessionRow] /\ user \in [used : Nat, reserved : Nat]
    /\ entry \subseteq Sessions /\ overdue \subseteq Sessions /\ confirming \subseteq Sessions
    /\ op \in [Ops -> OpRow] /\ stopped \subseteq Ops /\ wk \in [Workers -> WorkerRow]
    /\ mp \in [Sessions -> SUBSET UploadIds] /\ made \in [Sessions -> UploadIds]
    /\ staged \subseteq Sessions
    /\ reply \in [Sessions -> {"none", "multipart", "quota", "name", "file_exists"}]
    /\ faults \in [n : 0 .. MaxFaults, outlived : BOOLEAN]
  BY DEF TypeOK, SessionRow, OpRow, WorkerRow, OpStates

LEMMA Fields ==
  ASSUME TypeOK
  PROVE  /\ \A s \in Sessions : /\ sess[s].status \in Status /\ sess[s].reserved \in Nat
                                /\ sess[s].id \in UploadIds
                                /\ Size[s] \in Nat /\ mp[s] \subseteq UploadIds /\ made[s] \in UploadIds
         /\ \A o \in Ops : /\ op[o].state \in OpStates /\ op[o].attempt \in 0..MaxAttempts
                           /\ op[o].owner \in Workers \cup {Nobody} /\ op[o].id \in UploadIds
         /\ \A w \in Workers : /\ wk[w].pc \in Steps /\ wk[w].op \in Ops \cup {NoOp}
                               /\ wk[w].id \in UploadIds /\ wk[w].gone \in BOOLEAN
         /\ user.used \in Nat /\ user.reserved \in Nat
<1>1. \A s \in Sessions : /\ sess[s].status \in Status /\ sess[s].reserved \in Nat
                          /\ sess[s].id \in UploadIds
  BY Typed DEF SessionRow
<1>2. \A s \in Sessions : Size[s] \in Nat /\ mp[s] \subseteq UploadIds /\ made[s] \in UploadIds
  <2>1. \A s \in Sessions : Size[s] \in Nat
    BY UploadConstants
  <2>2. \A s \in Sessions : mp[s] \subseteq UploadIds /\ made[s] \in UploadIds
    BY Typed
  <2> QED
    BY <2>1, <2>2
<1>3. \A o \in Ops : /\ op[o].state \in OpStates /\ op[o].attempt \in 0..MaxAttempts
                     /\ op[o].owner \in Workers \cup {Nobody} /\ op[o].id \in UploadIds
  BY Typed DEF OpRow
<1>4. \A w \in Workers : /\ wk[w].pc \in Steps /\ wk[w].op \in Ops \cup {NoOp}
                         /\ wk[w].id \in UploadIds /\ wk[w].gone \in BOOLEAN
  BY Typed DEF WorkerRow
<1>5. user.used \in Nat /\ user.reserved \in Nat
  BY Typed
<1> QED
  BY <1>1, <1>2, <1>3, <1>4, <1>5

\* One session's row moves: its new status, reservation and upload id.
Moves(s, status, reserved, id) ==
  /\ sess' \in [Sessions -> SessionRow]
  /\ sess'[s].status = status /\ sess'[s].reserved = reserved /\ sess'[s].id = id
  /\ \A t \in Sessions \ {s} : sess'[t] = sess[t]

LEMMA RowMoves ==
  ASSUME TypeOK, NEW s \in Sessions, NEW r \in SessionRow, sess' = [sess EXCEPT ![s] = r]
  PROVE  Moves(s, r.status, r.reserved, r.id)
  BY Typed DEF Moves

LEMMA StatusMoves ==
  ASSUME TypeOK, NEW s \in Sessions, NEW status \in Status
  PROVE  /\ SetStatus(s, status) => Moves(s, status, sess[s].reserved, sess[s].id)
         /\ Close(s, status) => Moves(s, status, 0, sess[s].id)
<1> DEFINE r == [sess[s] EXCEPT !.status = status]
           c == [sess[s] EXCEPT !.status = status, !.reserved = 0]
<1>0. sess[s] \in SessionRow /\ sess \in [Sessions -> SessionRow]
  BY Typed
<1>1. /\ r \in SessionRow /\ r.status = status /\ r.reserved = sess[s].reserved /\ r.id = sess[s].id
      /\ c \in SessionRow /\ c.status = status /\ c.reserved = 0 /\ c.id = sess[s].id
  BY <1>0 DEF SessionRow
<1>2. /\ SetStatus(s, status) => sess' = [sess EXCEPT ![s] = r]
      /\ Close(s, status) => sess' = [sess EXCEPT ![s] = c]
  BY <1>0 DEF SetStatus, Close
<1> HIDE DEF r, c
<1> QED
  BY <1>1, <1>2, RowMoves

LEMMA IdMoves ==
  ASSUME TypeOK, NEW s \in Sessions, NEW status \in Status, NEW n \in Nat
  PROVE  /\ sess' = [sess EXCEPT ![s].status = status, ![s].id = n] => Moves(s, status, sess[s].reserved, n)
         /\ sess' = [sess EXCEPT ![s].id = n] => Moves(s, sess[s].status, sess[s].reserved, n)
         /\ sess' = [sess EXCEPT ![s].status = status, ![s].reserved = n] => Moves(s, status, n, sess[s].id)
<1> DEFINE a == [sess[s] EXCEPT !.status = status, !.id = n]
           b == [sess[s] EXCEPT !.id = n]
           c == [sess[s] EXCEPT !.status = status, !.reserved = n]
<1>0. sess[s] \in SessionRow /\ sess \in [Sessions -> SessionRow]
  BY Typed
<1>1. /\ a \in SessionRow /\ a.status = status /\ a.reserved = sess[s].reserved /\ a.id = n
      /\ b \in SessionRow /\ b.status = sess[s].status /\ b.reserved = sess[s].reserved /\ b.id = n
      /\ c \in SessionRow /\ c.status = status /\ c.reserved = n /\ c.id = sess[s].id
  BY <1>0 DEF SessionRow, UploadIds
<1>2. /\ sess' = [sess EXCEPT ![s].status = status, ![s].id = n] => sess' = [sess EXCEPT ![s] = a]
      /\ sess' = [sess EXCEPT ![s].id = n] => sess' = [sess EXCEPT ![s] = b]
      /\ sess' = [sess EXCEPT ![s].status = status, ![s].reserved = n] => sess' = [sess EXCEPT ![s] = c]
  BY <1>0
<1> HIDE DEF a, b, c
<1> QED
  BY <1>1, <1>2, RowMoves

LEMMA ConfirmMoves ==
  ASSUME TypeOK, NEW s \in Sessions,
         sess' = [sess EXCEPT ![s].parts = TRUE, ![s].status = IF @ = "created" THEN "uploading" ELSE @]
  PROVE  Moves(s, IF sess[s].status = "created" THEN "uploading" ELSE sess[s].status, sess[s].reserved, sess[s].id)
<1> DEFINE status == IF sess[s].status = "created" THEN "uploading" ELSE sess[s].status
           r == [sess[s] EXCEPT !.parts = TRUE, !.status = status]
<1>0. sess[s] \in SessionRow /\ sess \in [Sessions -> SessionRow] /\ status \in Status
  BY Typed, Fields DEF Status, Active
<1>1. sess' = [sess EXCEPT ![s] = r]
  BY <1>0
<1> HIDE DEF status
<1>2. r \in SessionRow /\ r.status = status /\ r.reserved = sess[s].reserved /\ r.id = sess[s].id
  BY <1>0 DEF SessionRow
<1> HIDE DEF r
<1> QED
  BY <1>1, <1>2, RowMoves DEF status

\* One operation's row moves: state, owner and upload id.
OpMoves(o, state, owner, id) ==
  /\ op' \in [Ops -> OpRow]
  /\ op'[o].state = state /\ op'[o].owner = owner /\ op'[o].id = id
  /\ \A p \in Ops \ {o} : op'[p] = op[p]

LEMMA RowSet ==
  ASSUME TypeOK, NEW o \in Ops, NEW state \in OpStates, NEW owner \in Workers \cup {Nobody},
         op' = [op EXCEPT ![o].state = state, ![o].owner = owner]
  PROVE  OpMoves(o, state, owner, op[o].id)
<1> DEFINE r == [op[o] EXCEPT !.state = state, !.owner = owner]
<1>0. op[o] \in OpRow /\ op \in [Ops -> OpRow]
  BY Typed
<1>1. r \in OpRow /\ r.state = state /\ r.owner = owner /\ r.id = op[o].id
  BY <1>0 DEF OpRow
<1>2. op' = [op EXCEPT ![o] = r]
  BY <1>0
<1> HIDE DEF r
<1> QED
  BY <1>0, <1>1, <1>2 DEF OpMoves

LEMMA RowClaimed ==
  ASSUME TypeOK, NEW o \in Ops, NEW w \in Workers, op[o].attempt < MaxAttempts,
         op' = [op EXCEPT ![o].state = "running", ![o].owner = w, ![o].attempt = @ + 1]
  PROVE  OpMoves(o, "running", w, op[o].id)
<1> DEFINE n == op[o].attempt + 1
           r == [op[o] EXCEPT !.state = "running", !.owner = w, !.attempt = n]
<1>0. op[o] \in OpRow /\ op \in [Ops -> OpRow]
  BY Typed
<1>1. n \in 0..MaxAttempts
  BY Fields, UploadConstants
<1>2. op' = [op EXCEPT ![o] = r]
  BY <1>0
<1> HIDE DEF n
<1>3. r \in OpRow /\ r.state = "running" /\ r.owner = w /\ r.id = op[o].id
  BY <1>0, <1>1 DEF OpRow, OpStates
<1> HIDE DEF r
<1> QED
  BY <1>0, <1>2, <1>3 DEF OpMoves

LEMMA RowPersisted ==
  ASSUME TypeOK, NEW o \in Ops, NEW id \in UploadIds, op' = [op EXCEPT ![o].id = id]
  PROVE  OpMoves(o, op[o].state, op[o].owner, id)
<1> DEFINE r == [op[o] EXCEPT !.id = id]
<1>0. op[o] \in OpRow /\ op \in [Ops -> OpRow]
  BY Typed
<1>1. r \in OpRow /\ r.state = op[o].state /\ r.owner = op[o].owner /\ r.id = id
  BY <1>0 DEF OpRow
<1>2. op' = [op EXCEPT ![o] = r]
  BY <1>0
<1> HIDE DEF r
<1> QED
  BY <1>0, <1>1, <1>2 DEF OpMoves

\* Enqueue writes a row that was absent, or nothing.
LEMMA Enqueued ==
  ASSUME NEW ops \in [Ops -> OpRow], NEW s \in Sessions, NEW kind \in Kinds, NEW id \in UploadIds
  PROVE  /\ Enqueue(ops, s, kind, id) \in [Ops -> OpRow]
         /\ \A o \in Ops :
              \/ Enqueue(ops, s, kind, id)[o] = ops[o]
              \/ /\ o = <<s, kind>> /\ ops[o].state = "absent"
                 /\ Enqueue(ops, s, kind, id)[o].state = "pending" /\ Enqueue(ops, s, kind, id)[o].id = id
<1> DEFINE r == [NoOpRow EXCEPT !.state = "pending", !.id = id]
           o == <<s, kind>>
<1>0. o \in Ops
  BY Pairs
<1>1. r \in OpRow /\ r.state = "pending" /\ r.id = id
  <2>1. 0 \in 0..MaxAttempts
    BY UploadConstants
  <2>2. NoOpRow \in OpRow
    BY <2>1 DEF NoOpRow, OpRow, OpStates, UploadIds
  <2> QED
    BY <2>2 DEF OpRow, OpStates
<1>2. CASE ops[o].state = "absent"
  <2>1. Enqueue(ops, s, kind, id) = [ops EXCEPT ![o] = r]
    BY <1>2 DEF Enqueue
  <2> HIDE DEF r, o
  <2>2. /\ [ops EXCEPT ![o] = r] \in [Ops -> OpRow]
        /\ \A p \in Ops : [ops EXCEPT ![o] = r][p] = IF p = o THEN r ELSE ops[p]
    BY <1>0, <1>1
  <2>3. \A p \in Ops : [ops EXCEPT ![o] = r][p] = ops[p] \/ (p = o /\ [ops EXCEPT ![o] = r][p] = r)
    BY <2>2
  <2> QED
    BY <1>1, <1>2, <2>1, <2>2, <2>3 DEF o
<1>3. CASE ops[o].state # "absent"
  BY <1>3 DEF Enqueue
<1> QED
  BY <1>2, <1>3

LEMMA GivenUp ==
  ASSUME NEW ops \in [Ops -> OpRow], NEW o \in Ops
  PROVE  /\ GiveUp(ops, o) \in [Ops -> OpRow]
         /\ \A p \in Ops \ {o} : GiveUp(ops, o)[p] = ops[p]
         /\ \/ GiveUp(ops, o) = ops /\ ops[o].state \in {"succeeded", "dead"}
            \/ /\ GiveUp(ops, o)[o].state = "dead" /\ ops[o].state \notin {"succeeded", "dead"}
               /\ GiveUp(ops, o)[o].id = ops[o].id
<1> DEFINE r == [ops[o] EXCEPT !.state = "dead", !.owner = Nobody]
<1>1. r \in OpRow /\ r.state = "dead" /\ r.id = ops[o].id
  <2>1. ops[o] \in OpRow
    OBVIOUS
  <2> QED
    BY <2>1 DEF OpRow, OpStates
<1>2. CASE ops[o].state \in {"succeeded", "dead"}
  BY <1>2 DEF GiveUp
<1>3. CASE ops[o].state \notin {"succeeded", "dead"}
  <2>1. GiveUp(ops, o) = [ops EXCEPT ![o] = r]
    BY <1>3 DEF GiveUp
  <2> HIDE DEF r
  <2> QED
    BY <1>1, <1>3, <2>1
<1> QED
  BY <1>2, <1>3

\* One worker moves.
WorkerMoves(w, pc, o, id) ==
  /\ wk' \in [Workers -> WorkerRow]
  /\ wk'[w].pc = pc /\ wk'[w].op = o /\ wk'[w].id = id
  /\ \A v \in Workers \ {w} : wk'[v] = wk[v]

LEMMA WorkerSet ==
  ASSUME TypeOK, NEW w \in Workers, NEW r \in WorkerRow, wk' = [wk EXCEPT ![w] = r]
  PROVE  WorkerMoves(w, r.pc, r.op, r.id)
  BY Typed DEF WorkerMoves

LEMMA WorkerGoes ==
  ASSUME TypeOK, NEW w \in Workers
  PROVE  /\ \A pc \in Steps : Go(w, pc) => WorkerMoves(w, pc, wk[w].op, wk[w].id)
         /\ Done(w) => WorkerMoves(w, "idle", NoOp, 0)
         /\ \A pc \in Steps, id \in UploadIds :
              wk' = [wk EXCEPT ![w].pc = pc, ![w].id = id] => WorkerMoves(w, pc, wk[w].op, id)
<1>0. wk[w] \in WorkerRow /\ wk \in [Workers -> WorkerRow]
  BY Typed
<1>1. ASSUME NEW pc \in Steps, Go(w, pc) PROVE WorkerMoves(w, pc, wk[w].op, wk[w].id)
  <2> DEFINE r == [wk[w] EXCEPT !.pc = pc]
  <2>1. r \in WorkerRow /\ r.pc = pc /\ r.op = wk[w].op /\ r.id = wk[w].id
    BY <1>0 DEF WorkerRow
  <2>2. wk' = [wk EXCEPT ![w] = r]
    BY <1>0, <1>1 DEF Go
  <2> HIDE DEF r
  <2> QED
    BY <2>1, <2>2, WorkerSet
<1>2. ASSUME Done(w) PROVE WorkerMoves(w, "idle", NoOp, 0)
  <2>1. IdleWorker \in WorkerRow /\ IdleWorker.pc = "idle" /\ IdleWorker.op = NoOp /\ IdleWorker.id = 0
    BY DEF IdleWorker, WorkerRow, Steps, UploadIds
  <2> QED
    BY <1>2, <2>1, WorkerSet DEF Done
<1>3. ASSUME NEW pc \in Steps, NEW id \in UploadIds, wk' = [wk EXCEPT ![w].pc = pc, ![w].id = id]
      PROVE  WorkerMoves(w, pc, wk[w].op, id)
  <2> DEFINE r == [wk[w] EXCEPT !.pc = pc, !.id = id]
  <2>1. r \in WorkerRow /\ r.pc = pc /\ r.op = wk[w].op /\ r.id = id
    BY <1>0 DEF WorkerRow
  <2>2. wk' = [wk EXCEPT ![w] = r]
    BY <1>0, <1>3
  <2> HIDE DEF r
  <2> QED
    BY <2>1, <2>2, WorkerSet
<1> QED
  BY <1>1, <1>2, <1>3

LEMMA FaultTypes ==
  ASSUME TypeOK, NEW o \in BOOLEAN, Fault(o)
  PROVE  faults' \in [n : 0 .. MaxFaults, outlived : BOOLEAN]
<1>1. faults.n + 1 \in 0 .. MaxFaults
  BY UploadConstants DEF TypeOK, Fault
<1>2. (faults.outlived \/ o) \in BOOLEAN
  OBVIOUS
<1> QED
  BY <1>1, <1>2, SMT DEF Fault

-----------------------------------------------------------------------------
(* What the steps of a session do *)

\* Rows that are enqueued for a session, and nothing else, change.
Extends(s, kinds) ==
  /\ op' \in [Ops -> OpRow]
  /\ \A o \in Ops :
       \/ op'[o] = op[o]
       \/ /\ o[1] = s /\ o[2] \in kinds /\ op[o].state = "absent" /\ op'[o].state = "pending"

\* Create accepts the request.
Opened(s) ==
  /\ sess[s].status = "none" /\ Moves(s, "initializing", Size[s], sess[s].id)
  /\ FitsQuota(Size[s]) /\ ReserveQuota(Size[s]) /\ UNCHANGED entry
  /\ Extends(s, {"create"})
  /\ op[<<s, "create">>].state = "absent" => op'[<<s, "create">>].id = 0

\* The session goes on towards its file.
Advanced(s) ==
  /\ UNCHANGED <<user, entry>>
  /\ \/ /\ sess[s].status # "created" /\ UNCHANGED op
        /\ Moves(s, sess[s].status, sess[s].reserved, sess[s].id)
     \/ /\ sess[s].status = "created" /\ UNCHANGED op
        /\ Moves(s, "uploading", sess[s].reserved, sess[s].id)
     \/ /\ sess[s].status \in {"created", "uploading"} /\ Extends(s, {"complete"})
        /\ Moves(s, "completing", sess[s].reserved, sess[s].id)
     \/ /\ sess[s].status = "initializing" /\ UNCHANGED op
        /\ op[<<s, "create">>].state = "succeeded" /\ op[<<s, "create">>].id # 0
        /\ Moves(s, "created", sess[s].reserved, op[<<s, "create">>].id)
     \/ /\ sess[s].status = "completing" /\ UNCHANGED op
        /\ op[<<s, "complete">>].state = "succeeded"
        /\ Moves(s, "verifying", sess[s].reserved, sess[s].id)

\* The session ends without a file.
Closed(s) ==
  /\ ReleaseQuota(sess[s].reserved) /\ UNCHANGED entry
  /\ \/ /\ sess[s].status \in Expirable \cup {"expired"} /\ Extends(s, {"abort"})
        /\ Moves(s, "aborted", 0, sess[s].id)
     \/ /\ sess[s].status \in Expirable /\ Extends(s, {"abort"})
        /\ Moves(s, "expired", 0, sess[s].id)
     \/ /\ sess[s].status = "verifying" /\ Extends(s, {"staging"})
        /\ Moves(s, "failed", 0, sess[s].id)
     \/ /\ sess[s].status \in {"initializing", "completing"} /\ Moves(s, "failed", 0, sess[s].id)
        /\ op' \in [Ops -> OpRow]
        /\ \A o \in Ops :
             \/ op'[o] = op[o]
             \/ o[1] = s /\ o[2] \in {"abort", "staging"} /\ op[o].state = "absent" /\ op'[o].state = "pending"
             \/ /\ o[1] = s /\ o[2] \in {"create", "complete"} /\ op[o].state \notin {"running", "succeeded"}
                /\ op'[o].state = "dead" /\ op'[o].id = op[o].id

\* Verify publishes the file.
Committed(s) ==
  /\ sess[s].status = "verifying" /\ Moves(s, "completed", 0, sess[s].id)
  /\ \A t \in entry : Name[t] # Name[s] /\ Content[t] # Content[s]
  /\ entry' = entry \cup {s} /\ CommitQuota(sess[s].reserved, Size[s])
  /\ Extends(s, {"staging"})

Deleted(s) ==
  /\ s \in entry /\ entry' = entry \ {s} /\ user' = [user EXCEPT !.used = MinusFloor(@, Size[s])]
  /\ UNCHANGED <<sess, op>>

LEMMA Extended ==
  ASSUME TypeOK, NEW s \in Sessions, NEW kind \in Kinds, NEW id \in UploadIds
  PROVE  /\ op' = Enqueue(op, s, kind, id) => Extends(s, {kind})
         /\ op' = op => Extends(s, {kind})
<1>0. op \in [Ops -> OpRow]
  BY Typed
<1>1. /\ Enqueue(op, s, kind, id) \in [Ops -> OpRow]
      /\ \A o \in Ops :
           \/ Enqueue(op, s, kind, id)[o] = op[o]
           \/ /\ o = <<s, kind>> /\ op[o].state = "absent"
              /\ Enqueue(op, s, kind, id)[o].state = "pending" /\ Enqueue(op, s, kind, id)[o].id = id
  BY <1>0, Enqueued
<1>2. <<s, kind>>[1] = s /\ <<s, kind>>[2] = kind
  OBVIOUS
<1> QED
  BY <1>0, <1>1, <1>2 DEF Extends

LEMMA QuotaTypes ==
  ASSUME TypeOK, NEW n \in Nat, NEW m \in Nat,
         ReserveQuota(n) \/ ReleaseQuota(n) \/ CommitQuota(n, m) \/ user' = [user EXCEPT !.used = MinusFloor(@, n)]
  PROVE  user' \in [used : Nat, reserved : Nat]
<1>0. user.used \in Nat /\ user.reserved \in Nat /\ user \in [used : Nat, reserved : Nat]
  BY Fields, Typed
<1>1. /\ MinusFloor(user.reserved, n) \in Nat /\ MinusFloor(user.used, n) \in Nat
      /\ user.reserved + n \in Nat /\ user.used + m \in Nat
  BY <1>0 DEF MinusFloor
<1> HIDE DEF MinusFloor
<1> QED
  BY <1>0, <1>1 DEF ReserveQuota, ReleaseQuota, CommitQuota

LEMMA CreateEffect ==
  ASSUME TypeOK, NEW s \in Sessions, Create(s)
  PROVE  /\ TypeOK' /\ UNCHANGED <<wk, mp, made, staged, faults>>
         /\ Opened(s) \/ UNCHANGED <<sess, user, entry, op>>
<1>0. UNCHANGED <<entry, overdue, confirming, stopped, wk, mp, made, staged, faults>>
  BY DEF Create
<1>1. reply' \in [Sessions -> {"none", "multipart", "quota", "name", "file_exists"}]
  BY Typed DEF Create
<1>2. CASE UNCHANGED <<sess, user, op>>
  BY <1>0, <1>1, <1>2 DEF TypeOK
<1>3. CASE /\ FitsQuota(Size[s]) /\ ReserveQuota(Size[s])
           /\ sess' = [sess EXCEPT ![s].status = "initializing", ![s].reserved = Size[s]]
           /\ op' = Enqueue(op, s, "create", 0)
  <2>1. Moves(s, "initializing", Size[s], sess[s].id)
    BY <1>3, Fields, IdMoves DEF Status, Active
  <2>2. Extends(s, {"create"})
    BY <1>3, Extended DEF Kinds, UploadIds
  <2>3. user' \in [used : Nat, reserved : Nat]
    BY <1>3, Fields, QuotaTypes
  <2>4. op[<<s, "create">>].state = "absent" => op'[<<s, "create">>].id = 0
    <3>1. op \in [Ops -> OpRow] /\ <<s, "create">> \in Ops
      BY Typed, Pairs DEF Kinds
    <3> QED
      BY <1>3, <3>1 DEF Enqueue, NoOpRow
  <2>5. Opened(s)
    BY <1>0, <1>3, <2>1, <2>2, <2>4 DEF Opened, Create
  <2>6. TypeOK'
    BY <1>0, <1>1, <2>1, <2>2, <2>3 DEF TypeOK, Moves, Extends, SessionRow, OpRow, OpStates
  <2> QED
    BY <1>0, <2>5, <2>6
<1> QED
  BY <1>0, <1>2, <1>3 DEF Create

LEMMA AdvanceEffect ==
  ASSUME TypeOK, NEW s \in Sessions, ConfirmStore(s) \/ Complete(s) \/ Converge(s)
  PROVE  /\ TypeOK' /\ UNCHANGED <<wk, mp, made, staged, faults>>
         /\ Advanced(s) \/ UNCHANGED <<sess, user, entry, op>>
<1>0. UNCHANGED <<user, entry, overdue, stopped, wk, mp, made, staged, reply, faults>>
  BY DEF ConfirmStore, Complete, Converge
<1>1. ASSUME sess' \in [Sessions -> SessionRow], op' \in [Ops -> OpRow], confirming' \subseteq Sessions
      PROVE  TypeOK'
  BY <1>0, <1>1 DEF TypeOK, SessionRow, OpRow, OpStates
<1>2. op \in [Ops -> OpRow] /\ sess \in [Sessions -> SessionRow] /\ confirming \subseteq Sessions
  BY Typed
<1>3. CASE ConfirmStore(s)
  <2>1. UNCHANGED op /\ confirming' \subseteq Sessions
    BY <1>2, <1>3 DEF ConfirmStore
  <2>2. Moves(s, IF sess[s].status = "created" THEN "uploading" ELSE sess[s].status, sess[s].reserved, sess[s].id)
    BY <1>3, ConfirmMoves DEF ConfirmStore
  <2>3. TypeOK'
    BY <1>1, <1>2, <2>1, <2>2 DEF Moves
  <2> QED
    BY <1>0, <2>1, <2>2, <2>3 DEF Advanced
<1>4. CASE Complete(s)
  <2>1. sess[s].status \in {"created", "uploading"} /\ UNCHANGED confirming
    BY <1>4 DEF Complete
  <2>2. Moves(s, "completing", sess[s].reserved, sess[s].id)
    BY <1>4, StatusMoves DEF Complete, Status, Active
  <2>3. Extends(s, {"complete"})
    BY <1>4, Extended, Fields DEF Complete, Kinds
  <2>4. TypeOK'
    BY <1>1, <1>2, <2>1, <2>2, <2>3 DEF Moves, Extends
  <2> QED
    BY <1>0, <2>1, <2>2, <2>3, <2>4 DEF Advanced
<1>5. CASE Converge(s)
  <2>1. UNCHANGED <<op, confirming>>
    BY <1>5 DEF Converge
  <2>2. CASE sess[s].status = "initializing"
    <3>1. /\ op[<<s, "create">>].state = "succeeded" /\ op[<<s, "create">>].id # 0
          /\ sess' = [sess EXCEPT ![s].status = "created", ![s].id = op[<<s, "create">>].id]
      BY <1>5, <2>2 DEF Converge, Waiting
    <3>2. op[<<s, "create">>].id \in Nat
      BY Fields, Pairs DEF Kinds, UploadIds
    <3>3. Moves(s, "created", sess[s].reserved, op[<<s, "create">>].id)
      BY <3>1, <3>2, IdMoves DEF Status, Active
    <3>4. TypeOK'
      BY <1>1, <1>2, <2>1, <3>3 DEF Moves
    <3> QED
      BY <1>0, <2>1, <2>2, <3>1, <3>3, <3>4 DEF Advanced
  <2>3. CASE sess[s].status = "completing"
    <3>1. op[<<s, "complete">>].state = "succeeded" /\ SetStatus(s, "verifying")
      BY <1>5, <2>3 DEF Converge, Waiting, SetStatus
    <3>2. Moves(s, "verifying", sess[s].reserved, sess[s].id)
      BY <3>1, StatusMoves DEF Status, Active
    <3>3. TypeOK'
      BY <1>1, <1>2, <2>1, <3>2 DEF Moves
    <3> QED
      BY <1>0, <2>1, <2>3, <3>1, <3>2, <3>3 DEF Advanced
  <2> QED
    BY <1>5, <2>2, <2>3 DEF Converge
<1> QED
  BY <1>3, <1>4, <1>5

LEMMA AbortExtended ==
  ASSUME NEW ops \in [Ops -> OpRow], NEW s \in Sessions, NEW id \in UploadIds
  PROVE  /\ EnqueueAbort(ops, s, id) \in [Ops -> OpRow]
         /\ \A o \in Ops :
              \/ EnqueueAbort(ops, s, id)[o] = ops[o]
              \/ /\ o[1] = s /\ o[2] = "abort" /\ ops[o].state = "absent"
                 /\ EnqueueAbort(ops, s, id)[o].state = "pending"
<1>1. CASE id = 0
  BY <1>1 DEF EnqueueAbort
<1>2. CASE id # 0
  <2>1. EnqueueAbort(ops, s, id) = Enqueue(ops, s, "abort", id)
    BY <1>2 DEF EnqueueAbort
  <2>2. "abort" \in Kinds /\ <<s, "abort">>[1] = s /\ <<s, "abort">>[2] = "abort"
    BY DEF Kinds
  <2>3. /\ Enqueue(ops, s, "abort", id) \in [Ops -> OpRow]
        /\ \A o \in Ops :
             \/ Enqueue(ops, s, "abort", id)[o] = ops[o]
             \/ /\ o = <<s, "abort">> /\ ops[o].state = "absent"
                /\ Enqueue(ops, s, "abort", id)[o].state = "pending"
    BY <2>2, Enqueued
  <2> QED
    BY <2>1, <2>2, <2>3
<1> QED
  BY <1>1, <1>2

LEMMA RetireEffect ==
  ASSUME TypeOK, NEW s \in Sessions, Retire(s)
  PROVE  /\ op' \in [Ops -> OpRow]
         /\ \A o \in Ops :
              \/ op'[o] = op[o]
              \/ o[1] = s /\ o[2] \in {"abort", "staging"} /\ op[o].state = "absent" /\ op'[o].state = "pending"
              \/ /\ o[1] = s /\ o[2] \in {"create", "complete"} /\ op[o].state \notin {"running", "succeeded"}
                 /\ op'[o].state = "dead" /\ op'[o].id = op[o].id
<1> DEFINE w == Waiting(s)
           id == IF sess[s].id # 0 THEN sess[s].id ELSE op[w].id
           g == GiveUp(op, w)
           e == EnqueueAbort(g, s, id)
<1>1. w \in Ops /\ w[1] = s /\ w[2] \in {"create", "complete"}
  BY Pairs DEF Waiting, Kinds
<1>2. id \in UploadIds
  BY <1>1, Fields
<1>3. op \in [Ops -> OpRow] /\ op[w].state \in OpStates
  BY <1>1, Typed, Fields
<1>4. op[w].state = "dead" \/ op[w].state # "running"
  BY DEF Retire
<1>5. op' = Enqueue(e, s, "staging", 0)
  BY DEF Retire
<1> HIDE DEF w, id
<1>6. /\ g \in [Ops -> OpRow]
      /\ \A o \in Ops :
           \/ g[o] = op[o]
           \/ o = w /\ g[o].state = "dead" /\ g[o].id = op[o].id /\ op[o].state \notin {"running", "succeeded"}
  <2>1. /\ g \in [Ops -> OpRow]
        /\ \A p \in Ops \ {w} : g[p] = op[p]
        /\ \/ g = op /\ op[w].state \in {"succeeded", "dead"}
           \/ /\ g[w].state = "dead" /\ op[w].state \notin {"succeeded", "dead"}
              /\ g[w].id = op[w].id
    BY <1>1, <1>3, GivenUp
  <2> HIDE DEF g
  <2> QED
    BY <1>1, <1>4, <2>1
<1> HIDE DEF g
<1>7. /\ e \in [Ops -> OpRow]
      /\ \A o \in Ops : \/ e[o] = g[o]
                        \/ o[1] = s /\ o[2] = "abort" /\ g[o].state = "absent" /\ e[o].state = "pending"
  BY <1>2, <1>6, AbortExtended
<1> HIDE DEF e
<1>8. "staging" \in Kinds /\ 0 \in UploadIds /\ <<s, "staging">>[1] = s /\ <<s, "staging">>[2] = "staging"
  BY DEF Kinds, UploadIds
<1>9. /\ op' \in [Ops -> OpRow]
      /\ \A o \in Ops : \/ op'[o] = e[o]
                        \/ o = <<s, "staging">> /\ e[o].state = "absent" /\ op'[o].state = "pending"
  BY <1>5, <1>7, <1>8, Enqueued
<1> SUFFICES ASSUME NEW o \in Ops
             PROVE  \/ op'[o] = op[o]
                    \/ o[1] = s /\ o[2] \in {"abort", "staging"} /\ op[o].state = "absent" /\ op'[o].state = "pending"
                    \/ /\ o[1] = s /\ o[2] \in {"create", "complete"} /\ op[o].state \notin {"running", "succeeded"}
                       /\ op'[o].state = "dead" /\ op'[o].id = op[o].id
  BY <1>9
<1>10. CASE o = w
  BY <1>1, <1>6, <1>7, <1>8, <1>9, <1>10
<1>11. CASE o # w
  BY <1>1, <1>6, <1>7, <1>8, <1>9, <1>11
<1> QED
  BY <1>10, <1>11

LEMMA CloseEffect ==
  ASSUME TypeOK, NEW s \in Sessions, Abort(s) \/ Expire(s) \/ Retire(s) \/ VerifyFail(s)
  PROVE  TypeOK' /\ UNCHANGED <<wk, mp, made, staged, faults>> /\ Closed(s)
<1>0. /\ UNCHANGED <<entry, overdue, confirming, stopped, wk, mp, made, staged, reply, faults>>
      /\ ReleaseQuota(sess[s].reserved)
  BY DEF Abort, Expire, Retire, VerifyFail
<1>1. user' \in [used : Nat, reserved : Nat]
  BY <1>0, Fields, QuotaTypes
<1>2. ASSUME Closed(s), sess' \in [Sessions -> SessionRow], op' \in [Ops -> OpRow]
      PROVE  TypeOK' /\ UNCHANGED <<wk, mp, made, staged, faults>> /\ Closed(s)
  BY <1>0, <1>1, <1>2 DEF TypeOK, SessionRow, OpRow, OpStates
<1>3. op \in [Ops -> OpRow] /\ sess[s].id \in UploadIds
  BY Typed, Fields
<1>4. {"aborted", "expired", "failed"} \subseteq Status
  BY DEF Status, Gone
<1>5. op' = EnqueueAbort(op, s, sess[s].id) => Extends(s, {"abort"})
  BY <1>3, AbortExtended DEF Extends
<1>6. CASE Abort(s)
  <2>1. sess[s].status \in Expirable \cup {"expired"} /\ Moves(s, "aborted", 0, sess[s].id) /\ Extends(s, {"abort"})
    BY <1>4, <1>5, <1>6, StatusMoves DEF Abort
  <2> QED
    BY <1>0, <1>2, <2>1 DEF Closed, Moves, Extends
<1>7. CASE Expire(s)
  <2>1. sess[s].status \in Expirable /\ Moves(s, "expired", 0, sess[s].id) /\ Extends(s, {"abort"})
    BY <1>4, <1>5, <1>7, StatusMoves DEF Expire
  <2> QED
    BY <1>0, <1>2, <2>1 DEF Closed, Moves, Extends
<1>8. CASE Retire(s)
  <2>1. sess[s].status \in {"initializing", "completing"} /\ Moves(s, "failed", 0, sess[s].id)
    BY <1>4, <1>8, StatusMoves DEF Retire
  <2> QED
    BY <1>0, <1>2, <1>8, <2>1, RetireEffect DEF Closed, Moves
<1>9. CASE VerifyFail(s)
  <2>1. sess[s].status = "verifying" /\ Moves(s, "failed", 0, sess[s].id)
    BY <1>4, <1>9, StatusMoves DEF VerifyFail
  <2>2. Extends(s, {"staging"})
    BY <1>9, Extended DEF VerifyFail, Kinds, UploadIds
  <2> QED
    BY <1>0, <1>2, <2>1, <2>2 DEF Closed, Moves, Extends
<1> QED
  BY <1>6, <1>7, <1>8, <1>9

LEMMA CommitEffect ==
  ASSUME TypeOK, NEW s \in Sessions, VerifyCommit(s)
  PROVE  TypeOK' /\ UNCHANGED <<wk, mp, made, staged, faults>> /\ Committed(s)
<1>0. /\ UNCHANGED <<overdue, confirming, stopped, wk, mp, made, staged, reply, faults>>
      /\ CommitQuota(sess[s].reserved, Size[s]) /\ sess[s].status = "verifying" /\ entry' = entry \cup {s}
      /\ \A t \in entry : Name[t] # Name[s] /\ Content[t] # Content[s]
  BY DEF VerifyCommit, OwnsContent
<1>1. user' \in [used : Nat, reserved : Nat]
  BY <1>0, Fields, QuotaTypes
<1>2. Moves(s, "completed", 0, sess[s].id)
  BY StatusMoves DEF VerifyCommit, Status
<1>3. Extends(s, {"staging"})
  BY Extended DEF VerifyCommit, Kinds, UploadIds
<1>4. TypeOK'
  BY <1>0, <1>1, <1>2, <1>3 DEF TypeOK, Moves, Extends, SessionRow, OpRow, OpStates
<1> QED
  BY <1>0, <1>2, <1>3, <1>4 DEF Committed

LEMMA DeleteEffect ==
  ASSUME TypeOK, NEW s \in Sessions, DeleteFile(s)
  PROVE  TypeOK' /\ UNCHANGED <<wk, mp, made, staged, faults>> /\ Deleted(s)
<1>1. user' \in [used : Nat, reserved : Nat]
  BY Fields, QuotaTypes DEF DeleteFile
<1> QED
  BY <1>1 DEF DeleteFile, Deleted, TypeOK

\* Every step of a session is one of these.
Stays == UNCHANGED <<sess, user, entry, op>>
LEMMA SessionEffect ==
  ASSUME TypeOK, NEW s \in Sessions, SessionStep(s)
  PROVE  /\ TypeOK' /\ UNCHANGED <<wk, mp, made, staged, faults>>
         /\ Opened(s) \/ Advanced(s) \/ Closed(s) \/ Committed(s) \/ Deleted(s) \/ Stays
<1>1. CASE ConfirmRead(s) \/ PassExpiry(s)
  <2>1. UNCHANGED <<sess, user, entry, op, wk, mp, made, staged, faults>>
    BY <1>1 DEF ConfirmRead, PassExpiry
  <2>2. TypeOK'
    BY <1>1 DEF ConfirmRead, PassExpiry, TypeOK
  <2> QED
    BY <2>1, <2>2 DEF Stays
<1> QED
  BY <1>1, CreateEffect, AdvanceEffect, CloseEffect, CommitEffect, DeleteEffect DEF SessionStep, Stays

-----------------------------------------------------------------------------
(* What the steps of a worker do *)

At(w, s, kind, pc) == wk[w].op = <<s, kind>> /\ wk[w].pc = pc
Onto(w, pc) == WorkerMoves(w, pc, wk[w].op, wk[w].id)
Idles(w) == WorkerMoves(w, "idle", NoOp, 0)
MpMoves(s, ids) == mp' \in [Sessions -> SUBSET UploadIds] /\ mp'[s] = ids /\ \A t \in Sessions \ {s} : mp'[t] = mp[t]

\* An operation is recorded as succeeded: by its owner, or it was before.
Recorded(o) ==
  /\ op' \in [Ops -> OpRow]
  /\ op'[o].state = "succeeded" /\ op'[o].id = op[o].id

\* The handler of multipart.create.
Looks(w, s) ==
  /\ At(w, s, "create", "begin") /\ UNCHANGED <<sess, op, mp, made, staged>>
  /\ Onto(w, "skip") \/ (wk[w].id # 0 /\ Onto(w, "persist")) \/ Onto(w, "list")
Lists(w, s) ==
  /\ At(w, s, "create", "list") /\ UNCHANGED <<sess, op, made, staged>>
  /\ \/ mp[s] = {} /\ UNCHANGED mp /\ (Onto(w, "new") \/ Onto(w, "skip"))
     \/ \E i \in UploadIds : NewestOpen(s, i) /\ MpMoves(s, {i}) /\ WorkerMoves(w, "persist", wk[w].op, i)
Starts(w, s) ==
  /\ At(w, s, "create", "new") /\ UNCHANGED <<sess, op, staged>>
  /\ made' = [made EXCEPT ![s] = made[s] + 1] /\ MpMoves(s, mp[s] \cup {made[s] + 1})
  /\ WorkerMoves(w, "persist", wk[w].op, made[s] + 1) \/ Onto(w, "err")
Persists(w, s) ==
  LET o == <<s, "create">> IN
  /\ At(w, s, "create", "persist") /\ UNCHANGED <<sess, mp, made, staged>>
  /\ \/ Owns(w) /\ OpMoves(o, op[o].state, op[o].owner, wk[w].id) /\ Onto(w, "finish")
     \/ UNCHANGED op /\ (Onto(w, "finish") \/ Onto(w, "err"))
Finishes(w, s) ==
  LET o == <<s, "create">> IN
  /\ At(w, s, "create", "finish") /\ UNCHANGED <<mp, made, staged>>
  /\ \/ UNCHANGED <<sess, op>> /\ Onto(w, "err")
     \/ /\ Idles(w) /\ Recorded(o)
        /\ \/ sess[s].status = "initializing" /\ Moves(s, "created", sess[s].reserved, wk[w].id)
           \/ sess[s].status # "initializing" /\ UNCHANGED sess
        /\ \A p \in Ops \ {o} :
             \/ op'[p] = op[p]
             \/ /\ p = <<s, "abort">> /\ sess[s].status \in Gone
                /\ op[p].state = "absent" /\ op'[p].state = "pending"

\* The handler of multipart.complete.
Reads(w, s) ==
  /\ At(w, s, "complete", "begin") /\ UNCHANGED <<sess, op, mp, made, staged>>
  /\ \/ sess[s].status \in {"verifying", "completed"} /\ WorkerMoves(w, "skip", wk[w].op, sess[s].id)
     \/ WorkerMoves(w, "call", wk[w].op, sess[s].id)
     \/ WorkerMoves(w, "err", wk[w].op, sess[s].id)
Completes(w, s) ==
  /\ At(w, s, "complete", "call") /\ UNCHANGED <<sess, op, made>>
  /\ \/ MpMoves(s, mp[s] \ {wk[w].id}) /\ staged' = staged \cup {s} /\ (Onto(w, "mark") \/ Onto(w, "err"))
     \/ UNCHANGED <<mp, staged>> /\ ((s \in staged /\ Onto(w, "mark")) \/ Onto(w, "err"))
Publishes(w, s) ==
  /\ At(w, s, "complete", "finish") /\ UNCHANGED <<op, mp, made, staged>>
  /\ Idles(w) \/ Onto(w, "err")
  /\ \/ sess[s].status = "completing" /\ Moves(s, "verifying", sess[s].reserved, sess[s].id)
     \/ UNCHANGED sess

\* The handlers that remove something.
Drops(w, s) ==
  /\ At(w, s, "abort", "call") /\ UNCHANGED <<sess, op, made, staged>>
  /\ MpMoves(s, mp[s] \ {wk[w].id}) /\ (Onto(w, "mark") \/ Onto(w, "err"))
Clears(w, s) ==
  /\ At(w, s, "abort", "clear") /\ UNCHANGED <<op, mp, made, staged>>
  /\ Moves(s, sess[s].status, sess[s].reserved, 0) /\ Idles(w)
Sweeps(w, s) ==
  /\ At(w, s, "staging", "call") /\ UNCHANGED <<sess, op, mp, made>>
  /\ staged' = staged \ {s} /\ (Onto(w, "mark") \/ Onto(w, "err"))

\* Outcomes of every handler.
Marks(w, s, kind) ==
  LET o == <<s, kind>> IN
  /\ wk[w].op = o /\ wk[w].pc \in {"mark", "skip"} /\ UNCHANGED <<sess, mp, made, staged>>
  /\ \/ UNCHANGED op /\ Onto(w, "err")
     \/ /\ Recorded(o) /\ \A p \in Ops \ {o} : op'[p] = op[p]
        /\ \/ kind = "complete" /\ wk[w].pc = "mark" /\ Onto(w, "finish")
           \/ kind = "abort" /\ Onto(w, "clear")
           \/ Idles(w)
Records(w, s, kind) ==
  LET o == <<s, kind>> IN
  /\ wk[w].op = o /\ UNCHANGED <<sess, mp, made, staged>> /\ Idles(w)
  /\ \/ UNCHANGED op
     \/ /\ Owns(w)
        /\ OpMoves(o, "dead", Nobody, op[o].id) \/ OpMoves(o, "pending", Nobody, op[o].id)
Fails(w) ==
  /\ wk[w].pc # "idle" /\ UNCHANGED <<sess, op, mp, made, staged>>
  /\ Onto(w, "err") \/ Idles(w)

HandlerEffect(w) ==
  \/ \E s \in Sessions :
       \/ Looks(w, s) \/ Lists(w, s) \/ Starts(w, s) \/ Persists(w, s) \/ Finishes(w, s)
       \/ Reads(w, s) \/ Completes(w, s) \/ Publishes(w, s)
       \/ Drops(w, s) \/ Clears(w, s) \/ Sweeps(w, s)
       \/ \E kind \in Kinds : Marks(w, s, kind) \/ Records(w, s, kind)
  \/ Fails(w)

\* A claim, and a row that is given up.
Claims(w, o) ==
  /\ wk[w].pc = "idle" /\ UNCHANGED <<sess, mp, made, staged>>
  /\ OpMoves(o, "running", w, op[o].id) /\ op[o].state \in {"pending", "running"}
  /\ \E id \in UploadIds :
       /\ id = op[o].id \/ id = 0
       /\ WorkerMoves(w, IF o[2] \in {"create", "complete"} THEN "begin" ELSE "call", o, id)
  /\ (Due(o) /\ UNCHANGED faults) \/ faults'.outlived
Stops(o) ==
  /\ UNCHANGED <<sess, wk, mp, made, staged>>
  /\ \/ UNCHANGED op
     \/ /\ OpMoves(o, "dead", Nobody, op[o].id) /\ op[o].state \in {"pending", "running"}
        /\ (Due(o) /\ faults'.outlived = faults.outlived) \/ faults'.outlived

LEMMA FaultsKept ==
  ASSUME NEW o \in BOOLEAN, Fault(o)
  PROVE  faults'.outlived = (faults.outlived \/ o)
  BY Zenon DEF Fault

LEMMA NewestIsOpen ==
  ASSUME NEW ids \in SUBSET Nat, ids # {}, NEW n \in Nat, \A i \in ids : i <= n
  PROVE  Newest(ids) \in ids /\ \A j \in ids : j <= Newest(ids)
<1> DEFINE below == {n - i : i \in ids}
<1>1. below \in SUBSET Nat /\ below # {}
  <2>1. \A i \in ids : n - i \in Nat
    OBVIOUS
  <2>2. PICK i \in ids : TRUE
    OBVIOUS
  <2>3. n - i \in below
    OBVIOUS
  <2> QED
    BY <2>1, <2>3
<1>2. PICK d \in below : \A e \in below : ~(<<e, d>> \in OpToRel(<, Nat))
  BY <1>1, NatLessThanWellFounded, WFMin
<1>3. PICK i \in ids : d = n - i
  OBVIOUS
<1>4. ASSUME NEW j \in ids PROVE j <= i
  <2>1. n - j \in below /\ n - j \in Nat /\ d \in Nat
    BY <1>1
  <2>2. ~(n - j < d)
    BY <1>2, <2>1 DEF OpToRel
  <2> QED
    BY <1>3, <2>1, <2>2
<1> QED
  BY <1>3, <1>4 DEF Newest

LEMMA WorkerTypes ==
  ASSUME TypeOK, UNCHANGED <<user, entry, overdue, confirming, reply>>, stopped' \subseteq Ops,
         sess' \in [Sessions -> SessionRow], op' \in [Ops -> OpRow], wk' \in [Workers -> WorkerRow],
         mp' \in [Sessions -> SUBSET UploadIds], made' \in [Sessions -> UploadIds], staged' \subseteq Sessions,
         faults' \in [n : 0 .. MaxFaults, outlived : BOOLEAN]
  PROVE  TypeOK'
  BY DEF TypeOK, SessionRow, OpRow, WorkerRow, OpStates

\* A step of a handler, a failure of one or a crash.
Handled(w) ==
  /\ TypeOK' /\ UNCHANGED <<user, entry>> /\ faults'.outlived = faults.outlived
  /\ HandlerEffect(w)

LEMMA Handles ==
  ASSUME TypeOK, NEW w \in Workers, HandlerEffect(w), wk' \in [Workers -> WorkerRow],
         UNCHANGED <<user, entry, overdue, confirming, stopped, reply>>,
         UNCHANGED sess \/ sess' \in [Sessions -> SessionRow],
         UNCHANGED op \/ op' \in [Ops -> OpRow],
         UNCHANGED mp \/ mp' \in [Sessions -> SUBSET UploadIds],
         UNCHANGED made \/ made' \in [Sessions -> UploadIds],
         UNCHANGED staged \/ staged' \subseteq Sessions,
         UNCHANGED faults \/ Fault(FALSE)
  PROVE  Handled(w)
<1>1. faults' \in [n : 0 .. MaxFaults, outlived : BOOLEAN]
  BY Typed, FaultTypes
<1>2. faults'.outlived = faults.outlived
  <2>1. CASE UNCHANGED faults
    BY <2>1
  <2>2. CASE Fault(FALSE)
    <3>1. faults'.outlived = (faults.outlived \/ FALSE)
      BY <2>2, FaultsKept
    <3>2. faults.outlived = TRUE \/ faults.outlived = FALSE
      BY Typed
    <3>3. (faults.outlived \/ FALSE) = faults.outlived
      BY <3>2
    <3> QED
      BY <3>1, <3>3
  <2> QED
    BY <2>1, <2>2
<1>3. /\ sess' \in [Sessions -> SessionRow] /\ op' \in [Ops -> OpRow]
      /\ mp' \in [Sessions -> SUBSET UploadIds] /\ made' \in [Sessions -> UploadIds]
      /\ staged' \subseteq Sessions /\ stopped' \subseteq Ops
  BY Typed
<1>4. TypeOK'
  BY <1>1, <1>3, WorkerTypes
<1> QED
  BY <1>2, <1>4 DEF Handled

LEMMA RunningAt ==
  ASSUME NEW w \in Workers, NEW kind \in Kinds, NEW pc, Running(w, kind, pc)
  PROVE  \E s \in Sessions : At(w, s, kind, pc) /\ SessionOf(w) = s /\ wk[w].op[2] = kind /\ <<s, kind>> \in Ops
  BY DEF Running, At, SessionOf, Ops

LEMMA MpSet ==
  ASSUME TypeOK, NEW s \in Sessions, NEW ids \in SUBSET UploadIds, mp' = [mp EXCEPT ![s] = ids]
  PROVE  MpMoves(s, ids)
  BY Typed DEF MpMoves

LEMMA CreateBeginEffect ==
  ASSUME TypeOK, NEW w \in Workers, CreateBegin(w)
  PROVE  Handled(w)
<1>1. PICK s \in Sessions : At(w, s, "create", "begin") /\ SessionOf(w) = s
  BY RunningAt DEF CreateBegin, Kinds
<1> DEFINE status == sess[s].status
           pc == IF status \notin Gone \cup {"initializing"} THEN "skip"
                 ELSE IF wk[w].id # 0 THEN "persist" ELSE "list"
           gone == status \in Gone
           r == [wk[w] EXCEPT !.gone = gone, !.pc = pc]
<1>2. wk[w] \in WorkerRow /\ wk \in [Workers -> WorkerRow] /\ pc \in Steps /\ gone \in BOOLEAN
  BY Typed DEF Steps
<1>3. wk' = [wk EXCEPT ![w] = r]
  BY <1>1, <1>2 DEF CreateBegin
<1>4. pc = "skip" \/ (wk[w].id # 0 /\ pc = "persist") \/ pc = "list"
  OBVIOUS
<1> HIDE DEF pc, gone, status
<1>5. r \in WorkerRow /\ r.pc = pc /\ r.op = wk[w].op /\ r.id = wk[w].id
  BY <1>2 DEF WorkerRow
<1> HIDE DEF r
<1>6. Onto(w, pc)
  BY <1>3, <1>5, WorkerSet DEF Onto
<1>7. Looks(w, s)
  BY <1>1, <1>4, <1>6 DEF Looks, CreateBegin
<1>8. wk' \in [Workers -> WorkerRow]
  BY <1>6 DEF Onto, WorkerMoves
<1> QED
  BY <1>7, <1>8, Handles DEF HandlerEffect, CreateBegin

LEMMA CreateListEffect ==
  ASSUME TypeOK, OpenInv, NEW w \in Workers, CreateList(w)
  PROVE  Handled(w)
<1>1. PICK s \in Sessions : At(w, s, "create", "list") /\ SessionOf(w) = s
  BY RunningAt DEF CreateList, Kinds
<1>2. {"new", "skip", "persist"} \subseteq Steps
  BY DEF Steps
<1>3. CASE mp[s] = {}
  <2>1. UNCHANGED mp /\ (Onto(w, "new") \/ Onto(w, "skip"))
    BY <1>1, <1>2, <1>3, WorkerGoes DEF CreateList, Onto
  <2>2. Lists(w, s)
    BY <1>1, <1>3, <2>1 DEF Lists, CreateList
  <2> QED
    BY <2>1, <2>2, Handles DEF HandlerEffect, CreateList, Onto, WorkerMoves
<1>4. CASE mp[s] # {}
  <2> DEFINE i == Newest(mp[s])
  <2>1. mp[s] \in SUBSET Nat /\ made[s] \in Nat /\ \A j \in mp[s] : j <= made[s]
    BY Fields DEF OpenInv, UploadIds
  <2>2. NewestOpen(s, i) /\ i \in UploadIds
    BY <1>4, <2>1, NewestIsOpen DEF NewestOpen, UploadIds
  <2>3. mp' = [mp EXCEPT ![s] = {i}] /\ wk' = [wk EXCEPT ![w].pc = "persist", ![w].id = i]
    BY <1>1, <1>4 DEF CreateList
  <2> HIDE DEF i
  <2>4. MpMoves(s, {i}) /\ WorkerMoves(w, "persist", wk[w].op, i)
    BY <1>2, <2>2, <2>3, MpSet, WorkerGoes
  <2>5. Lists(w, s)
    BY <1>1, <2>2, <2>4 DEF Lists, CreateList
  <2> QED
    BY <2>4, <2>5, Handles DEF HandlerEffect, CreateList, WorkerMoves, MpMoves
<1> QED
  BY <1>3, <1>4

LEMMA CreateNewEffect ==
  ASSUME TypeOK, NEW w \in Workers, CreateNew(w)
  PROVE  Handled(w)
<1>1. PICK s \in Sessions : At(w, s, "create", "new") /\ SessionOf(w) = s
  BY RunningAt DEF CreateNew, Kinds
<1> DEFINE i == made[s] + 1
<1>2. i \in UploadIds /\ mp[s] \cup {i} \in SUBSET UploadIds /\ {"err", "persist"} \subseteq Steps
  BY Fields DEF UploadIds, Steps
<1>3. /\ made' = [made EXCEPT ![s] = i] /\ mp' = [mp EXCEPT ![s] = mp[s] \cup {i}]
      /\ \/ wk' = [wk EXCEPT ![w].pc = "persist", ![w].id = i] /\ UNCHANGED faults
         \/ Fault(FALSE) /\ Go(w, "err")
  <2>1. mp \in [Sessions -> SUBSET UploadIds]
    BY Typed
  <2> QED
    BY <1>1, <2>1 DEF CreateNew, AnswerLost
<1>4. made' \in [Sessions -> UploadIds]
  BY <1>2, <1>3, Typed
<1>5. made' = [made EXCEPT ![s] = made[s] + 1]
  BY <1>3
<1>6. MpMoves(s, mp[s] \cup {i})
  BY <1>2, <1>3, MpSet
<1>7. WorkerMoves(w, "persist", wk[w].op, i) \/ Onto(w, "err")
  BY <1>2, <1>3, WorkerGoes DEF Onto
<1>8. Starts(w, s)
  BY <1>1, <1>5, <1>6, <1>7 DEF Starts, CreateNew
<1> HIDE DEF i
<1> QED
  BY <1>3, <1>4, <1>6, <1>7, <1>8, Handles DEF HandlerEffect, CreateNew, WorkerMoves, MpMoves, Onto

LEMMA CreatePersistEffect ==
  ASSUME TypeOK, NEW w \in Workers, CreatePersist(w)
  PROVE  Handled(w)
<1>1. PICK s \in Sessions : At(w, s, "create", "persist") /\ <<s, "create">> \in Ops
  BY RunningAt DEF CreatePersist, Kinds
<1> DEFINE o == <<s, "create">>
<1>2. wk[w].op = o /\ wk[w].id \in UploadIds /\ {"err", "finish"} \subseteq Steps
  BY <1>1, Fields DEF At, Steps
<1> HIDE DEF o
<1>3. o \in Ops
  BY <1>1 DEF o
<1>4. CASE Owns(w) /\ op[o].id = 0
  <2>1. op' = [op EXCEPT ![o].id = wk[w].id]
    BY <1>2, <1>4 DEF CreatePersist
  <2>2. OpMoves(o, op[o].state, op[o].owner, wk[w].id)
    BY <1>2, <1>3, <2>1, RowPersisted
  <2>3. Onto(w, "finish")
    BY <1>2, <2>2, WorkerGoes DEF CreatePersist, OpMoves, Onto
  <2>4. Persists(w, s)
    BY <1>1, <1>4, <2>2, <2>3 DEF Persists, CreatePersist, o
  <2> QED
    BY <2>2, <2>3, <2>4, Handles DEF HandlerEffect, CreatePersist, OpMoves, Onto, WorkerMoves
<1>5. CASE ~(Owns(w) /\ op[o].id = 0)
  <2>1. UNCHANGED op
    BY <1>2, <1>5 DEF CreatePersist
  <2>2. Onto(w, "finish") \/ Onto(w, "err")
    BY <1>2, WorkerGoes DEF CreatePersist, Onto
  <2>3. Persists(w, s)
    BY <1>1, <2>1, <2>2 DEF Persists, CreatePersist
  <2> QED
    BY <2>1, <2>2, <2>3, Handles DEF HandlerEffect, CreatePersist, Onto, WorkerMoves
<1> QED
  BY <1>4, <1>5

LEMMA SucceededRow ==
  ASSUME TypeOK, NEW w \in Workers, NEW o \in Ops, wk[w].op = o
  PROVE  /\ Succeeded(w) \in [Ops -> OpRow] /\ \A p \in Ops \ {o} : Succeeded(w)[p] = op[p]
         /\ MaySucceed(w) => Succeeded(w)[o].state = "succeeded" /\ Succeeded(w)[o].id = op[o].id
         /\ ~MaySucceed(w) => Succeeded(w) = op
<1> DEFINE r == [op[o] EXCEPT !.state = "succeeded", !.owner = Nobody]
<1>0. op[o] \in OpRow /\ op \in [Ops -> OpRow]
  BY Typed
<1>1. r \in OpRow /\ r.state = "succeeded" /\ r.id = op[o].id
  BY <1>0 DEF OpRow, OpStates
<1>2. CASE Owns(w)
  <2>1. Succeeded(w) = [op EXCEPT ![o] = r] /\ MaySucceed(w)
    BY <1>0, <1>2 DEF Succeeded, MaySucceed
  <2> HIDE DEF r
  <2> QED
    BY <1>0, <1>1, <2>1
<1>3. CASE ~Owns(w)
  BY <1>0, <1>3 DEF Succeeded, MaySucceed
<1> QED
  BY <1>2, <1>3

LEMMA CreateFinishEffect ==
  ASSUME TypeOK, NEW w \in Workers, CreateFinish(w)
  PROVE  Handled(w)
<1>1. PICK s \in Sessions : At(w, s, "create", "finish") /\ SessionOf(w) = s /\ <<s, "create">> \in Ops
  BY RunningAt DEF CreateFinish, Kinds
<1> DEFINE o == <<s, "create">>
           a == <<s, "abort">>
<1>2. wk[w].op = o /\ wk[w].id \in UploadIds /\ "err" \in Steps
  BY <1>1, Fields DEF At, Steps
<1>3. CASE MaySucceed(w)
  <2>1. /\ sess' = IF sess[s].status = "initializing"
                     THEN [sess EXCEPT ![s].status = "created", ![s].id = wk[w].id]
                     ELSE sess
        /\ op' = IF sess[s].status \in Gone
                   THEN EnqueueAbort(Succeeded(w), s, wk[w].id) ELSE Succeeded(w)
        /\ Done(w)
    BY <1>1, <1>3 DEF CreateFinish
  <2>2. Idles(w)
    BY <2>1, WorkerGoes DEF Idles
  <2>3. \/ sess[s].status = "initializing" /\ Moves(s, "created", sess[s].reserved, wk[w].id)
        \/ sess[s].status # "initializing" /\ UNCHANGED sess
    <3>1. wk[w].id \in Nat /\ "created" \in Status
      BY <1>2 DEF UploadIds, Status, Active
    <3> QED
      BY <2>1, <3>1, IdMoves
  <2>4. /\ Succeeded(w) \in [Ops -> OpRow] /\ \A p \in Ops \ {o} : Succeeded(w)[p] = op[p]
        /\ Succeeded(w)[o].state = "succeeded" /\ Succeeded(w)[o].id = op[o].id
    BY <1>1, <1>2, <1>3, SucceededRow
  <2>5. a \in Ops /\ a # o /\ \A p \in Ops : p[1] = s /\ p[2] = "abort" => p = a
    BY Pairs DEF Kinds
  <2>6. /\ op' \in [Ops -> OpRow]
        /\ \A p \in Ops : \/ op'[p] = Succeeded(w)[p]
                          \/ /\ p = a /\ Succeeded(w)[p].state = "absent" /\ op'[p].state = "pending"
                             /\ sess[s].status \in Gone
    <3>1. CASE sess[s].status \in Gone
      BY <1>2, <2>1, <2>4, <2>5, <3>1, AbortExtended
    <3>2. CASE sess[s].status \notin Gone
      BY <2>1, <2>4, <3>2
    <3> QED
      BY <3>1, <3>2
  <2> HIDE DEF o, a
  <2>7. Recorded(o)
    BY <1>1, <2>4, <2>5, <2>6 DEF Recorded, o
  <2>8. \A p \in Ops \ {o} : \/ op'[p] = op[p]
                             \/ /\ p = a /\ sess[s].status \in Gone
                                /\ op[p].state = "absent" /\ op'[p].state = "pending"
    BY <2>4, <2>6
  <2>9. Finishes(w, s)
    BY <1>1, <2>2, <2>3, <2>7, <2>8 DEF Finishes, CreateFinish, o, a
  <2> QED
    BY <2>2, <2>3, <2>6, <2>9, Handles DEF HandlerEffect, CreateFinish, Idles, WorkerMoves, Moves
<1>4. CASE ~MaySucceed(w)
  <2>1. UNCHANGED <<sess, op>> /\ Onto(w, "err")
    BY <1>2, <1>4, WorkerGoes DEF CreateFinish, Onto
  <2>2. Finishes(w, s)
    BY <1>1, <2>1 DEF Finishes, CreateFinish
  <2> QED
    BY <2>1, <2>2, Handles DEF HandlerEffect, CreateFinish, Onto, WorkerMoves
<1> QED
  BY <1>3, <1>4

LEMMA CompleteBeginEffect ==
  ASSUME TypeOK, NEW w \in Workers, CompleteBegin(w)
  PROVE  Handled(w)
<1>1. PICK s \in Sessions : At(w, s, "complete", "begin") /\ SessionOf(w) = s
  BY RunningAt DEF CompleteBegin, Kinds
<1> DEFINE status == sess[s].status
           pc == CASE status \in {"verifying", "completed"} -> "skip"
                   [] status = "completing" -> "call"
                   [] OTHER -> "err"
           id == sess[s].id
           r == [wk[w] EXCEPT !.id = id, !.pc = pc]
<1>2. \/ status \in {"verifying", "completed"} /\ pc = "skip"
      \/ pc = "call" \/ pc = "err"
  <2>1. CASE status \in {"verifying", "completed"}
    BY <2>1
  <2>2. CASE status \notin {"verifying", "completed"}
    BY <2>2
  <2> QED
    BY <2>1, <2>2
<1>3. wk[w] \in WorkerRow /\ wk \in [Workers -> WorkerRow] /\ pc \in Steps /\ id \in UploadIds
  BY <1>2, Typed, Fields DEF Steps
<1>4. wk' = [wk EXCEPT ![w] = r]
  BY <1>1, <1>3 DEF CompleteBegin
<1> HIDE DEF pc
<1>5. r \in WorkerRow /\ r.pc = pc /\ r.op = wk[w].op /\ r.id = id
  BY <1>3 DEF WorkerRow
<1> HIDE DEF r
<1>6. WorkerMoves(w, pc, wk[w].op, sess[s].id)
  BY <1>4, <1>5, WorkerSet
<1>7. Reads(w, s)
  BY <1>1, <1>2, <1>6 DEF Reads, CompleteBegin
<1> QED
  BY <1>6, <1>7, Handles DEF HandlerEffect, CompleteBegin, WorkerMoves

LEMMA AnswerGoes ==
  ASSUME TypeOK, NEW w \in Workers, Answer(w, "mark")
  PROVE  (Onto(w, "mark") \/ Onto(w, "err")) /\ (UNCHANGED faults \/ Fault(FALSE))
  BY WorkerGoes DEF Answer, AnswerLost, Onto, Steps

LEMMA CompleteCallEffect ==
  ASSUME TypeOK, NEW w \in Workers, CompleteCall(w)
  PROVE  Handled(w)
<1>1. PICK s \in Sessions : At(w, s, "complete", "call") /\ SessionOf(w) = s
  BY RunningAt DEF CompleteCall, Kinds
<1>2. CASE wk[w].id \in mp[s]
  <2> DEFINE ids == mp[s] \ {wk[w].id}
  <2>1. mp' = [mp EXCEPT ![s] = ids] /\ staged' = staged \cup {s} /\ Answer(w, "mark")
    BY <1>1, <1>2, Typed DEF CompleteCall
  <2>2. ids \in SUBSET UploadIds
    BY Fields
  <2>3. MpMoves(s, ids) /\ staged' \subseteq Sessions
    BY <2>1, <2>2, MpSet, Typed
  <2>4. (Onto(w, "mark") \/ Onto(w, "err")) /\ (UNCHANGED faults \/ Fault(FALSE))
    BY <2>1, AnswerGoes
  <2>5. Completes(w, s)
    BY <1>1, <2>1, <2>3, <2>4 DEF Completes, CompleteCall
  <2> QED
    BY <2>3, <2>4, <2>5, Handles DEF HandlerEffect, CompleteCall, MpMoves, Onto, WorkerMoves
<1>3. CASE wk[w].id \notin mp[s]
  <2>1. UNCHANGED <<mp, staged, faults>> /\ ((s \in staged /\ Onto(w, "mark")) \/ Onto(w, "err"))
    BY <1>1, <1>3, WorkerGoes DEF CompleteCall, Onto, Steps
  <2>2. Completes(w, s)
    BY <1>1, <2>1 DEF Completes, CompleteCall
  <2> QED
    BY <2>1, <2>2, Handles DEF HandlerEffect, CompleteCall, Onto, WorkerMoves
<1> QED
  BY <1>2, <1>3

LEMMA CompleteFinishEffect ==
  ASSUME TypeOK, NEW w \in Workers, CompleteFinish(w)
  PROVE  Handled(w)
<1>1. PICK s \in Sessions : At(w, s, "complete", "finish") /\ SessionOf(w) = s
  BY RunningAt DEF CompleteFinish, Kinds
<1>2. Idles(w) \/ Onto(w, "err")
  BY <1>1, WorkerGoes DEF CompleteFinish, Idles, Onto, Steps
<1>3. \/ sess[s].status = "completing" /\ Moves(s, "verifying", sess[s].reserved, sess[s].id)
      \/ UNCHANGED sess
  BY <1>1, StatusMoves DEF CompleteFinish, SetStatus, Status, Active
<1>4. Publishes(w, s)
  BY <1>1, <1>2, <1>3 DEF Publishes, CompleteFinish
<1> QED
  BY <1>2, <1>3, <1>4, Handles DEF HandlerEffect, CompleteFinish, Idles, Onto, WorkerMoves, Moves

LEMMA RemovalEffect ==
  ASSUME TypeOK, NEW w \in Workers, AbortCall(w) \/ AbortClear(w) \/ StagingCall(w)
  PROVE  Handled(w)
<1>1. CASE AbortCall(w)
  <2>1. PICK s \in Sessions : At(w, s, "abort", "call") /\ SessionOf(w) = s
    BY <1>1, RunningAt DEF AbortCall, Kinds
  <2> DEFINE ids == mp[s] \ {wk[w].id}
  <2>2. mp' = [mp EXCEPT ![s] = ids] /\ Answer(w, "mark")
    BY <1>1, <2>1, Typed DEF AbortCall
  <2>3. ids \in SUBSET UploadIds
    BY Fields
  <2>4. MpMoves(s, ids)
    BY <2>2, <2>3, MpSet
  <2>5. (Onto(w, "mark") \/ Onto(w, "err")) /\ (UNCHANGED faults \/ Fault(FALSE))
    BY <2>2, AnswerGoes
  <2>6. Drops(w, s)
    BY <1>1, <2>1, <2>4, <2>5 DEF Drops, AbortCall
  <2> QED
    BY <1>1, <2>4, <2>5, <2>6, Handles DEF HandlerEffect, AbortCall, MpMoves, Onto, WorkerMoves
<1>2. CASE AbortClear(w)
  <2>1. PICK s \in Sessions : At(w, s, "abort", "clear") /\ SessionOf(w) = s
    BY <1>2, RunningAt DEF AbortClear, Kinds
  <2>2. sess' = [sess EXCEPT ![s].id = 0] /\ Done(w) /\ sess[s].status \in Status
    BY <1>2, <2>1, Fields DEF AbortClear
  <2>3. Moves(s, sess[s].status, sess[s].reserved, 0) /\ Idles(w)
    BY <2>2, IdMoves, WorkerGoes DEF Idles
  <2>4. Clears(w, s)
    BY <1>2, <2>1, <2>3 DEF Clears, AbortClear
  <2> QED
    BY <1>2, <2>3, <2>4, Handles DEF HandlerEffect, AbortClear, Moves, Idles, WorkerMoves
<1>3. CASE StagingCall(w)
  <2>1. PICK s \in Sessions : At(w, s, "staging", "call") /\ SessionOf(w) = s
    BY <1>3, RunningAt DEF StagingCall, Kinds
  <2>2. staged' = staged \ {s} /\ staged' \subseteq Sessions /\ Answer(w, "mark")
    BY <1>3, <2>1, Typed DEF StagingCall
  <2>3. (Onto(w, "mark") \/ Onto(w, "err")) /\ (UNCHANGED faults \/ Fault(FALSE))
    BY <2>2, AnswerGoes
  <2>4. Sweeps(w, s)
    BY <1>3, <2>1, <2>2, <2>3 DEF Sweeps, StagingCall
  <2> QED
    BY <1>3, <2>2, <2>3, <2>4, Handles DEF HandlerEffect, StagingCall, Onto, WorkerMoves
<1> QED
  BY <1>1, <1>2, <1>3

LEMMA MarkEffect ==
  ASSUME TypeOK, WorkersInv, NEW w \in Workers, Mark(w)
  PROVE  Handled(w)
<1>1. wk[w].op \in Ops /\ wk[w].pc \in {"mark", "skip"}
  BY DEF Mark, WorkersInv, WorkerOK
<1>2. PICK s \in Sessions, kind \in Kinds : wk[w].op = <<s, kind>> /\ <<s, kind>>[2] = kind
  BY <1>1, Pairs
<1> DEFINE o == <<s, kind>>
<1>3. o \in Ops /\ o[2] = kind /\ wk[w].op = o
  BY <1>1, <1>2
<1>4. op' = Succeeded(w)
  BY DEF Mark
<1>5. {"err", "finish", "clear"} \subseteq Steps
  BY DEF Steps
<1> HIDE DEF o
<1>6. /\ Succeeded(w) \in [Ops -> OpRow] /\ \A p \in Ops \ {o} : Succeeded(w)[p] = op[p]
      /\ MaySucceed(w) => Succeeded(w)[o].state = "succeeded" /\ Succeeded(w)[o].id = op[o].id
      /\ ~MaySucceed(w) => Succeeded(w) = op
  BY <1>3, SucceededRow
<1>7. CASE MaySucceed(w)
  <2>1. Recorded(o) /\ \A p \in Ops \ {o} : op'[p] = op[p]
    BY <1>4, <1>6, <1>7 DEF Recorded
  <2>2. \/ kind = "complete" /\ wk[w].pc = "mark" /\ Onto(w, "finish")
        \/ kind = "abort" /\ Onto(w, "clear")
        \/ Idles(w)
    BY <1>3, <1>5, <1>7, WorkerGoes DEF Mark, Onto, Idles
  <2>3. Marks(w, s, kind)
    BY <1>1, <1>3, <2>1, <2>2 DEF Marks, Mark, o
  <2> QED
    BY <2>1, <2>2, <2>3, Handles DEF HandlerEffect, Mark, Recorded, Onto, Idles, WorkerMoves
<1>8. CASE ~MaySucceed(w)
  <2>1. UNCHANGED op /\ Onto(w, "err")
    BY <1>4, <1>5, <1>6, <1>8, WorkerGoes DEF Mark, Onto
  <2>2. Marks(w, s, kind)
    BY <1>1, <1>3, <2>1 DEF Marks, Mark, o
  <2> QED
    BY <2>1, <2>2, Handles DEF HandlerEffect, Mark, Onto, WorkerMoves
<1> QED
  BY <1>7, <1>8

LEMMA RecordErrorEffect ==
  ASSUME TypeOK, WorkersInv, NEW w \in Workers, RecordError(w)
  PROVE  Handled(w)
<1>1. wk[w].op \in Ops
  BY DEF RecordError, WorkersInv, WorkerOK
<1>2. PICK s \in Sessions, kind \in Kinds : wk[w].op = <<s, kind>>
  BY <1>1, Pairs
<1> DEFINE o == <<s, kind>>
<1>3. o \in Ops /\ wk[w].op = o
  BY <1>1, <1>2
<1> HIDE DEF o
<1>4. Idles(w)
  BY WorkerGoes DEF RecordError, Idles
<1>5. \/ UNCHANGED op
      \/ /\ Owns(w)
         /\ OpMoves(o, "dead", Nobody, op[o].id) \/ OpMoves(o, "pending", Nobody, op[o].id)
  <2>1. CASE Owns(w)
    <3> DEFINE state == IF op[o].attempt >= MaxAttempts THEN "dead" ELSE "pending"
    <3>1. op' = [op EXCEPT ![o].state = state, ![o].owner = Nobody] /\ state \in OpStates
      BY <1>3, <2>1 DEF RecordError, OpStates
    <3>2. OpMoves(o, state, Nobody, op[o].id)
      BY <1>3, <3>1, RowSet
    <3> QED
      BY <2>1, <3>2
  <2>2. CASE ~Owns(w)
    BY <2>2 DEF RecordError
  <2> QED
    BY <2>1, <2>2
<1>6. Records(w, s, kind)
  BY <1>3, <1>4, <1>5 DEF Records, RecordError, o
<1> QED
  BY <1>4, <1>5, <1>6, Handles DEF HandlerEffect, RecordError, Idles, WorkerMoves, OpMoves

LEMMA FailEffect ==
  ASSUME TypeOK, NEW w \in Workers, StepFails(w) \/ Crash(w)
  PROVE  Handled(w)
<1>1. Onto(w, "err") \/ Idles(w)
  BY WorkerGoes DEF StepFails, Crash, Onto, Idles, Steps
<1>2. Fails(w)
  BY <1>1 DEF Fails, StepFails, Crash
<1> QED
  BY <1>1, <1>2, Handles DEF HandlerEffect, StepFails, Crash, Onto, Idles, WorkerMoves

LEMMA WorkerEffect ==
  ASSUME TypeOK, WorkersInv, OpenInv, NEW w \in Workers, HandlerStep(w) \/ StepFails(w) \/ Crash(w)
  PROVE  Handled(w)
  BY CreateBeginEffect, CreateListEffect, CreateNewEffect, CreatePersistEffect, CreateFinishEffect,
     CompleteBeginEffect, CompleteCallEffect, CompleteFinishEffect, RemovalEffect, MarkEffect,
     RecordErrorEffect, FailEffect DEF HandlerStep

LEMMA LedgerTypes ==
  ASSUME TypeOK, UNCHANGED <<sess, user, entry, overdue, confirming, mp, made, staged, reply>>,
         stopped' \subseteq Ops, op' \in [Ops -> OpRow], wk' \in [Workers -> WorkerRow],
         UNCHANGED faults \/ Fault(FALSE) \/ Fault(TRUE)
  PROVE  TypeOK'
<1>1. faults' \in [n : 0 .. MaxFaults, outlived : BOOLEAN]
  BY Typed, FaultTypes
<1> QED
  BY <1>1, Typed, WorkerTypes

LEMMA ClaimEffect ==
  ASSUME TypeOK, NEW w \in Workers, NEW o \in Ops, Claim(w, o)
  PROVE  TypeOK' /\ UNCHANGED <<user, entry>> /\ Claims(w, o)
<1> DEFINE pc == IF o[2] \in {"create", "complete"} THEN "begin" ELSE "call"
<1>1. OpMoves(o, "running", w, op[o].id)
  BY RowClaimed DEF Claim
<1>2. PICK id \in IF o[2] = "create" THEN {op[o].id, 0} ELSE {op[o].id} :
        wk' = [wk EXCEPT ![w] = [pc |-> pc, op |-> o, id |-> id, gone |-> FALSE]]
  BY DEF Claim
<1>3. id \in UploadIds /\ (id = op[o].id \/ id = 0) /\ pc \in Steps
  BY Fields DEF UploadIds, Steps
<1> DEFINE r == [pc |-> pc, op |-> o, id |-> id, gone |-> FALSE]
<1>4. r \in WorkerRow /\ r.pc = pc /\ r.op = o /\ r.id = id
  BY <1>3 DEF WorkerRow
<1> HIDE DEF r
<1>5. WorkerMoves(w, pc, o, id)
  BY <1>2, <1>4, WorkerSet DEF r
<1>6. (Due(o) /\ UNCHANGED faults) \/ (Slow(o) /\ Fault(TRUE))
  BY DEF Claim, Lapsed
<1>7. (Due(o) /\ UNCHANGED faults) \/ faults'.outlived
  <2>1. CASE Fault(TRUE)
    BY <2>1, FaultsKept
  <2> QED
    BY <1>6, <2>1
<1>8. op[o].state \in {"pending", "running"}
  BY <1>6 DEF Due, Slow
<1>9. Claims(w, o)
  BY <1>1, <1>3, <1>5, <1>7, <1>8 DEF Claims, Claim
<1>10. TypeOK'
  BY <1>1, <1>5, <1>6, Typed, LedgerTypes DEF Claim, OpMoves, WorkerMoves
<1> QED
  BY <1>9, <1>10 DEF Claim

LEMMA StopEffect ==
  ASSUME TypeOK, NEW o \in Ops, StopExhausted(o) \/ RecoveryStops(o)
  PROVE  TypeOK' /\ UNCHANGED <<user, entry>> /\ Stops(o) /\ (faults.outlived => faults'.outlived)
<1>0. op \in [Ops -> OpRow] /\ stopped \subseteq Ops /\ wk \in [Workers -> WorkerRow] /\ "dead" \in OpStates
  BY Typed DEF OpStates
<1>1. /\ Fault(FALSE) => faults'.outlived = faults.outlived
      /\ Fault(TRUE) => faults'.outlived
  <2>1. ASSUME Fault(FALSE) PROVE faults'.outlived = faults.outlived
    <3>1. faults'.outlived = (faults.outlived \/ FALSE)
      BY <2>1, FaultsKept
    <3>2. faults.outlived = TRUE \/ faults.outlived = FALSE
      BY Typed
    <3>3. (faults.outlived \/ FALSE) = faults.outlived
      BY <3>2
    <3> QED
      BY <3>1, <3>3
  <2>2. ASSUME Fault(TRUE) PROVE faults'.outlived
    BY <2>2, FaultsKept
  <2> QED
    BY <2>1, <2>2
<1>2. CASE StopExhausted(o)
  <2>1. OpMoves(o, "dead", Nobody, op[o].id)
    BY <1>0, <1>2, RowSet DEF StopExhausted
  <2>2. (Due(o) /\ UNCHANGED faults) \/ (Slow(o) /\ Fault(TRUE))
    BY <1>2 DEF StopExhausted, Lapsed
  <2>3. op[o].state \in {"pending", "running"}
    BY <2>2 DEF Due, Slow
  <2>4. (Due(o) /\ faults'.outlived = faults.outlived) \/ faults'.outlived
    BY <1>1, <2>2
  <2>5. Stops(o) /\ (faults.outlived => faults'.outlived)
    BY <1>2, <2>1, <2>3, <2>4 DEF Stops, StopExhausted
  <2>6. TypeOK'
    BY <1>0, <1>2, <2>1, <2>2, LedgerTypes DEF StopExhausted, OpMoves
  <2> QED
    BY <1>2, <2>5, <2>6 DEF StopExhausted
<1>3. CASE RecoveryStops(o)
  <2>1. \/ Due(o) /\ Fault(FALSE)
        \/ Slow(o) /\ Fault(TRUE)
        \/ op[o].state = "succeeded" /\ Fault(FALSE)
    BY <1>3 DEF RecoveryStops
  <2>2. op' = GiveUp(op, o) /\ stopped' \subseteq Ops
    BY <1>0, <1>3 DEF RecoveryStops
  <2>3. \/ UNCHANGED op
        \/ /\ OpMoves(o, "dead", Nobody, op[o].id) /\ op[o].state \in {"pending", "running"}
           /\ (Due(o) /\ faults'.outlived = faults.outlived) \/ faults'.outlived
    <3>1. CASE op[o].state \in {"succeeded", "dead"}
      BY <2>2, <3>1 DEF GiveUp
    <3>2. CASE op[o].state \notin {"succeeded", "dead"}
      <4>1. op' = [op EXCEPT ![o].state = "dead", ![o].owner = Nobody]
        BY <2>2, <3>2 DEF GiveUp
      <4>2. OpMoves(o, "dead", Nobody, op[o].id)
        BY <1>0, <4>1, RowSet
      <4>3. op[o].state \in {"pending", "running"}
        BY <2>1, <3>2 DEF Due, Slow
      <4>4. (Due(o) /\ faults'.outlived = faults.outlived) \/ faults'.outlived
        BY <1>1, <2>1, <3>2
      <4> QED
        BY <4>2, <4>3, <4>4
    <3> QED
      BY <3>1, <3>2
  <2>4. faults.outlived => faults'.outlived
    BY <1>1, <2>1
  <2>5. Stops(o)
    BY <1>3, <2>3 DEF Stops, RecoveryStops
  <2>6. TypeOK'
    BY <1>0, <1>3, <2>1, <2>2, GivenUp, LedgerTypes DEF RecoveryStops
  <2> QED
    BY <1>3, <2>4, <2>5, <2>6 DEF RecoveryStops
<1> QED
  BY <1>2, <1>3

-----------------------------------------------------------------------------
(* Counting units *)

\* Raising the bytes of one session from nothing adds as many units.
LEMMA UnitsCount ==
  ASSUME NEW f \in [Sessions -> Nat], NEW g \in [Sessions -> Nat], NEW s \in Sessions,
         f[s] = 0, \A t \in Sessions \ {s} : g[t] = f[t],
         IsFiniteSet(Units(f)) \/ IsFiniteSet(Units(g))
  PROVE  /\ IsFiniteSet(Units(f)) /\ IsFiniteSet(Units(g))
         /\ Cardinality(Units(f)) \in Nat
         /\ Cardinality(Units(g)) = Cardinality(Units(f)) + g[s]
<1> DEFINE own == {s} \X (1 .. g[s])
<1>1. g[s] \in Nat
  OBVIOUS
<1>2. IsFiniteSet(own) /\ Cardinality(own) = g[s]
  <2>1. IsFiniteSet({s}) /\ Cardinality({s}) = 1
    BY FS_Singleton
  <2>2. IsFiniteSet(1 .. g[s]) /\ Cardinality(1 .. g[s]) = g[s]
    BY <1>1, FS_Interval
  <2>3. IsFiniteSet(own) /\ Cardinality(own) = Cardinality({s}) * Cardinality(1 .. g[s])
    BY <2>1, <2>2, FS_Product
  <2> QED
    BY <1>1, <2>1, <2>2, <2>3
<1>3. Units(g) = Units(f) \cup own
  <2>1. ASSUME NEW u \in Units(g) PROVE u \in Units(f) \cup own
    <3>1. u \in Sessions \X Nat /\ u[2] \in 1 .. g[u[1]] /\ u = <<u[1], u[2]>> /\ u[1] \in Sessions
      BY DEF Units
    <3>2. CASE u[1] = s
      BY <3>1, <3>2
    <3>3. CASE u[1] # s
      BY <3>1, <3>3 DEF Units
    <3> QED
      BY <3>2, <3>3
  <2>2. ASSUME NEW u \in Units(f) PROVE u \in Units(g)
    <3>1. u \in Sessions \X Nat /\ u[2] \in 1 .. f[u[1]] /\ u[1] \in Sessions
      BY DEF Units
    <3>2. u[1] # s
      BY <3>1
    <3> QED
      BY <3>1, <3>2 DEF Units
  <2>3. ASSUME NEW u \in own PROVE u \in Units(g)
    BY <1>1 DEF Units
  <2> QED
    BY <2>1, <2>2, <2>3
<1>4. Units(f) \cap own = {}
  BY DEF Units
<1>5. IsFiniteSet(Units(f))
  <2>1. Units(f) \in SUBSET Units(g)
    BY <1>3
  <2> QED
    BY <2>1, FS_Subset
<1> HIDE DEF own
<1>6. /\ IsFiniteSet(Units(f) \cup own)
      /\ Cardinality(Units(f) \cup own) = Cardinality(Units(f)) + Cardinality(own) - Cardinality(Units(f) \cap own)
  BY <1>2, <1>5, FS_Union
<1>7. Cardinality(Units(f)) \in Nat /\ Cardinality(Units(f) \cap own) = 0
  BY <1>4, <1>5, FS_CardinalityType, FS_EmptySet
<1> QED
  BY <1>1, <1>2, <1>3, <1>5, <1>6, <1>7

-----------------------------------------------------------------------------
(* The user's counters *)

Accounts == SessionsInv /\ CountersExact /\ QuotaHolds /\ OneFilePerNameAndContent

\* Steps that move no quota: the reservations, the files and the sessions that
\* hold a reservation stay what they are.
Carried ==
  /\ UNCHANGED <<user, entry>>
  /\ \A s \in Sessions :
       /\ sess'[s].reserved = sess[s].reserved
       /\ sess'[s].status = sess[s].status \/ (sess'[s].status \in Active /\ sess[s].status \in Active)

LEMMA HeldTypes ==
  ASSUME TypeOK
  PROVE  /\ Held \in [Sessions -> Nat] /\ \A s \in Sessions : Held[s] = sess[s].reserved
         /\ Stored \in [Sessions -> Nat] /\ \A s \in Sessions : Stored[s] = IF s \in entry THEN Size[s] ELSE 0
         /\ entry \subseteq Sessions
<1>1. \A s \in Sessions : sess[s].reserved \in Nat /\ (IF s \in entry THEN Size[s] ELSE 0) \in Nat
  BY Fields
<1> QED
  BY <1>1, Typed DEF Held, Stored

LEMMA HeldTypesNext ==
  ASSUME TypeOK'
  PROVE  /\ Held' \in [Sessions -> Nat] /\ \A s \in Sessions : Held'[s] = sess'[s].reserved
         /\ Stored' \in [Sessions -> Nat] /\ \A s \in Sessions : Stored'[s] = IF s \in entry' THEN Size[s] ELSE 0
<1>1. \A s \in Sessions : sess'[s].reserved \in Nat
  BY DEF TypeOK
<1>2. \A s \in Sessions : (IF s \in entry' THEN Size[s] ELSE 0) \in Nat
  BY UploadConstants
<1> QED
  BY <1>1, <1>2 DEF Held, Stored

LEMMA AccountsCarried ==
  ASSUME TypeOK, Accounts, Carried
  PROVE  Accounts'
<1>1. Held' = Held /\ Stored' = Stored
  BY DEF Held, Stored, Carried
<1>2. CountersExact'
  BY <1>1 DEF Accounts, CountersExact, Reservations, Files, Units, Carried
<1>3. QuotaHolds' /\ OneFilePerNameAndContent'
  BY DEF Accounts, Carried, QuotaHolds, OneFilePerNameAndContent
<1>4. SessionsInv'
  <2>1. entry \subseteq Sessions
    BY Typed
  <2>2. "completed" \notin Active
    BY DEF Active
  <2> QED
    BY <2>1, <2>2 DEF Accounts, Carried, SessionsInv
<1> QED
  BY <1>2, <1>3, <1>4 DEF Accounts

LEMMA AccountsOpened ==
  ASSUME TypeOK, TypeOK', Accounts, NEW s \in Sessions, Opened(s)
  PROVE  Accounts'
<1>0. /\ sess[s].status = "none" /\ Moves(s, "initializing", Size[s], sess[s].id) /\ UNCHANGED entry
      /\ user.used + user.reserved + Size[s] <= Quota
      /\ user'.used = user.used /\ user'.reserved = user.reserved + Size[s]
  BY Typed DEF Opened, FitsQuota, ReserveQuota
<1>1. sess[s].reserved = 0 /\ s \notin entry
  BY <1>0 DEF Accounts, SessionsInv, Active
<1>2. SessionsInv'
  BY <1>0, <1>1, Typed DEF Accounts, SessionsInv, Moves, Active
<1>3. Stored' = Stored
  BY <1>0 DEF Stored
<1>4. /\ Held[s] = 0 /\ Held'[s] = Size[s] /\ \A t \in Sessions \ {s} : Held'[t] = Held[t]
      /\ Held \in [Sessions -> Nat] /\ Held' \in [Sessions -> Nat]
  BY <1>0, <1>1, HeldTypes, HeldTypesNext DEF Moves
<1>5. IsFiniteSet(Units(Held)) /\ user.reserved = Cardinality(Units(Held))
  BY DEF Accounts, CountersExact, Reservations
<1> HIDE DEF Held
<1>6. IsFiniteSet(Units(Held')) /\ Cardinality(Units(Held')) = Cardinality(Units(Held)) + Size[s]
  BY <1>4, <1>5, UnitsCount
<1>7. Units(Held)' = Units(Held') /\ Units(Stored)' = Units(Stored)
  BY <1>3 DEF Units
<1>8. CountersExact'
  BY <1>0, <1>5, <1>6, <1>7 DEF Accounts, CountersExact, Reservations, Files
<1>9. QuotaHolds' /\ OneFilePerNameAndContent'
  <2>1. user.used \in Nat /\ user.reserved \in Nat /\ Size[s] \in Nat /\ Quota \in Nat
    BY Fields, UploadConstants
  <2>2. QuotaHolds'
    BY <1>0, <2>1 DEF QuotaHolds
  <2> QED
    BY <1>0, <2>2 DEF Accounts, OneFilePerNameAndContent
<1> QED
  BY <1>2, <1>8, <1>9 DEF Accounts

\* A session gives its reservation back in full: the floor is never reached.
LEMMA ReservationReturned ==
  ASSUME TypeOK, TypeOK', Accounts, NEW s \in Sessions, NEW status, Moves(s, status, 0, sess[s].id)
  PROVE  /\ IsFiniteSet(Reservations') /\ Cardinality(Reservations') \in Nat
         /\ Cardinality(Reservations') = MinusFloor(user.reserved, sess[s].reserved)
         /\ user.reserved = Cardinality(Reservations') + sess[s].reserved
<1>1. /\ Held'[s] = 0 /\ Held[s] = sess[s].reserved /\ \A t \in Sessions \ {s} : Held[t] = Held'[t]
      /\ Held \in [Sessions -> Nat] /\ Held' \in [Sessions -> Nat]
  BY HeldTypes, HeldTypesNext DEF Moves
<1>2. IsFiniteSet(Units(Held)) /\ user.reserved = Cardinality(Units(Held))
  BY DEF Accounts, CountersExact, Reservations
<1> HIDE DEF Held
<1>3. /\ IsFiniteSet(Units(Held')) /\ Cardinality(Units(Held')) \in Nat
      /\ Cardinality(Units(Held)) = Cardinality(Units(Held')) + sess[s].reserved
  BY <1>1, <1>2, UnitsCount
<1>4. Reservations' = Units(Held')
  BY DEF Reservations, Units
<1>5. sess[s].reserved \in Nat
  BY Fields
<1> QED
  BY <1>2, <1>3, <1>4, <1>5 DEF MinusFloor

LEMMA AccountsClosed ==
  ASSUME TypeOK, TypeOK', Accounts, NEW s \in Sessions, Closed(s)
  PROVE  Accounts'
<1>0. /\ UNCHANGED entry /\ user'.used = user.used
      /\ user'.reserved = MinusFloor(user.reserved, sess[s].reserved)
  BY Typed DEF Closed, ReleaseQuota
<1>1. PICK status \in Gone : Moves(s, status, 0, sess[s].id)
  BY DEF Closed, Gone
<1>2. s \notin entry
  BY DEF Closed, Accounts, SessionsInv, Expirable
<1>3. /\ IsFiniteSet(Reservations') /\ Cardinality(Reservations') \in Nat
      /\ Cardinality(Reservations') = MinusFloor(user.reserved, sess[s].reserved)
      /\ user.reserved = Cardinality(Reservations') + sess[s].reserved
  BY <1>1, ReservationReturned
<1>4. SessionsInv'
  BY <1>0, <1>1, <1>2, Typed DEF Accounts, SessionsInv, Moves, Active, Gone
<1>5. Files' = Files
  <2>1. Stored' = Stored
    BY <1>0 DEF Stored
  <2> QED
    BY <2>1 DEF Files, Units
<1>6. CountersExact'
  BY <1>0, <1>3, <1>5 DEF Accounts, CountersExact
<1>7. QuotaHolds' /\ OneFilePerNameAndContent'
  <2>1. user.used \in Nat /\ user.reserved \in Nat /\ sess[s].reserved \in Nat /\ Quota \in Nat
    BY Fields, UploadConstants
  <2>2. QuotaHolds'
    BY <1>0, <1>3, <2>1 DEF Accounts, QuotaHolds
  <2> QED
    BY <1>0, <2>2 DEF Accounts, OneFilePerNameAndContent
<1> QED
  BY <1>4, <1>6, <1>7 DEF Accounts

LEMMA AccountsCommitted ==
  ASSUME TypeOK, TypeOK', Accounts, NEW s \in Sessions, Committed(s)
  PROVE  Accounts'
<1>0. /\ sess[s].status = "verifying" /\ Moves(s, "completed", 0, sess[s].id) /\ entry' = entry \cup {s}
      /\ \A t \in entry : Name[t] # Name[s] /\ Content[t] # Content[s]
      /\ user'.used = user.used + Size[s]
      /\ user'.reserved = MinusFloor(user.reserved, sess[s].reserved)
  BY DEF Committed, CommitQuota
<1>1. s \notin entry /\ sess[s].reserved = Size[s]
  BY <1>0 DEF Accounts, SessionsInv, Active
<1>2. /\ IsFiniteSet(Reservations') /\ Cardinality(Reservations') \in Nat
      /\ Cardinality(Reservations') = MinusFloor(user.reserved, sess[s].reserved)
      /\ user.reserved = Cardinality(Reservations') + sess[s].reserved
  BY <1>0, ReservationReturned
<1>3. SessionsInv'
  BY <1>0, <1>1, Typed DEF Accounts, SessionsInv, Moves, Active
<1>4. /\ Stored[s] = 0 /\ Stored'[s] = Size[s] /\ \A t \in Sessions \ {s} : Stored'[t] = Stored[t]
      /\ Stored \in [Sessions -> Nat] /\ Stored' \in [Sessions -> Nat]
  BY <1>0, <1>1, HeldTypes, HeldTypesNext
<1>5. IsFiniteSet(Units(Stored)) /\ user.used = Cardinality(Units(Stored))
  BY DEF Accounts, CountersExact, Files
<1> HIDE DEF Stored
<1>6. IsFiniteSet(Units(Stored')) /\ Cardinality(Units(Stored')) = Cardinality(Units(Stored)) + Size[s]
  BY <1>4, <1>5, UnitsCount
<1>7. Files' = Units(Stored')
  BY DEF Files, Units
<1>8. CountersExact'
  BY <1>0, <1>2, <1>5, <1>6, <1>7 DEF CountersExact
<1>9. QuotaHolds'
  <2>1. user.used \in Nat /\ user.reserved \in Nat /\ Size[s] \in Nat /\ Quota \in Nat
    BY Fields, UploadConstants
  <2> QED
    BY <1>0, <1>1, <1>2, <2>1 DEF Accounts, QuotaHolds
<1>10. OneFilePerNameAndContent'
  BY <1>0 DEF Accounts, OneFilePerNameAndContent
<1> QED
  BY <1>3, <1>8, <1>9, <1>10 DEF Accounts

LEMMA AccountsDeleted ==
  ASSUME TypeOK, TypeOK', Accounts, NEW s \in Sessions, Deleted(s)
  PROVE  Accounts'
<1>0. /\ s \in entry /\ entry' = entry \ {s} /\ UNCHANGED sess
      /\ user'.reserved = user.reserved /\ user'.used = MinusFloor(user.used, Size[s])
  BY Typed DEF Deleted
<1>1. SessionsInv'
  BY <1>0 DEF Accounts, SessionsInv
<1>2. Reservations' = Reservations
  BY <1>0 DEF Reservations, Held, Units
<1>3. /\ Stored'[s] = 0 /\ Stored[s] = Size[s] /\ \A t \in Sessions \ {s} : Stored[t] = Stored'[t]
      /\ Stored \in [Sessions -> Nat] /\ Stored' \in [Sessions -> Nat]
  BY <1>0, HeldTypes, HeldTypesNext
<1>4. IsFiniteSet(Units(Stored)) /\ user.used = Cardinality(Units(Stored))
  BY DEF Accounts, CountersExact, Files
<1> HIDE DEF Stored
<1>5. /\ IsFiniteSet(Units(Stored')) /\ Cardinality(Units(Stored')) \in Nat
      /\ Cardinality(Units(Stored)) = Cardinality(Units(Stored')) + Size[s]
  BY <1>3, <1>4, UnitsCount
<1>6. Files' = Units(Stored')
  BY DEF Files, Units
<1>7. Size[s] \in Nat /\ user.used \in Nat /\ user.reserved \in Nat /\ Quota \in Nat
  BY Fields, UploadConstants
<1>8. user'.used = Cardinality(Units(Stored')) /\ user'.used <= user.used
  BY <1>0, <1>4, <1>5, <1>7 DEF MinusFloor
<1>9. CountersExact'
  BY <1>0, <1>2, <1>5, <1>6, <1>8 DEF Accounts, CountersExact
<1>10. QuotaHolds' /\ OneFilePerNameAndContent'
  <2>1. user'.used \in Nat
    BY <1>5, <1>8
  <2>2. QuotaHolds'
    BY <1>0, <1>7, <1>8, <2>1 DEF Accounts, QuotaHolds
  <2> QED
    BY <1>0, <2>2 DEF Accounts, OneFilePerNameAndContent
<1> QED
  BY <1>1, <1>9, <1>10 DEF Accounts

-----------------------------------------------------------------------------
(* What no step takes back *)

\* A session that has ended stays so, a session is opened once, an operation
\* that exists goes on existing, and one that succeeded has.
Forward ==
  /\ \A s \in Sessions :
       /\ sess[s].status \in {"completed", "failed", "aborted"} => sess'[s].status = sess[s].status
       /\ sess[s].status = "expired" => sess'[s].status \in {"expired", "aborted"}
       /\ sess'[s].status = "none" => sess[s].status = "none"
  /\ \A o \in Ops :
       /\ op[o].state # "absent" => op'[o].state # "absent"
       /\ op[o].state = "succeeded" => op'[o].state = "succeeded" /\ op'[o].id = op[o].id

\* Workers take a session over the two thresholds of the provider's work, and
\* enqueue nothing but the abort of an upload whose session is gone.
Handoff ==
  /\ \A s \in Sessions :
       /\ sess'[s].reserved = sess[s].reserved
       /\ \/ sess'[s].status = sess[s].status
          \/ sess[s].status = "initializing" /\ sess'[s].status = "created"
          \/ sess[s].status = "completing" /\ sess'[s].status = "verifying"
  /\ \A o \in Ops :
       op'[o].state # "absent" => op[o].state # "absent" \/ (o[2] = "abort" /\ sess[o[1]].status \in Gone)

LEMMA SessionForward ==
  ASSUME TypeOK, NEW s \in Sessions,
         Opened(s) \/ Advanced(s) \/ Closed(s) \/ Committed(s) \/ Deleted(s) \/ Stays
  PROVE  Forward
<1> DEFINE statuses == \A t \in Sessions :
             /\ sess[t].status \in {"completed", "failed", "aborted"} => sess'[t].status = sess[t].status
             /\ sess[t].status = "expired" => sess'[t].status \in {"expired", "aborted"}
             /\ sess'[t].status = "none" => sess[t].status = "none"
           rows == \A o \in Ops :
             /\ op[o].state # "absent" => op'[o].state # "absent"
             /\ op[o].state = "succeeded" => op'[o].state = "succeeded" /\ op'[o].id = op[o].id
<1>1. ASSUME NEW kinds, Extends(s, kinds) PROVE rows
  BY <1>1 DEF Extends
<1>2. CASE Opened(s)
  <2>1. statuses
    BY <1>2 DEF Opened, Moves
  <2> QED
    BY <1>1, <1>2, <2>1 DEF Opened, Forward
<1>3. CASE Advanced(s)
  <2>1. statuses
    BY <1>3 DEF Advanced, Moves
  <2>2. rows
    BY <1>1, <1>3 DEF Advanced
  <2> QED
    BY <2>1, <2>2 DEF Forward
<1>4. CASE Closed(s)
  <2>1. statuses
    BY <1>4 DEF Closed, Moves, Expirable
  <2>2. rows
    <3>1. CASE Extends(s, {"abort"}) \/ Extends(s, {"staging"})
      BY <1>1, <3>1
    <3>2. CASE \A o \in Ops :
                 \/ op'[o] = op[o]
                 \/ o[1] = s /\ o[2] \in {"abort", "staging"} /\ op[o].state = "absent" /\ op'[o].state = "pending"
                 \/ /\ o[1] = s /\ o[2] \in {"create", "complete"} /\ op[o].state \notin {"running", "succeeded"}
                    /\ op'[o].state = "dead" /\ op'[o].id = op[o].id
      BY <3>2
    <3> QED
      BY <1>4, <3>1, <3>2 DEF Closed
  <2> QED
    BY <2>1, <2>2 DEF Forward
<1>5. CASE Committed(s)
  <2>1. statuses
    BY <1>5 DEF Committed, Moves
  <2> QED
    BY <1>1, <1>5, <2>1 DEF Committed, Forward
<1>6. CASE Deleted(s) \/ Stays
  BY <1>6 DEF Deleted, Stays, Forward
<1> QED
  BY <1>2, <1>3, <1>4, <1>5, <1>6

LEMMA RowForward ==
  ASSUME TypeOK, NEW o \in Ops, NEW state, NEW owner, NEW id, OpMoves(o, state, owner, id), UNCHANGED sess,
         state # "absent", op[o].state # "absent", op[o].state = "succeeded" => state = "succeeded" /\ id = op[o].id
  PROVE  Forward /\ Handoff
<1>1. \A p \in Ops : p # o => op'[p] = op[p]
  BY DEF OpMoves
<1>2. op'[o].state = state /\ op'[o].id = id
  BY DEF OpMoves
<1>3. Forward
  BY <1>1, <1>2 DEF Forward
<1>4. Handoff
  BY <1>1, <1>2 DEF Handoff
<1> QED
  BY <1>3, <1>4

LEMMA WorkerForward ==
  ASSUME TypeOK, WorkersInv, NEW w \in Workers, HandlerEffect(w)
  PROVE  Forward /\ Handoff
<1>1. CASE UNCHANGED <<sess, op>>
  BY <1>1 DEF Forward, Handoff
<1>2. ASSUME NEW s \in Sessions, NEW kind \in Kinds, wk[w].op = <<s, kind>>
      PROVE  <<s, kind>> \in Ops /\ op[<<s, kind>>].state # "absent"
  <2>1. <<s, kind>> \in Ops
    BY Pairs
  <2>2. wk[w].op # NoOp
    BY <1>2, <2>1, NoOpAssumption
  <2> QED
    BY <1>2, <2>1, <2>2 DEF WorkersInv, WorkerOK
<1>3. ASSUME NEW s \in Sessions, Persists(w, s) PROVE Forward /\ Handoff
  <2> DEFINE o == <<s, "create">>
  <2>1. wk[w].op = o /\ UNCHANGED sess
    BY <1>3 DEF Persists, At
  <2>2. o \in Ops /\ op[o].state # "absent"
    BY <1>2, <2>1 DEF Kinds
  <2>3. UNCHANGED op \/ (Owns(w) /\ OpMoves(o, op[o].state, op[o].owner, wk[w].id))
    BY <1>3 DEF Persists
  <2>4. Owns(w) => op[o].state = "running"
    BY <2>1 DEF Owns
  <2> HIDE DEF o
  <2>5. CASE UNCHANGED op
    BY <1>1, <2>1, <2>5
  <2>6. CASE Owns(w) /\ OpMoves(o, op[o].state, op[o].owner, wk[w].id)
    BY <2>1, <2>2, <2>4, <2>6, RowForward
  <2> QED
    BY <2>3, <2>5, <2>6
<1>4. ASSUME NEW s \in Sessions, Finishes(w, s) PROVE Forward /\ Handoff
  <2> DEFINE o == <<s, "create">>
             a == <<s, "abort">>
  <2>1. wk[w].op = o
    BY <1>4 DEF Finishes, At
  <2>2. o \in Ops /\ op[o].state # "absent" /\ a[1] = s /\ a[2] = "abort"
    BY <1>2, <2>1 DEF Kinds
  <2>3. CASE UNCHANGED <<sess, op>>
    BY <1>1, <2>3
  <2>4. CASE ~UNCHANGED <<sess, op>>
    <3>1. /\ Recorded(o)
          /\ \/ sess[s].status = "initializing" /\ Moves(s, "created", sess[s].reserved, wk[w].id)
             \/ UNCHANGED sess
          /\ \A p \in Ops \ {o} :
               \/ op'[p] = op[p]
               \/ /\ p = a /\ sess[s].status \in Gone
                  /\ op[p].state = "absent" /\ op'[p].state = "pending"
      BY <1>4, <2>4 DEF Finishes
    <3> HIDE DEF o, a
    <3>2. op'[o].state = "succeeded" /\ op'[o].id = op[o].id
      BY <3>1 DEF Recorded
    <3>3. \A p \in Ops : /\ op[p].state # "absent" => op'[p].state # "absent"
                         /\ op[p].state = "succeeded" => op'[p].state = "succeeded" /\ op'[p].id = op[p].id
                         /\ op'[p].state # "absent" =>
                              op[p].state # "absent" \/ (p[2] = "abort" /\ sess[p[1]].status \in Gone)
      BY <2>2, <3>1, <3>2
    <3>4. \A t \in Sessions : /\ sess'[t].reserved = sess[t].reserved
                              /\ \/ sess'[t].status = sess[t].status
                                 \/ sess[t].status = "initializing" /\ sess'[t].status = "created"
      BY <3>1 DEF Moves
    <3> QED
      BY <3>3, <3>4 DEF Forward, Handoff
  <2> QED
    BY <2>3, <2>4
<1>5. ASSUME NEW s \in Sessions, Publishes(w, s) \/ Clears(w, s) PROVE Forward /\ Handoff
  <2>1. UNCHANGED op
    BY <1>5 DEF Publishes, Clears
  <2>2. \A t \in Sessions : /\ sess'[t].reserved = sess[t].reserved
                            /\ \/ sess'[t].status = sess[t].status
                               \/ sess[t].status = "completing" /\ sess'[t].status = "verifying"
    BY <1>5 DEF Publishes, Clears, Moves
  <2> QED
    BY <2>1, <2>2 DEF Forward, Handoff
<1>6. ASSUME NEW s \in Sessions, NEW kind \in Kinds, Marks(w, s, kind) PROVE Forward /\ Handoff
  <2> DEFINE o == <<s, kind>>
  <2>1. wk[w].op = o /\ UNCHANGED sess
    BY <1>6 DEF Marks
  <2>2. o \in Ops /\ op[o].state # "absent"
    BY <1>2, <2>1
  <2>3. CASE UNCHANGED op
    BY <1>1, <2>1, <2>3
  <2>4. CASE ~UNCHANGED op
    <3>1. Recorded(o) /\ \A p \in Ops \ {o} : op'[p] = op[p]
      BY <1>6, <2>4 DEF Marks
    <3> HIDE DEF o
    <3>2. op'[o].state = "succeeded" /\ op'[o].id = op[o].id
      BY <3>1 DEF Recorded
    <3> QED
      BY <2>1, <2>2, <3>1, <3>2 DEF Forward, Handoff
  <2> QED
    BY <2>3, <2>4
<1>7. ASSUME NEW s \in Sessions, NEW kind \in Kinds, Records(w, s, kind) PROVE Forward /\ Handoff
  <2> DEFINE o == <<s, kind>>
  <2>1. wk[w].op = o /\ UNCHANGED sess
    BY <1>7 DEF Records
  <2>2. o \in Ops /\ op[o].state # "absent"
    BY <1>2, <2>1
  <2>3. CASE UNCHANGED op
    BY <1>1, <2>1, <2>3
  <2>4. CASE ~UNCHANGED op
    <3>1. Owns(w) /\ (OpMoves(o, "dead", Nobody, op[o].id) \/ OpMoves(o, "pending", Nobody, op[o].id))
      BY <1>7, <2>4 DEF Records
    <3>2. op[o].state = "running"
      BY <2>1, <3>1 DEF Owns
    <3> HIDE DEF o
    <3> QED
      BY <2>1, <2>2, <3>1, <3>2, RowForward
  <2> QED
    BY <2>3, <2>4
<1> QED
  BY <1>1, <1>3, <1>4, <1>5, <1>6, <1>7
  DEF HandlerEffect, Looks, Lists, Starts, Reads, Completes, Drops, Sweeps, Fails

LEMMA LedgerForward ==
  ASSUME TypeOK, NEW o \in Ops, Stops(o) \/ \E w \in Workers : Claims(w, o)
  PROVE  Forward /\ Handoff
<1>1. CASE UNCHANGED <<sess, op>>
  BY <1>1 DEF Forward, Handoff
<1>2. CASE Stops(o) /\ ~UNCHANGED <<sess, op>>
  BY <1>2, RowForward DEF Stops
<1>3. ASSUME NEW w \in Workers, Claims(w, o) PROVE Forward /\ Handoff
  BY <1>3, RowForward DEF Claims
<1> QED
  BY <1>1, <1>2, <1>3

-----------------------------------------------------------------------------
(* Workers and rows *)

\* A worker goes on to a phase of its operation, or to rest.
Steady(w) ==
  \E pc \in Steps, o \in Ops \cup {NoOp}, id \in UploadIds :
    /\ WorkerMoves(w, pc, o, id)
    /\ \/ pc = "idle" /\ o = NoOp
       \/ o \in Ops /\ pc \in Phases(o[2]) /\ op'[o].state # "absent"

LEMMA WorkersKept ==
  ASSUME WorkersInv, Forward, UNCHANGED wk \/ \E w \in Workers : Steady(w)
  PROVE  WorkersInv'
<1> SUFFICES ASSUME NEW v \in Workers PROVE WorkerOK(v)'
  BY DEF WorkersInv
<1>1. CASE wk'[v] = wk[v]
  BY <1>1 DEF WorkersInv, WorkerOK, Forward
<1>2. CASE wk'[v] # wk[v]
  <2>1. PICK w \in Workers : Steady(w)
    BY <1>2
  <2>2. PICK pc \in Steps, o \in Ops \cup {NoOp}, id \in UploadIds :
          /\ WorkerMoves(w, pc, o, id)
          /\ \/ pc = "idle" /\ o = NoOp
             \/ o \in Ops /\ pc \in Phases(o[2]) /\ op'[o].state # "absent"
    BY <2>1 DEF Steady
  <2>3. v = w /\ wk'[v].pc = pc /\ wk'[v].op = o
    BY <1>2, <2>2 DEF WorkerMoves
  <2> QED
    BY <2>2, <2>3 DEF WorkerOK
<1> QED
  BY <1>1, <1>2

LEMMA WorkerSteady ==
  ASSUME TypeOK, WorkersInv, NEW w \in Workers, HandlerEffect(w), Forward
  PROVE  Steady(w)
<1>1. {"new", "skip", "persist", "finish", "err", "idle", "list", "call", "mark", "clear"} \subseteq Steps
  BY DEF Steps
<1>2. ASSUME Idles(w) PROVE Steady(w)
  BY <1>1, <1>2 DEF Idles, Steady, UploadIds
<1>3. ASSUME NEW kind \in Kinds, NEW s \in Sessions, wk[w].op = <<s, kind>>, NEW pc \in Phases(kind), pc \in Steps,
             NEW id \in UploadIds, WorkerMoves(w, pc, wk[w].op, id)
      PROVE  Steady(w)
  <2> DEFINE o == <<s, kind>>
  <2>1. o \in Ops /\ o[2] = kind
    BY Pairs
  <2>2. o # NoOp
    BY <2>1, NoOpAssumption
  <2>3. op[o].state # "absent"
    BY <1>3, <2>1, <2>2 DEF WorkersInv, WorkerOK
  <2>4. op'[o].state # "absent"
    BY <2>1, <2>3 DEF Forward
  <2>5. WorkerMoves(w, pc, o, id)
    BY <1>3
  <2> HIDE DEF o
  <2> QED
    BY <1>3, <2>1, <2>4, <2>5 DEF Steady
<1>4. wk[w].id \in UploadIds /\ \A s \in Sessions : sess[s].id \in UploadIds /\ made[s] + 1 \in UploadIds
  BY Fields DEF UploadIds
<1>5. /\ Kinds = {"create", "complete", "abort", "staging"}
      /\ Phases("create") = {"begin", "list", "new", "persist", "finish", "skip", "err"}
      /\ Phases("complete") = {"begin", "call", "mark", "finish", "skip", "err"}
      /\ Phases("abort") = {"call", "mark", "clear", "err"}
      /\ Phases("staging") = {"call", "mark", "err"}
  BY DEF Kinds, Phases
<1>6. ASSUME NEW s \in Sessions,
             Looks(w, s) \/ Lists(w, s) \/ Starts(w, s) \/ Persists(w, s) \/ Finishes(w, s)
      PROVE  Steady(w)
  <2>1. wk[w].op = <<s, "create">>
    BY <1>6 DEF Looks, Lists, Starts, Persists, Finishes, At
  <2>2. \/ Idles(w)
        \/ \E pc \in Phases("create"), id \in UploadIds : pc \in Steps /\ WorkerMoves(w, pc, wk[w].op, id)
    <3>1. CASE Looks(w, s)
      BY <1>1, <1>4, <1>5, <3>1 DEF Looks, Onto
    <3>2. CASE Lists(w, s)
      BY <1>1, <1>4, <1>5, <3>2 DEF Lists, Onto
    <3>3. CASE Starts(w, s)
      BY <1>1, <1>4, <1>5, <3>3 DEF Starts, Onto
    <3>4. CASE Persists(w, s)
      BY <1>1, <1>4, <1>5, <3>4 DEF Persists, Onto
    <3>5. CASE Finishes(w, s)
      BY <1>1, <1>4, <1>5, <3>5 DEF Finishes, Onto
    <3> QED
      BY <1>6, <3>1, <3>2, <3>3, <3>4, <3>5
  <2> QED
    BY <1>2, <1>3, <1>5, <2>1, <2>2
<1>7. ASSUME NEW s \in Sessions, Reads(w, s) \/ Completes(w, s) \/ Publishes(w, s)
      PROVE  Steady(w)
  <2>1. wk[w].op = <<s, "complete">>
    BY <1>7 DEF Reads, Completes, Publishes, At
  <2>2. \/ Idles(w)
        \/ \E pc \in Phases("complete"), id \in UploadIds : pc \in Steps /\ WorkerMoves(w, pc, wk[w].op, id)
    <3>1. CASE Reads(w, s)
      BY <1>1, <1>4, <1>5, <3>1 DEF Reads
    <3>2. CASE Completes(w, s)
      BY <1>1, <1>4, <1>5, <3>2 DEF Completes, Onto
    <3>3. CASE Publishes(w, s)
      BY <1>1, <1>4, <1>5, <3>3 DEF Publishes, Onto
    <3> QED
      BY <1>7, <3>1, <3>2, <3>3
  <2> QED
    BY <1>2, <1>3, <1>5, <2>1, <2>2
<1>8. ASSUME NEW s \in Sessions, Drops(w, s) \/ Clears(w, s) \/ Sweeps(w, s)
      PROVE  Steady(w)
  BY <1>1, <1>2, <1>3, <1>4, <1>5, <1>8 DEF Drops, Clears, Sweeps, Onto, At
<1>9. ASSUME NEW s \in Sessions, NEW kind \in Kinds, Marks(w, s, kind) \/ Records(w, s, kind)
      PROVE  Steady(w)
  <2>1. wk[w].op = <<s, kind>>
    BY <1>9 DEF Marks, Records
  <2>2. \/ Idles(w) \/ Onto(w, "err")
        \/ kind = "complete" /\ Onto(w, "finish")
        \/ kind = "abort" /\ Onto(w, "clear")
    BY <1>9 DEF Marks, Records
  <2>3. "err" \in Phases(kind)
    BY <1>5
  <2> QED
    BY <1>1, <1>2, <1>3, <1>4, <1>5, <2>1, <2>2, <2>3 DEF Onto
<1>10. ASSUME Fails(w) PROVE Steady(w)
  <2>1. CASE Idles(w)
    BY <1>2, <2>1
  <2>2. CASE Onto(w, "err")
    <3>1. wk[w].op \in Ops
      BY <1>10 DEF Fails, WorkersInv, WorkerOK
    <3>2. PICK s \in Sessions, kind \in Kinds : wk[w].op = <<s, kind>>
      BY <3>1, Pairs
    <3>3. "err" \in Phases(kind)
      BY <1>5
    <3> QED
      BY <1>1, <1>3, <1>4, <2>2, <3>2, <3>3 DEF Onto
  <2> QED
    BY <1>10, <2>1, <2>2 DEF Fails
<1> QED
  BY <1>6, <1>7, <1>8, <1>9, <1>10 DEF HandlerEffect

LEMMA ClaimSteady ==
  ASSUME TypeOK, NEW w \in Workers, NEW o \in Ops, Claims(w, o)
  PROVE  Steady(w)
<1>1. PICK id \in UploadIds : WorkerMoves(w, IF o[2] \in {"create", "complete"} THEN "begin" ELSE "call", o, id)
  BY DEF Claims
<1> DEFINE pc == IF o[2] \in {"create", "complete"} THEN "begin" ELSE "call"
<1>2. o[2] \in Kinds
  BY Pairs
<1>3. pc \in Phases(o[2]) /\ pc \in Steps
  BY <1>2 DEF Phases, Kinds, Steps
<1>4. op'[o].state # "absent"
  BY DEF Claims, OpMoves
<1> QED
  BY <1>1, <1>3, <1>4 DEF Steady

LEMMA RowsHandedOff ==
  ASSUME TypeOK, RowsInv, Handoff
  PROVE  RowsInv'
<1> SUFFICES ASSUME NEW s \in Sessions
             PROVE  /\ sess'[s].status = "none" => op'[<<s, "create">>].state = "absent"
                    /\ op'[<<s, "complete">>].state # "absent"
                         => sess'[s].status \in {"completing", "verifying", "completed", "failed"}
                    /\ op'[<<s, "abort">>].state # "absent" => sess'[s].status \in Gone
                    /\ op'[<<s, "staging">>].state # "absent" => sess'[s].status \in {"completed", "failed"}
  BY DEF RowsInv, RowsOK
<1>1. \A kind \in Kinds : <<s, kind>> \in Ops /\ <<s, kind>>[1] = s /\ <<s, kind>>[2] = kind
  BY Pairs
<1>2. \A kind \in Kinds : op'[<<s, kind>>].state # "absent" =>
                            op[<<s, kind>>].state # "absent" \/ (kind = "abort" /\ sess[s].status \in Gone)
  BY <1>1 DEF Handoff
<1>3. /\ sess[s].status = "none" => op[<<s, "create">>].state = "absent"
      /\ op[<<s, "complete">>].state # "absent"
           => sess[s].status \in {"completing", "verifying", "completed", "failed"}
      /\ op[<<s, "abort">>].state # "absent" => sess[s].status \in Gone
      /\ op[<<s, "staging">>].state # "absent" => sess[s].status \in {"completed", "failed"}
  BY DEF RowsInv, RowsOK
<1>4. \/ sess'[s].status = sess[s].status
      \/ sess[s].status = "initializing" /\ sess'[s].status = "created"
      \/ sess[s].status = "completing" /\ sess'[s].status = "verifying"
  BY DEF Handoff
<1> QED
  BY <1>2, <1>3, <1>4 DEF Kinds, Gone

LEMMA CarriedOff ==
  ASSUME Handoff, UNCHANGED <<user, entry>>
  PROVE  Carried
  BY DEF Handoff, Carried, Active

-----------------------------------------------------------------------------
(* A step concerns one session *)

Apart(s) ==
  \A t \in Sessions \ {s} :
    /\ sess'[t] = sess[t] /\ mp'[t] = mp[t] /\ (t \in staged' <=> t \in staged)
    /\ \A kind \in Kinds : op'[<<t, kind>>] = op[<<t, kind>>]
    /\ \A v \in Workers, kind \in Kinds : wk'[v].op = <<t, kind>> => wk'[v] = wk[v]

LEMMA ApartKeeps ==
  ASSUME NEW s \in Sessions, Apart(s), NEW t \in Sessions \ {s}
  PROVE  /\ RowsOK(t) => RowsOK(t)'
         /\ StagedOK(t) => StagedOK(t)'
         /\ LeaseOK(t) => LeaseOK(t)'
<1>1. /\ sess'[t] = sess[t] /\ mp'[t] = mp[t] /\ (t \in staged' <=> t \in staged)
      /\ op'[<<t, "create">>] = op[<<t, "create">>] /\ op'[<<t, "complete">>] = op[<<t, "complete">>]
      /\ op'[<<t, "abort">>] = op[<<t, "abort">>] /\ op'[<<t, "staging">>] = op[<<t, "staging">>]
  BY DEF Apart, Kinds
<1>2. /\ \A v \in Workers : wk'[v].op = <<t, "create">> => wk'[v] = wk[v]
      /\ \A v \in Workers : wk'[v].op = <<t, "complete">> => wk'[v] = wk[v]
  BY DEF Apart, Kinds
<1>3. RowsOK(t) => RowsOK(t)'
  BY <1>1 DEF RowsOK
<1>4. StagedOK(t) => StagedOK(t)'
  BY <1>1, <1>2 DEF StagedOK, Uploaded
<1>5. ASSUME LeaseOK(t) PROVE LeaseOK(t)'
  <2>1. CreatedOK(t)'
    BY <1>1, <1>5 DEF LeaseOK, CreatedOK, NewestOpen
  <2>2. ASSUME NEW v \in Workers, wk'[v].op = <<t, "create">>
        PROVE  Owns(v)' /\ (sess'[t].status = "initializing" => CreatingOK(v, t)')
    <3>1. wk'[v] = wk[v] /\ wk[v].op = <<t, "create">>
      BY <1>2, <2>2
    <3>2. Owns(v) /\ (sess[t].status = "initializing" => CreatingOK(v, t))
      BY <1>5, <3>1 DEF LeaseOK
    <3>3. Owns(v)'
      BY <1>1, <3>1, <3>2 DEF Owns
    <3>4. CreatingOK(v, t) => CreatingOK(v, t)'
      BY <1>1, <3>1 DEF CreatingOK, NewestOpen
    <3> QED
      BY <1>1, <3>2, <3>3, <3>4
  <2> QED
    BY <2>1, <2>2 DEF LeaseOK
<1> QED
  BY <1>3, <1>4, <1>5

LEMMA PairsDiffer ==
  ASSUME NEW s, NEW t, s # t, NEW k, NEW l
  PROVE  <<s, k>> # <<t, l>>
  OBVIOUS

LEMMA SessionApart ==
  ASSUME TypeOK, NEW s \in Sessions, UNCHANGED <<wk, mp, staged>>,
         Opened(s) \/ Advanced(s) \/ Closed(s) \/ Committed(s) \/ Deleted(s) \/ Stays
  PROVE  Apart(s)
<1> SUFFICES ASSUME NEW t \in Sessions \ {s}
             PROVE  sess'[t] = sess[t] /\ \A kind \in Kinds : op'[<<t, kind>>] = op[<<t, kind>>]
  BY DEF Apart
<1>1. \A kind \in Kinds : <<t, kind>> \in Ops /\ <<t, kind>>[1] # s
  BY Pairs
<1>2. ASSUME NEW kinds, Extends(s, kinds), NEW kind \in Kinds PROVE op'[<<t, kind>>] = op[<<t, kind>>]
  BY <1>1, <1>2 DEF Extends
<1>3. CASE Opened(s)
  BY <1>2, <1>3 DEF Opened, Moves
<1>4. CASE Advanced(s)
  BY <1>2, <1>4 DEF Advanced, Moves
<1>5. CASE Closed(s)
  <2>1. sess'[t] = sess[t]
    BY <1>5 DEF Closed, Moves
  <2>2. CASE Extends(s, {"abort"}) \/ Extends(s, {"staging"})
    BY <1>2, <2>1, <2>2
  <2>3. CASE \A o \in Ops :
               \/ op'[o] = op[o]
               \/ o[1] = s /\ o[2] \in {"abort", "staging"} /\ op[o].state = "absent" /\ op'[o].state = "pending"
               \/ /\ o[1] = s /\ o[2] \in {"create", "complete"} /\ op[o].state \notin {"running", "succeeded"}
                  /\ op'[o].state = "dead" /\ op'[o].id = op[o].id
    BY <1>1, <2>1, <2>3
  <2> QED
    BY <1>5, <2>2, <2>3 DEF Closed
<1>6. CASE Committed(s)
  BY <1>2, <1>6 DEF Committed, Moves
<1>7. CASE Deleted(s) \/ Stays
  BY <1>7 DEF Deleted, Stays
<1> QED
  BY <1>3, <1>4, <1>5, <1>6, <1>7

\* A worker changes rows of the session of its operation.
LEMMA WorkerApart ==
  ASSUME TypeOK, WorkersInv, NEW w \in Workers, HandlerEffect(w)
  PROVE  \E s \in Sessions : Apart(s) /\ \E kind \in Kinds : wk[w].op = <<s, kind>>
<1>1. ASSUME NEW s \in Sessions, NEW kind \in Kinds, wk[w].op = <<s, kind>>, NEW pc, NEW o, NEW id,
             WorkerMoves(w, pc, o, id), o = wk[w].op \/ o = NoOp,
             NEW t \in Sessions \ {s}, NEW v \in Workers, NEW k \in Kinds, wk'[v].op = <<t, k>>
      PROVE  wk'[v] = wk[v]
  <2>1. <<t, k>> # <<s, kind>> /\ <<t, k>> # NoOp
    BY PairsDiffer, Pairs, NoOpAssumption
  <2>2. wk'[w].op = o
    BY <1>1 DEF WorkerMoves
  <2>3. v # w
    BY <1>1, <2>1, <2>2
  <2> QED
    BY <1>1, <2>3 DEF WorkerMoves
<1> DEFINE rows(s) == \A t \in Sessions \ {s} :
             /\ sess'[t] = sess[t] /\ mp'[t] = mp[t] /\ (t \in staged' <=> t \in staged)
             /\ \A kind \in Kinds : op'[<<t, kind>>] = op[<<t, kind>>]
<1>2. ASSUME NEW s \in Sessions, NEW kind \in Kinds, wk[w].op = <<s, kind>>, rows(s),
             \E pc, o, id : WorkerMoves(w, pc, o, id) /\ (o = wk[w].op \/ o = NoOp)
      PROVE  \E t \in Sessions : Apart(t) /\ \E k \in Kinds : wk[w].op = <<t, k>>
  BY <1>1, <1>2 DEF Apart
<1>3. ASSUME NEW s \in Sessions, NEW kind \in Kinds, NEW t \in Sessions \ {s}, NEW k \in Kinds
      PROVE  <<t, k>> \in Ops \ {<<s, kind>>}
  BY <1>3, Pairs, PairsDiffer
<1>4. ASSUME NEW s \in Sessions,
             Looks(w, s) \/ Lists(w, s) \/ Starts(w, s)
      PROVE  \E t \in Sessions : Apart(t) /\ \E k \in Kinds : wk[w].op = <<t, k>>
  <2>1. wk[w].op = <<s, "create">> /\ UNCHANGED <<sess, op, staged>>
    BY <1>4 DEF Looks, Lists, Starts, At
  <2>2. \A t \in Sessions \ {s} : mp'[t] = mp[t]
    BY <1>4 DEF Looks, Lists, Starts, MpMoves
  <2>3. \E pc, o, id : WorkerMoves(w, pc, o, id) /\ (o = wk[w].op \/ o = NoOp)
    BY <1>4 DEF Looks, Lists, Starts, Onto
  <2>4. rows(s)
    BY <2>1, <2>2
  <2> HIDE DEF rows
  <2> QED
    BY <1>2, <2>1, <2>3, <2>4 DEF Kinds
<1>5. ASSUME NEW s \in Sessions, Persists(w, s) \/ Finishes(w, s)
      PROVE  \E t \in Sessions : Apart(t) /\ \E k \in Kinds : wk[w].op = <<t, k>>
  <2>1. wk[w].op = <<s, "create">> /\ UNCHANGED <<mp, staged>>
    BY <1>5 DEF Persists, Finishes, At
  <2>2. \A t \in Sessions \ {s} : sess'[t] = sess[t]
    BY <1>5 DEF Persists, Finishes, Moves
  <2>3. \A p \in Ops \ {<<s, "create">>} : p # <<s, "abort">> => op'[p] = op[p]
    BY <1>5 DEF Persists, Finishes, OpMoves
  <2>4. \A t \in Sessions \ {s}, k \in Kinds : op'[<<t, k>>] = op[<<t, k>>]
    BY <1>3, <2>3 DEF Kinds
  <2>5. \E pc, o, id : WorkerMoves(w, pc, o, id) /\ (o = wk[w].op \/ o = NoOp)
    BY <1>5 DEF Persists, Finishes, Onto, Idles
  <2>6. rows(s)
    BY <2>1, <2>2, <2>4
  <2> HIDE DEF rows
  <2> QED
    BY <1>2, <2>1, <2>5, <2>6 DEF Kinds
<1>6. ASSUME NEW s \in Sessions, Reads(w, s) \/ Completes(w, s) \/ Publishes(w, s)
      PROVE  \E t \in Sessions : Apart(t) /\ \E k \in Kinds : wk[w].op = <<t, k>>
  <2>1. wk[w].op = <<s, "complete">> /\ UNCHANGED op
    BY <1>6 DEF Reads, Completes, Publishes, At
  <2>2. \A t \in Sessions \ {s} : sess'[t] = sess[t] /\ mp'[t] = mp[t] /\ (t \in staged' <=> t \in staged)
    BY <1>6 DEF Reads, Completes, Publishes, Moves, MpMoves
  <2>3. \E pc, o, id : WorkerMoves(w, pc, o, id) /\ (o = wk[w].op \/ o = NoOp)
    BY <1>6 DEF Reads, Completes, Publishes, Onto, Idles
  <2>4. rows(s)
    BY <2>1, <2>2
  <2> HIDE DEF rows
  <2> QED
    BY <1>2, <2>1, <2>3, <2>4 DEF Kinds
<1>7. ASSUME NEW s \in Sessions, Drops(w, s) \/ Clears(w, s) \/ Sweeps(w, s)
      PROVE  \E t \in Sessions : Apart(t) /\ \E k \in Kinds : wk[w].op = <<t, k>>
  <2>1. (wk[w].op = <<s, "abort">> \/ wk[w].op = <<s, "staging">>) /\ UNCHANGED op
    BY <1>7 DEF Drops, Clears, Sweeps, At
  <2>2. \A t \in Sessions \ {s} : sess'[t] = sess[t] /\ mp'[t] = mp[t] /\ (t \in staged' <=> t \in staged)
    BY <1>7 DEF Drops, Clears, Sweeps, Moves, MpMoves
  <2>3. \E pc, o, id : WorkerMoves(w, pc, o, id) /\ (o = wk[w].op \/ o = NoOp)
    BY <1>7 DEF Drops, Clears, Sweeps, Onto, Idles
  <2>4. rows(s)
    BY <2>1, <2>2
  <2> HIDE DEF rows
  <2> QED
    BY <1>2, <2>1, <2>3, <2>4 DEF Kinds
<1>8. ASSUME NEW s \in Sessions, NEW kind \in Kinds, Marks(w, s, kind) \/ Records(w, s, kind)
      PROVE  \E t \in Sessions : Apart(t) /\ \E k \in Kinds : wk[w].op = <<t, k>>
  <2>1. wk[w].op = <<s, kind>> /\ UNCHANGED <<sess, mp, staged>>
    BY <1>8 DEF Marks, Records
  <2>2. \A p \in Ops \ {<<s, kind>>} : op'[p] = op[p]
    BY <1>8 DEF Marks, Records, OpMoves
  <2>3. \A t \in Sessions \ {s}, k \in Kinds : op'[<<t, k>>] = op[<<t, k>>]
    BY <1>3, <2>2
  <2>4. \E pc, o, id : WorkerMoves(w, pc, o, id) /\ (o = wk[w].op \/ o = NoOp)
    BY <1>8 DEF Marks, Records, Onto, Idles
  <2>5. rows(s)
    BY <2>1, <2>3
  <2> HIDE DEF rows
  <2> QED
    BY <1>2, <2>1, <2>4, <2>5
<1>9. ASSUME Fails(w)
      PROVE  \E t \in Sessions : Apart(t) /\ \E k \in Kinds : wk[w].op = <<t, k>>
  <2>1. wk[w].op \in Ops
    BY <1>9 DEF Fails, WorkersInv, WorkerOK
  <2>2. PICK s \in Sessions, kind \in Kinds : wk[w].op = <<s, kind>>
    BY <2>1, Pairs
  <2>3. \E pc, o, id : WorkerMoves(w, pc, o, id) /\ (o = wk[w].op \/ o = NoOp)
    BY <1>9 DEF Fails, Onto, Idles
  <2>4. rows(s)
    BY <1>9 DEF Fails
  <2> HIDE DEF rows
  <2> QED
    BY <1>2, <2>2, <2>3, <2>4
<1> QED
  BY <1>4, <1>5, <1>6, <1>7, <1>8, <1>9 DEF HandlerEffect

LEMMA LedgerApart ==
  ASSUME TypeOK, WorkersInv, NEW o \in Ops, Stops(o) \/ \E w \in Workers : Claims(w, o)
  PROVE  Apart(o[1])
<1> DEFINE s == o[1]
<1>1. s \in Sessions
  BY Pairs
<1>2. UNCHANGED <<sess, mp, staged>>
  BY DEF Stops, Claims
<1>3. \A p \in Ops \ {o} : op'[p] = op[p]
  BY DEF Stops, Claims, OpMoves
<1>4. ASSUME NEW t \in Sessions \ {s}, NEW k \in Kinds PROVE <<t, k>> \in Ops /\ <<t, k>> # o
  <2>1. <<t, k>> \in Ops /\ <<t, k>>[1] = t
    BY Pairs
  <2> QED
    BY <2>1
<1>5. \A t \in Sessions \ {s}, v \in Workers, k \in Kinds : wk'[v].op = <<t, k>> => wk'[v] = wk[v]
  <2>1. CASE Stops(o)
    BY <2>1 DEF Stops
  <2>2. ASSUME NEW w \in Workers, Claims(w, o)
        PROVE  \A t \in Sessions \ {s}, v \in Workers, k \in Kinds : wk'[v].op = <<t, k>> => wk'[v] = wk[v]
    <3>1. wk'[w].op = o /\ \A v \in Workers \ {w} : wk'[v] = wk[v]
      BY <2>2 DEF Claims, WorkerMoves
    <3> QED
      BY <1>4, <3>1
  <2> QED
    BY <2>1, <2>2
<1> QED
  BY <1>1, <1>2, <1>3, <1>4, <1>5 DEF Apart

-----------------------------------------------------------------------------
(* The steps of a session and what is at the provider *)

LEMMA ExtendsRows ==
  ASSUME NEW s \in Sessions, NEW kinds, Extends(s, kinds), NEW kind \in Kinds
  PROVE  /\ kind \notin kinds => op'[<<s, kind>>] = op[<<s, kind>>]
         /\ \/ op'[<<s, kind>>] = op[<<s, kind>>]
            \/ op[<<s, kind>>].state = "absent" /\ op'[<<s, kind>>].state = "pending"
<1>1. <<s, kind>> \in Ops /\ <<s, kind>>[2] = kind
  BY Pairs
<1> QED
  BY <1>1 DEF Extends

LEMMA RetiredRows ==
  ASSUME NEW s \in Sessions, NEW kind \in Kinds,
         \A o \in Ops :
           \/ op'[o] = op[o]
           \/ o[1] = s /\ o[2] \in {"abort", "staging"} /\ op[o].state = "absent" /\ op'[o].state = "pending"
           \/ /\ o[1] = s /\ o[2] \in {"create", "complete"} /\ op[o].state \notin {"running", "succeeded"}
              /\ op'[o].state = "dead" /\ op'[o].id = op[o].id
  PROVE  \/ op'[<<s, kind>>] = op[<<s, kind>>]
         \/ op[<<s, kind>>].state \notin {"running", "succeeded"} /\ op'[<<s, kind>>].state \in {"pending", "dead"}
<1>1. <<s, kind>> \in Ops /\ <<s, kind>>[2] = kind
  BY Pairs
<1> QED
  BY <1>1

\* How the steps of a session move it, as far as the provider is concerned.
LEMMA SessionMoves ==
  ASSUME TypeOK, NEW s \in Sessions, RowsOK(s),
         Opened(s) \/ Advanced(s) \/ Closed(s) \/ Committed(s) \/ Deleted(s) \/ Stays
  PROVE  /\ RowsOK(s)'
         /\ \A kind \in Kinds : \/ op'[<<s, kind>>] = op[<<s, kind>>]
                                \/ /\ op[<<s, kind>>].state \notin {"running", "succeeded"}
                                   /\ op'[<<s, kind>>].state \in {"pending", "dead"}
         /\ \/ sess[s].status = "none" /\ sess'[s].status = "initializing" /\ op'[<<s, "create">>].id = 0
            \/ /\ sess'[s].status = sess[s].status /\ sess'[s].id = sess[s].id
               /\ op'[<<s, "create">>] = op[<<s, "create">>]
            \/ /\ sess[s].status \in {"created", "uploading"} /\ sess'[s].status \in {"uploading", "completing"}
               /\ sess'[s].id = sess[s].id
            \/ /\ sess[s].status = "initializing" /\ sess'[s].status = "created"
               /\ op[<<s, "create">>].state = "succeeded" /\ op[<<s, "create">>].id # 0
               /\ sess'[s].id = op[<<s, "create">>].id
            \/ /\ sess[s].status = "completing" /\ sess'[s].status = "verifying"
               /\ op[<<s, "complete">>].state = "succeeded"
            \/ sess'[s].status \in Gone \cup {"completed"}
<1> DEFINE rows == \A kind \in Kinds :
             \/ op'[<<s, kind>>] = op[<<s, kind>>]
             \/ /\ op[<<s, kind>>].state \notin {"running", "succeeded"}
                /\ op'[<<s, kind>>].state \in {"pending", "dead"}
<1>0. {"create", "complete", "abort", "staging"} = Kinds
  BY DEF Kinds
<1>1. ASSUME NEW kinds, Extends(s, kinds) PROVE rows
  BY <1>1, ExtendsRows
<1>2. CASE Opened(s)
  <2>1. /\ sess[s].status = "none" /\ sess'[s].status = "initializing" /\ Extends(s, {"create"})
        /\ op[<<s, "create">>].state = "absent" => op'[<<s, "create">>].id = 0
    BY <1>2 DEF Opened, Moves
  <2>2. /\ op'[<<s, "complete">>] = op[<<s, "complete">>] /\ op'[<<s, "abort">>] = op[<<s, "abort">>]
        /\ op'[<<s, "staging">>] = op[<<s, "staging">>]
    BY <1>0, <2>1, ExtendsRows
  <2>3. RowsOK(s)'
    BY <2>1, <2>2 DEF RowsOK, Gone
  <2>4. op'[<<s, "create">>].id = 0
    BY <2>1 DEF RowsOK
  <2> QED
    BY <1>1, <2>1, <2>3, <2>4
<1>3. CASE Advanced(s)
  <2>1. CASE UNCHANGED op
    <3>1. \/ sess'[s].status = sess[s].status /\ sess'[s].id = sess[s].id
          \/ sess[s].status = "created" /\ sess'[s].status = "uploading" /\ sess'[s].id = sess[s].id
          \/ sess[s].status \in {"created", "uploading"} /\ sess'[s].status = "completing" /\ sess'[s].id = sess[s].id
          \/ /\ sess[s].status = "initializing" /\ sess'[s].status = "created"
             /\ op[<<s, "create">>].state = "succeeded" /\ op[<<s, "create">>].id # 0
             /\ sess'[s].id = op[<<s, "create">>].id
          \/ /\ sess[s].status = "completing" /\ sess'[s].status = "verifying"
             /\ op[<<s, "complete">>].state = "succeeded"
      BY <1>3 DEF Advanced, Moves
    <3>2. RowsOK(s)'
      BY <2>1, <3>1 DEF RowsOK, Gone
    <3> QED
      BY <2>1, <3>1, <3>2
  <2>2. CASE ~UNCHANGED op
    <3>1. /\ sess[s].status \in {"created", "uploading"} /\ Extends(s, {"complete"})
          /\ sess'[s].status = "completing" /\ sess'[s].id = sess[s].id
      BY <1>3, <2>2 DEF Advanced, Moves
    <3>2. /\ op'[<<s, "create">>] = op[<<s, "create">>] /\ op'[<<s, "abort">>] = op[<<s, "abort">>]
          /\ op'[<<s, "staging">>] = op[<<s, "staging">>]
      BY <1>0, <3>1, ExtendsRows
    <3>3. RowsOK(s)'
      BY <3>1, <3>2 DEF RowsOK, Gone
    <3> QED
      BY <1>1, <3>1, <3>3
  <2> QED
    BY <2>1, <2>2
<1>4. CASE Closed(s)
  <2>1. CASE /\ sess[s].status \in Expirable \cup {"expired"} /\ Extends(s, {"abort"})
             /\ sess'[s].status \in {"aborted", "expired"}
    <3>1. op'[<<s, "complete">>] = op[<<s, "complete">>] /\ op'[<<s, "staging">>] = op[<<s, "staging">>]
      BY <1>0, <2>1, ExtendsRows
    <3>2. RowsOK(s)'
      BY <2>1, <3>1 DEF RowsOK, Gone, Expirable
    <3> QED
      BY <1>1, <2>1, <3>2 DEF Gone
  <2>2. CASE /\ sess[s].status \in {"verifying", "initializing", "completing"} /\ sess'[s].status = "failed" /\ rows
    BY <2>2 DEF RowsOK, Gone
  <2>3. \/ /\ Extends(s, {"abort"}) /\ sess[s].status \in Expirable \cup {"expired"}
           /\ sess'[s].status \in {"aborted", "expired"}
        \/ Extends(s, {"staging"}) /\ sess[s].status = "verifying" /\ sess'[s].status = "failed"
        \/ /\ sess[s].status \in {"initializing", "completing"} /\ sess'[s].status = "failed"
           /\ \A o \in Ops :
                \/ op'[o] = op[o]
                \/ o[1] = s /\ o[2] \in {"abort", "staging"} /\ op[o].state = "absent" /\ op'[o].state = "pending"
                \/ /\ o[1] = s /\ o[2] \in {"create", "complete"} /\ op[o].state \notin {"running", "succeeded"}
                   /\ op'[o].state = "dead" /\ op'[o].id = op[o].id
    BY <1>4 DEF Closed, Moves
  <2>4. ASSUME \A o \in Ops :
                 \/ op'[o] = op[o]
                 \/ o[1] = s /\ o[2] \in {"abort", "staging"} /\ op[o].state = "absent" /\ op'[o].state = "pending"
                 \/ /\ o[1] = s /\ o[2] \in {"create", "complete"} /\ op[o].state \notin {"running", "succeeded"}
                    /\ op'[o].state = "dead" /\ op'[o].id = op[o].id
        PROVE  rows
    BY <2>4, RetiredRows
  <2> HIDE DEF rows
  <2> QED
    BY <1>1, <2>1, <2>2, <2>3, <2>4
<1>5. CASE Committed(s)
  <2>1. sess[s].status = "verifying" /\ sess'[s].status = "completed" /\ Extends(s, {"staging"})
    BY <1>5 DEF Committed, Moves
  <2>2. op'[<<s, "abort">>] = op[<<s, "abort">>]
    BY <1>0, <2>1, ExtendsRows
  <2>3. RowsOK(s)'
    BY <2>1, <2>2 DEF RowsOK, Gone
  <2> QED
    BY <1>1, <2>1, <2>3
<1>6. CASE Deleted(s) \/ Stays
  <2>1. UNCHANGED <<sess, op>>
    BY <1>6 DEF Deleted, Stays
  <2> QED
    BY <2>1 DEF RowsOK
<1> QED
  BY <1>2, <1>3, <1>4, <1>5, <1>6

LEMMA SessionKeeps ==
  ASSUME TypeOK, RowsInv, StagedInv, NEW s \in Sessions, UNCHANGED <<wk, mp, made, staged>>, Forward,
         Opened(s) \/ Advanced(s) \/ Closed(s) \/ Committed(s) \/ Deleted(s) \/ Stays
  PROVE  RowsInv' /\ StagedInv' /\ (LeaseInv => LeaseInv')
<1>1. Apart(s) /\ RowsOK(s) /\ StagedOK(s)
  BY SessionApart DEF RowsInv, StagedInv
<1>2. RowsOK(s)'
  BY <1>1, SessionMoves
<1> DEFINE move ==
             \/ sess[s].status = "none" /\ sess'[s].status = "initializing" /\ op'[<<s, "create">>].id = 0
             \/ /\ sess'[s].status = sess[s].status /\ sess'[s].id = sess[s].id
                /\ op'[<<s, "create">>] = op[<<s, "create">>]
             \/ /\ sess[s].status \in {"created", "uploading"} /\ sess'[s].status \in {"uploading", "completing"}
                /\ sess'[s].id = sess[s].id
             \/ /\ sess[s].status = "initializing" /\ sess'[s].status = "created"
                /\ op[<<s, "create">>].state = "succeeded" /\ op[<<s, "create">>].id # 0
                /\ sess'[s].id = op[<<s, "create">>].id
             \/ /\ sess[s].status = "completing" /\ sess'[s].status = "verifying"
                /\ op[<<s, "complete">>].state = "succeeded"
             \/ sess'[s].status \in Gone \cup {"completed"}
           row(o) == \/ op'[o] = op[o]
                     \/ op[o].state \notin {"running", "succeeded"} /\ op'[o].state \in {"pending", "dead"}
<1>3. move /\ row(<<s, "create">>) /\ row(<<s, "complete">>)
  BY <1>1, SessionMoves DEF Kinds
<1>4. StagedOK(s)'
  <2>1. Uploaded(s) => Uploaded(s)'
    BY DEF Uploaded, Forward
  <2>2. sess'[s].status = "verifying" => s \in staged'
    BY <1>1, <1>3 DEF StagedOK, Uploaded, Gone
  <2> QED
    BY <1>1, <1>3, <2>1, <2>2 DEF StagedOK
<1>5. ASSUME LeaseOK(s) PROVE LeaseOK(s)'
  <2>1. CreatedOK(s)
    BY <1>5 DEF LeaseOK
  <2>2. CreatedOK(s)'
    <3>1. sess'[s].status \in Active \ {"initializing"} => op'[<<s, "create">>].state = "succeeded"
      <4>1. sess'[s].status \in Active \ {"initializing"} => op[<<s, "create">>].state = "succeeded"
        BY <1>3, <2>1 DEF CreatedOK, Active, Gone
      <4> QED
        BY <1>3, <4>1
    <3>2. sess'[s].status = "initializing" /\ op'[<<s, "create">>].id # 0 => NewestOpen(s, op[<<s, "create">>].id)'
      BY <1>3, <2>1 DEF CreatedOK, NewestOpen, Gone
    <3>3. sess'[s].status \in {"created", "uploading", "completing"} => sess'[s].id \in mp'[s] \/ s \in staged'
      BY <1>3, <2>1 DEF CreatedOK, NewestOpen, Gone
    <3> QED
      BY <3>1, <3>2, <3>3 DEF CreatedOK
  <2>3. ASSUME NEW v \in Workers, wk'[v].op = <<s, "create">>
        PROVE  Owns(v)' /\ (sess'[s].status = "initializing" => CreatingOK(v, s)')
    <3>1. wk[v].op = <<s, "create">> /\ Owns(v)
      BY <1>5, <2>3 DEF LeaseOK
    <3>2. op[<<s, "create">>].state = "running"
      BY <3>1 DEF Owns
    <3>3. op'[<<s, "create">>] = op[<<s, "create">>]
      BY <1>3, <3>2
    <3>4. Owns(v)'
      BY <3>1, <3>3 DEF Owns
    <3>5. sess'[s].status = "initializing" => sess[s].status = "initializing"
      BY <1>1, <1>3, <3>2 DEF RowsOK, Gone
    <3>6. CreatingOK(v, s) => CreatingOK(v, s)'
      BY <3>3 DEF CreatingOK, NewestOpen
    <3> QED
      BY <1>5, <3>1, <3>4, <3>5, <3>6 DEF LeaseOK
  <2> QED
    BY <2>2, <2>3 DEF LeaseOK
<1>6. \A t \in Sessions \ {s} : RowsOK(t)' /\ StagedOK(t)' /\ (LeaseOK(t) => LeaseOK(t)')
  BY <1>1, ApartKeeps DEF RowsInv, StagedInv
<1> QED
  BY <1>2, <1>4, <1>5, <1>6 DEF RowsInv, StagedInv, LeaseInv

-----------------------------------------------------------------------------
(* The steps of a worker and what is at the provider *)

LEMMA WorkerOpen ==
  ASSUME TypeOK, OpenInv, NEW w \in Workers, HandlerEffect(w)
  PROVE  OpenInv'
<1>0. \A t \in Sessions : mp[t] \subseteq Nat /\ made[t] \in Nat
  BY Fields DEF UploadIds
<1>1. CASE UNCHANGED <<mp, made>>
  BY <1>1 DEF OpenInv
<1>2. ASSUME NEW s \in Sessions, Lists(w, s) \/ Completes(w, s) \/ Drops(w, s) PROVE OpenInv'
  <2>1. UNCHANGED made /\ \A t \in Sessions : mp'[t] \subseteq mp[t]
    BY <1>2 DEF Lists, Completes, Drops, MpMoves, NewestOpen
  <2> QED
    BY <2>1 DEF OpenInv
<1>3. ASSUME NEW s \in Sessions, Starts(w, s) PROVE OpenInv'
  <2>1. /\ mp'[s] = mp[s] \cup {made[s] + 1} /\ \A t \in Sessions \ {s} : mp'[t] = mp[t] /\ made'[t] = made[t]
        /\ made'[s] = made[s] + 1
    BY <1>3, Typed DEF Starts, MpMoves
  <2> QED
    BY <1>0, <2>1 DEF OpenInv
<1> QED
  BY <1>1, <1>2, <1>3 DEF HandlerEffect, Looks, Persists, Finishes, Reads, Publishes, Clears, Sweeps, Marks,
     Records, Fails

\* A worker's operation exists.
LEMMA WorkerRowExists ==
  ASSUME WorkersInv, NEW w \in Workers, NEW s \in Sessions, NEW kind \in Kinds, wk[w].op = <<s, kind>>
  PROVE  <<s, kind>> \in Ops /\ op[<<s, kind>>].state # "absent" /\ wk[w].pc \in Phases(kind)
<1>1. <<s, kind>> \in Ops /\ <<s, kind>>[2] = kind
  BY Pairs
<1>2. wk[w].op # NoOp
  BY <1>1, NoOpAssumption
<1> QED
  BY <1>1, <1>2 DEF WorkersInv, WorkerOK

\* The session of a step is the one of the worker's operation.
LEMMA ActingOn ==
  ASSUME NEW w \in Workers, HandlerEffect(w), NEW s \in Sessions, NEW kind \in Kinds, wk[w].op = <<s, kind>>
  PROVE  \/ Looks(w, s) \/ Lists(w, s) \/ Starts(w, s) \/ Persists(w, s) \/ Finishes(w, s)
         \/ Reads(w, s) \/ Completes(w, s) \/ Publishes(w, s)
         \/ Drops(w, s) \/ Clears(w, s) \/ Sweeps(w, s)
         \/ Marks(w, s, kind) \/ Records(w, s, kind) \/ Fails(w)
<1>1. ASSUME NEW t, NEW k, wk[w].op = <<t, k>> PROVE t = s /\ k = kind
  BY <1>1
<1>2. ASSUME NEW t \in Sessions,
             Looks(w, t) \/ Lists(w, t) \/ Starts(w, t) \/ Persists(w, t) \/ Finishes(w, t)
      PROVE  t = s
  BY <1>1, <1>2 DEF Looks, Lists, Starts, Persists, Finishes, At
<1>3. ASSUME NEW t \in Sessions,
             \/ Reads(w, t) \/ Completes(w, t) \/ Publishes(w, t)
             \/ Drops(w, t) \/ Clears(w, t) \/ Sweeps(w, t)
      PROVE  t = s
  BY <1>1, <1>3 DEF Reads, Completes, Publishes, Drops, Clears, Sweeps, At
<1>4. ASSUME NEW t \in Sessions, NEW k \in Kinds, Marks(w, t, k) \/ Records(w, t, k)
      PROVE  t = s /\ k = kind
  BY <1>1, <1>4 DEF Marks, Records
<1> QED
  BY <1>2, <1>3, <1>4 DEF HandlerEffect

LEMMA WorkerStaged ==
  ASSUME TypeOK, WorkersInv, RowsInv, StagedInv, NEW w \in Workers, HandlerEffect(w), Forward,
         NEW s \in Sessions, NEW kind \in Kinds, wk[w].op = <<s, kind>>
  PROVE  StagedOK(s)'
<1> DEFINE late == {"mark", "finish", "skip"}
           c == <<s, "complete">>
<1>0. StagedOK(s) /\ RowsOK(s) /\ <<s, kind>> \in Ops /\ op[<<s, kind>>].state # "absent"
  BY WorkerRowExists DEF StagedInv, RowsInv
<1>1. ASSUME NEW t \in Sessions, NEW k \in Kinds, wk[w].op = <<t, k>> PROVE t = s /\ k = kind
  BY <1>1
<1>2. ASSUME Uploaded(s) => Uploaded(s)',
             sess'[s].status = "verifying" => s \in staged',
             op'[c].state = "succeeded" => op[c].state = "succeeded" \/ Uploaded(s),
             \A v \in Workers \ {w} : wk'[v] = wk[v],
             wk'[w].op = c /\ wk'[w].pc \in late => Uploaded(s)'
      PROVE  StagedOK(s)'
  BY <1>0, <1>2 DEF StagedOK
<1>3. c \in Ops /\ NoOp # c /\ \A k \in Kinds : <<s, k>> = c => k = "complete"
  <2>1. c \in Ops
    BY Pairs DEF Kinds
  <2>2. NoOp # c
    BY <2>1, NoOpAssumption
  <2>3. \A k \in Kinds : <<s, k>> = c => k = "complete"
    OBVIOUS
  <2> QED
    BY <2>1, <2>2, <2>3
<1>4. CASE \/ Looks(w, s) \/ Lists(w, s) \/ Starts(w, s) \/ Persists(w, s) \/ Finishes(w, s)
  <2>1. wk[w].op = <<s, "create">> /\ UNCHANGED staged
    BY <1>4 DEF Looks, Lists, Starts, Persists, Finishes, At
  <2>2. (\A v \in Workers \ {w} : wk'[v] = wk[v]) /\ (wk'[w].op = wk[w].op \/ wk'[w].op = NoOp)
    BY <1>4 DEF Looks, Lists, Starts, Persists, Finishes, Onto, Idles, WorkerMoves
  <2>3. sess'[s].status = sess[s].status \/ (sess[s].status = "initializing" /\ sess'[s].status = "created")
    BY <1>4 DEF Looks, Lists, Starts, Persists, Finishes, Moves
  <2>4. op'[c] = op[c]
    <3>1. c # <<s, "create">> /\ c # <<s, "abort">>
      OBVIOUS
    <3> QED
      BY <1>3, <1>4, <3>1 DEF Looks, Lists, Starts, Persists, Finishes, OpMoves
  <2>5. Uploaded(s) => Uploaded(s)'
    BY <2>1, <2>3 DEF Uploaded
  <2>6. wk'[w].op # c
    BY <1>3, <2>1, <2>2 DEF Kinds
  <2>7. sess'[s].status = "verifying" => s \in staged'
    BY <1>0, <2>1, <2>3 DEF StagedOK
  <2> QED
    BY <1>2, <2>2, <2>4, <2>5, <2>6, <2>7
<1>5. CASE Reads(w, s)
  <2>1. /\ UNCHANGED <<sess, op, staged>> /\ \A v \in Workers \ {w} : wk'[v] = wk[v]
        /\ wk'[w].pc \in late => sess[s].status \in {"verifying", "completed"}
    BY <1>5 DEF Reads, WorkerMoves
  <2>2. (Uploaded(s) => Uploaded(s)') /\ (wk'[w].pc \in late => Uploaded(s)')
    BY <1>0, <2>1 DEF StagedOK, Uploaded
  <2>3. sess'[s].status = "verifying" => s \in staged'
    BY <1>0, <2>1 DEF StagedOK
  <2> QED
    BY <1>2, <2>1, <2>2, <2>3
<1>6. CASE Completes(w, s)
  <2>1. /\ UNCHANGED <<sess, op>> /\ (s \in staged => s \in staged') /\ \A v \in Workers \ {w} : wk'[v] = wk[v]
        /\ wk'[w].pc \in late => s \in staged'
    BY <1>6 DEF Completes, Onto, WorkerMoves
  <2>2. (Uploaded(s) => Uploaded(s)') /\ (wk'[w].pc \in late => Uploaded(s)')
    BY <2>1 DEF Uploaded
  <2>3. sess'[s].status = "verifying" => s \in staged'
    BY <1>0, <2>1 DEF StagedOK
  <2> QED
    BY <1>2, <2>1, <2>2, <2>3
<1>7. CASE Publishes(w, s)
  <2>1. /\ UNCHANGED <<op, staged>> /\ wk[w].op = c /\ wk[w].pc = "finish"
        /\ \A v \in Workers \ {w} : wk'[v] = wk[v]
        /\ wk'[w].pc \notin late
        /\ sess'[s].status = sess[s].status \/ (sess[s].status = "completing" /\ sess'[s].status = "verifying")
    BY <1>7 DEF Publishes, At, Onto, Idles, WorkerMoves, Moves
  <2>2. Uploaded(s)
    BY <1>0, <2>1 DEF StagedOK
  <2>3. Uploaded(s)' /\ (sess'[s].status = "verifying" => s \in staged')
    BY <2>1, <2>2 DEF Uploaded
  <2> QED
    BY <1>2, <2>1, <2>3
<1>8. CASE Drops(w, s) \/ Clears(w, s) \/ Sweeps(w, s)
  <2>1. /\ UNCHANGED op /\ (wk[w].op = <<s, "abort">> \/ wk[w].op = <<s, "staging">>)
        /\ \A v \in Workers \ {w} : wk'[v] = wk[v]
        /\ wk'[w].op = wk[w].op \/ wk'[w].op = NoOp
        /\ sess'[s].status = sess[s].status
        /\ UNCHANGED staged \/ wk[w].op = <<s, "staging">>
    BY <1>8 DEF Drops, Clears, Sweeps, At, Onto, Idles, WorkerMoves, Moves
  <2>2. wk'[w].op # c
    BY <1>3, <2>1 DEF Kinds
  <2>3. wk[w].op = <<s, "staging">> => sess[s].status \in {"completed", "failed"}
    BY <1>0, <1>1 DEF RowsOK, Kinds
  <2>4. (Uploaded(s) => Uploaded(s)') /\ (sess'[s].status = "verifying" => s \in staged')
    BY <1>0, <2>1, <2>3 DEF Uploaded, StagedOK
  <2> QED
    BY <1>2, <2>1, <2>2, <2>4
<1>9. CASE Marks(w, s, kind)
  <2>1. /\ UNCHANGED <<sess, staged>> /\ wk[w].pc \in {"mark", "skip"}
        /\ \A v \in Workers \ {w} : wk'[v] = wk[v]
        /\ wk'[w].op = wk[w].op \/ wk'[w].op = NoOp
        /\ <<s, kind>> # c => op'[c] = op[c]
    BY <1>3, <1>9 DEF Marks, Onto, Idles, WorkerMoves
  <2>2. wk[w].op = c => Uploaded(s)
    BY <1>0, <2>1 DEF StagedOK
  <2>3. (Uploaded(s) => Uploaded(s)') /\ (sess'[s].status = "verifying" => s \in staged')
    BY <1>0, <2>1 DEF Uploaded, StagedOK
  <2> QED
    BY <1>2, <1>3, <2>1, <2>2, <2>3
<1>10. CASE Records(w, s, kind)
  <2>1. /\ UNCHANGED <<sess, staged>>
        /\ \A v \in Workers \ {w} : wk'[v] = wk[v]
        /\ wk'[w].op = NoOp
        /\ op'[c] = op[c] \/ op'[c].state \in {"dead", "pending"}
    BY <1>3, <1>10 DEF Records, Onto, Idles, WorkerMoves, OpMoves
  <2>2. (Uploaded(s) => Uploaded(s)') /\ (sess'[s].status = "verifying" => s \in staged')
    BY <1>0, <2>1 DEF Uploaded, StagedOK
  <2> QED
    BY <1>2, <1>3, <2>1, <2>2
<1>11. CASE Fails(w)
  <2>1. /\ UNCHANGED <<sess, op, staged>>
        /\ \A v \in Workers \ {w} : wk'[v] = wk[v]
        /\ wk'[w].pc \notin late
    BY <1>11 DEF Fails, Onto, Idles, WorkerMoves
  <2>2. (Uploaded(s) => Uploaded(s)') /\ (sess'[s].status = "verifying" => s \in staged')
    BY <1>0, <2>1 DEF Uploaded, StagedOK
  <2> QED
    BY <1>2, <2>1, <2>2
<1> HIDE DEF late, c
<1>12. \/ Looks(w, s) \/ Lists(w, s) \/ Starts(w, s) \/ Persists(w, s) \/ Finishes(w, s)
       \/ Reads(w, s) \/ Completes(w, s) \/ Publishes(w, s)
       \/ Drops(w, s) \/ Clears(w, s) \/ Sweeps(w, s)
       \/ Marks(w, s, kind) \/ Records(w, s, kind) \/ Fails(w)
  BY ActingOn
<1> QED
  BY <1>4, <1>5, <1>6, <1>7, <1>8, <1>9, <1>10, <1>11, <1>12

\* A step of the one worker at the session's multipart.create.
LEMMA LeaseOfOne ==
  ASSUME NEW s \in Sessions, LeaseOK(s), NEW w \in Workers, wk[w].op = <<s, "create">>,
         \A v \in Workers \ {w} : wk'[v] = wk[v], CreatedOK(s)',
         wk'[w].op = <<s, "create">> => Owns(w)' /\ (sess'[s].status = "initializing" => CreatingOK(w, s)')
  PROVE  LeaseOK(s)'
<1>1. ASSUME NEW v \in Workers, wk'[v].op = <<s, "create">> PROVE v = w
  <2>1. CASE v # w
    <3>1. wk[v].op = <<s, "create">>
      BY <1>1, <2>1
    <3>2. Owns(v) /\ Owns(w)
      BY <3>1 DEF LeaseOK
    <3> QED
      BY <3>1, <3>2 DEF Owns
  <2> QED
    BY <2>1
<1> QED
  BY <1>1 DEF LeaseOK

\* A step of another worker, or of another operation.
LEMMA LeaseOfOthers ==
  ASSUME NEW s \in Sessions, LeaseOK(s), NEW w \in Workers, wk'[w].op # <<s, "create">>,
         \A v \in Workers \ {w} : wk'[v] = wk[v], CreatedOK(s)',
         op'[<<s, "create">>] = op[<<s, "create">>],
         sess'[s].status = "initializing" => sess[s].status = "initializing" /\ mp'[s] = mp[s]
  PROVE  LeaseOK(s)'
<1>1. ASSUME NEW v \in Workers, wk'[v].op = <<s, "create">>
      PROVE  Owns(v)' /\ (sess'[s].status = "initializing" => CreatingOK(v, s)')
  <2>1. wk'[v] = wk[v] /\ wk[v].op = <<s, "create">>
    BY <1>1
  <2>2. Owns(v) /\ (sess[s].status = "initializing" => CreatingOK(v, s))
    BY <2>1 DEF LeaseOK
  <2>3. Owns(v)'
    BY <2>1, <2>2 DEF Owns
  <2>4. sess'[s].status = "initializing" /\ CreatingOK(v, s) => CreatingOK(v, s)'
    BY <2>1 DEF CreatingOK, NewestOpen
  <2> QED
    BY <2>2, <2>3, <2>4
<1> QED
  BY <1>1 DEF LeaseOK

\* The create handler: it keeps the newest upload, starts one only when none is
\* open, and persists the id that it kept or started.
LEMMA CreateLease ==
  ASSUME TypeOK, NEW w \in Workers, NEW s \in Sessions, wk[w].op = <<s, "create">>, <<s, "create">> \in Ops,
         LeaseOK(s),
         Looks(w, s) \/ Lists(w, s) \/ Starts(w, s) \/ Persists(w, s) \/ Finishes(w, s)
  PROVE  LeaseOK(s)'
<1> DEFINE o == <<s, "create">>
           init == sess[s].status = "initializing"
<1>0. /\ Owns(w) /\ CreatedOK(s) /\ (init => CreatingOK(w, s))
      /\ op[o].state = "running" /\ op[o].owner = w
  BY DEF LeaseOK, Owns
<1>1. sess[s].status \notin Active \ {"initializing"}
  BY <1>0 DEF CreatedOK
<1>2. o # NoOp /\ o \in Ops
  BY NoOpAssumption
<1>3. CASE Looks(w, s)
  <2>1. /\ UNCHANGED <<sess, op, mp, staged>> /\ \A v \in Workers \ {w} : wk'[v] = wk[v]
        /\ wk'[w].op = o /\ wk'[w].id = wk[w].id /\ wk[w].pc = "begin"
        /\ wk'[w].pc \in {"skip", "list"} \/ (wk'[w].pc = "persist" /\ wk[w].id # 0)
    BY <1>3 DEF Looks, At, Onto, WorkerMoves
  <2>2. CreatedOK(s)'
    BY <1>0, <2>1 DEF CreatedOK, NewestOpen
  <2>3. Owns(w)'
    BY <1>0, <2>1 DEF Owns
  <2>4. init => CreatingOK(w, s)'
    BY <1>0, <2>1 DEF CreatingOK, CreatedOK, NewestOpen
  <2> QED
    BY <2>1, <2>2, <2>3, <2>4, LeaseOfOne
<1>4. CASE Lists(w, s) /\ mp[s] = {}
  <2>1. /\ UNCHANGED <<sess, op, mp, staged>> /\ \A v \in Workers \ {w} : wk'[v] = wk[v]
        /\ wk'[w].op = o /\ wk'[w].pc \in {"new", "skip"}
    BY <1>4 DEF Lists, Onto, WorkerMoves, NewestOpen
  <2>2. CreatedOK(s)'
    BY <1>0, <2>1 DEF CreatedOK, NewestOpen
  <2>3. Owns(w)'
    BY <1>0, <2>1 DEF Owns
  <2>4. init => CreatingOK(w, s)'
    BY <1>0, <1>4, <2>1 DEF CreatingOK, CreatedOK, NewestOpen
  <2> QED
    BY <2>1, <2>2, <2>3, <2>4, LeaseOfOne
<1>5. CASE Lists(w, s) /\ mp[s] # {}
  <2>1. /\ UNCHANGED <<sess, op, staged>>
        /\ \E i \in UploadIds : NewestOpen(s, i) /\ MpMoves(s, {i}) /\ WorkerMoves(w, "persist", wk[w].op, i)
    BY <1>5 DEF Lists
  <2>2. PICK i \in UploadIds : NewestOpen(s, i) /\ MpMoves(s, {i}) /\ WorkerMoves(w, "persist", wk[w].op, i)
    BY <2>1
  <2>3. /\ mp'[s] = {i} /\ \A v \in Workers \ {w} : wk'[v] = wk[v]
        /\ wk'[w].op = o /\ wk'[w].pc = "persist" /\ wk'[w].id = i
    BY <2>2 DEF MpMoves, WorkerMoves
  <2>4. \A j \in mp[s] : j \in Nat
    BY Fields DEF UploadIds
  <2>5. \A j : NewestOpen(s, j) => j = i
    <3>1. i \in Nat
      BY DEF UploadIds
    <3> QED
      BY <2>2, <2>4, <3>1 DEF NewestOpen
  <2>6. CreatedOK(s)'
    <3>1. NewestOpen(s, i)'
      BY <2>3 DEF NewestOpen, UploadIds
    <3>2. init /\ op[o].id # 0 => NewestOpen(s, op[o].id)
      BY <1>0 DEF CreatedOK
    <3>3. init /\ op[o].id # 0 => op[o].id = i
      BY <2>5, <3>2
    <3> QED
      BY <1>1, <2>1, <2>3, <3>1, <3>3 DEF CreatedOK, Active, NewestOpen
  <2>7. Owns(w)'
    BY <1>0, <2>1, <2>3 DEF Owns
  <2>8. CreatingOK(w, s)'
    BY <2>3 DEF CreatingOK, NewestOpen, UploadIds
  <2> QED
    BY <2>3, <2>6, <2>7, <2>8, LeaseOfOne
<1>6. CASE Starts(w, s)
  <2>1. /\ UNCHANGED <<sess, op, staged>> /\ mp'[s] = mp[s] \cup {made[s] + 1} /\ wk[w].pc = "new"
        /\ \A v \in Workers \ {w} : wk'[v] = wk[v]
        /\ wk'[w].op = o
        /\ wk'[w].pc = "err" \/ (wk'[w].pc = "persist" /\ wk'[w].id = made[s] + 1)
    BY <1>6 DEF Starts, At, MpMoves, Onto, WorkerMoves
  <2>2. init => mp'[s] = {made[s] + 1} /\ op[o].id = 0 /\ made[s] + 1 \in Nat
    BY <1>0, <2>1, Fields DEF CreatingOK, UploadIds
  <2>3. CreatedOK(s)'
    BY <1>1, <2>1, <2>2 DEF CreatedOK, Active
  <2>4. Owns(w)'
    BY <1>0, <2>1 DEF Owns
  <2>5. init => CreatingOK(w, s)'
    BY <2>1, <2>2 DEF CreatingOK, NewestOpen
  <2> QED
    BY <2>1, <2>3, <2>4, <2>5, LeaseOfOne
<1>7. CASE Persists(w, s)
  <2>1. /\ UNCHANGED <<sess, mp, staged>> /\ \A v \in Workers \ {w} : wk'[v] = wk[v]
        /\ wk'[w].op = o /\ wk'[w].pc \in {"finish", "err"} /\ wk'[w].id = wk[w].id /\ wk[w].pc = "persist"
    BY <1>7 DEF Persists, At, Onto, WorkerMoves
  <2>2. op'[o].state = "running" /\ op'[o].owner = w /\ (op'[o].id = op[o].id \/ op'[o].id = wk[w].id)
    BY <1>0, <1>7 DEF Persists, OpMoves
  <2>3. init => NewestOpen(s, wk[w].id)
    BY <1>0, <2>1 DEF CreatingOK
  <2>4. CreatedOK(s)'
    BY <1>0, <1>1, <2>1, <2>2, <2>3 DEF CreatedOK, NewestOpen, Active
  <2>5. Owns(w)'
    BY <2>1, <2>2 DEF Owns
  <2>6. init => CreatingOK(w, s)'
    BY <2>1, <2>3 DEF CreatingOK, NewestOpen
  <2> QED
    BY <2>1, <2>4, <2>5, <2>6, LeaseOfOne
<1>8. CASE Finishes(w, s)
  <2>1. CASE UNCHANGED <<sess, op>> /\ Onto(w, "err")
    <3>1. /\ UNCHANGED <<mp, staged>> /\ \A v \in Workers \ {w} : wk'[v] = wk[v]
          /\ wk'[w].op = o /\ wk'[w].pc = "err"
      BY <1>8, <2>1 DEF Finishes, Onto, WorkerMoves
    <3>2. CreatedOK(s)'
      BY <1>0, <2>1, <3>1 DEF CreatedOK, NewestOpen
    <3>3. Owns(w)'
      BY <1>0, <2>1, <3>1 DEF Owns
    <3>4. CreatingOK(w, s)'
      BY <3>1 DEF CreatingOK
    <3> QED
      BY <3>1, <3>2, <3>3, <3>4, LeaseOfOne
  <2>2. CASE Idles(w) /\ ~(UNCHANGED <<sess, op>> /\ Onto(w, "err"))
    <3>1. /\ UNCHANGED <<mp, staged>> /\ \A v \in Workers \ {w} : wk'[v] = wk[v] /\ wk[w].pc = "finish"
          /\ wk'[w].op = NoOp
      BY <1>8, <2>2 DEF Finishes, At, Idles, WorkerMoves
    <3>2. op'[o].state = "succeeded" /\ op'[o].id = op[o].id
      BY <1>8, <2>2 DEF Finishes, Recorded
    <3>3. \/ init /\ sess'[s].status = "created" /\ sess'[s].id = wk[w].id
          \/ ~init /\ sess'[s] = sess[s]
      BY <1>8, <2>2 DEF Finishes, Moves
    <3>4. wk[w].pc = "finish"
      BY <1>8 DEF Finishes, At
    <3>5. init => wk[w].id \in mp[s]
      BY <1>0, <3>4 DEF CreatingOK, NewestOpen
    <3>6. CreatedOK(s)'
      BY <1>0, <1>1, <3>1, <3>2, <3>3, <3>5 DEF CreatedOK, NewestOpen, Active
    <3> QED
      BY <1>2, <3>1, <3>6, LeaseOfOne
  <2> QED
    BY <1>8, <2>1, <2>2 DEF Finishes
<1> HIDE DEF o, init
<1> QED
  BY <1>3, <1>4, <1>5, <1>6, <1>7, <1>8

LEMMA OtherLease ==
  ASSUME TypeOK, NEW w \in Workers, NEW s \in Sessions, LeaseOK(s), RowsOK(s),
         NEW kind \in Kinds \ {"create"}, wk[w].op = <<s, kind>>, op[<<s, kind>>].state # "absent",
         \/ Reads(w, s) \/ Completes(w, s) \/ Publishes(w, s)
         \/ Drops(w, s) \/ Clears(w, s) \/ Sweeps(w, s)
         \/ Marks(w, s, kind) \/ Records(w, s, kind) \/ Fails(w)
  PROVE  LeaseOK(s)'
<1> DEFINE o == <<s, "create">>
<1>0. CreatedOK(s) /\ o \in Ops /\ o # NoOp /\ o # <<s, kind>>
  <2>1. o \in Ops
    BY Pairs DEF Kinds
  <2>2. o # NoOp
    BY <2>1, NoOpAssumption
  <2> QED
    BY <2>1, <2>2 DEF LeaseOK
<1>1. wk'[w].op # o /\ \A v \in Workers \ {w} : wk'[v] = wk[v]
  <2>1. (wk'[w].op = wk[w].op \/ wk'[w].op = NoOp) /\ \A v \in Workers \ {w} : wk'[v] = wk[v]
    BY DEF Reads, Completes, Publishes, Drops, Clears, Sweeps, Marks, Records, Fails, Onto, Idles, WorkerMoves
  <2> QED
    BY <1>0, <2>1
<1>2. op'[o] = op[o]
  BY <1>0 DEF Reads, Completes, Publishes, Drops, Clears, Sweeps, Marks, Records, Fails, OpMoves
<1>3. ASSUME CreatedOK(s)', sess'[s].status = "initializing" => sess[s].status = "initializing" /\ mp'[s] = mp[s]
      PROVE  LeaseOK(s)'
  BY <1>1, <1>2, <1>3, LeaseOfOthers
<1>4. CASE Reads(w, s) \/ Marks(w, s, kind) \/ Records(w, s, kind) \/ Fails(w)
  <2>1. UNCHANGED <<sess, mp, staged>>
    BY <1>4 DEF Reads, Marks, Records, Fails
  <2>2. CreatedOK(s)'
    BY <1>0, <1>2, <2>1 DEF CreatedOK, NewestOpen
  <2> QED
    BY <1>3, <2>1, <2>2
<1>5. CASE Completes(w, s)
  <2>1. wk[w].op = <<s, "complete">> /\ UNCHANGED sess /\ (s \in staged => s \in staged')
        /\ (mp'[s] = mp[s] \/ s \in staged')
    BY <1>5 DEF Completes, At, MpMoves
  <2>2. kind = "complete"
    BY <2>1
  <2>3. sess[s].status \in {"completing", "verifying", "completed", "failed"}
    BY <2>2 DEF RowsOK
  <2>4. CreatedOK(s)'
    BY <1>0, <1>2, <2>1, <2>3 DEF CreatedOK
  <2> QED
    BY <1>3, <2>1, <2>3, <2>4
<1>6. CASE Publishes(w, s)
  <2>1. /\ UNCHANGED <<mp, staged>>
        /\ \/ sess'[s] = sess[s]
           \/ sess[s].status = "completing" /\ sess'[s].status = "verifying"
    BY <1>6 DEF Publishes, Moves
  <2>2. CreatedOK(s)'
    BY <1>0, <1>2, <2>1 DEF CreatedOK, NewestOpen, Active
  <2> QED
    BY <1>3, <2>1, <2>2
<1>7. CASE Drops(w, s) \/ Clears(w, s) \/ Sweeps(w, s)
  <2>1. (wk[w].op = <<s, "abort">> \/ wk[w].op = <<s, "staging">>) /\ sess'[s].status = sess[s].status
    BY <1>7 DEF Drops, Clears, Sweeps, At, Moves
  <2>2. kind \in {"abort", "staging"}
    BY <2>1
  <2>3. sess[s].status \in Gone \cup {"completed"}
    BY <2>2 DEF RowsOK, Gone
  <2>4. CreatedOK(s)'
    BY <2>1, <2>3 DEF CreatedOK, Active, Gone
  <2> QED
    BY <1>3, <2>1, <2>3, <2>4 DEF Gone
<1> HIDE DEF o
<1> QED
  BY <1>4, <1>5, <1>6, <1>7

\* Outcomes of the create handler.
LEMMA OutcomeLease ==
  ASSUME TypeOK, NEW w \in Workers, NEW s \in Sessions, LeaseOK(s), wk[w].op = <<s, "create">>, <<s, "create">> \in Ops,
         Marks(w, s, "create") \/ Records(w, s, "create") \/ Fails(w)
  PROVE  LeaseOK(s)'
<1> DEFINE o == <<s, "create">>
<1>0. /\ Owns(w) /\ CreatedOK(s) /\ op[o].state = "running" /\ op[o].owner = w
  BY DEF LeaseOK, Owns
<1>1. sess[s].status \notin Active \ {"initializing"}
  BY <1>0 DEF CreatedOK
<1>2. o # NoOp
  BY NoOpAssumption
<1>3. UNCHANGED <<sess, mp, staged>> /\ \A v \in Workers \ {w} : wk'[v] = wk[v]
  BY DEF Marks, Records, Fails, Onto, Idles, WorkerMoves
<1>4. op'[o].id = op[o].id
  BY DEF Marks, Records, Fails, Recorded, OpMoves
<1>5. CreatedOK(s)'
  BY <1>0, <1>1, <1>3, <1>4 DEF CreatedOK, NewestOpen, Active
<1>6. wk'[w].op = NoOp \/ (wk'[w].pc = "err" /\ wk'[w].op = o /\ UNCHANGED op)
  BY DEF Marks, Records, Fails, Onto, Idles, WorkerMoves
<1>7. wk'[w].op = o => Owns(w)' /\ CreatingOK(w, s)'
  BY <1>0, <1>2, <1>6 DEF Owns, CreatingOK
<1> QED
  BY <1>3, <1>5, <1>7, LeaseOfOne

LEMMA WorkerLease ==
  ASSUME TypeOK, WorkersInv, NEW w \in Workers, HandlerEffect(w), NEW s \in Sessions, NEW kind \in Kinds,
         wk[w].op = <<s, kind>>, LeaseOK(s), RowsOK(s)
  PROVE  LeaseOK(s)'
<1>1. <<s, kind>> \in Ops /\ op[<<s, kind>>].state # "absent"
  BY WorkerRowExists
<1>2. \/ Looks(w, s) \/ Lists(w, s) \/ Starts(w, s) \/ Persists(w, s) \/ Finishes(w, s)
      \/ Reads(w, s) \/ Completes(w, s) \/ Publishes(w, s)
      \/ Drops(w, s) \/ Clears(w, s) \/ Sweeps(w, s)
      \/ Marks(w, s, kind) \/ Records(w, s, kind) \/ Fails(w)
  BY ActingOn
<1>3. /\ Looks(w, s) \/ Lists(w, s) \/ Starts(w, s) \/ Persists(w, s) \/ Finishes(w, s) => kind = "create"
      /\ \/ Reads(w, s) \/ Completes(w, s) \/ Publishes(w, s)
         \/ Drops(w, s) \/ Clears(w, s) \/ Sweeps(w, s)
         => kind # "create"
  BY DEF Looks, Lists, Starts, Persists, Finishes, Reads, Completes, Publishes, Drops, Clears, Sweeps, At
<1>4. CASE kind = "create"
  BY <1>1, <1>2, <1>3, <1>4, CreateLease, OutcomeLease
<1>5. CASE kind # "create"
  BY <1>1, <1>2, <1>3, <1>5, OtherLease
<1> QED
  BY <1>4, <1>5

-----------------------------------------------------------------------------
(* The ledger *)

LEMMA LedgerStaged ==
  ASSUME TypeOK, StagedInv, NEW o \in Ops, Stops(o) \/ \E w \in Workers : Claims(w, o)
  PROVE  StagedInv'
<1> SUFFICES ASSUME NEW s \in Sessions PROVE StagedOK(s)'
  BY DEF StagedInv
<1>1. UNCHANGED <<sess, staged>> /\ StagedOK(s) /\ <<s, "complete">> \in Ops
  BY Pairs DEF Stops, Claims, StagedInv, Kinds
<1>2. op'[<<s, "complete">>].state = "succeeded" => op[<<s, "complete">>].state = "succeeded"
  BY <1>1 DEF Stops, Claims, OpMoves
<1>3. \A v \in Workers : wk'[v] = wk[v] \/ wk'[v].pc \in {"begin", "call"}
  BY DEF Stops, Claims, WorkerMoves
<1> QED
  BY <1>1, <1>2, <1>3 DEF StagedOK, Uploaded

\* A row that is due has no worker, as long as no lease was outlived.
LEMMA DueIsIdle ==
  ASSUME NEW s \in Sessions, LeaseOK(s), Due(<<s, "create">>), NEW v \in Workers
  PROVE  wk[v].op # <<s, "create">>
<1>1. CASE wk[v].op = <<s, "create">>
  BY <1>1 DEF LeaseOK, Owns, Due
<1> QED
  BY <1>1

LEMMA LedgerLease ==
  ASSUME TypeOK, WorkersInv, LeaseInv, NEW o \in Ops,
         Stops(o) \/ \E w \in Workers : Claims(w, o), ~faults'.outlived
  PROVE  LeaseInv'
<1>1. PICK s \in Sessions, kind \in Kinds : o = <<s, kind>> /\ o[1] = s /\ o[2] = kind
  BY Pairs
<1>2. Apart(s) /\ LeaseOK(s) /\ CreatedOK(s)
  BY <1>1, LedgerApart DEF LeaseInv, LeaseOK
<1>3. UNCHANGED <<sess, mp, staged>>
  BY DEF Stops, Claims
<1> DEFINE c == <<s, "create">>
<1>4. c \in Ops /\ (kind # "create" => c # o)
  BY <1>1, Pairs DEF Kinds
<1>5. CreatedOK(s)'
  <2>1. op'[c] = op[c] \/ (op[c].state # "succeeded" /\ op'[c].id = op[c].id)
    BY <1>4 DEF Stops, Claims, OpMoves
  <2> QED
    BY <1>2, <1>3, <2>1 DEF CreatedOK, NewestOpen
<1>6. CASE kind # "create"
  <2>1. op'[c] = op[c]
    BY <1>4, <1>6 DEF Stops, Claims, OpMoves
  <2>2. \A v \in Workers : wk'[v] = wk[v] \/ wk'[v].op = o
    BY DEF Stops, Claims, WorkerMoves
  <2>3. ASSUME NEW v \in Workers, wk'[v].op = c
        PROVE  Owns(v)' /\ (sess'[s].status = "initializing" => CreatingOK(v, s)')
    <3>1. wk'[v] = wk[v] /\ wk[v].op = c
      BY <1>4, <1>6, <2>2, <2>3
    <3>2. Owns(v) /\ (sess[s].status = "initializing" => CreatingOK(v, s))
      BY <1>2, <3>1 DEF LeaseOK
    <3>3. Owns(v)'
      BY <2>1, <3>1, <3>2 DEF Owns
    <3>4. CreatingOK(v, s) => CreatingOK(v, s)'
      BY <1>3, <2>1, <3>1 DEF CreatingOK, NewestOpen
    <3> QED
      BY <1>3, <3>2, <3>3, <3>4
  <2>4. LeaseOK(s)'
    BY <1>5, <2>3 DEF LeaseOK
  <2> QED
    BY <1>2, <2>4, ApartKeeps DEF LeaseInv
<1>7. CASE kind = "create"
  <2>1. o = c
    BY <1>1, <1>7
  <2>2. CASE UNCHANGED op /\ UNCHANGED wk
    <3>1. \A v \in Workers : Owns(v) => Owns(v)'
      BY <2>2 DEF Owns
    <3>2. \A v \in Workers : CreatingOK(v, s) => CreatingOK(v, s)'
      BY <1>3, <2>2 DEF CreatingOK, NewestOpen
    <3>3. LeaseOK(s)'
      BY <1>2, <1>3, <1>5, <2>2, <3>1, <3>2 DEF LeaseOK
    <3> QED
      BY <1>2, <3>3, ApartKeeps DEF LeaseInv
  <2>3. CASE Due(o)
    <3>1. \A v \in Workers : wk[v].op # c
      BY <1>2, <2>1, <2>3, DueIsIdle
    <3>2. CASE Stops(o)
      <4>1. LeaseOK(s)'
        BY <1>5, <3>1, <3>2 DEF Stops, LeaseOK
      <4> QED
        BY <1>2, <4>1, ApartKeeps DEF LeaseInv
    <3>3. ASSUME NEW w \in Workers, Claims(w, o) PROVE LeaseInv'
      <4>1. /\ op'[c].state = "running" /\ op'[c].owner = w /\ op'[c].id = op[c].id
            /\ \A v \in Workers \ {w} : wk'[v] = wk[v]
            /\ wk'[w].op = c /\ wk'[w].pc = "begin" /\ (wk'[w].id = op[c].id \/ wk'[w].id = 0)
        BY <1>1, <1>7, <2>1, <3>3 DEF Claims, OpMoves, WorkerMoves
      <4>2. Owns(w)'
        BY <4>1 DEF Owns
      <4>3. CreatingOK(w, s)'
        BY <4>1 DEF CreatingOK
      <4>4. LeaseOK(s)'
        BY <1>5, <3>1, <4>1, <4>2, <4>3 DEF LeaseOK
      <4> QED
        BY <1>2, <4>4, ApartKeeps DEF LeaseInv
    <3> QED
      BY <3>2, <3>3
  <2> QED
    BY <2>2, <2>3 DEF Stops, Claims
<1> QED
  BY <1>6, <1>7

-----------------------------------------------------------------------------
(* The sums of the run *)

PickOf(S) == CHOOSE x \in S : TRUE
Only(f, S) == [s \in Sessions |-> IF s \in S THEN f[s] ELSE 0]
Amount(f, S) == Cardinality(Units(Only(f, S)))

\* The units of a set of sessions, one session taken out.
LEMMA AmountOf ==
  ASSUME NEW f \in [Sessions -> Nat], IsFiniteSet(Units(f)), NEW S \in SUBSET Sessions
  PROVE  /\ S = {} => Amount(f, S) = 0
         /\ S # {} => /\ PickOf(S) \in S
                      /\ Amount(f, S) = f[PickOf(S)] + Amount(f, S \ {PickOf(S)})
<1>1. Only(f, S) \in [Sessions -> Nat] /\ \A s \in Sessions : Only(f, S)[s] = IF s \in S THEN f[s] ELSE 0
  BY DEF Only
<1>2. IsFiniteSet(Units(Only(f, S)))
  <2>1. Units(Only(f, S)) \in SUBSET Units(f)
    <3>1. ASSUME NEW u \in Units(Only(f, S)) PROVE u \in Units(f)
      <4>1. u \in Sessions \X Nat /\ u[1] \in Sessions /\ u[2] \in 1 .. Only(f, S)[u[1]]
        BY DEF Units
      <4>2. u[2] \in 1 .. f[u[1]]
        BY <1>1, <4>1
      <4> QED BY <4>1, <4>2 DEF Units
    <3> QED BY <3>1
  <2> QED BY <2>1, FS_Subset
<1>3. CASE S = {}
  <2>1. \A s \in Sessions : Only(f, S)[s] = 0
    BY <1>1, <1>3
  <2>2. Units(Only(f, S)) = {}
    BY <2>1 DEF Units
  <2> QED BY <1>3, <2>2, FS_EmptySet DEF Amount
<1>4. CASE S # {}
  <2> DEFINE s == PickOf(S)
             rest == Only(f, S \ {s})
  <2>1. s \in S
    BY <1>4 DEF PickOf
  <2>2. rest \in [Sessions -> Nat] /\ rest[s] = 0 /\ \A t \in Sessions \ {s} : Only(f, S)[t] = rest[t]
    BY <2>1, <1>1 DEF Only
  <2>3. Only(f, S)[s] = f[s]
    BY <1>1, <2>1
  <2> HIDE DEF s, rest
  <2>4. Cardinality(Units(rest)) \in Nat /\ Cardinality(Units(Only(f, S))) = Cardinality(Units(rest)) + f[s]
    BY <1>1, <1>2, <2>1, <2>2, <2>3, UnitsCount
  <2>5. f[s] \in Nat
    BY <2>1
  <2> QED BY <1>4, <2>1, <2>4, <2>5 DEF Amount, s, rest
<1> QED BY <1>3, <1>4

\* How MapThenSumSet adds up f: Sums is what its recursion must satisfy.
Sums(f, S, h) == h = [r \in SUBSET S |-> IF r = {} THEN 0 ELSE f[PickOf(r)] + h[r \ {PickOf(r)}]]

LEMMA AmountSums ==
  ASSUME NEW f \in [Sessions -> Nat], IsFiniteSet(Units(f)), NEW S \in SUBSET Sessions
  PROVE  Sums(f, S, [r \in SUBSET S |-> Amount(f, r)])
<1> DEFINE h == [r \in SUBSET S |-> Amount(f, r)]
<1>1. ASSUME NEW r \in SUBSET S PROVE h[r] = IF r = {} THEN 0 ELSE f[PickOf(r)] + h[r \ {PickOf(r)}]
  <2>1. h[r] = Amount(f, r) /\ h[r \ {PickOf(r)}] = Amount(f, r \ {PickOf(r)})
    OBVIOUS
  <2> QED BY <2>1, AmountOf
<1> QED BY <1>1 DEF Sums

\* There is one such function: of two that differ, take a smallest set they
\* differ on.
LEMMA SumsIsAmount ==
  ASSUME NEW f \in [Sessions -> Nat], IsFiniteSet(Units(f)), NEW S \in SUBSET Sessions, IsFiniteSet(S),
         NEW h, Sums(f, S, h)
  PROVE  h[S] = Amount(f, S)
<1> DEFINE Differ == {r \in SUBSET S : h[r] # Amount(f, r)}
           sizes == {Cardinality(r) : r \in Differ}
<1> SUFFICES ASSUME Differ # {} PROVE FALSE
  OBVIOUS
<1>1. \A r \in SUBSET S : IsFiniteSet(r) /\ Cardinality(r) \in Nat
  BY FS_Subset, FS_CardinalityType
<1>2. sizes \in SUBSET Nat /\ sizes # {}
  BY <1>1
<1>3. PICK m \in sizes : \A k \in sizes : ~(<<k, m>> \in OpToRel(<, Nat))
  <2> HIDE DEF sizes
  <2> QED BY <1>2, NatLessThanWellFounded, WFMin
<1>4. PICK r \in Differ : m = Cardinality(r)
  BY <1>3
<1>5. h[r] = IF r = {} THEN 0 ELSE f[PickOf(r)] + h[r \ {PickOf(r)}]
  BY <1>4 DEF Sums
<1>6. r # {}
  BY <1>4, <1>5, AmountOf
<1>7. PickOf(r) \in r /\ Amount(f, r) = f[PickOf(r)] + Amount(f, r \ {PickOf(r)})
  BY <1>4, <1>6, AmountOf
<1>8. r \ {PickOf(r)} \in Differ
  <2>1. h[r \ {PickOf(r)}] # Amount(f, r \ {PickOf(r)})
    BY <1>4, <1>5, <1>6, <1>7
  <2> QED BY <1>4, <2>1
<1>9. Cardinality(r \ {PickOf(r)}) = Cardinality(r) - 1 /\ Cardinality(r) \in Nat /\ Cardinality(r \ {PickOf(r)}) \in Nat
  <2>1. IsFiniteSet(r) /\ r \ {PickOf(r)} \in SUBSET S
    BY <1>1, <1>4
  <2> QED BY <1>1, <1>7, <2>1, FS_RemoveElement
<1>10. Cardinality(r \ {PickOf(r)}) \in sizes
  BY <1>8
<1> HIDE DEF sizes, Differ
<1>11. ~(Cardinality(r \ {PickOf(r)}) < m)
  BY <1>2, <1>3, <1>10 DEF OpToRel
<1> QED BY <1>4, <1>9, <1>11

\* The counters are the sums of the run, if there are finitely many sessions.
LEMMA CountersAddUp ==
  ASSUME IInv, IsFiniteSet(Sessions)
  PROVE  QuotaExact
<1>1. CountersExact /\ TypeOK
  BY DEF IInv, SafetyInv
<1>2. Held \in [Sessions -> Nat] /\ sess \in [Sessions -> SessionRow]
  BY <1>1, Typed DEF Held, SessionRow
<1>3. entry \in SUBSET Sessions /\ Size \in [Sessions -> Nat] /\ Stored \in [Sessions -> Nat]
  BY <1>1, Typed, UploadConstants DEF Stored
<1>4. user.reserved = MapThenSumSet(LAMBDA s : sess[s].reserved, Sessions)
  <2> DEFINE P(h) == h = [r \in SUBSET Sessions |->
                           IF r = {} THEN 0 ELSE sess[PickOf(r)].reserved + h[r \ {PickOf(r)}]]
  <2>1. ASSUME NEW h PROVE P(h) <=> Sums(Held, Sessions, h)
    <3>1. ASSUME NEW r \in SUBSET Sessions, r # {} PROVE sess[PickOf(r)].reserved = Held[PickOf(r)]
      <4>1. PickOf(r) \in Sessions
        BY <3>1 DEF PickOf
      <4> QED BY <4>1 DEF Held
    <3>2. [r \in SUBSET Sessions |-> IF r = {} THEN 0 ELSE sess[PickOf(r)].reserved + h[r \ {PickOf(r)}]]
          = [r \in SUBSET Sessions |-> IF r = {} THEN 0 ELSE Held[PickOf(r)] + h[r \ {PickOf(r)}]]
      BY <3>1
    <3> QED BY <3>2 DEF Sums
  <2>2. MapThenSumSet(LAMBDA s : sess[s].reserved, Sessions) = (CHOOSE h : P(h))[Sessions]
    BY DEF MapThenSumSet, MapThenFoldSet, PickOf
  <2>3. \E h : P(h)
    BY <1>1, <1>2, <2>1, AmountSums DEF CountersExact, Reservations
  <2> HIDE DEF P
  <2>4. P(CHOOSE h : P(h))
    BY <2>3
  <2>5. (CHOOSE h : P(h))[Sessions] = Amount(Held, Sessions)
    BY <1>1, <1>2, <2>1, <2>4, SumsIsAmount DEF CountersExact, Reservations
  <2>6. Only(Held, Sessions) = Held
    BY <1>2 DEF Only
  <2> QED BY <1>1, <2>2, <2>5, <2>6 DEF Amount, CountersExact, Reservations
<1>5. user.used = MapThenSumSet(LAMBDA s : Size[s], entry)
  <2> DEFINE P(h) == h = [r \in SUBSET entry |->
                           IF r = {} THEN 0 ELSE Size[PickOf(r)] + h[r \ {PickOf(r)}]]
  <2>1. ASSUME NEW h PROVE P(h) <=> Sums(Stored, entry, h)
    <3>1. ASSUME NEW r \in SUBSET entry, r # {} PROVE Size[PickOf(r)] = Stored[PickOf(r)]
      <4>1. PickOf(r) \in entry
        BY <3>1 DEF PickOf
      <4> QED BY <1>3, <4>1 DEF Stored
    <3>2. [r \in SUBSET entry |-> IF r = {} THEN 0 ELSE Size[PickOf(r)] + h[r \ {PickOf(r)}]]
          = [r \in SUBSET entry |-> IF r = {} THEN 0 ELSE Stored[PickOf(r)] + h[r \ {PickOf(r)}]]
      BY <3>1
    <3> QED BY <3>2 DEF Sums
  <2>2. MapThenSumSet(LAMBDA s : Size[s], entry) = (CHOOSE h : P(h))[entry]
    BY DEF MapThenSumSet, MapThenFoldSet, PickOf
  <2>3. \E h : P(h)
    BY <1>1, <1>3, <2>1, AmountSums DEF CountersExact, Files
  <2> HIDE DEF P
  <2>4. P(CHOOSE h : P(h))
    BY <2>3
  <2>5. IsFiniteSet(entry)
    BY <1>3, FS_Subset
  <2>6. (CHOOSE h : P(h))[entry] = Amount(Stored, entry)
    BY <1>1, <1>3, <2>1, <2>4, <2>5, SumsIsAmount DEF CountersExact, Files
  <2>7. Only(Stored, entry) = Stored
    BY <1>3 DEF Only, Stored
  <2> QED BY <1>1, <2>2, <2>6, <2>7 DEF Amount, CountersExact, Files
<1> QED BY <1>4, <1>5 DEF QuotaExact

-----------------------------------------------------------------------------
(* The theorems *)

LEMMA InitHolds ==
  ASSUME Init
  PROVE  IInv
<1>1. TypeOK
  BY UploadConstants, NoOpAssumption DEF Init, TypeOK, NoOpRow, IdleWorker, Status, Steps, UploadIds
<1>2. /\ \A s \in Sessions : sess[s].status = "none" /\ sess[s].reserved = 0 /\ mp[s] = {}
      /\ \A o \in Ops : op[o].state = "absent"
      /\ \A w \in Workers : wk[w].pc = "idle" /\ wk[w].op = NoOp
      /\ entry = {} /\ user.used = 0 /\ user.reserved = 0
  BY DEF Init, NoOpRow, IdleWorker
<1>3. ASSUME NEW s \in Sessions, NEW kind \in Kinds
      PROVE  op[<<s, kind>>].state = "absent" /\ NoOp # <<s, kind>>
  <2>1. <<s, kind>> \in Ops
    BY Pairs
  <2> QED
    BY <1>2, <2>1, NoOpAssumption
<1>4. WorkersInv /\ SessionsInv /\ OpenInv /\ OneFilePerNameAndContent
  BY <1>2 DEF WorkersInv, WorkerOK, SessionsInv, OpenInv, OneFilePerNameAndContent, Active
<1>5. CountersExact /\ QuotaHolds
  <2>1. Held = [s \in Sessions |-> 0] /\ Stored = [s \in Sessions |-> 0]
    BY <1>2 DEF Held, Stored
  <2>2. Units([s \in Sessions |-> 0]) = {}
    BY DEF Units
  <2>3. Reservations = {} /\ Files = {}
    BY <2>1, <2>2 DEF Reservations, Files
  <2> QED
    BY <1>2, <2>3, FS_EmptySet, UploadConstants DEF CountersExact, QuotaHolds
<1>6. RowsInv
  BY <1>2, <1>3 DEF RowsInv, RowsOK, Kinds
<1>7. StagedInv
  BY <1>2, <1>3 DEF StagedInv, StagedOK, Kinds
<1>8. LeaseInv
  <2>1. ASSUME NEW s \in Sessions PROVE CreatedOK(s)
    BY <1>2 DEF CreatedOK, Active
  <2> QED
    BY <1>2, <1>3, <2>1 DEF LeaseInv, LeaseOK, Kinds
<1> QED
  BY <1>1, <1>4, <1>5, <1>6, <1>7, <1>8 DEF IInv, SafetyInv

LEMMA SessionSafe ==
  ASSUME IInv, NEW s \in Sessions, SessionStep(s)
  PROVE  IInv' /\ Forward
<1>1. /\ TypeOK /\ WorkersInv /\ RowsInv /\ OpenInv /\ StagedInv /\ Accounts
      /\ faults.outlived \/ LeaseInv
  BY DEF IInv, SafetyInv, Accounts
<1>2. /\ TypeOK' /\ UNCHANGED <<wk, mp, made, staged, faults>>
      /\ Opened(s) \/ Advanced(s) \/ Closed(s) \/ Committed(s) \/ Deleted(s) \/ Stays
  BY <1>1, SessionEffect
<1>3. Forward
  BY <1>1, <1>2, SessionForward
<1>4. RowsInv' /\ StagedInv' /\ (LeaseInv => LeaseInv')
  BY <1>1, <1>2, <1>3, SessionKeeps
<1>5. Accounts'
  <2>1. Advanced(s) \/ Stays => Carried
    BY DEF Advanced, Stays, Carried, Moves, Active
  <2> QED
    BY <1>1, <1>2, <2>1, AccountsOpened, AccountsCarried, AccountsClosed, AccountsCommitted, AccountsDeleted
<1>6. WorkersInv' /\ OpenInv'
  BY <1>1, <1>2, <1>3, WorkersKept DEF OpenInv
<1> QED
  BY <1>1, <1>2, <1>3, <1>4, <1>5, <1>6 DEF IInv, SafetyInv, Accounts

LEMMA WorkerSafe ==
  ASSUME IInv, NEW w \in Workers, HandlerStep(w) \/ StepFails(w) \/ Crash(w)
  PROVE  IInv' /\ Forward
<1>1. /\ TypeOK /\ WorkersInv /\ RowsInv /\ OpenInv /\ StagedInv /\ Accounts
      /\ faults.outlived \/ LeaseInv
  BY DEF IInv, SafetyInv, Accounts
<1>2. TypeOK' /\ UNCHANGED <<user, entry>> /\ faults'.outlived = faults.outlived /\ HandlerEffect(w)
  BY <1>1, WorkerEffect DEF Handled
<1>3. Forward /\ Handoff
  BY <1>1, <1>2, WorkerForward
<1>4. RowsInv' /\ Accounts'
  BY <1>1, <1>2, <1>3, RowsHandedOff, CarriedOff, AccountsCarried
<1>5. WorkersInv' /\ OpenInv'
  BY <1>1, <1>2, <1>3, WorkerSteady, WorkersKept, WorkerOpen
<1>6. PICK s \in Sessions, kind \in Kinds : Apart(s) /\ wk[w].op = <<s, kind>>
  BY <1>1, <1>2, WorkerApart
<1>7. StagedOK(s)' /\ (LeaseOK(s) => LeaseOK(s)')
  BY <1>1, <1>2, <1>3, <1>6, WorkerStaged, WorkerLease DEF RowsInv
<1>8. \A t \in Sessions \ {s} : (StagedOK(t) => StagedOK(t)') /\ (LeaseOK(t) => LeaseOK(t)')
  BY <1>6, ApartKeeps
<1>9. StagedInv' /\ (LeaseInv => LeaseInv')
  BY <1>1, <1>7, <1>8 DEF StagedInv, LeaseInv
<1> QED
  BY <1>1, <1>2, <1>3, <1>4, <1>5, <1>9 DEF IInv, SafetyInv, Accounts

LEMMA LedgerSafe ==
  ASSUME IInv, NEW o \in Ops,
         \/ StopExhausted(o) \/ RecoveryStops(o)
         \/ \E w \in Workers : Claim(w, o)
  PROVE  IInv' /\ Forward
<1>1. /\ TypeOK /\ WorkersInv /\ RowsInv /\ OpenInv /\ StagedInv /\ Accounts
      /\ faults.outlived \/ LeaseInv
  BY DEF IInv, SafetyInv, Accounts
<1>2. /\ TypeOK' /\ UNCHANGED <<user, entry>> /\ (faults.outlived => faults'.outlived)
      /\ Stops(o) \/ \E w \in Workers : Claims(w, o)
  BY <1>1, StopEffect, ClaimEffect DEF Claims
<1>3. Forward /\ Handoff
  BY <1>1, <1>2, LedgerForward
<1>4. RowsInv' /\ Accounts'
  BY <1>1, <1>2, <1>3, RowsHandedOff, CarriedOff, AccountsCarried
<1>5. WorkersInv'
  <2>1. UNCHANGED wk \/ \E w \in Workers : Steady(w)
    BY <1>1, <1>2, ClaimSteady DEF Stops
  <2> QED
    BY <1>1, <1>3, <2>1, WorkersKept
<1>6. OpenInv'
  <2>1. UNCHANGED <<mp, made>>
    BY <1>2 DEF Stops, Claims
  <2> QED
    BY <1>1, <2>1 DEF OpenInv
<1>7. StagedInv'
  BY <1>1, <1>2, LedgerStaged
<1>8. faults'.outlived \/ LeaseInv'
  BY <1>1, <1>2, LedgerLease
<1> QED
  BY <1>2, <1>3, <1>4, <1>5, <1>6, <1>7, <1>8 DEF IInv, SafetyInv, Accounts

LEMMA StepSafe ==
  ASSUME IInv, [Next]_vars
  PROVE  IInv' /\ Forward
<1>1. CASE UNCHANGED vars
  <2>1. TypeOK' <=> TypeOK
    BY <1>1 DEF vars, TypeOK
  <2>2. (WorkersInv' <=> WorkersInv) /\ (SessionsInv' <=> SessionsInv) /\ (OpenInv' <=> OpenInv)
    BY <1>1 DEF vars, WorkersInv, WorkerOK, SessionsInv, OpenInv
  <2>3. Held' = Held /\ Stored' = Stored /\ user' = user
    BY <1>1 DEF vars, Held, Stored
  <2>4. CountersExact' <=> CountersExact
    BY <2>3 DEF CountersExact, Reservations, Files, Units
  <2>5. (QuotaHolds' <=> QuotaHolds) /\ (OneFilePerNameAndContent' <=> OneFilePerNameAndContent)
    BY <1>1 DEF vars, QuotaHolds, OneFilePerNameAndContent
  <2>6. (RowsInv' <=> RowsInv) /\ (StagedInv' <=> StagedInv)
    BY <1>1 DEF vars, RowsInv, RowsOK, StagedInv, StagedOK, Uploaded
  <2>7. LeaseInv' <=> LeaseInv
    BY <1>1 DEF vars, LeaseInv, LeaseOK, CreatedOK, CreatingOK, NewestOpen, Owns
  <2>8. faults' = faults
    BY <1>1 DEF vars
  <2>9. IInv'
    BY <2>1, <2>2, <2>4, <2>5, <2>6, <2>7, <2>8 DEF IInv, SafetyInv
  <2>10. Forward
    BY <1>1 DEF vars, Forward
  <2> QED
    BY <2>9, <2>10
<1>2. CASE Next
  BY <1>2, SessionSafe, WorkerSafe, LedgerSafe DEF Next
<1> QED
  BY <1>1, <1>2

LEMMA Invariance == Spec => []IInv
<1>1. Init => IInv
  BY InitHolds
<1>2. IInv /\ [Next]_vars => IInv'
  BY StepSafe
<1> QED
  BY <1>1, <1>2, PTL DEF Spec

\* Every value a session, an operation row or a worker takes is one the code
\* knows: the states of the three tables are closed under the handlers.
THEOREM TypeCorrect == Spec => []TypeOK
<1>1. IInv => TypeOK
  BY DEF IInv, SafetyInv
<1> QED
  BY <1>1, Invariance, PTL

\* Used and reserved bytes never exceed the quota, for any number of sessions of
\* any sizes: reserveQuota checks the sum, and every later step of a session moves
\* its own reservation or returns it.
THEOREM QuotaTheorem == Spec => []QuotaHolds
<1>1. IInv => QuotaHolds
  BY DEF IInv, SafetyInv
<1> QED
  BY <1>1, Invariance, PTL

\* The two counters of the user's row count exactly the bytes that active sessions
\* have reserved and the bytes of the live files, so that GREATEST(x - n, 0) of
\* releaseQuota, commitQuota and the deletion never cuts anything off.
THEOREM CountersTheorem == Spec => []CountersExact
<1>1. IInv => CountersExact
  BY DEF IInv, SafetyInv
<1> QED
  BY <1>1, Invariance, PTL

\* The same as sums, as the run has them: for any finite number of sessions, whatever
\* order they are committed, aborted, expired, retired and files deleted in.
THEOREM QuotaExactTheorem ==
  ASSUME IsFiniteSet(Sessions)
  PROVE  Spec => []QuotaExact
<1>1. IInv => QuotaExact
  BY CountersAddUp
<1> QED
  BY <1>1, Invariance, PTL

\* No two live files of the user share a name or a content, however many sessions
\* race: Verify checks both again in the transaction that publishes.
THEOREM OneFileTheorem == Spec => []OneFilePerNameAndContent
<1>1. IInv => OneFilePerNameAndContent
  BY DEF IInv, SafetyInv
<1> QED
  BY <1>1, Invariance, PTL

\* What a session counts on is at the provider: the staging object when it is
\* verified, and, unless a lease was outlived, the upload whose id the client has.
THEOREM BytesTheorem == Spec => []BytesPresent
<1>1. IInv => BytesPresent
  BY DEF IInv, SafetyInv, BytesPresent, StagedInv, StagedOK, LeaseInv, LeaseOK, CreatedOK
<1> QED
  BY <1>1, Invariance, PTL

\* No step of the user, of a worker or of the cleanup revives a session that has
\* ended.
THEOREM EndedTheorem == Spec => EndedStaysEnded
<1> DEFINE ended == \A s \in Sessions :
             /\ sess[s].status \in {"completed", "failed", "aborted"} => sess'[s].status = sess[s].status
             /\ sess[s].status = "expired" => sess'[s].status \in {"expired", "aborted"}
<1>1. IInv /\ [Next]_vars => [ended]_vars
  BY StepSafe DEF Forward
<1> QED
  BY <1>1, Invariance, PTL DEF Spec, EndedStaysEnded

=============================================================================
