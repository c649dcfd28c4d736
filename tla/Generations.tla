---------------------------- MODULE Generations ----------------------------
(***************************************************************************)
(* The control plane of the search index: operators build a generation     *)
(* with a backfill, activate it, or roll back to an earlier one            *)
(* (cmd/search-backfill, search/backfill.go, search/index.go).             *)
(*                                                                         *)
(* A generation has a row for each backend and projection type.  Members 1 *)
(* and 2 are content and files in the external index, 3 and 4 content and  *)
(* files in PostgreSQL, in the order in which a transaction visits them.   *)
(* Activation and rollback are READ COMMITTED transactions of several      *)
(* statements per member: others see what they wrote when they commit, and *)
(* a statement that meets a row written by another one waits and then      *)
(* looks again.  All backfills of a generation have the same backends.     *)
(***************************************************************************)
EXTENDS Naturals, Sequences, FiniteSets, SequencesExt

CONSTANTS Operators,    \* commands under way
          Generation,   \* generation -> members in order; 1 is active at the start
          Built,        \* generations whose backfill is finished at the start
          Pages,        \* pages of each scan
          MaxCommands,  \* bound: commands given
          MaxFaults     \* bound: failed scans and interrupted commands

VARIABLES version,  \* search_index_versions
          cursor,   \* snapshot_cursor of the PostgreSQL rows
          written,  \* the pages that are in a generation's indexes
          operator,
          given,    \* how many commands were given and how many faults there were
          faults

vars == <<version, cursor, written, operator, given, faults>>

Targets == DOMAIN Generation
Canonical == {3, 4}
MembersOf(t) == Range(Generation[t])

\* versions.all: the files' rows first, PostgreSQL before the external index.
AllVersions(t) == SelectSeq(<<4, 2, 3, 1>>, LAMBDA m : m \in MembersOf(t))

Absent == [state |-> "absent", sum |-> "none", error |-> FALSE]
Resting == [at |-> "idle", goal |-> "none", target |-> 1, todo |-> <<>>, passed |-> {},
            pos |-> [m \in Canonical |-> 0], seen |-> {}, locked |-> {}, wrote |-> {}]

Init ==
  /\ version = [t \in Targets |-> [m \in 1..4 |->
       IF t = 1 /\ m \in MembersOf(1) THEN [state |-> "active", sum |-> "final", error |-> FALSE]
       ELSE IF t \in Built /\ m \in MembersOf(t) THEN [state |-> "building", sum |-> "final", error |-> FALSE]
       ELSE Absent]]
  /\ cursor = [t \in Targets |-> [m \in Canonical |-> IF t \in Built \cup {1} THEN Pages ELSE 0]]
  /\ written = [t \in Targets |-> IF t \in Built \cup {1} THEN Canonical \X (1..Pages) ELSE {}]
  /\ operator = [o \in Operators |-> Resting] /\ given = 0 /\ faults = 0

Goal(o) == operator[o].target
Member(o) == Head(operator[o].todo)
At(o, place) == operator[o].at = place
Unlocked(o, t, m) == \A p \in Operators \ {o} : <<t, m>> \notin operator[p].locked
Step(o, record) == operator' = [operator EXCEPT ![o] = record]
Rows(o) == version[Goal(o)]
Command(o) == At(o, "idle") /\ given < MaxCommands /\ given' = given + 1 /\ UNCHANGED faults
Fault == faults < MaxFaults /\ faults' = faults + 1 /\ UNCHANGED given

-----------------------------------------------------------------------------
(* Backfill *)

\* The rows of the generation are created together, or found.
EnsureBackfillVersions(t) == [m \in 1..4 |->
  IF version[t][3].state = "absent" /\ m \in MembersOf(t) THEN [Absent EXCEPT !.state = "building"]
  ELSE version[t][m]]

\* A run goes on from the cursors of the one before.
StartBackfill(o, t) ==
  /\ Command(o)
  /\ \A m \in Canonical : EnsureBackfillVersions(t)[m].state = "building"
  /\ version' = [version EXCEPT ![t] = EnsureBackfillVersions(t)]
  /\ Step(o, [Resting EXCEPT !.at = "scan", !.goal = "backfill", !.target = t, !.pos = cursor[t]])
  /\ UNCHANGED <<cursor, written>>

\* The files first, then the content.
Scanning(o) == IF operator[o].pos[4] < Pages THEN 4 ELSE 3

\* Snapshot, SnapshotContent: a page is projected and published.
ScanPage(o) ==
  /\ At(o, "scan") /\ \E m \in Canonical : operator[o].pos[m] < Pages
  /\ LET m == Scanning(o)
         page == operator[o].pos[m] + 1
     IN /\ written' = [written EXCEPT ![Goal(o)] = @ \cup {<<m, page>>}]
        /\ Step(o, [operator[o] EXCEPT !.at = "persist", !.pos[m] = page, !.todo = <<m>>])
  /\ UNCHANGED <<version, cursor, given, faults>>

\* UpdateVersionProgress and UpdateVersionCursor, of a row that is building.
Progress(o, m, sum) ==
  /\ version' = [version EXCEPT ![Goal(o)][m] = [state |-> "building", sum |-> sum, error |-> FALSE]]
  /\ cursor' = IF m \in Canonical THEN [cursor EXCEPT ![Goal(o)][m] = operator[o].pos[m]] ELSE cursor

\* The scan has failed, perhaps with a permanent error, or its row is not building
\* any more.
GiveUp(o, permanent) ==
  /\ Step(o, [operator[o] EXCEPT !.at = "fail", !.todo = AllVersions(Goal(o)),
                                 !.goal = IF permanent THEN "permanent" ELSE @])
  /\ UNCHANGED <<version, cursor>>

PersistBackfillProgress(o) ==
  /\ At(o, "persist") /\ Unlocked(o, Goal(o), Member(o))
  /\ IF Rows(o)[Member(o)].state = "building"
     THEN Progress(o, Member(o), "cursor") /\ Step(o, [operator[o] EXCEPT !.at = "scan", !.todo = <<>>])
     ELSE GiveUp(o, FALSE)
  /\ UNCHANGED <<written, given, faults>>

SnapshotFails(o, permanent) == At(o, "scan") /\ Fault /\ GiveUp(o, permanent) /\ UNCHANGED written

\* The PostgreSQL rows come from a Go map, in any order, then the external ones.
ScanEnds(o) ==
  /\ At(o, "scan") /\ \A m \in Canonical : operator[o].pos[m] = Pages
  /\ \E first \in SetToSeqs(Canonical) :
       Step(o, [operator[o] EXCEPT !.at = "finish",
                                   !.todo = first \o SelectSeq(AllVersions(Goal(o)), LAMBDA m : m \notin Canonical)])
  /\ UNCHANGED <<version, cursor, written, given, faults>>

\* finishBackfillProgress: the checksum of the whole, row by row.
FinishBackfillProgress(o) ==
  /\ At(o, "finish") /\ Unlocked(o, Goal(o), Member(o))
  /\ IF Rows(o)[Member(o)].state = "building"
     THEN /\ Progress(o, Member(o), "final")
          /\ Step(o, IF Len(operator[o].todo) = 1 THEN Resting ELSE [operator[o] EXCEPT !.todo = Tail(@)])
     ELSE GiveUp(o, FALSE)
  /\ UNCHANGED <<written, given, faults>>

\* failBackfillVersions: the error is kept with each row that is building, and a
\* permanent one ends it.
FailBackfillVersions(o) ==
  /\ At(o, "fail") /\ Unlocked(o, Goal(o), Member(o))
  /\ version' = IF Rows(o)[Member(o)].state # "building" THEN version
                ELSE [version EXCEPT ![Goal(o)][Member(o)].error = TRUE,
                                     ![Goal(o)][Member(o)].state = IF operator[o].goal = "permanent" THEN "failed" ELSE @]
  /\ Step(o, IF Len(operator[o].todo) = 1 THEN Resting ELSE [operator[o] EXCEPT !.todo = Tail(@)])
  /\ UNCHANGED <<cursor, written, given, faults>>

-----------------------------------------------------------------------------
(* ActivateTarget and RollbackTarget *)

\* The rows of the generation are read without a lock; members that are active
\* already are passed over.  Unfinished publications are SearchProjection's matter.
ActivateTarget(o, t) ==
  /\ Command(o) /\ version[t][3].state # "absent"
  /\ LET active == {m \in MembersOf(t) : version[t][m].state = "active"}
     IN /\ active # MembersOf(t)
        /\ Step(o, [Resting EXCEPT !.at = "lock", !.goal = "activate", !.target = t, !.todo = Generation[t],
                                   !.passed = active])
  /\ UNCHANGED <<version, cursor, written>>

RollbackTarget(o, t) ==
  /\ Command(o) /\ version[t][3].state # "absent"
  /\ Step(o, [Resting EXCEPT !.at = "lock", !.goal = "rollback", !.target = t, !.todo = Generation[t]])
  /\ UNCHANGED <<version, cursor, written>>

\* A building version with a whole snapshot and no error; or one that was active.
MayBecomeActive(row, goal) ==
  IF goal = "activate" THEN row = [state |-> "building", sum |-> "final", error |-> FALSE]
  ELSE row.state \in {"retired", "active"}

\* The next member, or the end of the transaction.
Onward(o) == [operator[o] EXCEPT !.at = IF Len(operator[o].todo) = 1 THEN "commit" ELSE "lock", !.todo = Tail(@)]

PassOver(o) ==
  /\ At(o, "lock") /\ Member(o) \in operator[o].passed /\ Step(o, Onward(o))
  /\ UNCHANGED <<version, cursor, written, given, faults>>

\* SELECT ... FOR UPDATE of the own row, and its check.
LockNext(o) ==
  /\ At(o, "lock") /\ Member(o) \notin operator[o].passed /\ Unlocked(o, Goal(o), Member(o))
  /\ Step(o, IF MayBecomeActive(Rows(o)[Member(o)], operator[o].goal)
             THEN [operator[o] EXCEPT !.at = "see", !.locked = @ \cup {<<Goal(o), Member(o)>>}]
             ELSE Resting)
  /\ UNCHANGED <<version, cursor, written, given, faults>>

\* The UPDATE that retires: what its snapshot shows as active, ...
SeeActive(o) ==
  /\ At(o, "see")
  /\ Step(o, [operator[o] EXCEPT !.at = "retire",
                                 !.seen = {t \in Targets \ {Goal(o)} : version[t][Member(o)].state = "active"}])
  /\ UNCHANGED <<version, cursor, written, given, faults>>

\* ... and, when nobody else holds these rows, what of it still is.
Retire(o) ==
  /\ At(o, "retire") /\ \A t \in operator[o].seen : Unlocked(o, t, Member(o))
  /\ LET still == {t \in operator[o].seen : version[t][Member(o)].state = "active"}
     IN Step(o, [operator[o] EXCEPT !.at = "promote", !.seen = {},
                                    !.locked = @ \cup {<<t, Member(o)>> : t \in still},
                                    !.wrote = @ \cup {<<t, Member(o), "retired">> : t \in still}])
  /\ UNCHANGED <<version, cursor, written, given, faults>>

\* uq_search_index_versions_active: another writer of this member is waited for, and
\* another active version is an error that undoes the whole.  A rollback to the
\* version that is active writes nothing.
Promote(o) ==
  /\ At(o, "promote")
  /\ LET m == Member(o)
         retired == {t \in Targets : <<t, m, "retired">> \in operator[o].wrote}
         taken == \E t \in Targets \ ({Goal(o)} \cup retired) : version[t][m].state = "active"
     IN \/ Rows(o)[m].state = "active" /\ Step(o, Onward(o))
        \/ /\ Rows(o)[m].state # "active"
           /\ \A p \in Operators \ {o} : \A w \in operator[p].wrote : w[2] # m
           /\ Step(o, IF taken THEN Resting ELSE [Onward(o) EXCEPT !.wrote = operator[o].wrote \cup {<<Goal(o), m, "active">>}])
  /\ UNCHANGED <<version, cursor, written, given, faults>>

Commit(o) ==
  /\ At(o, "commit") /\ Step(o, Resting)
  /\ version' = [t \in Targets |-> [m \in 1..4 |->
       IF \E s \in {"active", "retired"} : <<t, m, s>> \in operator[o].wrote
       THEN [version[t][m] EXCEPT !.state = CHOOSE s \in {"active", "retired"} : <<t, m, s>> \in operator[o].wrote]
       ELSE version[t][m]]]
  /\ UNCHANGED <<cursor, written, given, faults>>

\* The command is interrupted: a transaction is undone, a backfill stops where it is.
Interrupt(o) == ~At(o, "idle") /\ Fault /\ Step(o, Resting) /\ UNCHANGED <<version, cursor, written>>

Next == \E o \in Operators :
  \/ \E t \in Targets : StartBackfill(o, t) \/ ActivateTarget(o, t) \/ RollbackTarget(o, t)
  \/ ScanPage(o) \/ PersistBackfillProgress(o) \/ ScanEnds(o) \/ FinishBackfillProgress(o)
  \/ \E permanent \in BOOLEAN : SnapshotFails(o, permanent)
  \/ FailBackfillVersions(o)
  \/ PassOver(o) \/ LockNext(o) \/ SeeActive(o) \/ Retire(o) \/ Promote(o) \/ Commit(o) \/ Interrupt(o)

-----------------------------------------------------------------------------

ActiveOf(m) == {t \in Targets : version[t][m].state = "active"}

\* "Two indexers cannot activate competing versions", and ActivateTarget "changes the
\* complete backend/projection set": no member has two active versions, PostgreSQL's
\* are never without one, and members show different generations only if neither
\* cutover could have moved both.  And no generation was ever active before some
\* backfill, resumed or not, had written all its pages.
GenerationsSound ==
  /\ \A m \in 1..4 : Cardinality(ActiveOf(m)) <= 1
  /\ \A m \in Canonical : ActiveOf(m) # {}
  /\ \A m, n \in 1..4 : \A t \in ActiveOf(m), u \in ActiveOf(n) :
       t = u \/ n \notin MembersOf(t) \/ m \notin MembersOf(u)
  /\ \A t \in Targets : (\E m \in 1..4 : version[t][m].state \in {"active", "retired"})
                        => written[t] = Canonical \X (1..Pages)
=============================================================================
