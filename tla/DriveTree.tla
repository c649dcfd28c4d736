----------------------------- MODULE DriveTree -----------------------------
(***************************************************************************)
(* One user's folders and files (drive.Service, drive.FileManager) under   *)
(* concurrent requests.  A request is a database transaction: it takes row *)
(* locks one after the other, checks what it reads under them, and commits *)
(* its writes together with the owner's content epoch.  Reads see what is  *)
(* committed (READ COMMITTED).                                             *)
(*                                                                         *)
(* Folder and file rows have the same shape and live in one table of       *)
(* items.  The one-content-one-file rule of CreateFile is in Upload.       *)
(***************************************************************************)
EXTENDS Naturals

CONSTANTS Folders, Files, Names,
          Root,       \* the folder that ProvisionUser creates
          Requests,   \* concurrent requests
          TreeLock,   \* the advisory lock on the owner's tree
          None,       \* no parent, no item, no name
          MaxEpoch    \* requests start only while fewer writes are committed

Items == Folders \cup Files

ASSUME DriveAssumption ==
  /\ Root \in Folders /\ Folders \cap Files = {}
  /\ TreeLock \notin Items /\ None \notin Items \cup Names
  /\ MaxEpoch \in Nat

VARIABLES state, parent, name, version,  \* the rows of items
          epoch,                         \* committed writes of the owner
          op, pc, item, target, label, seen,  \* the requests, and the version a request was given
          held                           \* the locks of each request

rows == <<state, parent, name, version, epoch>>
vars == <<state, parent, name, version, epoch, op, pc, item, target, label, seen, held>>

Ops == {"create", "rename", "move", "delete"}
Steps == {"tree", "item", "target", "folders", "files", "commit"}
Locks == {"share", "update"} \X (Items \cup {TreeLock})

\* A NULL parent marks the root.
TypeOK ==
  /\ state \in [Items -> {"unused", "active", "deleted"}]
  /\ parent \in [Items -> Folders \cup {None}]
  /\ \A i \in Items : parent[i] = None <=> i = Root \/ state[i] = "unused"
  /\ name \in [Items -> Names \cup {None}]
  /\ version \in [Items -> Nat]
  /\ epoch \in Nat
  /\ op \in [Requests -> Ops] /\ pc \in [Requests -> Steps \cup {"idle"}]
  /\ item \in [Requests -> Items \cup {None}] /\ target \in [Requests -> Folders \cup {None}]
  /\ label \in [Requests -> Names \cup {None}] /\ seen \in [Requests -> Nat]
  /\ held \in [Requests -> SUBSET Locks]

Active(i) == state[i] = "active"

\* ProvisionUser: the root folder and the epoch row.
Init ==
  /\ state = [i \in Items |-> IF i = Root THEN "active" ELSE "unused"]
  /\ parent = [i \in Items |-> None]
  /\ name = [i \in Items |-> None]
  /\ version = [i \in Items |-> IF i = Root THEN 1 ELSE 0]
  /\ epoch = 1
  /\ op = [r \in Requests |-> "create"] /\ pc = [r \in Requests |-> "idle"]
  /\ item = [r \in Requests |-> None] /\ target = [r \in Requests |-> None]
  /\ label = [r \in Requests |-> None] /\ seen = [r \in Requests |-> 0]
  /\ held = [r \in Requests |-> {}]

-----------------------------------------------------------------------------
(* Requests arrive *)

\* Mutant: folder moves do not take the tree lock.
FirstUnserialized(o, i) ==
  CASE o = "create" -> "target"
    [] o = "move" /\ i \in Files -> "target"
    [] OTHER -> "item"

\* The order in which an operation takes its locks and makes its checks.
First(o, i) ==
  CASE o = "create" -> "target"
    [] o = "move" /\ i \in Folders -> "tree"
    [] o = "move" /\ i \in Files -> "target"
    [] OTHER -> "item"

\* A new item gets an id of its own; the version is the one the client has read.
Begin(r) ==
  /\ pc[r] = "idle" /\ epoch < MaxEpoch
  /\ \E o \in Ops, i \in Items, t \in Folders \cup {None}, n \in Names \cup {None} :
       /\ IF o = "create" THEN state[i] = "unused" /\ \A q \in Requests : item[q] # i ELSE Active(i)
       /\ t # None <=> o \in {"create", "move"}
       /\ n # None <=> o \in {"create", "rename"}
       /\ t # i
       /\ op' = [op EXCEPT ![r] = o] /\ item' = [item EXCEPT ![r] = i]
       /\ target' = [target EXCEPT ![r] = t] /\ label' = [label EXCEPT ![r] = n]
       /\ seen' = [seen EXCEPT ![r] = version[i]]
       /\ pc' = [pc EXCEPT ![r] = First(o, i)]
  /\ UNCHANGED <<state, parent, name, version, epoch, held>>

-----------------------------------------------------------------------------
(* Locks *)

Free(r, mode, x) ==
  \A q \in Requests \ {r} :
    /\ <<"update", x>> \notin held[q]
    /\ mode = "update" => <<"share", x>> \notin held[q]

Go(r, to) == pc' = [pc EXCEPT ![r] = to]
Acquire(r, mode, x) ==
  /\ Free(r, mode, x)
  /\ held' = [held EXCEPT ![r] = @ \cup {<<mode, x>>}]

\* Commit or roll back: the request is over and its locks are gone.
End(r) ==
  /\ pc' = [pc EXCEPT ![r] = "idle"]
  /\ item' = [item EXCEPT ![r] = None] /\ target' = [target EXCEPT ![r] = None]
  /\ label' = [label EXCEPT ![r] = None] /\ seen' = [seen EXCEPT ![r] = 0]
  /\ op' = [op EXCEPT ![r] = "create"]
  /\ held' = [held EXCEPT ![r] = {}]

Reject(r) == End(r) /\ UNCHANGED rows
Proceed(r, to) == Go(r, to) /\ UNCHANGED <<op, item, target, label, seen>> /\ UNCHANGED rows

\* dblock.Transaction on the owner's tree: folder moves one at a time.
LockTree(r) ==
  /\ pc[r] = "tree"
  /\ Acquire(r, "update", TreeLock)
  /\ Proceed(r, "item")

AfterItem(r) ==
  CASE op[r] = "move" /\ item[r] \in Folders -> "target"
    [] op[r] = "delete" /\ item[r] \in Folders -> "folders"
    [] OTHER -> "commit"

\* Mutant: the row is read without a lock.
ReadItem(r) ==
  /\ pc[r] = "item"
  /\ IF Active(item[r]) /\ item[r] # Root /\ version[item[r]] = seen[r]
       THEN Proceed(r, AfterItem(r)) /\ UNCHANGED held
       ELSE Reject(r)

\* SELECT ... FOR UPDATE of the row, not the root, in the version that the client
\* has seen.
Editable(r) == Active(item[r]) /\ item[r] # Root /\ version[item[r]] = seen[r]
LockItem(r) ==
  /\ pc[r] = "item"
  /\ Free(r, "update", item[r])
  /\ IF Editable(r)
       THEN Acquire(r, "update", item[r]) /\ Proceed(r, AfterItem(r))
       ELSE Reject(r)

AfterTarget(r) ==
  CASE op[r] = "create" -> "commit"
    [] op[r] = "move" /\ item[r] \in Folders -> "folders"
    [] OTHER -> "item"

\* Mutant: the folder is read without a lock.
ReadTarget(r) ==
  /\ pc[r] = "target"
  /\ IF Active(target[r]) THEN Proceed(r, AfterTarget(r)) /\ UNCHANGED held ELSE Reject(r)

\* SELECT ... FOR SHARE of the folder that will hold the item.
LockTarget(r) ==
  /\ pc[r] = "target"
  /\ Free(r, "share", target[r])
  /\ IF Active(target[r])
       THEN Acquire(r, "share", target[r]) /\ Proceed(r, AfterTarget(r))
       ELSE Reject(r)

-----------------------------------------------------------------------------
(* Checks and commits *)

\* The set of f and everything below it, as the recursive query computes it: the
\* least set with f that is closed under active children.
ClosedBelow(S) == \A g \in Folders : Active(g) /\ parent[g] \in S => g \in S
Below(f, g) == \A S \in SUBSET Folders : f \in S /\ ClosedBelow(S) => g \in S

\* Move: the target is not below the folder.  Delete: no child folders.
CheckFolders(r) ==
  /\ pc[r] = "folders"
  /\ IF op[r] = "move"
       THEN IF Below(item[r], target[r]) THEN Reject(r)
            ELSE Proceed(r, "commit") /\ UNCHANGED held
       ELSE IF \E g \in Folders : Active(g) /\ parent[g] = item[r] THEN Reject(r)
            ELSE Proceed(r, "files") /\ UNCHANGED held

CheckFiles(r) ==
  /\ pc[r] = "files"
  /\ IF \E f \in Files : Active(f) /\ parent[f] = item[r] THEN Reject(r)
     ELSE Proceed(r, "commit") /\ UNCHANGED held

\* The unique index on the active names of a folder, one for each kind of row.
NameTaken(i, p, n) ==
  \E j \in (IF i \in Folders THEN Folders ELSE Files) \ {i} : Active(j) /\ parent[j] = p /\ name[j] = n

\* Where the item goes and its name; an edit leaves the other as it is.
Place(r) == IF target[r] = None THEN parent[item[r]] ELSE target[r]
Label(r) == IF label[r] = None THEN name[item[r]] ELSE label[r]

\* The write, the owner's epoch and the event in one commit.
Commit(r) ==
  /\ pc[r] = "commit"
  /\ IF op[r] # "delete" /\ NameTaken(item[r], Place(r), Label(r)) THEN Reject(r)
     ELSE /\ state' = [state EXCEPT ![item[r]] = IF op[r] = "delete" THEN "deleted" ELSE "active"]
          /\ parent' = [parent EXCEPT ![item[r]] = Place(r)]
          /\ name' = [name EXCEPT ![item[r]] = Label(r)]
          /\ version' = [version EXCEPT ![item[r]] = @ + 1]
          /\ epoch' = epoch + 1
          /\ End(r)

\* The caller goes away, or the database fails: the transaction is rolled back.
Rollback(r) == pc[r] # "idle" /\ Reject(r)

Step(r) ==
  LockTree(r) \/ LockItem(r) \/ LockTarget(r) \/ CheckFolders(r) \/ CheckFiles(r) \/ Commit(r)

Next == \E r \in Requests : Begin(r) \/ Step(r) \/ Rollback(r)

Spec == Init /\ [][Next]_vars

-----------------------------------------------------------------------------
(* Properties *)

\* The active folders are a tree: every active item but the root is in an active
\* folder, and no folders are each other's ancestors, whatever moves, deletes and
\* creates run at the same time.  (Breadcrumb and the descendants query recurse
\* along parents without a bound.)
Hung == \A i \in Items : Active(i) /\ i # Root => parent[i] \in Folders /\ Active(parent[i])
Acyclic == \A S \in SUBSET Folders : S # {} => \E f \in S : Active(f) => parent[f] \notin S
Tree == Active(Root) /\ Hung /\ Acyclic

\* A request works on the row that its version check has seen: nothing commits in
\* between, so that no other client's edit is overwritten.
NoLostEdit ==
  \A r \in Requests : pc[r] \in {"folders", "files", "commit"} /\ op[r] # "create" =>
    Active(item[r]) /\ version[item[r]] = seen[r]

\* No requests wait for each other in a circle: a request that is blocked is blocked
\* by one that can go on.
Wanted(r) ==
  CASE pc[r] = "tree" -> {<<"update", TreeLock>>}
    [] pc[r] = "item" -> {<<"update", item[r]>>}
    [] pc[r] = "target" -> {<<"share", target[r]>>}
    [] OTHER -> {}
WaitsFor(r, q) ==
  q # r /\ \E l \in Wanted(r), h \in held[q] : l[2] = h[2] /\ "update" \in {l[1], h[1]}
NoDeadlock ==
  \A S \in SUBSET Requests : S # {} => \E r \in S : \A q \in S : ~WaitsFor(r, q)
=============================================================================
