-------------------------- MODULE DriveTreeProofs --------------------------
(***************************************************************************)
(* Proofs about DriveTree and DriveListing.  For any set of folders,       *)
(* files, names and requests, the folders stay a tree, no edit is lost,    *)
(* and no requests wait for each other in a circle.  For any children,     *)
(* clients, processes and writes, no listing from the caches is older than *)
(* the request that it answers.                                            *)
(***************************************************************************)
EXTENDS DriveTree, MCDriveListing, SequenceTheorems, FiniteSetTheorems, TLAPS

-----------------------------------------------------------------------------
(* The inductive invariant: what a request at a given step knows. *)

FolderMove(r) == op[r] = "move" /\ item[r] \in Folders

\* What a request in progress was asked to do, and the steps it can be at.
Asked(r) ==
  /\ item[r] \in Items
  /\ target[r] # None <=> op[r] \in {"create", "move"}
  /\ label[r] # None <=> op[r] \in {"create", "rename"}
  /\ target[r] # item[r]
  /\ pc[r] = "tree" => FolderMove(r)
  /\ pc[r] = "item" => op[r] # "create"
  /\ pc[r] = "target" => op[r] \in {"create", "move"}
  /\ pc[r] = "folders" => item[r] \in Folders /\ op[r] \in {"move", "delete"}
  /\ pc[r] = "files" => item[r] \in Folders /\ op[r] = "delete"
WellAsked == \A r \in Requests : pc[r] # "idle" => Asked(r)

\* The locks that a request holds are those of the steps behind it.
PastTree(r) == FolderMove(r) /\ pc[r] \in {"item", "target", "folders", "commit"}
PastItem(r) ==
  op[r] # "create" /\ (pc[r] \in {"folders", "files", "commit"} \/ (pc[r] = "target" /\ FolderMove(r)))
PastTarget(r) ==
  \/ op[r] = "create" /\ pc[r] = "commit"
  \/ FolderMove(r) /\ pc[r] \in {"folders", "commit"}
  \/ op[r] = "move" /\ item[r] \in Files /\ pc[r] \in {"item", "commit"}
LocksHeld ==
  \A r \in Requests :
    /\ <<"update", TreeLock>> \in held[r] <=> PastTree(r)
    /\ \A i \in Items : <<"update", i>> \in held[r] <=> PastItem(r) /\ i = item[r]
    /\ \A i \in Items : <<"share", i>> \in held[r] <=> PastTarget(r) /\ i = target[r]
    /\ <<"share", TreeLock>> \notin held[r]
LocksExclude ==
  \A q, r \in Requests, x \in Items \cup {TreeLock} : q # r /\ <<"update", x>> \in held[r] =>
    <<"update", x>> \notin held[q] /\ <<"share", x>> \notin held[q]

\* What was checked under a lock still holds.
NewItems ==
  \A r \in Requests : pc[r] # "idle" /\ op[r] = "create" =>
    /\ state[item[r]] = "unused"
    /\ \A q \in Requests \ {r} : item[q] # item[r]
ItemsKept ==
  \A r \in Requests : PastItem(r) => Active(item[r]) /\ item[r] # Root /\ version[item[r]] = seen[r]
TargetsKept == \A r \in Requests : PastTarget(r) => Active(target[r])
MovesChecked == \A r \in Requests : FolderMove(r) /\ pc[r] = "commit" => ~Below(item[r], target[r])
DeletesChecked ==
  \A r \in Requests : op[r] = "delete" /\ item[r] \in Folders =>
    /\ pc[r] \in {"files", "commit"} => \A g \in Folders : Active(g) => parent[g] # item[r]
    /\ pc[r] = "commit" => \A g \in Files : Active(g) => parent[g] # item[r]

RequestInv ==
  /\ WellAsked /\ LocksHeld /\ LocksExclude
  /\ NewItems /\ ItemsKept /\ TargetsKept /\ MovesChecked /\ DeletesChecked
IInv == TypeOK /\ Tree /\ RequestInv

-----------------------------------------------------------------------------
(* Steps that write no rows. *)

\* The tree is a matter of the rows alone.
LEMMA RowsKeepTree ==
  ASSUME Tree, UNCHANGED rows PROVE Tree'
BY DEF Tree, Hung, Acyclic, Active, rows

\* The rows are well typed as long as they do not change.
LEMMA RowsKeepType ==
  ASSUME TypeOK, UNCHANGED rows,
         op' \in [Requests -> Ops], pc' \in [Requests -> Steps \cup {"idle"}],
         item' \in [Requests -> Items \cup {None}], target' \in [Requests -> Folders \cup {None}],
         label' \in [Requests -> Names \cup {None}], seen' \in [Requests -> Nat],
         held' \in [Requests -> SUBSET Locks]
  PROVE  TypeOK'
BY DEF TypeOK, rows

LEMMA BelowKept ==
  ASSUME UNCHANGED rows, NEW f, NEW g PROVE Below(f, g)' <=> Below(f, g)
BY DEF Below, ClosedBelow, Active, rows

\* A request that ends, with or without a commit, frees its locks.
LEMMA RejectInv ==
  ASSUME IInv, NEW r \in Requests, Reject(r) PROVE IInv'
<1> USE DEF IInv, Reject, End
<1>1. TypeOK'
  <2>1. /\ op' \in [Requests -> Ops] /\ pc' \in [Requests -> Steps \cup {"idle"}]
        /\ item' \in [Requests -> Items \cup {None}] /\ target' \in [Requests -> Folders \cup {None}]
        /\ label' \in [Requests -> Names \cup {None}] /\ seen' \in [Requests -> Nat]
        /\ held' \in [Requests -> SUBSET Locks]
    BY DEF TypeOK, Ops
  <2> QED BY <2>1, RowsKeepType
<1>2. Tree'
  BY RowsKeepTree
<1>3. WellAsked'
  BY DEF RequestInv, WellAsked, Asked, FolderMove, TypeOK
<1>4. LocksHeld'
  BY DEF RequestInv, LocksHeld, PastTree, PastItem, PastTarget, FolderMove, TypeOK
<1>9. LocksExclude'
  BY DEF RequestInv, LocksExclude, TypeOK
<1>5. NewItems'
  BY DriveAssumption DEF RequestInv, NewItems, WellAsked, Asked, TypeOK, rows
<1>6. ItemsKept' /\ TargetsKept'
  BY DEF RequestInv, ItemsKept, TargetsKept, PastItem, PastTarget, FolderMove, Active, TypeOK, rows
<1>7. MovesChecked'
  BY BelowKept DEF RequestInv, MovesChecked, FolderMove, TypeOK
<1>8. DeletesChecked'
  BY DEF RequestInv, DeletesChecked, Active, TypeOK, rows
<1> QED BY <1>1, <1>2, <1>3, <1>4, <1>5, <1>6, <1>7, <1>8, <1>9 DEF RequestInv

\* A request that arrives holds nothing and has checked nothing.
LEMMA BeginInv ==
  ASSUME IInv, NEW r \in Requests, Begin(r) PROVE IInv'
<1> USE DEF IInv
<1>1. TypeOK'
  <2>1. /\ op' \in [Requests -> Ops] /\ pc' \in [Requests -> Steps \cup {"idle"}]
        /\ item' \in [Requests -> Items \cup {None}] /\ target' \in [Requests -> Folders \cup {None}]
        /\ label' \in [Requests -> Names \cup {None}] /\ seen' \in [Requests -> Nat]
        /\ held' \in [Requests -> SUBSET Locks]
    <3>1. \A o \in Ops, i \in Items : First(o, i) \in Steps
      BY DEF First, Steps
    <3>2. \A i \in Items : version[i] \in Nat
      BY DEF TypeOK
    <3> QED BY <3>1, <3>2 DEF Begin, TypeOK
  <2> QED BY <2>1, RowsKeepType DEF Begin, Proceed, rows
<1>2. Tree'
  BY RowsKeepTree DEF Begin, Proceed, rows
<1>3. PICK o \in Ops, i \in Items, t \in Folders \cup {None}, n \in Names \cup {None} :
        /\ IF o = "create" THEN state[i] = "unused" /\ \A q \in Requests : item[q] # i ELSE Active(i)
        /\ t # None <=> o \in {"create", "move"}
        /\ n # None <=> o \in {"create", "rename"}
        /\ t # i
        /\ op' = [op EXCEPT ![r] = o] /\ item' = [item EXCEPT ![r] = i]
        /\ target' = [target EXCEPT ![r] = t] /\ label' = [label EXCEPT ![r] = n]
        /\ seen' = [seen EXCEPT ![r] = version[i]]
        /\ pc' = [pc EXCEPT ![r] = First(o, i)]
  BY Zenon DEF Begin
<1>4. pc[r] = "idle" /\ UNCHANGED rows /\ UNCHANGED held
  BY DEF Begin, rows
<1>5. WellAsked'
  BY <1>3, DriveAssumption DEF RequestInv, WellAsked, Asked, FolderMove, First, Ops, Items, TypeOK
<1>6. LocksHeld'
  BY <1>3, <1>4, DriveAssumption
  DEF RequestInv, LocksHeld, PastTree, PastItem, PastTarget, FolderMove, First, Items, TypeOK
<1>7. LocksExclude'
  BY <1>4 DEF RequestInv, LocksExclude
<1>8. NewItems'
  BY <1>3, <1>4 DEF RequestInv, NewItems, Active, TypeOK, rows
<1>9. ItemsKept' /\ TargetsKept'
  BY <1>3, <1>4, DriveAssumption
  DEF RequestInv, ItemsKept, TargetsKept, PastItem, PastTarget, FolderMove, First, Active, Items, TypeOK, rows, Begin
<1>10. MovesChecked'
  BY <1>3, <1>4, BelowKept DEF RequestInv, MovesChecked, FolderMove, First, TypeOK
<1>11. DeletesChecked'
  BY <1>3, <1>4 DEF RequestInv, DeletesChecked, Active, First, TypeOK, rows
<1> QED BY <1>1, <1>2, <1>5, <1>6, <1>7, <1>8, <1>9, <1>10, <1>11 DEF RequestInv

\* Only one request at a time is past the tree lock.
LEMMA LockTreeInv ==
  ASSUME IInv, NEW r \in Requests, LockTree(r) PROVE IInv'
<1> USE DEF IInv
<1>a. /\ pc[r] = "tree" /\ pc' = [pc EXCEPT ![r] = "item"]
      /\ UNCHANGED <<op, item, target, label, seen>> /\ UNCHANGED rows
      /\ Free(r, "update", TreeLock)
      /\ held' = [held EXCEPT ![r] = @ \cup {<<"update", TreeLock>>}]
  BY DEF LockTree, Acquire, Proceed, Go
<1>b. FolderMove(r) /\ Asked(r)
  BY <1>a DEF RequestInv, WellAsked, Asked
<1>1. TypeOK'
  <2>1. pc' \in [Requests -> Steps \cup {"idle"}]
    BY <1>a DEF TypeOK, Steps
  <2>2. held' \in [Requests -> SUBSET Locks]
    BY <1>a DEF TypeOK, Locks
  <2>3. /\ op' \in [Requests -> Ops] /\ item' \in [Requests -> Items \cup {None}]
        /\ target' \in [Requests -> Folders \cup {None}]
        /\ label' \in [Requests -> Names \cup {None}] /\ seen' \in [Requests -> Nat]
    BY <1>a DEF TypeOK
  <2> QED BY <1>a, <2>1, <2>2, <2>3, RowsKeepType
<1>2. Tree'
  BY <1>a, RowsKeepTree
<1>3. WellAsked'
  BY <1>a, <1>b DEF RequestInv, WellAsked, Asked, FolderMove, TypeOK
<1>4. LocksHeld'
  BY <1>a, <1>b, DriveAssumption
  DEF RequestInv, LocksHeld, PastTree, PastItem, PastTarget, FolderMove, Items, TypeOK
<1>5. LocksExclude'
  BY <1>a DEF RequestInv, LocksExclude, Free, TypeOK
<1>6. NewItems'
  BY <1>a DEF RequestInv, NewItems, TypeOK, rows
<1>7. ItemsKept' /\ TargetsKept'
  BY <1>a, <1>b, DriveAssumption
  DEF RequestInv, ItemsKept, TargetsKept, PastItem, PastTarget, FolderMove, Active, Items, TypeOK, rows
<1>8. MovesChecked'
  BY <1>a, BelowKept DEF RequestInv, MovesChecked, FolderMove, TypeOK
<1>9. DeletesChecked'
  BY <1>a DEF RequestInv, DeletesChecked, Active, TypeOK, rows
<1> QED BY <1>1, <1>2, <1>3, <1>4, <1>5, <1>6, <1>7, <1>8, <1>9 DEF RequestInv

\* The row that a request has locked is the one its client has seen.
LEMMA LockItemInv ==
  ASSUME IInv, NEW r \in Requests, LockItem(r) PROVE IInv'
<1>1. CASE ~Editable(r)
  BY <1>1, RejectInv DEF LockItem
<1>2. ASSUME Editable(r) PROVE IInv'
  <2> USE DEF IInv
  <2>a. /\ pc[r] = "item" /\ pc' = [pc EXCEPT ![r] = AfterItem(r)]
        /\ UNCHANGED <<op, item, target, label, seen>> /\ UNCHANGED rows
        /\ Free(r, "update", item[r])
        /\ held' = [held EXCEPT ![r] = @ \cup {<<"update", item[r]>>}]
    BY <1>2 DEF LockItem, Acquire, Proceed, Go
  <2>b. Asked(r) /\ op[r] # "create" /\ AfterItem(r) \in Steps
    BY <2>a DEF RequestInv, WellAsked, Asked, AfterItem, Steps
  <2>c. AfterItem(r) = IF FolderMove(r) THEN "target"
                       ELSE IF op[r] = "delete" /\ item[r] \in Folders THEN "folders" ELSE "commit"
    BY DEF AfterItem, FolderMove
  <2>d. Active(item[r]) /\ item[r] # Root /\ version[item[r]] = seen[r]
    BY <1>2 DEF Editable
  <2>1. TypeOK'
    <3>1. pc' \in [Requests -> Steps \cup {"idle"}]
      BY <2>a, <2>b DEF TypeOK, Steps
    <3>2. held' \in [Requests -> SUBSET Locks]
      BY <2>a, <2>b DEF TypeOK, Locks, Asked
    <3>3. /\ op' \in [Requests -> Ops] /\ item' \in [Requests -> Items \cup {None}]
          /\ target' \in [Requests -> Folders \cup {None}]
          /\ label' \in [Requests -> Names \cup {None}] /\ seen' \in [Requests -> Nat]
      BY <2>a DEF TypeOK
    <3> QED BY <2>a, <3>1, <3>2, <3>3, RowsKeepType
  <2>2. Tree'
    BY <2>a, RowsKeepTree
  <2>3. WellAsked'
    BY <2>a, <2>b, <2>c DEF RequestInv, WellAsked, Asked, FolderMove, Ops, TypeOK
  <2>4. LocksHeld'
    <3> SUFFICES ASSUME NEW q \in Requests, NEW i \in Items
                 PROVE /\ <<"update", TreeLock>> \in held'[q] <=> PastTree(q)'
                       /\ <<"update", i>> \in held'[q] <=> PastItem(q)' /\ i = item'[q]
                       /\ <<"share", i>> \in held'[q] <=> PastTarget(q)' /\ i = target'[q]
                       /\ <<"share", TreeLock>> \notin held'[q]
      BY DriveAssumption DEF LocksHeld, Items
    <3>1. CASE q # r
      BY <2>a, <3>1 DEF RequestInv, LocksHeld, PastTree, PastItem, PastTarget, FolderMove, TypeOK
    <3>2. CASE q = r
      BY <2>a, <2>b, <2>c, <3>2, DriveAssumption
      DEF RequestInv, LocksHeld, PastTree, PastItem, PastTarget, FolderMove, Asked, Items, TypeOK, Ops
    <3> QED BY <3>1, <3>2
  <2>5. LocksExclude'
    BY <2>a DEF RequestInv, LocksExclude, Free, TypeOK
  <2>6. NewItems'
    BY <2>a, <2>b DEF RequestInv, NewItems, TypeOK, rows
  <2>7. ItemsKept' /\ TargetsKept'
    BY <2>a, <2>b, <2>c, <2>d, DriveAssumption
    DEF RequestInv, ItemsKept, TargetsKept, PastItem, PastTarget, FolderMove, Active, Items, TypeOK, rows, Asked, Ops
  <2>8. MovesChecked'
    BY <2>a, <2>c, BelowKept DEF RequestInv, MovesChecked, FolderMove, TypeOK
  <2>9. DeletesChecked'
    BY <2>a, <2>c DEF RequestInv, DeletesChecked, Active, TypeOK, rows
  <2> QED BY <2>1, <2>2, <2>3, <2>4, <2>5, <2>6, <2>7, <2>8, <2>9 DEF RequestInv
<1> QED BY <1>1, <1>2

\* The folder that a request has locked stays active.
LEMMA LockTargetInv ==
  ASSUME IInv, NEW r \in Requests, LockTarget(r) PROVE IInv'
<1>1. CASE ~Active(target[r])
  BY <1>1, RejectInv DEF LockTarget
<1>2. ASSUME Active(target[r]) PROVE IInv'
  <2> USE DEF IInv
  <2>a. /\ pc[r] = "target" /\ pc' = [pc EXCEPT ![r] = AfterTarget(r)]
        /\ UNCHANGED <<op, item, target, label, seen>> /\ UNCHANGED rows
        /\ Free(r, "share", target[r])
        /\ held' = [held EXCEPT ![r] = @ \cup {<<"share", target[r]>>}]
    BY <1>2 DEF LockTarget, Acquire, Proceed, Go
  <2>b. Asked(r) /\ op[r] \in {"create", "move"} /\ target[r] \in Folders
    <3>1. Asked(r)
      BY <2>a DEF RequestInv, WellAsked
    <3>2. op[r] \in {"create", "move"}
      BY <2>a, <3>1 DEF Asked
    <3>3. target[r] \in Folders \cup {None}
      BY DEF TypeOK
    <3> QED BY <3>1, <3>2, <3>3 DEF Asked
  <2>c. AfterTarget(r) = IF op[r] = "create" THEN "commit"
                         ELSE IF item[r] \in Folders THEN "folders" ELSE "item"
    BY <2>b DEF AfterTarget
  <2>1. TypeOK'
    <3>1. pc' \in [Requests -> Steps \cup {"idle"}]
      BY <2>a, <2>c DEF TypeOK, Steps
    <3>2. held' \in [Requests -> SUBSET Locks]
      BY <2>a, <2>b DEF TypeOK, Locks, Items
    <3>3. /\ op' \in [Requests -> Ops] /\ item' \in [Requests -> Items \cup {None}]
          /\ target' \in [Requests -> Folders \cup {None}]
          /\ label' \in [Requests -> Names \cup {None}] /\ seen' \in [Requests -> Nat]
      BY <2>a DEF TypeOK
    <3> QED BY <2>a, <3>1, <3>2, <3>3, RowsKeepType
  <2>2. Tree'
    BY <2>a, RowsKeepTree
  <2>3. WellAsked'
    BY <2>a, <2>b, <2>c DEF RequestInv, WellAsked, Asked, FolderMove, TypeOK
  <2>4. LocksHeld'
    <3> SUFFICES ASSUME NEW q \in Requests, NEW i \in Items
                 PROVE /\ <<"update", TreeLock>> \in held'[q] <=> PastTree(q)'
                       /\ <<"update", i>> \in held'[q] <=> PastItem(q)' /\ i = item'[q]
                       /\ <<"share", i>> \in held'[q] <=> PastTarget(q)' /\ i = target'[q]
                       /\ <<"share", TreeLock>> \notin held'[q]
      BY DriveAssumption DEF LocksHeld, Items
    <3>1. CASE q # r
      BY <2>a, <3>1 DEF RequestInv, LocksHeld, PastTree, PastItem, PastTarget, FolderMove, TypeOK
    <3>2. CASE q = r
      BY <2>a, <2>b, <2>c, <3>2, DriveAssumption
      DEF RequestInv, LocksHeld, PastTree, PastItem, PastTarget, FolderMove, Asked, Items, TypeOK
    <3> QED BY <3>1, <3>2
  <2>5. LocksExclude'
    BY <2>a DEF RequestInv, LocksExclude, Free, TypeOK
  <2>6. NewItems'
    BY <2>a, <2>b DEF RequestInv, NewItems, TypeOK, rows
  <2>7. ItemsKept'
    BY <2>a, <2>b, <2>c DEF RequestInv, ItemsKept, PastItem, FolderMove, Active, TypeOK, rows
  <2>8. TargetsKept'
    BY <2>a, <1>2 DEF RequestInv, TargetsKept, PastTarget, FolderMove, Active, TypeOK, rows
  <2>9. MovesChecked'
    BY <2>a, <2>c, BelowKept DEF RequestInv, MovesChecked, FolderMove, TypeOK
  <2>10. DeletesChecked'
    BY <2>a, <2>b DEF RequestInv, DeletesChecked, Active, TypeOK, rows
  <2> QED BY <2>1, <2>2, <2>3, <2>4, <2>5, <2>6, <2>7, <2>8, <2>9, <2>10 DEF RequestInv
<1> QED BY <1>1, <1>2

\* A check that succeeds takes no lock: its finding is all that is new.
LEMMA CheckedInv ==
  ASSUME IInv, NEW r \in Requests, NEW to \in {"files", "commit"},
         pc[r] \in {"folders", "files"}, Proceed(r, to), UNCHANGED held,
         to = "files" => op[r] = "delete",
         op[r] = "move" => ~Below(item[r], target[r]),
         op[r] = "delete" => \A g \in Folders : Active(g) => parent[g] # item[r],
         op[r] = "delete" /\ to = "commit" => \A g \in Files : Active(g) => parent[g] # item[r]
  PROVE  IInv'
<1> USE DEF IInv
<1>a. /\ pc' = [pc EXCEPT ![r] = to]
      /\ UNCHANGED <<op, item, target, label, seen>> /\ UNCHANGED rows
  BY DEF Proceed, Go
<1>b. Asked(r) /\ item[r] \in Folders /\ op[r] \in {"move", "delete"}
  BY DEF RequestInv, WellAsked, Asked
<1>1. TypeOK'
  <2>1. pc' \in [Requests -> Steps \cup {"idle"}]
    BY <1>a DEF TypeOK, Steps
  <2>2. /\ op' \in [Requests -> Ops] /\ item' \in [Requests -> Items \cup {None}]
        /\ target' \in [Requests -> Folders \cup {None}]
        /\ label' \in [Requests -> Names \cup {None}] /\ seen' \in [Requests -> Nat]
        /\ held' \in [Requests -> SUBSET Locks]
    BY <1>a DEF TypeOK
  <2> QED BY <1>a, <2>1, <2>2, RowsKeepType
<1>2. Tree'
  BY <1>a, RowsKeepTree
<1>3. WellAsked'
  BY <1>a, <1>b DEF RequestInv, WellAsked, Asked, FolderMove, TypeOK
<1>4. LocksHeld'
  <2>1. \A q \in Requests : /\ PastTree(q)' <=> PastTree(q)
                            /\ PastItem(q)' <=> PastItem(q)
                            /\ PastTarget(q)' <=> PastTarget(q)
    BY <1>a, <1>b, DriveAssumption
    DEF PastTree, PastItem, PastTarget, FolderMove, TypeOK, RequestInv, WellAsked, Asked
  <2> QED BY <1>a, <2>1 DEF RequestInv, LocksHeld
<1>5. LocksExclude' /\ NewItems'
  BY <1>a, <1>b DEF RequestInv, LocksExclude, NewItems, TypeOK, rows
<1>6. ItemsKept' /\ TargetsKept'
  BY <1>a, <1>b, DriveAssumption
  DEF RequestInv, ItemsKept, TargetsKept, PastItem, PastTarget, FolderMove, Active, TypeOK, rows, WellAsked, Asked
<1>7. MovesChecked'
  BY <1>a, BelowKept DEF RequestInv, MovesChecked, FolderMove, TypeOK
<1>8. DeletesChecked'
  BY <1>a DEF RequestInv, DeletesChecked, Active, TypeOK, rows
<1> QED BY <1>1, <1>2, <1>3, <1>4, <1>5, <1>6, <1>7, <1>8 DEF RequestInv

LEMMA CheckFoldersInv ==
  ASSUME IInv, NEW r \in Requests, CheckFolders(r) PROVE IInv'
<1>1. CASE Reject(r)
  BY <1>1, RejectInv
<1>2. CASE op[r] = "move" /\ ~Below(item[r], target[r]) /\ Proceed(r, "commit") /\ UNCHANGED held
  BY <1>2, CheckedInv DEF CheckFolders
<1>3. CASE /\ op[r] # "move" /\ \A g \in Folders : Active(g) => parent[g] # item[r]
           /\ Proceed(r, "files") /\ UNCHANGED held
  <2>1. op[r] = "delete" /\ pc[r] = "folders"
    BY <1>3 DEF CheckFolders, IInv, RequestInv, WellAsked, Asked
  <2> QED BY <1>3, <2>1, CheckedInv
<1> QED BY <1>1, <1>2, <1>3 DEF CheckFolders

LEMMA CheckFilesInv ==
  ASSUME IInv, NEW r \in Requests, CheckFiles(r) PROVE IInv'
<1>1. CASE Reject(r)
  BY <1>1, RejectInv
<1>2. CASE /\ \A g \in Files : Active(g) => parent[g] # item[r]
           /\ Proceed(r, "commit") /\ UNCHANGED held
  <2>1. /\ op[r] = "delete" /\ pc[r] = "files"
        /\ \A g \in Folders : Active(g) => parent[g] # item[r]
    BY <1>2 DEF CheckFiles, IInv, RequestInv, WellAsked, Asked, DeletesChecked
  <2> QED BY <1>2, <2>1, CheckedInv
<1> QED BY <1>1, <1>2 DEF CheckFiles

-----------------------------------------------------------------------------
(* Commits *)

\* What a request that is about to commit can rely on.
Committed(r) ==
  /\ state' = [state EXCEPT ![item[r]] = IF op[r] = "delete" THEN "deleted" ELSE "active"]
  /\ parent' = [parent EXCEPT ![item[r]] = Place(r)]
  /\ name' = [name EXCEPT ![item[r]] = Label(r)]
  /\ version' = [version EXCEPT ![item[r]] = @ + 1]
  /\ epoch' = epoch + 1
  /\ End(r)

LEMMA CommitFacts ==
  ASSUME IInv, NEW r \in Requests, pc[r] = "commit"
  PROVE  /\ Asked(r) /\ item[r] \in Items /\ item[r] # Root
         /\ Place(r) \in Folders /\ Place(r) # item[r]
         /\ op[r] \in {"create", "move"} => Active(target[r]) /\ Place(r) = target[r]
         /\ op[r] \in {"rename", "delete"} => Place(r) = parent[item[r]]
         /\ IF op[r] = "create" THEN state[item[r]] = "unused" ELSE Active(item[r])
<1> USE DEF IInv
<1>1. Asked(r) /\ item[r] \in Items /\ op[r] \in Ops /\ target[r] \in Folders \cup {None}
  BY DEF RequestInv, WellAsked, Asked, TypeOK
<1>2. IF op[r] = "create" THEN state[item[r]] = "unused" ELSE Active(item[r]) /\ item[r] # Root
  BY DEF RequestInv, NewItems, ItemsKept, PastItem
<1>3. item[r] # Root
  BY <1>2 DEF Tree, Active
<1>4. CASE op[r] \in {"create", "move"}
  <2>1. target[r] \in Folders /\ target[r] # item[r]
    BY <1>1, <1>4 DEF Asked
  <2>2. Place(r) = target[r]
    BY <1>1, <1>4 DEF Asked, Place
  <2>3. PastTarget(r)
    BY <1>1, <1>4 DEF PastTarget, FolderMove, Items
  <2> QED BY <1>1, <1>2, <1>3, <1>4, <2>1, <2>2, <2>3 DEF RequestInv, TargetsKept
<1>5. CASE op[r] \in {"rename", "delete"}
  <2>1. Place(r) = parent[item[r]]
    BY <1>1, <1>5 DEF Asked, Place
  <2>2. Active(item[r]) /\ parent[item[r]] \in Folders /\ Active(parent[item[r]])
    BY <1>1, <1>2, <1>3, <1>5 DEF Tree, Hung
  <2>3. parent[item[r]] # item[r]
    <3>1. CASE item[r] \in Folders
      <4>1. {item[r]} \in SUBSET Folders /\ {item[r]} # {}
        BY <3>1
      <4>2. \E f \in {item[r]} : Active(f) => parent[f] \notin {item[r]}
        BY <4>1 DEF Tree, Acyclic
      <4> QED BY <2>2, <4>2
    <3>2. CASE item[r] \in Files
      BY <2>2, <3>2, DriveAssumption
    <3> QED BY <1>1, <3>1, <3>2 DEF Items
  <2> QED BY <1>1, <1>2, <1>3, <1>5, <2>1, <2>2, <2>3
<1> QED BY <1>1, <1>4, <1>5 DEF Ops

LEMMA CommitType ==
  ASSUME IInv, NEW r \in Requests, pc[r] = "commit", Committed(r) PROVE TypeOK'
<1> USE DEF IInv, Committed, End
<1>1. /\ item[r] \in Items /\ item[r] # Root /\ Place(r) \in Folders
  BY CommitFacts
<1>2. state' \in [Items -> {"unused", "active", "deleted"}] /\ parent' \in [Items -> Folders \cup {None}]
  BY <1>1 DEF TypeOK
<1>3. \A i \in Items : parent'[i] = None <=> i = Root \/ state'[i] = "unused"
  BY <1>1, DriveAssumption DEF TypeOK, Items
<1>4. name' \in [Items -> Names \cup {None}]
  BY <1>1 DEF TypeOK, Label
<1>5. version' \in [Items -> Nat] /\ epoch' \in Nat
  BY <1>1 DEF TypeOK
<1>6. /\ op' \in [Requests -> Ops] /\ pc' \in [Requests -> Steps \cup {"idle"}]
      /\ item' \in [Requests -> Items \cup {None}] /\ target' \in [Requests -> Folders \cup {None}]
      /\ label' \in [Requests -> Names \cup {None}] /\ seen' \in [Requests -> Nat]
      /\ held' \in [Requests -> SUBSET Locks]
  BY DEF TypeOK, Ops
<1> QED BY <1>2, <1>3, <1>4, <1>5, <1>6 DEF TypeOK

\* The heart of the matter: a committed create, move or delete leaves a tree.
LEMMA CommitTree ==
  ASSUME IInv, NEW r \in Requests, pc[r] = "commit", Committed(r) PROVE Tree'
<1> DEFINE i == item[r]
           p == Place(r)
<1>1. /\ Asked(r) /\ i \in Items /\ i # Root /\ p \in Folders /\ p # i
      /\ op[r] \in {"create", "move"} => Active(target[r]) /\ p = target[r]
      /\ op[r] \in {"rename", "delete"} => p = parent[i]
      /\ IF op[r] = "create" THEN state[i] = "unused" ELSE Active(i)
  BY CommitFacts
<1>2. /\ \A j \in Items : parent'[j] = IF j = i THEN p ELSE parent[j]
      /\ \A j \in Items \ {i} : state'[j] = state[j]
      /\ state'[i] = IF op[r] = "delete" THEN "deleted" ELSE "active"
  BY <1>1 DEF Committed, IInv, TypeOK
<1>3. Tree /\ Root \in Items /\ Folders \subseteq Items /\ None \notin Items /\ op[r] \in Ops
  BY DriveAssumption DEF IInv, Items, TypeOK
<1>4. Active(Root)'
  BY <1>1, <1>2, <1>3 DEF Tree, Active
<1>5. op[r] = "delete" => \A j \in Items : Active(j) => parent[j] # i
  <2>1. CASE op[r] = "delete" /\ i \in Folders
    BY <2>1 DEF IInv, RequestInv, DeletesChecked, Items
  <2>2. CASE op[r] = "delete" /\ i \in Files
    BY <1>1, <1>3, <2>2, DriveAssumption DEF Tree, Hung, IInv, TypeOK
  <2> QED BY <1>1, <2>1, <2>2 DEF Items
<1>6. Hung'
  <2> SUFFICES ASSUME NEW j \in Items, Active(j)', j # Root
               PROVE  parent'[j] \in Folders /\ Active(parent[j])'
    BY DEF Hung
  <2>1. CASE j = i
    <3>1. op[r] # "delete"
      BY <1>2, <2>1 DEF Active
    <3>2. Active(p)
      BY <1>1, <1>3, <3>1 DEF Tree, Hung, Ops
    <3> QED BY <1>1, <1>2, <1>3, <2>1, <3>2 DEF Active
  <2>2. CASE j # i
    <3>1. Active(j) /\ parent'[j] = parent[j] /\ parent[j] \in Folders /\ Active(parent[j])
      BY <1>2, <1>3, <2>2 DEF Tree, Hung, Active
    <3>2. CASE parent[j] = i
      BY <1>2, <1>5, <3>1, <3>2 DEF Active, Ops
    <3>3. CASE parent[j] # i
      BY <1>2, <1>3, <3>1, <3>3 DEF Active
    <3> QED BY <3>1, <3>2, <3>3
  <2> QED BY <2>1, <2>2
<1>7. Acyclic'
  <2> SUFFICES ASSUME NEW S \in SUBSET Folders, S # {},
                      \A f \in S : Active(f)' /\ parent'[f] \in S
               PROVE  FALSE
    BY DEF Acyclic
  <2>1. \A f \in S : f \in Items /\ (f # i => Active(f) /\ parent[f] \in S)
    BY <1>2, <1>3 DEF Active
  <2>2. i \in S
    <3>1. SUFFICES ASSUME i \notin S PROVE FALSE
      OBVIOUS
    <3>2. \A f \in S : Active(f) /\ parent[f] \in S
      BY <2>1, <3>1
    <3> QED BY <1>3, <3>2 DEF Tree, Acyclic
  <2>3. p \in S /\ op[r] # "delete"
    BY <1>2, <1>3, <2>2 DEF Active
  <2>4. CASE op[r] = "create"
    <3>1. \A f \in S \ {i} : parent[f] # i
      BY <1>1, <1>3, <2>1, <2>4, DriveAssumption DEF Tree, Hung, Active, IInv, TypeOK
    <3>2. S \ {i} # {} /\ S \ {i} \in SUBSET Folders
      BY <1>1, <2>3
    <3>3. \A f \in S \ {i} : Active(f) /\ parent[f] \in S \ {i}
      BY <2>1, <3>1
    <3> QED BY <1>3, <3>2, <3>3 DEF Tree, Acyclic
  <2>5. CASE op[r] = "rename"
    <3>1. \A f \in S : Active(f) /\ parent[f] \in S
      BY <1>1, <2>1, <2>3, <2>5
    <3> QED BY <1>3, <3>1 DEF Tree, Acyclic
  <2>6. CASE op[r] = "move"
    <3>1. ~Below(i, p)
      BY <1>1, <2>2, <2>6 DEF IInv, RequestInv, MovesChecked, FolderMove
    <3>2. PICK D \in SUBSET Folders : i \in D /\ ClosedBelow(D) /\ p \notin D
      BY <3>1 DEF Below
    <3>3. S \ D # {} /\ S \ D \in SUBSET Folders
      BY <2>3, <3>2
    <3>4. \A f \in S \ D : Active(f) /\ parent[f] \in S \ D
      BY <2>1, <3>2 DEF ClosedBelow
    <3> QED BY <1>3, <3>3, <3>4 DEF Tree, Acyclic
  <2> QED BY <1>3, <2>3, <2>4, <2>5, <2>6 DEF Ops
<1> QED BY <1>4, <1>6, <1>7 DEF Tree

\* The row that a request writes is no other request's: neither the row that it has
\* locked nor the folder that it has locked.
LEMMA CommitApart ==
  ASSUME IInv, NEW r \in Requests, pc[r] = "commit", NEW q \in Requests, q # r
  PROVE  /\ PastItem(q) => item[q] # item[r]
         /\ PastTarget(q) => target[q] # item[r]
         /\ pc[q] # "idle" /\ op[q] = "create" => item[q] # item[r]
         /\ ~(FolderMove(q) /\ pc[q] = "commit" /\ FolderMove(r))
         /\ PastItem(q) => ~(op[r] \in {"create", "move"} /\ target[r] = item[q])
<1> USE DEF IInv, RequestInv
<1>1. item[r] \in Items
  BY CommitFacts
<1>2. op[r] # "create" => <<"update", item[r]>> \in held[r]
  BY <1>1 DEF LocksHeld, PastItem
<1>3. op[r] = "create" => state[item[r]] = "unused" /\ item[q] # item[r]
  BY DEF NewItems
<1>4. pc[q] # "idle" => item[q] \in Items
  BY DEF WellAsked, Asked
<1>5. PastItem(q) => item[q] \in Items /\ <<"update", item[q]>> \in held[q]
  BY <1>4 DEF LocksHeld, PastItem
<1>6. PastTarget(q) => Active(target[q]) /\ target[q] \in Items /\ <<"share", target[q]>> \in held[q]
  <2> SUFFICES ASSUME PastTarget(q) PROVE Active(target[q]) /\ target[q] \in Items /\ <<"share", target[q]>> \in held[q]
    OBVIOUS
  <2>1. Active(target[q])
    BY DEF TargetsKept
  <2>2. op[q] \in {"create", "move"} /\ Asked(q)
    BY DEF PastTarget, FolderMove, WellAsked
  <2>3. target[q] \in Items
    BY <2>2 DEF Asked, TypeOK, Items
  <2> QED BY <2>1, <2>3 DEF LocksHeld
<1>7. PastItem(q) => item[q] # item[r]
  BY <1>1, <1>2, <1>3, <1>5 DEF LocksExclude
<1>8. PastTarget(q) => target[q] # item[r]
  BY <1>1, <1>2, <1>3, <1>6 DEF LocksExclude, Active
<1>9. pc[q] # "idle" /\ op[q] = "create" => item[q] # item[r]
  BY DEF NewItems
<1>10. ~(FolderMove(q) /\ pc[q] = "commit" /\ FolderMove(r))
  BY DEF LocksHeld, PastTree, LocksExclude
<1>11. PastItem(q) => ~(op[r] \in {"create", "move"} /\ target[r] = item[q])
  <2> SUFFICES ASSUME PastItem(q), op[r] \in {"create", "move"}, target[r] = item[q] PROVE FALSE
    OBVIOUS
  <2>1. PastTarget(r)
    BY <1>1 DEF PastTarget, FolderMove, Items
  <2>2. <<"share", item[q]>> \in held[r]
    BY <1>5, <2>1 DEF LocksHeld
  <2> QED BY <1>5, <2>2 DEF LocksExclude
<1> QED BY <1>7, <1>8, <1>9, <1>10, <1>11

\* No commit takes away what another request has checked.
LEMMA CommitRequests ==
  ASSUME IInv, NEW r \in Requests, pc[r] = "commit", Committed(r) PROVE RequestInv'
<1> DEFINE i == item[r]
           p == Place(r)
<1>1. /\ Asked(r) /\ i \in Items /\ i # Root /\ p \in Folders /\ p # i
      /\ op[r] \in {"create", "move"} => Active(target[r]) /\ p = target[r]
      /\ op[r] \in {"rename", "delete"} => p = parent[i]
      /\ IF op[r] = "create" THEN state[i] = "unused" ELSE Active(i)
  BY CommitFacts
<1>2. /\ \A j \in Items : parent'[j] = IF j = i THEN p ELSE parent[j]
      /\ \A j \in Items \ {i} : state'[j] = state[j] /\ version'[j] = version[j]
      /\ state'[i] = IF op[r] = "delete" THEN "deleted" ELSE "active"
  BY <1>1 DEF Committed, IInv, TypeOK
<1>3. /\ pc'[r] = "idle" /\ item'[r] = None /\ op'[r] = "create" /\ target'[r] = None /\ held'[r] = {}
      /\ \A q \in Requests \ {r} :
           /\ pc'[q] = pc[q] /\ item'[q] = item[q] /\ op'[q] = op[q] /\ target'[q] = target[q]
           /\ label'[q] = label[q] /\ seen'[q] = seen[q] /\ held'[q] = held[q]
  BY DEF Committed, End, IInv, TypeOK
<1>4. op[r] \in Ops /\ Folders \subseteq Items /\ Files \subseteq Items /\ None \notin Items
  BY DriveAssumption DEF IInv, TypeOK, Items
<1>5. WellAsked'
  BY <1>3 DEF IInv, RequestInv, WellAsked, Asked, FolderMove
<1>6. LocksHeld'
  BY <1>3 DEF IInv, RequestInv, LocksHeld, PastTree, PastItem, PastTarget, FolderMove
<1>7. LocksExclude'
  BY <1>3 DEF IInv, RequestInv, LocksExclude
<1>8. NewItems'
  <2> SUFFICES ASSUME NEW q \in Requests, q # r, pc[q] # "idle", op[q] = "create"
               PROVE  state'[item[q]] = "unused" /\ \A s \in Requests \ {q} : item'[s] # item[q]
    BY <1>3 DEF NewItems
  <2>1. item[q] \in Items /\ state[item[q]] = "unused" /\ \A s \in Requests \ {q} : item[s] # item[q]
    BY DEF IInv, RequestInv, NewItems, WellAsked, Asked
  <2> QED BY <1>2, <1>3, <1>4, <2>1
<1>9. ItemsKept'
  <2> SUFFICES ASSUME NEW q \in Requests, q # r, PastItem(q)
               PROVE  state'[item[q]] = "active" /\ item[q] # Root /\ version'[item[q]] = seen[q]
    BY <1>3 DEF ItemsKept, PastItem, FolderMove, Active
  <2>1. item[q] \in Items /\ item[q] # i
    BY CommitApart DEF IInv, RequestInv, WellAsked, Asked, PastItem
  <2> QED BY <1>2, <2>1 DEF IInv, RequestInv, ItemsKept, Active
<1>10. TargetsKept'
  <2> SUFFICES ASSUME NEW q \in Requests, q # r, PastTarget(q)
               PROVE  state'[target[q]] = "active"
    BY <1>3 DEF TargetsKept, PastTarget, FolderMove, Active
  <2>1. target[q] # i /\ Active(target[q])
    BY CommitApart DEF IInv, RequestInv, TargetsKept
  <2>2. op[q] \in {"create", "move"} /\ Asked(q)
    BY DEF IInv, RequestInv, PastTarget, FolderMove, WellAsked
  <2>3. target[q] \in Items
    BY <2>2 DEF Asked, IInv, TypeOK, Items
  <2> QED BY <1>2, <2>1, <2>3 DEF Active
<1>11. MovesChecked'
  <2> SUFFICES ASSUME NEW q \in Requests, q # r, FolderMove(q), pc[q] = "commit"
               PROVE  ~Below(item[q], target[q])'
    BY <1>3 DEF MovesChecked, FolderMove, Below, ClosedBelow, Active
  <2>1. ~Below(item[q], target[q]) /\ ~FolderMove(r)
    BY CommitApart DEF IInv, RequestInv, MovesChecked
  <2>2. PICK S \in SUBSET Folders : item[q] \in S /\ ClosedBelow(S) /\ target[q] \notin S
    BY <2>1 DEF Below
  <2>3. PastTarget(q) /\ PastItem(q) /\ target[q] # i /\ item[q] # i
    BY CommitApart DEF PastTarget, PastItem, FolderMove
  <2>4. \E T \in SUBSET Folders : item[q] \in T /\ target[q] \notin T /\ ClosedBelow(T)'
    <3>1. CASE op[r] = "create" /\ i \in Folders
      <4>1. PICK x \in Folders : x = i
        BY <3>1
      <4>2. \A g \in Folders : Active(g) => parent[g] # x
        BY <1>1, <1>4, <3>1, <4>1, DriveAssumption DEF IInv, Tree, Hung, Active, TypeOK
      <4>3. \A g \in Folders \ {x} : (Active(g)' <=> Active(g)) /\ parent'[g] = parent[g]
        BY <1>2, <1>4, <4>1 DEF Active
      <4>4. ClosedBelow(S \cup {x})'
        BY <2>2, <4>2, <4>3 DEF ClosedBelow
      <4>5. S \cup {x} \in SUBSET Folders /\ item[q] \in S \cup {x} /\ target[q] \notin S \cup {x}
        BY <2>2, <2>3, <4>1
      <4> QED BY <4>4, <4>5
    <3>2. CASE op[r] # "create" \/ i \in Files
      <4>1. \A g \in Folders : Active(g)' => Active(g) /\ parent'[g] = parent[g]
        BY <1>1, <1>2, <1>4, <2>1, <3>2, DriveAssumption DEF Active, FolderMove, Ops
      <4>2. ClosedBelow(S)'
        BY <2>2, <4>1 DEF ClosedBelow
      <4> QED BY <2>2, <4>2
    <3> QED BY <1>1, <3>1, <3>2 DEF Items
  <2> QED BY <1>3, <2>4 DEF Below
<1>12. DeletesChecked'
  <2> SUFFICES ASSUME NEW q \in Requests, q # r, op[q] = "delete", item[q] \in Folders
               PROVE  /\ pc[q] \in {"files", "commit"} => \A g \in Folders : Active(g)' => parent'[g] # item[q]
                      /\ pc[q] = "commit" => \A g \in Files : Active(g)' => parent'[g] # item[q]
    BY <1>3, <1>4 DEF DeletesChecked
  <2> SUFFICES ASSUME pc[q] \in {"files", "commit"}, NEW g \in Items, Active(g)',
                      Active(g) => parent[g] # item[q]
               PROVE  parent'[g] # item[q]
    BY <1>4 DEF IInv, RequestInv, DeletesChecked
  <2>1. PastItem(q)
    BY DEF PastItem
  <2>2. CASE g # i
    BY <1>2, <2>2 DEF Active
  <2>3. CASE g = i
    <3>1. op[r] # "delete"
      BY <1>2, <2>3 DEF Active
    <3>2. CASE op[r] = "rename"
      BY <1>1, <1>2, <2>3, <3>2
    <3>3. CASE op[r] \in {"create", "move"}
      BY <1>1, <1>2, <2>1, <2>3, <3>3, CommitApart
    <3> QED BY <1>4, <3>1, <3>2, <3>3 DEF Ops
  <2> QED BY <2>2, <2>3
<1> QED BY <1>5, <1>6, <1>7, <1>8, <1>9, <1>10, <1>11, <1>12 DEF RequestInv

LEMMA CommitInv ==
  ASSUME IInv, NEW r \in Requests, Commit(r) PROVE IInv'
<1>1. CASE Reject(r)
  BY <1>1, RejectInv
<1>2. CASE Committed(r)
  <2>1. pc[r] = "commit"
    BY DEF Commit
  <2> QED BY <1>2, <2>1, CommitType, CommitTree, CommitRequests DEF IInv
<1> QED BY <1>1, <1>2 DEF Commit, Committed

-----------------------------------------------------------------------------
(* Every step keeps the invariant. *)

LEMMA InitInv == Init => IInv
<1> SUFFICES ASSUME Init PROVE IInv
  OBVIOUS
<1> USE DEF Init
<1>1. TypeOK
  <2>1. /\ state \in [Items -> {"unused", "active", "deleted"}]
        /\ parent \in [Items -> Folders \cup {None}]
        /\ name \in [Items -> Names \cup {None}] /\ version \in [Items -> Nat] /\ epoch \in Nat
    OBVIOUS
  <2>2. \A i \in Items : parent[i] = None <=> i = Root \/ state[i] = "unused"
    OBVIOUS
  <2>3. /\ op \in [Requests -> Ops] /\ pc \in [Requests -> Steps \cup {"idle"}]
        /\ item \in [Requests -> Items \cup {None}] /\ target \in [Requests -> Folders \cup {None}]
        /\ label \in [Requests -> Names \cup {None}] /\ seen \in [Requests -> Nat]
        /\ held \in [Requests -> SUBSET Locks]
    BY DEF Ops
  <2> QED BY <2>1, <2>2, <2>3 DEF TypeOK
<1>2. Tree
  <2>1. Active(Root) /\ Hung
    BY DriveAssumption DEF Active, Hung, Items
  <2>2. Acyclic
    BY DriveAssumption DEF Acyclic, Active, Items
  <2> QED BY <2>1, <2>2 DEF Tree
<1>3. RequestInv
  BY DEF RequestInv, WellAsked, LocksHeld, LocksExclude, NewItems, ItemsKept, TargetsKept,
         MovesChecked, DeletesChecked, PastTree, PastItem, PastTarget, FolderMove
<1> QED BY <1>1, <1>2, <1>3 DEF IInv

LEMMA NextInv ==
  ASSUME IInv, [Next]_vars PROVE IInv'
<1>1. ASSUME NEW r \in Requests, Begin(r) PROVE IInv'
  BY <1>1, BeginInv
<1>2. ASSUME NEW r \in Requests, LockTree(r) PROVE IInv'
  BY <1>2, LockTreeInv
<1>3. ASSUME NEW r \in Requests, LockItem(r) PROVE IInv'
  BY <1>3, LockItemInv
<1>4. ASSUME NEW r \in Requests, LockTarget(r) PROVE IInv'
  BY <1>4, LockTargetInv
<1>5. ASSUME NEW r \in Requests, CheckFolders(r) PROVE IInv'
  BY <1>5, CheckFoldersInv
<1>6. ASSUME NEW r \in Requests, CheckFiles(r) PROVE IInv'
  BY <1>6, CheckFilesInv
<1>7. ASSUME NEW r \in Requests, Commit(r) PROVE IInv'
  BY <1>7, CommitInv
<1>8. ASSUME NEW r \in Requests, Rollback(r) PROVE IInv'
  BY <1>8, RejectInv DEF Rollback
<1>9. ASSUME UNCHANGED vars PROVE IInv'
  <2>1. /\ UNCHANGED rows /\ UNCHANGED <<op, pc, item, target, label, seen, held>>
    BY <1>9 DEF vars, rows
  <2>2. TypeOK' /\ Tree'
    BY <2>1, RowsKeepTree DEF IInv, TypeOK, rows
  <2>3. (WellAsked /\ LocksHeld /\ LocksExclude /\ NewItems)'
    BY <2>1 DEF IInv, RequestInv, WellAsked, Asked, LocksHeld, LocksExclude, NewItems,
                PastTree, PastItem, PastTarget, FolderMove, rows
  <2>4. (ItemsKept /\ TargetsKept /\ DeletesChecked)'
    BY <2>1 DEF IInv, RequestInv, ItemsKept, TargetsKept, DeletesChecked, Active,
                PastItem, PastTarget, FolderMove, rows
  <2>5. MovesChecked'
    BY <2>1, BelowKept DEF IInv, RequestInv, MovesChecked, FolderMove
  <2> QED BY <2>2, <2>3, <2>4, <2>5 DEF IInv, RequestInv
<1> QED BY <1>1, <1>2, <1>3, <1>4, <1>5, <1>6, <1>7, <1>8, <1>9 DEF Next, Step

\* The invariant holds in every reachable state: Init establishes it and every step of
\* every request keeps it.
THEOREM Inductive == Spec => []IInv
<1>1. Init => IInv
  BY InitInv
<1>2. IInv /\ [Next]_vars => IInv'
  BY NextInv
<1> QED BY <1>1, <1>2, PTL DEF Spec

-----------------------------------------------------------------------------
(* What follows. *)

\* The rows of items and the requests stay well typed; only the root has no parent.
THEOREM TypeCorrect == Spec => []TypeOK
<1>1. IInv => TypeOK
  BY DEF IInv
<1> QED BY <1>1, Inductive, PTL

\* Whatever requests run at the same time, the active folders are a tree below the
\* root: the share lock on the target, the update lock on the row and the lock on the
\* owner's tree are enough (Move, Delete and Create of drive.Service).
THEOREM TreeTheorem == Spec => []Tree
<1>1. IInv => Tree
  BY DEF IInv
<1> QED BY <1>1, Inductive, PTL

\* Between its version check and its commit no other request writes a request's row.
THEOREM NoLostEditTheorem == Spec => []NoLostEdit
<1>1. IInv => NoLostEdit
  BY DEF IInv, RequestInv, ItemsKept, PastItem, NoLostEdit
<1> QED BY <1>1, Inductive, PTL

\* What a request waits for, in terms of the other request's progress.
LEMMA Waiting ==
  ASSUME IInv, NEW r \in Requests, NEW q \in Requests, WaitsFor(r, q)
  PROVE  /\ q # r
         /\ pc[r] \in {"tree", "item", "target"}
         /\ pc[r] = "tree" => PastTree(q)
         /\ pc[r] = "item" => \/ PastItem(q) /\ item[r] = item[q]
                              \/ PastTarget(q) /\ item[r] = target[q]
         /\ pc[r] = "target" => PastItem(q) /\ target[r] = item[q]
<1> USE DEF IInv, RequestInv
<1>1. PICK l \in Wanted(r), h \in held[q] : l[2] = h[2] /\ "update" \in {l[1], h[1]}
  BY DEF WaitsFor
<1>2. q # r /\ pc[r] \in {"tree", "item", "target"}
  BY <1>1 DEF WaitsFor, Wanted
<1>3. Asked(r) /\ item[r] \in Items
  BY <1>2 DEF WellAsked, Asked
<1>4. h \in Locks
  BY <1>1 DEF TypeOK
<1>5. h \in {<<"share", h[2]>>, <<"update", h[2]>>}
  BY <1>4 DEF Locks
<1>6. ASSUME pc[r] = "tree" PROVE PastTree(q)
  <2>1. l = <<"update", TreeLock>>
    BY <1>1, <1>6 DEF Wanted
  <2> QED BY <1>1, <1>5, <2>1 DEF LocksHeld
<1>7. ASSUME pc[r] = "item"
      PROVE  (PastItem(q) /\ item[r] = item[q]) \/ (PastTarget(q) /\ item[r] = target[q])
  <2>1. l = <<"update", item[r]>>
    BY <1>1, <1>7 DEF Wanted
  <2> QED BY <1>1, <1>3, <1>5, <2>1 DEF LocksHeld
<1>8. ASSUME pc[r] = "target" PROVE PastItem(q) /\ target[r] = item[q]
  <2>1. l = <<"share", target[r]>>
    BY <1>1, <1>8 DEF Wanted
  <2>2. target[r] \in Items
    BY <1>3, <1>8 DEF Asked, TypeOK, Items
  <2>3. h = <<"update", target[r]>>
    BY <1>1, <1>5, <2>1
  <2> QED BY <1>1, <2>2, <2>3 DEF LocksHeld
<1> QED BY <1>2, <1>6, <1>7, <1>8

\* The order of the locks (tree, folder row, target folder, file row) excludes circles:
\* the last of these locks that anyone in a circle waits for is held by someone who
\* waits for nothing.
LEMMA OrderedLocks == IInv => NoDeadlock
<1> SUFFICES ASSUME IInv, NEW S \in SUBSET Requests, S # {},
                    \A r \in S : \E q \in S : WaitsFor(r, q)
             PROVE  FALSE
  BY DEF NoDeadlock
<1> USE DEF IInv, RequestInv
<1>1. \A r \in S : r \in Requests /\ pc[r] \in {"tree", "item", "target"}
  BY Waiting
<1>2. \A r \in S : PastTree(r) => FolderMove(r) /\ pc[r] \in {"item", "target"}
  BY <1>1 DEF PastTree
<1>3. \A r \in S : PastItem(r) => FolderMove(r) /\ pc[r] = "target"
  BY <1>1 DEF PastItem
<1>4. \A r \in S : PastTarget(r) => item[r] \in Files /\ pc[r] = "item" /\ target[r] \in Folders
  <2> SUFFICES ASSUME NEW r \in S, PastTarget(r)
               PROVE  item[r] \in Files /\ pc[r] = "item" /\ target[r] \in Folders
    OBVIOUS
  <2>1. item[r] \in Files /\ pc[r] = "item" /\ op[r] = "move"
    BY <1>1 DEF PastTarget
  <2>2. Asked(r)
    BY <1>1 DEF WellAsked
  <2> QED BY <1>1, <2>1, <2>2 DEF Asked, TypeOK
<1>5. \A r \in S : pc[r] = "item" => item[r] \notin Files
  <2> SUFFICES ASSUME NEW r \in S, pc[r] = "item", item[r] \in Files PROVE FALSE
    OBVIOUS
  <2>1. PICK q \in S : WaitsFor(r, q)
    OBVIOUS
  <2>2. (PastItem(q) /\ item[r] = item[q]) \/ (PastTarget(q) /\ item[r] = target[q])
    BY <1>1, <2>1, Waiting
  <2> QED BY <1>3, <1>4, <2>2, DriveAssumption DEF FolderMove
<1>6. \A r \in S : ~PastTarget(r)
  BY <1>4, <1>5
<1>7. \A r \in S : pc[r] # "target"
  <2> SUFFICES ASSUME NEW r \in S, pc[r] = "target" PROVE FALSE
    OBVIOUS
  <2>1. PICK q \in S : WaitsFor(r, q)
    OBVIOUS
  <2>2. FolderMove(q) /\ pc[q] = "target"
    BY <1>1, <1>3, <2>1, Waiting
  <2>3. PICK s \in S : WaitsFor(q, s)
    OBVIOUS
  <2>4. s # q /\ FolderMove(s) /\ pc[s] = "target"
    BY <1>1, <1>3, <2>2, <2>3, Waiting
  <2>5. <<"update", TreeLock>> \in held[q] /\ <<"update", TreeLock>> \in held[s]
    BY <1>1, <2>2, <2>4 DEF LocksHeld, PastTree
  <2> QED BY <1>1, <2>4, <2>5 DEF LocksExclude
<1>8. \A r \in S : pc[r] = "tree"
  <2> SUFFICES ASSUME NEW r \in S, pc[r] = "item" PROVE FALSE
    BY <1>1, <1>7
  <2>1. PICK q \in S : WaitsFor(r, q)
    OBVIOUS
  <2> QED BY <1>1, <1>3, <1>6, <1>7, <2>1, Waiting
<1>9. PICK r \in S : TRUE
  OBVIOUS
<1>10. PICK q \in S : WaitsFor(r, q)
  OBVIOUS
<1> QED BY <1>1, <1>2, <1>8, <1>10, Waiting

\* No set of drive requests waits for each other: each waiting request waits, directly
\* or through others, for one that can go on.
THEOREM NoDeadlockTheorem == Spec => []NoDeadlock
<1>1. IInv => NoDeadlock
  BY OrderedLocks
<1> QED BY <1>1, Inductive, PTL


-----------------------------------------------------------------------------
(* Listings: DriveListing *)

Ranks == [FolderIds \cup FileIds -> 0 .. MaxRank]
FoldersAt(log, e) == Listing!ListingOf(FolderIds, log[e])
FilesAt(log, e) == Listing!ListingOf(FileIds, log[e])

\* A request, field by field: what the queries return is not looked into.
Row(p, k, s, e, a, t, fo, fi, g) ==
  [pc |-> p, kind |-> k, start |-> s, epoch |-> e, after |-> a, at |-> t, folders |-> fo, files |-> fi, got |-> g]
Shape(x) == x = Row(x.pc, x.kind, x.start, x.epoch, x.after, x.at, x.folders, x.files, x.got)

\* Folders, and then files, were read at epochs of e .. n, in this order.
ReadIn(log, n, e, fo, fi) ==
  \E f, g \in e .. n : f <= g /\ fo = FoldersAt(log, f) /\ fi = FilesAt(log, g)

RequestOK(log, n, x) ==
  /\ x.pc \in {"idle", "epoch", "lookup", "folders", "files", "fill", "publish", "answer", "done"}
  /\ x.kind = "all" /\ x.after = Nothing
  /\ x.pc # "idle" => x.start \in 1 .. n
  /\ x.pc \notin {"idle", "epoch"} => x.epoch \in x.start .. n
  /\ x.pc = "files" => \E f \in x.epoch .. n : x.folders = FoldersAt(log, f)
  /\ x.pc \in {"fill", "publish", "answer"} => ReadIn(log, n, x.epoch, x.folders, x.files)
  /\ x.pc = "done" =>
       \E f, g \in x.start .. n : f <= g /\ x.got = FoldersAt(log, f) \o FilesAt(log, g)

\* What a cache holds under a key was read since the epoch that the key names.
CacheOK(log, n, cache) ==
  /\ DOMAIN cache = Listing!Keys
  /\ \A e \in 1 .. MaxWrites :
       cache[<<"all", e>>] # Nothing => ReadIn(log, n, e, cache[<<"all", e>>].folders, cache[<<"all", e>>].files)

LogOK == /\ ownerEpoch \in 1 .. MaxWrites /\ rank \in Ranks
         /\ past \in Seq(Ranks) /\ Len(past) = ownerEpoch /\ past[ownerEpoch] = rank

AllInv ==
  /\ LogOK
  /\ DOMAIN rd = Readers /\ \A r \in Readers : Shape(rd[r]) /\ RequestOK(past, ownerEpoch, rd[r])
  /\ CacheOK(past, ownerEpoch, shared)
  /\ DOMAIN local = Processes /\ \A p \in Processes : CacheOK(past, ownerEpoch, local[p])

LEMMA RowFields ==
  ASSUME NEW p, NEW k, NEW s, NEW e, NEW a, NEW t, NEW fo, NEW fi, NEW g, NEW x, x = Row(p, k, s, e, a, t, fo, fi, g)
  PROVE  /\ x.pc = p /\ x.kind = k /\ x.start = s /\ x.epoch = e /\ x.after = a /\ x.at = t
         /\ x.folders = fo /\ x.files = fi /\ x.got = g
         /\ Shape(x)
BY DEF Row, Shape

\* The updates that the requests make, as operators, and what each leaves of a row.
WithPc(x, v) == [x EXCEPT !.pc = v]
WithStart(x, v) == [x EXCEPT !.start = v]
WithEpoch(x, v) == [x EXCEPT !.epoch = v]
WithAfter(x, v) == [x EXCEPT !.after = v]
WithAt(x, v) == [x EXCEPT !.at = v]
WithFolders(x, v) == [x EXCEPT !.folders = v]
WithFiles(x, v) == [x EXCEPT !.files = v]
WithGot(x, v) == [x EXCEPT !.got = v]
WithPcStart(x, v1, v2) == [x EXCEPT !.pc = v1, !.start = v2]
WithEpochPc(x, v1, v2) == [x EXCEPT !.epoch = v1, !.pc = v2]
WithFoldersPc(x, v1, v2) == [x EXCEPT !.folders = v1, !.pc = v2]
WithFilesPc(x, v1, v2) == [x EXCEPT !.files = v1, !.pc = v2]
WithFoldersFilesPc(x, v1, v2, v3) == [x EXCEPT !.folders = v1, !.files = v2, !.pc = v3]
WithEpochFoldersFilesPc(x, v1, v2, v3, v4) == [x EXCEPT !.epoch = v1, !.folders = v2, !.files = v3, !.pc = v4]
WithGotFoldersFilesPc(x, v1, v2, v3, v4) == [x EXCEPT !.got = v1, !.folders = v2, !.files = v3, !.pc = v4]
WithGotFoldersFilesPcAfterAt(x, v1, v2, v3, v4, v5, v6) == [x EXCEPT !.got = v1, !.folders = v2, !.files = v3, !.pc = v4, !.after = v5, !.at = v6]

LEMMA SetPc ==
  ASSUME NEW x, Shape(x), NEW v, NEW y, y = WithPc(x, v)
  PROVE  /\ Shape(y)
         /\ y.pc = v /\ y.kind = x.kind /\ y.start = x.start /\ y.epoch = x.epoch /\ y.after = x.after
         /\ y.at = x.at /\ y.folders = x.folders /\ y.files = x.files /\ y.got = x.got
<1> PICK p0, k0, s0, e0, a0, t0, fo0, fi0, g0 : x = Row(p0, k0, s0, e0, a0, t0, fo0, fi0, g0)
  BY DEF Shape
<1>1. y = Row(v, k0, s0, e0, a0, t0, fo0, fi0, g0)
  BY DEF Row, WithPc
<1> QED BY <1>1, RowFields

LEMMA SetStart ==
  ASSUME NEW x, Shape(x), NEW v, NEW y, y = WithStart(x, v)
  PROVE  /\ Shape(y)
         /\ y.pc = x.pc /\ y.kind = x.kind /\ y.start = v /\ y.epoch = x.epoch /\ y.after = x.after
         /\ y.at = x.at /\ y.folders = x.folders /\ y.files = x.files /\ y.got = x.got
<1> PICK p0, k0, s0, e0, a0, t0, fo0, fi0, g0 : x = Row(p0, k0, s0, e0, a0, t0, fo0, fi0, g0)
  BY DEF Shape
<1>1. y = Row(p0, k0, v, e0, a0, t0, fo0, fi0, g0)
  BY DEF Row, WithStart
<1> QED BY <1>1, RowFields

LEMMA SetEpoch ==
  ASSUME NEW x, Shape(x), NEW v, NEW y, y = WithEpoch(x, v)
  PROVE  /\ Shape(y)
         /\ y.pc = x.pc /\ y.kind = x.kind /\ y.start = x.start /\ y.epoch = v /\ y.after = x.after
         /\ y.at = x.at /\ y.folders = x.folders /\ y.files = x.files /\ y.got = x.got
<1> PICK p0, k0, s0, e0, a0, t0, fo0, fi0, g0 : x = Row(p0, k0, s0, e0, a0, t0, fo0, fi0, g0)
  BY DEF Shape
<1>1. y = Row(p0, k0, s0, v, a0, t0, fo0, fi0, g0)
  BY DEF Row, WithEpoch
<1> QED BY <1>1, RowFields

LEMMA SetAfter ==
  ASSUME NEW x, Shape(x), NEW v, NEW y, y = WithAfter(x, v)
  PROVE  /\ Shape(y)
         /\ y.pc = x.pc /\ y.kind = x.kind /\ y.start = x.start /\ y.epoch = x.epoch /\ y.after = v
         /\ y.at = x.at /\ y.folders = x.folders /\ y.files = x.files /\ y.got = x.got
<1> PICK p0, k0, s0, e0, a0, t0, fo0, fi0, g0 : x = Row(p0, k0, s0, e0, a0, t0, fo0, fi0, g0)
  BY DEF Shape
<1>1. y = Row(p0, k0, s0, e0, v, t0, fo0, fi0, g0)
  BY DEF Row, WithAfter
<1> QED BY <1>1, RowFields

LEMMA SetAt ==
  ASSUME NEW x, Shape(x), NEW v, NEW y, y = WithAt(x, v)
  PROVE  /\ Shape(y)
         /\ y.pc = x.pc /\ y.kind = x.kind /\ y.start = x.start /\ y.epoch = x.epoch /\ y.after = x.after
         /\ y.at = v /\ y.folders = x.folders /\ y.files = x.files /\ y.got = x.got
<1> PICK p0, k0, s0, e0, a0, t0, fo0, fi0, g0 : x = Row(p0, k0, s0, e0, a0, t0, fo0, fi0, g0)
  BY DEF Shape
<1>1. y = Row(p0, k0, s0, e0, a0, v, fo0, fi0, g0)
  BY DEF Row, WithAt
<1> QED BY <1>1, RowFields

LEMMA SetFolders ==
  ASSUME NEW x, Shape(x), NEW v, NEW y, y = WithFolders(x, v)
  PROVE  /\ Shape(y)
         /\ y.pc = x.pc /\ y.kind = x.kind /\ y.start = x.start /\ y.epoch = x.epoch /\ y.after = x.after
         /\ y.at = x.at /\ y.folders = v /\ y.files = x.files /\ y.got = x.got
<1> PICK p0, k0, s0, e0, a0, t0, fo0, fi0, g0 : x = Row(p0, k0, s0, e0, a0, t0, fo0, fi0, g0)
  BY DEF Shape
<1>1. y = Row(p0, k0, s0, e0, a0, t0, v, fi0, g0)
  BY DEF Row, WithFolders
<1> QED BY <1>1, RowFields

LEMMA SetFiles ==
  ASSUME NEW x, Shape(x), NEW v, NEW y, y = WithFiles(x, v)
  PROVE  /\ Shape(y)
         /\ y.pc = x.pc /\ y.kind = x.kind /\ y.start = x.start /\ y.epoch = x.epoch /\ y.after = x.after
         /\ y.at = x.at /\ y.folders = x.folders /\ y.files = v /\ y.got = x.got
<1> PICK p0, k0, s0, e0, a0, t0, fo0, fi0, g0 : x = Row(p0, k0, s0, e0, a0, t0, fo0, fi0, g0)
  BY DEF Shape
<1>1. y = Row(p0, k0, s0, e0, a0, t0, fo0, v, g0)
  BY DEF Row, WithFiles
<1> QED BY <1>1, RowFields

LEMMA SetGot ==
  ASSUME NEW x, Shape(x), NEW v, NEW y, y = WithGot(x, v)
  PROVE  /\ Shape(y)
         /\ y.pc = x.pc /\ y.kind = x.kind /\ y.start = x.start /\ y.epoch = x.epoch /\ y.after = x.after
         /\ y.at = x.at /\ y.folders = x.folders /\ y.files = x.files /\ y.got = v
<1> PICK p0, k0, s0, e0, a0, t0, fo0, fi0, g0 : x = Row(p0, k0, s0, e0, a0, t0, fo0, fi0, g0)
  BY DEF Shape
<1>1. y = Row(p0, k0, s0, e0, a0, t0, fo0, fi0, v)
  BY DEF Row, WithGot
<1> QED BY <1>1, RowFields

LEMMA SetPcStart ==
  ASSUME NEW x, Shape(x), NEW v1, NEW v2, NEW w, w = WithPcStart(x, v1, v2)
  PROVE  /\ Shape(w)
         /\ w.pc = v1 /\ w.kind = x.kind /\ w.start = v2 /\ w.epoch = x.epoch /\ w.after = x.after
         /\ w.at = x.at /\ w.folders = x.folders /\ w.files = x.files /\ w.got = x.got
<1> DEFINE y1 == WithPc(x, v1)
<1> DEFINE y2 == WithStart(y1, v2)
<1>0. WithPcStart(x, v1, v2) = y2
  BY DEF WithPcStart, WithPc, WithStart
<1>1. /\ Shape(y1)
         /\ y1.pc = v1 /\ y1.kind = x.kind /\ y1.start = x.start /\ y1.epoch = x.epoch /\ y1.after = x.after
         /\ y1.at = x.at /\ y1.folders = x.folders /\ y1.files = x.files /\ y1.got = x.got
  <2> QED BY SetPc
<1>2. /\ Shape(y2)
         /\ y2.pc = v1 /\ y2.kind = x.kind /\ y2.start = v2 /\ y2.epoch = x.epoch /\ y2.after = x.after
         /\ y2.at = x.at /\ y2.folders = x.folders /\ y2.files = x.files /\ y2.got = x.got
  <2> HIDE DEF y1
  <2> QED BY <1>1, SetStart
<1> HIDE DEF y1, y2
<1> QED BY <1>0, <1>2

LEMMA SetEpochPc ==
  ASSUME NEW x, Shape(x), NEW v1, NEW v2, NEW w, w = WithEpochPc(x, v1, v2)
  PROVE  /\ Shape(w)
         /\ w.pc = v2 /\ w.kind = x.kind /\ w.start = x.start /\ w.epoch = v1 /\ w.after = x.after
         /\ w.at = x.at /\ w.folders = x.folders /\ w.files = x.files /\ w.got = x.got
<1> DEFINE y1 == WithEpoch(x, v1)
<1> DEFINE y2 == WithPc(y1, v2)
<1>0. WithEpochPc(x, v1, v2) = y2
  BY DEF WithEpochPc, WithEpoch, WithPc
<1>1. /\ Shape(y1)
         /\ y1.pc = x.pc /\ y1.kind = x.kind /\ y1.start = x.start /\ y1.epoch = v1 /\ y1.after = x.after
         /\ y1.at = x.at /\ y1.folders = x.folders /\ y1.files = x.files /\ y1.got = x.got
  <2> QED BY SetEpoch
<1>2. /\ Shape(y2)
         /\ y2.pc = v2 /\ y2.kind = x.kind /\ y2.start = x.start /\ y2.epoch = v1 /\ y2.after = x.after
         /\ y2.at = x.at /\ y2.folders = x.folders /\ y2.files = x.files /\ y2.got = x.got
  <2> HIDE DEF y1
  <2> QED BY <1>1, SetPc
<1> HIDE DEF y1, y2
<1> QED BY <1>0, <1>2

LEMMA SetFoldersPc ==
  ASSUME NEW x, Shape(x), NEW v1, NEW v2, NEW w, w = WithFoldersPc(x, v1, v2)
  PROVE  /\ Shape(w)
         /\ w.pc = v2 /\ w.kind = x.kind /\ w.start = x.start /\ w.epoch = x.epoch /\ w.after = x.after
         /\ w.at = x.at /\ w.folders = v1 /\ w.files = x.files /\ w.got = x.got
<1> DEFINE y1 == WithFolders(x, v1)
<1> DEFINE y2 == WithPc(y1, v2)
<1>0. WithFoldersPc(x, v1, v2) = y2
  BY DEF WithFoldersPc, WithFolders, WithPc
<1>1. /\ Shape(y1)
         /\ y1.pc = x.pc /\ y1.kind = x.kind /\ y1.start = x.start /\ y1.epoch = x.epoch /\ y1.after = x.after
         /\ y1.at = x.at /\ y1.folders = v1 /\ y1.files = x.files /\ y1.got = x.got
  <2> QED BY SetFolders
<1>2. /\ Shape(y2)
         /\ y2.pc = v2 /\ y2.kind = x.kind /\ y2.start = x.start /\ y2.epoch = x.epoch /\ y2.after = x.after
         /\ y2.at = x.at /\ y2.folders = v1 /\ y2.files = x.files /\ y2.got = x.got
  <2> HIDE DEF y1
  <2> QED BY <1>1, SetPc
<1> HIDE DEF y1, y2
<1> QED BY <1>0, <1>2

LEMMA SetFilesPc ==
  ASSUME NEW x, Shape(x), NEW v1, NEW v2, NEW w, w = WithFilesPc(x, v1, v2)
  PROVE  /\ Shape(w)
         /\ w.pc = v2 /\ w.kind = x.kind /\ w.start = x.start /\ w.epoch = x.epoch /\ w.after = x.after
         /\ w.at = x.at /\ w.folders = x.folders /\ w.files = v1 /\ w.got = x.got
<1> DEFINE y1 == WithFiles(x, v1)
<1> DEFINE y2 == WithPc(y1, v2)
<1>0. WithFilesPc(x, v1, v2) = y2
  BY DEF WithFilesPc, WithFiles, WithPc
<1>1. /\ Shape(y1)
         /\ y1.pc = x.pc /\ y1.kind = x.kind /\ y1.start = x.start /\ y1.epoch = x.epoch /\ y1.after = x.after
         /\ y1.at = x.at /\ y1.folders = x.folders /\ y1.files = v1 /\ y1.got = x.got
  <2> QED BY SetFiles
<1>2. /\ Shape(y2)
         /\ y2.pc = v2 /\ y2.kind = x.kind /\ y2.start = x.start /\ y2.epoch = x.epoch /\ y2.after = x.after
         /\ y2.at = x.at /\ y2.folders = x.folders /\ y2.files = v1 /\ y2.got = x.got
  <2> HIDE DEF y1
  <2> QED BY <1>1, SetPc
<1> HIDE DEF y1, y2
<1> QED BY <1>0, <1>2

LEMMA SetFoldersFilesPc ==
  ASSUME NEW x, Shape(x), NEW v1, NEW v2, NEW v3, NEW w, w = WithFoldersFilesPc(x, v1, v2, v3)
  PROVE  /\ Shape(w)
         /\ w.pc = v3 /\ w.kind = x.kind /\ w.start = x.start /\ w.epoch = x.epoch /\ w.after = x.after
         /\ w.at = x.at /\ w.folders = v1 /\ w.files = v2 /\ w.got = x.got
<1> DEFINE y1 == WithFolders(x, v1)
<1> DEFINE y2 == WithFiles(y1, v2)
<1> DEFINE y3 == WithPc(y2, v3)
<1>0. WithFoldersFilesPc(x, v1, v2, v3) = y3
  BY DEF WithFoldersFilesPc, WithFolders, WithFiles, WithPc
<1>1. /\ Shape(y1)
         /\ y1.pc = x.pc /\ y1.kind = x.kind /\ y1.start = x.start /\ y1.epoch = x.epoch /\ y1.after = x.after
         /\ y1.at = x.at /\ y1.folders = v1 /\ y1.files = x.files /\ y1.got = x.got
  <2> QED BY SetFolders
<1>2. /\ Shape(y2)
         /\ y2.pc = x.pc /\ y2.kind = x.kind /\ y2.start = x.start /\ y2.epoch = x.epoch /\ y2.after = x.after
         /\ y2.at = x.at /\ y2.folders = v1 /\ y2.files = v2 /\ y2.got = x.got
  <2> HIDE DEF y1
  <2> QED BY <1>1, SetFiles
<1>3. /\ Shape(y3)
         /\ y3.pc = v3 /\ y3.kind = x.kind /\ y3.start = x.start /\ y3.epoch = x.epoch /\ y3.after = x.after
         /\ y3.at = x.at /\ y3.folders = v1 /\ y3.files = v2 /\ y3.got = x.got
  <2> HIDE DEF y2
  <2> QED BY <1>2, SetPc
<1> HIDE DEF y1, y2, y3
<1> QED BY <1>0, <1>3

LEMMA SetEpochFoldersFilesPc ==
  ASSUME NEW x, Shape(x), NEW v1, NEW v2, NEW v3, NEW v4, NEW w, w = WithEpochFoldersFilesPc(x, v1, v2, v3, v4)
  PROVE  /\ Shape(w)
         /\ w.pc = v4 /\ w.kind = x.kind /\ w.start = x.start /\ w.epoch = v1 /\ w.after = x.after
         /\ w.at = x.at /\ w.folders = v2 /\ w.files = v3 /\ w.got = x.got
<1> DEFINE y1 == WithEpoch(x, v1)
<1> DEFINE y2 == WithFolders(y1, v2)
<1> DEFINE y3 == WithFiles(y2, v3)
<1> DEFINE y4 == WithPc(y3, v4)
<1>0. WithEpochFoldersFilesPc(x, v1, v2, v3, v4) = y4
  BY DEF WithEpochFoldersFilesPc, WithEpoch, WithFolders, WithFiles, WithPc
<1>1. /\ Shape(y1)
         /\ y1.pc = x.pc /\ y1.kind = x.kind /\ y1.start = x.start /\ y1.epoch = v1 /\ y1.after = x.after
         /\ y1.at = x.at /\ y1.folders = x.folders /\ y1.files = x.files /\ y1.got = x.got
  <2> QED BY SetEpoch
<1>2. /\ Shape(y2)
         /\ y2.pc = x.pc /\ y2.kind = x.kind /\ y2.start = x.start /\ y2.epoch = v1 /\ y2.after = x.after
         /\ y2.at = x.at /\ y2.folders = v2 /\ y2.files = x.files /\ y2.got = x.got
  <2> HIDE DEF y1
  <2> QED BY <1>1, SetFolders
<1>3. /\ Shape(y3)
         /\ y3.pc = x.pc /\ y3.kind = x.kind /\ y3.start = x.start /\ y3.epoch = v1 /\ y3.after = x.after
         /\ y3.at = x.at /\ y3.folders = v2 /\ y3.files = v3 /\ y3.got = x.got
  <2> HIDE DEF y2
  <2> QED BY <1>2, SetFiles
<1>4. /\ Shape(y4)
         /\ y4.pc = v4 /\ y4.kind = x.kind /\ y4.start = x.start /\ y4.epoch = v1 /\ y4.after = x.after
         /\ y4.at = x.at /\ y4.folders = v2 /\ y4.files = v3 /\ y4.got = x.got
  <2> HIDE DEF y3
  <2> QED BY <1>3, SetPc
<1> HIDE DEF y1, y2, y3, y4
<1> QED BY <1>0, <1>4

LEMMA SetGotFoldersFilesPc ==
  ASSUME NEW x, Shape(x), NEW v1, NEW v2, NEW v3, NEW v4, NEW w, w = WithGotFoldersFilesPc(x, v1, v2, v3, v4)
  PROVE  /\ Shape(w)
         /\ w.pc = v4 /\ w.kind = x.kind /\ w.start = x.start /\ w.epoch = x.epoch /\ w.after = x.after
         /\ w.at = x.at /\ w.folders = v2 /\ w.files = v3 /\ w.got = v1
<1> DEFINE y1 == WithGot(x, v1)
<1> DEFINE y2 == WithFolders(y1, v2)
<1> DEFINE y3 == WithFiles(y2, v3)
<1> DEFINE y4 == WithPc(y3, v4)
<1>0. WithGotFoldersFilesPc(x, v1, v2, v3, v4) = y4
  BY DEF WithGotFoldersFilesPc, WithGot, WithFolders, WithFiles, WithPc
<1>1. /\ Shape(y1)
         /\ y1.pc = x.pc /\ y1.kind = x.kind /\ y1.start = x.start /\ y1.epoch = x.epoch /\ y1.after = x.after
         /\ y1.at = x.at /\ y1.folders = x.folders /\ y1.files = x.files /\ y1.got = v1
  <2> QED BY SetGot
<1>2. /\ Shape(y2)
         /\ y2.pc = x.pc /\ y2.kind = x.kind /\ y2.start = x.start /\ y2.epoch = x.epoch /\ y2.after = x.after
         /\ y2.at = x.at /\ y2.folders = v2 /\ y2.files = x.files /\ y2.got = v1
  <2> HIDE DEF y1
  <2> QED BY <1>1, SetFolders
<1>3. /\ Shape(y3)
         /\ y3.pc = x.pc /\ y3.kind = x.kind /\ y3.start = x.start /\ y3.epoch = x.epoch /\ y3.after = x.after
         /\ y3.at = x.at /\ y3.folders = v2 /\ y3.files = v3 /\ y3.got = v1
  <2> HIDE DEF y2
  <2> QED BY <1>2, SetFiles
<1>4. /\ Shape(y4)
         /\ y4.pc = v4 /\ y4.kind = x.kind /\ y4.start = x.start /\ y4.epoch = x.epoch /\ y4.after = x.after
         /\ y4.at = x.at /\ y4.folders = v2 /\ y4.files = v3 /\ y4.got = v1
  <2> HIDE DEF y3
  <2> QED BY <1>3, SetPc
<1> HIDE DEF y1, y2, y3, y4
<1> QED BY <1>0, <1>4

LEMMA SetGotFoldersFilesPcAfterAt ==
  ASSUME NEW x, Shape(x), NEW v1, NEW v2, NEW v3, NEW v4, NEW v5, NEW v6, NEW w, w = WithGotFoldersFilesPcAfterAt(x, v1, v2, v3, v4, v5, v6)
  PROVE  /\ Shape(w)
         /\ w.pc = v4 /\ w.kind = x.kind /\ w.start = x.start /\ w.epoch = x.epoch /\ w.after = v5
         /\ w.at = v6 /\ w.folders = v2 /\ w.files = v3 /\ w.got = v1
<1> DEFINE y1 == WithGot(x, v1)
<1> DEFINE y2 == WithFolders(y1, v2)
<1> DEFINE y3 == WithFiles(y2, v3)
<1> DEFINE y4 == WithPc(y3, v4)
<1> DEFINE y5 == WithAfter(y4, v5)
<1> DEFINE y6 == WithAt(y5, v6)
<1>0. WithGotFoldersFilesPcAfterAt(x, v1, v2, v3, v4, v5, v6) = y6
  BY DEF WithGotFoldersFilesPcAfterAt, WithGot, WithFolders, WithFiles, WithPc, WithAfter, WithAt
<1>1. /\ Shape(y1)
         /\ y1.pc = x.pc /\ y1.kind = x.kind /\ y1.start = x.start /\ y1.epoch = x.epoch /\ y1.after = x.after
         /\ y1.at = x.at /\ y1.folders = x.folders /\ y1.files = x.files /\ y1.got = v1
  <2> QED BY SetGot
<1>2. /\ Shape(y2)
         /\ y2.pc = x.pc /\ y2.kind = x.kind /\ y2.start = x.start /\ y2.epoch = x.epoch /\ y2.after = x.after
         /\ y2.at = x.at /\ y2.folders = v2 /\ y2.files = x.files /\ y2.got = v1
  <2> HIDE DEF y1
  <2> QED BY <1>1, SetFolders
<1>3. /\ Shape(y3)
         /\ y3.pc = x.pc /\ y3.kind = x.kind /\ y3.start = x.start /\ y3.epoch = x.epoch /\ y3.after = x.after
         /\ y3.at = x.at /\ y3.folders = v2 /\ y3.files = v3 /\ y3.got = v1
  <2> HIDE DEF y2
  <2> QED BY <1>2, SetFiles
<1>4. /\ Shape(y4)
         /\ y4.pc = v4 /\ y4.kind = x.kind /\ y4.start = x.start /\ y4.epoch = x.epoch /\ y4.after = x.after
         /\ y4.at = x.at /\ y4.folders = v2 /\ y4.files = v3 /\ y4.got = v1
  <2> HIDE DEF y3
  <2> QED BY <1>3, SetPc
<1>5. /\ Shape(y5)
         /\ y5.pc = v4 /\ y5.kind = x.kind /\ y5.start = x.start /\ y5.epoch = x.epoch /\ y5.after = v5
         /\ y5.at = x.at /\ y5.folders = v2 /\ y5.files = v3 /\ y5.got = v1
  <2> HIDE DEF y4
  <2> QED BY <1>4, SetAfter
<1>6. /\ Shape(y6)
         /\ y6.pc = v4 /\ y6.kind = x.kind /\ y6.start = x.start /\ y6.epoch = x.epoch /\ y6.after = v5
         /\ y6.at = v6 /\ y6.folders = v2 /\ y6.files = v3 /\ y6.got = v1
  <2> HIDE DEF y5
  <2> QED BY <1>5, SetAt
<1> HIDE DEF y1, y2, y3, y4, y5, y6
<1> QED BY <1>0, <1>6

LEMMA IdleRow ==
  ASSUME NEW k
  PROVE  Shape(Listing!Idle(k)) /\ Listing!Idle(k).kind = k
BY DEF Row, Shape, Listing!Idle

-----------------------------------------------------------------------------
\* A write adds an epoch to the log and takes nothing from it.
LEMMA LogGrows ==
  ASSUME LogOK, MaxWrites \in Nat, NEW i \in FolderIds \cup FileIds, NEW to \in 0 .. MaxRank, Listing!Write(i, to)
  PROVE  /\ ownerEpoch' \in 1 .. MaxWrites /\ rank' \in Ranks /\ past' \in Seq(Ranks)
         /\ Len(past') = ownerEpoch' /\ past'[ownerEpoch'] = rank'
         /\ ownerEpoch' = ownerEpoch + 1 /\ \A e \in 1 .. ownerEpoch : past'[e] = past[e]
<1>1. ownerEpoch < MaxWrites /\ ownerEpoch' = ownerEpoch + 1 /\ rank' = [rank EXCEPT ![i] = to] /\ past' = Append(past, rank')
  BY DEF Listing!Write
<1>2. rank' \in Ranks
  BY <1>1 DEF LogOK, Ranks
<1> DEFINE new == rank'
<1>3. past' = Append(past, new) /\ new \in Ranks
  BY <1>1, <1>2
<1> HIDE DEF new
<1>4. /\ past' \in Seq(Ranks) /\ Len(past') = Len(past) + 1 /\ past'[Len(past) + 1] = new
      /\ \A e \in 1 .. Len(past) : past'[e] = past[e]
  BY <1>3, AppendProperties DEF LogOK
<1>5. Len(past) = ownerEpoch /\ ownerEpoch \in 1 .. MaxWrites
  BY DEF LogOK
<1> QED BY <1>1, <1>2, <1>4, <1>5 DEF new

LEMMA ReadGrows ==
  ASSUME NEW n \in Nat, NEW log, NEW longer, \A e \in 1 .. n : longer[e] = log[e],
         NEW e \in Nat \ {0}, NEW fo, NEW fi, ReadIn(log, n, e, fo, fi)
  PROVE  ReadIn(longer, n + 1, e, fo, fi)
<1>1. PICK f \in e .. n, g \in e .. n : f <= g /\ fo = FoldersAt(log, f) /\ fi = FilesAt(log, g)
  BY DEF ReadIn
<1>2. longer[f] = log[f] /\ longer[g] = log[g] /\ f \in e .. n + 1 /\ g \in e .. n + 1
  BY <1>1
<1>3. fo = FoldersAt(longer, f) /\ fi = FilesAt(longer, g)
  BY <1>1, <1>2 DEF FoldersAt, FilesAt
<1> QED BY <1>1, <1>2, <1>3 DEF ReadIn

LEMMA RequestGrows ==
  ASSUME NEW n \in Nat, NEW log, NEW longer, \A e \in 1 .. n : longer[e] = log[e],
         NEW x, RequestOK(log, n, x)
  PROVE  RequestOK(longer, n + 1, x)
<1>1. x.pc # "idle" => x.start \in 1 .. n + 1
  BY DEF RequestOK
<1>2. x.pc \notin {"idle", "epoch"} => x.epoch \in x.start .. n + 1
  BY DEF RequestOK
<1>3. ASSUME x.pc = "files" PROVE \E f \in x.epoch .. n + 1 : x.folders = FoldersAt(longer, f)
  <2>1. PICK f \in x.epoch .. n : x.folders = FoldersAt(log, f)
    BY <1>3 DEF RequestOK
  <2>2. x.start \in 1 .. n /\ x.epoch \in x.start .. n
    BY <1>3 DEF RequestOK
  <2>3. longer[f] = log[f] /\ f \in x.epoch .. n + 1
    BY <2>2
  <2> QED BY <2>1, <2>3 DEF FoldersAt
<1>4. ASSUME x.pc \in {"fill", "publish", "answer"} PROVE ReadIn(longer, n + 1, x.epoch, x.folders, x.files)
  <2>1. x.start \in 1 .. n /\ x.epoch \in x.start .. n
    BY <1>4 DEF RequestOK
  <2>2. x.epoch \in Nat \ {0}
    BY <2>1
  <2>3. ReadIn(log, n, x.epoch, x.folders, x.files)
    BY <1>4 DEF RequestOK
  <2> QED BY <2>2, <2>3, ReadGrows
<1>5. ASSUME x.pc = "done"
      PROVE  \E f, g \in x.start .. n + 1 : f <= g /\ x.got = FoldersAt(longer, f) \o FilesAt(longer, g)
  <2>1. x.start \in 1 .. n
    BY <1>5 DEF RequestOK
  <2>2. PICK f \in x.start .. n, g \in x.start .. n : f <= g /\ x.got = FoldersAt(log, f) \o FilesAt(log, g)
    BY <1>5 DEF RequestOK
  <2>3. longer[f] = log[f] /\ longer[g] = log[g] /\ f \in x.start .. n + 1 /\ g \in x.start .. n + 1
    BY <2>1, <2>2
  <2>4. x.got = FoldersAt(longer, f) \o FilesAt(longer, g)
    BY <2>2, <2>3 DEF FoldersAt, FilesAt
  <2> QED BY <2>2, <2>3, <2>4
<1>6. x.kind = "all" /\ x.after = Nothing
      /\ x.pc \in {"idle", "epoch", "lookup", "folders", "files", "fill", "publish", "answer", "done"}
  BY DEF RequestOK
<1> QED BY <1>1, <1>2, <1>3, <1>4, <1>5, <1>6 DEF RequestOK

LEMMA CacheGrows ==
  ASSUME NEW n \in Nat, NEW log, NEW longer, \A e \in 1 .. n : longer[e] = log[e],
         NEW cache, CacheOK(log, n, cache)
  PROVE  CacheOK(longer, n + 1, cache)
<1>1. ASSUME NEW e \in 1 .. MaxWrites, cache[<<"all", e>>] # Nothing
      PROVE  ReadIn(longer, n + 1, e, cache[<<"all", e>>].folders, cache[<<"all", e>>].files)
  <2>1. ReadIn(log, n, e, cache[<<"all", e>>].folders, cache[<<"all", e>>].files)
    BY <1>1 DEF CacheOK
  <2>2. e \in Nat \ {0}
    OBVIOUS
  <2> QED BY <2>1, <2>2, ReadGrows
<1> QED BY <1>1 DEF CacheOK

LEMMA WriteStep ==
  ASSUME AllInv, MaxWrites \in Nat, NEW i \in FolderIds \cup FileIds, NEW to \in 0 .. MaxRank, Listing!Write(i, to)
  PROVE  AllInv'
<1>1. LogOK' /\ ownerEpoch' = ownerEpoch + 1 /\ \A e \in 1 .. ownerEpoch : past'[e] = past[e]
  BY LogGrows DEF AllInv, LogOK
<1>2. ownerEpoch \in Nat
  BY DEF AllInv, LogOK
<1>3. UNCHANGED <<local, shared, rd>>
  BY DEF Listing!Write
<1> DEFINE later == past'
<1>4. \A e \in 1 .. ownerEpoch : later[e] = past[e]
  BY <1>1
<1> HIDE DEF later
<1>5. \A r \in Readers : RequestOK(later, ownerEpoch + 1, rd[r])
  BY <1>2, <1>4, RequestGrows DEF AllInv
<1>6. CacheOK(later, ownerEpoch + 1, shared) /\ \A p \in Processes : CacheOK(later, ownerEpoch + 1, local[p])
  BY <1>2, <1>4, CacheGrows DEF AllInv
<1> QED BY <1>1, <1>3, <1>5, <1>6 DEF AllInv, later

\* A step of a request, of which the caches keep what was read.
LEMMA AllMove ==
  ASSUME AllInv, NEW r \in Readers, NEW y, Shape(y), RequestOK(past, ownerEpoch, y), rd' = [rd EXCEPT ![r] = y],
         UNCHANGED <<rank, ownerEpoch, past>>,
         CacheOK(past, ownerEpoch, shared'),
         DOMAIN local' = Processes, \A p \in Processes : CacheOK(past, ownerEpoch, local'[p])
  PROVE  AllInv'
<1>1. DOMAIN rd' = Readers /\ rd'[r] = y /\ \A s \in Readers : s # r => rd'[s] = rd[s]
  BY DEF AllInv
<1>2. \A s \in Readers : Shape(rd'[s]) /\ RequestOK(past, ownerEpoch, rd'[s])
  BY <1>1 DEF AllInv
<1> QED BY <1>1, <1>2 DEF AllInv, LogOK

LEMMA AllReads ==
  ASSUME AllInv, NEW r \in Readers, NEW y, Shape(y), RequestOK(past, ownerEpoch, y), rd' = [rd EXCEPT ![r] = y],
         Listing!ReadOnly
  PROVE  AllInv'
BY AllMove DEF AllInv, Listing!ReadOnly

\* What the queries see.
LEMMA Queries ==
  ASSUME AllInv, NEW r \in Readers
  PROVE  Listing!FolderRows(r) = FoldersAt(past, ownerEpoch) /\ Listing!FileRows(r) = FilesAt(past, ownerEpoch)
<1>1. rd[r].kind = "all" /\ past[ownerEpoch] = rank
  BY DEF AllInv, RequestOK, LogOK
<1>2. Listing!FolderRows(r) = Listing!Sorted(Listing!Present(FolderIds), rank)
  BY <1>1 DEF Listing!FolderRows
<1>3. Listing!FileRows(r) = Listing!Sorted(Listing!Present(FileIds), rank)
  BY <1>1 DEF Listing!FileRows
<1>4. FoldersAt(past, ownerEpoch) = Listing!Sorted(Listing!Present(FolderIds), rank)
  BY <1>1 DEF FoldersAt, Listing!ListingOf, Listing!Present
<1>5. FilesAt(past, ownerEpoch) = Listing!Sorted(Listing!Present(FileIds), rank)
  BY <1>1 DEF FilesAt, Listing!ListingOf, Listing!Present
<1> QED BY <1>2, <1>3, <1>4, <1>5


-----------------------------------------------------------------------------
LEMMA AskAll ==
  ASSUME AllInv, NEW r \in Readers, Listing!Ask(r) \/ Listing!ReadEpoch(r)
  PROVE  AllInv'
<1>0. Shape(rd[r]) /\ RequestOK(past, ownerEpoch, rd[r]) /\ rd[r].after = Nothing /\ ownerEpoch \in Nat \ {0}
  <2>1. Shape(rd[r]) /\ RequestOK(past, ownerEpoch, rd[r]) /\ LogOK
    BY DEF AllInv
  <2>2. rd[r].after = Nothing
    BY <2>1 DEF RequestOK
  <2>3. ownerEpoch \in Nat \ {0}
    BY <2>1 DEF LogOK
  <2> QED BY <2>1, <2>2, <2>3
<1>1. CASE Listing!Ask(r)
  <2> DEFINE y == WithPcStart(rd[r], "epoch", ownerEpoch)
  <2>1. rd' = [rd EXCEPT ![r] = y] /\ Listing!ReadOnly
    BY <1>1 DEF Listing!Ask, AllInv, WithPcStart
  <2>2. Shape(y) /\ y.pc = "epoch" /\ y.kind = rd[r].kind /\ y.start = ownerEpoch /\ y.after = rd[r].after
    BY <1>0, SetPcStart
  <2> HIDE DEF y
  <2>3. RequestOK(past, ownerEpoch, y)
    BY <1>0, <2>2 DEF RequestOK
  <2> QED BY <2>1, <2>2, <2>3, AllReads
<1>2. CASE Listing!ReadEpoch(r)
  <2> DEFINE y == WithEpochPc(rd[r], ownerEpoch, "lookup")
  <2>1. rd' = [rd EXCEPT ![r] = y] /\ Listing!ReadOnly /\ rd[r].pc = "epoch"
    BY <1>0, <1>2 DEF Listing!ReadEpoch, AllInv, WithEpochPc
  <2>2. /\ Shape(y) /\ y.pc = "lookup" /\ y.kind = rd[r].kind /\ y.start = rd[r].start /\ y.after = rd[r].after
        /\ y.epoch = ownerEpoch
    BY <1>0, SetEpochPc
  <2> HIDE DEF y
  <2>3. rd[r].start \in 1 .. ownerEpoch
    BY <1>0, <2>1 DEF RequestOK
  <2>4. ownerEpoch \in rd[r].start .. ownerEpoch
    BY <1>0, <2>3
  <2>5. RequestOK(past, ownerEpoch, y)
    BY <1>0, <2>2, <2>3, <2>4 DEF RequestOK
  <2> QED BY <2>1, <2>2, <2>5, AllReads
<1> QED BY <1>1, <1>2

LEMMA FoldersAll ==
  ASSUME AllInv, NEW r \in Readers, Listing!ReadFolders(r)
  PROVE  AllInv'
<1> DEFINE y == WithFoldersPc(rd[r], FoldersAt(past, ownerEpoch), "files")
<1>0. Shape(rd[r]) /\ RequestOK(past, ownerEpoch, rd[r])
  BY DEF AllInv
<1>1. rd' = [rd EXCEPT ![r] = y] /\ Listing!ReadOnly /\ rd[r].pc = "folders"
  BY Queries DEF Listing!ReadFolders, AllInv, WithFoldersPc
<1>2. /\ Shape(y) /\ y.pc = "files" /\ y.kind = rd[r].kind /\ y.start = rd[r].start /\ y.after = rd[r].after
      /\ y.epoch = rd[r].epoch /\ y.folders = FoldersAt(past, ownerEpoch)
  BY <1>0, SetFoldersPc
<1> HIDE DEF y
<1>3. rd[r].start \in 1 .. ownerEpoch /\ rd[r].epoch \in rd[r].start .. ownerEpoch
      /\ rd[r].kind = "all" /\ rd[r].after = Nothing
  BY <1>0, <1>1 DEF RequestOK
<1>4. ownerEpoch \in y.epoch .. ownerEpoch
  <2>1. ownerEpoch \in Nat
    BY DEF AllInv, LogOK
  <2> QED BY <1>2, <1>3, <2>1
<1>5. RequestOK(past, ownerEpoch, y)
  BY <1>2, <1>3, <1>4 DEF RequestOK
<1> QED BY <1>1, <1>2, <1>5, AllReads

LEMMA FilesAll ==
  ASSUME AllInv, NEW r \in Readers, Listing!ReadFiles(r)
  PROVE  AllInv'
<1> DEFINE y == WithFilesPc(rd[r], FilesAt(past, ownerEpoch), "fill")
<1>0. Shape(rd[r]) /\ RequestOK(past, ownerEpoch, rd[r]) /\ rd[r].kind = "all"
  BY DEF AllInv, RequestOK
<1>1. rd' = [rd EXCEPT ![r] = y] /\ Listing!ReadOnly /\ rd[r].pc = "files"
  BY <1>0, Queries DEF Listing!ReadFiles, AllInv, WithFilesPc
<1>2. /\ Shape(y) /\ y.pc = "fill" /\ y.kind = rd[r].kind /\ y.start = rd[r].start /\ y.after = rd[r].after
      /\ y.epoch = rd[r].epoch /\ y.folders = rd[r].folders /\ y.files = FilesAt(past, ownerEpoch)
  BY <1>0, SetFilesPc
<1> HIDE DEF y
<1>3. rd[r].start \in 1 .. ownerEpoch /\ rd[r].epoch \in rd[r].start .. ownerEpoch /\ rd[r].after = Nothing
  BY <1>0, <1>1 DEF RequestOK
<1>4. PICK f \in rd[r].epoch .. ownerEpoch : rd[r].folders = FoldersAt(past, f)
  BY <1>0, <1>1 DEF RequestOK
<1>5. ownerEpoch \in y.epoch .. ownerEpoch /\ f \in y.epoch .. ownerEpoch /\ f <= ownerEpoch
  <2>1. ownerEpoch \in Nat
    BY DEF AllInv, LogOK
  <2> QED BY <1>2, <1>3, <2>1
<1>6. ReadIn(past, ownerEpoch, y.epoch, y.folders, y.files)
  BY <1>2, <1>4, <1>5 DEF ReadIn
<1>7. RequestOK(past, ownerEpoch, y)
  BY <1>0, <1>2, <1>3, <1>6 DEF RequestOK
<1> QED BY <1>1, <1>2, <1>7, AllReads

LEMMA AnswerAllStep ==
  ASSUME AllInv, NEW r \in Readers, Listing!AnswerAll(r)
  PROVE  AllInv'
<1> PICK nil, all : nil = <<>> /\ all = rd[r].folders \o rd[r].files
  OBVIOUS
<1>y. PICK y : y = WithGotFoldersFilesPc(rd[r], all, nil, nil, "done")
  OBVIOUS
<1>0. Shape(rd[r]) /\ RequestOK(past, ownerEpoch, rd[r])
  BY DEF AllInv
<1>1. rd' = [rd EXCEPT ![r] = y] /\ Listing!ReadOnly /\ rd[r].pc = "answer"
  BY <1>y DEF Listing!AnswerAll, AllInv, WithGotFoldersFilesPc
<1>2. /\ Shape(y) /\ y.pc = "done" /\ y.kind = rd[r].kind /\ y.start = rd[r].start /\ y.after = rd[r].after
      /\ y.epoch = rd[r].epoch /\ y.got = all
  <2>1. Shape(rd[r])
    BY <1>0
  <2> QED BY ONLY <2>1, <1>y, SetGotFoldersFilesPc
<1>3. /\ rd[r].start \in 1 .. ownerEpoch /\ rd[r].epoch \in rd[r].start .. ownerEpoch
      /\ rd[r].kind = "all" /\ rd[r].after = Nothing
      /\ ReadIn(past, ownerEpoch, rd[r].epoch, rd[r].folders, rd[r].files)
  BY <1>0, <1>1 DEF RequestOK
<1>4. PICK f \in rd[r].epoch .. ownerEpoch, g \in rd[r].epoch .. ownerEpoch :
        f <= g /\ rd[r].folders = FoldersAt(past, f) /\ rd[r].files = FilesAt(past, g)
  BY <1>3 DEF ReadIn
<1>5. f \in y.start .. ownerEpoch /\ g \in y.start .. ownerEpoch
  BY <1>2, <1>3
<1>6. y.got = FoldersAt(past, f) \o FilesAt(past, g)
  BY <1>2, <1>4
<1>7. RequestOK(past, ownerEpoch, y)
  BY <1>2, <1>3, <1>4, <1>5, <1>6 DEF RequestOK
<1> QED BY <1>1, <1>2, <1>7, AllReads

\* The cache key of a request that has read the epoch.
LEMMA KeyOf ==
  ASSUME AllInv, MaxWrites \in Nat, NEW r \in Readers, rd[r].pc \notin {"idle", "epoch"}
  PROVE  /\ Listing!Key(r) = <<"all", rd[r].epoch>> /\ rd[r].epoch \in 1 .. MaxWrites
         /\ Listing!Key(r) \in Listing!Keys
<1>1. /\ rd[r].start \in 1 .. ownerEpoch /\ rd[r].epoch \in rd[r].start .. ownerEpoch /\ rd[r].kind = "all"
      /\ ownerEpoch \in 1 .. MaxWrites
  BY DEF AllInv, RequestOK, LogOK
<1>2. rd[r].epoch \in 1 .. MaxWrites /\ rd[r].epoch \in 0 .. MaxWrites
  BY <1>1
<1>3. Listing!Key(r) = <<"all", rd[r].epoch>>
  BY <1>1 DEF Listing!Key
<1> QED BY <1>2, <1>3 DEF Listing!Keys, Listing!Kinds

\* An entry that is put in a cache, or taken out of it.
LEMMA CachePut ==
  ASSUME NEW n, NEW log, NEW cache, CacheOK(log, n, cache), NEW e, NEW v,
         v # Nothing => ReadIn(log, n, e, v.folders, v.files)
  PROVE  CacheOK(log, n, [cache EXCEPT ![<<"all", e>>] = v])
<1> DEFINE new == [cache EXCEPT ![<<"all", e>>] = v]
<1>1. DOMAIN new = Listing!Keys
  BY DEF CacheOK
<1>2. ASSUME NEW d \in 1 .. MaxWrites, new[<<"all", d>>] # Nothing
      PROVE  ReadIn(log, n, d, new[<<"all", d>>].folders, new[<<"all", d>>].files)
  <2>0. <<"all", d>> \in DOMAIN cache \/ <<"all", d>> \notin DOMAIN cache
    OBVIOUS
  <2>1. CASE d = e /\ <<"all", d>> \in DOMAIN cache
    BY <1>2, <2>1
  <2>2. CASE d # e /\ <<"all", d>> \in DOMAIN cache
    <3>1. <<"all", d>> # <<"all", e>>
      BY <2>2
    <3>2. new[<<"all", d>>] = cache[<<"all", d>>]
      BY <2>2, <3>1
    <3> QED BY <1>2, <3>2 DEF CacheOK
  <2>3. <<"all", d>> \in DOMAIN cache
    <3>1. d \in 0 .. MaxWrites
      OBVIOUS
    <3> QED BY <3>1 DEF CacheOK, Listing!Keys, Listing!Kinds
  <2> QED BY <2>1, <2>2, <2>3
<1> HIDE DEF new
<1>3. CacheOK(log, n, new)
  BY <1>1, <1>2 DEF CacheOK
<1> QED BY <1>3 DEF new


LEMMA CachesKept ==
  ASSUME AllInv, UNCHANGED <<local, shared>>
  PROVE  /\ CacheOK(past, ownerEpoch, shared') /\ DOMAIN local' = Processes
         /\ \A p \in Processes : CacheOK(past, ownerEpoch, local'[p])
BY DEF AllInv

\* An update of one entry of one process's cache.
LEMMA LocalPut ==
  ASSUME AllInv, MaxWrites \in Nat, Home \in [Readers -> Processes],
         NEW r \in Readers, rd[r].pc \notin {"idle", "epoch"}, NEW v,
         v # Nothing => ReadIn(past, ownerEpoch, rd[r].epoch, v.folders, v.files),
         local' = [local EXCEPT ![Home[r]][Listing!Key(r)] = v]
  PROVE  DOMAIN local' = Processes /\ \A p \in Processes : CacheOK(past, ownerEpoch, local'[p])
<1> DEFINE h == Home[r]
<1> DEFINE c == [local[h] EXCEPT ![<<"all", rd[r].epoch>>] = v]
<1>1. h \in Processes /\ Listing!Key(r) = <<"all", rd[r].epoch>>
  BY KeyOf
<1>2. CacheOK(past, ownerEpoch, c)
  BY <1>1, CachePut DEF AllInv
<1>3. local' = [local EXCEPT ![h] = c]
  BY <1>1 DEF AllInv
<1> HIDE DEF c, h
<1>4. DOMAIN local' = Processes /\ local'[h] = c /\ \A p \in Processes : p # h => local'[p] = local[p]
  BY <1>1, <1>3 DEF AllInv
<1> QED BY <1>2, <1>4 DEF AllInv

LEMMA TakenAll ==
  ASSUME AllInv, NEW r \in Readers, rd[r].pc = "lookup", NEW v, Listing!Taken(r, v),
         ReadIn(past, ownerEpoch, rd[r].epoch, v.folders, v.files), UNCHANGED <<rank, ownerEpoch, past>>,
         CacheOK(past, ownerEpoch, shared'),
         DOMAIN local' = Processes, \A p \in Processes : CacheOK(past, ownerEpoch, local'[p])
  PROVE  AllInv'
<1>0. Shape(rd[r]) /\ RequestOK(past, ownerEpoch, rd[r]) /\ rd[r].kind = "all"
  BY DEF AllInv, RequestOK
<1>y. PICK y : y = WithFoldersFilesPc(rd[r], v.folders, v.files, "answer")
  OBVIOUS
<1>1. rd' = [rd EXCEPT ![r] = y]
  BY <1>0, <1>y DEF Listing!Taken, AllInv, WithFoldersFilesPc
<1>2. /\ Shape(y) /\ y.pc = "answer" /\ y.kind = rd[r].kind /\ y.start = rd[r].start /\ y.after = rd[r].after
      /\ y.epoch = rd[r].epoch /\ y.folders = v.folders /\ y.files = v.files
  <2>1. Shape(rd[r])
    BY <1>0
  <2> QED BY ONLY <2>1, <1>y, SetFoldersFilesPc
<1>3. rd[r].start \in 1 .. ownerEpoch /\ rd[r].epoch \in rd[r].start .. ownerEpoch /\ rd[r].after = Nothing
  BY <1>0 DEF RequestOK
<1>4. RequestOK(past, ownerEpoch, y)
  BY <1>0, <1>2, <1>3 DEF RequestOK
<1> QED BY <1>1, <1>2, <1>4, AllMove

\* A step to another place with the same reads.
LEMMA GoneAll ==
  ASSUME AllInv, NEW r \in Readers, NEW p, Listing!Go(r, p), UNCHANGED <<rank, ownerEpoch, past>>,
         \/ rd[r].pc = "lookup" /\ p = "folders"
         \/ rd[r].pc \in {"fill", "publish"} /\ p \in {"publish", "answer"},
         CacheOK(past, ownerEpoch, shared'),
         DOMAIN local' = Processes, \A q \in Processes : CacheOK(past, ownerEpoch, local'[q])
  PROVE  AllInv'
<1>0. Shape(rd[r]) /\ RequestOK(past, ownerEpoch, rd[r])
  BY DEF AllInv
<1>y. PICK y : y = WithPc(rd[r], p)
  OBVIOUS
<1>1. rd' = [rd EXCEPT ![r] = y]
  BY <1>y DEF Listing!Go, AllInv, WithPc
<1>2. /\ Shape(y) /\ y.pc = p /\ y.kind = rd[r].kind /\ y.start = rd[r].start /\ y.after = rd[r].after
      /\ y.epoch = rd[r].epoch /\ y.folders = rd[r].folders /\ y.files = rd[r].files
  <2>1. Shape(rd[r])
    BY <1>0
  <2> QED BY ONLY <2>1, <1>y, SetPc
<1>3. /\ rd[r].start \in 1 .. ownerEpoch /\ rd[r].epoch \in rd[r].start .. ownerEpoch
      /\ rd[r].kind = "all" /\ rd[r].after = Nothing
      /\ p # "folders" => ReadIn(past, ownerEpoch, rd[r].epoch, rd[r].folders, rd[r].files)
  BY <1>0 DEF RequestOK
<1>4. RequestOK(past, ownerEpoch, y)
  BY <1>2, <1>3 DEF RequestOK
<1> QED BY <1>1, <1>2, <1>4, AllMove

LEMMA LookupAll ==
  ASSUME AllInv, MaxWrites \in Nat, Home \in [Readers -> Processes], NEW r \in Readers, Listing!Lookup(r)
  PROVE  AllInv'
<1> DEFINE k == Listing!Key(r)
<1> DEFINE h == Home[r]
<1>0. rd[r].pc = "lookup" /\ UNCHANGED <<rank, ownerEpoch, past>> /\ h \in Processes
  BY DEF Listing!Lookup
<1>1. k = <<"all", rd[r].epoch>> /\ rd[r].epoch \in 1 .. MaxWrites
  BY <1>0, KeyOf
<1>2. CASE local[h][k] # Nothing /\ Listing!Taken(r, local[h][k]) /\ UNCHANGED <<local, shared>>
  <2>1. ReadIn(past, ownerEpoch, rd[r].epoch, local[h][k].folders, local[h][k].files)
    BY <1>0, <1>1, <1>2 DEF AllInv, CacheOK
  <2> HIDE DEF h, k
  <2> QED BY <1>0, <1>2, <2>1, CachesKept, TakenAll
<1>3. CASE shared[k] # Nothing /\ local' = [local EXCEPT ![h][k] = shared[k]] /\ Listing!Taken(r, shared[k]) /\ UNCHANGED shared
  <2>1. ReadIn(past, ownerEpoch, rd[r].epoch, shared[k].folders, shared[k].files)
    BY <1>0, <1>1, <1>3 DEF AllInv, CacheOK
  <2>2. PICK v : v = shared[k]
    OBVIOUS
  <2>3. local' = [local EXCEPT ![Home[r]][Listing!Key(r)] = v]
    BY <1>3, <2>2
  <2>4. DOMAIN local' = Processes /\ \A p \in Processes : CacheOK(past, ownerEpoch, local'[p])
    BY <1>0, <2>1, <2>2, <2>3, LocalPut
  <2>5. CacheOK(past, ownerEpoch, shared')
    BY <1>3 DEF AllInv
  <2> HIDE DEF h, k
  <2> QED BY <1>0, <1>3, <2>1, <2>4, <2>5, TakenAll
<1>4. CASE local' = [local EXCEPT ![h][k] = Nothing] /\ shared' \in {shared, [shared EXCEPT ![k] = Nothing]} /\ Listing!Go(r, "folders")
  <2>1. DOMAIN local' = Processes /\ \A p \in Processes : CacheOK(past, ownerEpoch, local'[p])
    <3>1. PICK v : v = Nothing
      OBVIOUS
    <3>2. local' = [local EXCEPT ![Home[r]][Listing!Key(r)] = v]
      BY <1>4, <3>1
    <3> QED BY <1>0, <3>1, <3>2, LocalPut
  <2>2. CacheOK(past, ownerEpoch, [shared EXCEPT ![<<"all", rd[r].epoch>>] = Nothing])
    BY CachePut DEF AllInv
  <2>3. CacheOK(past, ownerEpoch, shared')
    <3>1. shared' = shared \/ shared' = [shared EXCEPT ![<<"all", rd[r].epoch>>] = Nothing]
      BY <1>1, <1>4
    <3>2. CacheOK(past, ownerEpoch, shared)
      BY DEF AllInv
    <3> QED BY <2>2, <3>1, <3>2
  <2> QED BY <1>0, <1>4, <2>1, <2>3, GoneAll
<1> QED BY <1>2, <1>3, <1>4 DEF Listing!Lookup

LEMMA FillAll ==
  ASSUME AllInv, MaxWrites \in Nat, Home \in [Readers -> Processes], NEW r \in Readers,
         Listing!Fill(r) \/ Listing!Publish(r)
  PROVE  AllInv'
<1>0. UNCHANGED <<rank, ownerEpoch, past>> /\ rd[r].pc \in {"fill", "publish"} /\ rd[r].kind = "all"
  <2>1. rd[r].kind = "all"
    BY DEF AllInv, RequestOK
  <2> QED BY <2>1 DEF Listing!Fill, Listing!Publish
<1>1. PICK v : v = Listing!Value(r)
  OBVIOUS
<1>2. v.folders = rd[r].folders /\ v.files = rd[r].files
  BY <1>1 DEF Listing!Value
<1>3. ReadIn(past, ownerEpoch, rd[r].epoch, v.folders, v.files)
  <2>1. RequestOK(past, ownerEpoch, rd[r])
    BY DEF AllInv
  <2> QED BY <1>0, <1>2, <2>1 DEF RequestOK
<1>4. CASE Listing!Fill(r)
  <2>1. PICK p \in {"publish", "answer"} : Listing!Go(r, p)
    BY <1>0, <1>4 DEF Listing!Fill
  <2>2. local' = [local EXCEPT ![Home[r]][Listing!Key(r)] = v]
    BY <1>1, <1>4 DEF Listing!Fill
  <2>3. DOMAIN local' = Processes /\ \A q \in Processes : CacheOK(past, ownerEpoch, local'[q])
    BY <1>0, <1>3, <2>2, LocalPut
  <2>4. CacheOK(past, ownerEpoch, shared')
    BY <1>4 DEF Listing!Fill, AllInv
  <2> QED BY <1>0, <2>1, <2>3, <2>4, GoneAll
<1>5. CASE Listing!Publish(r)
  <2>1. Listing!Go(r, "answer") /\ UNCHANGED local
    BY <1>0, <1>5 DEF Listing!Publish
  <2>2. Listing!Key(r) = <<"all", rd[r].epoch>>
    BY <1>0, KeyOf
  <2>3. CacheOK(past, ownerEpoch, [shared EXCEPT ![<<"all", rd[r].epoch>>] = v])
    BY <1>3, CachePut DEF AllInv
  <2>4. CacheOK(past, ownerEpoch, shared')
    BY <1>1, <1>5, <2>2, <2>3 DEF Listing!Publish
  <2>5. DOMAIN local' = Processes /\ \A q \in Processes : CacheOK(past, ownerEpoch, local'[q])
    BY <2>1 DEF AllInv
  <2> QED BY <1>0, <2>1, <2>4, <2>5, GoneAll
<1> QED BY <1>4, <1>5

LEMMA AllStep ==
  ASSUME AllInv, MaxWrites \in Nat, Home \in [Readers -> Processes], Listing!Next
  PROVE  AllInv'
<1>1. ASSUME NEW i \in FolderIds \cup FileIds, NEW to \in 0 .. MaxRank, Listing!Write(i, to) PROVE AllInv'
  BY <1>1, WriteStep
<1>2. ASSUME NEW r \in Readers, Listing!Ask(r) \/ Listing!Step(r) PROVE AllInv'
  <2>1. rd[r].pc \notin {"verify", "recheck", "snapshot"} /\ rd[r].kind = "all"
    BY DEF AllInv, RequestOK
  <2>2. ~(Listing!Verify(r) \/ Listing!Recheck(r) \/ Listing!Snapshot(r) \/ Listing!AnswerPage(r))
    BY <2>1 DEF Listing!Verify, Listing!Recheck, Listing!Snapshot, Listing!AnswerPage
  <2> QED BY <1>2, <2>2, AskAll, FoldersAll, FilesAll, AnswerAllStep, LookupAll, FillAll DEF Listing!Step
<1>3. \/ \E i \in FolderIds \cup FileIds, to \in 0 .. MaxRank : Listing!Write(i, to)
      \/ \E r \in Readers : Listing!Ask(r) \/ Listing!Step(r)
  BY DEF Listing!Next, Listing!Ids
<1> QED BY <1>1, <1>2, <1>3

-----------------------------------------------------------------------------
(* Pages: a sorted query, and what of it comes after one of its rows *)

Children == FolderIds \cup FileIds

LEMMA SameCount == \A S : Listing!Cardinality(S) = Cardinality(S)
BY DEF Listing!Cardinality, Cardinality

LEMMA ChildrenFinite ==
  /\ Children \subseteq Nat /\ \A S \in SUBSET Children : IsFiniteSet(S) /\ Cardinality(S) \in Nat
  /\ FolderIds \subseteq Children /\ FileIds \subseteq Children
<1>1. Children \subseteq 1 .. MaxRank /\ MaxRank \in Nat
  BY ListingAssumption DEF Children
<1>2. IsFiniteSet(1 .. MaxRank)
  BY <1>1, FS_Interval
<1>3. \A S \in SUBSET Children : IsFiniteSet(S)
  BY <1>1, <1>2, FS_Subset
<1> QED BY <1>1, <1>3, FS_CardinalityType DEF Children

\* The order of the query is total.
LEMMA Order ==
  ASSUME NEW ranks \in Ranks, NEW i \in Children, NEW j \in Children, NEW k \in Children
  PROVE  /\ ~Listing!Precedes(ranks, i, i)
         /\ i = j \/ Listing!Precedes(ranks, i, j) \/ Listing!Precedes(ranks, j, i)
         /\ Listing!Precedes(ranks, i, j) /\ Listing!Precedes(ranks, j, k) => Listing!Precedes(ranks, i, k)
<1>1. \A c \in Children : ranks[c] \in Nat /\ c \in Nat
  BY ListingAssumption, ChildrenFinite DEF Ranks, Children
<1> QED BY <1>1 DEF Listing!Precedes

RowsBelow(S, ranks, i) == {j \in S : Listing!Precedes(ranks, j, i)}
PlaceOf(S, ranks, i) == Cardinality(RowsBelow(S, ranks, i)) + 1

\* The places of the rows are 1 .. Cardinality(S), each taken once.
LEMMA Places ==
  ASSUME NEW ranks \in Ranks, NEW S \in SUBSET Children
  PROVE  /\ Cardinality(S) \in Nat
         /\ \A i \in S : PlaceOf(S, ranks, i) \in 1 .. Cardinality(S)
         /\ \A i, j \in S : PlaceOf(S, ranks, i) = PlaceOf(S, ranks, j) => i = j
         /\ \A n \in 1 .. Cardinality(S) : \E i \in S : PlaceOf(S, ranks, i) = n
<1>0. IsFiniteSet(S) /\ Cardinality(S) \in Nat
  BY ChildrenFinite
<1>1. ASSUME NEW i \in S PROVE PlaceOf(S, ranks, i) \in 1 .. Cardinality(S)
  <2>1. RowsBelow(S, ranks, i) \in SUBSET S /\ RowsBelow(S, ranks, i) # S
    BY Order DEF RowsBelow
  <2>2. IsFiniteSet(RowsBelow(S, ranks, i)) /\ Cardinality(RowsBelow(S, ranks, i)) <= Cardinality(S)
        /\ Cardinality(RowsBelow(S, ranks, i)) # Cardinality(S)
    BY <1>0, <2>1, FS_Subset
  <2>3. Cardinality(RowsBelow(S, ranks, i)) \in Nat
    BY <2>2, FS_CardinalityType
  <2> QED BY <1>0, <2>2, <2>3 DEF PlaceOf
<1>2. ASSUME NEW i \in S, NEW j \in S, Listing!Precedes(ranks, i, j)
      PROVE  PlaceOf(S, ranks, i) # PlaceOf(S, ranks, j)
  <2>1. RowsBelow(S, ranks, i) \subseteq RowsBelow(S, ranks, j)
    BY <1>2, Order DEF RowsBelow
  <2>2. i \in RowsBelow(S, ranks, j) /\ i \notin RowsBelow(S, ranks, i)
    BY <1>2, Order DEF RowsBelow
  <2>3. IsFiniteSet(RowsBelow(S, ranks, j)) /\ RowsBelow(S, ranks, j) \in SUBSET S
    BY <1>0, FS_Subset DEF RowsBelow
  <2>4. Cardinality(RowsBelow(S, ranks, i)) # Cardinality(RowsBelow(S, ranks, j))
    BY <2>1, <2>2, <2>3, FS_Subset
  <2>5. Cardinality(RowsBelow(S, ranks, i)) \in Nat /\ Cardinality(RowsBelow(S, ranks, j)) \in Nat
    BY <2>1, <2>3, FS_Subset, FS_CardinalityType
  <2> QED BY <2>4, <2>5 DEF PlaceOf
<1>3. \A i, j \in S : PlaceOf(S, ranks, i) = PlaceOf(S, ranks, j) => i = j
  <2> SUFFICES ASSUME NEW i \in S, NEW j \in S, i # j PROVE PlaceOf(S, ranks, i) # PlaceOf(S, ranks, j)
    OBVIOUS
  <2>1. Listing!Precedes(ranks, i, j) \/ Listing!Precedes(ranks, j, i)
    BY Order
  <2> QED BY <1>2, <2>1
<1> DEFINE T == 1 .. Cardinality(S)
           f == [i \in S |-> PlaceOf(S, ranks, i)]
<1>4. f \in Injection(S, T)
  <2>1. f \in [S -> T]
    BY <1>1
  <2>2. \A i, j \in S : f[i] = f[j] => i = j
    BY <1>3
  <2> HIDE DEF f, T
  <2> QED BY <2>1, <2>2 DEF Injection, IsInjective
<1>5. IsFiniteSet(T) /\ Cardinality(T) = Cardinality(S)
  BY <1>0, FS_Interval
<1>6. f \in Surjection(S, T)
  BY <1>4, <1>5, FS_Injection
<1>7. \A n \in T : \E i \in S : f[i] = n
  BY <1>6 DEF Surjection
<1> QED BY <1>0, <1>1, <1>3, <1>7

LEMMA SortedIs ==
  ASSUME NEW ranks \in Ranks, NEW S \in SUBSET Children
  PROVE  /\ Listing!Sorted(S, ranks) \in Seq(S) /\ Len(Listing!Sorted(S, ranks)) = Cardinality(S)
         /\ Cardinality(S) \in Nat
         /\ \A n \in 1 .. Cardinality(S) : /\ Listing!Sorted(S, ranks)[n] \in S
                                           /\ PlaceOf(S, ranks, Listing!Sorted(S, ranks)[n]) = n
         /\ \A i \in S : /\ PlaceOf(S, ranks, i) \in 1 .. Cardinality(S)
                         /\ Listing!Sorted(S, ranks)[PlaceOf(S, ranks, i)] = i
<1> DEFINE size == Cardinality(S)
           Is(n, i) == Listing!Cardinality({j \in S : Listing!Precedes(ranks, j, i)}) = n - 1
           s == Listing!Sorted(S, ranks)
<1>1. s = [n \in 1 .. size |-> CHOOSE i \in S : Is(n, i)]
  <2>1. size = Listing!Cardinality(S)
    BY SameCount
  <2> HIDE DEF size
  <2> QED BY <2>1 DEF Listing!Sorted
<1>2. ASSUME NEW n \in 1 .. size, NEW i \in S PROVE Is(n, i) <=> PlaceOf(S, ranks, i) = n
  <2>1. PlaceOf(S, ranks, i) \in 1 .. size /\ size \in Nat
    BY Places
  <2>2. IsFiniteSet(RowsBelow(S, ranks, i))
    BY ChildrenFinite, FS_Subset DEF RowsBelow
  <2>3. Cardinality(RowsBelow(S, ranks, i)) \in Nat
    BY <2>2, FS_CardinalityType
  <2> QED BY <2>1, <2>3, SameCount DEF PlaceOf, RowsBelow
<1>3. ASSUME NEW n \in 1 .. size PROVE s[n] \in S /\ PlaceOf(S, ranks, s[n]) = n
  <2>1. \E i \in S : Is(n, i)
    BY <1>2, Places
  <2>2. s[n] = CHOOSE i \in S : Is(n, i)
    BY <1>1
  <2> HIDE DEF Is
  <2>3. s[n] \in S /\ Is(n, s[n])
    BY <2>1, <2>2
  <2> QED BY <1>2, <2>3
<1>4. size \in Nat
  BY Places
<1>5. s \in Seq(S) /\ Len(s) = size
  <2>1. s = [n \in DOMAIN s |-> s[n]] /\ DOMAIN s = 1 .. size
    BY <1>1
  <2> HIDE DEF s, size
  <2>2. s \in [1 .. size -> S]
    BY <1>3, <2>1
  <2> QED BY <1>4, <2>2
<1>6. ASSUME NEW i \in S PROVE PlaceOf(S, ranks, i) \in 1 .. size /\ s[PlaceOf(S, ranks, i)] = i
  <2>1. PlaceOf(S, ranks, i) \in 1 .. size
    BY Places
  <2>2. s[PlaceOf(S, ranks, i)] \in S /\ PlaceOf(S, ranks, s[PlaceOf(S, ranks, i)]) = PlaceOf(S, ranks, i)
    BY <1>3, <2>1
  <2> HIDE DEF s
  <2> QED BY <2>1, <2>2, Places
<1> HIDE DEF s, size
<1> QED BY <1>3, <1>4, <1>5, <1>6 DEF size, s

\* What comes after a row is the rest of the query.
LEMMA SortedAfter ==
  ASSUME NEW ranks \in Ranks, NEW S \in SUBSET Children, NEW x \in S, NEW A,
         A = {i \in S : Listing!Precedes(ranks, x, i)}
  PROVE  /\ Cardinality(A) = Cardinality(S) - PlaceOf(S, ranks, x)
         /\ \A n \in 1 .. Cardinality(A) :
              Listing!Sorted(A, ranks)[n] = Listing!Sorted(S, ranks)[PlaceOf(S, ranks, x) + n]
<1> DEFINE B == RowsBelow(S, ranks, x)
<1>1. B \in SUBSET Children /\ A \in SUBSET Children /\ x \in Children /\ x \notin B /\ B \cup {x} \in SUBSET Children
  BY Order DEF RowsBelow
<1>2. IsFiniteSet(B) /\ IsFiniteSet(A) /\ Cardinality(B) \in Nat /\ Cardinality(A) \in Nat /\ IsFiniteSet(B \cup {x})
  BY <1>1, ChildrenFinite
<1>3. Cardinality(B \cup {x}) = PlaceOf(S, ranks, x)
  BY <1>1, <1>2, FS_AddElement DEF PlaceOf
<1>4. S = (B \cup {x}) \cup A /\ (B \cup {x}) \cap A = {}
  BY Order DEF RowsBelow
<1>5. Cardinality(S) = PlaceOf(S, ranks, x) + Cardinality(A)
  <2>1. Cardinality(S) = Cardinality(B \cup {x}) + Cardinality(A) - Cardinality((B \cup {x}) \cap A)
    BY <1>2, <1>4, FS_Union
  <2>2. PlaceOf(S, ranks, x) \in Nat
    BY <1>2 DEF PlaceOf
  <2>3. Cardinality((B \cup {x}) \cap A) = 0
    BY <1>4, FS_EmptySet
  <2> HIDE DEF B
  <2> QED BY <1>2, <1>3, <2>1, <2>2, <2>3
<1>6. ASSUME NEW i \in A PROVE PlaceOf(S, ranks, i) = PlaceOf(S, ranks, x) + PlaceOf(A, ranks, i)
  <2> DEFINE C == RowsBelow(A, ranks, i)
  <2>0. i \in S /\ Listing!Precedes(ranks, x, i)
    OBVIOUS
  <2>1. RowsBelow(S, ranks, i) = (B \cup {x}) \cup C /\ (B \cup {x}) \cap C = {} /\ C \in SUBSET Children
    BY <2>0, Order DEF RowsBelow
  <2>2. IsFiniteSet(C) /\ Cardinality(C) \in Nat
    BY <2>1, ChildrenFinite
  <2>3. Cardinality(RowsBelow(S, ranks, i)) = Cardinality(B \cup {x}) + Cardinality(C)
                                          - Cardinality((B \cup {x}) \cap C)
    BY <1>2, <2>1, <2>2, FS_Union
  <2>4. Cardinality(RowsBelow(S, ranks, i)) = PlaceOf(S, ranks, x) + Cardinality(C) - 0
    BY <1>3, <2>1, <2>3, FS_EmptySet
  <2>5. PlaceOf(S, ranks, x) \in Nat
    BY <1>2 DEF PlaceOf
  <2> QED BY <2>2, <2>4, <2>5 DEF PlaceOf
<1>7. ASSUME NEW n \in 1 .. Cardinality(A)
      PROVE  Listing!Sorted(A, ranks)[n] = Listing!Sorted(S, ranks)[PlaceOf(S, ranks, x) + n]
  <2> DEFINE i == Listing!Sorted(A, ranks)[n]
  <2>1. i \in A /\ PlaceOf(A, ranks, i) = n
    BY <1>1, SortedIs
  <2>2. i \in S /\ PlaceOf(S, ranks, i) = PlaceOf(S, ranks, x) + n
    BY <1>6, <2>1
  <2>3. Listing!Sorted(S, ranks)[PlaceOf(S, ranks, i)] = i
    BY <2>2, SortedIs
  <2> QED BY <2>1, <2>2, <2>3
<1>8. PlaceOf(S, ranks, x) \in Nat
  BY <1>2 DEF PlaceOf
<1> QED BY <1>2, <1>5, <1>7, <1>8


-----------------------------------------------------------------------------
(* A page is cut from the rest of the folder *)

LEMMA Firsts ==
  ASSUME NEW T, NEW s \in Seq(T), NEW m \in Nat
  PROVE  /\ Listing!FirstOf(s, m) \in Seq(T)
         /\ Len(Listing!FirstOf(s, m)) = IF Len(s) < m THEN Len(s) ELSE m
         /\ \A n \in 1 .. Len(Listing!FirstOf(s, m)) : Listing!FirstOf(s, m)[n] = s[n]
<1> DEFINE k == IF Len(s) < m THEN Len(s) ELSE m
<1>1. k \in Nat /\ k <= Len(s) /\ Len(s) \in Nat /\ Listing!FirstOf(s, m) = SubSeq(s, 1, k)
  BY DEF Listing!FirstOf
<1> HIDE DEF k
<1>2. \A i \in 1 .. k : s[i] \in T
  BY <1>1
<1>3. SubSeq(s, 1, k) \in Seq(T) /\ Len(SubSeq(s, 1, k)) = k /\ \A n \in 1 .. k : SubSeq(s, 1, k)[n] = s[n]
  BY <1>1, <1>2
<1> QED BY <1>1, <1>3 DEF k

Capped(l, n, m) == l = IF n < m THEN n ELSE m

LEMMA Lengths ==
  ASSUME NEW la \in Nat, NEW lb \in Nat, NEW m \in Nat, NEW lc \in Nat, Capped(lc, la, m + 1),
         NEW ld \in Nat, Capped(ld, lb, m + 1), NEW p \in Nat, Capped(p, lc + ld, m)
  PROVE  Capped(p, la + lb, m) /\ (lc + ld > p <=> la + lb > m)
<1> USE DEF Capped
<1>1. CASE la < m + 1 /\ lb < m + 1
  BY <1>1
<1>2. CASE ~(la < m + 1)
  <2>1. lc = m + 1 /\ ld \in Nat
    BY <1>2
  <2>2. lc + ld > m
    BY <2>1
  <2> QED BY <1>2, <2>2
<1>3. CASE ~(lb < m + 1)
  <2>1. ld = m + 1 /\ lc \in Nat
    BY <1>3
  <2>2. lc + ld > m
    BY <2>1
  <2> QED BY <1>3, <2>2
<1> QED BY <1>1, <1>2, <1>3

\* Pages of the two queries, one row too long, put together and cut.
IsCut(a, b, m, both, page) ==
  /\ page \in Seq(Children) /\ both \in Seq(Children)
  /\ Len(page) = IF Len(a) + Len(b) < m THEN Len(a) + Len(b) ELSE m
  /\ Len(both) > Len(page) <=> Len(a) + Len(b) > m
  /\ \A n \in 1 .. Len(page) : page[n] = (a \o b)[n]

LEMMA Cut ==
  ASSUME NEW a \in Seq(Children), NEW b \in Seq(Children), NEW m \in Nat \ {0}, NEW both, NEW page,
         both = Listing!FirstOf(a, m + 1) \o Listing!FirstOf(b, m + 1), page = Listing!FirstOf(both, m)
  PROVE  IsCut(a, b, m, both, page)
<1> DEFINE c == Listing!FirstOf(a, m + 1)
           d == Listing!FirstOf(b, m + 1)
<1>1. /\ c \in Seq(Children) /\ Len(c) = (IF Len(a) < m + 1 THEN Len(a) ELSE m + 1) /\ \A n \in 1 .. Len(c) : c[n] = a[n]
      /\ d \in Seq(Children) /\ Len(d) = (IF Len(b) < m + 1 THEN Len(b) ELSE m + 1) /\ \A n \in 1 .. Len(d) : d[n] = b[n]
  <2>1. m + 1 \in Nat
    OBVIOUS
  <2> QED BY ONLY <2>1, a \in Seq(Children), b \in Seq(Children), Firsts
<1> HIDE DEF c, d
<1>2. /\ both \in Seq(Children) /\ Len(both) = Len(c) + Len(d)
      /\ \A n \in 1 .. Len(both) : both[n] = IF n <= Len(c) THEN c[n] ELSE d[n - Len(c)]
  BY <1>1 DEF c, d
<1>3. /\ page \in Seq(Children) /\ Len(page) = (IF Len(both) < m THEN Len(both) ELSE m)
      /\ \A n \in 1 .. Len(page) : page[n] = both[n]
  BY <1>2, Firsts
<1>4. Len(a) \in Nat /\ Len(b) \in Nat /\ Len(c) \in Nat /\ Len(d) \in Nat
  BY <1>1
<1>5. /\ a \o b \in Seq(Children) /\ Len(a \o b) = Len(a) + Len(b)
      /\ \A n \in 1 .. Len(a) + Len(b) : (a \o b)[n] = IF n <= Len(a) THEN a[n] ELSE b[n - Len(a)]
  OBVIOUS
<1>6. /\ Len(page) = (IF Len(a) + Len(b) < m THEN Len(a) + Len(b) ELSE m)
      /\ Len(both) > Len(page) <=> Len(a) + Len(b) > m
  <2>1. Len(both) = Len(c) + Len(d)
    BY <1>2
  <2>2. Capped(Len(page), Len(c) + Len(d), m) /\ Capped(Len(c), Len(a), m + 1) /\ Capped(Len(d), Len(b), m + 1)
    BY <1>1, <1>3, <2>1 DEF Capped
  <2>3. m \in Nat /\ Len(page) \in Nat
    BY <1>3
  <2>4. Capped(Len(page), Len(a) + Len(b), m) /\ (Len(c) + Len(d) > Len(page) <=> Len(a) + Len(b) > m)
    BY ONLY <1>4, <2>2, <2>3, Lengths
  <2> QED BY <2>1, <2>4 DEF Capped
<1>7. ASSUME NEW n \in 1 .. Len(page) PROVE page[n] = (a \o b)[n]
  <2>0. Len(both) \in Nat /\ Len(page) \in Nat /\ Len(page) <= Len(both)
    BY <1>2, <1>3, <1>4
  <2>1. /\ n \in Nat /\ n <= m /\ n <= Len(a) + Len(b) /\ n \in 1 .. Len(both) /\ page[n] = both[n]
        /\ n \in 1 .. Len(a) + Len(b)
    BY <1>3, <1>4, <1>6, <2>0
  <2>2. CASE n <= Len(a)
    <3>1. n <= Len(c)
      BY <1>1, <1>4, <2>1, <2>2
    <3> QED BY <1>1, <1>2, <1>4, <1>5, <2>1, <2>2, <3>1
  <2>3. CASE n > Len(a)
    <3>0. Len(c) = Len(a)
      BY <1>1, <1>4, <2>1, <2>3
    <3>1. Len(c) = Len(a) /\ n - Len(a) \in 1 .. Len(d)
      <4>1. n <= Len(a) + Len(d)
        BY <1>2, <2>0, <2>1, <3>0
      <4> QED BY <1>4, <2>1, <2>3, <3>0, <4>1
    <3>2. both[n] = d[n - Len(a)]
      BY <1>2, <1>4, <2>1, <2>3, <3>0
    <3>3. d[n - Len(a)] = b[n - Len(a)]
      BY <1>1, <3>1
    <3>4. (a \o b)[n] = b[n - Len(a)]
      BY <1>4, <1>5, <2>1, <2>3
    <3> QED BY <2>1, <3>2, <3>3, <3>4
  <2> QED BY <1>4, <2>1, <2>2, <2>3
<1> QED BY <1>2, <1>3, <1>6, <1>7 DEF IsCut

-----------------------------------------------------------------------------
(* The rest of the folder behind a cursor *)

InFolder(S, ranks) == {i \in S : ranks[i] # 0}
Whole(ranks) == Listing!ListingOf(FolderIds, ranks) \o Listing!ListingOf(FileIds, ranks)

\* What has been answered is the folder up to the cursor.
Cursor(ranks, x) ==
  IF x.after = Nothing
    THEN x.got = <<>>
    ELSE \E k \in 1 .. Len(Whole(ranks)) : /\ x.got = SubSeq(Whole(ranks), 1, k)
                                           /\ x.after = Whole(ranks)[k] /\ x.at = ranks[x.after]

\* The two queries of a page.
Later(S, ranks, x) == {i \in S : ranks[i] # 0 /\ (ranks[i] > x.at \/ (ranks[i] = x.at /\ i > x.after))}
PageFolders(ranks, x) ==
  IF x.after = Nothing
    THEN Listing!FirstOf(Listing!ListingOf(FolderIds, ranks), Limit + 1)
    ELSE IF x.after \in FolderIds THEN Listing!FirstOf(Listing!Sorted(Later(FolderIds, ranks, x), ranks), Limit + 1)
                                  ELSE <<>>
PageFiles(ranks, x) ==
  IF x.after \in FileIds
    THEN Listing!FirstOf(Listing!Sorted(Later(FileIds, ranks, x), ranks), Limit + 1)
    ELSE Listing!FirstOf(Listing!ListingOf(FileIds, ranks), Limit + 1)

LEMMA ListingIs ==
  ASSUME NEW ranks \in Ranks, NEW S \in SUBSET Children, NEW s, s = Listing!ListingOf(S, ranks)
  PROVE  /\ s = Listing!Sorted(InFolder(S, ranks), ranks) /\ InFolder(S, ranks) \in SUBSET Children
         /\ s \in Seq(S) /\ s \in Seq(Children) /\ Len(s) \in Nat /\ \A n \in 1 .. Len(s) : s[n] \in InFolder(S, ranks)
<1> DEFINE P == InFolder(S, ranks)
<1>1. P \in SUBSET Children /\ P \subseteq S
  BY DEF InFolder
<1>2. s = Listing!Sorted(P, ranks)
  BY DEF Listing!ListingOf, InFolder
<1> HIDE DEF P
<1>3. s \in Seq(P)
  BY <1>1, <1>2, SortedIs
<1>4. s \in Seq(S) /\ s \in Seq(Children)
  BY <1>1, <1>3
<1> QED BY <1>1, <1>2, <1>3, <1>4 DEF P

Parts(w, fo, fi) ==
  /\ fo \in Seq(Children) /\ fi \in Seq(Children) /\ Len(fo) \in Nat /\ Len(fi) \in Nat
  /\ w \in Seq(Children) /\ Len(w) = Len(fo) + Len(fi) /\ w = fo \o fi
  /\ \A n \in 1 .. Len(fo) : w[n] = fo[n] /\ fo[n] \in FolderIds
  /\ \A n \in 1 .. Len(fi) : w[Len(fo) + n] = fi[n] /\ fi[n] \in FileIds

LEMMA WholeIs ==
  ASSUME NEW ranks \in Ranks
  PROVE  Parts(Whole(ranks), Listing!ListingOf(FolderIds, ranks), Listing!ListingOf(FileIds, ranks))
<1> PICK fo, fi, w : /\ fo = Listing!ListingOf(FolderIds, ranks) /\ fi = Listing!ListingOf(FileIds, ranks)
                     /\ w = Whole(ranks)
  OBVIOUS
<1>1. /\ fo \in Seq(Children) /\ Len(fo) \in Nat /\ \A n \in 1 .. Len(fo) : fo[n] \in InFolder(FolderIds, ranks)
      /\ fi \in Seq(Children) /\ Len(fi) \in Nat /\ \A n \in 1 .. Len(fi) : fi[n] \in InFolder(FileIds, ranks)
  BY ListingIs, ChildrenFinite
<1>2. w = fo \o fi
  BY DEF Whole
<1>3. InFolder(FolderIds, ranks) \subseteq FolderIds /\ InFolder(FileIds, ranks) \subseteq FileIds
  BY DEF InFolder
<1>4. Parts(w, fo, fi)
  BY <1>1, <1>2, <1>3 DEF Parts
<1> QED BY <1>4

\* The rows behind a row of a listing.
LEMMA Behind ==
  ASSUME NEW ranks \in Ranks, NEW S \in SUBSET Children, NEW s, s = Listing!ListingOf(S, ranks),
         NEW k \in 1 .. Len(s), NEW x, x.after = s[k], x.at = ranks[s[k]]
  PROVE  \E a \in Seq(Children) : /\ a = Listing!Sorted(Later(S, ranks, x), ranks) /\ Len(a) = Len(s) - k
                                  /\ \A n \in 1 .. Len(a) : a[n] = s[k + n]
<1> DEFINE P == InFolder(S, ranks)
           A == Later(S, ranks, x)
           a == Listing!Sorted(A, ranks)
<1>1. s = Listing!Sorted(P, ranks) /\ P \in SUBSET Children /\ s[k] \in P /\ Len(s) \in Nat
  BY ListingIs
<1>2. A = {i \in P : Listing!Precedes(ranks, s[k], i)}
  BY DEF Later, InFolder, Listing!Precedes
<1>3. A \in SUBSET Children
  BY <1>1, <1>2
<1> HIDE DEF P, A
<1>4. PlaceOf(P, ranks, s[k]) = k /\ Len(s) = Cardinality(P)
  BY <1>1, SortedIs
<1>5. /\ Cardinality(A) = Cardinality(P) - k
      /\ \A n \in 1 .. Cardinality(A) : a[n] = s[k + n]
  BY <1>1, <1>2, <1>4, SortedAfter
<1>6. a \in Seq(A) /\ Len(a) = Cardinality(A)
  BY <1>3, SortedIs
<1>7. a \in Seq(Children)
  BY <1>3, <1>6
<1> QED BY <1>4, <1>5, <1>6, <1>7 DEF A

LEMMA NoRows ==
  ASSUME NEW m \in Nat PROVE Listing!FirstOf(<<>>, m) = <<>>
BY DEF Listing!FirstOf

\* The page at a cursor is taken from two sequences that make up the rest of the folder.
Remains(ranks, x, k, a, b) ==
  /\ k \in 0 .. Len(Whole(ranks)) /\ a \in Seq(Children) /\ b \in Seq(Children)
  /\ x.got \in Seq(Children) /\ Len(x.got) = k /\ \A n \in 1 .. k : x.got[n] = Whole(ranks)[n]
  /\ PageFolders(ranks, x) = Listing!FirstOf(a, Limit + 1) /\ PageFiles(ranks, x) = Listing!FirstOf(b, Limit + 1)
  /\ Len(a) + Len(b) = Len(Whole(ranks)) - k
  /\ \A n \in 1 .. Len(Whole(ranks)) - k : (a \o b)[n] = Whole(ranks)[k + n]

LEMMA Rest ==
  ASSUME NEW ranks \in Ranks, NEW x, Cursor(ranks, x)
  PROVE  \E k, a, b : Remains(ranks, x, k, a, b)
<1> PICK fo, fi, w : /\ fo = Listing!ListingOf(FolderIds, ranks) /\ fi = Listing!ListingOf(FileIds, ranks)
                     /\ w = Whole(ranks)
  OBVIOUS
<1>1. /\ fo \in Seq(Children) /\ fi \in Seq(Children) /\ Len(fo) \in Nat /\ Len(fi) \in Nat
      /\ w \in Seq(Children) /\ Len(w) = Len(fo) + Len(fi)
      /\ \A n \in 1 .. Len(fo) : w[n] = fo[n] /\ fo[n] \in FolderIds
      /\ \A n \in 1 .. Len(fi) : w[Len(fo) + n] = fi[n] /\ fi[n] \in FileIds
  <2>1. Parts(w, fo, fi)
    BY WholeIs
  <2> QED BY <2>1 DEF Parts
<1>2. Nothing \notin Children /\ FolderIds \cap FileIds = {} /\ Limit + 1 \in Nat
  BY ListingAssumption DEF Children
<1>3. w = fo \o fi
  BY DEF Whole
<1>4. CASE x.after = Nothing
  <2>1. x.got = <<>> /\ PageFolders(ranks, x) = Listing!FirstOf(fo, Limit + 1)
        /\ PageFiles(ranks, x) = Listing!FirstOf(fi, Limit + 1)
    <3>1. x.after \notin FileIds
      BY <1>2, <1>4 DEF Children
    <3> QED BY <1>4, <3>1 DEF Cursor, PageFolders, PageFiles
  <2>2. <<>> \in Seq(Children) /\ Len(<<>>) = 0
    OBVIOUS
  <2>3. Len(fo) + Len(fi) = Len(w) - 0 /\ \A n \in 1 .. Len(w) - 0 : (fo \o fi)[n] = w[0 + n]
    BY <1>1, <1>3
  <2>4. 0 \in 0 .. Len(w)
    BY <1>1
  <2> PICK nil : nil = <<>>
    OBVIOUS
  <2>5. /\ x.got \in Seq(Children) /\ Len(x.got) = 0 /\ \A n \in 1 .. 0 : x.got[n] = w[n]
    <3>1. \A n \in 1 .. 0 : FALSE
      OBVIOUS
    <3>2. x.got = nil /\ nil \in Seq(Children) /\ Len(nil) = 0
      BY <2>1, <2>2
    <3> QED BY <3>1, <3>2
  <2>6. Remains(ranks, x, 0, fo, fi)
    BY <1>1, <2>1, <2>3, <2>4, <2>5 DEF Remains
  <2> QED BY <2>6
<1>5. CASE x.after # Nothing
  <2>0. PICK k \in 1 .. Len(w) : x.got = SubSeq(w, 1, k) /\ x.after = w[k] /\ x.at = ranks[w[k]]
    BY <1>5 DEF Cursor
  <2>1. /\ k \in 0 .. Len(w) /\ k \in Nat
        /\ x.got \in Seq(Children) /\ Len(x.got) = k /\ \A n \in 1 .. k : x.got[n] = w[n]
    <3>1. k \in Nat /\ k <= Len(w) /\ \A n \in 1 .. k : w[n] \in Children
      BY <1>1, <2>0
    <3> QED BY <1>1, <2>0, <3>1
  <2>2. CASE k <= Len(fo)
    <3>0. k \in 1 .. Len(fo) /\ x.after = fo[k] /\ x.at = ranks[fo[k]] /\ FolderIds \in SUBSET Children
      BY <1>1, <2>0, <2>1, <2>2, ChildrenFinite
    <3>1. x.after \in FolderIds /\ x.after \notin FileIds
      BY <1>1, <1>2, <3>0
    <3>2. PICK a \in Seq(Children) : /\ a = Listing!Sorted(Later(FolderIds, ranks, x), ranks) /\ Len(a) = Len(fo) - k
                                     /\ \A n \in 1 .. Len(a) : a[n] = fo[k + n]
      BY <3>0, Behind
    <3>3. PageFolders(ranks, x) = Listing!FirstOf(a, Limit + 1) /\ PageFiles(ranks, x) = Listing!FirstOf(fi, Limit + 1)
      BY <1>5, <3>1, <3>2 DEF PageFolders, PageFiles
    <3>4. Len(a) + Len(fi) = Len(w) - k
      BY <1>1, <2>1, <3>2
    <3>5. ASSUME NEW n \in 1 .. Len(w) - k PROVE (a \o fi)[n] = w[k + n]
      <4>1. n \in Nat /\ 1 <= n /\ n <= Len(a) + Len(fi) /\ Len(a) \in Nat
        BY <1>1, <2>1, <3>4
      <4>2. CASE n <= Len(a)
        <5>1. (a \o fi)[n] = a[n] /\ a[n] = fo[k + n]
          BY <1>1, <3>2, <4>1, <4>2
        <5>2. k + n \in 1 .. Len(fo)
          BY <1>1, <2>1, <3>2, <4>1, <4>2
        <5> QED BY <1>1, <5>1, <5>2
      <4>3. CASE n > Len(a)
        <5>1. (a \o fi)[n] = fi[n - Len(a)]
          BY <1>1, <3>2, <4>1, <4>3
        <5>2. n - Len(a) \in 1 .. Len(fi) /\ Len(fo) + (n - Len(a)) = k + n
          BY <1>1, <2>1, <3>2, <4>1, <4>3
        <5> QED BY <1>1, <5>1, <5>2
      <4>4. n <= Len(a) \/ n > Len(a)
        BY <4>1
      <4> QED BY <4>2, <4>3, <4>4
    <3>6. Remains(ranks, x, k, a, fi)
      BY <1>1, <2>1, <3>2, <3>3, <3>4, <3>5 DEF Remains
    <3> QED BY <3>6
  <2>3. CASE k > Len(fo)
    <3> DEFINE m == k - Len(fo)
    <3>1. m \in 1 .. Len(fi) /\ w[k] = fi[m] /\ k = Len(fo) + m
      <4>1. m \in 1 .. Len(fi) /\ Len(fo) + m = k
        BY <1>1, <2>0, <2>1, <2>3
      <4> QED BY <1>1, <4>1
    <3> HIDE DEF m
    <3>2. /\ x.after \in FileIds /\ x.after \notin FolderIds /\ x.after = fi[m] /\ x.at = ranks[fi[m]]
          /\ FileIds \in SUBSET Children
      <4>1. x.after = fi[m] /\ x.at = ranks[fi[m]]
        BY <2>0, <3>1
      <4>2. fi[m] \in FileIds
        BY <1>1, <3>1
      <4> QED BY <1>2, <4>1, <4>2, ChildrenFinite
    <3>3. PICK b \in Seq(Children) : /\ b = Listing!Sorted(Later(FileIds, ranks, x), ranks) /\ Len(b) = Len(fi) - m
                                     /\ \A n \in 1 .. Len(b) : b[n] = fi[m + n]
      BY <3>1, <3>2, Behind
    <3>4. PageFolders(ranks, x) = Listing!FirstOf(<<>>, Limit + 1) /\ PageFiles(ranks, x) = Listing!FirstOf(b, Limit + 1)
      BY <1>2, <1>5, <3>2, <3>3, NoRows DEF PageFolders, PageFiles
    <3> PICK nil : nil = <<>>
      OBVIOUS
    <3>5. nil \in Seq(Children) /\ Len(nil) = 0 /\ nil \o b = b /\ PageFolders(ranks, x) = Listing!FirstOf(nil, Limit + 1)
      BY <3>3, <3>4
    <3>6. Len(nil) + Len(b) = Len(w) - k
      BY <1>1, <3>1, <3>3, <3>5
    <3>7. ASSUME NEW n \in 1 .. Len(w) - k PROVE (nil \o b)[n] = w[k + n]
      <4>1. n \in 1 .. Len(b) /\ m + n \in 1 .. Len(fi) /\ Len(fo) + (m + n) = k + n
        BY <1>1, <2>1, <3>1, <3>3, <3>5, <3>6
      <4>2. (nil \o b)[n] = b[n] /\ b[n] = fi[m + n] /\ fi[m + n] = w[Len(fo) + (m + n)]
        BY <1>1, <3>3, <3>5, <4>1
      <4> QED BY <4>1, <4>2
    <3>8. Remains(ranks, x, k, nil, b)
      BY <2>1, <3>3, <3>4, <3>5, <3>6, <3>7 DEF Remains
    <3> QED BY <3>8
  <2> QED BY <1>1, <2>1, <2>2, <2>3
<1> QED BY <1>4, <1>5

\* A page takes the answer on: to the end of the folder, or to a row of it.
PageAt(ranks, x, both, page, got) ==
  /\ both = PageFolders(ranks, x) \o PageFiles(ranks, x) /\ page = Listing!FirstOf(both, Limit)
  /\ got = x.got \o page
TakesOn(ranks, both, page, got) ==
  /\ ~(Len(both) > Len(page)) => got = Whole(ranks)
  /\ Len(both) > Len(page) => \E k \in 1 .. Len(Whole(ranks)) :
       got = SubSeq(Whole(ranks), 1, k) /\ Listing!Last(page) = Whole(ranks)[k] /\ Listing!Last(page) \in Children

LEMMA PageCut ==
  ASSUME NEW ranks \in Ranks, NEW x, Cursor(ranks, x), NEW both, NEW page, NEW got,
         PageAt(ranks, x, both, page, got)
  PROVE  TakesOn(ranks, both, page, got)
<1> PICK w, h : w = Whole(ranks) /\ h = x.got
  OBVIOUS
<1>1. PICK k, a, b : Remains(ranks, x, k, a, b)
  BY Rest
<1>2. /\ k \in 0 .. Len(w) /\ a \in Seq(Children) /\ b \in Seq(Children)
      /\ h \in Seq(Children) /\ Len(h) = k /\ \A n \in 1 .. k : h[n] = w[n]
      /\ Len(a) + Len(b) = Len(w) - k
      /\ \A n \in 1 .. Len(w) - k : (a \o b)[n] = w[k + n]
  BY <1>1 DEF Remains
<1>3. both = Listing!FirstOf(a, Limit + 1) \o Listing!FirstOf(b, Limit + 1) /\ page = Listing!FirstOf(both, Limit)
  BY <1>1 DEF Remains, PageAt
<1>4. Limit \in Nat \ {0} /\ w \in Seq(Children) /\ Len(w) \in Nat
  <2>1. Parts(w, Listing!ListingOf(FolderIds, ranks), Listing!ListingOf(FileIds, ranks))
    BY WholeIs
  <2> QED BY <2>1, ListingAssumption DEF Parts
<1>5. /\ page \in Seq(Children) /\ both \in Seq(Children)
      /\ Len(page) = IF Len(w) - k < Limit THEN Len(w) - k ELSE Limit
      /\ Len(both) > Len(page) <=> Len(w) - k > Limit
      /\ \A n \in 1 .. Len(page) : page[n] = (a \o b)[n]
  <2>1. IsCut(a, b, Limit, both, page)
    BY <1>2, <1>3, <1>4, Cut
  <2> QED BY <1>2, <2>1 DEF IsCut
<1>6. Len(page) \in Nat /\ k \in Nat /\ Len(page) <= Len(w) - k /\ k + Len(page) <= Len(w)
  BY <1>2, <1>4, <1>5
<1>7. got \in Seq(Children) /\ Len(got) = k + Len(page) /\ \A n \in 1 .. k + Len(page) : got[n] = w[n]
  <2>1. got = h \o page
    BY DEF PageAt
  <2>2. /\ got \in Seq(Children) /\ Len(got) = k + Len(page)
        /\ \A n \in 1 .. k + Len(page) : got[n] = IF n <= k THEN h[n] ELSE page[n - k]
    <3>1. h \in Seq(Children) /\ page \in Seq(Children) /\ Len(h) = k
      BY <1>2, <1>5
    <3> QED BY ONLY <3>1, <2>1, ConcatProperties
  <2>3. ASSUME NEW n \in 1 .. k + Len(page) PROVE got[n] = w[n]
    <3>1. CASE n <= k
      BY <1>2, <1>6, <2>2, <3>1
    <3>2. CASE n > k
      <4>1. n - k \in 1 .. Len(page) /\ n - k \in 1 .. Len(w) - k /\ k + (n - k) = n
        BY <1>4, <1>6, <3>2
      <4>2. got[n] = page[n - k]
        BY <1>6, <2>2, <3>2
      <4>3. page[n - k] = (a \o b)[n - k] /\ (a \o b)[n - k] = w[k + (n - k)]
        BY <1>2, <1>5, <4>1
      <4> QED BY <4>1, <4>2, <4>3
    <3>3. n <= k \/ n > k
      BY <1>6
    <3> QED BY <3>1, <3>2, <3>3
  <2> QED BY <2>2, <2>3
<1>8. got = SubSeq(w, 1, k + Len(page))
  <2> DEFINE m == k + Len(page)
  <2>1. m \in Nat /\ m <= Len(w) /\ \A n \in 1 .. m : w[n] \in Children
    BY <1>4, <1>6
  <2>2. SubSeq(w, 1, m) \in Seq(Children) /\ Len(SubSeq(w, 1, m)) = m /\ \A n \in 1 .. m : SubSeq(w, 1, m)[n] = w[n]
    BY <1>4, <2>1
  <2> HIDE DEF m
  <2>3. Len(got) = m /\ \A n \in 1 .. m : got[n] = w[n]
    BY <1>7 DEF m
  <2> QED BY <1>7, <2>2, <2>3, SeqEqual DEF m
<1>9. CASE ~(Len(both) > Len(page))
  <2>1. k + Len(page) = Len(w)
    <3>1. ~(Len(w) - k > Limit) /\ Len(w) - k \in Nat
      BY <1>2, <1>4, <1>5, <1>9
    <3>2. Len(page) = Len(w) - k
      BY <1>4, <1>5, <3>1
    <3> QED BY <1>4, <1>6, <3>2
  <2>2. got = w
    BY <1>4, <1>7, <2>1, SeqEqual
  <2> QED BY <1>9, <2>2 DEF TakesOn
<1>10. CASE Len(both) > Len(page)
  <2>1. Len(page) = Limit /\ k + Len(page) \in 1 .. Len(w) /\ Len(page) \in 1 .. Len(page)
    BY <1>2, <1>4, <1>5, <1>6, <1>10
  <2>2. Listing!Last(page) = w[k + Len(page)]
    <3>1. Listing!Last(page) = page[Len(page)]
      BY DEF Listing!Last
    <3>2. Len(page) \in 1 .. Len(w) - k
      BY <1>4, <1>6, <2>1
    <3> QED BY <1>2, <1>5, <2>1, <3>1, <3>2
  <2>3. w[k + Len(page)] \in Children
    BY <1>4, <2>1
  <2> QED BY <1>8, <1>10, <2>1, <2>2, <2>3 DEF TakesOn
<1> QED BY <1>9, <1>10

-----------------------------------------------------------------------------
(* The invariant of pages *)

FirstFolders(ranks) == Listing!FirstOf(Listing!ListingOf(FolderIds, ranks), Limit + 1)
FirstFiles(ranks) == Listing!FirstOf(Listing!ListingOf(FileIds, ranks), Limit + 1)

PageOK(log, n, x) ==
  /\ x.pc \in {"idle", "epoch", "lookup", "folders", "files", "verify", "fill", "publish", "recheck", "snapshot",
               "answer", "done"}
  /\ x.kind = "page"
  /\ x.pc = "idle" => x.after = Nothing
  /\ x.pc # "idle" => x.start \in 1 .. n
  /\ x.pc \notin {"idle", "epoch"} \/ x.after # Nothing => x.epoch \in x.start .. n
  /\ x.pc # "done" => Cursor(log[x.epoch], x)
  /\ x.pc \in {"lookup", "fill", "publish", "recheck", "snapshot"} => x.after = Nothing
  /\ x.pc = "files" => \E f \in x.epoch .. n : x.folders = PageFolders(log[f], x)
  /\ x.pc = "verify" => \E f, g \in x.epoch .. n : x.folders = PageFolders(log[f], x) /\ x.files = PageFiles(log[g], x)
  /\ x.pc \in {"fill", "publish", "recheck", "answer"} =>
       x.folders = PageFolders(log[x.epoch], x) /\ x.files = PageFiles(log[x.epoch], x)
  /\ x.pc = "done" => x.got = Whole(log[x.epoch])

\* A cached first page is the one at the epoch that its key names.
FirstPage(ranks, v) == v.folders = FirstFolders(ranks) /\ v.files = FirstFiles(ranks)
PageCacheOK(log, n, cache) ==
  /\ DOMAIN cache = Listing!Keys
  /\ \A e \in 1 .. MaxWrites : cache[<<"page", e>>] # Nothing => e <= n /\ FirstPage(log[e], cache[<<"page", e>>])

PagesInv ==
  /\ LogOK
  /\ DOMAIN rd = Readers /\ \A r \in Readers : Shape(rd[r]) /\ PageOK(past, ownerEpoch, rd[r])
  /\ PageCacheOK(past, ownerEpoch, shared)
  /\ DOMAIN local = Processes /\ \A p \in Processes : PageCacheOK(past, ownerEpoch, local[p])

\* Queries and the cursor look at nothing but the cursor's fields.
LEMMA SameCursor ==
  ASSUME NEW x, NEW y, y.after = x.after, y.at = x.at
  PROVE  \A ranks : /\ PageFolders(ranks, y) = PageFolders(ranks, x) /\ PageFiles(ranks, y) = PageFiles(ranks, x)
                    /\ y.got = x.got => (Cursor(ranks, y) <=> Cursor(ranks, x))
BY DEF PageFolders, PageFiles, Later, Cursor

LEMMA PageGrows ==
  ASSUME NEW n \in Nat, NEW log, NEW longer, \A e \in 1 .. n : longer[e] = log[e],
         NEW x, PageOK(log, n, x)
  PROVE  PageOK(longer, n + 1, x)
<1>1. x.pc # "idle" => x.start \in 1 .. n + 1
  BY DEF PageOK
<1>2. x.pc \notin {"idle", "epoch"} \/ x.after # Nothing => x.epoch \in x.start .. n + 1
  <2>1. x.pc \notin {"idle", "epoch"} \/ x.after # Nothing => x.start \in 1 .. n /\ x.epoch \in x.start .. n
    BY DEF PageOK
  <2> QED BY <2>1
<1>3. x.pc \notin {"idle", "epoch"} \/ x.after # Nothing =>
        x.epoch \in 1 .. n /\ (\A f \in x.epoch .. n : f \in x.epoch .. n + 1 /\ longer[f] = log[f])
        /\ longer[x.epoch] = log[x.epoch]
  <2>1. x.pc \notin {"idle", "epoch"} \/ x.after # Nothing => x.start \in 1 .. n /\ x.epoch \in x.start .. n
    BY DEF PageOK
  <2> QED BY <2>1
<1>4. x.pc # "done" => Cursor(longer[x.epoch], x)
  <2>1. CASE x.after = Nothing
    BY <2>1 DEF PageOK, Cursor
  <2>2. CASE x.after # Nothing
    BY <1>3, <2>2 DEF PageOK
  <2> QED BY <2>1, <2>2
<1>5. x.pc = "files" => \E f \in x.epoch .. n + 1 : x.folders = PageFolders(longer[f], x)
  <2> SUFFICES ASSUME x.pc = "files" PROVE \E f \in x.epoch .. n + 1 : x.folders = PageFolders(longer[f], x)
    OBVIOUS
  <2>1. PICK f \in x.epoch .. n : x.folders = PageFolders(log[f], x)
    BY DEF PageOK
  <2>2. f \in x.epoch .. n + 1 /\ longer[f] = log[f]
    BY <1>3
  <2>3. x.folders = PageFolders(longer[f], x)
    BY <2>1, <2>2
  <2> QED BY <2>2, <2>3
<1>6. x.pc = "verify" => \E f, g \in x.epoch .. n + 1 : /\ x.folders = PageFolders(longer[f], x)
                                                        /\ x.files = PageFiles(longer[g], x)
  <2> SUFFICES ASSUME x.pc = "verify"
               PROVE  \E f, g \in x.epoch .. n + 1 : /\ x.folders = PageFolders(longer[f], x)
                                                     /\ x.files = PageFiles(longer[g], x)
    OBVIOUS
  <2>1. PICK f \in x.epoch .. n, g \in x.epoch .. n :
          x.folders = PageFolders(log[f], x) /\ x.files = PageFiles(log[g], x)
    BY DEF PageOK
  <2>2. f \in x.epoch .. n + 1 /\ longer[f] = log[f] /\ g \in x.epoch .. n + 1 /\ longer[g] = log[g]
    BY <1>3
  <2>3. x.folders = PageFolders(longer[f], x) /\ x.files = PageFiles(longer[g], x)
    BY <2>1, <2>2
  <2> QED BY <2>2, <2>3
<1>7. x.pc \in {"fill", "publish", "recheck", "answer"} =>
        x.folders = PageFolders(longer[x.epoch], x) /\ x.files = PageFiles(longer[x.epoch], x)
  BY <1>3 DEF PageOK
<1>8. x.pc = "done" => x.got = Whole(longer[x.epoch])
  BY <1>3 DEF PageOK
<1>9. /\ x.pc \in {"idle", "epoch", "lookup", "folders", "files", "verify", "fill", "publish", "recheck", "snapshot",
                   "answer", "done"}
      /\ x.kind = "page" /\ (x.pc = "idle" => x.after = Nothing)
      /\ (x.pc \in {"lookup", "fill", "publish", "recheck", "snapshot"} => x.after = Nothing)
  BY DEF PageOK
<1> QED BY <1>1, <1>2, <1>4, <1>5, <1>6, <1>7, <1>8, <1>9 DEF PageOK

LEMMA PageCacheGrows ==
  ASSUME NEW n \in Nat, NEW log, NEW longer, \A e \in 1 .. n : longer[e] = log[e],
         NEW cache, PageCacheOK(log, n, cache)
  PROVE  PageCacheOK(longer, n + 1, cache)
<1>1. ASSUME NEW e \in 1 .. MaxWrites, cache[<<"page", e>>] # Nothing
      PROVE  e <= n + 1 /\ FirstPage(longer[e], cache[<<"page", e>>])
  <2>1. e <= n /\ FirstPage(log[e], cache[<<"page", e>>])
    BY <1>1 DEF PageCacheOK
  <2>2. longer[e] = log[e]
    BY <2>1
  <2> QED BY <2>1, <2>2
<1> QED BY <1>1 DEF PageCacheOK

LEMMA WritePages ==
  ASSUME PagesInv, MaxWrites \in Nat, NEW i \in FolderIds \cup FileIds, NEW to \in 0 .. MaxRank, Listing!Write(i, to)
  PROVE  PagesInv'
<1>1. LogOK' /\ ownerEpoch' = ownerEpoch + 1 /\ \A e \in 1 .. ownerEpoch : past'[e] = past[e]
  BY LogGrows DEF PagesInv, LogOK
<1>2. ownerEpoch \in Nat
  BY DEF PagesInv, LogOK
<1>3. UNCHANGED <<local, shared, rd>>
  BY DEF Listing!Write
<1> DEFINE later == past'
<1>4. \A e \in 1 .. ownerEpoch : later[e] = past[e]
  BY <1>1
<1> HIDE DEF later
<1>5. \A r \in Readers : PageOK(later, ownerEpoch + 1, rd[r])
  BY <1>2, <1>4, PageGrows DEF PagesInv
<1>6. PageCacheOK(later, ownerEpoch + 1, shared) /\ \A p \in Processes : PageCacheOK(later, ownerEpoch + 1, local[p])
  BY <1>2, <1>4, PageCacheGrows DEF PagesInv
<1> QED BY <1>1, <1>3, <1>5, <1>6 DEF PagesInv, later

\* A step of a request, of which the caches keep what was read.
LEMMA PageMove ==
  ASSUME PagesInv, NEW r \in Readers, NEW y, Shape(y), PageOK(past, ownerEpoch, y), rd' = [rd EXCEPT ![r] = y],
         UNCHANGED <<rank, ownerEpoch, past>>,
         PageCacheOK(past, ownerEpoch, shared'),
         DOMAIN local' = Processes, \A p \in Processes : PageCacheOK(past, ownerEpoch, local'[p])
  PROVE  PagesInv'
<1>1. DOMAIN rd' = Readers /\ rd'[r] = y /\ \A s \in Readers : s # r => rd'[s] = rd[s]
  BY DEF PagesInv
<1>2. \A s \in Readers : Shape(rd'[s]) /\ PageOK(past, ownerEpoch, rd'[s])
  BY <1>1 DEF PagesInv
<1> QED BY <1>1, <1>2 DEF PagesInv, LogOK

LEMMA PageReads ==
  ASSUME PagesInv, NEW r \in Readers, NEW y, Shape(y), PageOK(past, ownerEpoch, y), rd' = [rd EXCEPT ![r] = y],
         Listing!ReadOnly
  PROVE  PagesInv'
BY PageMove DEF PagesInv, Listing!ReadOnly

\* What is known of a request, and of the ranks at an epoch.
LEMMA PageFacts ==
  ASSUME PagesInv, NEW r \in Readers
  PROVE  /\ Shape(rd[r]) /\ PageOK(past, ownerEpoch, rd[r]) /\ rd[r].kind = "page"
         /\ ownerEpoch \in Nat \ {0} /\ ownerEpoch \in 1 .. MaxWrites /\ past[ownerEpoch] = rank
         /\ rank \in Ranks /\ \A e \in 1 .. ownerEpoch : past[e] \in Ranks
<1>1. Shape(rd[r]) /\ PageOK(past, ownerEpoch, rd[r]) /\ LogOK
  BY DEF PagesInv
<1>2. \A e \in 1 .. ownerEpoch : past[e] \in Ranks
  BY <1>1 DEF LogOK
<1>3. ownerEpoch \in Nat \ {0} /\ ownerEpoch \in 1 .. MaxWrites /\ past[ownerEpoch] = rank /\ rank \in Ranks
  BY <1>1 DEF LogOK
<1> QED BY <1>1, <1>2, <1>3 DEF PageOK

\* A cursor names a child.
LEMMA CursorChild ==
  ASSUME NEW ranks \in Ranks, NEW x, Cursor(ranks, x), x.after # Nothing
  PROVE  x.after \in Children
<1>1. Parts(Whole(ranks), Listing!ListingOf(FolderIds, ranks), Listing!ListingOf(FileIds, ranks))
  BY WholeIs
<1>2. Whole(ranks) \in Seq(Children)
  BY <1>1 DEF Parts
<1> PICK w : w = Whole(ranks)
  OBVIOUS
<1>3. PICK k \in 1 .. Len(w) : x.after = w[k]
  BY DEF Cursor
<1> QED BY <1>2, <1>3

\* What the queries of a page see.
LEMMA PageQueries ==
  ASSUME PagesInv, NEW r \in Readers, rd[r].pc \in {"folders", "files", "snapshot"}
  PROVE  Listing!FolderRows(r) = PageFolders(rank, rd[r]) /\ Listing!FileRows(r) = PageFiles(rank, rd[r])
<1>1. rd[r].kind = "page" /\ rd[r].after \in Children \cup {Nothing}
  <2>1. rd[r].start \in 1 .. ownerEpoch /\ rd[r].epoch \in rd[r].start .. ownerEpoch /\ Cursor(past[rd[r].epoch], rd[r])
    BY PageFacts DEF PageOK
  <2>2. rd[r].epoch \in 1 .. ownerEpoch
    BY <2>1, PageFacts
  <2> QED BY <2>1, <2>2, PageFacts, CursorChild
<1>2. Nothing \notin Children /\ FolderIds \cap FileIds = {}
  BY ListingAssumption DEF Children
<1>3. Listing!Sorted(Listing!Present(FolderIds), rank) = Listing!ListingOf(FolderIds, rank)
      /\ Listing!Sorted(Listing!Present(FileIds), rank) = Listing!ListingOf(FileIds, rank)
  BY DEF Listing!Present, Listing!ListingOf
<1>4. Listing!After(FolderIds, r) = Later(FolderIds, rank, rd[r]) /\ Listing!After(FileIds, r) = Later(FileIds, rank, rd[r])
  BY DEF Listing!After, Listing!Present, Later
<1>5. CASE rd[r].after = Nothing
  BY <1>1, <1>2, <1>3, <1>5 DEF Listing!FolderRows, Listing!FileRows, PageFolders, PageFiles, Children
<1>6. CASE rd[r].after \in FolderIds
  BY <1>1, <1>2, <1>3, <1>4, <1>6 DEF Listing!FolderRows, Listing!FileRows, PageFolders, PageFiles, Children
<1>7. CASE rd[r].after \in FileIds
  BY <1>1, <1>2, <1>3, <1>4, <1>7 DEF Listing!FolderRows, Listing!FileRows, PageFolders, PageFiles, Children
<1> QED BY <1>1, <1>5, <1>6, <1>7 DEF Children

-----------------------------------------------------------------------------
\* A client starts, or starts again.
LEMMA IdlePage ==
  ASSUME NEW n, NEW log
  PROVE  Shape(Listing!Idle("page")) /\ PageOK(log, n, Listing!Idle("page"))
<1>1. PICK y : y = Listing!Idle("page")
  OBVIOUS
<1>2. y.pc = "idle" /\ y.kind = "page" /\ y.after = Nothing /\ y.got = <<>> /\ Shape(y)
  BY <1>1, IdleRow DEF Listing!Idle
<1>3. PageOK(log, n, y)
  BY <1>2 DEF PageOK, Cursor
<1> QED BY <1>1, <1>2, <1>3

LEMMA AskPage ==
  ASSUME PagesInv, NEW r \in Readers, Listing!Ask(r)
  PROVE  PagesInv'
<1>y. PICK y : y = WithPcStart(rd[r], "epoch", ownerEpoch)
  OBVIOUS
<1>0. Shape(rd[r]) /\ PageOK(past, ownerEpoch, rd[r]) /\ ownerEpoch \in Nat \ {0}
  BY PageFacts
<1>1. rd' = [rd EXCEPT ![r] = y] /\ Listing!ReadOnly /\ rd[r].pc = "idle"
  BY <1>y DEF Listing!Ask, PagesInv, WithPcStart
<1>2. /\ Shape(y) /\ y.pc = "epoch" /\ y.kind = rd[r].kind /\ y.start = ownerEpoch /\ y.after = rd[r].after
      /\ y.at = rd[r].at /\ y.got = rd[r].got /\ y.epoch = rd[r].epoch
  <2>1. Shape(rd[r])
    BY <1>0
  <2> QED BY ONLY <2>1, <1>y, SetPcStart
<1>3. rd[r].after = Nothing /\ Cursor(past[rd[r].epoch], rd[r]) /\ rd[r].kind = "page"
  BY <1>0, <1>1 DEF PageOK
<1>4. Cursor(past[y.epoch], y)
  BY <1>2, <1>3, SameCursor
<1>5. PageOK(past, ownerEpoch, y)
  BY <1>0, <1>2, <1>3, <1>4 DEF PageOK
<1> QED BY <1>1, <1>2, <1>5, PageReads

LEMMA EpochPage ==
  ASSUME PagesInv, NEW r \in Readers, Listing!ReadEpoch(r)
  PROVE  PagesInv'
<1>0. Shape(rd[r]) /\ PageOK(past, ownerEpoch, rd[r]) /\ ownerEpoch \in Nat \ {0} /\ rd[r].kind = "page"
      /\ rd[r].pc = "epoch" /\ Listing!ReadOnly
  BY PageFacts DEF Listing!ReadEpoch
<1>1. rd[r].start \in 1 .. ownerEpoch /\ ownerEpoch \in rd[r].start .. ownerEpoch /\ Cursor(past[rd[r].epoch], rd[r])
  <2>1. rd[r].start \in 1 .. ownerEpoch /\ Cursor(past[rd[r].epoch], rd[r])
    BY <1>0 DEF PageOK
  <2> QED BY <1>0, <2>1
<1>2. CASE rd[r].after = Nothing
  <2>y. PICK y : y = WithEpochPc(rd[r], ownerEpoch, "lookup")
    OBVIOUS
  <2>1. rd' = [rd EXCEPT ![r] = y]
    BY <1>2, <2>y DEF Listing!ReadEpoch, PagesInv, WithEpochPc
  <2>2. /\ Shape(y) /\ y.pc = "lookup" /\ y.kind = rd[r].kind /\ y.start = rd[r].start /\ y.after = rd[r].after
        /\ y.at = rd[r].at /\ y.got = rd[r].got /\ y.epoch = ownerEpoch
    <3>1. Shape(rd[r])
      BY <1>0
    <3> QED BY ONLY <3>1, <2>y, SetEpochPc
  <2>3. Cursor(past[y.epoch], y)
    BY <1>1, <1>2, <2>2 DEF Cursor
  <2>4. PageOK(past, ownerEpoch, y)
    BY <1>0, <1>1, <1>2, <2>2, <2>3 DEF PageOK
  <2> QED BY <1>0, <2>1, <2>2, <2>4, PageReads
<1>3. CASE rd[r].after # Nothing /\ rd[r].epoch = ownerEpoch
  <2>y. PICK y : y = WithPc(rd[r], "folders")
    OBVIOUS
  <2>1. rd' = [rd EXCEPT ![r] = y]
    BY <1>3, <2>y DEF Listing!ReadEpoch, PagesInv, WithPc
  <2>2. /\ Shape(y) /\ y.pc = "folders" /\ y.kind = rd[r].kind /\ y.start = rd[r].start /\ y.after = rd[r].after
        /\ y.at = rd[r].at /\ y.got = rd[r].got /\ y.epoch = rd[r].epoch
    <3>1. Shape(rd[r])
      BY <1>0
    <3> QED BY ONLY <3>1, <2>y, SetPc
  <2>3. Cursor(past[y.epoch], y)
    BY <1>1, <2>2, SameCursor
  <2>4. PageOK(past, ownerEpoch, y)
    BY <1>0, <1>1, <1>3, <2>2, <2>3 DEF PageOK
  <2> QED BY <1>0, <2>1, <2>2, <2>4, PageReads
<1>4. CASE rd[r].after # Nothing /\ rd[r].epoch # ownerEpoch
  <2>1. rd' = [rd EXCEPT ![r] = Listing!Idle("page")]
    BY <1>0, <1>4 DEF Listing!ReadEpoch, PagesInv
  <2> QED BY <1>0, <2>1, IdlePage, PageReads
<1> QED BY <1>2, <1>3, <1>4

LEMMA FoldersPage ==
  ASSUME PagesInv, NEW r \in Readers, Listing!ReadFolders(r)
  PROVE  PagesInv'
<1> PICK fo : fo = PageFolders(rank, rd[r])
  OBVIOUS
<1>y. PICK y : y = WithFoldersPc(rd[r], fo, "files")
  OBVIOUS
<1>0. Shape(rd[r]) /\ PageOK(past, ownerEpoch, rd[r]) /\ ownerEpoch \in Nat \ {0} /\ past[ownerEpoch] = rank
      /\ rd[r].pc = "folders" /\ Listing!ReadOnly /\ rd[r].kind = "page"
  BY PageFacts DEF Listing!ReadFolders
<1>1. rd' = [rd EXCEPT ![r] = y]
  <2>1. Listing!FolderRows(r) = fo
    BY <1>0, PageQueries
  <2> QED BY <1>y, <2>1 DEF Listing!ReadFolders, PagesInv, WithFoldersPc
<1>2. /\ Shape(y) /\ y.pc = "files" /\ y.kind = rd[r].kind /\ y.start = rd[r].start /\ y.after = rd[r].after
      /\ y.at = rd[r].at /\ y.got = rd[r].got /\ y.epoch = rd[r].epoch /\ y.folders = fo
  <2>1. Shape(rd[r])
    BY <1>0
  <2> QED BY ONLY <2>1, <1>y, SetFoldersPc
<1>3. rd[r].start \in 1 .. ownerEpoch /\ rd[r].epoch \in rd[r].start .. ownerEpoch /\ Cursor(past[rd[r].epoch], rd[r])
  BY <1>0 DEF PageOK
<1>4. Cursor(past[y.epoch], y) /\ y.folders = PageFolders(past[ownerEpoch], y)
  BY <1>0, <1>2, <1>3, SameCursor
<1>5. ownerEpoch \in y.epoch .. ownerEpoch
  BY <1>0, <1>2, <1>3
<1>6. PageOK(past, ownerEpoch, y)
  BY <1>0, <1>2, <1>3, <1>4, <1>5 DEF PageOK
<1> QED BY <1>0, <1>1, <1>2, <1>6, PageReads

LEMMA FilesPage ==
  ASSUME PagesInv, NEW r \in Readers, Listing!ReadFiles(r)
  PROVE  PagesInv'
<1> PICK fi : fi = PageFiles(rank, rd[r])
  OBVIOUS
<1>y. PICK y : y = WithFilesPc(rd[r], fi, "verify")
  OBVIOUS
<1>0. Shape(rd[r]) /\ PageOK(past, ownerEpoch, rd[r]) /\ ownerEpoch \in Nat \ {0} /\ past[ownerEpoch] = rank
      /\ rd[r].pc = "files" /\ Listing!ReadOnly /\ rd[r].kind = "page"
  BY PageFacts DEF Listing!ReadFiles
<1>1. rd' = [rd EXCEPT ![r] = y]
  <2>1. Listing!FileRows(r) = fi
    BY <1>0, PageQueries
  <2> QED BY <1>0, <1>y, <2>1 DEF Listing!ReadFiles, PagesInv, WithFilesPc
<1>2. /\ Shape(y) /\ y.pc = "verify" /\ y.kind = rd[r].kind /\ y.start = rd[r].start /\ y.after = rd[r].after
      /\ y.at = rd[r].at /\ y.got = rd[r].got /\ y.epoch = rd[r].epoch /\ y.folders = rd[r].folders /\ y.files = fi
  <2>1. Shape(rd[r])
    BY <1>0
  <2> QED BY ONLY <2>1, <1>y, SetFilesPc
<1>3. rd[r].start \in 1 .. ownerEpoch /\ rd[r].epoch \in rd[r].start .. ownerEpoch /\ Cursor(past[rd[r].epoch], rd[r])
  BY <1>0 DEF PageOK
<1>4. PICK f \in rd[r].epoch .. ownerEpoch : rd[r].folders = PageFolders(past[f], rd[r])
  BY <1>0 DEF PageOK
<1>5. /\ Cursor(past[y.epoch], y) /\ y.files = PageFiles(past[ownerEpoch], y)
      /\ y.folders = PageFolders(past[f], y)
  BY <1>0, <1>2, <1>3, <1>4, SameCursor
<1>6. ownerEpoch \in y.epoch .. ownerEpoch /\ f \in y.epoch .. ownerEpoch
  BY <1>0, <1>2, <1>3
<1>7. PageOK(past, ownerEpoch, y)
  BY <1>0, <1>2, <1>3, <1>5, <1>6 DEF PageOK
<1> QED BY <1>0, <1>1, <1>2, <1>7, PageReads

\* A step to another place with the same reads.
LEMMA GonePage ==
  ASSUME PagesInv, NEW r \in Readers, NEW p, Listing!Go(r, p), UNCHANGED <<rank, ownerEpoch, past>>,
         \/ rd[r].pc = "lookup" /\ p = "folders"
         \/ rd[r].pc = "verify" /\ rd[r].epoch = ownerEpoch /\ (p = "answer" \/ (p = "fill" /\ rd[r].after = Nothing))
         \/ rd[r].pc \in {"verify", "recheck"} /\ rd[r].after = Nothing /\ p = "snapshot"
         \/ rd[r].pc \in {"fill", "publish"} /\ p \in {"publish", "recheck"}
         \/ rd[r].pc = "recheck" /\ p = "answer",
         PageCacheOK(past, ownerEpoch, shared'),
         DOMAIN local' = Processes, \A q \in Processes : PageCacheOK(past, ownerEpoch, local'[q])
  PROVE  PagesInv'
<1>0. Shape(rd[r]) /\ PageOK(past, ownerEpoch, rd[r]) /\ rd[r].kind = "page" /\ ownerEpoch \in Nat
  BY PageFacts
<1>y. PICK y : y = WithPc(rd[r], p)
  OBVIOUS
<1>1. rd' = [rd EXCEPT ![r] = y]
  BY <1>y DEF Listing!Go, PagesInv, WithPc
<1>2. /\ Shape(y) /\ y.pc = p /\ y.kind = rd[r].kind /\ y.start = rd[r].start /\ y.after = rd[r].after
      /\ y.at = rd[r].at /\ y.got = rd[r].got /\ y.epoch = rd[r].epoch
      /\ y.folders = rd[r].folders /\ y.files = rd[r].files
  <2>1. Shape(rd[r])
    BY <1>0
  <2> QED BY ONLY <2>1, <1>y, SetPc
<1>3. rd[r].start \in 1 .. ownerEpoch /\ rd[r].epoch \in rd[r].start .. ownerEpoch /\ Cursor(past[rd[r].epoch], rd[r])
  BY <1>0 DEF PageOK
<1>4. /\ Cursor(past[y.epoch], y)
      /\ \A ranks : PageFolders(ranks, y) = PageFolders(ranks, rd[r]) /\ PageFiles(ranks, y) = PageFiles(ranks, rd[r])
  BY <1>2, <1>3, SameCursor
<1>5. p \in {"fill", "publish", "recheck", "answer"} =>
        /\ rd[r].folders = PageFolders(past[rd[r].epoch], rd[r])
        /\ rd[r].files = PageFiles(past[rd[r].epoch], rd[r])
  <2>1. CASE rd[r].pc = "verify" /\ rd[r].epoch = ownerEpoch
    <3>1. PICK f \in rd[r].epoch .. ownerEpoch, g \in rd[r].epoch .. ownerEpoch :
            rd[r].folders = PageFolders(past[f], rd[r]) /\ rd[r].files = PageFiles(past[g], rd[r])
      BY <1>0, <2>1 DEF PageOK
    <3>2. f = rd[r].epoch /\ g = rd[r].epoch
      BY <1>0, <2>1
    <3> QED BY <3>1, <3>2
  <2>2. CASE rd[r].pc \in {"fill", "publish", "recheck"}
    BY <1>0, <2>2 DEF PageOK
  <2> QED BY <2>1, <2>2
<1>6. y.pc \in {"fill", "publish", "recheck", "answer"} =>
        y.folders = PageFolders(past[y.epoch], y) /\ y.files = PageFiles(past[y.epoch], y)
  BY <1>2, <1>4, <1>5
<1>7. y.pc \in {"fill", "publish", "recheck", "snapshot"} => y.after = Nothing
  <2>1. rd[r].pc \in {"fill", "publish"} => rd[r].after = Nothing
    BY <1>0 DEF PageOK
  <2> QED BY <1>2, <2>1
<1>8. PageOK(past, ownerEpoch, y)
  BY <1>0, <1>2, <1>3, <1>4, <1>6, <1>7 DEF PageOK
<1> QED BY <1>1, <1>2, <1>8, PageMove

LEMMA PageCachesKept ==
  ASSUME PagesInv, UNCHANGED <<local, shared>>
  PROVE  /\ PageCacheOK(past, ownerEpoch, shared') /\ DOMAIN local' = Processes
         /\ \A p \in Processes : PageCacheOK(past, ownerEpoch, local'[p])
BY DEF PagesInv

\* The epoch is compared with the one before the rows.
LEMMA CheckPage ==
  ASSUME PagesInv, NEW r \in Readers, Listing!Verify(r) \/ Listing!Recheck(r)
  PROVE  PagesInv'
<1>0. /\ rd[r].pc \in {"verify", "recheck"} /\ Listing!ReadOnly /\ UNCHANGED <<rank, ownerEpoch, past>>
      /\ UNCHANGED <<local, shared>> /\ rd[r].kind = "page"
  BY PageFacts DEF Listing!Verify, Listing!Recheck, Listing!ReadOnly
<1>1. CASE Listing!Overtaken(r) /\ rd[r].after = Nothing
  <2>1. Listing!Go(r, "snapshot")
    BY <1>1 DEF Listing!Overtaken, Listing!Go, PagesInv
  <2> QED BY <1>0, <1>1, <2>1, PageCachesKept, GonePage
<1>2. CASE Listing!Overtaken(r) /\ rd[r].after # Nothing
  <2>1. rd' = [rd EXCEPT ![r] = Listing!Idle("page")]
    BY <1>0, <1>2 DEF Listing!Overtaken, PagesInv
  <2> QED BY <1>0, <2>1, IdlePage, PageReads
<1>3. CASE Listing!Verify(r) /\ rd[r].epoch = ownerEpoch
  <2>1. \E p : Listing!Go(r, p) /\ (p = "answer" \/ (p = "fill" /\ rd[r].after = Nothing)) /\ rd[r].pc = "verify"
    BY <1>3 DEF Listing!Verify
  <2> QED BY <1>0, <1>3, <2>1, PageCachesKept, GonePage
<1>4. CASE Listing!Recheck(r) /\ rd[r].epoch = ownerEpoch
  <2>1. Listing!Go(r, "answer") /\ rd[r].pc = "recheck"
    BY <1>4 DEF Listing!Recheck
  <2> QED BY <1>0, <2>1, PageCachesKept, GonePage
<1>5. Listing!Overtaken(r) \/ rd[r].epoch = ownerEpoch
  BY DEF Listing!Verify, Listing!Recheck
<1> QED BY <1>1, <1>2, <1>3, <1>4, <1>5

LEMMA SnapshotPage ==
  ASSUME PagesInv, NEW r \in Readers, Listing!Snapshot(r)
  PROVE  PagesInv'
<1> PICK fo, fi : fo = PageFolders(rank, rd[r]) /\ fi = PageFiles(rank, rd[r])
  OBVIOUS
<1>y. PICK y : y = WithEpochFoldersFilesPc(rd[r], ownerEpoch, fo, fi, "answer")
  OBVIOUS
<1>0. Shape(rd[r]) /\ PageOK(past, ownerEpoch, rd[r]) /\ ownerEpoch \in Nat \ {0} /\ past[ownerEpoch] = rank
      /\ rd[r].pc = "snapshot" /\ Listing!ReadOnly /\ rd[r].kind = "page"
  BY PageFacts DEF Listing!Snapshot
<1>1. rd' = [rd EXCEPT ![r] = y]
  <2>1. Listing!FolderRows(r) = fo /\ Listing!FileRows(r) = fi
    BY <1>0, PageQueries
  <2> QED BY <1>y, <2>1 DEF Listing!Snapshot, PagesInv, WithEpochFoldersFilesPc
<1>2. /\ Shape(y) /\ y.pc = "answer" /\ y.kind = rd[r].kind /\ y.start = rd[r].start /\ y.after = rd[r].after
      /\ y.at = rd[r].at /\ y.got = rd[r].got /\ y.epoch = ownerEpoch /\ y.folders = fo /\ y.files = fi
  <2>1. Shape(rd[r])
    BY <1>0
  <2> QED BY ONLY <2>1, <1>y, SetEpochFoldersFilesPc
<1>3. rd[r].start \in 1 .. ownerEpoch /\ rd[r].after = Nothing /\ Cursor(past[rd[r].epoch], rd[r])
  BY <1>0 DEF PageOK
<1>4. Cursor(past[y.epoch], y)
  BY <1>2, <1>3 DEF Cursor
<1>5. y.folders = PageFolders(past[y.epoch], y) /\ y.files = PageFiles(past[y.epoch], y)
  BY <1>0, <1>2, SameCursor
<1>6. ownerEpoch \in y.start .. ownerEpoch /\ y.start \in 1 .. ownerEpoch
  BY <1>0, <1>2, <1>3
<1>7. PageOK(past, ownerEpoch, y)
  BY <1>0, <1>2, <1>3, <1>4, <1>5, <1>6 DEF PageOK
<1> QED BY <1>0, <1>1, <1>2, <1>7, PageReads

\* The answer that holds the page, and a cursor at its last row if there is more.
LEMMA AnswerPageStep ==
  ASSUME PagesInv, NEW r \in Readers, Listing!AnswerPage(r)
  PROVE  PagesInv'
<1> PICK both : both = rd[r].folders \o rd[r].files
  OBVIOUS
<1> PICK page : page = Listing!FirstOf(both, Limit)
  OBVIOUS
<1> PICK got : got = rd[r].got \o page
  OBVIOUS
<1> PICK nil, last, ranks : nil = <<>> /\ last = Listing!Last(page) /\ ranks = past[rd[r].epoch]
  OBVIOUS
<1>0. Shape(rd[r]) /\ PageOK(past, ownerEpoch, rd[r]) /\ ownerEpoch \in Nat \ {0}
      /\ rd[r].pc = "answer" /\ Listing!ReadOnly /\ rd[r].kind = "page"
  BY PageFacts DEF Listing!AnswerPage
<1>1. rd[r].start \in 1 .. ownerEpoch /\ rd[r].epoch \in rd[r].start .. ownerEpoch /\ Cursor(ranks, rd[r])
      /\ rd[r].folders = PageFolders(ranks, rd[r]) /\ rd[r].files = PageFiles(ranks, rd[r])
  BY <1>0 DEF PageOK
<1>2. ranks \in Ranks
  <2>1. rd[r].epoch \in 1 .. ownerEpoch
    BY <1>0, <1>1
  <2> QED BY <2>1, PageFacts
<1>3. both = PageFolders(ranks, rd[r]) \o PageFiles(ranks, rd[r])
  BY <1>1
<1>4. /\ ~(Len(both) > Len(page)) => got = Whole(ranks)
      /\ Len(both) > Len(page) => \E k \in 1 .. Len(Whole(ranks)) :
           got = SubSeq(Whole(ranks), 1, k) /\ last = Whole(ranks)[k] /\ last \in Children
  <2>1. PageAt(ranks, rd[r], both, page, got)
    BY <1>3 DEF PageAt
  <2>2. TakesOn(ranks, both, page, got)
    BY <1>1, <1>2, <2>1, PageCut
  <2> QED BY <2>2 DEF TakesOn
<1>5. CASE Len(both) > Len(page)
  <2>y. PICK y : y = WithGotFoldersFilesPcAfterAt(rd[r], got, nil, nil, "epoch", last, ranks[last])
    OBVIOUS
  <2>1. rd' = [rd EXCEPT ![r] = y]
    BY <1>5, <2>y DEF Listing!AnswerPage, PagesInv, WithGotFoldersFilesPcAfterAt
  <2>2. /\ Shape(y) /\ y.pc = "epoch" /\ y.kind = rd[r].kind /\ y.start = rd[r].start /\ y.after = last
        /\ y.at = ranks[last] /\ y.got = got /\ y.epoch = rd[r].epoch
    <3>1. Shape(rd[r])
      BY <1>0
    <3> QED BY ONLY <3>1, <2>y, SetGotFoldersFilesPcAfterAt
  <2>3. last # Nothing
    BY <1>4, <1>5, ListingAssumption DEF Children
  <2>4. Cursor(past[y.epoch], y)
    BY <1>4, <1>5, <2>2, <2>3 DEF Cursor
  <2>5. PageOK(past, ownerEpoch, y)
    BY <1>0, <1>1, <2>2, <2>4 DEF PageOK
  <2> QED BY <1>0, <2>1, <2>2, <2>5, PageReads
<1>6. CASE ~(Len(both) > Len(page))
  <2>y. PICK y : y = WithGotFoldersFilesPcAfterAt(rd[r], got, nil, nil, "done", Nothing, 0)
    OBVIOUS
  <2>1. rd' = [rd EXCEPT ![r] = y]
    BY <1>6, <2>y DEF Listing!AnswerPage, PagesInv, WithGotFoldersFilesPcAfterAt
  <2>2. /\ Shape(y) /\ y.pc = "done" /\ y.kind = rd[r].kind /\ y.start = rd[r].start /\ y.after = Nothing
        /\ y.got = got /\ y.epoch = rd[r].epoch
    <3>1. Shape(rd[r])
      BY <1>0
    <3> QED BY ONLY <3>1, <2>y, SetGotFoldersFilesPcAfterAt
  <2>3. y.got = Whole(past[y.epoch])
    BY <1>4, <1>6, <2>2
  <2>4. PageOK(past, ownerEpoch, y)
    BY <1>0, <1>1, <2>2, <2>3 DEF PageOK
  <2> QED BY <1>0, <2>1, <2>2, <2>4, PageReads
<1> QED BY <1>5, <1>6

-----------------------------------------------------------------------------
(* The caches of first pages *)

LEMMA PageKey ==
  ASSUME PagesInv, NEW r \in Readers, rd[r].pc \in {"lookup", "fill", "publish"}
  PROVE  /\ Listing!Key(r) = <<"page", rd[r].epoch>> /\ rd[r].epoch \in 1 .. MaxWrites /\ rd[r].epoch <= ownerEpoch
         /\ rd[r].after = Nothing /\ past[rd[r].epoch] \in Ranks
<1>1. /\ rd[r].start \in 1 .. ownerEpoch /\ rd[r].epoch \in rd[r].start .. ownerEpoch /\ rd[r].kind = "page"
      /\ ownerEpoch \in 1 .. MaxWrites /\ rd[r].after = Nothing /\ MaxWrites \in Nat
  BY PageFacts, ListingAssumption DEF PageOK
<1>2. rd[r].epoch \in 1 .. MaxWrites /\ rd[r].epoch <= ownerEpoch /\ rd[r].epoch \in 1 .. ownerEpoch
  BY <1>1
<1>3. Listing!Key(r) = <<"page", rd[r].epoch>>
  BY <1>1 DEF Listing!Key
<1> QED BY <1>1, <1>2, <1>3, PageFacts

LEMMA PageCachePut ==
  ASSUME NEW n, NEW log, NEW cache, PageCacheOK(log, n, cache), NEW e, NEW v,
         v # Nothing => e <= n /\ FirstPage(log[e], v)
  PROVE  PageCacheOK(log, n, [cache EXCEPT ![<<"page", e>>] = v])
<1> DEFINE new == [cache EXCEPT ![<<"page", e>>] = v]
<1>1. DOMAIN new = Listing!Keys
  BY DEF PageCacheOK
<1>2. ASSUME NEW d \in 1 .. MaxWrites, new[<<"page", d>>] # Nothing
      PROVE  d <= n /\ FirstPage(log[d], new[<<"page", d>>])
  <2>0. <<"page", d>> \in DOMAIN cache
    <3>1. d \in 0 .. MaxWrites
      OBVIOUS
    <3> QED BY <3>1 DEF PageCacheOK, Listing!Keys, Listing!Kinds
  <2>1. CASE d = e
    BY <1>2, <2>0, <2>1
  <2>2. CASE d # e
    <3>1. <<"page", d>> # <<"page", e>>
      BY <2>2
    <3>2. new[<<"page", d>>] = cache[<<"page", d>>]
      BY <2>0, <3>1
    <3> QED BY <1>2, <3>2 DEF PageCacheOK
  <2> QED BY <2>1, <2>2
<1> HIDE DEF new
<1>3. PageCacheOK(log, n, new)
  BY <1>1, <1>2 DEF PageCacheOK
<1> QED BY <1>3 DEF new

\* An update of one entry of one process's cache.
LEMMA PageLocalPut ==
  ASSUME PagesInv, NEW r \in Readers, rd[r].pc \in {"lookup", "fill", "publish"}, NEW v,
         v # Nothing => FirstPage(past[rd[r].epoch], v),
         local' = [local EXCEPT ![Home[r]][Listing!Key(r)] = v]
  PROVE  DOMAIN local' = Processes /\ \A p \in Processes : PageCacheOK(past, ownerEpoch, local'[p])
<1> DEFINE h == Home[r]
<1> DEFINE c == [local[h] EXCEPT ![<<"page", rd[r].epoch>>] = v]
<1>1. h \in Processes /\ Listing!Key(r) = <<"page", rd[r].epoch>> /\ rd[r].epoch <= ownerEpoch
  BY PageKey, ListingAssumption
<1>2. PageCacheOK(past, ownerEpoch, c)
  BY <1>1, PageCachePut DEF PagesInv
<1>3. local' = [local EXCEPT ![h] = c]
  BY <1>1 DEF PagesInv
<1> HIDE DEF c, h
<1>4. DOMAIN local' = Processes /\ local'[h] = c /\ \A p \in Processes : p # h => local'[p] = local[p]
  BY <1>1, <1>3 DEF PagesInv
<1> QED BY <1>2, <1>4 DEF PagesInv

\* A first page that is taken from a cache.
LEMMA TakenPage ==
  ASSUME PagesInv, NEW r \in Readers, rd[r].pc = "lookup", NEW v, Listing!Taken(r, v),
         FirstPage(past[rd[r].epoch], v), UNCHANGED <<rank, ownerEpoch, past>>,
         PageCacheOK(past, ownerEpoch, shared'),
         DOMAIN local' = Processes, \A p \in Processes : PageCacheOK(past, ownerEpoch, local'[p])
  PROVE  PagesInv'
<1> PICK fo, fi : fo = v.folders /\ fi = v.files
  OBVIOUS
<1>y. PICK y : y = WithFoldersFilesPc(rd[r], fo, fi, "recheck")
  OBVIOUS
<1>0. Shape(rd[r]) /\ PageOK(past, ownerEpoch, rd[r]) /\ rd[r].kind = "page"
  BY PageFacts
<1>1. rd' = [rd EXCEPT ![r] = y]
  BY <1>0, <1>y DEF Listing!Taken, PagesInv, WithFoldersFilesPc
<1>2. /\ Shape(y) /\ y.pc = "recheck" /\ y.kind = rd[r].kind /\ y.start = rd[r].start /\ y.after = rd[r].after
      /\ y.at = rd[r].at /\ y.got = rd[r].got /\ y.epoch = rd[r].epoch /\ y.folders = fo /\ y.files = fi
  <2>1. Shape(rd[r])
    BY <1>0
  <2> QED BY ONLY <2>1, <1>y, SetFoldersFilesPc
<1>3. rd[r].start \in 1 .. ownerEpoch /\ rd[r].epoch \in rd[r].start .. ownerEpoch /\ rd[r].after = Nothing
      /\ Cursor(past[rd[r].epoch], rd[r])
  BY <1>0 DEF PageOK
<1>4. Cursor(past[y.epoch], y)
  BY <1>2, <1>3, SameCursor
<1>5. y.folders = PageFolders(past[y.epoch], y) /\ y.files = PageFiles(past[y.epoch], y)
  <2>1. Nothing \notin FileIds
    BY ListingAssumption
  <2> QED BY <1>2, <1>3, <2>1 DEF FirstPage, FirstFolders, FirstFiles, PageFolders, PageFiles
<1>6. PageOK(past, ownerEpoch, y)
  BY <1>0, <1>2, <1>3, <1>4, <1>5 DEF PageOK
<1> QED BY <1>1, <1>2, <1>6, PageMove

LEMMA LookupPage ==
  ASSUME PagesInv, NEW r \in Readers, Listing!Lookup(r)
  PROVE  PagesInv'
<1> DEFINE k == Listing!Key(r)
<1> DEFINE h == Home[r]
<1>0. rd[r].pc = "lookup" /\ UNCHANGED <<rank, ownerEpoch, past>> /\ h \in Processes
  BY ListingAssumption DEF Listing!Lookup
<1>1. k = <<"page", rd[r].epoch>> /\ rd[r].epoch \in 1 .. MaxWrites
  BY <1>0, PageKey
<1>2. CASE local[h][k] # Nothing /\ Listing!Taken(r, local[h][k]) /\ UNCHANGED <<local, shared>>
  <2>1. FirstPage(past[rd[r].epoch], local[h][k])
    BY <1>0, <1>1, <1>2 DEF PagesInv, PageCacheOK
  <2> HIDE DEF h, k
  <2> QED BY <1>0, <1>2, <2>1, PageCachesKept, TakenPage
<1>3. CASE shared[k] # Nothing /\ local' = [local EXCEPT ![h][k] = shared[k]] /\ Listing!Taken(r, shared[k]) /\ UNCHANGED shared
  <2>1. FirstPage(past[rd[r].epoch], shared[k])
    BY <1>0, <1>1, <1>3 DEF PagesInv, PageCacheOK
  <2>2. PICK v : v = shared[k]
    OBVIOUS
  <2>3. local' = [local EXCEPT ![Home[r]][Listing!Key(r)] = v]
    BY <1>3, <2>2
  <2>4. DOMAIN local' = Processes /\ \A p \in Processes : PageCacheOK(past, ownerEpoch, local'[p])
    BY <1>0, <2>1, <2>2, <2>3, PageLocalPut
  <2>5. PageCacheOK(past, ownerEpoch, shared')
    BY <1>3 DEF PagesInv
  <2> HIDE DEF h, k
  <2> QED BY <1>0, <1>3, <2>1, <2>4, <2>5, TakenPage
<1>4. CASE local' = [local EXCEPT ![h][k] = Nothing] /\ shared' \in {shared, [shared EXCEPT ![k] = Nothing]} /\ Listing!Go(r, "folders")
  <2>1. DOMAIN local' = Processes /\ \A p \in Processes : PageCacheOK(past, ownerEpoch, local'[p])
    <3>1. PICK v : v = Nothing
      OBVIOUS
    <3>2. local' = [local EXCEPT ![Home[r]][Listing!Key(r)] = v]
      BY <1>4, <3>1
    <3> QED BY <1>0, <3>1, <3>2, PageLocalPut
  <2>2. PageCacheOK(past, ownerEpoch, [shared EXCEPT ![<<"page", rd[r].epoch>>] = Nothing])
    BY PageCachePut DEF PagesInv
  <2>3. PageCacheOK(past, ownerEpoch, shared')
    <3>1. shared' = shared \/ shared' = [shared EXCEPT ![<<"page", rd[r].epoch>>] = Nothing]
      BY <1>1, <1>4
    <3>2. PageCacheOK(past, ownerEpoch, shared)
      BY DEF PagesInv
    <3> QED BY <2>2, <3>1, <3>2
  <2> QED BY <1>0, <1>4, <2>1, <2>3, GonePage
<1> QED BY <1>2, <1>3, <1>4 DEF Listing!Lookup

LEMMA FillPage ==
  ASSUME PagesInv, NEW r \in Readers, Listing!Fill(r) \/ Listing!Publish(r)
  PROVE  PagesInv'
<1>0. UNCHANGED <<rank, ownerEpoch, past>> /\ rd[r].pc \in {"fill", "publish"} /\ rd[r].kind = "page"
  BY PageFacts DEF Listing!Fill, Listing!Publish
<1>1. PICK v : v = Listing!Value(r)
  OBVIOUS
<1>2. v.folders = rd[r].folders /\ v.files = rd[r].files
  BY <1>1 DEF Listing!Value
<1>3. FirstPage(past[rd[r].epoch], v) /\ rd[r].epoch <= ownerEpoch
  <2>1. PageOK(past, ownerEpoch, rd[r]) /\ rd[r].after = Nothing /\ rd[r].epoch <= ownerEpoch
    BY <1>0, PageFacts, PageKey
  <2>2. rd[r].folders = PageFolders(past[rd[r].epoch], rd[r]) /\ rd[r].files = PageFiles(past[rd[r].epoch], rd[r])
    BY <1>0, <2>1 DEF PageOK
  <2>3. Nothing \notin FileIds
    BY ListingAssumption
  <2> QED BY <1>2, <2>1, <2>2, <2>3 DEF FirstPage, FirstFolders, FirstFiles, PageFolders, PageFiles
<1>4. CASE Listing!Fill(r)
  <2>1. PICK p \in {"publish", "recheck"} : Listing!Go(r, p)
    BY <1>0, <1>4 DEF Listing!Fill
  <2>2. local' = [local EXCEPT ![Home[r]][Listing!Key(r)] = v]
    BY <1>1, <1>4 DEF Listing!Fill
  <2>3. DOMAIN local' = Processes /\ \A q \in Processes : PageCacheOK(past, ownerEpoch, local'[q])
    BY <1>0, <1>3, <2>2, PageLocalPut
  <2>4. PageCacheOK(past, ownerEpoch, shared')
    BY <1>4 DEF Listing!Fill, PagesInv
  <2> QED BY <1>0, <2>1, <2>3, <2>4, GonePage
<1>5. CASE Listing!Publish(r)
  <2>1. Listing!Go(r, "recheck") /\ UNCHANGED local
    BY <1>0, <1>5 DEF Listing!Publish
  <2>2. Listing!Key(r) = <<"page", rd[r].epoch>>
    BY <1>0, PageKey
  <2>3. PageCacheOK(past, ownerEpoch, [shared EXCEPT ![<<"page", rd[r].epoch>>] = v])
    BY <1>3, PageCachePut DEF PagesInv
  <2>4. PageCacheOK(past, ownerEpoch, shared')
    BY <1>1, <1>5, <2>2, <2>3 DEF Listing!Publish
  <2>5. DOMAIN local' = Processes /\ \A q \in Processes : PageCacheOK(past, ownerEpoch, local'[q])
    BY <2>1 DEF PagesInv
  <2> QED BY <1>0, <2>1, <2>4, <2>5, GonePage
<1> QED BY <1>4, <1>5

LEMMA PagesStep ==
  ASSUME PagesInv, Listing!Next
  PROVE  PagesInv'
<1>0. MaxWrites \in Nat
  BY ListingAssumption
<1>1. ASSUME NEW i \in FolderIds \cup FileIds, NEW to \in 0 .. MaxRank, Listing!Write(i, to) PROVE PagesInv'
  BY <1>0, <1>1, WritePages
<1>2. ASSUME NEW r \in Readers, Listing!Ask(r) \/ Listing!Step(r) PROVE PagesInv'
  <2>1. rd[r].kind = "page"
    BY PageFacts
  <2>2. ~Listing!AnswerAll(r)
    BY <2>1 DEF Listing!AnswerAll
  <2> QED BY <1>2, <2>2, AskPage, EpochPage, FoldersPage, FilesPage, AnswerPageStep, LookupPage, FillPage, CheckPage,
             SnapshotPage DEF Listing!Step
<1>3. \/ \E i \in FolderIds \cup FileIds, to \in 0 .. MaxRank : Listing!Write(i, to)
      \/ \E r \in Readers : Listing!Ask(r) \/ Listing!Step(r)
  BY DEF Listing!Next, Listing!Ids
<1> QED BY <1>1, <1>2, <1>3

-----------------------------------------------------------------------------
(* The theorems about listings *)

\* A behaviour has one kind of requests.
ListingInv == PagesInv \/ AllInv

LEMMA ListingInit == Listing!Init => ListingInv
<1> SUFFICES ASSUME Listing!Init PROVE ListingInv
  OBVIOUS
<1>1. PICK kind \in {"all", "page"} : rd = [r \in Readers |-> Listing!Idle(kind)]
  BY DEF Listing!Init, Listing!Kinds
<1>2. DOMAIN rd = Readers /\ \A r \in Readers : rd[r] = Listing!Idle(kind) /\ Shape(rd[r])
  BY <1>1, IdleRow
<1>3. LogOK
  <2>1. ownerEpoch = 1 /\ past = <<rank>> /\ rank = [i \in FolderIds \cup FileIds |-> i]
    BY DEF Listing!Init, Listing!Ids
  <2>2. rank \in Ranks
    BY <2>1, ListingAssumption DEF Ranks
  <2>3. ownerEpoch \in 1 .. MaxWrites
    BY <2>1, ListingAssumption
  <2> HIDE DEF Ranks
  <2> QED BY <2>1, <2>2, <2>3 DEF LogOK
<1>4. \A e \in 1 .. MaxWrites : <<"all", e>> \in Listing!Keys /\ <<"page", e>> \in Listing!Keys
  BY DEF Listing!Keys, Listing!Kinds
<1>5. CacheOK(past, ownerEpoch, shared) /\ PageCacheOK(past, ownerEpoch, shared)
  <2>1. shared = [k \in Listing!Keys |-> Nothing]
    BY DEF Listing!Init
  <2> QED BY <1>4, <2>1 DEF CacheOK, PageCacheOK
<1>6. /\ DOMAIN local = Processes
      /\ \A p \in Processes : CacheOK(past, ownerEpoch, local[p]) /\ PageCacheOK(past, ownerEpoch, local[p])
  <2>1. local = [p \in Processes |-> [k \in Listing!Keys |-> Nothing]]
    BY DEF Listing!Init
  <2> QED BY <1>4, <2>1 DEF CacheOK, PageCacheOK
<1>7. CASE kind = "page"
  <2>1. \A r \in Readers : PageOK(past, ownerEpoch, rd[r])
    BY <1>2, <1>7, IdlePage
  <2> QED BY <1>2, <1>3, <1>5, <1>6, <2>1 DEF PagesInv, ListingInv
<1>8. CASE kind = "all"
  <2>1. ASSUME NEW r \in Readers PROVE RequestOK(past, ownerEpoch, rd[r])
    <3>1. rd[r].pc = "idle" /\ rd[r].kind = "all" /\ rd[r].after = Nothing
      BY <1>2, <1>8 DEF Listing!Idle
    <3> QED BY <3>1 DEF RequestOK
  <2> QED BY <1>2, <1>3, <1>5, <1>6, <2>1 DEF AllInv, ListingInv
<1> QED BY <1>1, <1>7, <1>8

LEMMA ListingStep == ListingInv /\ [Listing!Next]_(Listing!vars) => ListingInv'
<1> SUFFICES ASSUME ListingInv, [Listing!Next]_(Listing!vars) PROVE ListingInv'
  OBVIOUS
<1>1. CASE Listing!Next
  BY <1>1, PagesStep, AllStep, ListingAssumption DEF ListingInv
<1>2. CASE UNCHANGED Listing!vars
  BY <1>2 DEF Listing!vars, ListingInv, PagesInv, AllInv, LogOK
<1> QED BY <1>1, <1>2

\* For any children, clients, API processes and writes: a listing from a cache shows
\* the folders and the files as they were since its request came in.
THEOREM FreshTheorem == ListingSpec => []ListingIsFresh
<1>1. ListingInv => Listing!ListingIsFresh
  <2> SUFFICES ASSUME ListingInv, NEW r \in Readers, rd[r].pc = "done", rd[r].kind = "all"
               PROVE  \E e, f \in rd[r].start .. ownerEpoch :
                        e <= f /\ rd[r].got = FoldersAt(past, e) \o FilesAt(past, f)
    BY DEF Listing!ListingIsFresh, FoldersAt, FilesAt
  <2>1. AllInv
    BY DEF ListingInv, PagesInv, PageOK
  <2> QED BY <2>1 DEF AllInv, RequestOK
<1> QED BY <1>1, ListingInit, ListingStep, PTL DEF ListingSpec, ListingIsFresh, Listing!Spec

\* For any children, clients, page size and writes: the pages that a client was
\* answered to the end are the folder at one epoch, without a row lost or repeated.
THEOREM PagesTheorem == ListingSpec => []PagesAreOneListing
<1>1. ListingInv => Listing!PagesAreOneListing
  <2> SUFFICES ASSUME ListingInv, NEW r \in Readers, rd[r].pc = "done", rd[r].kind = "page"
               PROVE  rd[r].epoch >= rd[r].start /\ rd[r].got = Whole(past[rd[r].epoch])
    BY DEF Listing!PagesAreOneListing, Whole
  <2>1. PagesInv
    BY DEF ListingInv, AllInv, RequestOK
  <2>2. rd[r].start \in 1 .. ownerEpoch /\ rd[r].epoch \in rd[r].start .. ownerEpoch
        /\ rd[r].got = Whole(past[rd[r].epoch])
    BY <2>1, PageFacts DEF PageOK
  <2> QED BY <2>2
<1> QED BY <1>1, ListingInit, ListingStep, PTL DEF ListingSpec, PagesAreOneListing, Listing!Spec

=============================================================================
