--------------------------- MODULE MCDriveListing ---------------------------
(* DriveListing as an instance, for TLC and beside DriveTree in its proofs. *)
EXTENDS Naturals, TLC

CONSTANTS FolderIds, FileIds, MaxRank, Limit, Readers, Processes, Home, MaxWrites, Nothing,
          r1, r2, p1, p2

ASSUME ListingAssumption ==
  /\ FolderIds \cup FileIds \subseteq 1 .. MaxRank /\ FolderIds \cap FileIds = {}
  /\ MaxRank \in Nat /\ Limit \in Nat \ {0} /\ MaxWrites \in Nat \ {0}
  /\ Home \in [Readers -> Processes] /\ Nothing \notin FolderIds \cup FileIds

VARIABLES rank, ownerEpoch, past, local, shared, rd

Listing == INSTANCE DriveListing WITH MaxEpoch <- MaxWrites, None <- Nothing, epoch <- ownerEpoch

TwoHomes == r1 :> p1 @@ r2 :> p2

\* The clients are alike once their processes are exchanged with them.
Symmetric ==
  {f \in Permutations(Readers \cup Processes) : \A r \in Readers : f[r] \in Readers /\ Home[f[r]] = f[Home[r]]}

ListingSpec == Listing!Spec

\* The pages of a sequence that is answered to its end are the folder at one epoch.
PagesAreOneListing == Listing!PagesAreOneListing

\* A whole listing shows folders and files as they were since the request came in.
ListingIsFresh == Listing!ListingIsFresh
=============================================================================
