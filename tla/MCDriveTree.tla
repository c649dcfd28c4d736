---------------------------- MODULE MCDriveTree ----------------------------
(* Instances of DriveTree for TLC. *)
EXTENDS DriveTree, TLC

Symmetric ==
  Permutations(Folders \ {Root}) \cup Permutations(Files) \cup Permutations(Names) \cup Permutations(Requests)
=============================================================================
