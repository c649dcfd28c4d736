---------------------------- MODULE MCStorageOps ----------------------------
(* Instances of StorageOps for TLC. *)
EXTENDS StorageOps
=============================================================================
