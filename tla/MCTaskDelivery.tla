--------------------------- MODULE MCTaskDelivery ---------------------------
(* Instances of TaskDelivery for TLC. *)
EXTENDS TaskDelivery
=============================================================================
