---------------------------- MODULE DurableWork ----------------------------
(***************************************************************************)
(* What the storage-operation ledger promises the services that enqueue    *)
(* into it: accepted work stays open until it is recorded as succeeded,    *)
(* which needs the external effect to have happened, or is given up; an    *)
(* outcome is recorded once.                                               *)
(***************************************************************************)
CONSTANT Items
VARIABLES status, done

vars == <<status, done>>

Init ==
  /\ status = [i \in Items |-> "none"]
  /\ done = [i \in Items |-> FALSE]

Accept(i) ==
  /\ status[i] = "none"
  /\ status' = [status EXCEPT ![i] = "open"]
  /\ UNCHANGED done

\* An external request may still land after the outcome was recorded.
Perform(i) ==
  /\ status[i] # "none"
  /\ done' = [done EXCEPT ![i] = TRUE]
  /\ UNCHANGED status

Succeed(i) ==
  /\ status[i] = "open"
  /\ done[i]
  /\ status' = [status EXCEPT ![i] = "succeeded"]
  /\ UNCHANGED done

GiveUp(i) ==
  /\ status[i] = "open"
  /\ status' = [status EXCEPT ![i] = "dead"]
  /\ UNCHANGED done

Next == \E i \in Items : Accept(i) \/ Perform(i) \/ Succeed(i) \/ GiveUp(i)

Spec == Init /\ [][Next]_vars
=============================================================================
