------------------------------ MODULE Registry ------------------------------
(***************************************************************************)
(* Service discovery through etcd: instances that register under a lease   *)
(* and register again when it is lost (platform/registry/registrar.go),    *)
(* and the resolver of a gRPC client, which lists the addresses and then   *)
(* watches from the listing's revision (platform/registry/resolver.go).    *)
(*                                                                         *)
(* An instance's key and address are its own, so an address is written as  *)
(* its instance.  A lease is kept by its instance or runs out.             *)
(***************************************************************************)
EXTENDS Naturals, Sequences, FiniteSets

CONSTANTS Instances,
          MaxBreaks   \* bound: how many faults happen

VARIABLES instance,   \* the registrars
          lease,      \* of every instance's key: none, kept, or running out
          log,        \* etcd's changes of the keys, in the order of their revisions
          client,     \* the resolver
          breaks

vars == <<instance, lease, log, client, breaks>>

Init ==
  /\ instance = [i \in Instances |-> "new"] /\ lease = [i \in Instances |-> "none"]
  /\ log = << >> /\ breaks = 0
  /\ client = [at |-> "list", next |-> 1, addresses |-> {}]

Break == breaks < MaxBreaks /\ breaks' = breaks + 1

Change(i, deleted) == log' = Append(log, [instance |-> i, deleted |-> deleted])

-----------------------------------------------------------------------------
(* The instances. *)

Put(i) == lease' = [lease EXCEPT ![i] = "kept"] /\ Change(i, FALSE)

\* Register: grant, put and keep alive.  Before the put it fails without a trace, after
\* it the key stays until the lease that nobody keeps runs out.
Register(i, failed) ==
  \/ Put(i) /\ instance' = [instance EXCEPT ![i] = "registered"] /\ UNCHANGED breaks
  \/ /\ Break /\ instance' = [instance EXCEPT ![i] = failed]
     /\ \/ UNCHANGED <<lease, log>>
        \/ lease' = [lease EXCEPT ![i] = "ending"] /\ Change(i, FALSE)

\* At the start, where a failure ends the process.
Start(i) == instance[i] = "new" /\ Register(i, "stopped") /\ UNCHANGED client

\* keepAlive: its channel closes, and the instance registers again until it succeeds.
LeaseLost(i) ==
  /\ instance[i] = "registered" /\ Break
  /\ instance' = [instance EXCEPT ![i] = "lost"]
  /\ lease' = [lease EXCEPT ![i] = IF @ = "kept" THEN "ending" ELSE @]
  /\ UNCHANGED <<log, client>>

Reregister(i) == instance[i] = "lost" /\ Register(i, "lost") /\ UNCHANGED client

Expire(i) ==
  /\ lease[i] = "ending" /\ lease' = [lease EXCEPT ![i] = "none"]
  /\ Change(i, TRUE) /\ UNCHANGED <<instance, client, breaks>>

\* Deregister at a shutdown: the lease is revoked; if that fails, or a put was still
\* on its way, it runs out.
Deregister(i) ==
  /\ instance[i] \in {"registered", "lost"} /\ Break
  /\ instance' = [instance EXCEPT ![i] = "stopped"]
  /\ \/ lease[i] # "none" /\ lease' = [lease EXCEPT ![i] = "none"] /\ Change(i, TRUE)
     \/ lease' = [lease EXCEPT ![i] = IF @ = "none" THEN @ ELSE "ending"] /\ UNCHANGED log
     \/ instance[i] = "lost" /\ lease' = [lease EXCEPT ![i] = "ending"] /\ Change(i, FALSE)
  /\ UNCHANGED client

Crash(i) ==
  /\ instance[i] \in {"registered", "lost"} /\ Break
  /\ instance' = [instance EXCEPT ![i] = "stopped"]
  /\ lease' = [lease EXCEPT ![i] = IF @ = "none" THEN @ ELSE "ending"]
  /\ UNCHANGED <<log, client>>

-----------------------------------------------------------------------------
(* The resolver. *)

\* list, then watch from the revision after it; a failed list leaves the addresses.
LoadAll ==
  /\ client.at = "list"
  /\ client' = [at |-> "watch", next |-> Len(log) + 1,
                addresses |-> {i \in Instances : lease[i] # "none"}]
  /\ UNCHANGED <<instance, lease, log, breaks>>

\* The addresses after changes a to b of the log, in that order.
Applied(known, a, b) ==
  LET LastOf(i) == CHOOSE n \in a .. b : log[n].instance = i /\ \A k \in n + 1 .. b : log[k].instance # i
      touched == {i \in Instances : \E n \in a .. b : log[n].instance = i}
  IN  (known \ touched) \cup {i \in touched : ~log[LastOf(i)].deleted}

\* applyEvents: a response with one or more changes.
ApplyEvents ==
  /\ client.at = "watch"
  /\ \E last \in client.next .. Len(log) :
       client' = [client EXCEPT !.next = last + 1, !.addresses = Applied(@, client.next, last)]
  /\ UNCHANGED <<instance, lease, log, breaks>>

\* consume: the channel closes or brings an error; the known addresses stay.
WatchBreaks ==
  /\ client.at = "watch" /\ Break /\ client' = [client EXCEPT !.at = "list"]
  /\ UNCHANGED <<instance, lease, log>>

Next ==
  \/ \E i \in Instances : Start(i) \/ LeaseLost(i) \/ Reregister(i) \/ Expire(i) \/ Deregister(i) \/ Crash(i)
  \/ LoadAll \/ ApplyEvents \/ WatchBreaks

-----------------------------------------------------------------------------

\* The client calls the instances that serve, and no other: lost leases, broken
\* watches and failed shutdowns are made good for.  This is a state that lasts.
Discovered == client.addresses = {i \in Instances : instance[i] \in {"registered", "lost"}}
=============================================================================
