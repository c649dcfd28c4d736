----------------------------- MODULE MCPlatform -----------------------------
(***************************************************************************)
(* The instances of the platform's coordination components, each as a part *)
(* of its own: the circuit breaker, the outbox dispatcher's replicas, the  *)
(* service registry, the worker pool's scheduler and the recovery          *)
(* reconciler.  A behaviour is one of a part, the others rest.             *)
(***************************************************************************)
EXTENDS Integers, FiniteSets

CONSTANTS Callers, Window, Buckets, MinRequests, RateNum, RateDen, OpenTimeout,
          HalfOpenProbes, MaxAttempts, MaxLog,
          Replicas, Destinations, BatchSize, MaxOutages, Free, Unknown,
          Instances, MaxBreaks,
          Takers, Prefetch,
          Classes, Retryable, Limit, MaxRecoveryEvents, Reconcilers

VARIABLES part,
          b, call, up,
          key, replica, event, row, outages,
          instance, lease, log, client, breaks,
          pending, current, asleep, waited,
          work, command, recent, stopped, scan, nextScan, cursor

\* Three queues with different weights; two resources of one class, one of another.
Weights == <<3, 1, 2>>
Resources == 1 .. 3
ClassOf == <<0, 0, 1>>

Brk == INSTANCE Breaker
Dispatch == INSTANCE Dispatching
Reg == INSTANCE Registry
Sched == INSTANCE Scheduler
Rec == INSTANCE Recovery

\* The breaker's configuration has its defaults and a window of at least a tick per
\* bucket, and finitely many calls use it; no replica is called as a key that is free
\* or unknown; recovery scans some classes and has a budget.
ASSUME PlatformAssumption ==
  /\ IsFiniteSet(Callers)
  /\ Buckets \in Nat \ {0} /\ Window \in Nat /\ Window \div Buckets > 0
  /\ MinRequests \in Nat \ {0} /\ RateNum \in 1 .. RateDen
  /\ OpenTimeout \in Nat \ {0} /\ HalfOpenProbes \in Nat \ {0}
  /\ MaxAttempts \in Nat \ {0} /\ MaxLog \in Nat
  /\ Free \notin Replicas /\ Unknown \notin Replicas
  /\ Classes \in Nat \ {0} /\ MaxRecoveryEvents \in Nat

breakerVars == <<b, call, up>>
dispatchVars == <<key, replica, event, row, outages>>
registryVars == <<instance, lease, log, client, breaks>>
schedulerVars == <<pending, current, asleep, waited>>
recoveryVars == <<work, command, recent, stopped, scan, nextScan, cursor>>
suiteVars == <<part, b, call, up, key, replica, event, row, outages, instance, lease, log, client, breaks,
         pending, current, asleep, waited, work, command, recent, stopped, scan, nextScan, cursor>>

MCInit ==
  /\ part \in {"breaker", "dispatch", "registry", "scheduler", "recovery"}
  /\ Brk!Init /\ (part # "breaker" => up)
  /\ Dispatch!Init /\ Reg!Init /\ Sched!Init /\ Rec!Init

BreakerPart == part = "breaker" /\ Brk!Next /\ UNCHANGED <<part, dispatchVars, registryVars, schedulerVars, recoveryVars>>
DispatchPart == part = "dispatch" /\ Dispatch!Next /\ UNCHANGED <<part, breakerVars, registryVars, schedulerVars, recoveryVars>>
RegistryPart == part = "registry" /\ Reg!Next /\ UNCHANGED <<part, breakerVars, dispatchVars, schedulerVars, recoveryVars>>
SchedulerPart == part = "scheduler" /\ Sched!Next /\ UNCHANGED <<part, breakerVars, dispatchVars, registryVars, recoveryVars>>
RecoveryPart == part = "recovery" /\ Rec!Next /\ UNCHANGED <<part, breakerVars, dispatchVars, registryVars, schedulerVars>>

MCNext == BreakerPart \/ DispatchPart \/ RegistryPart \/ SchedulerPart \/ RecoveryPart

\* The clock runs, calls are answered, and clients keep calling.
BreakerFairness ==
  /\ WF_breakerVars(part = "breaker" /\ Brk!Tick)
  /\ \A c \in Callers : /\ WF_breakerVars(part = "breaker" /\ Brk!Attempt(c))
                        /\ WF_breakerVars(part = "breaker" /\ \E ok \in BOOLEAN : Brk!Answer(c, ok))

\* Replicas run and are restarted, watchdogs renew, and times to live and leases end.
DispatchFairness ==
  /\ WF_dispatchVars(part = "dispatch" /\ Dispatch!Expire)
  /\ \A d \in Destinations : WF_dispatchVars(part = "dispatch" /\ Dispatch!ClaimExpires(d))
  /\ \A r \in Replicas : /\ WF_dispatchVars(part = "dispatch" /\ Dispatch!Work(r))
                         /\ WF_dispatchVars(part = "dispatch" /\ Dispatch!Renew(r))
                         /\ WF_dispatchVars(part = "dispatch" /\ Dispatch!PreparationAges(r))

\* The resolver runs, leases end, and an instance that lost its own tries again.
RegistryFairness ==
  /\ WF_registryVars(part = "registry" /\ Reg!LoadAll)
  /\ WF_registryVars(part = "registry" /\ Reg!ApplyEvents)
  /\ \A i \in Instances : /\ WF_registryVars(part = "registry" /\ Reg!Expire(i))
                          /\ WF_registryVars(part = "registry" /\ Reg!Reregister(i))

\* Deliveries get their receipts, leases and ages run out, and maintenance goes on.
RecoveryFairness ==
  /\ \A r \in Resources : /\ WF_recoveryVars(part = "recovery" /\ Rec!EndTask(r))
                          /\ WF_recoveryVars(part = "recovery" /\ (Rec!LeaseRunsOut(r) \/ Rec!StaleAfter(r)))
  /\ \A m \in Reconcilers :
       WF_recoveryVars(part = "recovery" /\ (Rec!BeginRound(m) \/ Rec!ScanPage(m) \/ Rec!Recover(m)))

MCSafety == MCInit /\ [][MCNext]_suiteVars

MCSpec ==
  /\ MCSafety
  /\ BreakerFairness /\ DispatchFairness /\ RegistryFairness /\ RecoveryFairness

-----------------------------------------------------------------------------

\* The breaker's window and probes are exact (Breaker).
BreakerSound == Brk!WindowCounts /\ Brk!NoPhantomProbe

\* The breaker closes again and stays closed (Breaker).
Recovers == Brk!Recovers

\* No late release or lost command takes a leadership away (Dispatching).
LeaderHoldsKey == Dispatch!LeaderHoldsKey

\* No goroutine sleeps beside work and no queue starves (Scheduler); recovery keeps
\* to its budget and never doubles a command (Recovery).
WorkBounded == Sched!SchedulerFair /\ Rec!RecoveryBounded

\* What each part promises for the end holds from some time on: no delivery row of an
\* event waits, the client knows the instances that serve, and no resource waits for
\* a command that nobody is going to send.
PlatformSettles ==
  <>[](/\ part = "dispatch" => Dispatch!Dispatched
       /\ part = "registry" => Reg!Discovered
       /\ part = "recovery" => Rec!Settled)
=============================================================================
