----------------------------- MODULE Scheduler ------------------------------
(***************************************************************************)
(* The delivery scheduler of a worker process (taskqueue/scheduler.go):    *)
(* smooth weighted round robin over the queues that have a delivery, for   *)
(* several goroutines that take from it and wait when there is nothing.    *)
(*                                                                         *)
(* Queues are numbered in the order of their names.  Both methods run      *)
(* under the mutex, and a goroutine that finds nothing picks the channel   *)
(* to wait on before it unlocks: it is asleep in the same step, until the  *)
(* next put closes that channel.                                           *)
(***************************************************************************)
EXTENDS Integers, Sequences, SequencesExt

CONSTANTS Weights,   \* configured weight of queues 1, 2, ...
          Takers,    \* goroutines of the worker pool
          Prefetch   \* bound: deliveries a queue holds

VARIABLES pending,   \* deliveries per queue
          current,   \* credit per queue
          asleep,    \* takers that wait on the present channel
          waited     \* history: takes from other queues while this one had a delivery

vars == <<pending, current, asleep, waited>>

Queues == DOMAIN Weights

\* newDeliveryScheduler: no weight is below one.
Weight(q) == IF Weights[q] <= 0 THEN 1 ELSE Weights[q]

Init ==
  /\ pending = [q \in Queues |-> 0] /\ current = [q \in Queues |-> 0]
  /\ asleep = {} /\ waited = [q \in Queues |-> 0]

Put(q) ==
  /\ pending[q] < Prefetch /\ pending' = [pending EXCEPT ![q] = @ + 1]
  /\ asleep' = {}
  /\ UNCHANGED <<current, waited>>

Runnable == {q \in Queues : pending[q] > 0}

\* Every runnable queue earns its weight, an empty one loses its credit.
Credit == [q \in Queues |-> IF q \in Runnable THEN current[q] + Weight(q) ELSE 0]

Pay(q) == [Credit EXCEPT ![q] = @ - FoldSet(LAMBDA r, sum : sum + Weight(r), 0, Runnable)]

\* The first queue with the most credit.
Selected(q) ==
  /\ q \in Runnable
  /\ \A r \in Runnable : Credit[r] < Credit[q] \/ (Credit[r] = Credit[q] /\ q <= r)

Take(t) ==
  /\ t \notin asleep
  /\ IF Runnable = {}
     THEN /\ asleep' = asleep \cup {t} /\ current' = Credit
          /\ UNCHANGED <<pending, waited>>
     ELSE \E q \in Queues :
            /\ Selected(q) /\ current' = Pay(q)
            /\ pending' = [pending EXCEPT ![q] = @ - 1]
            /\ waited' = [r \in Queues |-> IF r \in Runnable \ {q} THEN waited[r] + 1 ELSE 0]
            /\ UNCHANGED asleep

Next == (\E q \in Queues : Put(q)) \/ (\E t \in Takers : Take(t))

-----------------------------------------------------------------------------

Total == FoldSet(LAMBDA q, sum : sum + Weight(q), 0, Queues)

\* A goroutine that sleeps is woken by the next delivery.
NoneSleepsBesideWork == asleep # {} => Runnable = {}

\* A queue that has deliveries gets a turn within twice its fair period of
\* Total / Weight(q) takes, although a queue that empties loses its debt and may
\* come back at once.
NoQueueStarves == \A q \in Queues : waited[q] * Weight(q) <= 2 * Total

SchedulerFair == NoneSleepsBesideWork /\ NoQueueStarves
=============================================================================
