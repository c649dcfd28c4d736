----------------------------- MODULE Dispatching ----------------------------
(***************************************************************************)
(* The replicas of the outbox dispatcher (outbox/dispatcher.go) and the    *)
(* Redis lock that elects one of them (platform/dblock/redis.go), for one  *)
(* event with a delivery row per destination.                              *)
(*                                                                         *)
(* The lock's key holds the token of a replica, or one that no process     *)
(* knows any more: its SET was answered by an error, its DEL was lost, or  *)
(* the replica died.  What a claimed row goes through at the broker is     *)
(* TaskDelivery's subject; here it is published, refused or left.          *)
(***************************************************************************)
EXTENDS Naturals, FiniteSets

CONSTANTS Replicas,
          Destinations,  \* the enabled routes of the event
          BatchSize,
          MaxOutages,    \* bound: how many faults happen
          Free, Unknown  \* no key; a token that nobody knows

VARIABLES key,      \* token that the lock's key holds
          replica,  \* the dispatchers
          event,    \* status of the outbox_events row
          row,      \* outbox_deliveries: status, and whose claim it is
          outages

vars == <<key, replica, event, row, outages>>

Follower(signal) ==
  [at |-> "follower", halt |-> "no", late |-> FALSE, signal |-> signal,
   prepared |-> FALSE, batch |-> {}, processed |-> FALSE]

Absent == [status |-> "absent", by |-> Free]
Pending == [status |-> "pending", by |-> Free]

Init ==
  /\ key = Free /\ event = "none" /\ outages = 0
  /\ replica = [r \in Replicas |-> Follower(FALSE)]
  /\ row = [d \in Destinations |-> Absent]

Outage == outages < MaxOutages /\ outages' = outages + 1

Live == {r \in Replicas : replica[r].at # "down"}
Leading(r) == replica[r].at \notin {"follower", "down"}
Move(r, at) == replica' = [replica EXCEPT ![r].at = at]

-----------------------------------------------------------------------------
(* The writer. *)

\* The trigger on outbox_deliveries: every listener keeps one signal.
Notified(reps) == [r \in Replicas |-> IF r \in Live THEN [reps[r] EXCEPT !.signal = TRUE] ELSE reps[r]]

\* Add: the event with the delivery rows of the destinations its writer knows of; a
\* role without search writes no row for it, a writer older than the rows none at
\* all.  The notification of the rows may be lost.
Add ==
  /\ event = "none" /\ event' = "pending"
  /\ \E routes \in SUBSET Destinations :
       /\ row' = [d \in Destinations |-> IF d \in routes THEN Pending ELSE Absent]
       /\ \/ routes # {} /\ replica' = Notified(replica) /\ UNCHANGED outages
          \/ routes # {} /\ UNCHANGED replica /\ Outage
          \/ routes = {} /\ UNCHANGED <<replica, outages>>
  /\ UNCHANGED key

-----------------------------------------------------------------------------
(* The lock. *)

\* Acquire: SET NX; an error may hide that the key was set.
Acquire(r) ==
  /\ replica[r].at = "follower" /\ key = Free
  /\ \/ /\ key' = r /\ UNCHANGED outages
        /\ replica' = [replica EXCEPT ![r].at = "poll", ![r].late = FALSE, ![r].prepared = FALSE]
     \/ key' = Unknown /\ Outage /\ UNCHANGED replica
  /\ UNCHANGED <<event, row>>

\* Watchdog: a renewal that finds another token, or fails, ends the leadership.
Renew(r) ==
  /\ Leading(r) /\ replica[r].at # "release" /\ replica[r].halt = "no"
  /\ \/ key # r /\ UNCHANGED outages
     \/ key = r /\ Outage
  /\ replica' = [replica EXCEPT ![r].halt = "lost"]
  /\ UNCHANGED <<key, event, row>>

\* The time to live of the key ends: of one that nobody renews, or, as a fault, of a
\* leader that is paused for longer than that.
Expire ==
  /\ \/ key = Unknown /\ UNCHANGED <<replica, outages>>
     \/ key \in Replicas /\ Outage /\ replica' = [replica EXCEPT ![key].late = TRUE]
  /\ key' = Free
  /\ UNCHANGED <<event, row>>

\* Mutation: the key is deleted whatever it holds.
ReleaseBlind(r) ==
  /\ replica[r].at = "release"
  /\ key' = Free /\ UNCHANGED <<event, row, outages>>
  /\ replica' = [replica EXCEPT ![r] = IF @.halt = "stop" THEN [Follower(FALSE) EXCEPT !.at = "down"]
                                       ELSE Follower(@.signal)]

\* Release: compare the token and delete, or the command is lost.
Release(r) ==
  /\ replica[r].at = "release"
  /\ \/ key' = (IF key = r THEN Free ELSE key) /\ UNCHANGED outages
     \/ key' = (IF key = r THEN Unknown ELSE key) /\ Outage
  /\ replica' = [replica EXCEPT ![r] = IF @.halt = "stop" THEN [Follower(FALSE) EXCEPT !.at = "down"]
                                       ELSE Follower(@.signal)]
  /\ UNCHANGED <<event, row>>

-----------------------------------------------------------------------------
(* The poll loop of a leader. *)

Halted(r) == replica[r].halt # "no"

\* poll: lost leadership and shutdown end it at the top of the loop and in its waits.
LeavePoll(r) ==
  /\ Halted(r) /\ replica[r].at \in {"poll", "idle", "backoff"}
  /\ Move(r, "release") /\ UNCHANGED <<key, event, row, outages>>

\* prepareDeliveries: an event that is not done gets the delivery rows it lacks, at
\* the start of a leadership and then once per interval.
Prepare(r) ==
  /\ replica[r].at = "poll" /\ ~Halted(r)
  /\ LET missing == {d \in Destinations : ~replica[r].prepared /\ event = "pending" /\ row[d] = Absent}
         told == IF missing = {} THEN replica ELSE Notified(replica)
     IN  /\ replica' = [told EXCEPT ![r].at = "claim", ![r].prepared = TRUE]
         /\ row' = [d \in Destinations |-> IF d \in missing THEN Pending ELSE row[d]]
  /\ UNCHANGED <<key, event, outages>>

PreparationAges(r) ==
  /\ replica[r].prepared
  /\ replica' = [replica EXCEPT ![r].prepared = FALSE]
  /\ UNCHANGED <<key, event, row, outages>>

\* Due, or in a claim whose lease has run out.
Claimable(d) == row[d].status = "pending" \/ (row[d].status = "sending" /\ row[d].by = Free)

\* claimDeliveries; a failure of the scan is waited out.
Claim(r) ==
  LET due == {d \in Destinations : Claimable(d)}
  IN  /\ replica[r].at = "claim"
      /\ \/ \E batch \in SUBSET due :
              /\ Cardinality(batch) = (IF Cardinality(due) < BatchSize THEN Cardinality(due) ELSE BatchSize)
              /\ row' = [d \in Destinations |-> IF d \in batch THEN [status |-> "sending", by |-> r] ELSE row[d]]
              /\ replica' = [replica EXCEPT ![r].at = "batch", ![r].batch = batch, ![r].processed = FALSE]
              /\ UNCHANGED outages
         \/ Move(r, "backoff") /\ Outage /\ UNCHANGED row
      /\ UNCHANGED <<key, event>>

\* releaseClaims, fenced by the claim's token.
Returned(r, claims) ==
  [d \in Destinations |-> IF d \in claims /\ row[d].by = r THEN Pending ELSE row[d]]

\* The loop over the batch stops before its next row.
StopBatch(r) ==
  /\ replica[r].at = "batch" /\ replica[r].batch # {} /\ Halted(r)
  /\ row' = Returned(r, replica[r].batch)
  /\ replica' = [replica EXCEPT ![r].at = "release", ![r].batch = {}]
  /\ UNCHANGED <<key, event, outages>>

AllPublished(rows) == \A d \in Destinations : rows[d].status \in {"absent", "published"}

\* sendDelivery of a row: published and, if the claim still holds, recorded together
\* with the event's status, which two such transactions at once may both miss; refused by the broker, or its claim lost, after which the
\* rest of the batch is given back.
Send(r, d) ==
  /\ replica[r].at = "batch" /\ d \in replica[r].batch
  /\ \/ /\ row[d].by = r /\ row' = [row EXCEPT ![d] = [status |-> "published", by |-> Free]]
        /\ \/ event' = IF AllPublished(row') THEN "published" ELSE event
           \/ (\E s \in Replicas \ {r} : replica[s].at = "batch") /\ UNCHANGED event
        /\ replica' = [replica EXCEPT ![r].batch = @ \ {d}, ![r].processed = TRUE]
        /\ UNCHANGED outages
     \/ /\ row[d].by = r => Outage
        /\ row[d].by # r => UNCHANGED outages
        /\ row' = Returned(r, replica[r].batch)
        /\ replica' = [replica EXCEPT ![r].at = "backoff", ![r].batch = {}]
        /\ UNCHANGED event
  /\ UNCHANGED key

\* After a batch with work the loop goes on at once, otherwise it waits.
EndBatch(r) ==
  /\ replica[r].at = "batch" /\ replica[r].batch = {}
  /\ Move(r, IF replica[r].processed THEN "poll" ELSE "idle")
  /\ UNCHANGED <<key, event, row, outages>>

\* Mutation: nothing but a notification ends the wait.
WaitForNotification(r) ==
  /\ replica[r].at = "idle" /\ replica[r].signal
  /\ replica' = [replica EXCEPT ![r].at = "poll", ![r].signal = FALSE]
  /\ UNCHANGED <<key, event, row, outages>>

\* waitForPoll: a notification or the time ends the wait; after an error only time.
WaitForPoll(r) ==
  /\ replica[r].at \in {"idle", "backoff"}
  /\ \/ Move(r, "poll")
     \/ /\ replica[r].at = "idle" /\ replica[r].signal
        /\ replica' = [replica EXCEPT ![r].at = "poll", ![r].signal = FALSE]
  /\ UNCHANGED <<key, event, row, outages>>

\* The lease of a claim ends: of one that nobody works on, or, as a fault, of one
\* that is still in a batch.
ClaimExpires(d) ==
  /\ row[d].status = "sending" /\ row[d].by # Free
  /\ IF d \in replica[row[d].by].batch THEN Outage ELSE UNCHANGED outages
  /\ row' = [row EXCEPT ![d].by = Free]
  /\ UNCHANGED <<key, event, replica>>

-----------------------------------------------------------------------------
(* The processes. *)

Shutdown(r) ==
  /\ replica[r].at # "down" /\ replica[r].halt # "stop" /\ Outage
  /\ replica' = [replica EXCEPT ![r] = IF @.at = "follower" THEN [Follower(FALSE) EXCEPT !.at = "down"]
                                       ELSE [@ EXCEPT !.halt = "stop"]]
  /\ UNCHANGED <<key, event, row>>

Crash(r) ==
  /\ replica[r].at # "down" /\ Outage
  /\ replica' = [replica EXCEPT ![r] = [Follower(FALSE) EXCEPT !.at = "down"]]
  /\ key' = IF key = r THEN Unknown ELSE key
  /\ UNCHANGED <<event, row>>

Restart(r) ==
  /\ replica[r].at = "down" /\ Move(r, "follower")
  /\ UNCHANGED <<key, event, row, outages>>

Work(r) ==
  \/ Acquire(r) \/ Release(r) \/ LeavePoll(r) \/ Prepare(r) \/ Claim(r) \/ StopBatch(r)
  \/ (\E d \in Destinations : Send(r, d)) \/ EndBatch(r) \/ WaitForPoll(r) \/ Restart(r)

Next ==
  \/ Add \/ Expire
  \/ \E d \in Destinations : ClaimExpires(d)
  \/ \E r \in Replicas : Work(r) \/ Renew(r) \/ PreparationAges(r) \/ Shutdown(r) \/ Crash(r)

-----------------------------------------------------------------------------

\* A replica leads without the key only after its own key ran out under it: no
\* other replica's late Release, failed Acquire or crash takes the leadership away.
LeaderHoldsKey == \A r \in Replicas : Leading(r) /\ ~replica[r].late => key = r

\* No delivery row waits for ever, whatever notification, claim or leader was lost on
\* the way: this is a state that lasts.  A destination stays without a row only if
\* the event was published to all that had one before a leader added it.
Dispatched ==
  event # "none" =>
    \A d \in Destinations : row[d].status = "published" \/ (row[d] = Absent /\ event = "published")
=============================================================================
