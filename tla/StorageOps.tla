----------------------------- MODULE StorageOps -----------------------------
(***************************************************************************)
(* The durable ledger of object-storage work (package storageops) and the  *)
(* workers that run it.  A row survives every process; a worker owns a row *)
(* only through a lease token, and everything it writes when its provider  *)
(* call returns is fenced by that token.                                   *)
(*                                                                         *)
(* A worker stands for ONE invocation that claimed a row.  Tokens are      *)
(* fresh UUIDs; an invocation ends (Finish, Crash) before its worker can   *)
(* claim again, so the worker itself can stand for the token it drew.      *)
(*                                                                         *)
(* Time is what the SQL compares with the clock: `lease' counts the ticks  *)
(* until lease_until (0 = expired or NULL), `avail' is whether          *)
(* available_at <= now.                                                    *)
(***************************************************************************)
EXTENDS Naturals, FiniteSets

CONSTANTS Ops,          \* idempotency keys of operations
          Workers,      \* claiming invocations (and so lease tokens)
          NoWorker,     \* the NULL lease_token
          NoOp,         \* a worker without a claim
          MaxAttempts,  \* storageops.MaxAttempts
          LeaseTicks,   \* length of a lease in ticks
          MaxCancels    \* bound: shutdowns that interrupt a provider call

ASSUME ConstantsAssumption ==
  /\ MaxAttempts \in Nat \ {0}
  /\ LeaseTicks \in Nat \ {0}
  /\ MaxCancels \in Nat
  /\ NoWorker \notin Workers
  /\ NoOp \notin Ops

ASSUME WorkersFinite == IsFiniteSet(Workers)

VARIABLES row,      \* the storage_operations table
          held,     \* the operation a worker's invocation claimed
          pc,       \* where that invocation is
          effect,   \* provider state: the side effect has happened
          cancels,  \* shutdowns so far
          claims    \* history: how often each operation was claimed

vars == <<row, held, pc, effect, cancels, claims>>

States == {"absent", "pending", "running", "failed", "succeeded", "dead"}
Final == {"succeeded", "dead"}

Row == [state : States, attempt : 0..MaxAttempts, token : Workers \cup {NoWorker},
        lease : 0..LeaseTicks, avail : {"now", "later"}]

NoRow == [state |-> "absent", attempt |-> 0, token |-> NoWorker, lease |-> 0, avail |-> "later"]

TypeOK ==
  /\ row \in [Ops -> Row]
  /\ held \in [Workers -> Ops \cup {NoOp}]
  /\ pc \in [Workers -> {"idle", "calling", "called", "failed", "canceled"}]
  /\ effect \in [Ops -> BOOLEAN]
  /\ cancels \in 0..MaxCancels
  /\ claims \in [Ops -> Nat]

Init ==
  /\ row = [o \in Ops |-> NoRow]
  /\ held = [w \in Workers |-> NoOp]
  /\ pc = [w \in Workers |-> "idle"]
  /\ effect = [o \in Ops |-> FALSE]
  /\ cancels = 0
  /\ claims = [o \in Ops |-> 0]

-----------------------------------------------------------------------------
(* Rows *)

\* Enqueue inserts under the unique idempotency_key; a second call for the
\* same key returns the row that is there.
Enqueued(r) ==
  IF r.state = "absent"
    THEN [NoRow EXCEPT !.state = "pending", !.avail = "now"]
    ELSE r

\* Mutant: a lease that ran out is not eligible again.
ClaimableNotExpired(r) ==
  r.attempt < MaxAttempts /\ r.state \in {"pending", "failed"} /\ r.avail = "now"

\* The WHERE clause of TryStartWithToken; ClaimTypes selects the same rows.
Claimable(r) ==
  /\ r.attempt < MaxAttempts
  /\ \/ r.state \in {"pending", "failed"} /\ r.avail = "now"
     \/ r.state = "running" /\ r.lease = 0

Claimed(r, w) ==
  [r EXCEPT !.state = "running", !.lease = LeaseTicks, !.token = w, !.attempt = @ + 1]

\* The WHERE clause of stopExhausted: live leases are not touched.
Exhausted(r) ==
  /\ r.attempt >= MaxAttempts
  /\ \/ r.state \in {"pending", "failed"}
     \/ r.state = "running" /\ r.lease = 0

Stopped(r) == [r EXCEPT !.state = "dead", !.lease = 0, !.token = NoWorker]

\* Mutant: any worker of the operation may write, token or not.
OwnsWithoutToken(w, o) == row[o].state = "running"

\* "state = running AND lease_token = token": the fence of every owned write.
Owns(w, o) == row[o].state = "running" /\ row[o].token = w

Succeed(r) == [r EXCEPT !.state = "succeeded", !.lease = 0, !.token = NoWorker]

\* Mutant: a failure gives the operation a fresh budget.
FailResetsAttempt(r) ==
  [r EXCEPT !.state = "failed", !.attempt = 0, !.avail = "later", !.lease = 0, !.token = NoWorker]

Fail(r) ==
  [r EXCEPT !.state = IF r.attempt >= MaxAttempts THEN "dead" ELSE "failed",
            !.avail = "later", !.lease = 0, !.token = NoWorker]

Due(r) == [r EXCEPT !.avail = "now"]

\* RecordError after a shutdown: the attempt is given back (GREATEST(0, ..)).
Refund(r) ==
  [r EXCEPT !.state = "pending", !.avail = "now", !.lease = 0, !.token = NoWorker,
            !.attempt = IF r.attempt = 0 THEN 0 ELSE r.attempt - 1]

-----------------------------------------------------------------------------
(* The ledger and the clock *)

Enqueue(o) ==
  /\ row[o].state = "absent"
  /\ row' = [row EXCEPT ![o] = Enqueued(@)]
  /\ UNCHANGED <<held, pc, effect, cancels, claims>>

\* lease_until comes one tick nearer.
LeaseTick(o) ==
  /\ row[o].lease > 0
  /\ row' = [row EXCEPT ![o].lease = @ - 1]
  /\ UNCHANGED <<held, pc, effect, cancels, claims>>

\* The backoff written by markFailed has passed.
BackoffPasses(o) ==
  /\ row[o].state = "failed" /\ row[o].avail = "later"
  /\ row' = [row EXCEPT ![o] = Due(@)]
  /\ UNCHANGED <<held, pc, effect, cancels, claims>>

\* StopExhausted, run by the recovery scan and before each claim.
StopExhausted(o) ==
  /\ Exhausted(row[o])
  /\ row' = [row EXCEPT ![o] = Stopped(@)]
  /\ UNCHANGED <<held, pc, effect, cancels, claims>>

\* recovery.ensureWithPolicy and RetireStoppedSessions kill an operation whose
\* recovery events are used up, unless a live owner is running it.  When that
\* budget is used up is not part of this module.
AbandonRecovery(o) ==
  /\ row[o].state \in {"pending", "failed", "running"}
  /\ row[o].state = "running" => row[o].lease = 0
  /\ row' = [row EXCEPT ![o] = Stopped(@)]
  /\ UNCHANGED <<held, pc, effect, cancels, claims>>

-----------------------------------------------------------------------------
(* Workers *)

\* TryStartWithToken for a recovery nudge, or ClaimTypes in the periodic scan:
\* one conditional update that also charges the attempt.
TryStart(w, o) ==
  /\ pc[w] = "idle"
  /\ Claimable(row[o])
  /\ row' = [row EXCEPT ![o] = Claimed(@, w)]
  /\ held' = [held EXCEPT ![w] = o]
  /\ pc' = [pc EXCEPT ![w] = "calling"]
  /\ claims' = [claims EXCEPT ![o] = @ + 1]
  /\ UNCHANGED <<effect, cancels>>

\* RunOwned's ticker: the lease is extended only while it is still live.
Renew(w) ==
  /\ pc[w] \in {"calling", "called"}
  /\ Owns(w, held[w]) /\ row[held[w]].lease > 0
  /\ row' = [row EXCEPT ![held[w]].lease = LeaseTicks]
  /\ UNCHANGED <<held, pc, effect, cancels, claims>>

\* RunOwned's ticker finds no renewable lease and the row not succeeded: it
\* cancels the context of the provider call, which returns an error.
LoseLease(w) ==
  /\ pc[w] = "calling"
  /\ ~(Owns(w, held[w]) /\ row[held[w]].lease > 0)
  /\ row[held[w]].state # "succeeded"
  /\ pc' = [pc EXCEPT ![w] = "failed"]
  /\ UNCHANGED <<row, held, effect, cancels, claims>>

\* The provider carries out a request some invocation sent, possibly after that
\* invocation timed out, was cancelled or died.
ProviderApplies(o) ==
  /\ claims[o] > 0
  /\ ~effect[o]
  /\ effect' = [effect EXCEPT ![o] = TRUE]
  /\ UNCHANGED <<row, held, pc, cancels, claims>>

\* The call returns without an error; the provider's operations are idempotent,
\* so an effect left by an earlier request counts.
ProviderAnswers(w) ==
  /\ pc[w] = "calling"
  /\ effect[held[w]]
  /\ pc' = [pc EXCEPT ![w] = "called"]
  /\ UNCHANGED <<row, held, effect, cancels, claims>>

\* The call returns an error, whether or not the provider applied it.
ProviderErrs(w) ==
  /\ pc[w] = "calling"
  /\ pc' = [pc EXCEPT ![w] = "failed"]
  /\ UNCHANGED <<row, held, effect, cancels, claims>>

\* The process is asked to stop: the caller's own context is cancelled.
Shutdown(w) ==
  /\ pc[w] = "calling"
  /\ cancels < MaxCancels
  /\ cancels' = cancels + 1
  /\ pc' = [pc EXCEPT ![w] = "canceled"]
  /\ UNCHANGED <<row, held, effect, claims>>

\* MarkSucceededOwned.  Without the lease it reports "lease lost" (and the
\* caller goes on to RecordError), unless somebody else already succeeded.
MarkSucceeded(w) ==
  LET o == held[w] IN
  /\ pc[w] = "called"
  /\ row' = IF Owns(w, o) THEN [row EXCEPT ![o] = Succeed(@)] ELSE row
  /\ IF Owns(w, o) \/ row[o].state = "succeeded"
       THEN /\ pc' = [pc EXCEPT ![w] = "idle"]
            /\ held' = [held EXCEPT ![w] = NoOp]
       ELSE /\ pc' = [pc EXCEPT ![w] = "failed"]
            /\ UNCHANGED held
  /\ UNCHANGED <<effect, cancels, claims>>

\* Mutant: MarkFailed in place of MarkFailedOwned.
MarkFailedUnfenced(w) ==
  /\ pc[w] = "failed"
  /\ row' = [row EXCEPT ![held[w]] = Fail(@)]
  /\ pc' = [pc EXCEPT ![w] = "idle"]
  /\ held' = [held EXCEPT ![w] = NoOp]
  /\ UNCHANGED <<effect, cancels, claims>>

\* RecordError -> MarkFailedOwned.
MarkFailed(w) ==
  LET o == held[w] IN
  /\ pc[w] = "failed"
  /\ row' = IF Owns(w, o) THEN [row EXCEPT ![o] = Fail(@)] ELSE row
  /\ pc' = [pc EXCEPT ![w] = "idle"]
  /\ held' = [held EXCEPT ![w] = NoOp]
  /\ UNCHANGED <<effect, cancels, claims>>

\* RecordError when ctx.Err() is context.Canceled.
RefundAttempt(w) ==
  LET o == held[w] IN
  /\ pc[w] = "canceled"
  /\ row' = IF Owns(w, o) THEN [row EXCEPT ![o] = Refund(@)] ELSE row
  /\ pc' = [pc EXCEPT ![w] = "idle"]
  /\ held' = [held EXCEPT ![w] = NoOp]
  /\ UNCHANGED <<effect, cancels, claims>>

\* The process dies: nothing is written, the row keeps its token and lease.
Crash(w) ==
  /\ pc[w] # "idle"
  /\ pc' = [pc EXCEPT ![w] = "idle"]
  /\ held' = [held EXCEPT ![w] = NoOp]
  /\ UNCHANGED <<row, effect, cancels, claims>>

LedgerStep(o) ==
  \/ Enqueue(o)
  \/ LeaseTick(o)
  \/ BackoffPasses(o)
  \/ StopExhausted(o)
  \/ AbandonRecovery(o)
  \/ ProviderApplies(o)

WorkerStep(w) ==
  \/ \E o \in Ops : TryStart(w, o)
  \/ Renew(w)
  \/ LoseLease(w)
  \/ ProviderAnswers(w)
  \/ ProviderErrs(w)
  \/ Shutdown(w)
  \/ MarkSucceeded(w)
  \/ MarkFailed(w)
  \/ RefundAttempt(w)
  \/ Crash(w)

Next ==
  \/ \E o \in Ops : LedgerStep(o)
  \/ \E w \in Workers : WorkerStep(w)

Spec == Init /\ [][Next]_vars

\* What the deployment keeps doing: time passes, the periodic scan stops and
\* claims operations, a provider call returns (every call has a deadline), and
\* a worker that is not killed writes its outcome.
Fairness ==
  /\ \A o \in Ops :
       /\ WF_vars(LeaseTick(o))
       /\ WF_vars(BackoffPasses(o))
       /\ WF_vars(StopExhausted(o))
       /\ WF_vars(\E w \in Workers : TryStart(w, o))
  /\ \A w \in Workers :
       /\ WF_vars(ProviderAnswers(w) \/ ProviderErrs(w))
       /\ WF_vars(MarkSucceeded(w) \/ MarkFailed(w) \/ RefundAttempt(w))

FairSpec == Spec /\ Fairness

-----------------------------------------------------------------------------
(* Properties *)

\* The ledger implements durable work: an operation succeeds only after its
\* provider effect happened, and an outcome, once recorded, is never replaced,
\* whatever crashed, stale or duplicate workers still write (markSucceeded and
\* markFailed are fenced by lease_token).
Status(r) ==
  CASE r.state = "absent" -> "none"
    [] r.state \in {"pending", "running", "failed"} -> "open"
    [] OTHER -> r.state

Durable == INSTANCE DurableWork WITH Items <- Ops,
                                     status <- [o \in Ops |-> Status(row[o])],
                                     done <- effect
ImplementsDurableWork == Durable!Spec

\* "This budget belongs to the durable operation, not a broker message":
\* however often an operation is nudged, re-enqueued, claimed after a crash or
\* written to by a stale worker, it is started at most MaxAttempts times plus
\* once per shutdown that interrupted it.
BudgetHolds == \A o \in Ops : claims[o] <= MaxAttempts + cancels

\* "Live leases are never stopped, so a slow owner can still commit its
\* successful result": while a lease is live, only the worker holding its token
\* changes the operation's state or token, and it does so by ending its own
\* invocation.
LiveLeaseStep ==
  \A o \in Ops :
    (/\ row[o].state = "running"
     /\ row[o].lease > 0
     /\ \/ row'[o].state # row[o].state
        \/ row'[o].token # row[o].token)
    => \E w \in Workers : row[o].token = w /\ held[w] = o /\ held'[w] = NoOp
LiveLeaseProtected == [][LiveLeaseStep]_vars

\* Every operation that was enqueued reaches an outcome, in spite of crashes and
\* lost leases: it is not retried for ever and not forgotten.
EveryOperationSettles ==
  \A o \in Ops : (row[o].state # "absent") ~> (row[o].state \in Final)
=============================================================================
