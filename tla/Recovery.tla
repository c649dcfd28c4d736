------------------------------ MODULE Recovery ------------------------------
(***************************************************************************)
(* The recovery reconciler (recovery.Reconciler): maintenance processes    *)
(* scan the intermediate states of the database, class by class and page   *)
(* by page, and give work that nobody is going to finish a new command     *)
(* event, a bounded number of times.                                       *)
(*                                                                         *)
(* Resources are numbered in the order of their ids, work classes from 0.  *)
(* A command's delivery is what TaskDelivery shows of it: it is under way  *)
(* until it has a receipt, and it gets one.  A handler may acknowledge     *)
(* without having got the resource any further.                            *)
(***************************************************************************)
EXTENDS Naturals, FiniteSets

CONSTANTS Classes,            \* how many work classes are scanned
          Resources, ClassOf, \* resources by number, and their class
          Retryable,          \* the classes of storage operations
          Limit,              \* RunOnce's limit
          MaxRecoveryEvents,
          Reconcilers

VARIABLES work,     \* a resource's domain state
          command,  \* its commands: how many recovery made, how many are under way, and
                    \* whether the last one has a dead receipt
          recent,   \* resources whose last command was published within staleAfter
          stopped,  \* outbox_recoveries.stopped_at
          scan,     \* what each reconciler is doing
          nextScan, \* the class the next round starts with
          cursor    \* the last id scanned, per class; 0 at the start

vars == <<work, command, recent, stopped, scan, nextScan, cursor>>

ClassNumbers == 0 .. Classes - 1
Idle == [at |-> "idle", start |-> 0, offset |-> 0, page |-> {}]

Init ==
  /\ work = [r \in Resources |-> "open"] /\ command = [r \in Resources |-> [made |-> 0, sent |-> 1, dead |-> FALSE]]
  /\ recent = Resources /\ stopped = {}
  /\ scan = [m \in Reconcilers |-> Idle] /\ nextScan = [m \in Reconcilers |-> 0]
  /\ cursor = [m \in Reconcilers |-> [k \in ClassNumbers |-> 0]]

-----------------------------------------------------------------------------
(* The commands *)

CanRetry(r) == ClassOf[r] \in Retryable

\* A storage operation is claimed by the handler of a command.
StartOperation(r) ==
  /\ CanRetry(r) /\ work[r] = "open" /\ command[r].sent > 0
  /\ work' = [work EXCEPT ![r] = "running"]
  /\ UNCHANGED <<command, recent, stopped, scan, nextScan, cursor>>

LeaseRunsOut(r) ==
  /\ work[r] = "running" /\ work' = [work EXCEPT ![r] = "open"]
  /\ UNCHANGED <<command, recent, stopped, scan, nextScan, cursor>>

\* A receipt: success with or without progress, or a dead letter.
EndTask(r) ==
  /\ command[r].sent > 0
  /\ \E receipt \in {"succeeded", "dead"} :
       /\ command' = [command EXCEPT ![r].sent = @ - 1, ![r].dead = receipt = "dead"]
       /\ \/ UNCHANGED work
          \/ receipt = "succeeded" /\ work[r] # "dead" /\ work' = [work EXCEPT ![r] = "done"]
  /\ UNCHANGED <<recent, stopped, scan, nextScan, cursor>>

\* Its age is of no consequence while a command is under way.
StaleAfter(r) ==
  /\ r \in recent /\ command[r].sent = 0 /\ recent' = recent \ {r}
  /\ UNCHANGED <<work, command, stopped, scan, nextScan, cursor>>

-----------------------------------------------------------------------------
(* RunOnce *)

\* storageops.StopExhausted: operations that used up their attempts are dead.
StopExhausted ==
  \E S \in SUBSET {r \in Resources : CanRetry(r) /\ work[r] = "open"} :
    work' = [r \in Resources |-> IF r \in S THEN "dead" ELSE work[r]]

BeginRound(m) ==
  /\ scan[m].at = "idle" /\ StopExhausted
  /\ scan' = [scan EXCEPT ![m] = [Idle EXCEPT !.at = "scan", !.start = nextScan[m]]]
  /\ nextScan' = [nextScan EXCEPT ![m] = (@ + 1) % Classes]
  /\ UNCHANGED <<command, recent, stopped, cursor>>

\* The share of the limit that the class at this place of the round gets.
Slot(offset) == Limit \div Classes + (IF offset < Limit % Classes THEN 1 ELSE 0)

Candidates(k) == {r \in Resources : ClassOf[r] = k /\ work[r] = "open"}

FirstOf(S, n) == {r \in S : Cardinality({q \in S : q < r}) < n}

\* scanPage: the next candidates after the cursor, or the first ones again.
Page(m, k, n) ==
  LET after == {r \in Candidates(k) : r > cursor[m][k]}
  IN FirstOf(IF after = {} THEN Candidates(k) ELSE after, n)

\* The round goes on to the next class when the page is done, and ends where
\* the limit leaves nothing for it.
After(s, page) ==
  IF page # {} THEN [s EXCEPT !.page = page]
  ELSE IF s.offset < Classes /\ Slot(s.offset) > 0 THEN [s EXCEPT !.page = {}] ELSE Idle

ScanPage(m) ==
  LET k == (scan[m].start + scan[m].offset) % Classes
      page == Page(m, k, Slot(scan[m].offset))
  IN /\ scan[m].at = "scan" /\ scan[m].page = {}
     /\ scan' = [scan EXCEPT ![m] = After([scan[m] EXCEPT !.offset = @ + 1], page)]
     /\ cursor' = [cursor EXCEPT ![m][k] = IF page = {} THEN 0 ELSE CHOOSE r \in page : \A q \in page : q <= r]
     /\ UNCHANGED <<work, command, recent, stopped, nextScan>>

\* recoverDelivery: a command is under way; a dead letter counts as one unless
\* the work may be retried.
Active(r) == command[r].sent > 0 \/ (command[r].dead /\ ~CanRetry(r))
TerminalDead(r) == CanRetry(r) /\ command[r].dead
Attempts(r) == command[r].made

Stop(r) ==
  /\ stopped' = stopped \cup {r}
  /\ work' = IF CanRetry(r) /\ work[r] = "open" THEN [work EXCEPT ![r] = "dead"] ELSE work
  /\ UNCHANGED <<command, recent>>

\* A new identity, chained after the last one.
EnsureRecovery(r) ==
  /\ command' = [command EXCEPT ![r] = [made |-> @.made + 1, sent |-> @.sent + 1, dead |-> FALSE]] /\ recent' = recent \cup {r}
  /\ UNCHANGED <<work, stopped>>

Leave == UNCHANGED <<work, command, recent, stopped>>

\* Mutation: a command under way does not keep a second one from being sent.
EnsureAnyway(r) ==
  CASE r \in stopped -> Leave
    [] Attempts(r) >= MaxRecoveryEvents ->
         IF CanRetry(r) /\ work[r] = "running" THEN Leave ELSE Stop(r)
    [] r \in recent /\ ~TerminalDead(r) -> Leave
    [] OTHER -> EnsureRecovery(r)

\* ensureWithPolicy, one transaction under the key's advisory lock.
Ensure(r) ==
  CASE r \in stopped \/ Active(r) -> Leave
    [] ~(r \in stopped \/ Active(r)) /\ Attempts(r) >= MaxRecoveryEvents ->
         IF CanRetry(r) /\ work[r] = "running" THEN Leave ELSE Stop(r)
    [] ~(r \in stopped \/ Active(r)) /\ Attempts(r) < MaxRecoveryEvents ->
         IF r \in recent /\ ~TerminalDead(r) THEN Leave ELSE EnsureRecovery(r)

Recover(m) ==
  /\ \E r \in scan[m].page : Ensure(r) /\ scan' = [scan EXCEPT ![m] = After(@, @.page \ {r})]
  /\ UNCHANGED <<nextScan, cursor>>

Next ==
  \/ \E r \in Resources : StartOperation(r) \/ LeaseRunsOut(r) \/ EndTask(r) \/ StaleAfter(r)
  \/ \E m \in Reconcilers : BeginRound(m) \/ ScanPage(m) \/ Recover(m)

-----------------------------------------------------------------------------

\* A resource gets MaxRecoveryEvents new commands at most, two of its commands
\* are never under way at once, and recovery does not give up on one that is.
RecoveryBounded ==
  \A r \in Resources :
    /\ Attempts(r) <= MaxRecoveryEvents
    /\ command[r].sent <= 1
    /\ r \in stopped => command[r].sent = 0

\* Nobody waits for ever: work is done, or given up after its budget, or, where
\* a dead letter is final, has one.  This is a state that lasts.
Settled ==
  \A r \in Resources :
    work[r] \in {"done", "dead"} \/ r \in stopped \/ (~CanRetry(r) /\ command[r].dead)
=============================================================================
