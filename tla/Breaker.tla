------------------------------- MODULE Breaker -------------------------------
(***************************************************************************)
(* The circuit breaker of platform/breaker and the retry loop of the AI    *)
(* client around it (ai/grpcclient/retry.go).  Time is kept as ages, so    *)
(* behaviours are infinite and the state space finite: the age of the      *)
(* current bucket, the age of the opening and, in the history field log,   *)
(* how many outcomes of each age the window may still count.               *)
(*                                                                         *)
(* Every method runs under the breaker's mutex and starts with advance, so *)
(* an action is one method.                                                *)
(***************************************************************************)
EXTENDS Integers, FiniteSets

CONSTANTS Callers,             \* concurrent calls of the AI client
          Window, Buckets,     \* Config
          MinRequests,
          RateNum, RateDen,    \* FailureRate
          OpenTimeout,
          HalfOpenProbes,
          MaxAttempts,         \* RetryPolicy
          MaxLog               \* bound: outcomes and calls in one window

Width == Window \div Buckets
Span == Buckets * Width

VARIABLES b,     \* the Breaker struct
          call,  \* the callers' loops
          up     \* does the service answer

vars == <<b, call, up>>

Slots == 0 .. Buckets - 1
NoOutcomes == [i \in Slots |-> [successes |-> 0, failures |-> 0]]
Ages == 0 .. Span - 1
NoLog == [ok \in BOOLEAN |-> [a \in Ages |-> 0]]

TypeOK ==
  /\ b \in [state : {"closed", "open", "half_open"},
            buckets : [Slots -> [successes : Nat, failures : Nat]], cursor : Slots, age : 0 .. Span,
            openAge : 0 .. OpenTimeout, probesInFlight : 0 .. HalfOpenProbes,
            probeSuccesses : 0 .. HalfOpenProbes - 1, log : [BOOLEAN -> [Ages -> Nat]]]
  /\ call \in [Callers -> [at : {"idle", "sent", "wait"}, index : 1 .. MaxAttempts,
                           as : {"normal", "probe", "late"}]]
  /\ up \in BOOLEAN

Idle == [at |-> "idle", index |-> 1, as |-> "normal"]

\* log is history: the outcomes since the breaker last opened or closed.
Init ==
  /\ b = [state |-> "closed", buckets |-> NoOutcomes, cursor |-> 0, age |-> 0,
          openAge |-> 0, probesInFlight |-> 0, probeSuccesses |-> 0, log |-> NoLog]
  /\ call = [c \in Callers |-> Idle] /\ up \in BOOLEAN

-----------------------------------------------------------------------------
(* The struct's own operations. *)

\* The sum of the counters of S: how many units they hold.
Units(h, S) == UNION {{x} \X (1 .. h[x]) : x \in S}
Total(h, S) == Cardinality(Units(h, S))

Successes(r) == Total([i \in Slots |-> r.buckets[i].successes], Slots)
Failures(r) == Total([i \in Slots |-> r.buckets[i].failures], Slots)

HalfOpened(r) ==
  IF r.state = "open" /\ r.openAge >= OpenTimeout
  THEN [r EXCEPT !.state = "half_open", !.probesInFlight = 0, !.probeSuccesses = 0]
  ELSE r

\* The slots that the cursor passes are emptied.
Slid(r) ==
  LET steps == r.age \div Width
      passed == {(r.cursor + j) % Buckets : j \in 1 .. steps}
  IN  IF steps >= Buckets
      THEN [r EXCEPT !.buckets = NoOutcomes, !.cursor = 0, !.age = 0]
      ELSE [r EXCEPT !.buckets = [i \in Slots |-> IF i \in passed THEN NoOutcomes[i] ELSE @[i]],
                     !.cursor = (@ + steps) % Buckets, !.age = @ - steps * Width]

Advance(r) == Slid(HalfOpened(r))

Emptied(r, state) ==
  [r EXCEPT !.state = state, !.probesInFlight = 0, !.probeSuccesses = 0,
            !.buckets = NoOutcomes, !.cursor = 0, !.age = 0, !.log = NoLog]

Open(r) == [Emptied(r, "open") EXCEPT !.openAge = 0]
Close(r) == Emptied(r, "closed")

Counted(r, ok) ==
  LET q == [r EXCEPT !.log[ok][0] = @ + 1]
  IN  IF ok THEN [q EXCEPT !.buckets[r.cursor].successes = @ + 1]
            ELSE [q EXCEPT !.buckets[r.cursor].failures = @ + 1]

Trips(r) ==
  LET total == Successes(r) + Failures(r)
  IN  total >= MinRequests /\ Failures(r) * RateDen >= RateNum * total

\* Mutation: the probe that returned stays in flight.
ProbeKept(r, ok) ==
  IF ~ok THEN Open(r)
  ELSE IF r.probeSuccesses + 1 >= HalfOpenProbes THEN Close(r)
  ELSE [r EXCEPT !.probeSuccesses = @ + 1]

\* Mutation: a success is compared and not counted.
ProbeUncounted(r, ok) ==
  LET q == [r EXCEPT !.probesInFlight = IF @ > 0 THEN @ - 1 ELSE @]
  IN  IF ~ok THEN Open(q)
      ELSE IF q.probeSuccesses + 1 >= HalfOpenProbes THEN Close(q) ELSE q

\* The outcome of a probe, or of any call that returns while half-open.
ProbeRecorded(r, ok) ==
  LET q == [r EXCEPT !.probesInFlight = IF @ > 0 THEN @ - 1 ELSE @]
  IN  IF ~ok THEN Open(q)
      ELSE IF q.probeSuccesses + 1 >= HalfOpenProbes THEN Close(q)
      ELSE [q EXCEPT !.probeSuccesses = @ + 1]

Recorded(r, ok) ==
  LET q == Counted(r, ok)
  IN  IF r.state = "half_open" THEN ProbeRecorded(r, ok)
      ELSE IF ~ok /\ Trips(q) THEN Open(q) ELSE q

-----------------------------------------------------------------------------
(* The callers and the clock. *)

\* A change of state makes every call that is under way a late one.
Late(q) ==
  [c \in Callers |-> IF call[c].at = "sent" /\ q.state # b.state
                     THEN [call[c] EXCEPT !.as = "late"] ELSE call[c]]

Admits(r) == r.state = "closed" \/ (r.state = "half_open" /\ r.probesInFlight < HalfOpenProbes)

\* One attempt of call: Allow, and the request if it is let through.
Attempt(c) ==
  LET r == Advance(b)
      probing == r.state = "half_open"
      logged == Total(b.log[TRUE], Ages) + Total(b.log[FALSE], Ages)
  IN  /\ call[c].at # "sent" /\ UNCHANGED up
      /\ logged + Cardinality({d \in Callers : call[d].at = "sent"}) < MaxLog
      /\ \/ /\ Admits(r)
            /\ b' = IF probing THEN [r EXCEPT !.probesInFlight = @ + 1] ELSE r
            /\ call' = [Late(r) EXCEPT ![c].at = "sent",
                                       ![c].as = IF probing THEN "probe" ELSE "normal"]
         \/ /\ ~Admits(r)
            /\ b' = r /\ call' = [Late(r) EXCEPT ![c] = Idle]

\* After a failure that is worth repeating the loop waits and tries again,
\* unless its context has ended.
After(c, ok) ==
  IF ~ok /\ call[c].index < MaxAttempts
  THEN {[Idle EXCEPT !.at = "wait", !.index = call[c].index + 1], Idle}
  ELSE {Idle}

\* done(...) on the outcome of the call.
Report(c, ok) ==
  LET q == Recorded(Advance(b), ok)
  IN  /\ call[c].at = "sent" /\ b' = q /\ UNCHANGED up
      /\ \E next \in After(c, ok) : call' = [Late(q) EXCEPT ![c] = next]

Answer(c, ok) == (up => ok) /\ Report(c, ok)

\* The context of a call ends under way: cancelled by its caller, or past its
\* deadline.  It counts as a failure, whatever the service was about to say.
Abandon(c) == Report(c, FALSE) /\ call'[c] = Idle

\* The caller gives up while it waits.
Cancel(c) ==
  /\ call[c].at = "wait" /\ call' = [call EXCEPT ![c] = Idle]
  /\ UNCHANGED <<b, up>>

\* State, read by the metrics.
State == b' = Advance(b) /\ call' = Late(b') /\ UNCHANGED up

Older(log) == [ok \in BOOLEAN |-> [a \in Ages |-> IF a = 0 THEN 0 ELSE log[ok][a - 1]]]

Tick ==
  /\ b' = [b EXCEPT !.age = IF @ < Span THEN @ + 1 ELSE @, !.log = Older(@),
                    !.openAge = IF b.state = "open" /\ @ < OpenTimeout THEN @ + 1 ELSE @]
  /\ UNCHANGED <<call, up>>

ServiceChanges == up' = ~up /\ UNCHANGED <<b, call>>

Next ==
  \/ \E c \in Callers : Attempt(c) \/ Cancel(c) \/ Abandon(c) \/ \E ok \in BOOLEAN : Answer(c, ok)
  \/ State \/ Tick \/ ServiceChanges

-----------------------------------------------------------------------------
(* Properties. *)

\* What the buckets hold once they are advanced is exactly what was recorded
\* in a recent span of time that is shorter than the window by less than one
\* bucket: no outcome is counted after it left the window, none is forgotten
\* or counted twice while the cursor wraps around or jumps (advance).
WindowCounts ==
  LET r == Advance(b)
  IN  \E t \in Span - Width .. Span - 1 :
        Successes(r) = Total(r.log[TRUE], 0 .. t) /\ Failures(r) = Total(r.log[FALSE], 0 .. t)

\* Every probe that a half-open breaker counts as in flight is a call that
\* will report: no failed, late or repeated answer leaves a phantom probe
\* that keeps others out (record, open, advance).
NoPhantomProbe ==
  b.state = "half_open" =>
    b.probesInFlight <= Cardinality({c \in Callers : call[c].at = "sent" /\ call[c].as = "probe"})

\* Once the service answers for good, clients keep calling and no call under way
\* is abandoned any more, the breaker closes and stays closed, whatever late
\* answers it still receives.
Recovers ==
  <>[]up /\ <>[][\A c \in Callers : ~Abandon(c)]_vars => <>[](b.state = "closed")
=============================================================================
