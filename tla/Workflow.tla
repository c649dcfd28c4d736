------------------------------ MODULE Workflow ------------------------------
(***************************************************************************)
(* The durable state machine of one workflow (workflow.Service): steps     *)
(* with their commands, and the compensation of what succeeded.  The       *)
(* callers are outside this repository, so every operation may be called   *)
(* at any time, again, and by two callers at once.                         *)
(*                                                                         *)
(* CompleteCommand and CompleteCompensation lock the step, count the other *)
(* steps as committed by then, and lock the instance later: the count and  *)
(* the commit are two steps here, and calls[s] is the transaction between  *)
(* them.  The other operations lock the instance first and are one step.   *)
(***************************************************************************)
EXTENDS Naturals, FiniteSets

CONSTANTS Steps,     \* step names
          Commands   \* command ids

VARIABLES instance,  \* workflow_instances.state
          steps,     \* workflow_steps: the command, the state, compensation_state
          commands,  \* command_deduplications.status
          calls,     \* the open transaction on a step
          undone     \* history: how often each step was handed out for compensation

vars == <<instance, steps, commands, calls, undone>>

None == "none"
Absent == [command |-> None, state |-> "absent", compensation |-> "not_required"]

Init ==
  /\ instance = "absent" /\ steps = [s \in Steps |-> Absent]
  /\ commands = [c \in Commands |-> "absent"] /\ calls = [s \in Steps |-> None]
  /\ undone = [s \in Steps |-> 0]

-----------------------------------------------------------------------------
(* The state tables.  A transition to the present state is accepted. *)

\* manual_intervention, which every state but the final one allows, has no caller.
InstanceAllowed(from, to) ==
  from = to \/ to \in (CASE from = "pending" -> {"running", "failed"}
                          [] from = "running" -> {"succeeded", "compensating", "failed"}
                          [] from = "compensating" -> {"failed"}
                          [] from = "failed" -> {"compensating"}
                          [] OTHER -> {})

StepAllowed(from, to) ==
  from = to \/ to \in (CASE from = "running" -> {"succeeded", "failed", "compensating"}
                          [] from = "compensating" -> {"compensated", "failed"}
                          [] from = "failed" -> {"running", "compensating"}
                          [] OTHER -> {})

\* One call holds a step's row at a time.
Unlocked(s) == calls[s] = None

-----------------------------------------------------------------------------

Begin ==
  /\ instance = "absent" /\ instance' = "pending"
  /\ UNCHANGED <<steps, commands, calls, undone>>

\* A command that is known already changes nothing, and neither does a new
\* command for a step that exists, beyond its own record.
StartStep(s, c) ==
  /\ InstanceAllowed(instance, "running") /\ instance' = "running"
  /\ commands' = [commands EXCEPT ![c] = IF @ = "absent" THEN "pending" ELSE @]
  /\ steps' = [steps EXCEPT ![s] =
       IF commands[c] = "absent" /\ @ = Absent THEN [Absent EXCEPT !.command = c, !.state = "running"] ELSE @]
  /\ UNCHANGED <<calls, undone>>

\* CompleteCommand up to the count: the step ends the workflow or it does not.
CountRemaining(s) ==
  /\ Unlocked(s) /\ steps[s] # Absent /\ commands[steps[s].command] = "pending"
  /\ StepAllowed(steps[s].state, "succeeded")
  /\ calls' = [calls EXCEPT ![s] =
       IF \A r \in Steps \ {s} : steps[r].state \in {"absent", "succeeded", "compensated"}
       THEN "last" ELSE "done"]
  /\ UNCHANGED <<instance, steps, commands, undone>>

\* The rest of CompleteCommand.  A workflow that may not succeed any more
\* rolls the command's success back.
CompleteCommand(s) ==
  /\ calls[s] \in {"last", "done"} /\ calls' = [calls EXCEPT ![s] = None]
  /\ IF calls[s] = "last" /\ ~InstanceAllowed(instance, "succeeded")
     THEN UNCHANGED <<instance, steps, commands>>
     ELSE /\ commands' = [commands EXCEPT ![steps[s].command] = "succeeded"]
          /\ steps' = [steps EXCEPT ![s].state = "succeeded"]
          /\ instance' = IF calls[s] = "last" THEN "succeeded" ELSE instance
  /\ UNCHANGED undone

FailCommand(s) ==
  /\ Unlocked(s) /\ steps[s] # Absent /\ commands[steps[s].command] = "pending"
  /\ StepAllowed(steps[s].state, "failed")
  /\ commands' = [commands EXCEPT ![steps[s].command] = "failed"]
  /\ steps' = [steps EXCEPT ![s].state = "failed"]
  /\ UNCHANGED <<instance, calls, undone>>

\* Mutation: every step that was started is compensated.
UndoableStarted == {s \in Steps : steps[s].state \in {"running", "succeeded"}}

Undoable == {s \in Steps : steps[s].state = "succeeded" /\ steps[s].compensation # "completed"}

\* With nothing left to compensate the workflow has failed at once.
BeginCompensation ==
  /\ InstanceAllowed(instance, "compensating")
  /\ instance' = IF Undoable = {} THEN "failed" ELSE "compensating"
  /\ steps' = [s \in Steps |-> IF s \in Undoable
       THEN [steps[s] EXCEPT !.state = "compensating", !.compensation = "pending"] ELSE steps[s]]
  /\ undone' = [s \in Steps |-> IF s \in Undoable THEN undone[s] + 1 ELSE undone[s]]
  /\ UNCHANGED <<commands, calls>>

\* CompleteCompensation up to the count; calling it again is accepted.
CountCompensating(s) ==
  /\ Unlocked(s) /\ StepAllowed(steps[s].state, "compensated")
  /\ calls' = [calls EXCEPT ![s] =
       IF \E r \in Steps \ {s} : steps[r].state = "compensating" THEN "undone" ELSE "undone last"]
  /\ UNCHANGED <<instance, steps, commands, undone>>

CompleteCompensation(s) ==
  /\ calls[s] \in {"undone", "undone last"} /\ calls' = [calls EXCEPT ![s] = None]
  /\ IF calls[s] = "undone last" /\ ~InstanceAllowed(instance, "failed")
     THEN UNCHANGED <<instance, steps>>
     ELSE /\ steps' = [steps EXCEPT ![s].state = "compensated", ![s].compensation = "completed"]
          /\ instance' = IF calls[s] = "undone last" THEN "failed" ELSE instance
  /\ UNCHANGED <<commands, undone>>

Next ==
  \/ Begin \/ BeginCompensation
  \/ \E s \in Steps :
       \/ \E c \in Commands : StartStep(s, c)
       \/ CountRemaining(s) \/ CompleteCommand(s) \/ FailCommand(s)
       \/ CountCompensating(s) \/ CompleteCompensation(s)

-----------------------------------------------------------------------------

\* Compensation undoes what happened, and no more: a workflow that succeeded
\* has no step that was or will be undone; a step is handed out for
\* compensation once, and only after its command succeeded.
CompensationSound ==
  \A s \in Steps :
    /\ instance = "succeeded" => steps[s].state \notin {"compensating", "compensated"}
    /\ undone[s] <= 1
    /\ undone[s] > 0 => commands[steps[s].command] = "succeeded"
=============================================================================
