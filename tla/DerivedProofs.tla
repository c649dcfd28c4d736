--------------------------- MODULE DerivedProofs ----------------------------
(***************************************************************************)
(* Proofs about what is derived from an object's content: the versions of  *)
(* its document (Documents), its thumbnail (Thumbnails), the entries of    *)
(* the index (ContentIndex) and the generations of the index (Generations),*)
(* the way in (Parsing) and the way out (Answering), and about Workflow,   *)
(* for any number of workers, of lives of the object, of steps, of pages   *)
(* and of faults.  The components are parts of one suite (MCDerived), so a *)
(* theorem is about the suite's behaviours.                                *)
(*                                                                         *)
(* A document has one building version, its newest: an indexer that has    *)
(* lost it finds its version ended.  An attempt at a thumbnail that still  *)
(* owns its removal was never claimed by a cleaner, so its bytes are there *)
(* and nobody else works on it, and what a collector has listed was        *)
(* published in a life that is over.  A step of a workflow is undone only  *)
(* after it succeeded, and its row lock makes that happen once.  What the  *)
(* index serves is what the object's current state says, or an event on    *)
(* its way corrects it.  A generation is ready only with every page copied,*)
(* and the locks of an activation keep its members as it found them.  The  *)
(* failures of a parser are classified to the same verdict on every way.   *)
(* Of two candidates the one that both recalls prefer is fused first, and  *)
(* a candidate is kept from the evidence only by a limit that is reached.  *)
(***************************************************************************)
EXTENDS MCDerived, TLAPS, FiniteSetTheorems

-----------------------------------------------------------------------------
(* Workflow *)

InstanceStates == {"absent", "pending", "running", "succeeded", "compensating", "failed"}
StepStates == {"absent", "running", "succeeded", "failed", "compensating", "compensated"}
CommandStates == {"absent", "pending", "succeeded", "failed"}
Undone == {"compensating", "compensated"}
StepRow == [command : Commands \cup {Wf!None}, state : StepStates,
            compensation : {"not_required", "pending", "completed"}]

WorkflowTypeOK ==
  /\ instance \in InstanceStates /\ steps \in [Steps -> StepRow]
  /\ commands \in [Commands -> CommandStates]
  /\ calls \in [Steps -> {Wf!None, "last", "done", "undone", "undone last"}]
  /\ undone \in [Steps -> Nat]

\* What a step's state says of its command, and what the open transaction on the
\* step found when it took the row lock.
StepOK(s) ==
  /\ steps[s].state = "absent" => steps[s] = Wf!Absent
  /\ steps[s].state # "absent" => steps[s].command \in Commands /\ commands[steps[s].command] # "absent"
  /\ steps[s].state \in {"succeeded"} \cup Undone => commands[steps[s].command] = "succeeded"
  /\ calls[s] \in {"last", "done"} => steps[s].state = "running" /\ commands[steps[s].command] = "pending"
  /\ calls[s] \in {"undone", "undone last"} => steps[s].state \in Undone
  /\ undone[s] = IF steps[s].state \in Undone THEN 1 ELSE 0
  /\ steps[s].state \in Undone => instance \in {"compensating", "failed"}

\* A command belongs to one step.
OwnCommands ==
  \A r, s \in Steps : steps[r].state # "absent" /\ steps[s].state # "absent"
                      /\ steps[r].command = steps[s].command => r = s

WorkflowInv == WorkflowTypeOK /\ OwnCommands /\ \A s \in Steps : StepOK(s)

LEMMA WorkflowInit == Wf!Init => WorkflowInv
<1> SUFFICES ASSUME Wf!Init PROVE WorkflowInv
  OBVIOUS
<1> USE DEF Wf!Init, Wf!Absent, Wf!None, Undone
<1>1. WorkflowTypeOK
  BY DEF WorkflowTypeOK, InstanceStates, StepRow, StepStates, CommandStates
<1>2. OwnCommands /\ \A s \in Steps : StepOK(s)
  BY DEF OwnCommands, StepOK
<1> QED BY <1>1, <1>2 DEF WorkflowInv

LEMMA WorkflowFields ==
  ASSUME WorkflowTypeOK, NEW s \in Steps
  PROVE  /\ steps[s] \in StepRow /\ steps[s].state \in StepStates
         /\ steps[s].command \in Commands \cup {Wf!None}
         /\ steps[s].compensation \in {"not_required", "pending", "completed"}
         /\ undone[s] \in Nat
  BY DEF WorkflowTypeOK, StepRow

LEMMA WorkflowBegin ==
  ASSUME WorkflowInv, Wf!Begin PROVE WorkflowInv'
<1>1. instance = "absent" /\ instance' = "pending" /\ UNCHANGED <<steps, commands, calls, undone>>
  BY DEF Wf!Begin
<1>2. WorkflowTypeOK'
  BY <1>1 DEF WorkflowInv, WorkflowTypeOK, InstanceStates
<1>3. OwnCommands'
  BY <1>1 DEF WorkflowInv, OwnCommands
<1>4. \A s \in Steps : StepOK(s)'
  BY <1>1 DEF WorkflowInv, StepOK
<1> QED BY <1>2, <1>3, <1>4 DEF WorkflowInv

LEMMA WorkflowStart ==
  ASSUME WorkflowInv, NEW s \in Steps, NEW c \in Commands, Wf!StartStep(s, c)
  PROVE  WorkflowInv'
<1> DEFINE new == [Wf!Absent EXCEPT !.command = c, !.state = "running"]
           starts == commands[c] = "absent" /\ steps[s] = Wf!Absent
<1>1. /\ instance \in {"pending", "running"} /\ instance' = "running"
      /\ calls' = calls /\ undone' = undone
      /\ commands' = [commands EXCEPT ![c] = IF @ = "absent" THEN "pending" ELSE @]
      /\ steps' = [steps EXCEPT ![s] = IF starts THEN new ELSE steps[s]]
  <2>2. steps' = [steps EXCEPT ![s] = IF starts THEN new ELSE steps[s]]
    BY DEF Wf!StartStep, WorkflowInv, WorkflowTypeOK
  <2>3. instance \in {"pending", "running"}
    BY DEF Wf!StartStep, Wf!InstanceAllowed, WorkflowInv, WorkflowTypeOK, InstanceStates
  <2> QED BY <2>2, <2>3 DEF Wf!StartStep
<1>2. new \in StepRow
  BY DEF StepRow, StepStates, Wf!Absent
<1>3. /\ new.state = "running" /\ new.command = c
      /\ Wf!Absent.state = "absent"
  BY DEF Wf!Absent
<1> HIDE DEF new
<1>4. \A r \in Steps : steps'[r] = IF r = s /\ starts THEN new ELSE steps[r]
  BY <1>1 DEF WorkflowInv, WorkflowTypeOK
<1>5. \A d \in Commands : commands'[d] = IF commands[d] = "absent" /\ d = c THEN "pending" ELSE commands[d]
  BY <1>1 DEF WorkflowInv, WorkflowTypeOK
<1>6. WorkflowTypeOK'
  BY <1>1, <1>2 DEF WorkflowInv, WorkflowTypeOK, InstanceStates, CommandStates
<1>7. ASSUME NEW r \in Steps PROVE StepOK(r)'
  <2>1. StepOK(r)
    BY DEF WorkflowInv
  <2>2. CASE r = s /\ starts
    <3>1. steps'[r].state = "running" /\ steps'[r].command = c /\ commands'[c] = "pending"
      BY <1>3, <1>4, <1>5, <2>2
    <3>2. calls[r] \notin {"last", "done", "undone", "undone last"} /\ undone[r] = 0
      BY <2>1, <2>2, <1>3 DEF StepOK, Undone
    <3> QED BY <3>1, <3>2, <1>1 DEF StepOK, Undone
  <2>3. CASE ~(r = s /\ starts)
    <3>1. steps'[r] = steps[r]
      BY <1>4, <2>3
    <3>2. steps[r].state # "absent" => commands'[steps[r].command] = commands[steps[r].command]
      BY <1>5, <2>1 DEF StepOK
    <3> QED BY <2>1, <3>1, <3>2, <1>1 DEF StepOK, Undone
  <2> QED BY <2>2, <2>3
<1>8. OwnCommands'
  <2> SUFFICES ASSUME NEW q \in Steps, NEW r \in Steps, steps'[q].state # "absent",
                      steps'[r].state # "absent", steps'[q].command = steps'[r].command
               PROVE  q = r
    BY DEF OwnCommands
  <2>1. \A t \in Steps : steps[t].state # "absent" => commands[steps[t].command] # "absent"
    BY DEF WorkflowInv, StepOK
  <2> QED BY <2>1, <1>3, <1>4 DEF WorkflowInv, OwnCommands
<1> QED BY <1>6, <1>7, <1>8 DEF WorkflowInv

\* A transaction that has counted holds the row.
LEMMA WorkflowCounts ==
  ASSUME WorkflowInv, NEW s \in Steps, Wf!CountRemaining(s) \/ Wf!CountCompensating(s)
  PROVE  WorkflowInv'
<1>1. /\ UNCHANGED <<instance, steps, commands, undone>>
      /\ \E found \in {"last", "done", "undone", "undone last"} :
           /\ calls' = [calls EXCEPT ![s] = found]
           /\ found \in {"last", "done"} => steps[s].state = "running" /\ commands[steps[s].command] = "pending"
           /\ found \in {"undone", "undone last"} => steps[s].state \in Undone
  <2>1. StepOK(s) /\ steps[s].state \in StepStates
    BY WorkflowFields DEF WorkflowInv
  <2>2. CASE Wf!CountRemaining(s)
    <3>1. steps[s].state \in {"running", "succeeded"} /\ commands[steps[s].command] = "pending"
      BY <2>1, <2>2 DEF Wf!CountRemaining, Wf!StepAllowed, StepStates
    <3>2. steps[s].state = "running"
      BY <2>1, <3>1 DEF StepOK
    <3> QED BY <2>2, <3>1, <3>2 DEF Wf!CountRemaining
  <2>3. CASE Wf!CountCompensating(s)
    <3>1. steps[s].state \in Undone
      BY <2>1, <2>3 DEF Wf!CountCompensating, Wf!StepAllowed, StepStates, Undone
    <3> QED BY <2>3, <3>1 DEF Wf!CountCompensating
  <2> QED BY <2>2, <2>3
<1>2. WorkflowTypeOK'
  BY <1>1 DEF WorkflowInv, WorkflowTypeOK
<1>3. OwnCommands'
  BY <1>1 DEF WorkflowInv, OwnCommands
<1>4. \A r \in Steps : StepOK(r)'
  BY <1>1 DEF WorkflowInv, WorkflowTypeOK, StepOK
<1> QED BY <1>2, <1>3, <1>4 DEF WorkflowInv

LEMMA WorkflowCompletes ==
  ASSUME WorkflowInv, NEW s \in Steps, Wf!CompleteCommand(s)
  PROVE  WorkflowInv'
<1> DEFINE rolledBack == calls[s] = "last" /\ ~Wf!InstanceAllowed(instance, "succeeded")
           new == [steps[s] EXCEPT !.state = "succeeded"]
<1>1. /\ steps[s].state = "running" /\ steps[s].command \in Commands /\ steps[s] \in StepRow
      /\ commands[steps[s].command] = "pending" /\ undone[s] = 0
  BY WorkflowFields DEF WorkflowInv, StepOK, Wf!CompleteCommand, Undone
<1>2. calls' = [calls EXCEPT ![s] = Wf!None] /\ undone' = undone
  BY DEF Wf!CompleteCommand
<1>3. \A r \in Steps : calls'[r] = IF r = s THEN Wf!None ELSE calls[r]
  BY <1>2 DEF WorkflowInv, WorkflowTypeOK
<1>4. Wf!None \notin {"last", "done", "undone", "undone last"}
  BY DEF Wf!None
<1>5. CASE rolledBack
  <2>1. UNCHANGED <<instance, steps, commands>>
    BY <1>5 DEF Wf!CompleteCommand
  <2>2. WorkflowTypeOK'
    BY <1>2, <2>1 DEF WorkflowInv, WorkflowTypeOK
  <2>3. OwnCommands'
    BY <2>1 DEF WorkflowInv, OwnCommands
  <2>4. \A r \in Steps : StepOK(r)'
    BY <1>2, <1>3, <1>4, <2>1 DEF WorkflowInv, StepOK
  <2> QED BY <2>2, <2>3, <2>4 DEF WorkflowInv
<1>6. CASE ~rolledBack
  <2>1. /\ commands' = [commands EXCEPT ![steps[s].command] = "succeeded"]
        /\ steps' = [steps EXCEPT ![s] = new]
        /\ instance' \in {instance, "succeeded"}
        /\ instance' # instance => instance = "running"
    <3>1. instance \in InstanceStates
      BY DEF WorkflowInv, WorkflowTypeOK
    <3>2. steps' = [steps EXCEPT ![s].state = "succeeded"]
      BY <1>6 DEF Wf!CompleteCommand
    <3>3. steps' = [steps EXCEPT ![s] = new]
      BY <3>2
    <3>4. /\ commands' = [commands EXCEPT ![steps[s].command] = "succeeded"]
          /\ instance' = IF calls[s] = "last" THEN "succeeded" ELSE instance
      BY <1>6 DEF Wf!CompleteCommand
    <3>5. calls[s] = "last" => instance \in {"running", "succeeded"}
      BY <1>6, <3>1 DEF Wf!InstanceAllowed, InstanceStates
    <3> QED BY <3>3, <3>4, <3>5
  <2>2. new \in StepRow /\ new.state = "succeeded" /\ new.command = steps[s].command
    BY <1>1 DEF StepRow, StepStates
  <2> HIDE DEF new
  <2>3. \A r \in Steps : steps'[r] = IF r = s THEN new ELSE steps[r]
    BY <2>1 DEF WorkflowInv, WorkflowTypeOK
  <2>4. \A d \in Commands : commands'[d] = IF d = steps[s].command THEN "succeeded" ELSE commands[d]
    BY <2>1 DEF WorkflowInv, WorkflowTypeOK
  <2>5. WorkflowTypeOK'
    BY <1>2, <2>1, <2>2 DEF WorkflowInv, WorkflowTypeOK, InstanceStates, CommandStates
  <2>6. OwnCommands'
    BY <1>1, <2>2, <2>3 DEF WorkflowInv, OwnCommands
  <2>7. ASSUME NEW r \in Steps PROVE StepOK(r)'
    <3>1. CASE r = s
      BY <1>1, <1>2, <1>3, <1>4, <2>2, <2>3, <2>4, <3>1 DEF StepOK, Undone
    <3>2. CASE r # s
      <4>1. steps'[r] = steps[r] /\ calls'[r] = calls[r] /\ StepOK(r)
        BY <1>3, <2>3, <3>2 DEF WorkflowInv
      <4>2. steps[r].state # "absent" => commands'[steps[r].command] = commands[steps[r].command]
        BY <1>1, <2>4, <3>2, <4>1 DEF WorkflowInv, OwnCommands, StepOK
      <4>3. steps[r].state \in Undone => instance' = instance
        BY <2>1, <4>1 DEF StepOK
      <4> QED BY <1>2, <4>1, <4>2, <4>3 DEF StepOK, Undone
    <3> QED BY <3>1, <3>2
  <2> QED BY <2>5, <2>6, <2>7 DEF WorkflowInv
<1> QED BY <1>5, <1>6

LEMMA WorkflowFails ==
  ASSUME WorkflowInv, NEW s \in Steps, Wf!FailCommand(s)
  PROVE  WorkflowInv'
<1> DEFINE new == [steps[s] EXCEPT !.state = "failed"]
<1>1. /\ steps[s].state \notin {"absent", "succeeded"} \cup Undone /\ steps[s].command \in Commands
      /\ steps[s] \in StepRow /\ calls[s] = Wf!None /\ undone[s] = 0
  <2>1. steps[s] \in StepRow /\ StepOK(s) /\ steps[s] # Wf!Absent /\ commands[steps[s].command] = "pending"
    BY WorkflowFields DEF WorkflowInv, Wf!FailCommand
  <2>2. steps[s].state \notin {"absent", "succeeded"} \cup Undone
    BY <2>1 DEF StepOK, Undone
  <2> QED BY <2>1, <2>2 DEF StepOK, Wf!FailCommand, Wf!Unlocked
<1>2. /\ commands' = [commands EXCEPT ![steps[s].command] = "failed"]
      /\ steps' = [steps EXCEPT ![s] = new] /\ UNCHANGED <<instance, calls, undone>>
  BY DEF Wf!FailCommand
<1>3. new \in StepRow /\ new.state = "failed" /\ new.command = steps[s].command
  BY <1>1 DEF StepRow, StepStates
<1> HIDE DEF new
<1>4. \A r \in Steps : steps'[r] = IF r = s THEN new ELSE steps[r]
  BY <1>2 DEF WorkflowInv, WorkflowTypeOK
<1>5. \A d \in Commands : commands'[d] = IF d = steps[s].command THEN "failed" ELSE commands[d]
  BY <1>2 DEF WorkflowInv, WorkflowTypeOK
<1>6. WorkflowTypeOK'
  BY <1>2, <1>3 DEF WorkflowInv, WorkflowTypeOK, CommandStates
<1>7. OwnCommands'
  BY <1>1, <1>3, <1>4 DEF WorkflowInv, OwnCommands
<1>8. ASSUME NEW r \in Steps PROVE StepOK(r)'
  <2>1. CASE r = s
    <3>1. calls[s] \notin {"last", "done", "undone", "undone last"}
      BY <1>1 DEF Wf!None
    <3> QED BY <1>1, <1>2, <1>3, <1>4, <1>5, <2>1, <3>1 DEF StepOK, Undone
  <2>2. CASE r # s
    <3>1. steps'[r] = steps[r] /\ StepOK(r)
      BY <1>4, <2>2 DEF WorkflowInv
    <3>2. steps[r].state # "absent" => commands'[steps[r].command] = commands[steps[r].command]
      BY <1>1, <1>5, <2>2, <3>1 DEF WorkflowInv, OwnCommands, StepOK
    <3> QED BY <1>2, <3>1, <3>2 DEF StepOK, Undone
  <2> QED BY <2>1, <2>2
<1> QED BY <1>6, <1>7, <1>8 DEF WorkflowInv

LEMMA WorkflowCompensates ==
  ASSUME WorkflowInv, Wf!BeginCompensation
  PROVE  WorkflowInv'
<1> DEFINE new(s) == [steps[s] EXCEPT !.state = "compensating", !.compensation = "pending"]
<1>1. instance' \in {"failed", "compensating"} /\ UNCHANGED <<commands, calls>>
  BY DEF Wf!BeginCompensation
<1>2. \A s \in Steps : /\ steps'[s] = IF s \in Wf!Undoable THEN new(s) ELSE steps[s]
                       /\ undone'[s] = IF s \in Wf!Undoable THEN undone[s] + 1 ELSE undone[s]
  BY DEF Wf!BeginCompensation
<1>3. \A s \in Steps : /\ new(s) \in StepRow /\ new(s).state = "compensating" /\ new(s).command = steps[s].command
                       /\ steps[s] \in StepRow /\ undone[s] \in Nat
  BY WorkflowFields DEF WorkflowInv, StepRow, StepStates
<1> HIDE DEF new
<1>4. WorkflowTypeOK'
  <2>1. steps' \in [Steps -> StepRow]
    BY <1>3 DEF Wf!BeginCompensation, new
  <2>2. undone' \in [Steps -> Nat]
    <3>1. undone' = [s \in Steps |-> IF s \in Wf!Undoable THEN undone[s] + 1 ELSE undone[s]]
      BY DEF Wf!BeginCompensation
    <3>2. \A s \in Steps : undone[s] + 1 \in Nat
      BY <1>3
    <3> QED BY <1>3, <3>1, <3>2
  <2> QED BY <1>1, <2>1, <2>2 DEF WorkflowInv, WorkflowTypeOK, InstanceStates
<1>5. \A s \in Wf!Undoable : steps[s].state = "succeeded"
  BY DEF Wf!Undoable
<1>6. OwnCommands'
  BY <1>2, <1>3, <1>5 DEF WorkflowInv, OwnCommands
<1>7. ASSUME NEW s \in Steps PROVE StepOK(s)'
  <2>1. CASE s \in Wf!Undoable
    <3>1. steps'[s].state = "compensating" /\ steps'[s].command = steps[s].command /\ steps[s].state = "succeeded"
      BY <1>2, <1>3, <1>5, <2>1
    <3>2. StepOK(s) /\ undone[s] = 0
      BY <3>1 DEF WorkflowInv, StepOK, Undone
    <3>3. undone'[s] = 1
      BY <1>2, <2>1, <3>2
    <3> QED BY <1>1, <3>1, <3>2, <3>3 DEF StepOK, Undone
  <2>2. CASE s \notin Wf!Undoable
    BY <1>1, <1>2, <2>2 DEF WorkflowInv, StepOK, Undone
  <2> QED BY <2>1, <2>2
<1> QED BY <1>4, <1>6, <1>7 DEF WorkflowInv

LEMMA WorkflowUndoes ==
  ASSUME WorkflowInv, NEW s \in Steps, Wf!CompleteCompensation(s)
  PROVE  WorkflowInv'
<1> DEFINE new == [steps[s] EXCEPT !.state = "compensated", !.compensation = "completed"]
<1>1. /\ steps[s].state \in Undone /\ steps[s] \in StepRow
      /\ instance \in {"compensating", "failed"}
  BY WorkflowFields DEF WorkflowInv, StepOK, Wf!CompleteCompensation
<1>2. calls' = [calls EXCEPT ![s] = Wf!None] /\ UNCHANGED <<commands, undone>>
  BY DEF Wf!CompleteCompensation
<1>3. \A r \in Steps : calls'[r] = IF r = s THEN Wf!None ELSE calls[r]
  BY <1>2 DEF WorkflowInv, WorkflowTypeOK
<1>4. Wf!None \notin {"last", "done", "undone", "undone last"}
  BY DEF Wf!None
<1>5. new \in StepRow /\ new.state = "compensated" /\ new.command = steps[s].command
  BY <1>1 DEF StepRow, StepStates
<1>6. steps' \in {steps, [steps EXCEPT ![s] = new]} /\ instance' \in {instance, "failed"}
  BY DEF Wf!CompleteCompensation
<1> HIDE DEF new
<1>7. \A r \in Steps : steps'[r] = steps[r] \/ (r = s /\ steps'[r] = new)
  BY <1>6 DEF WorkflowInv, WorkflowTypeOK
<1>8. WorkflowTypeOK'
  BY <1>2, <1>5, <1>6 DEF WorkflowInv, WorkflowTypeOK, InstanceStates
<1>9. OwnCommands'
  BY <1>1, <1>5, <1>7 DEF WorkflowInv, OwnCommands, Undone
<1>10. ASSUME NEW r \in Steps PROVE StepOK(r)'
  <2>1. StepOK(r) /\ instance' \in {"compensating", "failed"}
    BY <1>1, <1>6 DEF WorkflowInv
  <2>2. CASE steps'[r] = steps[r]
    BY <1>2, <1>3, <1>4, <2>1, <2>2 DEF StepOK, Undone
  <2>3. CASE r = s /\ steps'[r] = new
    BY <1>1, <1>2, <1>3, <1>4, <1>5, <2>1, <2>3 DEF StepOK, Undone
  <2> QED BY <1>7, <2>2, <2>3
<1> QED BY <1>8, <1>9, <1>10 DEF WorkflowInv

LEMMA WorkflowStep == WorkflowInv /\ [Wf!Next]_workflowVars => WorkflowInv'
<1> SUFFICES ASSUME WorkflowInv, [Wf!Next]_workflowVars PROVE WorkflowInv'
  OBVIOUS
<1>1. CASE UNCHANGED workflowVars
  <2>1. WorkflowTypeOK' /\ OwnCommands'
    BY <1>1 DEF WorkflowInv, WorkflowTypeOK, OwnCommands, workflowVars
  <2>2. \A s \in Steps : StepOK(s)'
    BY <1>1 DEF WorkflowInv, StepOK, workflowVars
  <2> QED BY <2>1, <2>2 DEF WorkflowInv
<1> QED BY <1>1, WorkflowBegin, WorkflowStart, WorkflowCounts, WorkflowCompletes, WorkflowFails,
           WorkflowCompensates, WorkflowUndoes DEF Wf!Next

LEMMA WorkflowSound == WorkflowInv => Wf!CompensationSound
<1> SUFFICES ASSUME WorkflowInv, NEW s \in Steps
             PROVE  /\ instance = "succeeded" => steps[s].state \notin {"compensating", "compensated"}
                    /\ undone[s] <= 1
                    /\ undone[s] > 0 => commands[steps[s].command] = "succeeded"
  BY DEF Wf!CompensationSound
<1>1. StepOK(s)
  BY DEF WorkflowInv
<1>2. CASE steps[s].state \in Undone
  <2>1. undone[s] = 1 /\ commands[steps[s].command] = "succeeded" /\ instance # "succeeded"
    BY <1>1, <1>2 DEF StepOK, Undone
  <2> QED BY <2>1
<1>3. CASE steps[s].state \notin Undone
  <2>1. undone[s] = 0 /\ steps[s].state \notin {"compensating", "compensated"}
    BY <1>1, <1>3 DEF StepOK, Undone
  <2> QED BY <2>1
<1> QED BY <1>2, <1>3

-----------------------------------------------------------------------------
(* Documents *)

Working == {"read", "parse", "touch", "embed", "commit", "unsupported", "fail", "summary"}
Late == {"parse", "touch", "embed", "commit"}
VersionRow == [status : {"unmade", "building", "indexed", "failed", "unsupported", "gone"},
               retired : BOOLEAN, lease : {"none", "valid", "expired"}]
DocumentRow == [id : Nat, active : Nat,
                status : {"none", "processing", "indexed", "unsupported", "failed"}]
IndexerRow == [at : {"idle", "get", "start", "report"} \cup Working, force : BOOLEAN, task : BOOLEAN,
               life : Nat, doc : DocumentRow, version : Nat, failed : BOOLEAN]

DocumentTypeOK ==
  /\ object \in [status : {"ready", "deleting", "deleted"}, life : Nat, bytes : BOOLEAN]
  /\ document \in DocumentRow /\ versions \in [Doc!Numbers -> VersionRow]
  /\ indexer \in [Indexers -> IndexerRow]

\* Versions are made in order, and only the newest is under construction.
Newest(n) == Doc!Made = 1 .. n /\ \A v \in Doc!With("building") : v = n
VersionsInv == \E n \in 0 .. DocumentVersions : Newest(n)

\* A version needs a document, and a deleted object has no bytes to index.
RowsInv ==
  /\ document.id = 0 => document.active = 0 /\ Doc!With("building") = {}
  /\ object.status = "deleted" => ~object.bytes

\* An indexer works on a version that was made.  If the object was deleted since,
\* then so was the version, unless the bytes were not read.
IndexerOK(i) ==
  indexer[i].at \in Working =>
    /\ indexer[i].version \in Doc!Made
    /\ object.status = "deleted" /\ indexer[i].at \in Late => ~Doc!Holds(i)

DocumentInv ==
  /\ DocumentTypeOK /\ VersionsInv /\ RowsInv /\ \A i \in Indexers : IndexerOK(i)
  /\ Doc!ActiveVersionFenced /\ Doc!SummaryKeepsIndex

LEMMA DocumentInit == Doc!Init => DocumentInv
<1> SUFFICES ASSUME Doc!Init PROVE DocumentInv
  OBVIOUS
<1> USE DEF Doc!Init, Doc!NoDocument, Doc!Unmade, Doc!Idle, Doc!NoVersion, Doc!With, Doc!Made
<1>1. DocumentTypeOK
  BY DEF DocumentTypeOK, DocumentRow, VersionRow, IndexerRow
<1>2. VersionsInv
  BY DerivedConstants DEF VersionsInv, Newest
<1>3. RowsInv /\ \A i \in Indexers : IndexerOK(i)
  BY DEF RowsInv, IndexerOK, Working
<1>4. Doc!ActiveVersionFenced /\ Doc!SummaryKeepsIndex
  BY DEF Doc!ActiveVersionFenced, Doc!SummaryKeepsIndex
<1> QED BY <1>1, <1>2, <1>3, <1>4 DEF DocumentInv

LEMMA IndexerFields ==
  ASSUME DocumentTypeOK, NEW i \in Indexers
  PROVE  /\ indexer[i] \in IndexerRow /\ indexer[i].version \in Nat
         /\ indexer[i].at \in {"idle", "get", "start", "report"} \cup Working
  BY DEF DocumentTypeOK, IndexerRow

\* Indexer i goes to another place, and to no other version.
Moves(i, places) ==
  /\ indexer' \in [Indexers -> IndexerRow]
  /\ \A j \in Indexers : /\ indexer'[j].version = indexer[j].version \/ indexer'[j].at \notin Working
                         /\ IF j = i THEN indexer'[j].at \in places ELSE indexer'[j] = indexer[j]

LEMMA Going ==
  ASSUME DocumentTypeOK, NEW i \in Indexers, NEW at \in {"get", "start", "report"} \cup Working, Doc!Go(i, at)
  PROVE  Moves(i, {at})
<1> DEFINE r == [indexer[i] EXCEPT !.at = at]
<1>1. r \in IndexerRow /\ r.at = at /\ r.version = indexer[i].version
  BY IndexerFields DEF IndexerRow
<1>2. indexer' = [indexer EXCEPT ![i] = r]
  BY DEF Doc!Go
<1> HIDE DEF r
<1> QED BY <1>1, <1>2 DEF Moves, DocumentTypeOK

LEMMA Ending ==
  ASSUME DocumentTypeOK, NEW i \in Indexers, NEW failed \in BOOLEAN, Doc!End(i, failed)
  PROVE  Moves(i, {"report", "idle"})
<1> DEFINE r == IF indexer[i].task THEN [indexer[i] EXCEPT !.at = "report", !.failed = failed] ELSE Doc!Idle
<1>1. [indexer[i] EXCEPT !.at = "report", !.failed = failed] \in IndexerRow
  BY IndexerFields DEF IndexerRow
<1>2. [indexer[i] EXCEPT !.at = "report", !.failed = failed].at = "report"
  BY IndexerFields DEF IndexerRow
<1>3. Doc!Idle \in IndexerRow /\ Doc!Idle.at = "idle"
  BY DEF Doc!Idle, IndexerRow, Doc!NoDocument, DocumentRow, Doc!NoVersion
<1>4. r \in IndexerRow /\ r.at \in {"report", "idle"}
  BY <1>1, <1>2, <1>3
<1>5. indexer' = [indexer EXCEPT ![i] = r]
  BY DEF Doc!End
<1> HIDE DEF r
<1> QED BY <1>4, <1>5 DEF Moves, DocumentTypeOK, Working

\* A step that writes neither document nor versions, and by which nobody gets to
\* read bytes that are gone.
LEMMA IndexerMoves ==
  ASSUME DocumentInv, UNCHANGED <<object, document, versions>>,
         NEW i \in Indexers, NEW places, Moves(i, places),
         indexer[i].at \notin Working => places \cap Working = {},
         indexer[i].at \in Late \/ places \cap Late = {} \/ object.bytes
  PROVE  DocumentInv'
<1> USE DEF DocumentInv, Moves
<1>1. DocumentTypeOK'
  BY DEF DocumentTypeOK
<1>2. VersionsInv' /\ RowsInv'
  BY DEF VersionsInv, Newest, RowsInv, Doc!Made, Doc!With
<1>3. Doc!ActiveVersionFenced' /\ Doc!SummaryKeepsIndex'
  BY DEF Doc!ActiveVersionFenced, Doc!SummaryKeepsIndex, Doc!With
<1>4. ASSUME NEW j \in Indexers PROVE IndexerOK(j)'
  <2>1. IndexerOK(j) /\ Doc!Made' = Doc!Made
    BY DEF Doc!Made
  <2>2. CASE j # i
    BY <2>1, <2>2 DEF IndexerOK, Doc!Holds
  <2>3. CASE j = i /\ indexer'[i].at \in Working
    <3>1. indexer[i].at \in Working /\ indexer'[i].version = indexer[i].version
      BY <2>3
    <3>2. object.status = "deleted" /\ indexer'[i].at \in Late => indexer[i].at \in Late
      BY <2>3 DEF RowsInv
    <3> QED BY <2>1, <2>3, <3>1, <3>2 DEF IndexerOK, Doc!Holds
  <2>4. CASE j = i /\ indexer'[i].at \notin Working
    BY <2>4 DEF IndexerOK
  <2> QED BY <2>2, <2>3, <2>4
<1> QED BY <1>1, <1>2, <1>3, <1>4

\* What an indexer does without writing versions or document.
LEMMA DeliveryKeepsInv ==
  ASSUME DocumentInv, NEW i \in Indexers,
         Doc!IndexRequested(i) \/ Doc!ProcessTask(i) \/ Doc!ReportTask(i) \/ Doc!GetObject(i) \/ Doc!Crash(i)
  PROVE  DocumentInv'
<1> DEFINE Places == {"idle", "get", "start", "report"}
<1>1. UNCHANGED <<object, document, versions>>
  BY DEF Doc!IndexRequested, Doc!ProcessTask, Doc!ReportTask, Doc!GetObject, Doc!Crash
<1>2. Doc!Idle \in IndexerRow /\ Doc!Idle.at = "idle"
  BY DEF Doc!Idle, IndexerRow, Doc!NoDocument, DocumentRow, Doc!NoVersion
<1>3. Moves(i, Places)
  <2>1. CASE Doc!IndexRequested(i)
    BY <2>1, Going DEF Doc!IndexRequested, Moves, DocumentInv
  <2>2. CASE Doc!ProcessTask(i)
    <3> DEFINE r == [Doc!Idle EXCEPT !.at = "get", !.force = TRUE, !.task = TRUE]
    <3>1. r \in IndexerRow /\ r.at = "get"
      BY <1>2 DEF IndexerRow
    <3>2. indexer' = [indexer EXCEPT ![i] = r]
      BY <2>2 DEF Doc!ProcessTask
    <3> HIDE DEF r
    <3> QED BY <3>1, <3>2 DEF Moves, DocumentInv, DocumentTypeOK, Working
  <2>3. CASE Doc!ReportTask(i) \/ Doc!Crash(i)
    <3>1. indexer' = [indexer EXCEPT ![i] = Doc!Idle]
      BY <2>3 DEF Doc!ReportTask, Doc!Crash
    <3> QED BY <1>2, <3>1 DEF Moves, DocumentInv, DocumentTypeOK, Working
  <2>4. CASE Doc!GetObject(i)
    <3> DEFINE r == [indexer[i] EXCEPT !.at = "start", !.life = object.life]
    <3>1. r \in IndexerRow /\ r.at = "start"
      BY IndexerFields DEF IndexerRow, DocumentInv, DocumentTypeOK
    <3>2. indexer' = [indexer EXCEPT ![i] = r] \/ Doc!End(i, TRUE)
      BY <2>4 DEF Doc!GetObject
    <3> HIDE DEF r
    <3>3. CASE indexer' = [indexer EXCEPT ![i] = r]
      BY <3>1, <3>3 DEF Moves, DocumentInv, DocumentTypeOK, Working
    <3>4. CASE Doc!End(i, TRUE)
      BY <3>4, Ending DEF Moves, DocumentInv
    <3> QED BY <3>2, <3>3, <3>4
  <2> QED BY <2>1, <2>2, <2>3, <2>4
<1> QED BY <1>1, <1>3, IndexerMoves DEF Late, Working

LEMMA RunKeepsInv ==
  ASSUME DocumentInv, NEW i \in Indexers,
         Doc!ReadObject(i) \/ Doc!Parse(i) \/ Doc!TouchDocumentVersion(i) \/ Doc!EmbedFails(i)
  PROVE  DocumentInv'
<1>1. UNCHANGED <<object, document, versions>>
  BY DEF Doc!ReadObject, Doc!Parse, Doc!TouchDocumentVersion, Doc!EmbedFails
<1>2. PICK at \in Working : /\ Doc!Go(i, at) /\ indexer[i].at \in Working
                            /\ indexer[i].at \in Late \/ at \notin Late \/ object.bytes
  BY DEF Doc!ReadObject, Doc!Parse, Doc!TouchDocumentVersion, Doc!EmbedFails, Working, Late
<1>3. Moves(i, {at})
  BY <1>2, Going DEF DocumentInv
<1> QED BY <1>1, <1>2, <1>3, IndexerMoves

\* The end of the version v under construction; the summary is rewritten.
LEMMA VersionEnds ==
  ASSUME DocumentInv, NEW i \in Indexers, NEW v \in Doc!With("building"),
         NEW status \in {"failed", "unsupported"},
         versions' = [versions EXCEPT ![v] = Doc!Ended(status)], object' = object,
         document' \in DocumentRow, document'.id = document.id, document'.active = document.active,
         document.active # 0 => document'.status \in {"indexed", "processing"},
         NEW places, Moves(i, places), indexer[i].at \in Working, places \cap Late = {}
  PROVE  DocumentInv'
<1> USE DEF DocumentInv, Moves
<1>1. v \in Doc!Numbers /\ versions[v].status = "building"
  BY DEF Doc!With
<1>2. Doc!Ended(status) \in VersionRow /\ Doc!Ended(status).status = status
  BY DEF Doc!Ended, VersionRow
<1>3. \A u \in Doc!Numbers : versions'[u] = IF u = v THEN Doc!Ended(status) ELSE versions[u]
  BY <1>1 DEF DocumentTypeOK
<1>4. DocumentTypeOK'
  BY <1>2 DEF DocumentTypeOK
<1>5. /\ Doc!Made' = Doc!Made /\ Doc!With("building")' \subseteq Doc!With("building")
      /\ Doc!With("indexed")' = Doc!With("indexed")
      /\ \A u \in Doc!With("indexed") : versions'[u] = versions[u]
  BY <1>1, <1>2, <1>3 DEF Doc!Made, Doc!With
<1>6. VersionsInv'
  BY <1>5 DEF VersionsInv, Newest
<1>7. RowsInv'
  BY <1>5 DEF RowsInv
<1>8. Doc!ActiveVersionFenced' /\ Doc!SummaryKeepsIndex'
  BY <1>5 DEF Doc!ActiveVersionFenced, Doc!SummaryKeepsIndex, Doc!NoVersion
<1>9. ASSUME NEW j \in Indexers PROVE IndexerOK(j)'
  <2>1. IndexerOK(j)
    OBVIOUS
  <2>2. \A u \in Doc!Made : versions'[u].status = "building" => versions[u].status = "building"
    BY <1>2, <1>3 DEF Doc!Made
  <2>3. CASE j # i
    BY <1>5, <2>1, <2>2, <2>3 DEF IndexerOK, Doc!Holds
  <2>4. CASE j = i
    BY <1>5, <2>1, <2>4 DEF IndexerOK
  <2> QED BY <2>3, <2>4
<1> QED BY <1>4, <1>6, <1>7, <1>8, <1>9

\* The version of a working indexer that holds it.
LEMMA HeldVersion ==
  ASSUME DocumentInv, NEW i \in Indexers, indexer[i].at \in Working, Doc!Holds(i)
  PROVE  indexer[i].version \in Doc!With("building")
  BY DEF DocumentInv, IndexerOK, Doc!Made, Doc!With, Doc!Holds

LEMMA UnsupportedKeepsInv ==
  ASSUME DocumentInv, NEW i \in Indexers, Doc!FinishUnsupported(i)
  PROVE  DocumentInv'
<1>1. indexer[i].at \in Working /\ object' = object
  BY DEF Doc!FinishUnsupported, Working
<1>2. CASE Doc!Holds(i)
  <2> DEFINE status == IF document.active = Doc!NoVersion THEN "unsupported" ELSE "indexed"
             d == [document EXCEPT !.status = status]
  <2>1. d \in DocumentRow /\ d.id = document.id /\ d.active = document.active /\ d.status = status
    BY DEF DocumentInv, DocumentTypeOK, DocumentRow
  <2>2. /\ document' = d /\ Doc!End(i, FALSE)
        /\ versions' = [versions EXCEPT ![indexer[i].version] = Doc!Ended("unsupported")]
    BY <1>2 DEF Doc!FinishUnsupported
  <2>3. document.active # 0 => d.status \in {"indexed", "processing"}
    BY <2>1 DEF Doc!NoVersion
  <2> HIDE DEF d
  <2>4. Moves(i, {"report", "idle"}) /\ {"report", "idle"} \cap Late = {}
    BY <2>2, Ending DEF DocumentInv, Late
  <2>5. indexer[i].version \in Doc!With("building")
    BY <1>1, <1>2, HeldVersion
  <2> QED BY <1>1, <2>1, <2>2, <2>3, <2>4, <2>5, VersionEnds
<1>3. CASE ~Doc!Holds(i)
  <2>1. Doc!End(i, TRUE) /\ UNCHANGED <<document, versions>>
    BY <1>3 DEF Doc!FinishUnsupported
  <2>2. Moves(i, {"report", "idle"})
    BY <2>1, Ending DEF DocumentInv
  <2> QED BY <1>1, <2>1, <2>2, IndexerMoves DEF Late, Working
<1> QED BY <1>2, <1>3

LEMMA FailVersionKeepsInv ==
  ASSUME DocumentInv, NEW i \in Indexers, Doc!FailVersion(i)
  PROVE  DocumentInv'
<1>1. /\ indexer[i].at \in Working /\ UNCHANGED <<object, document>>
      /\ Doc!Go(i, "summary") /\ "summary" \in Working \ Late
  BY DEF Doc!FailVersion, Working, Late
<1>2. Moves(i, {"summary"})
  BY <1>1, Going DEF DocumentInv
<1>3. CASE Doc!Holds(i)
  <2>1. versions' = [versions EXCEPT ![indexer[i].version] = Doc!Ended("failed")]
    BY <1>3 DEF Doc!FailVersion
  <2>2. indexer[i].version \in Doc!With("building")
    BY <1>1, <1>3, HeldVersion
  <2>3. document \in DocumentRow /\ (document.active # 0 => document.status \in {"indexed", "processing"})
    BY DEF DocumentInv, DocumentTypeOK, Doc!SummaryKeepsIndex, Doc!NoVersion
  <2>4. {"summary"} \cap Late = {}
    BY <1>1
  <2>5. document' \in DocumentRow /\ document'.id = document.id /\ document'.active = document.active
        /\ (document.active # 0 => document'.status \in {"indexed", "processing"})
    BY <1>1, <2>3
  <2> QED BY <1>1, <1>2, <2>1, <2>2, <2>4, <2>5, VersionEnds
<1>4. CASE ~Doc!Holds(i)
  <2>1. versions' = versions
    BY <1>4 DEF Doc!FailVersion
  <2> QED BY <1>1, <1>2, <2>1, IndexerMoves
<1> QED BY <1>3, <1>4

\* A step that writes the summary of a document without an active version.
LEMMA FailDocumentKeepsInv ==
  ASSUME DocumentInv, NEW i \in Indexers, Doc!FailDocument(i)
  PROVE  DocumentInv'
<1>1. UNCHANGED <<object, versions>> /\ indexer[i].at \in Working /\ Doc!End(i, TRUE)
  BY DEF Doc!FailDocument, Working
<1>2. Moves(i, {"report", "idle"})
  BY <1>1, Ending DEF DocumentInv
<1>3. CASE document' = document
  BY <1>1, <1>2, <1>3, IndexerMoves DEF Late, Working
<1>4. CASE document' # document
  <2>1. document.active = 0 /\ document' = [document EXCEPT !.status = "failed"]
    BY <1>4 DEF Doc!FailDocument, Doc!NoVersion
  <2>2. document' \in DocumentRow /\ document'.id = document.id /\ document'.active = 0
    BY <2>1 DEF DocumentInv, DocumentTypeOK, DocumentRow
  <2>3. DocumentTypeOK'
    BY <1>1, <1>2, <2>2 DEF DocumentInv, DocumentTypeOK, Moves
  <2>4. VersionsInv' /\ RowsInv'
    BY <1>1, <2>2 DEF DocumentInv, VersionsInv, Newest, RowsInv, Doc!Made, Doc!With
  <2>5. Doc!ActiveVersionFenced' /\ Doc!SummaryKeepsIndex'
    BY <1>1, <2>1, <2>2 DEF DocumentInv, Doc!ActiveVersionFenced, Doc!SummaryKeepsIndex, Doc!With, Doc!NoVersion
  <2>6. ASSUME NEW j \in Indexers PROVE IndexerOK(j)'
    BY <1>1, <1>2 DEF DocumentInv, Moves, IndexerOK, Doc!Made, Doc!Holds, Working
  <2> QED BY <2>3, <2>4, <2>5, <2>6 DEF DocumentInv
<1> QED BY <1>3, <1>4

\* The lease of a version matters to nobody's invariant.
LEMMA LeaseKeepsInv ==
  ASSUME DocumentInv, Doc!LeaseExpires
  PROVE  DocumentInv'
<1>1. PICK v \in Doc!With("building") : versions' = [versions EXCEPT ![v].lease = "expired"]
  BY DEF Doc!LeaseExpires
<1> DEFINE r == [versions[v] EXCEPT !.lease = "expired"]
<1>2. v \in Doc!Numbers /\ versions[v] \in VersionRow
  BY DEF Doc!With, DocumentInv, DocumentTypeOK
<1>3. r \in VersionRow /\ r.status = versions[v].status /\ r.status = "building"
  BY <1>2 DEF VersionRow, Doc!With
<1>4. versions' = [versions EXCEPT ![v] = r]
  BY <1>1
<1> HIDE DEF r
<1>5. \A u \in Doc!Numbers : versions'[u].status = versions[u].status /\ (u # v => versions'[u] = versions[u])
  BY <1>2, <1>3, <1>4 DEF DocumentInv, DocumentTypeOK
<1>6. UNCHANGED <<object, document, indexer>>
  BY DEF Doc!LeaseExpires
<1>7. DocumentTypeOK'
  BY <1>3, <1>4, <1>6 DEF DocumentInv, DocumentTypeOK
<1>8. /\ Doc!Made' = Doc!Made /\ Doc!With("building")' = Doc!With("building")
      /\ Doc!With("indexed")' = Doc!With("indexed")
      /\ \A u \in Doc!With("indexed") : versions'[u] = versions[u]
  BY <1>3, <1>5 DEF Doc!Made, Doc!With
<1>9. VersionsInv' /\ RowsInv'
  BY <1>6, <1>8 DEF DocumentInv, VersionsInv, Newest, RowsInv
<1>10. Doc!ActiveVersionFenced' /\ Doc!SummaryKeepsIndex'
  BY <1>6, <1>8 DEF DocumentInv, Doc!ActiveVersionFenced, Doc!SummaryKeepsIndex
<1>11. ASSUME NEW j \in Indexers PROVE IndexerOK(j)'
  BY <1>5, <1>6, <1>8 DEF DocumentInv, IndexerOK, Doc!Holds, Doc!Made
<1> QED BY <1>7, <1>9, <1>10, <1>11 DEF DocumentInv

\* The newest version is published, and the ones before are retired.
LEMMA CommitKeepsInv ==
  ASSUME DocumentInv, NEW i \in Indexers, Doc!CommitVersion(i)
  PROVE  DocumentInv'
<1>1. indexer[i].at = "commit" /\ object' = object /\ indexer[i].at \in Working
  BY DEF Doc!CommitVersion, Working
<1>2. CASE ~Doc!Holds(i)
  <2>1. Doc!Go(i, "fail") /\ UNCHANGED <<document, versions>>
    BY <1>2 DEF Doc!CommitVersion
  <2>2. Moves(i, {"fail"})
    BY <2>1, Going DEF DocumentInv, Working
  <2> QED BY <1>1, <2>1, <2>2, IndexerMoves DEF Late
<1>3. CASE Doc!Holds(i)
  <2> DEFINE v == indexer[i].version
             old(u) == [versions[u] EXCEPT !.retired = TRUE]
             d == [document EXCEPT !.active = v, !.status = "indexed"]
  <2>1. v \in Doc!With("building") /\ v \in Doc!Numbers
    BY <1>1, <1>3, HeldVersion DEF Doc!With
  <2>2. Doc!Published(i)
    BY <1>3 DEF Doc!CommitVersion
  <2>3. Moves(i, {"report", "idle"})
    BY <2>2, Ending DEF Doc!Published, DocumentInv
  <2>4. \A u \in Doc!Numbers : versions'[u] = IF u = v THEN Doc!Ended("indexed")
                                              ELSE IF u \in Doc!With("indexed") THEN old(u) ELSE versions[u]
    <3>1. v \notin Doc!With("indexed")
      BY <2>1 DEF Doc!With
    <3>2. versions' = [u \in Doc!Numbers |-> CASE u = v -> Doc!Ended("indexed")
                                               [] u \in Doc!With("indexed") -> old(u)
                                               [] OTHER -> versions[u]]
      BY <2>2 DEF Doc!Published
    <3> HIDE DEF v, old
    <3> QED BY <3>1, <3>2
  <2>5. \A u \in Doc!Numbers : old(u) \in VersionRow /\ old(u).retired = TRUE /\ old(u).status = versions[u].status
    BY DEF DocumentInv, DocumentTypeOK, VersionRow
  <2>6. /\ Doc!Ended("indexed") \in VersionRow /\ Doc!Ended("indexed").status = "indexed"
        /\ Doc!Ended("indexed").retired = FALSE
    BY DEF Doc!Ended, VersionRow
  <2>7. document' = d /\ d \in DocumentRow /\ d.id = document.id /\ d.active = v /\ d.status = "indexed"
    <3>1. document' = d
      BY <2>2 DEF Doc!Published
    <3>2. v \in Nat /\ document \in DocumentRow
      BY <2>1 DEF Doc!Numbers, DocumentInv, DocumentTypeOK
    <3> HIDE DEF v
    <3>3. d \in DocumentRow /\ d.id = document.id /\ d.active = v /\ d.status = "indexed"
      BY <3>2 DEF DocumentRow
    <3> QED BY <3>1, <3>3
  <2>8. versions' \in [Doc!Numbers -> VersionRow]
    <3>1. DOMAIN versions' = Doc!Numbers /\ versions' = [u \in Doc!Numbers |-> versions'[u]]
      BY <2>2 DEF Doc!Published
    <3>2. \A u \in Doc!Numbers : versions'[u] \in VersionRow
      BY <2>4, <2>5, <2>6 DEF DocumentInv, DocumentTypeOK
    <3> QED BY <3>1, <3>2
  <2> HIDE DEF old, d
  <2>9. DocumentTypeOK'
    BY <1>1, <2>3, <2>7, <2>8 DEF DocumentInv, DocumentTypeOK, Moves
  <2>10. PICK n \in 0 .. DocumentVersions : Newest(n)
    BY DEF DocumentInv, VersionsInv
  <2>11. v = n /\ Doc!Made = 1 .. n /\ Doc!With("building") = {v}
    BY <2>1, <2>10 DEF Newest
  <2>12. \A u \in Doc!Numbers : versions'[u].status = IF u = v THEN "indexed" ELSE versions[u].status
    BY <2>4, <2>5, <2>6
  <2>13. /\ Doc!Made' = Doc!Made /\ Doc!With("building")' = {}
         /\ Doc!With("indexed")' = Doc!With("indexed") \cup {v}
    BY <2>1, <2>11, <2>12 DEF Doc!Made, Doc!With
  <2>14. VersionsInv'
    BY <2>10, <2>13 DEF VersionsInv, Newest
  <2>15. document.id # 0
    BY <2>1 DEF DocumentInv, RowsInv
  <2>16. RowsInv'
    BY <1>1, <2>7, <2>13, <2>15 DEF DocumentInv, RowsInv
  <2>17. {u \in Doc!With("indexed")' : ~versions'[u].retired} = {v}
    <3>1. \A u \in Doc!With("indexed")' : u \in Doc!Numbers
      BY DEF Doc!With
    <3>2. \A u \in Doc!With("indexed")' : u # v => versions'[u].retired = TRUE
      BY <2>4, <2>5, <2>13, <3>1
    <3>3. versions'[v].retired = FALSE /\ v \in Doc!With("indexed")'
      BY <2>1, <2>4, <2>6, <2>13
    <3> QED BY <3>2, <3>3
  <2>18. \A u \in Doc!With("indexed")' : u <= v
    <3>1. \A u \in Doc!With("indexed") : u \in Doc!Made
      BY DEF Doc!With, Doc!Made
    <3> QED BY <2>10, <2>11, <2>13, <3>1 DEF Doc!Numbers
  <2>19. v # 0 /\ object.status # "deleted"
    <3>1. v # 0
      BY <2>1 DEF Doc!Numbers
    <3>2. object.status # "deleted"
      BY <1>1, <1>3 DEF DocumentInv, IndexerOK, Late
    <3> QED BY <3>1, <3>2
  <2>20. Doc!ActiveVersionFenced'
    <3>1. {document'.active} \ {0} = {v}
      BY <2>7, <2>19
    <3> QED BY <1>1, <2>7, <2>17, <2>18, <2>19, <3>1 DEF Doc!ActiveVersionFenced, Doc!NoVersion
  <2>21. Doc!SummaryKeepsIndex'
    BY <2>7 DEF Doc!SummaryKeepsIndex
  <2>22. ASSUME NEW j \in Indexers PROVE IndexerOK(j)'
    <3>1. IndexerOK(j)
      BY DEF DocumentInv
    <3>2. CASE j = i
      BY <2>3, <3>2 DEF Moves, IndexerOK, Working
    <3>3. CASE j # i
      <4>1. indexer'[j] = indexer[j]
        BY <2>3, <3>3 DEF Moves
      <4> QED BY <1>1, <2>13, <2>19, <3>1, <4>1 DEF IndexerOK
    <3> QED BY <3>2, <3>3
  <2> QED BY <2>9, <2>14, <2>16, <2>20, <2>21, <2>22 DEF DocumentInv
<1> QED BY <1>2, <1>3

\* startDocumentVersion makes the next version and fails the one that expired.
LEMMA StartKeepsInv ==
  ASSUME DocumentInv, NEW i \in Indexers, Doc!StartDocumentVersion(i)
  PROVE  DocumentInv'
<1>1. indexer[i].at = "start" /\ object' = object
  BY DEF Doc!StartDocumentVersion
<1>2. CASE (Doc!End(i, FALSE) \/ Doc!End(i, TRUE)) /\ UNCHANGED <<document, versions>>
  <2>1. Moves(i, {"report", "idle"}) /\ UNCHANGED <<document, versions>>
    BY <1>2, Ending DEF DocumentInv
  <2> QED BY <1>1, <2>1, IndexerMoves DEF Late, Working
<1>3. CASE ~((Doc!End(i, FALSE) \/ Doc!End(i, TRUE)) /\ UNCHANGED <<document, versions>>)
  <2>1. PICK v \in Doc!Numbers \ Doc!Made : Doc!After(v) /\ Doc!Build(i, v)
    BY <1>3 DEF Doc!StartDocumentVersion
  <2> DEFINE d == Doc!Started(v)
             r == [indexer[i] EXCEPT !.at = "read", !.version = v, !.doc = d]
             new == [status |-> "building", retired |-> FALSE, lease |-> "valid"]
  <2>2. document' = d /\ versions' = Doc!Building(v) /\ indexer' = [indexer EXCEPT ![i] = r]
    BY <2>1 DEF Doc!Build
  <2>3. PICK n \in 0 .. DocumentVersions : Newest(n)
    BY DEF DocumentInv, VersionsInv
  <2>4. n \in Nat /\ Doc!Made = 1 .. n /\ \A u \in Doc!With("building") : u = n
    BY <2>3, DerivedConstants DEF Newest
  <2>5. v = n + 1
    BY <2>1, <2>3, <2>4, DerivedConstants DEF Doc!After, Doc!Numbers
  <2>6. v \in Nat /\ v \in Doc!Numbers /\ v \notin Doc!Made /\ v # 0
    BY <2>2, <2>3, <2>4, <2>5, DerivedConstants DEF Doc!Numbers
  <2>7. /\ d \in DocumentRow /\ d.id # 0 /\ d.status = "processing"
        /\ d.active = document.active
    <3>1. document \in DocumentRow /\ (document.id = 0 => document.active = 0)
      BY DEF DocumentInv, DocumentTypeOK, RowsInv
    <3> QED BY <2>6, <3>1 DEF DocumentRow, Doc!NoVersion, Doc!Started
  <2> HIDE DEF d
  <2>8. r \in IndexerRow /\ r.at = "read" /\ r.version = v
    BY <2>6, <2>7, IndexerFields DEF DocumentInv, IndexerRow, Working
  <2> HIDE DEF r
  <2>9. \A j \in Indexers : indexer'[j] = IF j = i THEN r ELSE indexer[j]
    BY <2>2 DEF DocumentInv, DocumentTypeOK
  <2>10. /\ new \in VersionRow /\ new.status = "building"
         /\ Doc!Ended("failed") \in VersionRow /\ Doc!Ended("failed").status = "failed"
    BY DEF VersionRow, Doc!Ended
  <2>11. v \notin Doc!With("building")
    BY <2>6 DEF Doc!With, Doc!Made
  <2>12. \A u \in Doc!Numbers :
           versions'[u] = IF u = v THEN new
                          ELSE IF u \in Doc!With("building") THEN Doc!Ended("failed") ELSE versions[u]
    <3>1. versions' = [u \in Doc!Numbers |-> CASE u = v -> new
                                              [] u \in Doc!With("building") -> Doc!Ended("failed")
                                              [] OTHER -> versions[u]]
      BY <2>2 DEF Doc!Building
    <3> HIDE DEF new
    <3> QED BY <2>11, <3>1
  <2>13. versions' \in [Doc!Numbers -> VersionRow]
    <3>1. versions' = [u \in Doc!Numbers |-> versions'[u]]
      BY <2>2 DEF Doc!Building
    <3>2. \A u \in Doc!Numbers : versions'[u] \in VersionRow
      BY <2>10, <2>12 DEF DocumentInv, DocumentTypeOK
    <3> QED BY <3>1, <3>2
  <2> HIDE DEF new
  <2>14. DocumentTypeOK'
    BY <1>1, <2>2, <2>7, <2>8, <2>13 DEF DocumentInv, DocumentTypeOK
  <2>15. /\ Doc!Made' = Doc!Made \cup {v} /\ Doc!With("building")' = {v}
         /\ Doc!With("indexed")' = Doc!With("indexed")
         /\ \A u \in Doc!With("indexed") : versions'[u] = versions[u]
    BY <2>6, <2>10, <2>12 DEF Doc!Made, Doc!With
  <2>16. VersionsInv'
    <3>1. Doc!Made' = 1 .. n + 1 /\ n + 1 \in 0 .. DocumentVersions
      BY <2>4, <2>5, <2>6, <2>15, DerivedConstants DEF Doc!Numbers
    <3> QED BY <2>5, <2>15, <3>1 DEF VersionsInv, Newest
  <2>17. RowsInv'
    BY <1>1, <2>2, <2>7 DEF DocumentInv, RowsInv
  <2>18. Doc!ActiveVersionFenced' /\ Doc!SummaryKeepsIndex'
    BY <1>1, <2>2, <2>7, <2>15 DEF DocumentInv, Doc!ActiveVersionFenced, Doc!SummaryKeepsIndex
  <2>19. ASSUME NEW j \in Indexers PROVE IndexerOK(j)'
    <3>1. CASE j = i
      BY <2>8, <2>9, <2>15, <3>1 DEF IndexerOK, Late
    <3>2. CASE j # i
      <4>1. indexer'[j] = indexer[j] /\ IndexerOK(j)
        BY <2>9, <3>2 DEF DocumentInv
      <4>2. ASSUME indexer[j].at \in Working PROVE Doc!Holds(j)' => Doc!Holds(j)
        <5>1. indexer[j].version \in Doc!Made /\ indexer[j].version \in Doc!Numbers
          BY <4>1, <4>2 DEF IndexerOK, Doc!Made
        <5>2. versions'[indexer[j].version].status = "building" => versions[indexer[j].version].status = "building"
          BY <2>6, <2>10, <2>12, <5>1
        <5> QED BY <4>1, <5>2 DEF Doc!Holds
      <4> QED BY <1>1, <2>15, <4>1, <4>2 DEF IndexerOK
    <3> QED BY <3>1, <3>2
  <2> QED BY <2>14, <2>16, <2>17, <2>18, <2>19 DEF DocumentInv
<1> QED BY <1>2, <1>3

\* The object below: collection, removal of the bytes, deletion with everything
\* that hangs on it, and the next upload.
LEMMA ObjectKeepsInv ==
  ASSUME DocumentInv, Doc!GarbageCollect \/ Doc!RemoveBytes \/ Doc!Revive \/ Doc!RequestReprocess
  PROVE  DocumentInv'
<1>1. UNCHANGED <<document, versions, indexer>>
  BY DEF Doc!GarbageCollect, Doc!RemoveBytes, Doc!Revive, Doc!RequestReprocess
<1>2. /\ object' \in [status : {"ready", "deleting", "deleted"}, life : Nat, bytes : BOOLEAN]
      /\ object'.status = "deleted" => object' = object
  <2>1. object \in [status : {"ready", "deleting", "deleted"}, life : Nat, bytes : BOOLEAN]
    BY DEF DocumentInv, DocumentTypeOK
  <2>2. CASE Doc!GarbageCollect
    BY <2>1, <2>2 DEF Doc!GarbageCollect
  <2>3. CASE Doc!RemoveBytes
    BY <2>1, <2>3 DEF Doc!RemoveBytes
  <2>4. CASE Doc!Revive
    BY <2>1, <2>4 DEF Doc!Revive
  <2>5. CASE Doc!RequestReprocess
    BY <2>1, <2>5 DEF Doc!RequestReprocess
  <2> QED BY <2>2, <2>3, <2>4, <2>5
<1>3. DocumentTypeOK'
  BY <1>1, <1>2 DEF DocumentInv, DocumentTypeOK
<1>4. VersionsInv' /\ RowsInv'
  BY <1>1, <1>2 DEF DocumentInv, VersionsInv, Newest, RowsInv, Doc!Made, Doc!With
<1>5. Doc!ActiveVersionFenced' /\ Doc!SummaryKeepsIndex'
  BY <1>1, <1>2 DEF DocumentInv, Doc!ActiveVersionFenced, Doc!SummaryKeepsIndex, Doc!With
<1>6. \A i \in Indexers : IndexerOK(i)'
  BY <1>1, <1>2 DEF DocumentInv, IndexerOK, Doc!Made, Doc!Holds
<1> QED BY <1>3, <1>4, <1>5, <1>6 DEF DocumentInv

LEMMA DeleteKeepsInv ==
  ASSUME DocumentInv, Doc!DeleteObject
  PROVE  DocumentInv'
<1>1. /\ ~object.bytes /\ object' = [object EXCEPT !.status = "deleted"]
      /\ document' = Doc!NoDocument /\ indexer' = indexer
      /\ versions' = [v \in Doc!Numbers |-> IF v \in Doc!Made THEN Doc!Ended("gone") ELSE versions[v]]
  BY DEF Doc!DeleteObject
<1>2. /\ object' \in [status : {"ready", "deleting", "deleted"}, life : Nat, bytes : BOOLEAN]
      /\ object'.status = "deleted" /\ ~object'.bytes
  BY <1>1 DEF DocumentInv, DocumentTypeOK
<1>3. Doc!Ended("gone") \in VersionRow /\ Doc!Ended("gone").status = "gone"
  BY DEF Doc!Ended, VersionRow
<1>4. Doc!NoDocument \in DocumentRow /\ Doc!NoDocument.active = 0
  BY DEF Doc!NoDocument, DocumentRow, Doc!NoVersion
<1>5. \A v \in Doc!Numbers : versions'[v] = IF v \in Doc!Made THEN Doc!Ended("gone") ELSE versions[v]
  BY <1>1
<1>6. DocumentTypeOK'
  BY <1>1, <1>2, <1>3, <1>4 DEF DocumentInv, DocumentTypeOK
<1>7. Doc!Made' = Doc!Made /\ Doc!With("building")' = {} /\ Doc!With("indexed")' = {}
  BY <1>3, <1>5 DEF Doc!Made, Doc!With
<1>8. VersionsInv' /\ RowsInv'
  BY <1>1, <1>2, <1>4, <1>7 DEF DocumentInv, VersionsInv, Newest, RowsInv
<1>9. Doc!ActiveVersionFenced' /\ Doc!SummaryKeepsIndex'
  BY <1>1, <1>4, <1>7 DEF Doc!ActiveVersionFenced, Doc!SummaryKeepsIndex, Doc!NoVersion
<1>10. ASSUME NEW i \in Indexers PROVE IndexerOK(i)'
  <2>1. IndexerOK(i)
    BY DEF DocumentInv
  <2>2. \A v \in Doc!Made : versions'[v].status = "gone"
    BY <1>3, <1>5 DEF Doc!Made
  <2> QED BY <1>1, <1>7, <2>1, <2>2 DEF IndexerOK, Doc!Holds
<1> QED BY <1>6, <1>8, <1>9, <1>10 DEF DocumentInv

LEMMA DocumentStep == DocumentInv /\ [Doc!Next]_documentVars => DocumentInv'
<1> SUFFICES ASSUME DocumentInv, [Doc!Next]_documentVars PROVE DocumentInv'
  OBVIOUS
<1>1. CASE UNCHANGED documentVars
  <2>1. UNCHANGED <<object, document, versions, indexer>>
    BY <1>1 DEF documentVars
  <2>2. DocumentTypeOK' /\ VersionsInv' /\ RowsInv'
    BY <2>1 DEF DocumentInv, DocumentTypeOK, VersionsInv, Newest, RowsInv, Doc!Made, Doc!With
  <2>3. Doc!ActiveVersionFenced' /\ Doc!SummaryKeepsIndex'
    BY <2>1 DEF DocumentInv, Doc!ActiveVersionFenced, Doc!SummaryKeepsIndex, Doc!With
  <2>4. \A i \in Indexers : IndexerOK(i)'
    BY <2>1 DEF DocumentInv, IndexerOK, Doc!Made, Doc!Holds
  <2> QED BY <2>2, <2>3, <2>4 DEF DocumentInv
<1>2. CASE Doc!Next
  BY <1>2, DeliveryKeepsInv, RunKeepsInv, UnsupportedKeepsInv, FailVersionKeepsInv, FailDocumentKeepsInv,
     LeaseKeepsInv, CommitKeepsInv, StartKeepsInv, ObjectKeepsInv, DeleteKeepsInv DEF Doc!Next
<1> QED BY <1>1, <1>2

-----------------------------------------------------------------------------
(* Thumbnails *)

WriterRow == [at : {"idle", "register", "put", "commit", "fail", "end"}, life : Nat]
CleanupRow == [state : {"absent", "running", "failed", "succeeded"}, owner : Attempts \cup Cleaners \cup {Nobody}]
CleanerRow == {Th!Free} \cup [at : {"adopted", "remove", "mark"}, attempt : Attempts]
DeletionRow == [state : {"absent", "pending", "running", "succeeded"}, owner : Collectors \cup {Nobody}]
CollectorRow == {Th!Waiting} \cup [at : {"check", "list", "remove", "commit"}, life : Nat, todo : SUBSET Attempts]

ThumbnailTypeOK ==
  /\ image \in [status : {"ready", "deleting", "deleted"}, life : Nat]
  /\ variant \in Attempts \cup {Nobody} /\ stored \in SUBSET Attempts
  /\ cleanup \in [Attempts -> CleanupRow] /\ writer \in [Attempts -> WriterRow]
  /\ cleaner \in [Cleaners -> CleanerRow]
  /\ deletion \in DeletionRow /\ collector \in [Collectors -> CollectorRow]
  /\ mishaps.outlived \in BOOLEAN

\* An attempt with which everybody is done: it was published, and its removal
\* cancelled before anyone claimed it.
Abandoned(a) == \A c \in Cleaners : cleaner[c].attempt # a
Settled(a) == writer[a].at = "end" /\ cleanup[a].state = "succeeded" /\ Abandoned(a)

\* Until an attempt is registered there is nothing to clean up, and while it owns
\* its operation no cleaner has ever claimed it.
AttemptOK(a) ==
  /\ writer[a].at \in {"idle", "register"} => cleanup[a].state = "absent"
  /\ cleanup[a].state = "absent" \/ Th!Owns(a, a) => Abandoned(a)
  /\ writer[a].at = "commit" /\ Th!Owns(a, a) => a \in stored

\* A collector works on a life that is ending or over.  What it lists is the
\* thumbnail of that life, which is published no second time.
CollectorOK(g) ==
  /\ collector[g] # Th!Waiting => \/ collector[g].life < image.life
                                  \/ collector[g].life = image.life /\ image.status # "ready"
  /\ \A a \in collector[g].todo : Settled(a)
  /\ variant \in collector[g].todo => image.status # "ready"
  /\ collector[g].at \in {"remove", "commit"} /\ Th!Deleting(g) => variant \in collector[g].todo \cup {Nobody}
  /\ collector[g].at = "commit" /\ Th!Deleting(g) => variant \notin stored

ImageInv ==
  /\ deletion.state \in {"pending", "running"} => image.status = "deleting"
  /\ image.status = "deleted" => variant = Nobody
  /\ variant # Nobody => Settled(variant)
  /\ image.status = "ready" /\ variant # Nobody => variant \in stored

ThumbnailInv ==
  /\ ThumbnailTypeOK /\ ImageInv
  /\ \A a \in Attempts : AttemptOK(a)
  /\ \A g \in Collectors : CollectorOK(g)

\* As long as nobody outlived a lease, whoever is at work owns the operation, so
\* nothing is written behind the back of a cleaner that has removed it.
LeaseInv ==
  /\ \A a \in Attempts : writer[a].at \in {"put", "commit", "fail"} => Th!Owns(a, a)
  /\ \A c \in Cleaners : cleaner[c] # Th!Free => Th!Owns(c, cleaner[c].attempt)
  /\ \A c \in Cleaners : cleaner[c].at = "mark" => cleaner[c].attempt \notin stored
  /\ \A a \in stored : variant = a \/ cleanup[a].state \in {"running", "failed"}

LEMMA ThumbnailFields ==
  ASSUME ThumbnailTypeOK
  PROVE  /\ \A a \in Attempts : /\ writer[a].at \in {"idle", "register", "put", "commit", "fail", "end"}
                                /\ writer[a].life \in Nat /\ writer[a] = [at |-> writer[a].at, life |-> writer[a].life]
                                /\ cleanup[a].state \in {"absent", "running", "failed", "succeeded"}
         /\ \A c \in Cleaners : /\ cleaner[c].at = "idle" => cleaner[c].attempt = Nobody
                                /\ cleaner[c].at # "idle" => cleaner[c].attempt \in Attempts
                                /\ cleaner[c].at \in {"idle", "adopted", "remove", "mark"}
                                /\ cleaner[c] = Th!Free <=> cleaner[c].at = "idle"
         /\ \A g \in Collectors : /\ collector[g].at \in {"idle", "check", "list", "remove", "commit"}
                                  /\ collector[g].life \in Nat /\ collector[g].todo \in SUBSET Attempts
                                  /\ collector[g] = Th!Waiting <=> collector[g].at = "idle"
<1>1. \A a \in Attempts : writer[a] \in WriterRow /\ cleanup[a] \in CleanupRow
  BY DEF ThumbnailTypeOK
<1>2. \A c \in Cleaners : cleaner[c] \in CleanerRow
  BY DEF ThumbnailTypeOK
<1>3. \A g \in Collectors : collector[g] \in CollectorRow
  BY DEF ThumbnailTypeOK
<1>4. \A a \in Attempts : /\ writer[a].at \in {"idle", "register", "put", "commit", "fail", "end"}
                          /\ writer[a].life \in Nat /\ writer[a] = [at |-> writer[a].at, life |-> writer[a].life]
                          /\ cleanup[a].state \in {"absent", "running", "failed", "succeeded"}
  BY <1>1 DEF WriterRow, CleanupRow
<1>5. ASSUME NEW c \in Cleaners
      PROVE  /\ cleaner[c].at = "idle" => cleaner[c].attempt = Nobody
             /\ cleaner[c].at # "idle" => cleaner[c].attempt \in Attempts
             /\ cleaner[c].at \in {"idle", "adopted", "remove", "mark"}
             /\ cleaner[c] = Th!Free <=> cleaner[c].at = "idle"
  <2>1. CASE cleaner[c] = Th!Free
    BY <2>1 DEF Th!Free
  <2>2. CASE cleaner[c] \in [at : {"adopted", "remove", "mark"}, attempt : Attempts]
    BY <2>2 DEF Th!Free
  <2> QED BY <1>2, <2>1, <2>2 DEF CleanerRow
<1>6. ASSUME NEW g \in Collectors
      PROVE  /\ collector[g].at \in {"idle", "check", "list", "remove", "commit"}
             /\ collector[g].life \in Nat /\ collector[g].todo \in SUBSET Attempts
             /\ collector[g] = Th!Waiting <=> collector[g].at = "idle"
  <2>1. CASE collector[g] = Th!Waiting
    BY <2>1 DEF Th!Waiting
  <2>2. CASE collector[g] \in [at : {"check", "list", "remove", "commit"}, life : Nat, todo : SUBSET Attempts]
    BY <2>2 DEF Th!Waiting
  <2> QED BY <1>3, <2>1, <2>2 DEF CollectorRow
<1> QED BY <1>4, <1>5, <1>6

LEMMA ThumbnailInit == Th!Init => ThumbnailInv /\ LeaseInv
<1> SUFFICES ASSUME Th!Init PROVE ThumbnailInv /\ LeaseInv
  OBVIOUS
<1> USE DEF Th!Init, Th!Resting, Th!Free, Th!Waiting
<1>1. ThumbnailTypeOK
  BY DEF ThumbnailTypeOK, WriterRow, CleanupRow, CleanerRow, DeletionRow, CollectorRow
<1>2. ImageInv
  BY DEF ImageInv
<1>3. \A a \in Attempts : AttemptOK(a)
  BY WorkerNames DEF AttemptOK, Abandoned, Th!Owns
<1>4. \A g \in Collectors : CollectorOK(g)
  BY DEF CollectorOK
<1>5. LeaseInv
  BY DEF LeaseInv
<1> QED BY <1>1, <1>2, <1>3, <1>4, <1>5 DEF ThumbnailInv

-----------------------------------------------------------------------------
(* Thumbnails: the attempts *)

\* A step of one attempt that has not ended and does not publish it: it may write
\* its bytes and its operation.
AttemptStep(a) ==
  /\ UNCHANGED <<image, variant, cleaner, deletion, collector>>
  /\ writer[a].at # "end"
  /\ writer' \in [Attempts -> WriterRow] /\ cleanup' \in [Attempts -> CleanupRow]
  /\ \A b \in Attempts : b # a => writer'[b] = writer[b] /\ cleanup'[b] = cleanup[b]
  /\ stored \subseteq stored' /\ stored' \subseteq stored \cup {a}
  /\ mishaps'.outlived \in BOOLEAN

LEMMA AttemptStepInv ==
  ASSUME ThumbnailInv, NEW a \in Attempts, AttemptStep(a), AttemptOK(a)'
  PROVE  ThumbnailInv'
<1>1. ThumbnailTypeOK'
  BY DEF ThumbnailInv, ThumbnailTypeOK, AttemptStep
<1>2. ~Settled(a) /\ \A b \in Attempts : Settled(b) => Settled(b)'
  BY DEF AttemptStep, Settled, Abandoned
<1>3. ImageInv'
  BY <1>2 DEF ThumbnailInv, ThumbnailTypeOK, ImageInv, AttemptStep
<1>4. ASSUME NEW b \in Attempts PROVE AttemptOK(b)'
  <2>1. AttemptOK(b)
    BY DEF ThumbnailInv
  <2>2. CASE b = a
    BY <2>2
  <2>3. CASE b # a
    BY <2>1, <2>3 DEF AttemptStep, AttemptOK, Abandoned, Th!Owns
  <2> QED BY <2>2, <2>3
<1>5. ASSUME NEW g \in Collectors PROVE CollectorOK(g)'
  <2>1. CollectorOK(g) /\ collector[g].todo \in SUBSET Attempts
    BY ThumbnailFields DEF ThumbnailInv
  <2>2. variant # a
    BY <1>2, WorkerNames DEF ThumbnailInv, ImageInv
  <2>3. variant \in stored' <=> variant \in stored
    BY <2>2 DEF AttemptStep
  <2> QED BY <1>2, <2>1, <2>3 DEF AttemptStep, CollectorOK, Th!Deleting
<1> QED BY <1>1, <1>3, <1>4, <1>5 DEF ThumbnailInv

LEMMA AttemptStepLease ==
  ASSUME ThumbnailInv, LeaseInv, NEW a \in Attempts, AttemptStep(a),
         writer'[a].at \in {"put", "commit", "fail"} => Th!Owns(a, a)',
         Abandoned(a) \/ (cleanup'[a] = cleanup[a] /\ stored' = stored),
         a \in stored' => cleanup'[a].state \in {"running", "failed"}
  PROVE  LeaseInv'
<1>1. \A b \in Attempts : writer'[b].at \in {"put", "commit", "fail"} => Th!Owns(b, b)'
  BY DEF LeaseInv, AttemptStep, Th!Owns
<1>2. ASSUME NEW c \in Cleaners
      PROVE  /\ cleaner'[c] # Th!Free => Th!Owns(c, cleaner[c].attempt)'
             /\ cleaner'[c].at = "mark" => cleaner'[c].attempt \notin stored'
  <2>1. cleaner' = cleaner
    BY DEF AttemptStep
  <2>2. cleaner[c] # Th!Free => cleaner[c].attempt \in Attempts
    BY ThumbnailFields DEF ThumbnailInv
  <2>3. cleaner[c].at = "mark" => cleaner[c] # Th!Free
    BY ThumbnailFields DEF ThumbnailInv
  <2> QED BY <2>1, <2>2, <2>3 DEF LeaseInv, AttemptStep, Abandoned, Th!Owns
<1>3. \A b \in stored' : variant' = b \/ cleanup'[b].state \in {"running", "failed"}
  BY DEF LeaseInv, AttemptStep, ThumbnailInv, ThumbnailTypeOK
<1> QED BY <1>1, <1>2, <1>3 DEF LeaseInv

ThumbnailSafe == ThumbnailInv /\ (mishaps.outlived \/ LeaseInv)

\* What a step does to the record of the faults.
LEMMA FaultSteps ==
  ASSUME ThumbnailTypeOK, NEW o \in BOOLEAN, Th!Fault(o) \/ mishaps' = mishaps
  PROVE  /\ mishaps'.outlived \in BOOLEAN /\ (mishaps.outlived => mishaps'.outlived)
         /\ Th!Fault(TRUE) => mishaps'.outlived
<1>1. mishaps.outlived \in BOOLEAN
  BY DEF ThumbnailTypeOK
<1>2. \A p \in BOOLEAN : Th!Fault(p) => mishaps'.outlived = (mishaps.outlived \/ p)
  BY DEF Th!Fault
<1>3. Th!Fault(TRUE) => mishaps'.outlived
  BY <1>2, Zenon
<1>4. CASE Th!Fault(o)
  <2>1. mishaps'.outlived = (mishaps.outlived \/ o)
    BY <1>2, <1>4
  <2> QED BY <1>1, <1>3, <2>1, Zenon
<1>5. CASE mishaps' = mishaps
  BY <1>1, <1>3, <1>5, Zenon
<1> QED BY <1>4, <1>5

\* The writer's row after it moves to another place.
LEMMA WriterMoves ==
  ASSUME ThumbnailTypeOK, NEW a \in Attempts, NEW at \in {"register", "put", "commit", "fail", "end"},
         writer' = [writer EXCEPT ![a].at = at]
  PROVE  /\ writer' \in [Attempts -> WriterRow] /\ writer'[a].at = at
         /\ \A b \in Attempts : b # a => writer'[b] = writer[b]
  BY DEF ThumbnailTypeOK, WriterRow

\* Process, a decoding failure and a crash of the attempt.
LEMMA QuietAttempt ==
  ASSUME ThumbnailSafe, NEW a \in Attempts, Th!Process(a) \/ Th!DecodeFails(a) \/ Th!WriterCrash(a)
  PROVE  ThumbnailSafe'
<1>1. UNCHANGED <<image, variant, stored, cleanup, cleaner, deletion, collector>>
  BY DEF Th!Process, Th!DecodeFails, Th!WriterCrash, Th!cleaning, Th!collecting
<1>2. /\ writer' \in [Attempts -> WriterRow]
      /\ \A b \in Attempts : b # a => writer'[b] = writer[b]
      /\ writer[a].at # "end"
      /\ writer'[a].at = "end" \/ (writer[a].at = "idle" /\ writer'[a].at = "register")
  <2>1. CASE Th!Process(a)
    <3>1. writer' = [writer EXCEPT ![a] = [at |-> "register", life |-> image.life]] /\ writer[a].at = "idle"
      BY <2>1 DEF Th!Process
    <3>2. [at |-> "register", life |-> image.life] \in WriterRow
      BY DEF ThumbnailSafe, ThumbnailInv, ThumbnailTypeOK, WriterRow
    <3> QED BY <3>1, <3>2 DEF ThumbnailSafe, ThumbnailInv, ThumbnailTypeOK
  <2>2. CASE Th!DecodeFails(a) \/ Th!WriterCrash(a)
    BY <2>2, WriterMoves DEF Th!DecodeFails, Th!WriterCrash, ThumbnailSafe, ThumbnailInv
  <2> QED BY <2>1, <2>2
<1>3. mishaps'.outlived \in BOOLEAN /\ (mishaps.outlived => mishaps'.outlived)
  BY FaultSteps DEF Th!Process, Th!DecodeFails, Th!WriterCrash, ThumbnailSafe, ThumbnailInv
<1>4. AttemptStep(a) /\ ThumbnailInv
  BY <1>1, <1>2, <1>3 DEF AttemptStep, ThumbnailSafe, ThumbnailInv, ThumbnailTypeOK
<1>5. AttemptOK(a)'
  BY <1>1, <1>2 DEF AttemptOK, Abandoned, Th!Owns, ThumbnailSafe, ThumbnailInv
<1>6. LeaseInv => LeaseInv'
  <2> SUFFICES ASSUME LeaseInv PROVE LeaseInv'
    OBVIOUS
  <2>1. a \in stored => cleanup[a].state \in {"running", "failed"}
    BY <1>2, WorkerNames DEF LeaseInv, ThumbnailSafe, ThumbnailInv, ImageInv, Settled
  <2> QED BY <1>1, <1>2, <1>4, <2>1, AttemptStepLease
<1> QED BY <1>3, <1>4, <1>5, <1>6, AttemptStepInv DEF ThumbnailSafe

\* The operation that removes the attempt's bytes is there before they are.
LEMMA RegisterSafe ==
  ASSUME ThumbnailSafe, NEW a \in Attempts, Th!Register(a)
  PROVE  ThumbnailSafe'
<1>1. ThumbnailInv /\ ThumbnailTypeOK /\ AttemptOK(a) /\ writer[a].at = "register"
  BY DEF ThumbnailSafe, ThumbnailInv, Th!Register
<1>2. cleanup[a].state = "absent" /\ Abandoned(a)
  BY <1>1 DEF AttemptOK
<1>3. UNCHANGED <<image, variant, stored, cleaner, deletion, collector, mishaps>>
  BY DEF Th!Register, Th!cleaning, Th!collecting
<1>4. \/ /\ cleanup' = [cleanup EXCEPT ![a] = [state |-> "running", owner |-> a]]
         /\ writer' = [writer EXCEPT ![a].at = "put"]
      \/ cleanup' = cleanup /\ writer' = [writer EXCEPT ![a].at = "end"]
  BY DEF Th!Register
<1>5. /\ writer' \in [Attempts -> WriterRow] /\ \A b \in Attempts : b # a => writer'[b] = writer[b]
      /\ cleanup' \in [Attempts -> CleanupRow] /\ \A b \in Attempts : b # a => cleanup'[b] = cleanup[b]
      /\ \/ writer'[a].at = "put" /\ cleanup'[a] = [state |-> "running", owner |-> a]
         \/ writer'[a].at = "end" /\ cleanup'[a] = cleanup[a]
  <2>1. [state |-> "running", owner |-> a] \in CleanupRow
    BY DEF CleanupRow
  <2>2. /\ cleanup' \in [Attempts -> CleanupRow] /\ \A b \in Attempts : b # a => cleanup'[b] = cleanup[b]
    BY <1>1, <1>4, <2>1 DEF ThumbnailTypeOK
  <2>3. CASE /\ cleanup' = [cleanup EXCEPT ![a] = [state |-> "running", owner |-> a]]
             /\ writer' = [writer EXCEPT ![a].at = "put"]
    <3>1. cleanup'[a] = [state |-> "running", owner |-> a]
      BY <1>1, <2>3 DEF ThumbnailTypeOK
    <3>2. /\ writer' \in [Attempts -> WriterRow] /\ \A b \in Attempts : b # a => writer'[b] = writer[b]
          /\ writer'[a].at = "put"
      BY <1>1, <2>3, WriterMoves
    <3> QED BY <2>2, <3>1, <3>2
  <2>4. CASE writer' = [writer EXCEPT ![a].at = "end"] /\ cleanup' = cleanup
    BY <1>1, <1>4, <2>2, <2>4, WriterMoves
  <2> QED BY <1>4, <2>3, <2>4
<1>6. AttemptStep(a)
  BY <1>1, <1>3, <1>5 DEF AttemptStep, ThumbnailTypeOK
<1>7. AttemptOK(a)'
  BY <1>2, <1>3, <1>5 DEF AttemptOK, Abandoned, Th!Owns
<1>8. LeaseInv => LeaseInv'
  <2> SUFFICES ASSUME LeaseInv PROVE LeaseInv'
    OBVIOUS
  <2>1. a \notin stored
    BY <1>1, <1>2, WorkerNames DEF LeaseInv, ThumbnailInv, ImageInv, Settled
  <2>2. writer'[a].at \in {"put", "commit", "fail"} => Th!Owns(a, a)'
    BY <1>5 DEF Th!Owns
  <2> QED BY <1>1, <1>2, <1>3, <1>6, <2>1, <2>2, AttemptStepLease
<1> QED BY <1>1, <1>3, <1>6, <1>7, <1>8, AttemptStepInv DEF ThumbnailSafe

\* PutObject and its failure, which may have stored the bytes.
LEMMA PutSafe ==
  ASSUME ThumbnailSafe, NEW a \in Attempts, Th!PutObject(a) \/ Th!PutFails(a)
  PROVE  ThumbnailSafe'
<1>1. ThumbnailInv /\ ThumbnailTypeOK /\ AttemptOK(a) /\ writer[a].at = "put"
  BY DEF ThumbnailSafe, ThumbnailInv, Th!PutObject, Th!PutFails
<1>2. UNCHANGED <<image, variant, cleanup, cleaner, deletion, collector>>
  BY DEF Th!PutObject, Th!PutFails, Th!cleaning, Th!collecting
<1>3. /\ writer' \in [Attempts -> WriterRow] /\ \A b \in Attempts : b # a => writer'[b] = writer[b]
      /\ \/ writer'[a].at = "commit" /\ stored' = stored \cup {a}
         \/ writer'[a].at = "fail" /\ stored' \in {stored, stored \cup {a}}
  BY <1>1, WriterMoves DEF Th!PutObject, Th!PutFails
<1>4. mishaps'.outlived \in BOOLEAN /\ (mishaps.outlived => mishaps'.outlived)
  BY <1>1, FaultSteps DEF Th!PutObject, Th!PutFails
<1>5. AttemptStep(a)
  BY <1>1, <1>2, <1>3, <1>4 DEF AttemptStep, ThumbnailTypeOK
<1>6. AttemptOK(a)'
  BY <1>1, <1>2, <1>3 DEF AttemptOK, Abandoned, Th!Owns
<1>7. LeaseInv => LeaseInv'
  <2> SUFFICES ASSUME LeaseInv PROVE LeaseInv'
    OBVIOUS
  <2>1. Th!Owns(a, a) /\ cleanup[a].state = "running" /\ Abandoned(a)
    BY <1>1 DEF LeaseInv, Th!Owns, AttemptOK
  <2>2. Th!Owns(a, a)' /\ cleanup'[a].state = "running"
    BY <1>2, <2>1 DEF Th!Owns
  <2>3. Abandoned(a) \/ (cleanup'[a] = cleanup[a] /\ stored' = stored)
    BY <2>1 DEF Abandoned
  <2>4. a \in stored' => cleanup'[a].state \in {"running", "failed"}
    BY <2>2
  <2>5. writer'[a].at \in {"put", "commit", "fail"} => Th!Owns(a, a)'
    BY <2>2
  <2> QED BY <1>1, <1>5, <2>3, <2>4, <2>5, AttemptStepLease
<1> QED BY <1>1, <1>4, <1>5, <1>6, <1>7, AttemptStepInv DEF ThumbnailSafe

\* MarkFailedOwned, and a commit that is not needed any more.
LEMMA FailSafe ==
  ASSUME ThumbnailSafe, NEW a \in Attempts,
         \/ Th!FailVariant(a)
         \/ Th!CommitVariant(a) /\ writer' = [writer EXCEPT ![a].at = "fail"] /\ UNCHANGED <<variant, cleanup>>
  PROVE  ThumbnailSafe'
<1> DEFINE ended == [state |-> "failed", owner |-> Nobody]
<1>1. ThumbnailInv /\ ThumbnailTypeOK /\ AttemptOK(a) /\ writer[a].at \in {"commit", "fail"}
  BY DEF ThumbnailSafe, ThumbnailInv, Th!FailVariant, Th!CommitVariant
<1>2. UNCHANGED <<image, variant, stored, cleaner, deletion, collector, mishaps>>
  BY DEF Th!FailVariant, Th!CommitVariant, Th!cleaning, Th!collecting
<1>3. /\ writer' \in [Attempts -> WriterRow] /\ \A b \in Attempts : b # a => writer'[b] = writer[b]
      /\ writer'[a].at = "end" \/ (writer'[a].at = "fail" /\ cleanup' = cleanup)
  BY <1>1, WriterMoves DEF Th!FailVariant
<1>4. /\ cleanup' \in [Attempts -> CleanupRow] /\ \A b \in Attempts : b # a => cleanup'[b] = cleanup[b]
      /\ cleanup'[a] = cleanup[a] \/ (Th!Owns(a, a) /\ cleanup'[a] = ended)
  <2>1. cleanup' = cleanup \/ (Th!Owns(a, a) /\ cleanup' = [cleanup EXCEPT ![a] = ended])
    BY DEF Th!FailVariant
  <2>2. ended \in CleanupRow
    BY DEF CleanupRow
  <2> QED BY <1>1, <2>1, <2>2 DEF ThumbnailTypeOK
<1>5. AttemptStep(a)
  BY <1>1, <1>2, <1>3, <1>4 DEF AttemptStep, ThumbnailTypeOK
<1>6. AttemptOK(a)'
  <2>1. cleanup'[a] = cleanup[a] \/ (cleanup'[a].state = "failed" /\ ~Th!Owns(a, a)')
    BY <1>4 DEF Th!Owns
  <2> QED BY <1>1, <1>2, <1>3, <2>1 DEF AttemptOK, Abandoned, Th!Owns
<1>7. LeaseInv => LeaseInv'
  <2> SUFFICES ASSUME LeaseInv PROVE LeaseInv'
    OBVIOUS
  <2>1. Th!Owns(a, a) /\ cleanup[a].state = "running" /\ Abandoned(a)
    BY <1>1 DEF LeaseInv, Th!Owns, AttemptOK
  <2>2. cleanup'[a].state \in {"running", "failed"}
    BY <1>4, <2>1
  <2>3. writer'[a].at \in {"put", "commit", "fail"} => Th!Owns(a, a)'
    BY <1>3, <2>1 DEF Th!Owns
  <2>4. Abandoned(a) \/ (cleanup'[a] = cleanup[a] /\ stored' = stored)
    BY <2>1 DEF Abandoned
  <2> QED BY <1>1, <1>5, <2>2, <2>3, <2>4, AttemptStepLease
<1> QED BY <1>1, <1>2, <1>5, <1>6, <1>7, AttemptStepInv DEF ThumbnailSafe

\* The transaction that publishes: the attempt owns its removal, so nobody has
\* claimed it, its bytes are there and no collector has listed it.
LEMMA CommitVariantSafe ==
  ASSUME ThumbnailSafe, NEW a \in Attempts, Th!CommitVariant(a)
  PROVE  ThumbnailSafe'
<1> DEFINE ended == [state |-> "succeeded", owner |-> Nobody]
<1>1. ThumbnailInv /\ ThumbnailTypeOK /\ AttemptOK(a) /\ writer[a].at = "commit"
  BY DEF ThumbnailSafe, ThumbnailInv, Th!CommitVariant
<1>2. CASE ~(Th!Owns(a, a) /\ Th!Current(writer[a].life) /\ variant = Nobody)
  BY <1>2, FailSafe DEF Th!CommitVariant
<1>3. CASE Th!Owns(a, a) /\ Th!Current(writer[a].life) /\ variant = Nobody
  <2>1. /\ variant' = a /\ writer' = [writer EXCEPT ![a].at = "end"] /\ cleanup' = [cleanup EXCEPT ![a] = ended]
        /\ UNCHANGED <<image, stored, cleaner, deletion, collector, mishaps>>
    BY <1>3 DEF Th!CommitVariant, Th!cleaning, Th!collecting
  <2>2. a \in stored /\ Abandoned(a) /\ image.status = "ready" /\ a # Nobody
    BY <1>1, <1>3, WorkerNames DEF AttemptOK, Th!Current
  <2>3. /\ writer' \in [Attempts -> WriterRow] /\ writer'[a].at = "end"
        /\ \A b \in Attempts : b # a => writer'[b] = writer[b]
    BY <1>1, <2>1, WriterMoves
  <2>4. /\ cleanup' \in [Attempts -> CleanupRow] /\ cleanup'[a] = ended
        /\ \A b \in Attempts : b # a => cleanup'[b] = cleanup[b]
    <3>1. ended \in CleanupRow
      BY DEF CleanupRow
    <3> QED BY <1>1, <2>1, <3>1 DEF ThumbnailTypeOK
  <2>5. cleanup'[a].state = "succeeded" /\ ~Th!Owns(a, a)'
    BY <2>4 DEF Th!Owns
  <2> HIDE DEF ended
  <2>6. ThumbnailTypeOK'
    BY <1>1, <2>1, <2>3, <2>4 DEF ThumbnailTypeOK
  <2>7. ~Settled(a) /\ Settled(a)' /\ \A b \in Attempts : Settled(b) => Settled(b)'
    BY <1>1, <2>1, <2>2, <2>3, <2>4, <2>5 DEF Settled, Abandoned
  <2>8. ImageInv'
    BY <1>1, <2>1, <2>2, <2>7 DEF ThumbnailInv, ImageInv
  <2>9. ASSUME NEW b \in Attempts PROVE AttemptOK(b)'
    <3>1. AttemptOK(b)
      BY <1>1 DEF ThumbnailInv
    <3>2. CASE b = a
      BY <2>3, <2>5, <3>2 DEF AttemptOK
    <3>3. CASE b # a
      BY <2>1, <2>3, <2>4, <3>1, <3>3 DEF AttemptOK, Abandoned, Th!Owns
    <3> QED BY <3>2, <3>3
  <2>10. ASSUME NEW g \in Collectors PROVE CollectorOK(g)'
    <3>1. CollectorOK(g) /\ collector[g].todo \in SUBSET Attempts
      BY <1>1, ThumbnailFields DEF ThumbnailInv
    <3>2. ~Th!Deleting(g)' /\ a \notin collector[g].todo
      BY <2>1, <2>2, <2>7, <3>1 DEF Th!Deleting, CollectorOK
    <3> QED BY <2>1, <2>7, <3>1, <3>2 DEF CollectorOK
  <2>11. LeaseInv => LeaseInv'
    <3> SUFFICES ASSUME LeaseInv PROVE LeaseInv'
      OBVIOUS
    <3>1. \A b \in Attempts : writer'[b].at \in {"put", "commit", "fail"} => Th!Owns(b, b)'
      BY <2>3, <2>4 DEF LeaseInv, Th!Owns
    <3>2. \A c \in Cleaners : cleaner[c] # Th!Free => cleaner[c].attempt \in Attempts /\ cleaner[c].attempt # a
      BY <1>1, <2>2, ThumbnailFields DEF Abandoned
    <3>3. \A c \in Cleaners : cleaner'[c] # Th!Free => Th!Owns(c, cleaner[c].attempt)'
      BY <2>1, <2>4, <3>2 DEF LeaseInv, Th!Owns
    <3>4. \A b \in stored' : variant' = b \/ cleanup'[b].state \in {"running", "failed"}
      BY <1>1, <1>3, <2>1, <2>4, WorkerNames DEF LeaseInv, ThumbnailTypeOK
    <3>5. \A c \in Cleaners : cleaner'[c].at = "mark" => cleaner'[c].attempt \notin stored'
      BY <2>1 DEF LeaseInv
    <3> QED BY <3>1, <3>3, <3>4, <3>5 DEF LeaseInv
  <2> QED BY <2>1, <2>6, <2>8, <2>9, <2>10, <2>11 DEF ThumbnailSafe, ThumbnailInv
<1> QED BY <1>2, <1>3

-----------------------------------------------------------------------------
(* Thumbnails: the cleanup *)

\* A step of a cleaner on an attempt that is not settled: it may take or end the
\* attempt's operation and remove its bytes.
CleanerStep(c, a) ==
  /\ UNCHANGED <<image, variant, writer, deletion, collector>>
  /\ cleanup[a].state # "absent" /\ ~Settled(a)
  /\ cleaner' \in [Cleaners -> CleanerRow] /\ cleanup' \in [Attempts -> CleanupRow]
  /\ cleaner'[c].attempt \in {a, Nobody} /\ cleaner[c].attempt \in {a, Nobody}
  /\ \A d \in Cleaners : d # c => cleaner'[d] = cleaner[d]
  /\ \A b \in Attempts : b # a => cleanup'[b] = cleanup[b]
  /\ cleanup'[a].state # "absent" /\ ~Th!Owns(a, a)'
  /\ stored' \in {stored, stored \ {a}}
  /\ mishaps'.outlived \in BOOLEAN

LEMMA CleanerStepInv ==
  ASSUME ThumbnailInv, NEW c \in Cleaners, NEW a \in Attempts, CleanerStep(c, a)
  PROVE  ThumbnailInv'
<1>1. ThumbnailTypeOK'
  BY DEF ThumbnailInv, ThumbnailTypeOK, CleanerStep
<1>2. \A b \in Attempts : b # a => (Abandoned(b) => Abandoned(b)')
  BY WorkerNames DEF CleanerStep, Abandoned
<1>3. \A b \in Attempts : Settled(b) => b # a /\ Settled(b)'
  BY <1>2 DEF CleanerStep, Settled
<1>4. variant # a
  BY WorkerNames DEF ThumbnailInv, ImageInv, CleanerStep
<1>5. ImageInv'
  BY <1>3, <1>4 DEF ThumbnailInv, ThumbnailTypeOK, ImageInv, CleanerStep
<1>6. ASSUME NEW b \in Attempts PROVE AttemptOK(b)'
  <2>1. AttemptOK(b)
    BY DEF ThumbnailInv
  <2>2. CASE b = a
    BY <2>1, <2>2 DEF CleanerStep, AttemptOK
  <2>3. CASE b # a
    BY <1>2, <2>1, <2>3 DEF CleanerStep, AttemptOK, Th!Owns
  <2> QED BY <2>2, <2>3
<1>7. ASSUME NEW g \in Collectors PROVE CollectorOK(g)'
  <2>1. CollectorOK(g) /\ collector[g].todo \in SUBSET Attempts
    BY ThumbnailFields DEF ThumbnailInv
  <2>2. variant \in stored' <=> variant \in stored
    BY <1>4 DEF CleanerStep
  <2> QED BY <1>3, <2>1, <2>2 DEF CleanerStep, CollectorOK, Th!Deleting
<1> QED BY <1>1, <1>5, <1>6, <1>7 DEF ThumbnailInv

\* Without an outlived lease the cleaner is alone on the attempt.
LEMMA CleanerStepLease ==
  ASSUME ThumbnailInv, LeaseInv, NEW c \in Cleaners, NEW a \in Attempts, CleanerStep(c, a),
         writer[a].at \notin {"put", "commit", "fail"},
         \A d \in Cleaners : d # c => cleaner[d].attempt # a,
         cleaner'[c] # Th!Free => cleaner'[c].attempt = a /\ cleanup'[a] = [state |-> "running", owner |-> c],
         cleaner'[c].at = "mark" => a \notin stored',
         a \in stored' => cleanup'[a].state \in {"running", "failed"}
  PROVE  LeaseInv'
<1>1. \A b \in Attempts : writer'[b].at \in {"put", "commit", "fail"} => Th!Owns(b, b)'
  BY DEF LeaseInv, CleanerStep, Th!Owns
<1>2. ASSUME NEW d \in Cleaners
      PROVE  /\ cleaner'[d] # Th!Free => Th!Owns(d, cleaner[d].attempt)'
             /\ cleaner'[d].at = "mark" => cleaner'[d].attempt \notin stored'
  <2>1. /\ cleaner[d] # Th!Free => cleaner[d].attempt \in Attempts
        /\ cleaner[d].at = "mark" => cleaner[d] # Th!Free
    BY ThumbnailFields DEF ThumbnailInv
  <2>2. CASE d # c
    <3>1. cleaner'[d] = cleaner[d] /\ cleaner[d].attempt # a
      BY <2>2 DEF CleanerStep
    <3> QED BY <2>1, <3>1 DEF LeaseInv, CleanerStep, Th!Owns
  <2>3. CASE d = c
    <3>1. ThumbnailTypeOK'
      BY CleanerStepInv DEF ThumbnailInv
    <3>2. cleaner'[d].at = "mark" => cleaner'[d] # Th!Free
      BY <3>1 DEF ThumbnailTypeOK, CleanerRow, Th!Free
    <3> QED BY <2>3, <3>2 DEF Th!Owns
  <2> QED BY <2>2, <2>3
<1>3. \A b \in stored' : variant' = b \/ cleanup'[b].state \in {"running", "failed"}
  BY DEF LeaseInv, CleanerStep, ThumbnailInv, ThumbnailTypeOK
<1> QED BY <1>1, <1>2, <1>3 DEF LeaseInv

\* The cleaner's row after a step.
LEMMA CleanerMoves ==
  ASSUME ThumbnailTypeOK, NEW c \in Cleaners, NEW r \in CleanerRow, cleaner' = [cleaner EXCEPT ![c] = r]
  PROVE  /\ cleaner' \in [Cleaners -> CleanerRow] /\ cleaner'[c] = r
         /\ \A d \in Cleaners : d # c => cleaner'[d] = cleaner[d]
  BY DEF ThumbnailTypeOK

\* What a cleaner at work knows, and what it knows without an outlived lease.
LEMMA CleanerKnows ==
  ASSUME ThumbnailInv, NEW c \in Cleaners, cleaner[c] # Th!Free
  PROVE  LET a == cleaner[c].attempt IN
         /\ a \in Attempts /\ ~Settled(a) /\ cleanup[a].state # "absent" /\ ~Th!Owns(a, a)
         /\ variant # a
         /\ LeaseInv => /\ Th!Owns(c, a) /\ writer[a].at \notin {"put", "commit", "fail"}
                        /\ \A d \in Cleaners : d # c => cleaner[d].attempt # a
<1> DEFINE a == cleaner[c].attempt
<1>1. a \in Attempts /\ ~Abandoned(a)
  BY ThumbnailFields DEF ThumbnailInv, Abandoned
<1>2. ~Settled(a) /\ cleanup[a].state # "absent" /\ ~Th!Owns(a, a)
  BY <1>1 DEF ThumbnailInv, AttemptOK, Settled
<1>3. variant # a
  BY <1>1, <1>2, WorkerNames DEF ThumbnailInv, ImageInv
<1>4. LeaseInv => /\ Th!Owns(c, a) /\ writer[a].at \notin {"put", "commit", "fail"}
                  /\ \A d \in Cleaners : d # c => cleaner[d].attempt # a
  <2> SUFFICES ASSUME LeaseInv PROVE /\ Th!Owns(c, a) /\ writer[a].at \notin {"put", "commit", "fail"}
                                     /\ \A d \in Cleaners : d # c => cleaner[d].attempt # a
    OBVIOUS
  <2>1. Th!Owns(c, a)
    BY DEF LeaseInv
  <2>2. writer[a].at \notin {"put", "commit", "fail"}
    BY <1>1, <1>2 DEF LeaseInv
  <2>3. ASSUME NEW d \in Cleaners, d # c, cleaner[d].attempt = a PROVE FALSE
    <3>1. cleaner[d] # Th!Free
      BY <1>1, <2>3, WorkerNames DEF Th!Free
    <3>2. Th!Owns(d, a)
      BY <2>3, <3>1 DEF LeaseInv
    <3> QED BY <2>1, <2>3, <3>2 DEF Th!Owns
  <2> QED BY <2>1, <2>2, <2>3
<1> QED BY <1>1, <1>2, <1>3, <1>4

\* A claim of an operation that failed or whose owner is gone or slow.
LEMMA ClaimCleanupSafe ==
  ASSUME ThumbnailSafe, NEW c \in Cleaners, NEW a \in Attempts, Th!ClaimCleanup(c, a)
  PROVE  ThumbnailSafe'
<1> DEFINE mine == [state |-> "running", owner |-> c]
           work == [at |-> "adopted", attempt |-> a]
<1>1. /\ ThumbnailInv /\ ThumbnailTypeOK /\ cleaner[c] = Th!Free /\ cleanup[a].state \in {"failed", "running"}
      /\ UNCHANGED <<image, variant, writer, stored, deletion, collector>>
      /\ cleanup' = [cleanup EXCEPT ![a] = mine] /\ cleaner' = [cleaner EXCEPT ![c] = work]
  BY DEF ThumbnailSafe, ThumbnailInv, Th!ClaimCleanup, Th!writing, Th!collecting
<1>2. c # a /\ mine \in CleanupRow /\ work \in CleanerRow
  BY WorkerNames DEF CleanupRow, CleanerRow
<1>3. /\ cleanup' \in [Attempts -> CleanupRow] /\ cleanup'[a] = mine
      /\ \A b \in Attempts : b # a => cleanup'[b] = cleanup[b]
  BY <1>1, <1>2 DEF ThumbnailTypeOK
<1>4. /\ cleaner' \in [Cleaners -> CleanerRow] /\ cleaner'[c] = work
      /\ \A d \in Cleaners : d # c => cleaner'[d] = cleaner[d]
  BY <1>1, <1>2, CleanerMoves
<1>5. mishaps'.outlived \in BOOLEAN /\ (mishaps.outlived => mishaps'.outlived)
  BY <1>1, FaultSteps DEF Th!ClaimCleanup
<1>6. CleanerStep(c, a)
  <2>1. cleanup'[a].state # "absent" /\ ~Th!Owns(a, a)'
    BY <1>2, <1>3 DEF Th!Owns
  <2>2. cleaner[c].attempt = Nobody /\ cleaner'[c].attempt = a
    BY <1>1, <1>4 DEF Th!Free
  <2> QED BY <1>1, <1>3, <1>4, <1>5, <2>1, <2>2 DEF CleanerStep, Settled
<1>7. ASSUME LeaseInv, ~mishaps'.outlived PROVE LeaseInv'
  <2>1. ~(cleanup[a].state = "running" /\ Th!Working(cleanup[a].owner, a))
    <3>1. ~Th!Fault(TRUE)
      BY <1>1, <1>7, FaultSteps
    <3> QED BY <3>1 DEF Th!ClaimCleanup
  <2>2. writer[a].at \notin {"put", "commit", "fail"}
    <3> SUFFICES ASSUME writer[a].at \in {"put", "commit", "fail"} PROVE FALSE
      OBVIOUS
    <3>1. cleanup[a] = [state |-> "running", owner |-> a]
      BY <1>7 DEF LeaseInv, Th!Owns
    <3>2. Th!Working(a, a)
      BY DEF Th!Working
    <3> QED BY <2>1, <3>1, <3>2
  <2>3. ASSUME NEW d \in Cleaners, d # c, cleaner[d].attempt = a PROVE FALSE
    <3>1. cleaner[d] # Th!Free
      BY <2>3, WorkerNames DEF Th!Free
    <3>2. Th!Owns(d, a)
      BY <1>7, <2>3, <3>1 DEF LeaseInv
    <3> QED BY <2>1, <2>3, <3>2 DEF Th!Owns, Th!Working
  <2>4. cleaner'[c].at # "mark" /\ cleaner'[c].attempt = a /\ cleanup'[a].state = "running"
    BY <1>3, <1>4
  <2> QED BY <1>1, <1>3, <1>6, <1>7, <2>2, <2>3, <2>4, CleanerStepLease
<1> QED BY <1>1, <1>5, <1>6, <1>7, CleanerStepInv DEF ThumbnailSafe

\* The steps of a cleaner on the attempt it has claimed.
LEMMA CleanerSafe ==
  ASSUME ThumbnailSafe, NEW c \in Cleaners,
         Th!CheckAdopted(c) \/ Th!RemoveAttempt(c) \/ Th!MarkCleaned(c) \/ Th!CleanerCrash(c)
  PROVE  ThumbnailSafe'
<1> DEFINE done == [state |-> "succeeded", owner |-> Nobody]
<1>1. ThumbnailInv /\ ThumbnailTypeOK /\ cleaner[c] # Th!Free
  <2>1. cleaner[c].at # "idle" \/ cleaner[c] # Th!Free
    BY DEF Th!CheckAdopted, Th!RemoveAttempt, Th!MarkCleaned, Th!CleanerCrash
  <2> QED BY <2>1, ThumbnailFields DEF ThumbnailSafe, ThumbnailInv
<1>2. PICK a \in Attempts : a = cleaner[c].attempt
  BY <1>1, CleanerKnows
<1>3. /\ a \in Attempts /\ ~Settled(a) /\ cleanup[a].state # "absent" /\ ~Th!Owns(a, a) /\ variant # a
      /\ LeaseInv => /\ Th!Owns(c, a) /\ writer[a].at \notin {"put", "commit", "fail"}
                     /\ \A d \in Cleaners : d # c => cleaner[d].attempt # a
  BY <1>1, <1>2, CleanerKnows
<1>4. UNCHANGED <<image, variant, writer, deletion, collector>>
  BY DEF Th!CheckAdopted, Th!RemoveAttempt, Th!MarkCleaned, Th!CleanerCrash, Th!writing, Th!collecting
<1>5. mishaps'.outlived \in BOOLEAN /\ (mishaps.outlived => mishaps'.outlived)
  BY <1>1, FaultSteps DEF Th!CheckAdopted, Th!RemoveAttempt, Th!MarkCleaned, Th!CleanerCrash
<1>6. cleaner[c] \in [at : {"adopted", "remove", "mark"}, attempt : Attempts]
  BY <1>1 DEF ThumbnailTypeOK, CleanerRow
<1>7. PICK r \in CleanerRow : /\ cleaner' = [cleaner EXCEPT ![c] = r]
                              /\ \/ r = Th!Free
                                 \/ r.attempt = a /\ r.at \in {"remove", "mark"} /\ r # Th!Free
  <2>1. CASE Th!MarkCleaned(c) \/ Th!CleanerCrash(c)
    BY <2>1 DEF Th!MarkCleaned, Th!CleanerCrash, CleanerRow
  <2>2. CASE Th!CheckAdopted(c) \/ Th!RemoveAttempt(c)
    <3> DEFINE at == IF Th!CheckAdopted(c) /\ variant # a THEN "remove" ELSE "mark"
               r == [cleaner[c] EXCEPT !.at = at]
    <3>1. cleaner' = [cleaner EXCEPT ![c].at = at]
      BY <1>2, <1>3, <2>2 DEF Th!CheckAdopted, Th!RemoveAttempt
    <3>2. cleaner' = [cleaner EXCEPT ![c] = r]
      BY <3>1
    <3>3. r.attempt = a /\ r.at \in {"remove", "mark"} /\ r \in CleanerRow /\ r # Th!Free
      BY <1>2, <1>6 DEF CleanerRow, Th!Free
    <3> QED BY <3>2, <3>3
  <2> QED BY <2>1, <2>2
<1>8. /\ cleaner' \in [Cleaners -> CleanerRow] /\ cleaner'[c] = r
      /\ \A d \in Cleaners : d # c => cleaner'[d] = cleaner[d]
  BY <1>1, <1>7, CleanerMoves
<1>9. /\ cleanup' \in [Attempts -> CleanupRow] /\ \A b \in Attempts : b # a => cleanup'[b] = cleanup[b]
      /\ \/ cleanup'[a] = cleanup[a]
         \/ Th!MarkCleaned(c) /\ Th!Owns(c, a) /\ cleanup'[a] = done
  <2>1. done \in CleanupRow
    BY DEF CleanupRow
  <2>2. cleanup' = cleanup \/ (Th!MarkCleaned(c) /\ Th!Owns(c, a) /\ cleanup' = [cleanup EXCEPT ![a] = done])
    BY <1>2 DEF Th!CheckAdopted, Th!RemoveAttempt, Th!MarkCleaned, Th!CleanerCrash
  <2> QED BY <1>1, <1>3, <2>1, <2>2 DEF ThumbnailTypeOK
<1>10. stored' = stored \/ (Th!RemoveAttempt(c) /\ stored' = stored \ {a})
  BY <1>2 DEF Th!CheckAdopted, Th!RemoveAttempt, Th!MarkCleaned, Th!CleanerCrash
<1>11. CleanerStep(c, a)
  <2>1. cleanup'[a].state # "absent" /\ ~Th!Owns(a, a)'
    BY <1>3, <1>9 DEF Th!Owns
  <2>2. cleaner'[c].attempt \in {a, Nobody}
    BY <1>7, <1>8 DEF Th!Free
  <2> QED BY <1>2, <1>3, <1>4, <1>5, <1>8, <1>9, <1>10, <2>1, <2>2 DEF CleanerStep
<1>12. ASSUME LeaseInv PROVE LeaseInv'
  <2>1. /\ cleanup[a] = [state |-> "running", owner |-> c] /\ writer[a].at \notin {"put", "commit", "fail"}
        /\ \A d \in Cleaners : d # c => cleaner[d].attempt # a
    BY <1>3, <1>12 DEF Th!Owns
  <2>2. cleaner'[c] # Th!Free => cleaner'[c].attempt = a /\ cleanup'[a] = [state |-> "running", owner |-> c]
    <3>1. Th!MarkCleaned(c) => cleaner'[c] = Th!Free
      BY <1>1 DEF Th!MarkCleaned, ThumbnailTypeOK
    <3> QED BY <1>7, <1>8, <1>9, <2>1, <3>1
  <2>3. cleaner'[c].at = "mark" => a \notin stored'
    <3>1. CASE Th!CheckAdopted(c)
      BY <1>1, <1>2, <1>3, <3>1 DEF Th!CheckAdopted, ThumbnailTypeOK
    <3>2. CASE Th!RemoveAttempt(c)
      BY <1>2, <3>2 DEF Th!RemoveAttempt
    <3>3. CASE Th!MarkCleaned(c) \/ Th!CleanerCrash(c)
        <4>1. cleaner' = [cleaner EXCEPT ![c] = Th!Free]
          BY <3>3 DEF Th!MarkCleaned, Th!CleanerCrash
        <4>2. cleaner'[c] = Th!Free
          BY <1>1, <4>1 DEF ThumbnailTypeOK
        <4> QED BY <4>2 DEF Th!Free
    <3> QED BY <3>1, <3>2, <3>3
  <2>4. a \in stored' => cleanup'[a].state \in {"running", "failed"}
    <3>1. Th!MarkCleaned(c) => a \notin stored /\ stored' = stored
      BY <1>2, <1>12 DEF Th!MarkCleaned, LeaseInv
    <3> QED BY <1>9, <2>1, <3>1
  <2> QED BY <1>1, <1>3, <1>11, <1>12, <2>1, <2>2, <2>3, <2>4, CleanerStepLease
<1> QED BY <1>1, <1>3, <1>5, <1>11, <1>12, CleanerStepInv DEF ThumbnailSafe

-----------------------------------------------------------------------------
(* Thumbnails: the object's deletion and its next life *)

\* A step that leaves the attempts and the cleaners alone.
DeletionStep ==
  /\ UNCHANGED <<cleanup, writer, cleaner>>
  /\ stored' \subseteq stored /\ \A a \in stored : a \in stored' \/ Settled(a)
  /\ variant' = variant \/ (variant' = Nobody /\ variant \notin stored)
  /\ mishaps.outlived => mishaps'.outlived

LEMMA DeletionStepSafe ==
  ASSUME ThumbnailSafe, DeletionStep, ThumbnailTypeOK', ImageInv',
         \A g \in Collectors : CollectorOK(g)'
  PROVE  ThumbnailSafe'
<1>1. ASSUME NEW a \in Attempts PROVE AttemptOK(a)'
  <2>1. AttemptOK(a)
    BY DEF ThumbnailSafe, ThumbnailInv
  <2> QED BY <2>1 DEF DeletionStep, AttemptOK, Abandoned, Settled, Th!Owns
<1>2. ASSUME LeaseInv PROVE LeaseInv'
  <2>1. \A a \in Attempts : writer'[a].at \in {"put", "commit", "fail"} => Th!Owns(a, a)'
    BY <1>2 DEF LeaseInv, DeletionStep, Th!Owns
  <2>2. \A c \in Cleaners : cleaner'[c] # Th!Free => Th!Owns(c, cleaner[c].attempt)'
    BY <1>2 DEF LeaseInv, DeletionStep, Th!Owns
  <2>3. \A c \in Cleaners : cleaner'[c].at = "mark" => cleaner'[c].attempt \notin stored'
    BY <1>2 DEF LeaseInv, DeletionStep
  <2>4. \A a \in stored' : variant' = a \/ cleanup'[a].state \in {"running", "failed"}
    BY <1>2 DEF LeaseInv, DeletionStep
  <2> QED BY <2>1, <2>2, <2>3, <2>4 DEF LeaseInv
<1>3. mishaps.outlived => mishaps'.outlived
  BY DEF DeletionStep
<1> QED BY <1>1, <1>2, <1>3 DEF ThumbnailSafe, ThumbnailInv

LEMMA SettledStays ==
  ASSUME DeletionStep
  PROVE  \A a \in Attempts : Settled(a) => Settled(a)'
  BY DEF DeletionStep, Settled, Abandoned

\* The object is given up, or uploaded again: no collector works on a life that
\* has not begun to end.
LEMMA LifeSafe ==
  ASSUME ThumbnailSafe, Th!GarbageCollect \/ Th!Revive
  PROVE  ThumbnailSafe'
<1>1. ThumbnailInv /\ ThumbnailTypeOK
  BY DEF ThumbnailSafe, ThumbnailInv
<1>2. UNCHANGED <<variant, writer, stored, cleanup, cleaner, collector, mishaps>>
  BY DEF Th!GarbageCollect, Th!Revive, Th!writing, Th!cleaning
<1>3. image.status \in {"ready", "deleting", "deleted"} /\ image.life \in Nat
  BY <1>1 DEF ThumbnailTypeOK
<1>4. \/ image.status = "ready" /\ image'.status = "deleting" /\ image'.life = image.life
      \/ image.status = "deleted" /\ image'.status = "ready" /\ image'.life = image.life + 1
  BY <1>1 DEF Th!GarbageCollect, Th!Revive, ThumbnailTypeOK
<1>5. image' \in [status : {"ready", "deleting", "deleted"}, life : Nat]
  BY <1>1 DEF Th!GarbageCollect, Th!Revive, ThumbnailTypeOK
<1>6. deletion' \in DeletionRow /\ (deletion'.state \in {"pending", "running"} => image'.status = "deleting")
  BY <1>1 DEF Th!GarbageCollect, Th!Revive, ThumbnailTypeOK, DeletionRow
<1>7. ThumbnailTypeOK'
  BY <1>1, <1>2, <1>5, <1>6 DEF ThumbnailTypeOK
<1>8. DeletionStep
  BY <1>2 DEF DeletionStep
<1>9. variant = Nobody \/ (variant \in Attempts /\ Settled(variant) /\ Settled(variant)')
  BY <1>1, <1>2, <1>8, SettledStays DEF ThumbnailInv, ThumbnailTypeOK, ImageInv
<1>10. ImageInv'
  <2>1. variant' # Nobody => Settled(variant)'
    BY <1>2, <1>9
  <2> QED BY <1>1, <1>2, <1>4, <1>6, <2>1 DEF ThumbnailInv, ImageInv
<1>11. ASSUME NEW g \in Collectors PROVE CollectorOK(g)'
  <2>1. CollectorOK(g) /\ collector[g].life \in Nat /\ collector[g].todo \in SUBSET Attempts
    BY <1>1, ThumbnailFields DEF ThumbnailInv
  <2>2. /\ collector[g] # Th!Waiting => collector[g].life < image'.life
        /\ collector[g].at \in {"remove", "commit"} => collector[g] # Th!Waiting
    BY <1>3, <1>4, <2>1 DEF CollectorOK, Th!Waiting
  <2>3. collector[g].at \in {"remove", "commit"} => ~Th!Deleting(g)'
    BY <1>2, <1>3, <1>4, <2>1, <2>2 DEF Th!Deleting
  <2>4. \A a \in collector[g].todo : Settled(a)'
    BY <1>8, <2>1, SettledStays DEF CollectorOK
  <2>5. variant \in collector[g].todo => image'.status # "ready"
    BY <1>1, <1>4, <2>1, WorkerNames DEF ThumbnailInv, ImageInv
  <2> QED BY <1>2, <2>2, <2>3, <2>4, <2>5 DEF CollectorOK
<1> QED BY <1>7, <1>8, <1>10, <1>11, DeletionStepSafe

\* The collector's row after a step.
LEMMA CollectorMoves ==
  ASSUME ThumbnailTypeOK, NEW g \in Collectors, NEW r \in CollectorRow, collector' = [collector EXCEPT ![g] = r]
  PROVE  /\ collector' \in [Collectors -> CollectorRow] /\ collector'[g] = r
         /\ \A h \in Collectors : h # g => collector'[h] = collector[h]
  BY DEF ThumbnailTypeOK

\* A step of one collector that leaves the object and its thumbnail, and removes at
\* most what it has listed.
CollectorStep(g) ==
  /\ UNCHANGED <<image, variant, cleanup, writer, cleaner>>
  /\ stored' \in {stored, stored \ collector[g].todo}
  /\ deletion' \in DeletionRow /\ (deletion'.state \in {"pending", "running"} => image.status = "deleting")
  /\ collector' \in [Collectors -> CollectorRow]
  /\ \A h \in Collectors : h # g => collector'[h] = collector[h]
  /\ mishaps'.outlived \in BOOLEAN /\ (mishaps.outlived => mishaps'.outlived)

LEMMA CollectorStepSafe ==
  ASSUME ThumbnailSafe, NEW g \in Collectors, CollectorStep(g), CollectorOK(g)'
  PROVE  ThumbnailSafe'
<1>1. ThumbnailInv /\ ThumbnailTypeOK /\ CollectorOK(g)
  BY DEF ThumbnailSafe, ThumbnailInv
<1>2. ThumbnailTypeOK'
  BY <1>1 DEF ThumbnailTypeOK, CollectorStep
<1>3. DeletionStep
  BY <1>1 DEF DeletionStep, CollectorStep, CollectorOK
<1>4. \A a \in Attempts : Settled(a) => Settled(a)'
  BY <1>3, SettledStays
<1>5. ImageInv'
  <2>1. variant' # Nobody => Settled(variant)'
    BY <1>1 DEF ThumbnailInv, ImageInv, CollectorStep, Settled, Abandoned
  <2> QED BY <1>1, <2>1 DEF ThumbnailInv, ImageInv, CollectorStep, CollectorOK
<1>6. ASSUME NEW h \in Collectors PROVE CollectorOK(h)'
  <2>1. CASE h = g
    BY <2>1
  <2>2. CASE h # g
    <3>1. CollectorOK(h) /\ collector[h].todo \in SUBSET Attempts
      BY <1>1, ThumbnailFields DEF ThumbnailInv
    <3> QED BY <1>4, <2>2, <3>1 DEF CollectorStep, CollectorOK, Th!Deleting
  <2> QED BY <2>1, <2>2
<1> QED BY <1>2, <1>3, <1>5, <1>6, DeletionStepSafe

\* A collector without work: after a crash, or when the deletion is put off.
LEMMA WaitingOK ==
  ASSUME NEW g \in Collectors, collector'[g] = Th!Waiting
  PROVE  CollectorOK(g)'
  BY DEF CollectorOK, Th!Waiting

LEMMA ClaimDeleteSafe ==
  ASSUME ThumbnailSafe, NEW g \in Collectors, Th!ClaimDelete(g)
  PROVE  ThumbnailSafe'
<1> DEFINE r == [at |-> "check", life |-> image.life, todo |-> {}]
<1>1. ThumbnailInv /\ ThumbnailTypeOK
  BY DEF ThumbnailSafe, ThumbnailInv
<1>2. /\ UNCHANGED <<image, variant, stored, cleanup, writer, cleaner>>
      /\ deletion' = [state |-> "running", owner |-> g] /\ collector' = [collector EXCEPT ![g] = r]
  BY DEF Th!ClaimDelete, Th!writing, Th!cleaning
<1>3. image.status = "deleting" /\ image.life \in Nat
  BY <1>1 DEF Th!ClaimDelete, ThumbnailInv, ThumbnailTypeOK, ImageInv
<1>4. r \in CollectorRow
  BY <1>3 DEF CollectorRow
<1>5. /\ collector' \in [Collectors -> CollectorRow] /\ collector'[g] = r
      /\ \A h \in Collectors : h # g => collector'[h] = collector[h]
  BY <1>1, <1>2, <1>4, CollectorMoves
<1>6. mishaps'.outlived \in BOOLEAN /\ (mishaps.outlived => mishaps'.outlived)
  BY <1>1, FaultSteps DEF Th!ClaimDelete
<1>7. CollectorStep(g)
  BY <1>2, <1>3, <1>5, <1>6 DEF CollectorStep, DeletionRow
<1>8. CollectorOK(g)'
  <2>1. collector'[g].at = "check" /\ collector'[g].life = image.life /\ collector'[g].todo = {}
    BY <1>5
  <2> QED BY <1>2, <1>3, <2>1 DEF CollectorOK
<1> QED BY <1>7, <1>8, CollectorStepSafe

\* CheckWriters, the listing and the removal: the thumbnail of a life that ends is
\* listed, and stays the only one of that life.
LEMMA CollectorWorkSafe ==
  ASSUME ThumbnailSafe, NEW g \in Collectors,
         Th!CheckWriters(g) \/ Th!ListVariants(g) \/ Th!RemoveObjects(g) \/ Th!CollectorCrash(g)
  PROVE  ThumbnailSafe'
<1>1. ThumbnailInv /\ ThumbnailTypeOK /\ CollectorOK(g)
  BY DEF ThumbnailSafe, ThumbnailInv
<1>2. /\ UNCHANGED <<image, variant, cleanup, writer, cleaner>>
      /\ stored' \in {stored, stored \ collector[g].todo}
  BY DEF Th!CheckWriters, Th!ListVariants, Th!RemoveObjects, Th!CollectorCrash, Th!writing, Th!cleaning
<1>3. mishaps'.outlived \in BOOLEAN /\ (mishaps.outlived => mishaps'.outlived)
  BY <1>1, FaultSteps DEF Th!CheckWriters, Th!ListVariants, Th!RemoveObjects, Th!CollectorCrash
<1>4. deletion' \in DeletionRow /\ (deletion'.state \in {"pending", "running"} => image.status = "deleting")
  <2>1. deletion' = deletion \/ (Th!OwnsDelete(g) /\ deletion' = [state |-> "pending", owner |-> Nobody])
    BY DEF Th!CheckWriters, Th!ListVariants, Th!RemoveObjects, Th!CollectorCrash
  <2>2. Th!OwnsDelete(g) => image.status = "deleting"
    BY DEF Th!OwnsDelete, Th!Deleting
  <2> QED BY <1>1, <2>1, <2>2 DEF ThumbnailInv, ThumbnailTypeOK, ImageInv, DeletionRow
<1>5. CASE collector' = [collector EXCEPT ![g] = Th!Waiting]
  <2>1. /\ collector' \in [Collectors -> CollectorRow] /\ collector'[g] = Th!Waiting
        /\ \A h \in Collectors : h # g => collector'[h] = collector[h]
    BY <1>1, <1>5, CollectorMoves DEF CollectorRow
  <2>2. CollectorStep(g)
    BY <1>2, <1>3, <1>4, <2>1 DEF CollectorStep
  <2> QED BY <2>1, <2>2, WaitingOK, CollectorStepSafe
<1>6. CASE collector' # [collector EXCEPT ![g] = Th!Waiting]
  <2> DEFINE seen == IF Th!Deleting(g) THEN {variant} \ {Nobody} ELSE {}
             list1 == [collector[g] EXCEPT !.at = "list"]
             list2 == [collector[g] EXCEPT !.at = "remove", !.todo = seen]
             list3 == [collector[g] EXCEPT !.at = "commit"]
  <2>1. /\ collector[g] \in [at : {"check", "list", "remove", "commit"}, life : Nat, todo : SUBSET Attempts]
        /\ collector[g] # Th!Waiting
    <3>1. collector[g].at # "idle"
      BY <1>6 DEF Th!CheckWriters, Th!ListVariants, Th!RemoveObjects, Th!CollectorCrash
    <3> QED BY <1>1, <3>1 DEF ThumbnailTypeOK, CollectorRow, Th!Waiting
  <2>2. PICK r \in CollectorRow :
          /\ collector' = [collector EXCEPT ![g] = r] /\ r.life = collector[g].life
          /\ \/ r.at = "list" /\ r.todo = collector[g].todo
             \/ r.at = "remove" /\ r.todo = seen
             \/ r.at = "commit" /\ r.todo = collector[g].todo /\ collector[g].at = "remove" /\ stored' = stored \ r.todo
    <3>1. CASE Th!CheckWriters(g)
      <4>1. collector' = [collector EXCEPT ![g] = list1]
        BY <1>6, <3>1 DEF Th!CheckWriters
      <4>2. list1 \in CollectorRow /\ list1.at = "list" /\ list1.todo = collector[g].todo /\ list1.life = collector[g].life
        BY <2>1 DEF CollectorRow
      <4> QED BY <4>1, <4>2
    <3>2. CASE Th!ListVariants(g)
      <4>1. collector' = [collector EXCEPT ![g] = list2]
        BY <3>2 DEF Th!ListVariants
      <4>2. seen \in SUBSET Attempts
        BY <1>1 DEF ThumbnailTypeOK
      <4> HIDE DEF seen
      <4>3. list2 \in CollectorRow /\ list2.at = "remove" /\ list2.todo = seen /\ list2.life = collector[g].life
        BY <2>1, <4>2 DEF CollectorRow
      <4> QED BY <4>1, <4>3
    <3>3. CASE Th!RemoveObjects(g)
      <4>1. collector' = [collector EXCEPT ![g] = list3] /\ stored' = stored \ collector[g].todo /\ collector[g].at = "remove"
        BY <3>3 DEF Th!RemoveObjects
      <4>2. list3 \in CollectorRow /\ list3.at = "commit" /\ list3.todo = collector[g].todo /\ list3.life = collector[g].life
        BY <2>1 DEF CollectorRow
      <4> QED BY <4>1, <4>2
    <3> QED BY <1>6, <3>1, <3>2, <3>3 DEF Th!CollectorCrash
  <2>3. /\ collector' \in [Collectors -> CollectorRow] /\ collector'[g] = r
        /\ \A h \in Collectors : h # g => collector'[h] = collector[h]
    BY <1>1, <2>2, CollectorMoves
  <2>4. CollectorStep(g)
    BY <1>2, <1>3, <1>4, <2>3 DEF CollectorStep
  <2>5. CollectorOK(g)'
    <3>1. Th!Deleting(g)' <=> Th!Deleting(g)
      BY <1>2, <2>2, <2>3 DEF Th!Deleting
    <3>2. \A a \in r.todo : Settled(a)'
      <4>1. \A a \in r.todo : Settled(a)
        BY <1>1, <2>2 DEF ThumbnailInv, ImageInv, CollectorOK
      <4> QED BY <1>2, <4>1 DEF Settled, Abandoned
    <3>3. variant \in r.todo => image.status # "ready"
      BY <1>1, <2>2 DEF CollectorOK, Th!Deleting
    <3>4. r.at \in {"remove", "commit"} /\ Th!Deleting(g) => variant \in r.todo \cup {Nobody}
      BY <1>1, <2>2 DEF CollectorOK
    <3>5. r.at = "commit" /\ Th!Deleting(g) => variant \notin stored'
      BY <1>1, <2>2, <3>4, WorkerNames DEF ThumbnailTypeOK
    <3> QED BY <1>1, <1>2, <2>1, <2>2, <2>3, <3>1, <3>2, <3>3, <3>4, <3>5 DEF CollectorOK
  <2> QED BY <2>4, <2>5, CollectorStepSafe
<1> QED BY <1>5, <1>6

\* The row of the thumbnail goes with the object, and its bytes have gone before.
LEMMA CommitDeleteSafe ==
  ASSUME ThumbnailSafe, NEW g \in Collectors, Th!CommitDelete(g)
  PROVE  ThumbnailSafe'
<1>1. ThumbnailInv /\ ThumbnailTypeOK /\ CollectorOK(g) /\ collector[g].at = "commit"
  BY DEF ThumbnailSafe, ThumbnailInv, Th!CommitDelete
<1>2. UNCHANGED <<stored, cleanup, writer, cleaner, mishaps>> /\ collector' = [collector EXCEPT ![g] = Th!Waiting]
  BY DEF Th!CommitDelete, Th!cleaning
<1>3. /\ collector' \in [Collectors -> CollectorRow] /\ collector'[g] = Th!Waiting
      /\ \A h \in Collectors : h # g => collector'[h] = collector[h]
  BY <1>1, <1>2, CollectorMoves DEF CollectorRow
<1>4. CASE ~Th!OwnsDelete(g)
  <2>1. UNCHANGED <<image, variant, deletion>>
    BY <1>4 DEF Th!CommitDelete
  <2>2. CollectorStep(g)
    BY <1>1, <1>2, <1>3, <2>1 DEF CollectorStep, ThumbnailInv, ThumbnailTypeOK, ImageInv
  <2> QED BY <1>3, <2>2, WaitingOK, CollectorStepSafe
<1>5. CASE Th!OwnsDelete(g)
  <2>1. /\ image' = [image EXCEPT !.status = "deleted"] /\ variant' = Nobody
        /\ deletion' = [state |-> "succeeded", owner |-> Nobody]
    BY <1>5 DEF Th!CommitDelete
  <2>2. image.status = "deleting" /\ variant \notin stored
    BY <1>1, <1>5 DEF Th!OwnsDelete, Th!Deleting, CollectorOK
  <2>3. /\ image' \in [status : {"ready", "deleting", "deleted"}, life : Nat]
        /\ image'.status = "deleted" /\ image'.life = image.life
    BY <1>1, <2>1 DEF ThumbnailTypeOK
  <2>4. ThumbnailTypeOK'
    BY <1>1, <1>2, <1>3, <2>1, <2>3 DEF ThumbnailTypeOK, DeletionRow
  <2>5. DeletionStep
    BY <1>2, <2>1, <2>2 DEF DeletionStep
  <2>6. ImageInv'
    BY <2>1, <2>3 DEF ImageInv
  <2>7. ASSUME NEW h \in Collectors PROVE CollectorOK(h)'
    <3>1. CASE h = g
      BY <1>3, <3>1, WaitingOK
    <3>2. CASE h # g
      <4>1. CollectorOK(h) /\ collector[h].todo \in SUBSET Attempts /\ collector'[h] = collector[h]
        BY <1>1, <1>3, <3>2, ThumbnailFields DEF ThumbnailInv
      <4>2. ~Th!Deleting(h)'
        BY <2>3 DEF Th!Deleting
      <4>3. \A a \in collector[h].todo : Settled(a)'
        BY <2>5, <4>1, SettledStays DEF CollectorOK
      <4> QED BY <2>2, <2>3, <4>1, <4>2, <4>3 DEF CollectorOK
    <3> QED BY <3>1, <3>2
  <2> QED BY <2>4, <2>5, <2>6, <2>7, DeletionStepSafe
<1> QED BY <1>4, <1>5

LEMMA ThumbnailStep ==
  ASSUME ThumbnailSafe, [Th!Next]_thumbnailVars
  PROVE  ThumbnailSafe'
<1>1. CASE Th!GarbageCollect \/ Th!Revive
  BY <1>1, LifeSafe
<1>2. ASSUME NEW a \in Attempts,
             \/ Th!Process(a) \/ Th!DecodeFails(a) \/ Th!Register(a) \/ Th!PutObject(a) \/ Th!PutFails(a)
             \/ Th!CommitVariant(a) \/ Th!FailVariant(a) \/ Th!WriterCrash(a)
      PROVE  ThumbnailSafe'
  <2>1. CASE Th!Process(a) \/ Th!DecodeFails(a) \/ Th!WriterCrash(a)
    BY <2>1, QuietAttempt
  <2>2. CASE Th!Register(a)
    BY <2>2, RegisterSafe
  <2>3. CASE Th!PutObject(a) \/ Th!PutFails(a)
    BY <2>3, PutSafe
  <2>4. CASE Th!CommitVariant(a)
    BY <2>4, CommitVariantSafe
  <2>5. CASE Th!FailVariant(a)
    BY <2>5, FailSafe
  <2> QED BY <1>2, <2>1, <2>2, <2>3, <2>4, <2>5
<1>3. ASSUME NEW c \in Cleaners,
             \/ \E a \in Attempts : Th!ClaimCleanup(c, a)
             \/ Th!CheckAdopted(c) \/ Th!RemoveAttempt(c) \/ Th!MarkCleaned(c) \/ Th!CleanerCrash(c)
      PROVE  ThumbnailSafe'
  BY <1>3, ClaimCleanupSafe, CleanerSafe
<1>4. ASSUME NEW g \in Collectors,
             \/ Th!ClaimDelete(g) \/ Th!CheckWriters(g) \/ Th!ListVariants(g) \/ Th!RemoveObjects(g)
             \/ Th!CommitDelete(g) \/ Th!CollectorCrash(g)
      PROVE  ThumbnailSafe'
  <2>1. CASE Th!ClaimDelete(g)
    BY <2>1, ClaimDeleteSafe
  <2>2. CASE Th!CheckWriters(g) \/ Th!ListVariants(g) \/ Th!RemoveObjects(g) \/ Th!CollectorCrash(g)
    BY <2>2, CollectorWorkSafe
  <2>3. CASE Th!CommitDelete(g)
    BY <2>3, CommitDeleteSafe
  <2> QED BY <1>4, <2>1, <2>2, <2>3
<1>5. CASE UNCHANGED thumbnailVars
  BY <1>5 DEF thumbnailVars, ThumbnailSafe, ThumbnailInv, ThumbnailTypeOK, ImageInv, AttemptOK, CollectorOK,
              LeaseInv, Settled, Abandoned, Th!Owns, Th!Deleting
<1> QED BY <1>1, <1>2, <1>3, <1>4, <1>5 DEF Th!Next

LEMMA ThumbnailSound == ThumbnailSafe => Th!ThumbnailsHold
  BY DEF ThumbnailSafe, ThumbnailInv, ImageInv, LeaseInv, Th!ThumbnailsHold

-----------------------------------------------------------------------------
(* The index of an object's content (ContentIndex) *)

ContentStates == {"absent", "live", "dead"}
Sent == [chunk : Chunks, state : {"live", "dead"}]
ProjectorRow == [at : {"idle", "page", "load", "publish", "vector", "mask"}, event : BOOLEAN, page : SUBSET Chunks,
                 rows : SUBSET Sent, item : Sent \cup {Idle.item}]

ContentTypeOK ==
  /\ source \in [status : {"ready", "deleting", "deleted"}, active : Nat, made : Nat, emitted : Nat]
  /\ due \in Nat
  /\ row \in [Chunks -> ContentStates] /\ es \in [Chunks -> ContentStates] /\ point \in [Chunks -> ContentStates]
  /\ deleted \in SUBSET Chunks
  /\ worker \in [Projectors -> ProjectorRow]

\* The active version is the newest, and its rows are buried only with the object.
SourceInv ==
  /\ source.active \in {0, source.made} /\ source.made <= MaxVersions
  /\ source.status = "deleted" => source.active = 0
  /\ \A c \in Chunks : c > source.made => row[c] = "absent"
  /\ source.status = "ready" /\ source.active # 0 => row[source.active] # "dead"

\* Nothing is said of a chunk that its row has not said: rows are made, then
\* buried, and never come back.
Said(rows, r) == rows[r.chunk] # "absent" /\ (r.state = "dead" => rows[r.chunk] = "dead")
SaidInv ==
  /\ \A c \in Chunks : /\ es[c] # "absent" => Said(row, [chunk |-> c, state |-> es[c]])
                       /\ point[c] # "absent" => Said(row, [chunk |-> c, state |-> point[c]])
                       /\ c \in deleted => row[c] = "dead"
  /\ \A w \in Projectors : /\ \A r \in worker[w].rows : Said(row, r)
                           /\ worker[w].at = "vector" => worker[w].item \in Sent /\ Said(row, worker[w].item)
                           /\ worker[w].at = "load" /\ worker[w].event => worker[w].page = Chunks
                           /\ worker[w].at = "page" => ~worker[w].event

\* The rows are those of the object and its active version.
RowsRight ==
  IF source.status # "ready" THEN \A c \in Chunks : row[c] # "live"
  ELSE source.active # 0 =>
         \A c \in Chunks : IF c = source.active THEN row[c] = "live" ELSE row[c] # "live"

\* The row's state is on its way to the indexes, with an event that is delivered
\* again if its handler fails.
ComingText(w, c) ==
  worker[w].event /\ (worker[w].at = "load" \/ [chunk |-> c, state |-> row[c]] \in worker[w].rows)
ComingVector(w, c) ==
  ComingText(w, c) \/ (worker[w].event /\ worker[w].at = "vector" /\ worker[w].item = [chunk |-> c, state |-> row[c]])
ShownText(c) == es[c] = row[c]
ShownVector(c) == IF row[c] = "live" THEN point[c] = "live" ELSE c \in deleted

Reached ==
  /\ RowsRight
  /\ \A c \in Chunks : row[c] # "absent" => /\ ShownText(c) \/ \E w \in Projectors : ComingText(w, c)
                                            /\ ShownVector(c) \/ \E w \in Projectors : ComingVector(w, c)

ContentInv == ContentTypeOK /\ SourceInv /\ SaidInv /\ (due = 0 => Reached)

LEMMA ContentFields ==
  ASSUME ContentTypeOK
  PROVE  /\ source.status \in {"ready", "deleting", "deleted"} /\ source.active \in Nat /\ source.made \in Nat
         /\ source.emitted \in Nat
         /\ source = [status |-> source.status, active |-> source.active, made |-> source.made,
                      emitted |-> source.emitted]
         /\ \A c \in Chunks : row[c] \in ContentStates /\ es[c] \in ContentStates /\ point[c] \in ContentStates
         /\ \A w \in Projectors :
              /\ worker[w] \in ProjectorRow /\ worker[w].at \in {"idle", "page", "load", "publish", "vector", "mask"}
              /\ worker[w].event \in BOOLEAN /\ worker[w].page \in SUBSET Chunks /\ worker[w].rows \in SUBSET Sent
              /\ worker[w].item \in Sent \cup {Idle.item}
<1>1. /\ source.status \in {"ready", "deleting", "deleted"} /\ source.active \in Nat /\ source.made \in Nat
      /\ source.emitted \in Nat
      /\ source = [status |-> source.status, active |-> source.active, made |-> source.made,
                   emitted |-> source.emitted]
  BY DEF ContentTypeOK
<1>2. \A c \in Chunks : row[c] \in ContentStates /\ es[c] \in ContentStates /\ point[c] \in ContentStates
  BY DEF ContentTypeOK
<1>3. ASSUME NEW w \in Projectors
      PROVE  /\ worker[w] \in ProjectorRow /\ worker[w].at \in {"idle", "page", "load", "publish", "vector", "mask"}
             /\ worker[w].event \in BOOLEAN /\ worker[w].page \in SUBSET Chunks /\ worker[w].rows \in SUBSET Sent
             /\ worker[w].item \in Sent \cup {Idle.item}
  <2>1. worker[w] \in ProjectorRow
    BY DEF ContentTypeOK
  <2> QED BY <2>1 DEF ProjectorRow
<1> QED BY <1>1, <1>2, <1>3

LEMMA ContentInit == Init => ContentInv
<1> SUFFICES ASSUME Init PROVE ContentInv
  OBVIOUS
<1>1. Idle \in ProjectorRow /\ Idle.at = "idle" /\ Idle.rows = {}
  BY DEF Idle, ProjectorRow
<1>2. ContentTypeOK
  BY <1>1 DEF Init, ContentTypeOK, ContentStates
<1>3. SourceInv /\ SaidInv /\ due # 0
  BY <1>1, IndexConstants DEF Init, SourceInv, SaidInv
<1> QED BY <1>2, <1>3 DEF ContentInv

\* One transaction of the projection: rows only grow; right rows stay as they are,
\* and those of all chunks become right.
LEMMA ProjectedGrows ==
  ASSUME ContentTypeOK, SourceInv, NEW wanted \in SUBSET Chunks, row' = Projected(wanted), UNCHANGED source
  PROVE  /\ row' \in [Chunks -> ContentStates]
         /\ \A c \in Chunks : /\ row[c] # "absent" => row'[c] # "absent"
                              /\ row[c] = "dead" => row'[c] = "dead"
         /\ SourceInv'
         /\ RowsRight => row' = row
         /\ wanted = Chunks => RowsRight'
<1> DEFINE p == Projected(wanted)
<1>1. \A c \in Chunks :
        p[c] = IF source.status # "ready" THEN Buried(row[c])
               ELSE IF source.active = 0 THEN row[c]
               ELSE IF c # source.active THEN Buried(row[c])
               ELSE IF c \in wanted THEN Upserted(row[c]) ELSE row[c]
  BY DEF Projected
<1>2. p = [c \in Chunks |-> p[c]] /\ row = [c \in Chunks |-> row[c]]
  BY DEF Projected, ContentTypeOK
<1>3. \A c \in Chunks : row[c] \in {"absent", "live", "dead"}
  BY ContentFields DEF ContentStates
<1>4. row' = p /\ source' = source
  OBVIOUS
<1>5. source.active \in Nat /\ source.made \in Nat /\ Chunks \subseteq Nat
  BY ContentFields DEF Chunks
<1> HIDE DEF p
<1>6. row' \in [Chunks -> ContentStates]
  BY <1>1, <1>2, <1>3, <1>4 DEF Buried, Upserted, ContentStates
<1>7. \A c \in Chunks : /\ row[c] # "absent" => row'[c] # "absent"
                        /\ row[c] = "dead" => row'[c] = "dead"
  BY <1>1, <1>3, <1>4 DEF Buried, Upserted
<1>8. SourceInv'
  <2>1. \A c \in Chunks : c > source.made => p[c] = "absent"
    BY <1>1, <1>5 DEF SourceInv, Buried, Upserted
  <2>2. source.status = "ready" /\ source.active # 0 => p[source.active] # "dead"
    <3> SUFFICES ASSUME source.status = "ready", source.active # 0 PROVE p[source.active] # "dead"
      OBVIOUS
    <3>1. source.active \in Chunks
      BY <1>5, IndexConstants DEF SourceInv, Chunks
    <3> QED BY <1>1, <3>1 DEF SourceInv, Upserted
  <2> QED BY <1>4, <2>1, <2>2 DEF SourceInv
<1>9. ASSUME RowsRight PROVE row' = row
  <2>1. ASSUME NEW c \in Chunks PROVE p[c] = row[c]
    BY <1>1, <1>3, <1>9 DEF RowsRight, Buried, Upserted
  <2> QED BY <1>2, <1>4, <2>1
<1>10. ASSUME wanted = Chunks PROVE RowsRight'
  <2>1. ASSUME NEW c \in Chunks, source.status # "ready" PROVE p[c] # "live"
    BY <1>1, <2>1 DEF Buried
  <2>2. ASSUME NEW c \in Chunks, source.status = "ready", source.active # 0
        PROVE  IF c = source.active THEN p[c] = "live" ELSE p[c] # "live"
    BY <1>1, <1>3, <1>10, <2>2 DEF SourceInv, Buried, Upserted
  <2> QED BY <1>4, <2>1, <2>2 DEF RowsRight
<1> QED BY <1>6, <1>7, <1>8, <1>9, <1>10

\* What was said stays said.
LEMMA StaysSaid ==
  ASSUME NEW r \in Sent, Said(row, r),
         \A c \in Chunks : (row[c] # "absent" => row'[c] # "absent") /\ (row[c] = "dead" => row'[c] = "dead")
  PROVE  Said(row', r)
BY DEF Said, Sent

\* The object changes; the indexes will hear of it.
LEMMA EmitInv ==
  ASSUME ContentInv, Publish \/ Retire \/ Delete \/ Revive
  PROVE  ContentInv'
<1>1. /\ ContentTypeOK /\ SourceInv /\ SaidInv
      /\ UNCHANGED <<row, es, point, deleted, worker>> /\ due' = due + 1
  BY DEF ContentInv, Publish, Retire, Delete, Revive, Emit, index
<1>2. due' \in Nat /\ due' # 0
  BY <1>1 DEF ContentTypeOK
<1>3. /\ source.status \in {"ready", "deleting", "deleted"} /\ source.active \in Nat /\ source.made \in Nat
      /\ source.emitted \in Nat
      /\ source = [status |-> source.status, active |-> source.active, made |-> source.made,
                   emitted |-> source.emitted]
  BY <1>1, ContentFields
<1> DEFINE S(st, a, m) == /\ source'.status = st /\ source'.active = a /\ source'.made = m
                          /\ source' \in [status : {"ready", "deleting", "deleted"}, active : Nat, made : Nat, emitted : Nat]
<1>4. \/ /\ source.status = "ready" /\ source.made < MaxVersions
         /\ S("ready", source.made + 1, source.made + 1)
      \/ source.status = "ready" /\ S("deleting", source.active, source.made)
      \/ source.status = "deleting" /\ S("deleted", 0, source.made)
      \/ source.status = "deleted" /\ S("ready", source.active, source.made)
  <2>1. CASE Publish
    <3>1. source' = [status |-> "ready", active |-> source.made + 1, made |-> source.made + 1,
                     emitted |-> source.emitted + 1] /\ source.status = "ready" /\ source.made < MaxVersions
      BY <1>3, <2>1 DEF Publish, Emit
    <3> QED BY <1>3, <3>1
  <2>2. CASE Retire
    <3>1. source' = [status |-> "deleting", active |-> source.active, made |-> source.made,
                     emitted |-> source.emitted + 1] /\ source.status = "ready"
      BY <1>3, <2>2 DEF Retire, Emit
    <3> QED BY <1>3, <3>1
  <2>3. CASE Delete
    <3>1. source' = [status |-> "deleted", active |-> 0, made |-> source.made,
                     emitted |-> source.emitted + 1] /\ source.status = "deleting"
      BY <1>3, <2>3 DEF Delete, Emit
    <3> QED BY <1>3, <3>1
  <2>4. CASE Revive
    <3>1. source' = [status |-> "ready", active |-> source.active, made |-> source.made,
                     emitted |-> source.emitted + 1] /\ source.status = "deleted"
      BY <1>3, <2>4 DEF Revive, Emit
    <3> QED BY <1>3, <3>1
  <2> QED BY <2>1, <2>2, <2>3, <2>4
<1> HIDE DEF S
<1>5. ContentTypeOK'
  BY <1>1, <1>2, <1>4 DEF ContentTypeOK, S
<1>6. SourceInv'
  <2>1. /\ source'.active \in {0, source'.made} /\ source'.made <= MaxVersions
        /\ source'.status = "deleted" => source'.active = 0
    BY <1>1, <1>3, <1>4, IndexConstants DEF SourceInv, S
  <2>2. \A c \in Chunks : c > source'.made => row[c] = "absent"
    BY <1>1, <1>3, <1>4 DEF SourceInv, S, Chunks
  <2>3. source'.status = "ready" /\ source'.active # 0 => row[source'.active] # "dead"
    <3>1. source.made < MaxVersions => source.made + 1 \in Chunks /\ row[source.made + 1] = "absent"
      BY <1>1, <1>3, IndexConstants DEF SourceInv, Chunks
    <3> QED BY <1>1, <1>4, <3>1 DEF SourceInv, S
  <2> QED BY <1>1, <2>1, <2>2, <2>3 DEF SourceInv
<1>7. SaidInv'
  BY <1>1 DEF SaidInv, Said
<1> QED BY <1>2, <1>5, <1>6, <1>7 DEF ContentInv

\* A projection: an event's begins with all rows, and one without an event changes
\* nothing when no event is due.
LEMMA ProjectInv ==
  ASSUME ContentInv, NEW w \in Projectors, NEW wanted \in SUBSET Chunks, row' = Projected(wanted),
         UNCHANGED <<source, es, point, deleted>>,
         NEW x \in ProjectorRow, worker' = [worker EXCEPT ![w] = x],
         x.at = "load", \A r \in x.rows : Said(row, r), x.event => x.page = Chunks,
         \/ due > 0 /\ due' = due - 1 /\ x.event /\ wanted = Chunks
         \/ due' = due /\ ~x.event /\ ~worker[w].event
  PROVE  ContentInv'
<1>1. ContentTypeOK /\ SourceInv /\ SaidInv /\ (due = 0 => Reached)
  BY DEF ContentInv
<1>2. /\ row' \in [Chunks -> ContentStates] /\ SourceInv'
      /\ \A c \in Chunks : (row[c] # "absent" => row'[c] # "absent") /\ (row[c] = "dead" => row'[c] = "dead")
      /\ RowsRight => row' = row
      /\ wanted = Chunks => RowsRight'
  BY <1>1, ProjectedGrows
<1>3. worker'[w] = x /\ \A v \in Projectors \ {w} : worker'[v] = worker[v]
  BY <1>1 DEF ContentTypeOK
<1>4. ContentTypeOK'
  BY <1>1, <1>2 DEF ContentTypeOK
<1>5. SaidInv'
  <2>1. ASSUME NEW c \in Chunks
        PROVE  /\ es'[c] # "absent" => Said(row', [chunk |-> c, state |-> es'[c]])
               /\ point'[c] # "absent" => Said(row', [chunk |-> c, state |-> point'[c]])
               /\ c \in deleted' => row'[c] = "dead"
    BY <1>1, <1>2 DEF SaidInv, Said
  <2>2. ASSUME NEW v \in Projectors
        PROVE  /\ \A r \in worker'[v].rows : Said(row', r)
               /\ worker'[v].at = "vector" => worker'[v].item \in Sent /\ Said(row', worker'[v].item)
               /\ worker'[v].at = "load" /\ worker'[v].event => worker'[v].page = Chunks
               /\ worker'[v].at = "page" => ~worker'[v].event
    <3>1. CASE v = w
      <4>1. x.rows \subseteq Sent
        BY DEF ProjectorRow
      <4>2. \A r \in x.rows : Said(row', r)
        BY <1>2, <4>1, StaysSaid
      <4> QED BY <1>3, <3>1, <4>2
    <3>2. CASE v # w
      <4>1. worker'[v] = worker[v] /\ worker[v].rows \subseteq Sent
        BY <1>1, <1>3, <3>2, ContentFields
      <4>2. \A r \in worker[v].rows : Said(row', r)
        BY <1>1, <1>2, <4>1, StaysSaid DEF SaidInv
      <4>3. worker[v].at = "vector" => worker[v].item \in Sent /\ Said(row', worker'[v].item)
        BY <1>1, <1>2, <4>1, StaysSaid DEF SaidInv
      <4> QED BY <1>1, <4>1, <4>2, <4>3 DEF SaidInv
    <3> QED BY <3>1, <3>2
  <2> QED BY <2>1, <2>2 DEF SaidInv
<1>6. ASSUME due' = 0 PROVE Reached'
  <2>1. CASE due' = due - 1 /\ x.event /\ wanted = Chunks
    <3>1. \A c \in Chunks : ComingText(w, c)'
      BY <1>3, <2>1 DEF ComingText
    <3>2. \A c \in Chunks : ComingVector(w, c)'
      BY <3>1 DEF ComingVector
    <3> QED BY <1>2, <2>1, <3>1, <3>2 DEF Reached
  <2>2. CASE due' = due /\ ~x.event /\ ~worker[w].event
    <3>1. Reached /\ row' = row
      BY <1>1, <1>2, <1>6, <2>2 DEF Reached
    <3>2. RowsRight'
      BY <3>1 DEF Reached, RowsRight
    <3>3. \A c \in Chunks : (ShownText(c) => ShownText(c)') /\ (ShownVector(c) => ShownVector(c)')
      BY <3>1 DEF ShownText, ShownVector
    <3>4. \A c \in Chunks, v \in Projectors : ComingText(v, c) => ComingText(v, c)'
      BY <1>3, <2>2, <3>1 DEF ComingText
    <3>5. \A c \in Chunks, v \in Projectors : ComingVector(v, c) => ComingVector(v, c)'
      BY <1>3, <2>2, <3>1, <3>4 DEF ComingVector, ComingText
    <3> QED BY <3>1, <3>2, <3>3, <3>4, <3>5 DEF Reached
  <2> QED BY <2>1, <2>2
<1> QED BY <1>2, <1>4, <1>5, <1>6 DEF ContentInv

\* Other steps of a worker: what it takes away it shows, or an event is due.
LEMMA WorkerStep ==
  ASSUME ContentInv, NEW w \in Projectors, NEW x \in ProjectorRow, worker' = [worker EXCEPT ![w] = x],
         UNCHANGED <<source, row>>, due' \in Nat,
         es' \in [Chunks -> ContentStates], point' \in [Chunks -> ContentStates], deleted' \in SUBSET Chunks,
         \A c \in Chunks : /\ es'[c] # "absent" => Said(row, [chunk |-> c, state |-> es'[c]])
                           /\ point'[c] # "absent" => Said(row, [chunk |-> c, state |-> point'[c]])
                           /\ c \in deleted' => row[c] = "dead",
         \A r \in x.rows : Said(row, r),
         x.at = "vector" => x.item \in Sent /\ Said(row, x.item),
         x.at = "load" /\ x.event => x.page = Chunks,
         x.at = "page" => ~x.event,
         due' = 0 => /\ due = 0
                     /\ \A c \in Chunks : row[c] # "absent" =>
                          /\ ShownText(c) \/ ComingText(w, c) => ShownText(c)' \/ ComingText(w, c)'
                          /\ ShownVector(c) \/ ComingVector(w, c) => ShownVector(c)' \/ ComingVector(w, c)'
  PROVE  ContentInv'
<1>1. ContentTypeOK /\ SourceInv /\ SaidInv /\ (due = 0 => Reached)
  BY DEF ContentInv
<1>2. worker'[w] = x /\ \A v \in Projectors \ {w} : worker'[v] = worker[v]
  BY <1>1 DEF ContentTypeOK
<1>3. ContentTypeOK'
  BY <1>1 DEF ContentTypeOK
<1>4. SourceInv'
  BY <1>1 DEF SourceInv
<1>5. SaidInv'
  <2>1. ASSUME NEW v \in Projectors
        PROVE  /\ \A r \in worker'[v].rows : Said(row', r)
               /\ worker'[v].at = "vector" => worker'[v].item \in Sent /\ Said(row', worker'[v].item)
               /\ worker'[v].at = "load" /\ worker'[v].event => worker'[v].page = Chunks
               /\ worker'[v].at = "page" => ~worker'[v].event
    <3>1. CASE v = w
      BY <1>2, <3>1
    <3>2. CASE v # w
      BY <1>1, <1>2, <3>2 DEF SaidInv
    <3> QED BY <3>1, <3>2
  <2> QED BY <2>1 DEF SaidInv
<1>6. ASSUME due' = 0 PROVE Reached'
  <2>1. Reached
    BY <1>1, <1>6
  <2>2. RowsRight'
    BY <2>1 DEF Reached, RowsRight
  <2>3. ASSUME NEW c \in Chunks, NEW v \in Projectors, v # w
        PROVE  /\ ComingText(v, c) => ComingText(v, c)'
               /\ ComingVector(v, c) => ComingVector(v, c)'
    BY <1>2, <2>3 DEF ComingText, ComingVector
  <2>4. ASSUME NEW c \in Chunks, row[c] # "absent"
        PROVE  /\ ShownText(c)' \/ \E v \in Projectors : ComingText(v, c)'
               /\ ShownVector(c)' \/ \E v \in Projectors : ComingVector(v, c)'
    <3>1. ShownText(c) => ShownText(c)' \/ ComingText(w, c)'
      BY <1>6, <2>4
    <3>2. ShownVector(c) => ShownVector(c)' \/ ComingVector(w, c)'
      BY <1>6, <2>4
    <3>3. ComingText(w, c) => ShownText(c)' \/ ComingText(w, c)'
      BY <1>6, <2>4
    <3>4. ComingVector(w, c) => ShownVector(c)' \/ ComingVector(w, c)'
      BY <1>6, <2>4
    <3>5. ShownText(c) \/ \E v \in Projectors : ComingText(v, c)
      BY <2>1, <2>4 DEF Reached
    <3>6. ShownVector(c) \/ \E v \in Projectors : ComingVector(v, c)
      BY <2>1, <2>4 DEF Reached
    <3> QED BY <2>3, <3>1, <3>2, <3>3, <3>4, <3>5, <3>6
  <2> QED BY <2>2, <2>4 DEF Reached
<1> QED BY <1>3, <1>4, <1>5, <1>6 DEF ContentInv

LEMMA ReadPageInv ==
  ASSUME ContentInv, NEW w \in Projectors, ReadPage(w)
  PROVE  ContentInv'
<1>1. ContentTypeOK /\ SourceInv /\ SaidInv
  BY DEF ContentInv
<1> DEFINE x == [Idle EXCEPT !.at = "page", !.page = {source.active}]
<1>2. /\ x.at = "page" /\ ~x.event /\ x.rows = {} /\ x \in ProjectorRow
  <2>1. source.active \in Chunks
    BY <1>1, ContentFields, IndexConstants DEF SourceInv, Chunks, ReadPage
  <2> QED BY <2>1 DEF Idle, ProjectorRow
<1>3. worker' = [worker EXCEPT ![w] = x] /\ UNCHANGED <<source, due, row, es, point, deleted>> /\ worker[w] = Idle
  BY DEF ReadPage, index
<1>4. \A c \in Chunks : /\ es'[c] # "absent" => Said(row, [chunk |-> c, state |-> es'[c]])
                        /\ point'[c] # "absent" => Said(row, [chunk |-> c, state |-> point'[c]])
                        /\ c \in deleted' => row[c] = "dead"
  BY <1>1, <1>3 DEF SaidInv
<1>5. \A c \in Chunks : /\ ~ComingText(w, c) /\ ~ComingVector(w, c)
                        /\ ShownText(c)' <=> ShownText(c)
                        /\ ShownVector(c)' <=> ShownVector(c)
  BY <1>3 DEF ComingText, ComingVector, Idle, ShownText, ShownVector
<1> HIDE DEF x
<1>6. due' \in Nat /\ es' \in [Chunks -> ContentStates] /\ point' \in [Chunks -> ContentStates]
      /\ deleted' \in SUBSET Chunks
  BY <1>1, <1>3 DEF ContentTypeOK
<1> QED BY <1>2, <1>3, <1>4, <1>5, <1>6, WorkerStep

LEMMA LoadRowsInv ==
  ASSUME ContentInv, NEW w \in Projectors, LoadRows(w)
  PROVE  ContentInv'
<1>1. ContentTypeOK /\ SourceInv /\ SaidInv
  BY DEF ContentInv
<1> DEFINE loaded == {r \in [chunk : worker[w].page, state : {"live", "dead"}] : row[r.chunk] = r.state}
           x == [worker[w] EXCEPT !.at = "publish", !.rows = loaded]
<1>2. worker[w].page \in SUBSET Chunks /\ worker[w] \in ProjectorRow /\ worker[w].at = "load"
  BY <1>1, ContentFields DEF LoadRows
<1>3. loaded \in SUBSET Sent /\ \A r \in loaded : row[r.chunk] = r.state /\ r.state \in {"live", "dead"}
  BY <1>2 DEF Sent
<1>4. x.at = "publish" /\ x.rows = loaded /\ x.event = worker[w].event /\ x \in ProjectorRow
  BY <1>2, <1>3 DEF ProjectorRow
<1>5. worker' = [worker EXCEPT ![w] = x] /\ UNCHANGED <<source, due, row, es, point, deleted>>
  <2>1. worker' = [worker EXCEPT ![w].at = "publish", ![w].rows = loaded]
    BY DEF LoadRows
  <2> HIDE DEF loaded
  <2>2. [worker EXCEPT ![w].at = "publish", ![w].rows = loaded] = [worker EXCEPT ![w] = x]
    BY <1>1, <1>2 DEF ContentTypeOK, ProjectorRow
  <2> QED BY <2>1, <2>2 DEF LoadRows, index
<1>6. worker'[w] = x
  BY <1>1, <1>5 DEF ContentTypeOK
<1>7. \A c \in Chunks : /\ es'[c] # "absent" => Said(row, [chunk |-> c, state |-> es'[c]])
                        /\ point'[c] # "absent" => Said(row, [chunk |-> c, state |-> point'[c]])
                        /\ c \in deleted' => row[c] = "dead"
  BY <1>1, <1>5 DEF SaidInv
<1>8. \A r \in x.rows : Said(row, r)
  BY <1>3, <1>4 DEF Said
<1>9. ASSUME NEW c \in Chunks, row[c] # "absent"
      PROVE  /\ ShownText(c)' <=> ShownText(c)
             /\ ShownVector(c)' <=> ShownVector(c)
             /\ ComingVector(w, c) => ComingText(w, c)
             /\ ComingText(w, c) => ComingText(w, c)' /\ ComingVector(w, c)'
  <2>1. (ShownText(c)' <=> ShownText(c)) /\ (ShownVector(c)' <=> ShownVector(c))
    BY <1>5 DEF ShownText, ShownVector
  <2>2. ComingVector(w, c) => ComingText(w, c)
    BY <1>2 DEF ComingVector
  <2>3. ASSUME ComingText(w, c) PROVE ComingText(w, c)' /\ ComingVector(w, c)'
    <3>1. worker[w].event /\ worker[w].page = Chunks
      BY <1>1, <1>2, <2>3 DEF ComingText, SaidInv
    <3>2. row[c] \in {"live", "dead"}
      BY <1>1, <1>9, ContentFields DEF ContentStates
    <3>3. [chunk |-> c, state |-> row[c]] \in loaded
      BY <3>1, <3>2
    <3> QED BY <1>4, <1>5, <1>6, <3>1, <3>3 DEF ComingText, ComingVector
  <2> QED BY <2>1, <2>2, <2>3
<1> HIDE DEF x, loaded
<1>10. due' \in Nat /\ es' \in [Chunks -> ContentStates] /\ point' \in [Chunks -> ContentStates]
      /\ deleted' \in SUBSET Chunks
  BY <1>1, <1>5 DEF ContentTypeOK
<1> QED BY <1>4, <1>5, <1>7, <1>8, <1>9, <1>10, WorkerStep

LEMMA PutElasticsearchInv ==
  ASSUME ContentInv, NEW w \in Projectors, PutElasticsearch(w)
  PROVE  ContentInv'
<1>1. ContentTypeOK /\ SourceInv /\ SaidInv
  BY DEF ContentInv
<1>2. /\ worker[w] \in ProjectorRow /\ worker[w].at = "publish" /\ worker[w].rows \in SUBSET Sent
      /\ worker[w].event \in BOOLEAN
  BY <1>1, ContentFields DEF PutElasticsearch
<1>3. PICK r \in worker[w].rows :
        /\ es' = [es EXCEPT ![r.chunk] = IF r.state = "dead" THEN "dead" ELSE Upserted(@)]
        /\ worker' = [worker EXCEPT ![w].at = "vector", ![w].rows = @ \ {r}, ![w].item = r]
  BY DEF PutElasticsearch
<1>4. r \in Sent /\ Said(row, r) /\ r = [chunk |-> r.chunk, state |-> r.state] /\ r.chunk \in Chunks
      /\ r.state \in {"live", "dead"}
  BY <1>1, <1>2 DEF SaidInv, Sent
<1> DEFINE x == [worker[w] EXCEPT !.at = "vector", !.rows = worker[w].rows \ {r}, !.item = r]
<1>5. /\ x.at = "vector" /\ x.rows = worker[w].rows \ {r} /\ x.event = worker[w].event /\ x.item = r
      /\ x \in ProjectorRow
  BY <1>2, <1>4 DEF ProjectorRow
<1>6. worker' = [worker EXCEPT ![w] = x] /\ UNCHANGED <<source, due, row, point, deleted>>
  <2>1. [worker EXCEPT ![w].at = "vector", ![w].rows = @ \ {r}, ![w].item = r] = [worker EXCEPT ![w] = x]
    BY <1>1, <1>2 DEF ContentTypeOK, ProjectorRow
  <2> QED BY <1>3, <2>1 DEF PutElasticsearch
<1>7. worker'[w] = x
  BY <1>1, <1>6 DEF ContentTypeOK
<1>8. /\ es' \in [Chunks -> ContentStates]
      /\ \A c \in Chunks \ {r.chunk} : es'[c] = es[c]
      /\ es'[r.chunk] = IF r.state = "dead" \/ es[r.chunk] = "dead" THEN "dead" ELSE "live"
  BY <1>1, <1>3, <1>4 DEF ContentTypeOK, ContentStates, Upserted
<1>9. \A c \in Chunks : /\ es'[c] # "absent" => Said(row, [chunk |-> c, state |-> es'[c]])
                        /\ point'[c] # "absent" => Said(row, [chunk |-> c, state |-> point'[c]])
                        /\ c \in deleted' => row[c] = "dead"
  <2>1. ASSUME NEW c \in Chunks, es'[c] # "absent" PROVE Said(row, [chunk |-> c, state |-> es'[c]])
    <3>1. CASE c # r.chunk
      BY <1>1, <1>8, <2>1, <3>1 DEF SaidInv
    <3>2. CASE c = r.chunk
      BY <1>1, <1>4, <1>8, <3>2 DEF SaidInv, Said
    <3> QED BY <3>1, <3>2
  <2> QED BY <1>1, <1>6, <2>1 DEF SaidInv
<1>10. \A q \in x.rows : Said(row, q)
  BY <1>1, <1>5 DEF SaidInv
<1>11. ASSUME NEW c \in Chunks, row[c] # "absent"
       PROVE  /\ ShownText(c) \/ ComingText(w, c) => ShownText(c)' \/ ComingText(w, c)'
              /\ ShownVector(c) \/ ComingVector(w, c) => ShownVector(c)' \/ ComingVector(w, c)'
  <2>1. row[c] \in {"live", "dead"} /\ es[c] \in {"absent", "live", "dead"}
    BY <1>1, <1>11, ContentFields DEF ContentStates
  <2>2. es[c] = "dead" => row[c] = "dead"
    BY <1>1 DEF SaidInv, Said
  <2>3. ShownText(c) => ShownText(c)'
    BY <1>4, <1>6, <1>8, <2>1, <2>2 DEF ShownText, Said
  <2>4. ComingText(w, c) => ShownText(c)' \/ ComingText(w, c)'
    <3>1. SUFFICES ASSUME ComingText(w, c) PROVE ShownText(c)' \/ ComingText(w, c)'
      OBVIOUS
    <3>2. worker[w].event /\ [chunk |-> c, state |-> row[c]] \in worker[w].rows
      BY <1>2, <3>1 DEF ComingText
    <3>3. CASE r = [chunk |-> c, state |-> row[c]]
      <4>1. r.chunk = c /\ r.state = row[c]
        BY <3>3
      <4> QED BY <1>6, <1>8, <2>1, <2>2, <4>1 DEF ShownText
    <3>4. CASE r # [chunk |-> c, state |-> row[c]]
      BY <1>5, <1>6, <1>7, <3>2, <3>4 DEF ComingText
    <3> QED BY <3>3, <3>4
  <2>5. ShownVector(c)' <=> ShownVector(c)
    BY <1>6 DEF ShownVector
  <2>6. ComingVector(w, c) => ComingVector(w, c)'
    BY <1>2, <1>5, <1>6, <1>7 DEF ComingVector, ComingText
  <2> QED BY <2>3, <2>4, <2>5, <2>6
<1> HIDE DEF x
<1>12. due' \in Nat /\ point' \in [Chunks -> ContentStates] /\ deleted' \in SUBSET Chunks
  BY <1>1, <1>6 DEF ContentTypeOK
<1>13. UNCHANGED <<source, row>> /\ due' = due
  BY <1>6
<1> QED BY <1>4, <1>5, <1>6, <1>8, <1>9, <1>10, <1>11, <1>12, <1>13, WorkerStep

LEMMA PutQdrantInv ==
  ASSUME ContentInv, NEW w \in Projectors, PutQdrant(w)
  PROVE  ContentInv'
<1>1. ContentTypeOK /\ SourceInv /\ SaidInv
  BY DEF ContentInv
<1> DEFINE r == worker[w].item
           x == [worker[w] EXCEPT !.at = "mask"]
<1>2. /\ worker[w] \in ProjectorRow /\ worker[w].at = "vector" /\ worker[w].event \in BOOLEAN
      /\ worker[w].rows \in SUBSET Sent
  BY <1>1, ContentFields DEF PutQdrant
<1>3. r \in Sent /\ Said(row, r) /\ r = [chunk |-> r.chunk, state |-> r.state] /\ r.chunk \in Chunks
      /\ r.state \in {"live", "dead"}
  BY <1>1, <1>2 DEF SaidInv, Sent
<1>4. x.at = "mask" /\ x.rows = worker[w].rows /\ x.event = worker[w].event /\ x \in ProjectorRow
  BY <1>2 DEF ProjectorRow
<1>5. worker' = [worker EXCEPT ![w] = x] /\ UNCHANGED <<source, due, row, es>>
  <2>1. [worker EXCEPT ![w].at = "mask"] = [worker EXCEPT ![w] = x]
    BY <1>1, <1>2 DEF ContentTypeOK, ProjectorRow
  <2> QED BY <2>1 DEF PutQdrant
<1>6. worker'[w] = x
  BY <1>1, <1>5 DEF ContentTypeOK
<1>7. \/ r.state = "dead" /\ deleted' = deleted \cup {r.chunk} /\ point' = point
      \/ r.state = "live" /\ deleted' = deleted /\ point' = [point EXCEPT ![r.chunk] = "live"]
  BY <1>3 DEF PutQdrant
<1> HIDE DEF x, r
<1>8. /\ point' \in [Chunks -> ContentStates] /\ deleted' \in SUBSET Chunks
      /\ \A c \in Chunks : /\ c \in deleted' <=> c \in deleted \/ (c = r.chunk /\ r.state = "dead")
                           /\ point'[c] = IF c = r.chunk /\ r.state = "live" THEN "live" ELSE point[c]
  BY <1>1, <1>3, <1>7 DEF ContentTypeOK, ContentStates
<1>9. \A c \in Chunks : /\ es'[c] # "absent" => Said(row, [chunk |-> c, state |-> es'[c]])
                        /\ point'[c] # "absent" => Said(row, [chunk |-> c, state |-> point'[c]])
                        /\ c \in deleted' => row[c] = "dead"
  <2>1. ASSUME NEW c \in Chunks PROVE c \in deleted' => row[c] = "dead"
    BY <1>1, <1>3, <1>8 DEF SaidInv, Said
  <2>2. ASSUME NEW c \in Chunks, point'[c] # "absent" PROVE Said(row, [chunk |-> c, state |-> point'[c]])
    BY <1>1, <1>3, <1>8, <2>2 DEF SaidInv, Said
  <2> QED BY <1>1, <1>5, <2>1, <2>2 DEF SaidInv
<1>10. \A q \in x.rows : Said(row, q)
  BY <1>1, <1>4 DEF SaidInv
<1>11. ASSUME NEW c \in Chunks, row[c] # "absent"
       PROVE  /\ ShownText(c) \/ ComingText(w, c) => ShownText(c)' \/ ComingText(w, c)'
              /\ ShownVector(c) \/ ComingVector(w, c) => ShownVector(c)' \/ ComingVector(w, c)'
  <2>1. row[c] \in {"live", "dead"}
    BY <1>1, <1>11, ContentFields DEF ContentStates
  <2>2. ShownText(c) <=> ShownText(c)'
    BY <1>5 DEF ShownText
  <2>3. ComingText(w, c) => ComingText(w, c)'
    BY <1>2, <1>4, <1>5, <1>6 DEF ComingText
  <2>4. ShownVector(c) => ShownVector(c)'
    BY <1>5, <1>8 DEF ShownVector
  <2>5. ComingVector(w, c) => ShownVector(c)' \/ ComingVector(w, c)'
    <3>1. SUFFICES ASSUME ComingVector(w, c), ~ComingText(w, c) PROVE ShownVector(c)'
      BY <2>3 DEF ComingVector
    <3>2. r = [chunk |-> c, state |-> row[c]]
      BY <3>1 DEF ComingVector, r
    <3>3. r.chunk = c /\ r.state = row[c]
      BY <3>2
    <3> QED BY <1>5, <1>8, <2>1, <3>3 DEF ShownVector
  <2> QED BY <2>2, <2>3, <2>4, <2>5
<1>12. due' \in Nat /\ es' \in [Chunks -> ContentStates]
  BY <1>1, <1>5 DEF ContentTypeOK
<1>13. UNCHANGED <<source, row>> /\ due' = due
  BY <1>5
<1> QED BY <1>4, <1>5, <1>8, <1>9, <1>10, <1>11, <1>12, <1>13, WorkerStep

LEMMA MaskQdrantInv ==
  ASSUME ContentInv, NEW w \in Projectors, MaskQdrant(w)
  PROVE  ContentInv'
<1>1. ContentTypeOK /\ SourceInv /\ SaidInv
  BY DEF ContentInv
<1> DEFINE d == worker[w].item.chunk
           x == [worker[w] EXCEPT !.at = "publish"]
<1>2. /\ worker[w] \in ProjectorRow /\ worker[w].at = "mask" /\ worker[w].event \in BOOLEAN
      /\ worker[w].rows \in SUBSET Sent
  BY <1>1, ContentFields DEF MaskQdrant
<1>3. x.at = "publish" /\ x.rows = worker[w].rows /\ x.event = worker[w].event /\ x \in ProjectorRow
  BY <1>2 DEF ProjectorRow
<1>4. worker' = [worker EXCEPT ![w] = x] /\ UNCHANGED <<source, due, row, es, deleted>>
  <2>1. [worker EXCEPT ![w].at = "publish"] = [worker EXCEPT ![w] = x]
    BY <1>1, <1>2 DEF ContentTypeOK, ProjectorRow
  <2> QED BY <2>1 DEF MaskQdrant
<1>5. worker'[w] = x
  BY <1>1, <1>4 DEF ContentTypeOK
<1>6. point' = [point EXCEPT ![d] = IF d \in deleted THEN Buried(@) ELSE @]
  BY DEF MaskQdrant
<1> HIDE DEF x, d
<1>7. /\ point' \in [Chunks -> ContentStates]
      /\ \A c \in Chunks : \/ point'[c] = point[c]
                           \/ c \in deleted /\ point'[c] = Buried(point[c])
  <2>1. \A s \in ContentStates : Buried(s) \in ContentStates
    BY DEF Buried, ContentStates
  <2> QED BY <1>1, <1>6, <2>1 DEF ContentTypeOK
<1>8. \A c \in Chunks : /\ es'[c] # "absent" => Said(row, [chunk |-> c, state |-> es'[c]])
                        /\ point'[c] # "absent" => Said(row, [chunk |-> c, state |-> point'[c]])
                        /\ c \in deleted' => row[c] = "dead"
  <2>1. ASSUME NEW c \in Chunks, point'[c] # "absent" PROVE Said(row, [chunk |-> c, state |-> point'[c]])
    <3>1. CASE point'[c] = point[c]
      BY <1>1, <2>1, <3>1 DEF SaidInv
    <3>2. CASE c \in deleted
      BY <1>1, <3>2 DEF SaidInv, Said
    <3> QED BY <1>7, <3>1, <3>2
  <2> QED BY <1>1, <1>4, <2>1 DEF SaidInv
<1>9. \A q \in x.rows : Said(row, q)
  BY <1>1, <1>3 DEF SaidInv
<1>10. ASSUME NEW c \in Chunks, row[c] # "absent"
       PROVE  /\ ShownText(c) \/ ComingText(w, c) => ShownText(c)' \/ ComingText(w, c)'
              /\ ShownVector(c) \/ ComingVector(w, c) => ShownVector(c)' \/ ComingVector(w, c)'
  <2>1. ShownText(c) <=> ShownText(c)'
    BY <1>4 DEF ShownText
  <2>2. ComingText(w, c) => ComingText(w, c)'
    BY <1>2, <1>3, <1>4, <1>5 DEF ComingText
  <2>3. ShownVector(c) => ShownVector(c)'
    <3>1. row[c] = "live" => c \notin deleted
      BY <1>1 DEF SaidInv
    <3> QED BY <1>4, <1>7, <3>1 DEF ShownVector
  <2>4. ComingVector(w, c) => ComingVector(w, c)'
    BY <1>2, <2>2 DEF ComingVector
  <2> QED BY <2>1, <2>2, <2>3, <2>4
<1>11. due' \in Nat /\ es' \in [Chunks -> ContentStates] /\ deleted' \in SUBSET Chunks
  BY <1>1, <1>4 DEF ContentTypeOK
<1>12. UNCHANGED <<source, row>> /\ due' = due
  BY <1>4
<1> QED BY <1>3, <1>4, <1>7, <1>8, <1>9, <1>10, <1>11, <1>12, WorkerStep

\* A handler ends: it has nothing left, or its event is due again.
LEMMA EndInv ==
  ASSUME ContentInv, NEW w \in Projectors, Acknowledge(w) \/ Fail(w)
  PROVE  ContentInv'
<1>1. ContentTypeOK /\ SourceInv /\ SaidInv
  BY DEF ContentInv
<1>2. Idle.at = "idle" /\ Idle.rows = {} /\ Idle \in ProjectorRow
  BY DEF Idle, ProjectorRow
<1>3. /\ worker' = [worker EXCEPT ![w] = Idle] /\ UNCHANGED <<source, row, es, point, deleted>>
      /\ due' = due \/ (worker[w].event /\ due' = due + 1)
      /\ due' = due => ~worker[w].event \/ (worker[w].at = "publish" /\ worker[w].rows = {})
  <2>1. due \in Nat
    BY <1>1 DEF ContentTypeOK
  <2> QED BY <2>1 DEF Acknowledge, Fail, index
<1>4. \A c \in Chunks : /\ es'[c] # "absent" => Said(row, [chunk |-> c, state |-> es'[c]])
                        /\ point'[c] # "absent" => Said(row, [chunk |-> c, state |-> point'[c]])
                        /\ c \in deleted' => row[c] = "dead"
  BY <1>1, <1>3 DEF SaidInv
<1>5. due' \in Nat /\ (due' = 0 => due = 0 /\ due' = due)
  BY <1>1, <1>3 DEF ContentTypeOK
<1>6. \A c \in Chunks : (ShownText(c)' <=> ShownText(c)) /\ (ShownVector(c)' <=> ShownVector(c))
  BY <1>3 DEF ShownText, ShownVector
<1>7. ASSUME due' = 0, NEW c \in Chunks PROVE ~ComingText(w, c) /\ ~ComingVector(w, c)
  BY <1>3, <1>5, <1>7 DEF ComingText, ComingVector
<1>8. es' \in [Chunks -> ContentStates] /\ point' \in [Chunks -> ContentStates] /\ deleted' \in SUBSET Chunks
  BY <1>1, <1>3 DEF ContentTypeOK
<1> HIDE DEF Idle
<1> QED BY <1>2, <1>3, <1>4, <1>5, <1>6, <1>7, <1>8, WorkerStep

LEMMA ContentStep ==
  ASSUME ContentInv, Next
  PROVE  ContentInv'
<1>1. CASE Publish \/ Retire \/ Delete \/ Revive
  BY <1>1, EmitInv
<1>2. ASSUME NEW w \in Projectors, NEW event \in BOOLEAN, ProjectObject(w, event),
             (event /\ due > 0 /\ due' = due - 1) \/ (~event /\ due' = due)
      PROVE  ContentInv'
  <2> DEFINE x == [Idle EXCEPT !.at = "load", !.event = event, !.page = Chunks]
  <2>1. x \in ProjectorRow /\ x.at = "load" /\ x.rows = {} /\ x.page = Chunks /\ x.event = event
    BY DEF Idle, ProjectorRow
  <2>2. ~worker[w].event
    BY <1>2 DEF ProjectObject, Idle
  <2>3. row' = Projected(Chunks) /\ UNCHANGED <<source, es, point, deleted>> /\ worker' = [worker EXCEPT ![w] = x]
    BY <1>2 DEF ProjectObject
  <2> HIDE DEF x
  <2> QED BY <1>2, <2>1, <2>2, <2>3, ProjectInv
<1>3. ASSUME NEW w \in Projectors, ProjectPage(w) PROVE ContentInv'
  <2> DEFINE x == [worker[w] EXCEPT !.at = "load"]
  <2>1. ContentTypeOK /\ SaidInv
    BY DEF ContentInv
  <2>2. /\ worker[w] \in ProjectorRow /\ worker[w].at = "page" /\ ~worker[w].event /\ worker[w].page \in SUBSET Chunks
        /\ \A r \in worker[w].rows : Said(row, r)
    BY <1>3, <2>1, ContentFields DEF ProjectPage, SaidInv
  <2>3. x \in ProjectorRow /\ x.at = "load" /\ x.rows = worker[w].rows /\ ~x.event
    BY <2>2 DEF ProjectorRow
  <2>4. worker' = [worker EXCEPT ![w] = x] /\ UNCHANGED <<source, due, es, point, deleted>>
        /\ row' = Projected(worker[w].page)
    <3>1. [worker EXCEPT ![w].at = "load"] = [worker EXCEPT ![w] = x]
      BY <2>1, <2>2 DEF ContentTypeOK, ProjectorRow
    <3> QED BY <1>3, <3>1 DEF ProjectPage
  <2> HIDE DEF x
  <2> QED BY <2>2, <2>3, <2>4, ProjectInv
<1>4. ASSUME NEW w \in Projectors,
             LoadRows(w) \/ PutElasticsearch(w) \/ PutQdrant(w) \/ MaskQdrant(w) \/ Acknowledge(w) \/ Fail(w)
      PROVE  ContentInv'
  BY <1>4, LoadRowsInv, PutElasticsearchInv, PutQdrantInv, MaskQdrantInv, EndInv
<1>5. ASSUME NEW w \in Snapshots, RepairObject(w) \/ ReadPage(w) \/ ProjectPage(w)
      PROVE  ContentInv'
  <2>1. w \in Projectors
    BY IndexConstants
  <2> QED BY <1>2, <1>3, <1>5, <2>1, ReadPageInv DEF RepairObject
<1>6. ASSUME NEW w \in Projectors, Project(w) PROVE ContentInv'
  BY <1>2, <1>6 DEF Project
<1> QED BY <1>1, <1>4, <1>5, <1>6 DEF Next

\* When nothing is on its way, the rows are right and both indexes show them.
LEMMA ContentSettles ==
  ASSUME ContentInv
  PROVE  ContentCaughtUp
<1> SUFFICES ASSUME Quiet
             PROVE  \A visible \in {VisibleText, VisibleVector} :
                      IF source.status # "ready" THEN visible = {}
                      ELSE source.active # 0 => visible = {source.active}
  BY DEF ContentCaughtUp
<1>1. ContentTypeOK /\ SourceInv /\ SaidInv /\ Reached /\ \A w \in Projectors : worker[w] = Idle
  BY DEF ContentInv, Quiet
<1>2. \A w \in Projectors : ~worker[w].event
  BY <1>1 DEF Idle
<1>3. ASSUME NEW c \in Chunks
      PROVE  (c \in VisibleText <=> row[c] = "live") /\ (c \in VisibleVector <=> row[c] = "live")
  <2>1. /\ es[c] # "absent" => row[c] # "absent"
        /\ point[c] # "absent" => row[c] # "absent"
        /\ c \in deleted => row[c] = "dead"
    BY <1>1 DEF SaidInv, Said
  <2>2. row[c] # "absent" => ShownText(c) /\ ShownVector(c)
    BY <1>1, <1>2 DEF Reached, ComingText, ComingVector
  <2> QED BY <2>1, <2>2 DEF ShownText, ShownVector, VisibleText, VisibleVector
<1>4. VisibleText \subseteq Chunks /\ VisibleVector \subseteq Chunks
  BY DEF VisibleText, VisibleVector
<1>5. CASE source.status # "ready"
  <2>1. \A c \in Chunks : row[c] # "live"
    BY <1>1, <1>5 DEF Reached, RowsRight
  <2> QED BY <1>3, <1>4, <1>5, <2>1
<1>6. CASE source.status = "ready"
  <2>1. SUFFICES ASSUME source.active # 0 PROVE VisibleText = {source.active} /\ VisibleVector = {source.active}
    BY <1>6
  <2>2. source.active \in Chunks
    BY <1>1, <2>1, ContentFields, IndexConstants DEF SourceInv, Chunks
  <2>3. \A c \in Chunks : row[c] = "live" <=> c = source.active
    BY <1>1, <1>6, <2>1 DEF Reached, RowsRight
  <2> QED BY <1>3, <1>4, <2>2, <2>3
<1> QED BY <1>5, <1>6

LEMMA ContentNext == ContentInv /\ [Next]_vars => ContentInv'
<1>1. ContentInv /\ UNCHANGED vars => ContentInv'
  BY DEF vars, ContentInv, ContentTypeOK, SourceInv, SaidInv, Said, Reached, RowsRight, ComingText, ComingVector,
         ShownText, ShownVector
<1> QED BY <1>1, ContentStep

-----------------------------------------------------------------------------
(* Index generations (Generations) *)

Ever == {"active", "retired"}
Members == 1 .. 4
IndexRow == [state : {"absent", "building", "failed"} \cup Ever, sum : {"none", "cursor", "final"}, error : BOOLEAN]
Transaction == {"lock", "see", "retire", "promote", "commit"}

\* A todo is a sequence of members in a transaction; of the others nothing is needed.
OperatorOK(r) ==
  r \in [at : {"idle", "scan", "persist", "finish", "fail"} \cup Transaction,
         goal : {"none", "backfill", "permanent", "activate", "rollback"}, target : Gn!Targets, todo : {r.todo},
         passed : SUBSET Members, pos : [Gn!Canonical -> 0..Pages], seen : SUBSET Gn!Targets,
         locked : SUBSET (Gn!Targets \X Members), wrote : SUBSET (Gn!Targets \X Members \X Ever)]

GenerationTypeOK ==
  /\ version \in [Gn!Targets -> [Members -> IndexRow]]
  /\ cursor \in [Gn!Targets -> [Gn!Canonical -> 0..Pages]]
  /\ written \in [Gn!Targets -> SUBSET (Gn!Canonical \X (1..Pages))]
  /\ operator = [o \in Operators |-> operator[o]] /\ \A o \in Operators : OperatorOK(operator[o])

\* What GenerationsSound says of the rows, and how those of a generation agree.
Full(t) == \A m \in Gn!Canonical, p \in 1..Pages : <<m, p>> \in written[t]
RowsTogether ==
  \A t \in Gn!Targets :
    /\ \A m \in Members : /\ m \notin Gn!MembersOf(t) => version[t][m].state = "absent"
                          /\ version[t][3].state = "absent" => version[t][m].state = "absent"
                          /\ version[t][m].sum = "final" \/ version[t][m].state \in Ever => Full(t)
    /\ \A m, n \in Gn!MembersOf(t) : version[t][m].state \in Ever => version[t][n].state \in Ever
OneActive ==
  /\ \A m \in Members, t, u \in Gn!Targets : version[t][m].state = "active" /\ version[u][m].state = "active" => t = u
  /\ \A m \in Gn!Canonical : \E t \in Gn!Targets : version[t][m].state = "active"
  /\ \A m, n \in Members, t, u \in Gn!Targets :
       version[t][m].state = "active" /\ version[u][n].state = "active"
       => t = u \/ n \notin Gn!MembersOf(t) \/ m \notin Gn!MembersOf(u)
PagesKept ==
  /\ \A t \in Gn!Targets, m \in Gn!Canonical : \A p \in 1..cursor[t][m] : <<m, p>> \in written[t]
  /\ \A o \in Operators, m \in Gn!Canonical : /\ \A p \in 1..operator[o].pos[m] : <<m, p>> \in written[Gn!Goal(o)]
                                              /\ Gn!At(o, "finish") => operator[o].pos[m] = Pages

\* A row that is locked is not changed by anybody else, so what a transaction wrote
\* is what it found.
LockOK(o) ==
  /\ operator[o].at \notin Transaction => operator[o].locked = {} /\ operator[o].wrote = {}
  /\ \A t \in Gn!Targets, m \in Members : <<t, m>> \in operator[o].locked =>
       /\ version[t][m].state # "absent" /\ (t = Gn!Goal(o) => Full(t))
       /\ \A p \in Operators \ {o} : <<t, m>> \notin operator[p].locked
  /\ \A t \in Gn!Targets, m \in Members :
       /\ <<t, m, "retired">> \in operator[o].wrote =>
            /\ <<t, m>> \in operator[o].locked /\ version[t][m].state = "active"
            /\ t # Gn!Goal(o) /\ m \in Gn!MembersOf(Gn!Goal(o))
       /\ <<t, m, "active">> \in operator[o].wrote =>
            /\ <<t, m>> \in operator[o].locked /\ t = Gn!Goal(o) /\ m \in Gn!MembersOf(t)
            /\ \A u \in Gn!Targets \ {t} : version[u][m].state = "active" => <<u, m, "retired">> \in operator[o].wrote
            /\ \A p \in Operators \ {o} : \A u \in Gn!Targets, s \in Ever : <<u, m, s>> \notin operator[p].wrote

\* A member that the transaction is done with.
Taken(o, m) ==
  /\ <<Gn!Goal(o), m>> \in operator[o].locked
  /\ version[Gn!Goal(o)][m].state = "active" \/ <<Gn!Goal(o), m, "active">> \in operator[o].wrote

\* An activation of a generation that is active in part finds a retired member, and
\* changes nothing.
TransactionOK(o) ==
  operator[o].at \in Transaction =>
    /\ operator[o].todo \in Seq(Gn!MembersOf(Gn!Goal(o)))
    /\ (operator[o].todo = <<>> <=> Gn!At(o, "commit")) /\ Gn!Goal(o) \notin operator[o].seen
    /\ operator[o].at \in {"see", "retire", "promote"} => <<Gn!Goal(o), Gn!Member(o)>> \in operator[o].locked
    /\ operator[o].passed = {} => \A m \in Gn!MembersOf(Gn!Goal(o)) \ Range(operator[o].todo) : Taken(o, m)
    /\ operator[o].passed # {} =>
         /\ Gn!At(o, "lock") /\ operator[o].goal = "activate" /\ operator[o].locked = {} /\ operator[o].wrote = {}
         /\ \A m \in Gn!MembersOf(Gn!Goal(o)) : version[Gn!Goal(o)][m].state \in Ever
         /\ ~(Range(operator[o].todo) \subseteq operator[o].passed)

GenerationsInv ==
  /\ GenerationTypeOK /\ RowsTogether /\ OneActive /\ PagesKept
  /\ \A o \in Operators : LockOK(o) /\ TransactionOK(o)

\* What Tail leaves.
LEMMA TodoTail ==
  ASSUME NEW S, NEW q \in Seq(S), q # <<>>
  PROVE  /\ Head(q) \in S /\ Tail(q) \in Seq(S) /\ Range(q) \subseteq S
         /\ Tail(q) = <<>> <=> Len(q) = 1
         /\ Range(q) = {Head(q)} \cup Range(Tail(q))
<1>1. Len(q) \in Nat \ {0} /\ \A i \in 1..Len(q) : q[i] \in S
  OBVIOUS
<1>2. Tail(q) \in Seq(S) /\ Len(Tail(q)) = Len(q) - 1 /\ \A i \in 1..Len(q) - 1 : Tail(q)[i] = q[i + 1]
  OBVIOUS
<1>3. Tail(q) = <<>> <=> Len(q) = 1
  <2>1. ASSUME NEW u \in Seq(S), u # <<>> PROVE Len(u) # 0
    BY <2>1
  <2>2. Len(<<>>) = 0
    OBVIOUS
  <2> QED BY <1>1, <1>2, <2>1, <2>2
<1>4. Range(q) = {q[i] : i \in 1..Len(q)} /\ Range(Tail(q)) = {Tail(q)[i] : i \in 1..Len(q) - 1}
  <2>1. \A u \in Seq(S) : DOMAIN u = 1..Len(u)
    OBVIOUS
  <2>2. \A u \in Seq(S) : Range(u) = {u[i] : i \in 1..Len(u)}
    BY <2>1 DEF Range
  <2> QED BY <1>2, <2>2
<1>5. \A y : y \in Range(q) => y = q[1] \/ y \in Range(Tail(q))
  <2> SUFFICES ASSUME NEW i \in 1..Len(q), q[i] # q[1] PROVE q[i] \in Range(Tail(q))
    BY <1>4
  <2>1. i - 1 \in 1..Len(q) - 1 /\ Tail(q)[i - 1] = q[i]
    BY <1>1, <1>2
  <2> QED BY <1>4, <2>1
<1>6. q[1] \in Range(q) /\ Range(Tail(q)) \subseteq Range(q)
  BY <1>1, <1>2, <1>4
<1> QED BY <1>1, <1>2, <1>3, <1>4, <1>5, <1>6

LEMMA GenerationMembers ==
  /\ 1 \in Gn!Targets /\ Gn!Canonical = {3, 4} /\ Gn!Canonical \subseteq Members
  /\ \A t \in Gn!Targets : /\ Gn!MembersOf(t) \subseteq Members /\ Gn!Canonical \subseteq Gn!MembersOf(t)
                           /\ Generation[t] \in Seq(Gn!MembersOf(t)) /\ Generation[t] # <<>>
                           /\ Range(Generation[t]) = Gn!MembersOf(t)
<1>1. ASSUME NEW t \in Gn!Targets
      PROVE  /\ Gn!MembersOf(t) \subseteq Members /\ Gn!Canonical \subseteq Gn!MembersOf(t)
             /\ Generation[t] \in Seq(Gn!MembersOf(t)) /\ Generation[t] # <<>>
             /\ Range(Generation[t]) = Gn!MembersOf(t)
  <2>1. Generation[t] \in Seq(1..4) /\ {3, 4} \subseteq Range(Generation[t])
    BY IndexConstants DEF Gn!Targets
  <2>2. Gn!MembersOf(t) = Range(Generation[t])
    BY DEF Gn!MembersOf, Gn!Range, Range
  <2>3. Range(Generation[t]) = {Generation[t][i] : i \in 1..Len(Generation[t])}
    BY <2>1 DEF Range
  <2>4. Range(Generation[t]) \subseteq 1..4 /\ Generation[t] # <<>>
    BY <2>1, <2>3
  <2>5. Generation[t] \in Seq(Range(Generation[t]))
    BY <2>1, <2>3
  <2> QED BY <2>1, <2>2, <2>4, <2>5 DEF Members, Gn!Canonical
<1>2. 1 \in Gn!Targets /\ Gn!Canonical = {3, 4} /\ Gn!Canonical \subseteq Members
  BY IndexConstants DEF Gn!Targets, Gn!Canonical, Members
<1> QED BY <1>1, <1>2

LEMMA GenerationFields ==
  ASSUME GenerationTypeOK
  PROVE  /\ \A t \in Gn!Targets, m \in Members :
              /\ version[t][m] \in IndexRow /\ version[t][m].state \in {"absent", "building", "failed"} \cup Ever
              /\ version[t][m].sum \in {"none", "cursor", "final"} /\ version[t][m].error \in BOOLEAN
         /\ \A o \in Operators : OperatorOK(operator[o]) /\ Gn!Goal(o) \in Gn!Targets
<1>1. \A t \in Gn!Targets, m \in Members : version[t][m] \in IndexRow
  BY DEF GenerationTypeOK
<1>2. \A o \in Operators : OperatorOK(operator[o]) /\ Gn!Goal(o) \in Gn!Targets
  BY DEF GenerationTypeOK, OperatorOK, Gn!Goal
<1> QED BY <1>1, <1>2 DEF IndexRow

LEMMA RestingOK ==
  /\ OperatorOK(Gn!Resting) /\ Gn!Resting.at = "idle" /\ Gn!Resting.locked = {} /\ Gn!Resting.wrote = {}
  /\ \A m \in Gn!Canonical : Gn!Resting.pos[m] = 0
<1>1. [m \in Gn!Canonical |-> 0] \in [Gn!Canonical -> 0..Pages]
  BY IndexConstants
<1> QED BY <1>1, GenerationMembers DEF Gn!Resting, OperatorOK, Transaction, Ever, Members

LEMMA GenerationsInit == Gn!Init => GenerationsInv
<1> SUFFICES ASSUME Gn!Init PROVE GenerationsInv
  OBVIOUS
<1> DEFINE Row(t, m) == IF t = 1 /\ m \in Gn!MembersOf(1) THEN [state |-> "active", sum |-> "final", error |-> FALSE]
                        ELSE IF t \in Built /\ m \in Gn!MembersOf(t)
                             THEN [state |-> "building", sum |-> "final", error |-> FALSE]
                             ELSE Gn!Absent
<1>1. /\ version = [t \in Gn!Targets |-> [m \in 1..4 |-> Row(t, m)]]
      /\ cursor = [t \in Gn!Targets |-> [m \in Gn!Canonical |-> IF t \in Built \cup {1} THEN Pages ELSE 0]]
      /\ written = [t \in Gn!Targets |-> IF t \in Built \cup {1} THEN Gn!Canonical \X (1..Pages) ELSE {}]
      /\ operator = [o \in Operators |-> Gn!Resting]
  BY DEF Gn!Init
<1>2. \A t, m : /\ Row(t, m) \in IndexRow /\ Row(t, m).state \in {"active", "building", "absent"}
                /\ Row(t, m).state = "active" <=> t = 1 /\ m \in Gn!MembersOf(1)
                /\ Row(t, m).state \in Ever <=> t = 1 /\ m \in Gn!MembersOf(1)
                /\ Row(t, m).state = "absent" <=> ~(t \in Built \cup {1} /\ m \in Gn!MembersOf(t))
                /\ Row(t, m).sum = "final" => t \in Built \cup {1}
  BY DEF IndexRow, Ever, Gn!Absent
<1> HIDE DEF Row
<1>3. \A t \in Gn!Targets, m \in Members : version[t][m] = Row(t, m)
  BY <1>1 DEF Members
<1>4. GenerationTypeOK
  <2>1. \A o \in Operators : operator[o] = Gn!Resting
    BY <1>1
  <2>2. version \in [Gn!Targets -> [Members -> IndexRow]]
    BY <1>1, <1>2 DEF Members
  <2>3. cursor \in [Gn!Targets -> [Gn!Canonical -> 0..Pages]]
    <3>1. Pages \in 0..Pages /\ 0 \in 0..Pages
      BY IndexConstants
    <3> QED BY <1>1, <3>1
  <2>4. written \in [Gn!Targets -> SUBSET (Gn!Canonical \X (1..Pages))]
    BY <1>1
  <2> QED BY <1>1, <2>1, <2>2, <2>3, <2>4, RestingOK DEF GenerationTypeOK
<1>5. \A t \in Gn!Targets : t \in Built \cup {1} => Full(t)
  BY <1>1 DEF Full
<1>6. RowsTogether
  <2>1. ASSUME NEW t \in Gn!Targets, NEW m \in Members
        PROVE  /\ m \notin Gn!MembersOf(t) => version[t][m].state = "absent"
               /\ version[t][3].state = "absent" => version[t][m].state = "absent"
               /\ version[t][m].sum = "final" \/ version[t][m].state \in Ever => Full(t)
    <3>1. version[t][m] = Row(t, m) /\ version[t][3] = Row(t, 3) /\ 3 \in Gn!MembersOf(t)
      BY <1>3, GenerationMembers
    <3>2. m \notin Gn!MembersOf(t) => Row(t, m).state = "absent"
      BY <1>2
    <3>3. Row(t, 3).state = "absent" => Row(t, m).state = "absent"
      BY <1>2, <3>1
    <3>4. Row(t, m).sum = "final" \/ Row(t, m).state \in Ever => Full(t)
      BY <1>2, <1>5
    <3> QED BY <3>1, <3>2, <3>3, <3>4
  <2>2. ASSUME NEW t \in Gn!Targets, NEW m \in Gn!MembersOf(t), NEW n \in Gn!MembersOf(t), version[t][m].state \in Ever
        PROVE  version[t][n].state \in Ever
    <3>1. m \in Members /\ n \in Members
      BY GenerationMembers
    <3> QED BY <1>2, <1>3, <2>2, <3>1
  <2> QED BY <2>1, <2>2 DEF RowsTogether
<1>7. OneActive
  <2>1. \A t \in Gn!Targets, m \in Members : version[t][m].state = "active" <=> t = 1 /\ m \in Gn!MembersOf(1)
    BY <1>2, <1>3
  <2> QED BY <2>1, GenerationMembers DEF OneActive
<1>8. PagesKept
  <2>1. ASSUME NEW t \in Gn!Targets, NEW m \in Gn!Canonical, NEW p \in 1..cursor[t][m]
        PROVE  <<m, p>> \in written[t]
    <3>1. cursor[t][m] = IF t \in Built \cup {1} THEN Pages ELSE 0
      BY <1>1
    <3>2. t \in Built \cup {1} /\ p \in 1..Pages
      BY <3>1
    <3> QED BY <1>1, <3>2
  <2>2. ASSUME NEW o \in Operators, NEW m \in Gn!Canonical
        PROVE  /\ \A p \in 1..operator[o].pos[m] : <<m, p>> \in written[Gn!Goal(o)]
               /\ Gn!At(o, "finish") => operator[o].pos[m] = Pages
    BY <1>1, RestingOK DEF Gn!At
  <2> QED BY <2>1, <2>2 DEF PagesKept
<1>9. ASSUME NEW o \in Operators PROVE LockOK(o) /\ TransactionOK(o)
  BY <1>1, RestingOK DEF LockOK, TransactionOK, Transaction
<1> QED BY <1>4, <1>6, <1>7, <1>8, <1>9 DEF GenerationsInv

\* Whom a step of another one leaves alone.
LEMMA OthersKeep ==
  ASSUME GenerationsInv, NEW p \in Operators, operator'[p] = operator[p],
         \A t \in Gn!Targets, m \in Members :
           /\ <<t, m>> \in operator[p].locked =>
                /\ version'[t][m].state # "absent" /\ (version'[t][m].state = "active" <=> version[t][m].state = "active")
                /\ \A q \in Operators \ {p} : <<t, m>> \notin operator'[q].locked
           /\ version[t][m].state \in Ever => version'[t][m].state \in Ever
           /\ <<t, m, "active">> \in operator[p].wrote =>
                /\ \A u \in Gn!Targets \ {t} : version'[u][m].state = "active" => version[u][m].state = "active"
                /\ \A q \in Operators \ {p} : \A u \in Gn!Targets, s \in Ever : <<u, m, s>> \notin operator'[q].wrote,
         \A t \in Gn!Targets : Full(t) => Full(t)'
  PROVE  LockOK(p)' /\ TransactionOK(p)'
<1>1. LockOK(p) /\ TransactionOK(p) /\ GenerationTypeOK /\ Gn!Goal(p) \in Gn!Targets
  BY GenerationFields DEF GenerationsInv
<1>2. Gn!Goal(p)' = Gn!Goal(p) /\ Gn!Member(p)' = Gn!Member(p) /\ (\A place : Gn!At(p, place)' <=> Gn!At(p, place))
  BY DEF Gn!Goal, Gn!Member, Gn!At
<1>3. LockOK(p)'
  <2>1. ASSUME NEW t \in Gn!Targets, NEW m \in Members, <<t, m>> \in operator[p].locked
        PROVE  /\ version'[t][m].state # "absent" /\ (t = Gn!Goal(p) => Full(t)')
               /\ \A q \in Operators \ {p} : <<t, m>> \notin operator'[q].locked
    BY <1>1, <2>1 DEF LockOK
  <2>2. ASSUME NEW t \in Gn!Targets, NEW m \in Members
        PROVE  /\ <<t, m, "retired">> \in operator[p].wrote =>
                   /\ <<t, m>> \in operator[p].locked /\ version'[t][m].state = "active"
                   /\ t # Gn!Goal(p) /\ m \in Gn!MembersOf(Gn!Goal(p))
               /\ <<t, m, "active">> \in operator[p].wrote =>
                   /\ <<t, m>> \in operator[p].locked /\ t = Gn!Goal(p) /\ m \in Gn!MembersOf(t)
                   /\ \A u \in Gn!Targets \ {t} : version'[u][m].state = "active" => <<u, m, "retired">> \in operator[p].wrote
                   /\ \A q \in Operators \ {p} : \A u \in Gn!Targets, s \in Ever : <<u, m, s>> \notin operator'[q].wrote
    BY <1>1 DEF LockOK
  <2>3. operator'[p].at \notin Transaction => operator'[p].locked = {} /\ operator'[p].wrote = {}
    BY <1>1 DEF LockOK
  <2> QED BY <1>2, <2>1, <2>2, <2>3 DEF LockOK
<1>4. \A m \in Members : Taken(p, m) => Taken(p, m)'
  BY <1>1, <1>2 DEF Taken
<1>5. TransactionOK(p)'
  <2>1. Gn!MembersOf(Gn!Goal(p)) \subseteq Members
    BY <1>1, GenerationMembers
  <2> QED BY <1>1, <1>2, <1>4, <2>1 DEF TransactionOK
<1> QED BY <1>3, <1>5

PagesOf(x, t, pages) == \A m \in Gn!Canonical : /\ \A p \in 1..x.pos[m] : <<m, p>> \in pages[t]
                                                /\ x.at = "finish" => x.pos[m] = Pages

\* A step that changes an operator alone: what it takes, nobody has.
LEMMA OwnStep ==
  ASSUME GenerationsInv, NEW o \in Operators, NEW x, OperatorOK(x), operator' = [operator EXCEPT ![o] = x],
         UNCHANGED <<version, cursor, written>>, PagesOf(x, x.target, written),
         \A p \in Operators \ {o} : \A t \in Gn!Targets, m \in Members :
           /\ <<t, m>> \in operator[p].locked => <<t, m>> \notin x.locked
           /\ <<t, m, "active">> \in operator[p].wrote => \A u \in Gn!Targets, s \in Ever : <<u, m, s>> \notin x.wrote,
         LockOK(o)', TransactionOK(o)'
  PROVE  GenerationsInv'
<1>1. GenerationTypeOK /\ RowsTogether /\ OneActive /\ PagesKept /\ \A p \in Operators : LockOK(p)
  BY DEF GenerationsInv
<1>2. operator'[o] = x /\ \A p \in Operators \ {o} : operator'[p] = operator[p]
  BY <1>1 DEF GenerationTypeOK
<1>3. GenerationTypeOK'
  <2>1. operator' = [p \in Operators |-> operator'[p]]
    BY <1>1 DEF GenerationTypeOK
  <2>2. \A p \in Operators : OperatorOK(operator'[p])
    BY <1>1, <1>2 DEF GenerationTypeOK
  <2> QED BY <1>1, <2>1, <2>2 DEF GenerationTypeOK, OperatorOK
<1>4. RowsTogether' /\ OneActive' /\ (\A t : Full(t)' <=> Full(t))
  BY <1>1 DEF RowsTogether, OneActive, Full
<1>5. PagesKept'
  <2>1. ASSUME NEW p \in Operators, NEW m \in Gn!Canonical
        PROVE  /\ \A i \in 1..operator'[p].pos[m] : <<m, i>> \in written[operator'[p].target]
               /\ operator'[p].at = "finish" => operator'[p].pos[m] = Pages
    <3>1. CASE p = o
      BY <1>2, <3>1 DEF PagesOf
    <3>2. CASE p # o
      BY <1>1, <1>2, <3>2 DEF PagesKept, Gn!Goal, Gn!At
    <3> QED BY <3>1, <3>2
  <2> QED BY <1>1, <2>1 DEF PagesKept, Gn!Goal, Gn!At
<1>6. ASSUME NEW p \in Operators, p # o PROVE LockOK(p)' /\ TransactionOK(p)'
  <2>1. ASSUME NEW t \in Gn!Targets, NEW m \in Members
        PROVE  /\ <<t, m>> \in operator[p].locked =>
                    /\ version'[t][m].state # "absent" /\ (version'[t][m].state = "active" <=> version[t][m].state = "active")
                    /\ \A q \in Operators \ {p} : <<t, m>> \notin operator'[q].locked
               /\ version[t][m].state \in Ever => version'[t][m].state \in Ever
               /\ <<t, m, "active">> \in operator[p].wrote =>
                    /\ \A u \in Gn!Targets \ {t} : version'[u][m].state = "active" => version[u][m].state = "active"
                    /\ \A q \in Operators \ {p} : \A u \in Gn!Targets, s \in Ever : <<u, m, s>> \notin operator'[q].wrote
    BY <1>1, <1>2, <1>6 DEF LockOK
  <2> QED BY <1>2, <1>4, <1>6, <2>1, OthersKeep
<1> QED BY <1>3, <1>4, <1>5, <1>6 DEF GenerationsInv

\* An operator that is in no transaction holds nothing.
LEMMA HoldsNothing ==
  ASSUME NEW o \in Operators, NEW x, operator'[o] = x, x.at \notin Transaction, x.locked = {}, x.wrote = {}
  PROVE  LockOK(o)' /\ TransactionOK(o)'
  BY DEF LockOK, TransactionOK

LEMMA OutsideStep ==
  ASSUME GenerationsInv, NEW o \in Operators, NEW x, OperatorOK(x), operator' = [operator EXCEPT ![o] = x],
         UNCHANGED <<version, cursor, written>>, PagesOf(x, x.target, written),
         x.at \notin Transaction, x.locked = {}, x.wrote = {}
  PROVE  GenerationsInv'
<1>1. operator'[o] = x
  BY DEF GenerationsInv, GenerationTypeOK
<1>2. LockOK(o)' /\ TransactionOK(o)'
  BY <1>1, HoldsNothing
<1>3. \A p \in Operators \ {o} : \A t \in Gn!Targets, m \in Members :
        /\ <<t, m>> \in operator[p].locked => <<t, m>> \notin x.locked
        /\ <<t, m, "active">> \in operator[p].wrote => \A u \in Gn!Targets, s \in Ever : <<u, m, s>> \notin x.wrote
  OBVIOUS
<1> QED BY <1>2, <1>3, OwnStep

LEMMA RestingPages == \A t, pages : PagesOf(Gn!Resting, t, pages)
  BY RestingOK, IndexConstants DEF PagesOf

LEMMA RestStep ==
  ASSUME GenerationsInv, NEW o \in Operators, operator' = [operator EXCEPT ![o] = Gn!Resting],
         UNCHANGED <<version, cursor, written>>
  PROVE  GenerationsInv'
<1>1. OperatorOK(Gn!Resting) /\ PagesOf(Gn!Resting, Gn!Resting.target, written)
  BY RestingOK, RestingPages
<1>2. Gn!Resting.at \notin Transaction /\ Gn!Resting.locked = {} /\ Gn!Resting.wrote = {}
  BY RestingOK DEF Transaction
<1> QED BY <1>1, <1>2, OutsideStep

\* A step of a backfill: it writes pages and cursors, and changes rows of a
\* generation that were never active.
LEMMA BackfillStep ==
  ASSUME GenerationsInv, NEW o \in Operators, NEW x, OperatorOK(x), operator' = [operator EXCEPT ![o] = x],
         x.at \notin Transaction, x.locked = {}, x.wrote = {},
         version' \in [Gn!Targets -> [Members -> IndexRow]],
         cursor' \in [Gn!Targets -> [Gn!Canonical -> 0..Pages]],
         written' \in [Gn!Targets -> SUBSET (Gn!Canonical \X (1..Pages))],
         \A t \in Gn!Targets : written[t] \subseteq written'[t],
         PagesOf(x, x.target, written'),
         \A t \in Gn!Targets, m \in Gn!Canonical : \A p \in 1..cursor'[t][m] : <<m, p>> \in written'[t],
         \A t \in Gn!Targets, m \in Members :
           \/ version'[t][m] = version[t][m]
           \/ /\ version[t][m].state \notin Ever /\ version'[t][m].state \notin Ever \cup {"absent"}
              /\ m \in Gn!MembersOf(t) /\ version'[t][3].state # "absent"
              /\ version'[t][m].sum = "final" => Full(t)
  PROVE  GenerationsInv'
<1>1. GenerationTypeOK /\ RowsTogether /\ OneActive /\ PagesKept /\ \A p \in Operators : LockOK(p) /\ TransactionOK(p)
  BY DEF GenerationsInv
<1>2. operator'[o] = x /\ \A p \in Operators \ {o} : operator'[p] = operator[p]
  BY <1>1 DEF GenerationTypeOK
<1>3. GenerationTypeOK'
  <2>1. operator' = [p \in Operators |-> operator'[p]]
    BY <1>1 DEF GenerationTypeOK
  <2>2. \A p \in Operators : OperatorOK(operator'[p])
    BY <1>1, <1>2 DEF GenerationTypeOK
  <2> QED BY <1>1, <2>1, <2>2 DEF GenerationTypeOK, OperatorOK
<1>4. \A t \in Gn!Targets : Full(t) => Full(t)'
  BY DEF Full
<1>5. \A t \in Gn!Targets, m \in Members :
        /\ version'[t][m].state \in Ever <=> version[t][m].state \in Ever
        /\ version'[t][m].state = "active" <=> version[t][m].state = "active"
        /\ version[t][m].state # "absent" => version'[t][m].state # "absent"
  BY DEF Ever
<1>6. RowsTogether'
  <2>1. ASSUME NEW t \in Gn!Targets, NEW m \in Members
        PROVE  /\ m \notin Gn!MembersOf(t) => version'[t][m].state = "absent"
               /\ version'[t][3].state = "absent" => version'[t][m].state = "absent"
               /\ version'[t][m].sum = "final" \/ version'[t][m].state \in Ever => Full(t)'
    <3>1. 3 \in Members
      BY DEF Members
    <3>2. CASE version'[t][m] = version[t][m]
      <4>1. /\ m \notin Gn!MembersOf(t) => version[t][m].state = "absent"
            /\ version[t][3].state = "absent" => version[t][m].state = "absent"
            /\ version[t][m].sum = "final" \/ version[t][m].state \in Ever => Full(t)
        BY <1>1 DEF RowsTogether
      <4>2. version'[t][3].state = "absent" => version[t][3].state = "absent"
        BY <1>5, <3>1
      <4> QED BY <1>4, <3>2, <4>1, <4>2
    <3>3. CASE version'[t][m] # version[t][m]
      BY <1>4, <3>3
    <3> QED BY <3>2, <3>3
  <2>2. ASSUME NEW t \in Gn!Targets, NEW m \in Gn!MembersOf(t), NEW n \in Gn!MembersOf(t), version'[t][m].state \in Ever
        PROVE  version'[t][n].state \in Ever
    <3>1. m \in Members /\ n \in Members
      BY GenerationMembers
    <3> QED BY <1>1, <1>5, <2>2, <3>1 DEF RowsTogether
  <2> QED BY <2>1, <2>2 DEF RowsTogether
<1>7. OneActive'
  BY <1>1, <1>5, GenerationMembers DEF OneActive
<1>8. PagesKept'
  <2>1. ASSUME NEW p \in Operators, NEW m \in Gn!Canonical
        PROVE  /\ \A i \in 1..operator'[p].pos[m] : <<m, i>> \in written'[operator'[p].target]
               /\ operator'[p].at = "finish" => operator'[p].pos[m] = Pages
    <3>1. CASE p = o
      BY <1>2, <3>1 DEF PagesOf
    <3>2. CASE p # o
      <4>1. operator[p].target \in Gn!Targets
        BY <1>1, GenerationFields DEF OperatorOK
      <4> QED BY <1>1, <1>2, <3>2, <4>1 DEF PagesKept, Gn!Goal, Gn!At
    <3> QED BY <3>1, <3>2
  <2> QED BY <2>1 DEF PagesKept, Gn!Goal, Gn!At
<1>9. LockOK(o)' /\ TransactionOK(o)'
  BY <1>2, HoldsNothing
<1>10. ASSUME NEW p \in Operators, p # o PROVE LockOK(p)' /\ TransactionOK(p)'
  <2>1. ASSUME NEW t \in Gn!Targets, NEW m \in Members
        PROVE  /\ <<t, m>> \in operator[p].locked =>
                    /\ version'[t][m].state # "absent" /\ (version'[t][m].state = "active" <=> version[t][m].state = "active")
                    /\ \A q \in Operators \ {p} : <<t, m>> \notin operator'[q].locked
               /\ version[t][m].state \in Ever => version'[t][m].state \in Ever
               /\ <<t, m, "active">> \in operator[p].wrote =>
                    /\ \A u \in Gn!Targets \ {t} : version'[u][m].state = "active" => version[u][m].state = "active"
                    /\ \A q \in Operators \ {p} : \A u \in Gn!Targets, s \in Ever : <<u, m, s>> \notin operator'[q].wrote
    <3>1. \A q \in Operators \ {p} : q = o \/ operator'[q] = operator[q]
      BY <1>2
    <3> QED BY <1>1, <1>2, <1>5, <1>10, <3>1 DEF LockOK
  <2> QED BY <1>2, <1>4, <1>10, <2>1, OthersKeep
<1> QED BY <1>3, <1>6, <1>7, <1>8, <1>9, <1>10 DEF GenerationsInv

LEMMA StartBackfillInv ==
  ASSUME GenerationsInv, NEW o \in Operators, NEW t \in Gn!Targets, Gn!StartBackfill(o, t)
  PROVE  GenerationsInv'
<1>1. GenerationTypeOK /\ RowsTogether /\ PagesKept
  BY DEF GenerationsInv
<1> DEFINE x == [Gn!Resting EXCEPT !.at = "scan", !.goal = "backfill", !.target = t, !.pos = cursor[t]]
           rows == Gn!EnsureBackfillVersions(t)
<1>2. /\ operator' = [operator EXCEPT ![o] = x] /\ UNCHANGED <<cursor, written>>
      /\ version' = [version EXCEPT ![t] = rows]
  BY DEF Gn!StartBackfill, Gn!Step
<1>3. cursor[t] \in [Gn!Canonical -> 0..Pages]
  BY <1>1 DEF GenerationTypeOK
<1>4. OperatorOK(x) /\ x.at = "scan" /\ x.locked = {} /\ x.wrote = {} /\ x.target = t /\ x.pos = cursor[t]
  BY <1>3, RestingOK DEF OperatorOK
<1> DEFINE new == [Gn!Absent EXCEPT !.state = "building"]
<1>5. /\ new \in IndexRow /\ new.state = "building" /\ new.sum = "none"
      /\ \A m \in Members : rows[m] = IF version[t][3].state = "absent" /\ m \in Gn!MembersOf(t) THEN new
                                      ELSE version[t][m]
  <2>1. new \in IndexRow /\ new.state = "building" /\ new.sum = "none"
    BY DEF Gn!Absent, IndexRow
  <2> QED BY <2>1 DEF Gn!EnsureBackfillVersions, Members
<1> HIDE DEF new
<1>6. rows \in [Members -> IndexRow]
  <2>1. \A m \in Members : rows[m] \in IndexRow
    <3> HIDE DEF rows
    <3> QED BY <1>1, <1>5, GenerationFields
  <2>2. rows = [m \in Members |-> rows[m]]
    BY DEF Gn!EnsureBackfillVersions, Members
  <2> QED BY <2>1, <2>2
<1> HIDE DEF x, rows
<1>7. version' \in [Gn!Targets -> [Members -> IndexRow]] /\ version'[t] = rows
      /\ \A u \in Gn!Targets : u # t => version'[u] = version[u]
  BY <1>1, <1>2, <1>6 DEF GenerationTypeOK
<1>8. ASSUME NEW u \in Gn!Targets, NEW m \in Members, version'[u][m] # version[u][m]
      PROVE  /\ version[u][m].state \notin Ever /\ version'[u][m].state \notin Ever \cup {"absent"}
             /\ m \in Gn!MembersOf(u) /\ version'[u][3].state # "absent"
             /\ version'[u][m].sum = "final" => Full(u)
  <2>1. u = t
    BY <1>7, <1>8
  <2>2. version[t][3].state = "absent" /\ m \in Gn!MembersOf(t)
        /\ version'[t][m] = new
    BY <1>5, <1>7, <1>8, <2>1
  <2>3. version[t][m].state = "absent"
    BY <1>1, <2>2 DEF RowsTogether
  <2>4. 3 \in Members /\ 3 \in Gn!MembersOf(t)
    BY GenerationMembers
  <2>5. version'[t][3] = new
    BY <1>5, <1>7, <2>2, <2>4
  <2> QED BY <1>5, <2>1, <2>2, <2>3, <2>5 DEF Ever
<1>9. PagesOf(x, x.target, written')
  <2>1. \A m \in Gn!Canonical : \A p \in 1..cursor[t][m] : <<m, p>> \in written[t]
    BY <1>1 DEF PagesKept
  <2> QED BY <1>2, <1>4, <2>1 DEF PagesOf
<1>10. /\ cursor' \in [Gn!Targets -> [Gn!Canonical -> 0..Pages]]
       /\ written' \in [Gn!Targets -> SUBSET (Gn!Canonical \X (1..Pages))]
       /\ \A u \in Gn!Targets : written[u] \subseteq written'[u]
       /\ \A u \in Gn!Targets, m \in Gn!Canonical : \A p \in 1..cursor'[u][m] : <<m, p>> \in written'[u]
  BY <1>1, <1>2 DEF GenerationTypeOK, PagesKept
<1>11. x.at \notin Transaction
  BY <1>4 DEF Transaction
<1> QED BY <1>2, <1>4, <1>7, <1>8, <1>9, <1>10, <1>11, BackfillStep

\* What a backfill that goes on knows of itself.
LEMMA BackfillFields ==
  ASSUME GenerationsInv, NEW o \in Operators, operator[o].at \notin Transaction
  PROVE  /\ GenerationTypeOK /\ PagesKept /\ OperatorOK(operator[o])
         /\ operator[o].locked = {} /\ operator[o].wrote = {}
         /\ operator[o].target = Gn!Goal(o) /\ Gn!Goal(o) \in Gn!Targets
         /\ PagesOf(operator[o], Gn!Goal(o), written)
         /\ operator[o].pos \in [Gn!Canonical -> 0..Pages]
<1>1. GenerationTypeOK /\ PagesKept /\ LockOK(o)
  BY DEF GenerationsInv
<1>2. OperatorOK(operator[o]) /\ operator[o].target = Gn!Goal(o) /\ Gn!Goal(o) \in Gn!Targets
      /\ operator[o].pos \in [Gn!Canonical -> 0..Pages]
  BY <1>1, GenerationFields DEF OperatorOK, Gn!Goal
<1>3. PagesOf(operator[o], Gn!Goal(o), written)
  BY <1>1 DEF PagesKept, PagesOf, Gn!At
<1> QED BY <1>1, <1>2, <1>3 DEF LockOK

LEMMA ScanPageInv ==
  ASSUME GenerationsInv, NEW o \in Operators, Gn!ScanPage(o)
  PROVE  GenerationsInv'
<1> DEFINE m == Gn!Scanning(o)
           page == operator[o].pos[m] + 1
           t == Gn!Goal(o)
           x == [operator[o] EXCEPT !.at = "persist", !.pos[m] = page, !.todo = <<m>>]
<1>1. operator[o].at = "scan" /\ operator[o].at \notin Transaction
  BY DEF Gn!ScanPage, Gn!At, Transaction
<1>2. /\ GenerationTypeOK /\ PagesKept /\ OperatorOK(operator[o])
      /\ operator[o].locked = {} /\ operator[o].wrote = {} /\ operator[o].target = t /\ t \in Gn!Targets
      /\ PagesOf(operator[o], t, written) /\ operator[o].pos \in [Gn!Canonical -> 0..Pages]
  BY <1>1, BackfillFields
<1>3. m \in Gn!Canonical /\ page \in 1..Pages
  <2>1. 3 \in Gn!Canonical /\ 4 \in Gn!Canonical /\ Gn!Canonical = {3, 4}
    BY GenerationMembers
  <2>2. \E n \in Gn!Canonical : operator[o].pos[n] < Pages
    BY DEF Gn!ScanPage
  <2>3. operator[o].pos[3] \in 0..Pages /\ operator[o].pos[4] \in 0..Pages
    BY <1>2, <2>1
  <2>4. operator[o].pos[3] < Pages \/ operator[o].pos[4] < Pages
    BY <2>1, <2>2
  <2>5. m = (IF operator[o].pos[4] < Pages THEN 4 ELSE 3)
    BY DEF Gn!Scanning
  <2> HIDE DEF m
  <2>6. CASE operator[o].pos[4] < Pages
    BY <2>1, <2>3, <2>5, <2>6, IndexConstants
  <2>7. CASE ~(operator[o].pos[4] < Pages)
    BY <2>1, <2>3, <2>4, <2>5, <2>7, IndexConstants
  <2> QED BY <2>6, <2>7
<1>4. /\ written' = [written EXCEPT ![t] = @ \cup {<<m, page>>}] /\ UNCHANGED <<version, cursor>>
      /\ operator' = [operator EXCEPT ![o] = x]
  BY DEF Gn!ScanPage, Gn!Step
<1> DEFINE pos == [operator[o].pos EXCEPT ![m] = page]
<1>5. pos \in [Gn!Canonical -> 0..Pages] /\ pos[m] = page /\ page = operator[o].pos[m] + 1
      /\ \A n \in Gn!Canonical : n # m => pos[n] = operator[o].pos[n]
  BY <1>2, <1>3
<1>6. /\ x.at = "persist" /\ x.pos = pos /\ x.locked = {} /\ x.wrote = {} /\ x.target = t
      /\ OperatorOK(x)
  <2>1. x = [operator[o] EXCEPT !.at = "persist", !.pos = pos, !.todo = <<m>>]
    BY <1>2 DEF OperatorOK
  <2> HIDE DEF x, pos, m
  <2> QED BY <1>2, <1>5, <2>1 DEF OperatorOK
<1> HIDE DEF x, m, page, pos, t
<1>7. /\ written' \in [Gn!Targets -> SUBSET (Gn!Canonical \X (1..Pages))]
      /\ written'[t] = written[t] \cup {<<m, page>>}
      /\ \A u \in Gn!Targets : written[u] \subseteq written'[u]
  BY <1>2, <1>3, <1>4 DEF GenerationTypeOK
<1>8. PagesOf(x, x.target, written')
  <2>1. ASSUME NEW n \in Gn!Canonical, NEW p \in 1..pos[n] PROVE <<n, p>> \in written'[t]
    <3>1. CASE n = m /\ p = page
      BY <1>7, <3>1
    <3>2. CASE ~(n = m /\ p = page)
      <4>1. operator[o].pos[n] \in Nat /\ p \in 1..operator[o].pos[n]
        BY <1>2, <1>5, <2>1, <3>2, IndexConstants
      <4> QED BY <1>2, <1>7, <4>1 DEF PagesOf
    <3> QED BY <3>1, <3>2
  <2> QED BY <1>6, <2>1 DEF PagesOf
<1>9. \A u \in Gn!Targets, n \in Gn!Canonical : \A p \in 1..cursor'[u][n] : <<n, p>> \in written'[u]
  BY <1>2, <1>4, <1>7 DEF PagesKept
<1>10. version' \in [Gn!Targets -> [Members -> IndexRow]] /\ cursor' \in [Gn!Targets -> [Gn!Canonical -> 0..Pages]]
       /\ \A u \in Gn!Targets, n \in Members : version'[u][n] = version[u][n]
  BY <1>2, <1>4 DEF GenerationTypeOK
<1>11. x.at \notin Transaction
  BY <1>6 DEF Transaction
<1> QED BY <1>4, <1>6, <1>7, <1>8, <1>9, <1>10, <1>11, BackfillStep

\* A row of the backfill that is building, and the operator's place after it.
LEMMA ProgressInv ==
  ASSUME GenerationsInv, NEW o \in Operators, operator[o].at \notin Transaction,
         NEW n, NEW sum \in {"cursor", "final"}, Gn!Progress(o, n, sum),
         Gn!Rows(o)[n].state = "building", sum = "final" => operator[o].at = "finish",
         NEW x, OperatorOK(x), operator' = [operator EXCEPT ![o] = x], UNCHANGED written,
         x.at \notin Transaction, x.locked = {}, x.wrote = {}, PagesOf(x, x.target, written)
  PROVE  GenerationsInv'
<1> DEFINE t == Gn!Goal(o)
           new == [state |-> "building", sum |-> sum, error |-> FALSE]
<1>1. /\ GenerationTypeOK /\ PagesKept /\ t \in Gn!Targets /\ RowsTogether
      /\ PagesOf(operator[o], t, written) /\ operator[o].pos \in [Gn!Canonical -> 0..Pages]
  BY BackfillFields DEF GenerationsInv
<1>2. /\ version' = [version EXCEPT ![t][n] = new]
      /\ cursor' = IF n \in Gn!Canonical THEN [cursor EXCEPT ![t][n] = operator[o].pos[n]] ELSE cursor
      /\ version[t][n].state = "building"
  BY DEF Gn!Progress, Gn!Rows
<1> HIDE DEF t
<1>3. new \in IndexRow /\ new.state = "building" /\ new.sum = sum
  BY DEF IndexRow
<1> HIDE DEF new
<1>4. /\ version' \in [Gn!Targets -> [Members -> IndexRow]]
      /\ \A u \in Gn!Targets, m \in Members : version'[u][m] = IF u = t /\ m = n THEN new ELSE version[u][m]
  BY <1>1, <1>2, <1>3 DEF GenerationTypeOK
<1>5. /\ cursor' \in [Gn!Targets -> [Gn!Canonical -> 0..Pages]]
      /\ \A u \in Gn!Targets, m \in Gn!Canonical :
           \/ cursor'[u][m] = cursor[u][m]
           \/ u = t /\ cursor'[u][m] = operator[o].pos[m]
  BY <1>1, <1>2 DEF GenerationTypeOK
<1>6. \A u \in Gn!Targets, m \in Gn!Canonical : \A p \in 1..cursor'[u][m] : <<m, p>> \in written'[u]
  BY <1>1, <1>5 DEF PagesKept, PagesOf
<1>7. operator[o].at = "finish" => Full(t)
  BY <1>1 DEF PagesOf, Full
<1>8. ASSUME NEW u \in Gn!Targets, NEW m \in Members, version'[u][m] # version[u][m]
      PROVE  /\ version[u][m].state \notin Ever /\ version'[u][m].state \notin Ever \cup {"absent"}
             /\ m \in Gn!MembersOf(u) /\ version'[u][3].state # "absent"
             /\ version'[u][m].sum = "final" => Full(u)
  <2>1. u = t /\ m = n /\ version'[u][m] = new /\ 3 \in Members
    BY <1>4, <1>8, GenerationMembers
  <2>2. m \in Gn!MembersOf(t) /\ version[t][3].state # "absent"
    BY <1>1, <1>2, <2>1 DEF RowsTogether
  <2>3. version'[t][3].state # "absent"
    BY <1>3, <1>4, <2>1, <2>2
  <2> QED BY <1>2, <1>3, <1>7, <2>1, <2>2, <2>3 DEF Ever
<1>9. PagesOf(x, x.target, written') /\ written' \in [Gn!Targets -> SUBSET (Gn!Canonical \X (1..Pages))]
      /\ \A u \in Gn!Targets : written[u] \subseteq written'[u]
  BY <1>1 DEF PagesOf, GenerationTypeOK
<1> QED BY <1>4, <1>5, <1>6, <1>8, <1>9, BackfillStep

Moved(o, at, todo, goal) == [operator[o] EXCEPT !.at = at, !.todo = todo, !.goal = goal]
AllScanned(o) == \A m \in Gn!Canonical : operator[o].pos[m] = Pages

\* The operator alone goes elsewhere outside a transaction, its pages the same.
LEMMA MovesOn ==
  ASSUME GenerationsInv, NEW o \in Operators, operator[o].at \notin Transaction,
         NEW at \in {"scan", "persist", "finish", "fail"}, NEW todo,
         NEW goal \in {"none", "backfill", "permanent", "activate", "rollback"},
         at = "finish" => AllScanned(o)
  PROVE  LET x == Moved(o, at, todo, goal) IN
         /\ OperatorOK(x) /\ x.at \notin Transaction /\ x.locked = {} /\ x.wrote = {}
         /\ PagesOf(x, x.target, written)
<1> DEFINE x == Moved(o, at, todo, goal)
<1>1. /\ OperatorOK(operator[o]) /\ operator[o].locked = {} /\ operator[o].wrote = {}
      /\ operator[o].target = Gn!Goal(o) /\ PagesOf(operator[o], Gn!Goal(o), written)
  BY BackfillFields
<1>2. /\ OperatorOK(x) /\ x.at = at /\ x.locked = {} /\ x.wrote = {} /\ x.target = Gn!Goal(o)
      /\ x.pos = operator[o].pos
  BY <1>1 DEF OperatorOK, Moved
<1> HIDE DEF x
<1>3. PagesOf(x, x.target, written)
  BY <1>1, <1>2 DEF PagesOf, AllScanned
<1>4. x.at \notin Transaction
  BY <1>2 DEF Transaction
<1> QED BY <1>2, <1>3, <1>4 DEF x

LEMMA GiveUpInv ==
  ASSUME GenerationsInv, NEW o \in Operators, operator[o].at \notin Transaction, NEW permanent, Gn!GiveUp(o, permanent),
         UNCHANGED written
  PROVE  GenerationsInv'
<1> DEFINE goal == IF permanent THEN "permanent" ELSE operator[o].goal
           todo == Gn!AllVersions(Gn!Goal(o))
           x == [operator[o] EXCEPT !.at = "fail", !.todo = todo, !.goal = goal]
<1>1. OperatorOK(operator[o])
  BY BackfillFields
<1>2. goal \in {"none", "backfill", "permanent", "activate", "rollback"}
  BY <1>1 DEF OperatorOK
<1>3. operator' = [operator EXCEPT ![o] = x] /\ UNCHANGED <<version, cursor>>
  BY DEF Gn!GiveUp, Gn!Step
<1>4. OperatorOK(x) /\ x.at \notin Transaction /\ x.locked = {} /\ x.wrote = {} /\ PagesOf(x, x.target, written)
  <2>1. x = Moved(o, "fail", todo, goal)
    BY DEF Moved
  <2> HIDE DEF goal, todo, x
  <2> QED BY <1>2, <2>1, MovesOn
<1> HIDE DEF x
<1> QED BY <1>3, <1>4, OutsideStep

LEMMA SameGoal ==
  ASSUME GenerationsInv, NEW o \in Operators
  PROVE  /\ operator[o].goal \in {"none", "backfill", "permanent", "activate", "rollback"}
         /\ \A at, todo : [operator[o] EXCEPT !.at = at, !.todo = todo]
                          = Moved(o, at, todo, operator[o].goal)
         /\ \A todo : [operator[o] EXCEPT !.todo = todo]
                      = Moved(o, operator[o].at, todo, operator[o].goal)
<1>1. OperatorOK(operator[o])
  BY GenerationFields DEF GenerationsInv
<1> QED BY <1>1 DEF OperatorOK, Moved

LEMMA PersistInv ==
  ASSUME GenerationsInv, NEW o \in Operators, Gn!PersistBackfillProgress(o)
  PROVE  GenerationsInv'
<1>1. operator[o].at = "persist" /\ operator[o].at \notin Transaction /\ UNCHANGED written
  BY DEF Gn!PersistBackfillProgress, Gn!At, Transaction
<1>2. CASE Gn!Rows(o)[Gn!Member(o)].state = "building"
  <2> DEFINE x == [operator[o] EXCEPT !.at = "scan", !.todo = <<>>]
  <2>1. Gn!Progress(o, Gn!Member(o), "cursor") /\ operator' = [operator EXCEPT ![o] = x]
    BY <1>2 DEF Gn!PersistBackfillProgress, Gn!Step
  <2>2. x = Moved(o, "scan", <<>>, operator[o].goal)
        /\ operator[o].goal \in {"none", "backfill", "permanent", "activate", "rollback"}
    BY SameGoal
  <2> HIDE DEF x
  <2>3. OperatorOK(x) /\ x.at \notin Transaction /\ x.locked = {} /\ x.wrote = {} /\ PagesOf(x, x.target, written)
    BY <1>1, <2>2, MovesOn
  <2> QED BY <1>1, <1>2, <2>1, <2>3, ProgressInv
<1>3. CASE Gn!Rows(o)[Gn!Member(o)].state # "building"
  BY <1>1, <1>3, GiveUpInv DEF Gn!PersistBackfillProgress
<1> QED BY <1>2, <1>3

LEMMA ScanEndsInv ==
  ASSUME GenerationsInv, NEW o \in Operators, Gn!ScanEnds(o)
  PROVE  GenerationsInv'
<1>1. /\ operator[o].at = "scan" /\ operator[o].at \notin Transaction /\ UNCHANGED <<version, cursor, written>>
      /\ AllScanned(o)
  BY DEF Gn!ScanEnds, Gn!At, Transaction, AllScanned
<1>2. PICK todo : operator' = [operator EXCEPT ![o] = [operator[o] EXCEPT !.at = "finish", !.todo = todo]]
  BY DEF Gn!ScanEnds, Gn!Step
<1> DEFINE x == [operator[o] EXCEPT !.at = "finish", !.todo = todo]
<1>3. x = Moved(o, "finish", todo, operator[o].goal)
      /\ operator[o].goal \in {"none", "backfill", "permanent", "activate", "rollback"}
  BY SameGoal
<1> HIDE DEF x
<1>4. OperatorOK(x) /\ x.at \notin Transaction /\ x.locked = {} /\ x.wrote = {} /\ PagesOf(x, x.target, written)
  BY <1>1, <1>3, MovesOn
<1> QED BY <1>1, <1>2, <1>4, OutsideStep DEF x

\* The next row of a loop over the rows of the generation, or the end.
LEMMA NextRow ==
  ASSUME GenerationsInv, NEW o \in Operators, operator[o].at \in {"finish", "fail"}
  PROVE  LET x == IF Len(operator[o].todo) = 1 THEN Gn!Resting ELSE [operator[o] EXCEPT !.todo = Tail(@)] IN
         /\ OperatorOK(x) /\ x.at \notin Transaction /\ x.locked = {} /\ x.wrote = {}
         /\ PagesOf(x, x.target, written)
<1> DEFINE x == IF Len(operator[o].todo) = 1 THEN Gn!Resting ELSE [operator[o] EXCEPT !.todo = Tail(@)]
           y == [operator[o] EXCEPT !.todo = Tail(@)]
<1>1. OperatorOK(y) /\ y.at \notin Transaction /\ y.locked = {} /\ y.wrote = {} /\ PagesOf(y, y.target, written)
  <2>1. operator[o].at \notin Transaction
    BY DEF Transaction
  <2>2. /\ y = Moved(o, operator[o].at, Tail(operator[o].todo), operator[o].goal)
        /\ operator[o].goal \in {"none", "backfill", "permanent", "activate", "rollback"}
    BY SameGoal
  <2>3. operator[o].at = "finish" => AllScanned(o)
    BY DEF GenerationsInv, PagesKept, Gn!At, AllScanned
  <2> HIDE DEF y
  <2> QED BY <2>1, <2>2, <2>3, MovesOn
<1>2. /\ OperatorOK(Gn!Resting) /\ Gn!Resting.at \notin Transaction /\ Gn!Resting.locked = {}
      /\ Gn!Resting.wrote = {} /\ PagesOf(Gn!Resting, Gn!Resting.target, written)
  BY RestingOK, RestingPages DEF Transaction
<1> HIDE DEF y
<1>3. x = Gn!Resting \/ x = y
  BY DEF y
<1> HIDE DEF x
<1>4. OperatorOK(x) /\ x.at \notin Transaction /\ x.locked = {} /\ x.wrote = {} /\ PagesOf(x, x.target, written)
  BY <1>1, <1>2, <1>3
<1> QED BY <1>4 DEF x

LEMMA FinishInv ==
  ASSUME GenerationsInv, NEW o \in Operators, Gn!FinishBackfillProgress(o)
  PROVE  GenerationsInv'
<1>1. operator[o].at = "finish" /\ operator[o].at \notin Transaction /\ UNCHANGED written
  BY DEF Gn!FinishBackfillProgress, Gn!At, Transaction
<1>2. CASE Gn!Rows(o)[Gn!Member(o)].state = "building"
  <2> DEFINE x == IF Len(operator[o].todo) = 1 THEN Gn!Resting ELSE [operator[o] EXCEPT !.todo = Tail(@)]
  <2>1. Gn!Progress(o, Gn!Member(o), "final") /\ operator' = [operator EXCEPT ![o] = x]
    BY <1>2 DEF Gn!FinishBackfillProgress, Gn!Step
  <2>2. OperatorOK(x) /\ x.at \notin Transaction /\ x.locked = {} /\ x.wrote = {} /\ PagesOf(x, x.target, written)
    BY <1>1, NextRow
  <2> HIDE DEF x
  <2> QED BY <1>1, <1>2, <2>1, <2>2, ProgressInv
<1>3. CASE Gn!Rows(o)[Gn!Member(o)].state # "building"
  BY <1>1, <1>3, GiveUpInv DEF Gn!FinishBackfillProgress
<1> QED BY <1>2, <1>3

LEMMA FailBackfillInv ==
  ASSUME GenerationsInv, NEW o \in Operators, Gn!FailBackfillVersions(o)
  PROVE  GenerationsInv'
<1> DEFINE x == IF Len(operator[o].todo) = 1 THEN Gn!Resting ELSE [operator[o] EXCEPT !.todo = Tail(@)]
           t == Gn!Goal(o)
           n == Gn!Member(o)
<1>1. operator[o].at = "fail" /\ UNCHANGED <<written, cursor>> /\ operator' = [operator EXCEPT ![o] = x]
  BY DEF Gn!FailBackfillVersions, Gn!At, Gn!Step
<1>2. OperatorOK(x) /\ x.at \notin Transaction /\ x.locked = {} /\ x.wrote = {} /\ PagesOf(x, x.target, written)
  BY <1>1, NextRow
<1>3. PICK state \in {"failed", "building"} :
        \/ version' = version
        \/ /\ version[t][n].state = "building"
           /\ version' = [version EXCEPT ![t][n].error = TRUE, ![t][n].state = state]
  <2>1. CASE Gn!Rows(o)[n].state # "building"
    BY <2>1 DEF Gn!FailBackfillVersions
  <2>2. CASE Gn!Rows(o)[n].state = "building" /\ operator[o].goal = "permanent"
    BY <2>2 DEF Gn!FailBackfillVersions, Gn!Rows
  <2>3. CASE Gn!Rows(o)[n].state = "building" /\ operator[o].goal # "permanent"
    <3>1. version' = [version EXCEPT ![t][n].error = TRUE, ![t][n].state = @]
      BY <2>3 DEF Gn!FailBackfillVersions, Gn!Rows
    <3>2. GenerationTypeOK /\ t \in Gn!Targets
      BY GenerationFields DEF GenerationsInv
    <3>3. version' = [version EXCEPT ![t][n].error = TRUE, ![t][n].state = "building"]
      BY <2>3, <3>1, <3>2 DEF GenerationTypeOK, IndexRow, Gn!Rows
    <3> QED BY <2>3, <3>3 DEF Gn!Rows
  <2> QED BY <2>1, <2>2, <2>3
<1> HIDE DEF x, t, n
<1>4. /\ GenerationTypeOK /\ PagesKept /\ RowsTogether /\ t \in Gn!Targets
  BY GenerationFields DEF GenerationsInv, t
<1>5. /\ version' \in [Gn!Targets -> [Members -> IndexRow]]
      /\ \A u \in Gn!Targets, m \in Members :
           \/ version'[u][m] = version[u][m]
           \/ /\ u = t /\ m = n /\ version[u][m].state = "building"
              /\ version'[u][m].state = state /\ version'[u][m].sum = version[u][m].sum
  <2>1. CASE version' = version
    BY <1>4, <2>1 DEF GenerationTypeOK
  <2>2. CASE /\ version[t][n].state = "building"
             /\ version' = [version EXCEPT ![t][n].error = TRUE, ![t][n].state = state]
    <3> DEFINE new == [version[t][n] EXCEPT !.error = TRUE, !.state = state]
    <3>1. version' = [version EXCEPT ![t][n] = new]
      BY <1>4, <2>2 DEF GenerationTypeOK
    <3>2. n \in Members => new \in IndexRow /\ new.state = state /\ new.sum = version[t][n].sum
      <4>1. n \in Members => version[t][n] \in IndexRow
        BY <1>4, GenerationFields
      <4> QED BY <4>1 DEF IndexRow
    <3> HIDE DEF new
    <3>3. ASSUME NEW u \in Gn!Targets, NEW m \in Members
          PROVE  version'[u][m] = IF u = t /\ m = n THEN new ELSE version[u][m]
      BY <1>4, <3>1 DEF GenerationTypeOK
    <3>4. version' \in [Gn!Targets -> [Members -> IndexRow]]
      BY <1>4, <3>1, <3>2 DEF GenerationTypeOK
    <3> QED BY <2>2, <3>2, <3>3, <3>4
  <2> QED BY <1>3, <2>1, <2>2
<1>6. ASSUME NEW u \in Gn!Targets, NEW m \in Members, version'[u][m] # version[u][m]
      PROVE  /\ version[u][m].state \notin Ever /\ version'[u][m].state \notin Ever \cup {"absent"}
             /\ m \in Gn!MembersOf(u) /\ version'[u][3].state # "absent"
             /\ version'[u][m].sum = "final" => Full(u)
  <2>1. 3 \in Members
    BY GenerationMembers
  <2>2. m \in Gn!MembersOf(u) /\ version[u][3].state # "absent" /\ (version[u][m].sum = "final" => Full(u))
    BY <1>4, <1>5, <1>6 DEF RowsTogether
  <2>3. version'[u][3].state # "absent"
    BY <1>5, <2>1, <2>2
  <2> QED BY <1>5, <1>6, <2>2, <2>3 DEF Ever
<1>7. PagesOf(x, x.target, written')
      /\ cursor' \in [Gn!Targets -> [Gn!Canonical -> 0..Pages]]
      /\ written' \in [Gn!Targets -> SUBSET (Gn!Canonical \X (1..Pages))]
      /\ (\A u \in Gn!Targets : written[u] \subseteq written'[u])
      /\ \A u \in Gn!Targets, m \in Gn!Canonical : \A p \in 1..cursor'[u][m] : <<m, p>> \in written'[u]
  BY <1>1, <1>2, <1>4 DEF GenerationTypeOK, PagesKept
<1> QED BY <1>1, <1>2, <1>5, <1>6, <1>7, BackfillStep

LEMMA BeginInv ==
  ASSUME GenerationsInv, NEW o \in Operators, NEW t \in Gn!Targets, Gn!ActivateTarget(o, t) \/ Gn!RollbackTarget(o, t)
  PROVE  GenerationsInv'
<1> DEFINE active == {m \in Gn!MembersOf(t) : version[t][m].state = "active"}
<1>1. PICK goal \in {"activate", "rollback"}, passed \in {{}, active} :
        /\ operator' = [operator EXCEPT ![o] = [Gn!Resting EXCEPT !.at = "lock", !.goal = goal, !.target = t,
                                                                  !.todo = Generation[t], !.passed = passed]]
        /\ passed # {} => goal = "activate" /\ passed = active /\ active # Gn!MembersOf(t)
        /\ UNCHANGED <<version, cursor, written>>
  <2>1. CASE Gn!ActivateTarget(o, t)
    BY <2>1 DEF Gn!ActivateTarget, Gn!Step
  <2>2. CASE Gn!RollbackTarget(o, t)
    <3>1. [Gn!Resting EXCEPT !.at = "lock", !.goal = "rollback", !.target = t, !.todo = Generation[t]]
          = [Gn!Resting EXCEPT !.at = "lock", !.goal = "rollback", !.target = t, !.todo = Generation[t], !.passed = {}]
      <4>1. Gn!Resting.passed = {}
        BY DEF Gn!Resting
      <4> QED BY RestingOK, <4>1 DEF OperatorOK
    <3> QED BY <2>2, <3>1 DEF Gn!RollbackTarget, Gn!Step
  <2> QED BY <2>1, <2>2
<1> DEFINE x == [Gn!Resting EXCEPT !.at = "lock", !.goal = goal, !.target = t, !.todo = Generation[t], !.passed = passed]
<1>2. passed \in SUBSET Gn!MembersOf(t) /\ passed \in SUBSET Members
  BY GenerationMembers
<1>3. /\ OperatorOK(x) /\ x.at = "lock" /\ x.goal = goal /\ x.target = t /\ x.todo = Generation[t] /\ x.passed = passed
      /\ x.locked = {} /\ x.wrote = {} /\ x.seen = {} /\ \A m \in Gn!Canonical : x.pos[m] = 0
  BY <1>2, RestingOK DEF OperatorOK, Transaction, Gn!Resting
<1> HIDE DEF x
<1>4. operator'[o] = x /\ GenerationTypeOK /\ RowsTogether
  BY <1>1 DEF GenerationsInv, GenerationTypeOK, x
<1>5. PagesOf(x, x.target, written)
  BY <1>3, IndexConstants DEF PagesOf
<1>6. LockOK(o)'
  BY <1>3, <1>4 DEF LockOK
<1>7. TransactionOK(o)'
  <2>1. /\ Generation[t] \in Seq(Gn!MembersOf(t)) /\ Generation[t] # <<>> /\ Range(Generation[t]) = Gn!MembersOf(t)
        /\ Gn!MembersOf(t) \subseteq Members
    BY GenerationMembers
  <2>2. passed # {} => \A m \in Gn!MembersOf(t) : version[t][m].state \in Ever
    <3> SUFFICES ASSUME passed # {}, NEW m \in Gn!MembersOf(t) PROVE version[t][m].state \in Ever
      OBVIOUS
    <3>1. PICK n \in Gn!MembersOf(t) : version[t][n].state = "active"
      BY <1>1
    <3> QED BY <1>4, <3>1 DEF RowsTogether, Ever
  <2>3. passed # {} => ~(Range(Generation[t]) \subseteq passed)
    BY <1>1, <1>2, <2>1
  <2>4. version' = version
    BY <1>1
  <2> QED BY <1>1, <1>3, <1>4, <2>1, <2>2, <2>3, <2>4 DEF TransactionOK, Gn!Goal, Gn!At
<1>8. \A p \in Operators \ {o} : \A u \in Gn!Targets, m \in Members :
        /\ <<u, m>> \in operator[p].locked => <<u, m>> \notin x.locked
        /\ <<u, m, "active">> \in operator[p].wrote => \A v \in Gn!Targets, s \in Ever : <<v, m, s>> \notin x.wrote
  BY <1>3
<1> QED BY <1>1, <1>3, <1>5, <1>6, <1>7, <1>8, OwnStep DEF x

\* What a transaction knows.
LEMMA TransactionFields ==
  ASSUME GenerationsInv, NEW o \in Operators, operator[o].at \in Transaction
  PROVE  /\ GenerationTypeOK /\ RowsTogether /\ OneActive /\ LockOK(o) /\ TransactionOK(o)
         /\ OperatorOK(operator[o]) /\ operator[o].target = Gn!Goal(o) /\ Gn!Goal(o) \in Gn!Targets
         /\ PagesOf(operator[o], Gn!Goal(o), written)
         /\ operator[o].todo \in Seq(Gn!MembersOf(Gn!Goal(o))) /\ Gn!MembersOf(Gn!Goal(o)) \subseteq Members
         /\ operator[o].at # "commit" =>
              /\ operator[o].todo # <<>> /\ Gn!Member(o) \in Gn!MembersOf(Gn!Goal(o))
              /\ Range(operator[o].todo) = {Gn!Member(o)} \cup Range(Tail(operator[o].todo))
         /\ \A p \in Operators \ {o} : \A t \in Gn!Targets, m \in Members :
              /\ <<t, m>> \in operator[p].locked => <<t, m>> \notin operator[o].locked
              /\ <<t, m, "active">> \in operator[p].wrote =>
                   \A u \in Gn!Targets, s \in Ever : <<u, m, s>> \notin operator[o].wrote
<1>1. /\ GenerationTypeOK /\ RowsTogether /\ OneActive /\ PagesKept
      /\ \A p \in Operators : LockOK(p) /\ TransactionOK(p)
  BY DEF GenerationsInv
<1>2. OperatorOK(operator[o]) /\ operator[o].target = Gn!Goal(o) /\ Gn!Goal(o) \in Gn!Targets
  BY <1>1, GenerationFields DEF Gn!Goal
<1>3. PagesOf(operator[o], Gn!Goal(o), written)
  BY <1>1 DEF PagesKept, PagesOf, Gn!At
<1>4. /\ operator[o].todo \in Seq(Gn!MembersOf(Gn!Goal(o))) /\ Gn!MembersOf(Gn!Goal(o)) \subseteq Members
      /\ operator[o].todo = <<>> <=> operator[o].at = "commit"
  BY <1>1, <1>2, GenerationMembers DEF TransactionOK, Gn!At
<1>5. operator[o].at # "commit" =>
        /\ operator[o].todo # <<>> /\ Gn!Member(o) \in Gn!MembersOf(Gn!Goal(o))
        /\ Range(operator[o].todo) = {Gn!Member(o)} \cup Range(Tail(operator[o].todo))
  BY <1>4, TodoTail DEF Gn!Member
<1>6. \A p \in Operators \ {o} : \A t \in Gn!Targets, m \in Members :
        /\ <<t, m>> \in operator[p].locked => <<t, m>> \notin operator[o].locked
        /\ <<t, m, "active">> \in operator[p].wrote =>
             \A u \in Gn!Targets, s \in Ever : <<u, m, s>> \notin operator[o].wrote
  BY <1>1 DEF LockOK
<1> QED BY <1>1, <1>2, <1>3, <1>4, <1>5, <1>6

\* Where Onward leads.
LEMMA OnwardFields ==
  ASSUME GenerationsInv, NEW o \in Operators, operator[o].at \in Transaction \ {"commit"}
  PROVE  LET y == Gn!Onward(o) IN
         /\ OperatorOK(y) /\ y.at = IF Tail(operator[o].todo) = <<>> THEN "commit" ELSE "lock"
         /\ y.todo = Tail(operator[o].todo) /\ y.todo \in Seq(Gn!MembersOf(Gn!Goal(o)))
         /\ y.goal = operator[o].goal /\ y.target = Gn!Goal(o) /\ y.passed = operator[o].passed
         /\ y.pos = operator[o].pos /\ y.seen = operator[o].seen /\ y.locked = operator[o].locked
         /\ y.wrote = operator[o].wrote
<1>1. /\ OperatorOK(operator[o]) /\ operator[o].target = Gn!Goal(o)
      /\ operator[o].todo \in Seq(Gn!MembersOf(Gn!Goal(o))) /\ operator[o].todo # <<>>
  BY TransactionFields
<1>2. /\ Tail(operator[o].todo) \in Seq(Gn!MembersOf(Gn!Goal(o)))
      /\ Tail(operator[o].todo) = <<>> <=> Len(operator[o].todo) = 1
  BY <1>1, TodoTail
<1>3. Gn!Onward(o) = [operator[o] EXCEPT !.at = IF Tail(operator[o].todo) = <<>> THEN "commit" ELSE "lock",
                                         !.todo = Tail(operator[o].todo)]
  BY <1>2 DEF Gn!Onward
<1> QED BY <1>1, <1>2, <1>3 DEF OperatorOK, Transaction

LEMMA PassOverInv ==
  ASSUME GenerationsInv, NEW o \in Operators, Gn!PassOver(o)
  PROVE  GenerationsInv'
<1> DEFINE y == Gn!Onward(o)
           t == Gn!Goal(o)
<1>1. /\ operator[o].at = "lock" /\ operator[o].at \in Transaction /\ operator[o].at # "commit"
      /\ Gn!Member(o) \in operator[o].passed
      /\ operator' = [operator EXCEPT ![o] = y] /\ UNCHANGED <<version, cursor, written>>
  BY DEF Gn!PassOver, Gn!At, Gn!Step, Transaction
<1>2. /\ GenerationTypeOK /\ TransactionOK(o) /\ PagesOf(operator[o], t, written)
      /\ Range(operator[o].todo) = {Gn!Member(o)} \cup Range(Tail(operator[o].todo))
  BY <1>1, TransactionFields
<1>3. /\ OperatorOK(y) /\ y.at = IF Tail(operator[o].todo) = <<>> THEN "commit" ELSE "lock"
      /\ y.todo = Tail(operator[o].todo) /\ y.todo \in Seq(Gn!MembersOf(t))
      /\ y.goal = operator[o].goal /\ y.target = t /\ y.passed = operator[o].passed
      /\ y.pos = operator[o].pos /\ y.seen = operator[o].seen /\ y.locked = operator[o].locked
      /\ y.wrote = operator[o].wrote
  BY <1>1, OnwardFields
<1>4. operator'[o] = y
  BY <1>1, <1>2 DEF GenerationTypeOK
<1> HIDE DEF y, t
<1>5. /\ operator[o].goal = "activate" /\ operator[o].locked = {} /\ operator[o].wrote = {}
      /\ \A m \in Gn!MembersOf(t) : version[t][m].state \in Ever
      /\ ~(Range(Tail(operator[o].todo)) \subseteq operator[o].passed)
      /\ t \notin operator[o].seen
  BY <1>1, <1>2 DEF TransactionOK, t
<1>6. Tail(operator[o].todo) # <<>>
  <2>1. Range(<<>>) = {}
    BY DEF Range
  <2> QED BY <1>5, <2>1
<1>7. PagesOf(y, y.target, written)
  BY <1>2, <1>3 DEF PagesOf
<1>8. LockOK(o)'
  BY <1>3, <1>4, <1>5, <1>6 DEF LockOK, Transaction
<1>9. TransactionOK(o)'
  <2>1. version' = version
    BY <1>1
  <2>2. y.at = "lock" /\ y.passed # {}
    BY <1>1, <1>3, <1>6
  <2> QED BY <1>3, <1>4, <1>5, <1>6, <2>1, <2>2 DEF TransactionOK, Gn!Goal, Gn!At
<1>10. \A p \in Operators \ {o} : \A u \in Gn!Targets, m \in Members :
         /\ <<u, m>> \in operator[p].locked => <<u, m>> \notin y.locked
         /\ <<u, m, "active">> \in operator[p].wrote => \A v \in Gn!Targets, s \in Ever : <<v, m, s>> \notin y.wrote
  BY <1>3, <1>5
<1> QED BY <1>1, <1>3, <1>7, <1>8, <1>9, <1>10, OwnStep

LEMMA LockNextInv ==
  ASSUME GenerationsInv, NEW o \in Operators, Gn!LockNext(o)
  PROVE  GenerationsInv'
<1> DEFINE t == Gn!Goal(o)
           n == Gn!Member(o)
           x == [operator[o] EXCEPT !.at = "see", !.locked = operator[o].locked \cup {<<t, n>>}]
<1>1. /\ operator[o].at = "lock" /\ operator[o].at \in Transaction /\ operator[o].at # "commit"
      /\ n \notin operator[o].passed /\ Gn!Unlocked(o, t, n) /\ UNCHANGED <<version, cursor, written>>
      /\ operator' = [operator EXCEPT ![o] = IF Gn!MayBecomeActive(Gn!Rows(o)[n], operator[o].goal) THEN x
                                             ELSE Gn!Resting]
  BY DEF Gn!LockNext, Gn!At, Gn!Step, Transaction
<1>2. CASE ~Gn!MayBecomeActive(Gn!Rows(o)[n], operator[o].goal)
  BY <1>1, <1>2, RestStep
<1>3. CASE Gn!MayBecomeActive(Gn!Rows(o)[n], operator[o].goal)
  <2>1. /\ GenerationTypeOK /\ RowsTogether /\ LockOK(o) /\ TransactionOK(o)
        /\ OperatorOK(operator[o]) /\ operator[o].target = t /\ t \in Gn!Targets
        /\ PagesOf(operator[o], t, written) /\ n \in Members /\ n \in Gn!MembersOf(t)
        /\ \A p \in Operators \ {o} : \A u \in Gn!Targets, m \in Members :
             /\ <<u, m>> \in operator[p].locked => <<u, m>> \notin operator[o].locked
             /\ <<u, m, "active">> \in operator[p].wrote =>
                  \A v \in Gn!Targets, s \in Ever : <<v, m, s>> \notin operator[o].wrote
        /\ Gn!MembersOf(t) \subseteq Members
    BY <1>1, TransactionFields
  <2>2. /\ OperatorOK(x) /\ x.at = "see" /\ x.locked = operator[o].locked \cup {<<t, n>>} /\ x.target = t
        /\ x.todo = operator[o].todo /\ x.passed = operator[o].passed /\ x.goal = operator[o].goal
        /\ x.wrote = operator[o].wrote /\ x.pos = operator[o].pos /\ x.seen = operator[o].seen
    <3> HIDE DEF t, n
    <3>1. <<t, n>> \in Gn!Targets \X Members
      BY <2>1
    <3> DEFINE l == operator[o].locked \cup {<<t, n>>}
    <3>2. l \in SUBSET (Gn!Targets \X Members)
      BY <2>1, <3>1 DEF OperatorOK
    <3> HIDE DEF l
    <3>3. x = [operator[o] EXCEPT !.at = "see", !.locked = l]
      BY DEF l
    <3>4. "see" \in Transaction
      BY DEF Transaction
    <3> HIDE DEF x
    <3> QED BY <2>1, <3>2, <3>3, <3>4 DEF OperatorOK, l
  <2>3. operator'[o] = x /\ operator' = [operator EXCEPT ![o] = x]
    BY <1>1, <1>3, <2>1 DEF GenerationTypeOK
  <2> HIDE DEF x
  <2>4. version[t][n].state # "absent" /\ Full(t) /\ operator[o].passed = {}
    <3>1. \/ /\ operator[o].goal = "activate" /\ version[t][n].state = "building" /\ version[t][n].sum = "final"
          \/ operator[o].goal # "activate" /\ version[t][n].state \in Ever
      BY <1>3 DEF Gn!MayBecomeActive, Gn!Rows, Ever
    <3>2. Full(t) /\ version[t][n].state # "absent"
      BY <2>1, <3>1 DEF RowsTogether, Ever
    <3>3. operator[o].passed = {}
      BY <1>1, <2>1, <3>1 DEF TransactionOK, Ever
    <3> QED BY <3>2, <3>3
  <2>5. \A p \in Operators \ {o} : <<t, n>> \notin operator[p].locked
    BY <1>1 DEF Gn!Unlocked
  <2>6. PagesOf(x, x.target, written)
    BY <2>1, <2>2 DEF PagesOf
  <2>7. \A p \in Operators \ {o} : operator'[p] = operator[p]
    BY <2>1, <2>3 DEF GenerationTypeOK
  <2> HIDE DEF t, n
  <2>8. version' = version /\ (\A u : Full(u)' <=> Full(u))
    BY <1>1 DEF Full
  <2>9. LockOK(o)'
    <3>1. ASSUME NEW u \in Gn!Targets, NEW m \in Members, <<u, m>> \in x.locked
          PROVE  /\ version[u][m].state # "absent" /\ (u = t => Full(u))
                 /\ \A p \in Operators \ {o} : <<u, m>> \notin operator[p].locked
      <4>1. CASE u = t /\ m = n
        BY <2>4, <2>5, <4>1
      <4>2. CASE <<u, m>> \in operator[o].locked
        BY <2>1, <4>2 DEF LockOK, t
      <4> QED BY <2>2, <3>1, <4>1, <4>2
    <3>2. ASSUME NEW u \in Gn!Targets, NEW m \in Members
          PROVE  /\ <<u, m, "retired">> \in x.wrote =>
                      /\ <<u, m>> \in x.locked /\ version[u][m].state = "active"
                      /\ u # t /\ m \in Gn!MembersOf(t)
                 /\ <<u, m, "active">> \in x.wrote =>
                      /\ <<u, m>> \in x.locked /\ u = t /\ m \in Gn!MembersOf(u)
                      /\ \A v \in Gn!Targets \ {u} : version[v][m].state = "active" => <<v, m, "retired">> \in x.wrote
                      /\ \A p \in Operators \ {o} : \A v \in Gn!Targets, s \in Ever : <<v, m, s>> \notin operator[p].wrote
      BY <2>1, <2>2 DEF LockOK, t
    <3>3. x.at \in Transaction
      BY <2>2 DEF Transaction
    <3> QED BY <2>2, <2>3, <2>7, <2>8, <3>1, <3>2, <3>3 DEF LockOK, Gn!Goal
  <2>10. TransactionOK(o)'
    <3>1. \A m \in Gn!MembersOf(t) \ Range(operator[o].todo) : <<t, m>> \in operator[o].locked
               /\ (version[t][m].state = "active" \/ <<t, m, "active">> \in operator[o].wrote)
      BY <1>1, <2>1, <2>4 DEF TransactionOK, Taken, t
    <3>2. /\ operator[o].todo \in Seq(Gn!MembersOf(t)) /\ operator[o].todo # <<>> /\ t \notin operator[o].seen
          /\ n = Head(operator[o].todo)
      BY <1>1, <2>1 DEF TransactionOK, t, n, Gn!At, Gn!Member
    <3> QED BY <2>2, <2>3, <2>4, <2>8, <3>1, <3>2 DEF TransactionOK, Taken, Gn!Goal, Gn!At, Gn!Member
  <2>11. \A p \in Operators \ {o} : \A u \in Gn!Targets, m \in Members :
           /\ <<u, m>> \in operator[p].locked => <<u, m>> \notin x.locked
           /\ <<u, m, "active">> \in operator[p].wrote => \A v \in Gn!Targets, s \in Ever : <<v, m, s>> \notin x.wrote
    BY <2>1, <2>2, <2>5
  <2> QED BY <1>1, <2>2, <2>3, <2>6, <2>9, <2>10, <2>11, OwnStep
<1> QED BY <1>2, <1>3

LEMMA SeeActiveInv ==
  ASSUME GenerationsInv, NEW o \in Operators, Gn!SeeActive(o)
  PROVE  GenerationsInv'
<1> DEFINE t == Gn!Goal(o)
           saw == {u \in Gn!Targets \ {t} : version[u][Gn!Member(o)].state = "active"}
           x == [operator[o] EXCEPT !.at = "retire", !.seen = saw]
<1>1. /\ operator[o].at = "see" /\ operator[o].at \in Transaction /\ operator[o].at # "commit"
      /\ UNCHANGED <<version, cursor, written>> /\ operator' = [operator EXCEPT ![o] = x]
  BY DEF Gn!SeeActive, Gn!At, Gn!Step, Transaction
<1>2. /\ GenerationTypeOK /\ LockOK(o) /\ TransactionOK(o)
      /\ OperatorOK(operator[o]) /\ operator[o].target = t
      /\ PagesOf(operator[o], t, written)
      /\ \A p \in Operators \ {o} : \A u \in Gn!Targets, m \in Members :
           /\ <<u, m>> \in operator[p].locked => <<u, m>> \notin operator[o].locked
           /\ <<u, m, "active">> \in operator[p].wrote =>
                \A v \in Gn!Targets, s \in Ever : <<v, m, s>> \notin operator[o].wrote
  BY <1>1, TransactionFields
<1>3. saw \in SUBSET Gn!Targets /\ t \notin saw
  OBVIOUS
<1> HIDE DEF saw, t
<1>4. /\ OperatorOK(x) /\ x.at = "retire" /\ x.locked = operator[o].locked /\ x.target = t
      /\ x.todo = operator[o].todo /\ x.passed = operator[o].passed /\ x.goal = operator[o].goal
      /\ x.wrote = operator[o].wrote /\ x.pos = operator[o].pos /\ x.seen = saw
  BY <1>2, <1>3 DEF OperatorOK, Transaction
<1>5. operator'[o] = x
  BY <1>1, <1>2 DEF GenerationTypeOK
<1> HIDE DEF x
<1>6. PagesOf(x, x.target, written)
  BY <1>2, <1>4 DEF PagesOf
<1>7. \A p \in Operators \ {o} : operator'[p] = operator[p]
  BY <1>1, <1>2 DEF GenerationTypeOK
<1>8. version' = version /\ (\A u : Full(u)' <=> Full(u))
  BY <1>1 DEF Full
<1>9. LockOK(o)'
  <2>1. x.at \in Transaction
    BY <1>4 DEF Transaction
  <2> QED BY <1>2, <1>4, <1>5, <1>7, <1>8, <2>1 DEF LockOK, Gn!Goal
<1>10. TransactionOK(o)'
  BY <1>1, <1>2, <1>3, <1>4, <1>5, <1>8 DEF TransactionOK, Taken, Gn!Goal, Gn!At, Gn!Member, t
<1> QED BY <1>1, <1>2, <1>4, <1>6, <1>9, <1>10, OwnStep

LEMMA RetireInv ==
  ASSUME GenerationsInv, NEW o \in Operators, Gn!Retire(o)
  PROVE  GenerationsInv'
<1> DEFINE t == Gn!Goal(o)
           n == Gn!Member(o)
           still == {u \in operator[o].seen : version[u][n].state = "active"}
           l == operator[o].locked \cup {<<u, n>> : u \in still}
           w == operator[o].wrote \cup {<<u, n, "retired">> : u \in still}
           x == [operator[o] EXCEPT !.at = "promote", !.seen = {}, !.locked = l, !.wrote = w]
<1>1. /\ operator[o].at = "retire" /\ operator[o].at \in Transaction /\ operator[o].at # "commit"
      /\ \A u \in operator[o].seen : Gn!Unlocked(o, u, n)
      /\ UNCHANGED <<version, cursor, written>> /\ operator' = [operator EXCEPT ![o] = x]
  BY DEF Gn!Retire, Gn!At, Gn!Step, Transaction
<1>2. /\ GenerationTypeOK /\ LockOK(o) /\ TransactionOK(o)
      /\ OperatorOK(operator[o]) /\ operator[o].target = t /\ t \in Gn!Targets
      /\ PagesOf(operator[o], t, written) /\ n \in Members /\ n \in Gn!MembersOf(t)
      /\ \A p \in Operators \ {o} : \A u \in Gn!Targets, m \in Members :
           /\ <<u, m>> \in operator[p].locked => <<u, m>> \notin operator[o].locked
           /\ <<u, m, "active">> \in operator[p].wrote =>
                \A v \in Gn!Targets, s \in Ever : <<v, m, s>> \notin operator[o].wrote
      /\ Gn!MembersOf(t) \subseteq Members
  BY <1>1, TransactionFields
<1>3. /\ operator[o].seen \subseteq Gn!Targets /\ t \notin operator[o].seen
      /\ operator[o].locked \subseteq Gn!Targets \X Members /\ operator[o].wrote \subseteq Gn!Targets \X Members \X Ever
  BY <1>1, <1>2 DEF OperatorOK, TransactionOK
<1>4. /\ still \subseteq Gn!Targets /\ t \notin still
      /\ \A u \in still : /\ version[u][n].state = "active"
                          /\ \A p \in Operators \ {o} : <<u, n>> \notin operator[p].locked
  BY <1>1, <1>3 DEF Gn!Unlocked
<1> HIDE DEF t, n, still
<1>5. l \in SUBSET (Gn!Targets \X Members) /\ w \in SUBSET (Gn!Targets \X Members \X Ever)
  BY <1>2, <1>3, <1>4 DEF Ever
<1>6. /\ \A u, m : <<u, m>> \in l <=> <<u, m>> \in operator[o].locked \/ (m = n /\ u \in still)
      /\ \A u, m : <<u, m, "active">> \in w <=> <<u, m, "active">> \in operator[o].wrote
      /\ \A u, m : <<u, m, "retired">> \in w <=> <<u, m, "retired">> \in operator[o].wrote \/ (m = n /\ u \in still)
  OBVIOUS
<1> HIDE DEF l, w
<1>7. /\ OperatorOK(x) /\ x.at = "promote" /\ x.locked = l /\ x.target = t
      /\ x.todo = operator[o].todo /\ x.passed = operator[o].passed /\ x.goal = operator[o].goal
      /\ x.wrote = w /\ x.pos = operator[o].pos /\ x.seen = {}
  BY <1>2, <1>5 DEF OperatorOK, Transaction
<1>8. operator'[o] = x /\ \A p \in Operators \ {o} : operator'[p] = operator[p]
  BY <1>1, <1>2 DEF GenerationTypeOK
<1> HIDE DEF x
<1>9. PagesOf(x, x.target, written)
  BY <1>2, <1>7 DEF PagesOf
<1>10. version' = version /\ (\A u : Full(u)' <=> Full(u))
  BY <1>1 DEF Full
\* Nobody else has made this member active: the row would have to be its own.
<1>11. ASSUME NEW p \in Operators, p # o, NEW u \in Gn!Targets, <<u, n, "active">> \in operator[p].wrote, NEW v \in still
       PROVE  FALSE
  <2>1. LockOK(p) /\ v \in Gn!Targets
    BY <1>4, <1>11 DEF GenerationsInv
  <2>2. <<u, n>> \in operator[p].locked /\ (v # u => <<v, n, "retired">> \in operator[p].wrote)
    BY <1>2, <1>4, <1>11, <2>1 DEF LockOK
  <2>3. <<v, n>> \in operator[p].locked
    BY <1>2, <2>1, <2>2 DEF LockOK
  <2> QED BY <1>4, <1>11, <2>3
<1>12. \A p \in Operators \ {o} : \A u \in Gn!Targets, m \in Members :
         /\ <<u, m>> \in operator[p].locked => <<u, m>> \notin x.locked
         /\ <<u, m, "active">> \in operator[p].wrote => \A v \in Gn!Targets, s \in Ever : <<v, m, s>> \notin x.wrote
  <2> SUFFICES ASSUME NEW p \in Operators, p # o, NEW u \in Gn!Targets, NEW m \in Members
               PROVE  /\ <<u, m>> \in operator[p].locked => <<u, m>> \notin x.locked
                      /\ <<u, m, "active">> \in operator[p].wrote =>
                           \A v \in Gn!Targets, s \in Ever : <<v, m, s>> \notin x.wrote
    OBVIOUS
  <2>1. <<u, m>> \in operator[p].locked => <<u, m>> \notin x.locked
    BY <1>2, <1>4, <1>6, <1>7
  <2>2. ASSUME <<u, m, "active">> \in operator[p].wrote, NEW v \in Gn!Targets, NEW s \in Ever PROVE <<v, m, s>> \notin x.wrote
    <3>1. <<v, m, s>> \notin operator[o].wrote
      BY <1>2, <2>2
    <3>2. ~(m = n /\ v \in still)
      BY <1>11, <2>2
    <3> QED BY <1>6, <1>7, <3>1, <3>2 DEF Ever
  <2> QED BY <2>1, <2>2
<1>13. LockOK(o)'
  <2>1. ASSUME NEW u \in Gn!Targets, NEW m \in Members, <<u, m>> \in l
        PROVE  /\ version[u][m].state # "absent" /\ (u = t => Full(u))
               /\ \A p \in Operators \ {o} : <<u, m>> \notin operator[p].locked
    <3>1. CASE m = n /\ u \in still
      BY <1>4, <3>1
    <3>2. CASE <<u, m>> \in operator[o].locked
      BY <1>2, <3>2 DEF LockOK, t
    <3> QED BY <1>6, <2>1, <3>1, <3>2
  <2>2. ASSUME NEW u \in Gn!Targets, NEW m \in Members
        PROVE  /\ <<u, m, "retired">> \in w =>
                    /\ <<u, m>> \in l /\ version[u][m].state = "active"
                    /\ u # t /\ m \in Gn!MembersOf(t)
               /\ <<u, m, "active">> \in w =>
                    /\ <<u, m>> \in l /\ u = t /\ m \in Gn!MembersOf(u)
                    /\ \A v \in Gn!Targets \ {u} : version[v][m].state = "active" => <<v, m, "retired">> \in w
                    /\ \A p \in Operators \ {o} : \A v \in Gn!Targets, s \in Ever : <<v, m, s>> \notin operator[p].wrote
    BY <1>2, <1>4, <1>6 DEF LockOK, t
  <2>3. x.at \in Transaction
    BY <1>7 DEF Transaction
  <2> QED BY <1>7, <1>8, <1>10, <2>1, <2>2, <2>3 DEF LockOK, Gn!Goal
<1>14. TransactionOK(o)'
  <2>1. operator[o].passed = {}
    BY <1>1, <1>2 DEF TransactionOK, Gn!At
  <2>2. \A m \in Gn!MembersOf(t) \ Range(operator[o].todo) : <<t, m>> \in l
             /\ (version[t][m].state = "active" \/ <<t, m, "active">> \in w)
    BY <1>1, <1>2, <1>6, <2>1 DEF TransactionOK, Taken, t
  <2>3. /\ operator[o].todo \in Seq(Gn!MembersOf(t)) /\ operator[o].todo # <<>>
        /\ n = Head(operator[o].todo) /\ <<t, n>> \in l
    BY <1>1, <1>2, <1>6 DEF TransactionOK, t, n, Gn!At, Gn!Member
  <2> QED BY <1>7, <1>8, <1>10, <2>1, <2>2, <2>3 DEF TransactionOK, Taken, Gn!Goal, Gn!At, Gn!Member
<1> QED BY <1>1, <1>7, <1>8, <1>9, <1>12, <1>13, <1>14, OwnStep DEF x

LEMMA PromoteInv ==
  ASSUME GenerationsInv, NEW o \in Operators, Gn!Promote(o)
  PROVE  GenerationsInv'
<1> DEFINE t == Gn!Goal(o)
           n == Gn!Member(o)
           y == Gn!Onward(o)
           w == operator[o].wrote \cup {<<t, n, "active">>}
<1>1. /\ operator[o].at = "promote" /\ operator[o].at \in Transaction /\ operator[o].at # "commit"
      /\ UNCHANGED <<version, cursor, written>>
      /\ \/ operator' = [operator EXCEPT ![o] = Gn!Resting]
         \/ version[t][n].state = "active" /\ operator' = [operator EXCEPT ![o] = y]
         \/ /\ version[t][n].state # "active"
            /\ \A p \in Operators \ {o} : \A e \in operator[p].wrote : e[2] # n
            /\ \A u \in Gn!Targets \ {t} : version[u][n].state = "active" => <<u, n, "retired">> \in operator[o].wrote
            /\ operator' = [operator EXCEPT ![o] = [y EXCEPT !.wrote = operator[o].wrote \cup {<<t, n, "active">>}]]
  <2>1. operator[o].at = "promote" /\ UNCHANGED <<version, cursor, written>>
    BY DEF Gn!Promote, Gn!At
  <2> DEFINE retired == {u \in Gn!Targets : <<u, n, "retired">> \in operator[o].wrote}
             taken == \E u \in Gn!Targets \ ({t} \cup retired) : version[u][n].state = "active"
  <2>2. \/ version[t][n].state = "active" /\ operator' = [operator EXCEPT ![o] = y]
        \/ /\ version[t][n].state # "active"
           /\ \A p \in Operators \ {o} : \A e \in operator[p].wrote : e[2] # n
           /\ operator' = [operator EXCEPT ![o] = IF taken THEN Gn!Resting
                                                  ELSE [y EXCEPT !.wrote = operator[o].wrote \cup {<<t, n, "active">>}]]
    BY DEF Gn!Promote, Gn!Step, Gn!Rows
  <2>3. ~taken => \A u \in Gn!Targets \ {t} : version[u][n].state = "active" => <<u, n, "retired">> \in operator[o].wrote
    OBVIOUS
  <2>4. operator[o].at \in Transaction
    BY <2>1 DEF Transaction
  <2> HIDE DEF taken, y, t, n
  <2> QED BY <2>1, <2>2, <2>3, <2>4
<1>2. /\ GenerationTypeOK /\ LockOK(o) /\ TransactionOK(o)
      /\ OperatorOK(operator[o]) /\ operator[o].target = t /\ t \in Gn!Targets
      /\ PagesOf(operator[o], t, written) /\ n \in Members /\ n \in Gn!MembersOf(t)
      /\ Range(operator[o].todo) = {n} \cup Range(Tail(operator[o].todo))
      /\ \A p \in Operators \ {o} : \A u \in Gn!Targets, m \in Members :
           /\ <<u, m>> \in operator[p].locked => <<u, m>> \notin operator[o].locked
           /\ <<u, m, "active">> \in operator[p].wrote =>
                \A v \in Gn!Targets, s \in Ever : <<v, m, s>> \notin operator[o].wrote
      /\ Gn!MembersOf(t) \subseteq Members
  BY <1>1, TransactionFields
<1>3. /\ OperatorOK(y) /\ y.at = IF Tail(operator[o].todo) = <<>> THEN "commit" ELSE "lock"
      /\ y.todo = Tail(operator[o].todo) /\ y.todo \in Seq(Gn!MembersOf(t))
      /\ y.goal = operator[o].goal /\ y.target = t /\ y.passed = operator[o].passed
      /\ y.pos = operator[o].pos /\ y.seen = operator[o].seen /\ y.locked = operator[o].locked
      /\ y.wrote = operator[o].wrote
  BY <1>1, OnwardFields
<1>4. /\ operator[o].passed = {} /\ t \notin operator[o].seen /\ <<t, n>> \in operator[o].locked
      /\ \A m \in Gn!MembersOf(t) \ Range(operator[o].todo) : <<t, m>> \in operator[o].locked
           /\ (version[t][m].state = "active" \/ <<t, m, "active">> \in operator[o].wrote)
  BY <1>1, <1>2 DEF TransactionOK, Taken, Gn!At
<1>5. w \in SUBSET (Gn!Targets \X Members \X Ever)
  <2>1. <<t, n, "active">> \in Gn!Targets \X Members \X Ever /\ operator[o].wrote \subseteq Gn!Targets \X Members \X Ever
    BY <1>2 DEF OperatorOK, Ever
  <2> QED BY <2>1
<1> HIDE DEF t, n, y
<1>6. /\ \A u, m : <<u, m, "active">> \in w <=> <<u, m, "active">> \in operator[o].wrote \/ (u = t /\ m = n)
      /\ \A u, m : <<u, m, "retired">> \in w <=> <<u, m, "retired">> \in operator[o].wrote
  OBVIOUS
<1> HIDE DEF w
\* The member is done, with a write or without.
<1>7. ASSUME NEW x, OperatorOK(x), operator' = [operator EXCEPT ![o] = x],
             x.at = y.at, x.todo = y.todo, x.goal = y.goal, x.target = t, x.passed = {}, x.pos = y.pos, x.seen = y.seen,
             x.locked = y.locked,
             \/ x.wrote = operator[o].wrote /\ version[t][n].state = "active"
             \/ /\ x.wrote = w
                /\ \A p \in Operators \ {o} : \A e \in operator[p].wrote : e[2] # n
                /\ \A u \in Gn!Targets \ {t} : version[u][n].state = "active" => <<u, n, "retired">> \in operator[o].wrote
      PROVE  GenerationsInv'
  <2>1. operator'[o] = x /\ \A p \in Operators \ {o} : operator'[p] = operator[p]
    BY <1>2, <1>7 DEF GenerationTypeOK
  <2>2. PagesOf(x, x.target, written)
    BY <1>2, <1>3, <1>7 DEF PagesOf
  <2>3. version' = version /\ (\A u : Full(u)' <=> Full(u))
    BY <1>1 DEF Full
  <2>4. /\ \A u, m : <<u, m, "active">> \in x.wrote => <<u, m, "active">> \in operator[o].wrote \/ (u = t /\ m = n)
        /\ \A u, m : <<u, m, "active">> \in operator[o].wrote => <<u, m, "active">> \in x.wrote
        /\ \A u, m : <<u, m, "retired">> \in x.wrote <=> <<u, m, "retired">> \in operator[o].wrote
        /\ version[t][n].state = "active" \/ <<t, n, "active">> \in x.wrote
        /\ \A u, m : <<u, m, "active">> \in x.wrote /\ <<u, m, "active">> \notin operator[o].wrote =>
             /\ u = t /\ m = n
             /\ \A p \in Operators \ {o} : \A e \in operator[p].wrote : e[2] # n
             /\ \A v \in Gn!Targets \ {t} : version[v][n].state = "active" => <<v, n, "retired">> \in operator[o].wrote
    BY <1>6, <1>7
  <2>5. \A p \in Operators \ {o} : (\A e \in operator[p].wrote : e[2] # n) =>
          \A v, s : <<v, n, s>> \notin operator[p].wrote
    OBVIOUS
  <2>6. LockOK(o)'
    <3>1. ASSUME NEW u \in Gn!Targets, NEW m \in Members, <<u, m>> \in x.locked
          PROVE  /\ version[u][m].state # "absent" /\ (u = t => Full(u))
                 /\ \A p \in Operators \ {o} : <<u, m>> \notin operator[p].locked
      BY <1>2, <1>3, <1>7, <3>1 DEF LockOK, t
    <3>2. ASSUME NEW u \in Gn!Targets, NEW m \in Members, <<u, m, "retired">> \in x.wrote
          PROVE  /\ <<u, m>> \in x.locked /\ version[u][m].state = "active"
                 /\ u # t /\ m \in Gn!MembersOf(t)
      BY <1>2, <1>3, <1>7, <2>4, <3>2 DEF LockOK, t
    <3>3. ASSUME NEW u \in Gn!Targets, NEW m \in Members, <<u, m, "active">> \in x.wrote
          PROVE  /\ <<u, m>> \in x.locked /\ u = t /\ m \in Gn!MembersOf(u)
                 /\ \A v \in Gn!Targets \ {u} : version[v][m].state = "active" => <<v, m, "retired">> \in x.wrote
                 /\ \A p \in Operators \ {o} : \A v \in Gn!Targets, s \in Ever : <<v, m, s>> \notin operator[p].wrote
      <4>1. CASE <<u, m, "active">> \in operator[o].wrote
        BY <1>2, <1>3, <1>7, <2>4, <4>1 DEF LockOK, t
      <4>2. CASE <<u, m, "active">> \notin operator[o].wrote
        <5>1. u = t /\ m = n
          BY <2>4, <3>3, <4>2
        <5>2. \A p \in Operators \ {o} : \A v \in Gn!Targets, s \in Ever : <<v, n, s>> \notin operator[p].wrote
          BY <2>4, <2>5, <3>3, <4>2
        <5>3. \A v \in Gn!Targets \ {t} : version[v][n].state = "active" => <<v, n, "retired">> \in x.wrote
          BY <2>4, <3>3, <4>2
        <5> QED BY <1>2, <1>3, <1>4, <1>7, <5>1, <5>2, <5>3
      <4> QED BY <4>1, <4>2
    <3>4. x.at \in Transaction
      BY <1>3, <1>7 DEF Transaction
    <3> QED BY <1>7, <2>1, <2>3, <3>1, <3>2, <3>3, <3>4 DEF LockOK, Gn!Goal
  <2>7. TransactionOK(o)'
    <3>1. ASSUME NEW m \in Gn!MembersOf(t) \ Range(x.todo)
          PROVE  <<t, m>> \in x.locked /\ (version[t][m].state = "active" \/ <<t, m, "active">> \in x.wrote)
      <4>1. CASE m = n
        BY <1>3, <1>4, <1>7, <2>4, <4>1
      <4>2. CASE m # n
        <5>1. m \in Gn!MembersOf(t) \ Range(operator[o].todo)
          BY <1>2, <1>3, <1>7, <4>2
        <5> QED BY <1>3, <1>4, <1>7, <2>4, <5>1
      <4> QED BY <4>1, <4>2
    <3>2. /\ x.todo \in Seq(Gn!MembersOf(t)) /\ (x.todo = <<>> <=> x.at = "commit") /\ t \notin x.seen
          /\ x.at \in {"lock", "commit"}
      BY <1>3, <1>4, <1>7
    <3> QED BY <1>7, <2>1, <2>3, <3>1, <3>2 DEF TransactionOK, Taken, Gn!Goal, Gn!At, Gn!Member
  <2>8. \A p \in Operators \ {o} : \A u \in Gn!Targets, m \in Members :
          /\ <<u, m>> \in operator[p].locked => <<u, m>> \notin x.locked
          /\ <<u, m, "active">> \in operator[p].wrote => \A v \in Gn!Targets, s \in Ever : <<v, m, s>> \notin x.wrote
    <3> SUFFICES ASSUME NEW p \in Operators, p # o, NEW u \in Gn!Targets, NEW m \in Members,
                        <<u, m, "active">> \in operator[p].wrote, NEW v \in Gn!Targets, NEW s \in Ever
                 PROVE  <<v, m, s>> \notin x.wrote
      BY <1>2, <1>3, <1>7
    <3>1. <<v, m, s>> \notin operator[o].wrote
      BY <1>2
    <3>2. CASE s = "retired"
      BY <2>4, <3>1, <3>2
    <3>3. CASE s = "active"
      BY <2>4, <2>5, <3>1, <3>3
    <3> QED BY <3>2, <3>3 DEF Ever
  <2> QED BY <1>1, <1>7, <2>2, <2>6, <2>7, <2>8, OwnStep
<1>8. CASE operator' = [operator EXCEPT ![o] = Gn!Resting]
  BY <1>1, <1>8, RestStep
<1>9. CASE version[t][n].state = "active" /\ operator' = [operator EXCEPT ![o] = y]
  BY <1>3, <1>4, <1>7, <1>9
<1>10. CASE /\ version[t][n].state # "active"
            /\ \A p \in Operators \ {o} : \A e \in operator[p].wrote : e[2] # n
            /\ \A u \in Gn!Targets \ {t} : version[u][n].state = "active" => <<u, n, "retired">> \in operator[o].wrote
            /\ operator' = [operator EXCEPT ![o] = [y EXCEPT !.wrote = operator[o].wrote \cup {<<t, n, "active">>}]]
  <2> DEFINE x == [y EXCEPT !.wrote = w]
  <2>1. operator' = [operator EXCEPT ![o] = x]
    BY <1>3, <1>10 DEF w
  <2>2. /\ OperatorOK(x) /\ x.at = y.at /\ x.todo = y.todo /\ x.goal = y.goal /\ x.target = t /\ x.passed = {}
        /\ x.pos = y.pos /\ x.seen = y.seen /\ x.locked = y.locked /\ x.wrote = w
    BY <1>3, <1>4, <1>5 DEF OperatorOK
  <2> HIDE DEF x
  <2> QED BY <1>7, <1>10, <2>1, <2>2
<1> QED BY <1>1, <1>8, <1>9, <1>10

\* What a commit makes of the rows: each member of the generation is active in it,
\* and in no other.
LEMMA CommitRows ==
  ASSUME GenerationsInv, NEW o \in Operators, Gn!Commit(o)
  PROVE  LET g == Gn!Goal(o)
             Active(u, m) == <<u, m, "active">> \in operator[o].wrote
             Retired(u, m) == <<u, m, "retired">> \in operator[o].wrote
         IN /\ version' \in [Gn!Targets -> [Members -> IndexRow]]
            /\ \A u \in Gn!Targets, m \in Members :
                 /\ version'[u][m].sum = version[u][m].sum
                 /\ Active(u, m) => u = g /\ m \in Gn!MembersOf(g) /\ version'[u][m].state = "active" /\ Full(g)
                 /\ Retired(u, m) => /\ u # g /\ m \in Gn!MembersOf(g)
                                     /\ version[u][m].state = "active" /\ version'[u][m].state = "retired"
                 /\ ~Active(u, m) /\ ~Retired(u, m) => version'[u][m].state = version[u][m].state
                 /\ Active(u, m) \/ Retired(u, m) => <<u, m>> \in operator[o].locked
            /\ \A m \in Gn!MembersOf(g), u \in Gn!Targets : version'[u][m].state = "active" <=> u = g
<1> DEFINE g == Gn!Goal(o)
           w == operator[o].wrote
           Active(u, m) == <<u, m, "active">> \in w
           Retired(u, m) == <<u, m, "retired">> \in w
           State(u, m) == CHOOSE s \in {"active", "retired"} : <<u, m, s>> \in w
           Row(u, m) == IF \E s \in {"active", "retired"} : <<u, m, s>> \in w
                        THEN [version[u][m] EXCEPT !.state = State(u, m)] ELSE version[u][m]
<1>1. /\ operator[o].at = "commit" /\ operator[o].at \in Transaction
      /\ version' = [u \in Gn!Targets |-> [m \in Members |-> Row(u, m)]]
  BY DEF Gn!Commit, Gn!At, Transaction, Members
<1>2. /\ GenerationTypeOK /\ OneActive /\ LockOK(o) /\ TransactionOK(o) /\ g \in Gn!Targets
      /\ Gn!MembersOf(g) \subseteq Members
  BY <1>1, TransactionFields
<1>3. \A u \in Gn!Targets, m \in Members :
        /\ Active(u, m) => u = g /\ m \in Gn!MembersOf(g) /\ <<u, m>> \in operator[o].locked /\ Full(g)
             /\ \A v \in Gn!Targets \ {g} : version[v][m].state = "active" => Retired(v, m)
        /\ Retired(u, m) => u # g /\ m \in Gn!MembersOf(g) /\ <<u, m>> \in operator[o].locked
                            /\ version[u][m].state = "active"
  BY <1>2 DEF LockOK
<1>4. \A m \in Gn!MembersOf(g) : version[g][m].state = "active" \/ Active(g, m)
  <2>1. operator[o].todo = <<>> /\ operator[o].passed = {}
    BY <1>1, <1>2 DEF TransactionOK, Gn!At
  <2>2. Range(<<>>) = {}
    BY DEF Range
  <2> QED BY <1>1, <1>2, <2>1, <2>2 DEF TransactionOK, Taken
<1> HIDE DEF g, w
<1>5. ASSUME NEW u \in Gn!Targets, NEW m \in Members
      PROVE  /\ Row(u, m) \in IndexRow /\ Row(u, m).sum = version[u][m].sum
             /\ Active(u, m) => Row(u, m).state = "active"
             /\ Retired(u, m) => Row(u, m).state = "retired"
             /\ ~Active(u, m) /\ ~Retired(u, m) => Row(u, m).state = version[u][m].state
  <2>1. version[u][m] \in IndexRow /\ ~(Active(u, m) /\ Retired(u, m))
    BY <1>2, <1>3, GenerationFields
  <2>2. CASE Active(u, m)
    <3>1. State(u, m) = "active"
      BY <2>1, <2>2
    <3>2. Row(u, m) = [version[u][m] EXCEPT !.state = "active"]
      BY <2>2, <3>1
    <3> QED BY <2>1, <2>2, <3>2 DEF IndexRow, Ever
  <2>3. CASE Retired(u, m)
    <3>1. State(u, m) = "retired"
      BY <2>1, <2>3
    <3>2. Row(u, m) = [version[u][m] EXCEPT !.state = "retired"]
      BY <2>3, <3>1
    <3> QED BY <2>1, <2>3, <3>2 DEF IndexRow, Ever
  <2>4. CASE ~Active(u, m) /\ ~Retired(u, m)
    BY <2>1, <2>4
  <2> QED BY <2>2, <2>3, <2>4
<1> HIDE DEF Row
<1>6. version' \in [Gn!Targets -> [Members -> IndexRow]] /\ \A u \in Gn!Targets, m \in Members : version'[u][m] = Row(u, m)
  BY <1>1, <1>5
<1>7. ASSUME NEW m \in Gn!MembersOf(g), NEW u \in Gn!Targets PROVE version'[u][m].state = "active" <=> u = g
  <2>1. m \in Members
    BY <1>2
  <2>0. /\ version'[u][m] = Row(u, m) /\ g \in Gn!Targets
        /\ Active(u, m) => Row(u, m).state = "active"
        /\ Retired(u, m) => Row(u, m).state = "retired"
        /\ ~Active(u, m) /\ ~Retired(u, m) => Row(u, m).state = version[u][m].state
        /\ Active(u, m) => u = g
        /\ Retired(u, m) => u # g
    BY <1>2, <1>3, <1>5, <1>6, <2>1
  <2> HIDE DEF Active, Retired
  <2>2. CASE u = g
    <3>1. version[u][m].state = "active" \/ Active(u, m)
      BY <1>4, <2>2
    <3> QED BY <2>0, <2>2, <3>1
  <2>3. CASE u # g /\ version'[u][m].state = "active"
    <3>1. version[u][m].state = "active" /\ ~Retired(u, m)
      BY <2>0, <2>3
    <3>2. version[g][m].state = "active" => u = g
      BY <1>2, <2>1, <3>1 DEF OneActive
    <3>3. Active(g, m)
      BY <1>4, <2>3, <3>2
    <3>4. Retired(u, m)
      BY <1>2, <1>3, <2>1, <2>3, <3>1, <3>3
    <3> QED BY <3>1, <3>4
  <2> QED BY <2>2, <2>3
<1>8. ASSUME NEW u \in Gn!Targets, NEW m \in Members
      PROVE  /\ version'[u][m].sum = version[u][m].sum
             /\ Active(u, m) => u = g /\ m \in Gn!MembersOf(g) /\ version'[u][m].state = "active" /\ Full(g)
             /\ Retired(u, m) => /\ u # g /\ m \in Gn!MembersOf(g)
                                 /\ version[u][m].state = "active" /\ version'[u][m].state = "retired"
             /\ ~Active(u, m) /\ ~Retired(u, m) => version'[u][m].state = version[u][m].state
             /\ Active(u, m) \/ Retired(u, m) => <<u, m>> \in operator[o].locked
  BY <1>3, <1>5, <1>6
<1> QED BY <1>6, <1>7, <1>8 DEF g, w

LEMMA CommitInv ==
  ASSUME GenerationsInv, NEW o \in Operators, Gn!Commit(o)
  PROVE  GenerationsInv'
<1> DEFINE g == Gn!Goal(o)
           Active(u, m) == <<u, m, "active">> \in operator[o].wrote
           Retired(u, m) == <<u, m, "retired">> \in operator[o].wrote
<1>1. operator' = [operator EXCEPT ![o] = Gn!Resting] /\ UNCHANGED <<cursor, written>>
  BY DEF Gn!Commit, Gn!Step
<1>2. /\ GenerationTypeOK /\ RowsTogether /\ OneActive /\ PagesKept
      /\ \A p \in Operators : LockOK(p)
  BY DEF GenerationsInv
<1>3. /\ version' \in [Gn!Targets -> [Members -> IndexRow]]
      /\ \A u \in Gn!Targets, m \in Members :
           /\ version'[u][m].sum = version[u][m].sum
           /\ Active(u, m) => u = g /\ m \in Gn!MembersOf(g) /\ version'[u][m].state = "active" /\ Full(g)
           /\ Retired(u, m) => /\ u # g /\ m \in Gn!MembersOf(g)
                               /\ version[u][m].state = "active" /\ version'[u][m].state = "retired"
           /\ ~Active(u, m) /\ ~Retired(u, m) => version'[u][m].state = version[u][m].state
           /\ Active(u, m) \/ Retired(u, m) => <<u, m>> \in operator[o].locked
      /\ \A m \in Gn!MembersOf(g), u \in Gn!Targets : version'[u][m].state = "active" <=> u = g
  BY CommitRows
<1>4. g \in Gn!Targets /\ \A t \in Gn!Targets : Gn!MembersOf(t) \subseteq Members /\ Gn!Canonical \subseteq Gn!MembersOf(t)
  BY <1>2, GenerationFields, GenerationMembers
<1> HIDE DEF g, Active, Retired
<1>5. operator'[o] = Gn!Resting /\ \A p \in Operators \ {o} : operator'[p] = operator[p]
  BY <1>1, <1>2 DEF GenerationTypeOK
<1>6. GenerationTypeOK'
  <2>1. operator' = [p \in Operators |-> operator'[p]]
    BY <1>1, <1>2 DEF GenerationTypeOK
  <2>2. \A p \in Operators : OperatorOK(operator'[p])
    BY <1>2, <1>5, RestingOK DEF GenerationTypeOK
  <2> QED BY <1>1, <1>2, <1>3, <2>1, <2>2 DEF GenerationTypeOK, OperatorOK
<1>7. \A t : Full(t)' <=> Full(t)
  BY <1>1 DEF Full
<1>8. \A u \in Gn!Targets, m \in Members :
        /\ version[u][m].state \in Ever => version'[u][m].state \in Ever
        /\ version'[u][m].state \in Ever => version[u][m].state \in Ever \/ (u = g /\ Active(u, m))
        /\ version[u][m].state = "absent" /\ u # g => version'[u][m].state = "absent"
        /\ m \notin Gn!MembersOf(g) => version'[u][m].state = version[u][m].state
  BY <1>3 DEF Ever
<1>9. RowsTogether'
  <2>1. ASSUME NEW t \in Gn!Targets, NEW m \in Members
        PROVE  /\ m \notin Gn!MembersOf(t) => version'[t][m].state = "absent"
               /\ version'[t][3].state = "absent" => version'[t][m].state = "absent"
               /\ version'[t][m].sum = "final" \/ version'[t][m].state \in Ever => Full(t)'
    <3>1. /\ m \notin Gn!MembersOf(t) => version[t][m].state = "absent"
          /\ version[t][3].state = "absent" => version[t][m].state = "absent"
          /\ version[t][m].sum = "final" \/ version[t][m].state \in Ever => Full(t)
      BY <1>2 DEF RowsTogether
    <3>2. 3 \in Members /\ 3 \in Gn!MembersOf(g)
      BY <1>4, GenerationMembers
    <3>3. m \notin Gn!MembersOf(t) => version'[t][m].state = "absent"
      BY <1>8, <3>1
    <3>4. version'[t][3].state = "absent" => version'[t][m].state = "absent"
      <4>1. SUFFICES ASSUME version'[t][3].state = "absent" PROVE version'[t][m].state = "absent"
        OBVIOUS
      <4>2. t # g
        BY <1>3, <1>4, <3>2, <4>1
      <4>3. version[t][3].state = "absent"
        BY <1>3, <3>2, <4>1
      <4> QED BY <1>8, <3>1, <4>2, <4>3
    <3>5. version'[t][m].sum = "final" \/ version'[t][m].state \in Ever => Full(t)'
      BY <1>3, <1>7, <1>8, <3>1
    <3> QED BY <3>3, <3>4, <3>5
  <2>2. ASSUME NEW t \in Gn!Targets, NEW m \in Gn!MembersOf(t), NEW n \in Gn!MembersOf(t), version'[t][m].state \in Ever
        PROVE  version'[t][n].state \in Ever
    <3>1. m \in Members /\ n \in Members
      BY <1>4
    <3>2. CASE t = g
      BY <1>3, <3>2 DEF Ever
    <3>3. CASE t # g
      BY <1>2, <1>8, <2>2, <3>1, <3>3 DEF RowsTogether
    <3> QED BY <3>2, <3>3
  <2> QED BY <2>1, <2>2 DEF RowsTogether
<1>10. OneActive'
  <2>1. ASSUME NEW m \in Members, NEW t \in Gn!Targets, NEW u \in Gn!Targets, version'[t][m].state = "active",
               version'[u][m].state = "active"
        PROVE  t = u
    BY <1>2, <1>3, <1>8, <2>1 DEF OneActive
  <2>2. ASSUME NEW m \in Gn!Canonical PROVE version'[g][m].state = "active"
    BY <1>3, <1>4
  <2>3. ASSUME NEW m \in Members, NEW n \in Members, NEW t \in Gn!Targets, NEW u \in Gn!Targets,
               version'[t][m].state = "active", version'[u][n].state = "active",
               n \in Gn!MembersOf(t), m \in Gn!MembersOf(u)
        PROVE  t = u
    <3>1. CASE m \in Gn!MembersOf(g)
      <4>1. t = g
        BY <1>3, <2>3, <3>1
      <4> QED BY <1>3, <2>3, <4>1
    <3>2. CASE n \in Gn!MembersOf(g)
      <4>1. u = g
        BY <1>3, <2>3, <3>2
      <4> QED BY <1>3, <2>3, <4>1
    <3>3. CASE m \notin Gn!MembersOf(g) /\ n \notin Gn!MembersOf(g)
      BY <1>2, <1>8, <2>3, <3>3 DEF OneActive
    <3> QED BY <3>1, <3>2, <3>3
  <2> QED BY <1>4, <2>1, <2>2, <2>3 DEF OneActive
<1>11. PagesKept'
  <2>1. ASSUME NEW p \in Operators, NEW m \in Gn!Canonical
        PROVE  /\ \A i \in 1..operator'[p].pos[m] : <<m, i>> \in written[operator'[p].target]
               /\ operator'[p].at = "finish" => operator'[p].pos[m] = Pages
    <3>1. CASE p = o
      BY <1>5, <3>1, RestingOK
    <3>2. CASE p # o
      BY <1>2, <1>5, <3>2 DEF PagesKept, Gn!Goal, Gn!At
    <3> QED BY <3>1, <3>2
  <2> QED BY <1>1, <1>2, <2>1 DEF PagesKept, Gn!Goal, Gn!At
<1>12. LockOK(o)' /\ TransactionOK(o)'
  BY <1>5, RestingOK DEF LockOK, TransactionOK, Transaction
<1>13. ASSUME NEW p \in Operators, p # o PROVE LockOK(p)' /\ TransactionOK(p)'
  <2>1. ASSUME NEW t \in Gn!Targets, NEW m \in Members
        PROVE  /\ <<t, m>> \in operator[p].locked =>
                    /\ version'[t][m].state # "absent" /\ (version'[t][m].state = "active" <=> version[t][m].state = "active")
                    /\ \A q \in Operators \ {p} : <<t, m>> \notin operator'[q].locked
               /\ version[t][m].state \in Ever => version'[t][m].state \in Ever
               /\ <<t, m, "active">> \in operator[p].wrote =>
                    /\ \A u \in Gn!Targets \ {t} : version'[u][m].state = "active" => version[u][m].state = "active"
                    /\ \A q \in Operators \ {p} : \A u \in Gn!Targets, s \in Ever : <<u, m, s>> \notin operator'[q].wrote
    <3>1. \A q \in Operators \ {p} : q = o \/ operator'[q] = operator[q]
      BY <1>5
    <3>2. Gn!Resting.locked = {} /\ Gn!Resting.wrote = {}
      BY RestingOK
    <3>3. ASSUME <<t, m>> \in operator[p].locked
          PROVE  /\ version'[t][m].state # "absent" /\ (version'[t][m].state = "active" <=> version[t][m].state = "active")
                 /\ \A q \in Operators \ {p} : <<t, m>> \notin operator'[q].locked
      <4>1. version[t][m].state # "absent" /\ \A q \in Operators \ {p} : <<t, m>> \notin operator[q].locked
        BY <1>2, <3>3 DEF LockOK
      <4>2. version'[t][m].state = version[t][m].state
        BY <1>3, <1>13, <4>1
      <4> QED BY <1>5, <3>1, <3>2, <4>1, <4>2
    <3>4. ASSUME <<t, m, "active">> \in operator[p].wrote
          PROVE  /\ \A u \in Gn!Targets \ {t} : version'[u][m].state = "active" => version[u][m].state = "active"
                 /\ \A q \in Operators \ {p} : \A u \in Gn!Targets, s \in Ever : <<u, m, s>> \notin operator'[q].wrote
      <4>1. \A q \in Operators \ {p} : \A u \in Gn!Targets, s \in Ever : <<u, m, s>> \notin operator[q].wrote
        BY <1>2, <3>4 DEF LockOK
      <4>2. \A u \in Gn!Targets : ~Active(u, m) /\ ~Retired(u, m)
        BY <1>13, <4>1 DEF Active, Retired, Ever
      <4> QED BY <1>3, <1>5, <3>1, <3>2, <4>1, <4>2
    <3> QED BY <1>8, <3>3, <3>4
  <2> QED BY <1>5, <1>7, <1>13, <2>1, OthersKeep
<1> QED BY <1>6, <1>9, <1>10, <1>11, <1>12, <1>13 DEF GenerationsInv

LEMMA GenerationsStep == GenerationsInv /\ [Gn!Next]_generationVars => GenerationsInv'
<1> SUFFICES ASSUME GenerationsInv, [Gn!Next]_generationVars PROVE GenerationsInv'
  OBVIOUS
<1>1. ASSUME NEW o \in Operators, NEW t \in Gn!Targets,
             Gn!StartBackfill(o, t) \/ Gn!ActivateTarget(o, t) \/ Gn!RollbackTarget(o, t)
      PROVE  GenerationsInv'
  BY <1>1, StartBackfillInv, BeginInv
<1>2. ASSUME NEW o \in Operators,
             \/ Gn!ScanPage(o) \/ Gn!PersistBackfillProgress(o) \/ Gn!ScanEnds(o) \/ Gn!FinishBackfillProgress(o)
             \/ Gn!FailBackfillVersions(o)
             \/ \E permanent \in BOOLEAN : Gn!SnapshotFails(o, permanent)
      PROVE  GenerationsInv'
  <2>1. ASSUME NEW permanent, Gn!SnapshotFails(o, permanent) PROVE GenerationsInv'
    <3>1. operator[o].at \notin Transaction
      BY <2>1 DEF Gn!SnapshotFails, Gn!At, Transaction
    <3> QED BY <2>1, <3>1, GiveUpInv DEF Gn!SnapshotFails
  <2> QED BY <1>2, <2>1, ScanPageInv, PersistInv, ScanEndsInv, FinishInv, FailBackfillInv
<1>3. ASSUME NEW o \in Operators,
             \/ Gn!PassOver(o) \/ Gn!LockNext(o) \/ Gn!SeeActive(o) \/ Gn!Retire(o) \/ Gn!Promote(o) \/ Gn!Commit(o)
      PROVE  GenerationsInv'
  BY <1>3, PassOverInv, LockNextInv, SeeActiveInv, RetireInv, PromoteInv, CommitInv
<1>4. ASSUME NEW o \in Operators, Gn!Interrupt(o) PROVE GenerationsInv'
  BY <1>4, RestStep DEF Gn!Interrupt, Gn!Step
<1>5. CASE UNCHANGED generationVars
  <2>1. UNCHANGED <<version, cursor, written, operator>>
    BY <1>5 DEF generationVars
  <2>2. (GenerationTypeOK' <=> GenerationTypeOK) /\ (RowsTogether' <=> RowsTogether) /\ (OneActive' <=> OneActive)
    BY <2>1 DEF GenerationTypeOK, OperatorOK, RowsTogether, OneActive, Full
  <2>3. PagesKept' <=> PagesKept
    BY <2>1 DEF PagesKept, Gn!Goal, Gn!At
  <2>4. \A o \in Operators : (LockOK(o)' <=> LockOK(o)) /\ (TransactionOK(o)' <=> TransactionOK(o))
    BY <2>1 DEF LockOK, TransactionOK, Taken, Full, Gn!Goal, Gn!Member, Gn!At
  <2> QED BY <2>2, <2>3, <2>4 DEF GenerationsInv
<1> QED BY <1>1, <1>2, <1>3, <1>4, <1>5 DEF Gn!Next

\* A set whose elements are all the same has one at most.
LEMMA OneElement ==
  ASSUME NEW S, \A x, y \in S : x = y
  PROVE  Cardinality(S) <= 1
<1>1. CASE S = {}
  BY <1>1, FS_EmptySet
<1>2. CASE S # {}
  <2>1. PICK x \in S : S = {x}
    BY <1>2
  <2> QED BY <2>1, FS_Singleton
<1> QED BY <1>1, <1>2

LEMMA GenerationsSettle == GenerationsInv => Gn!GenerationsSound
<1> SUFFICES ASSUME GenerationsInv PROVE Gn!GenerationsSound
  OBVIOUS
<1>1. GenerationTypeOK /\ RowsTogether /\ OneActive
  BY DEF GenerationsInv
<1>2. \A t \in Gn!Targets : \A m : t \in Gn!ActiveOf(m) <=> version[t][m].state = "active"
  BY DEF Gn!ActiveOf
<1>3. \A m : Gn!ActiveOf(m) \subseteq Gn!Targets
  BY DEF Gn!ActiveOf
<1>4. ASSUME NEW m \in Members PROVE Gn!Cardinality(Gn!ActiveOf(m)) <= 1
  <2>1. \A t, u \in Gn!ActiveOf(m) : t = u
    BY <1>1, <1>2, <1>3 DEF OneActive
  <2>2. Gn!Cardinality(Gn!ActiveOf(m)) = Cardinality(Gn!ActiveOf(m))
    BY DEF Gn!Cardinality, Cardinality
  <2>3. Cardinality(Gn!ActiveOf(m)) <= 1
    BY <2>1, OneElement
  <2> QED BY <2>2, <2>3
<1>5. ASSUME NEW m \in Gn!Canonical PROVE Gn!ActiveOf(m) # {}
  BY <1>1, <1>2 DEF OneActive
<1>6. ASSUME NEW m \in Members, NEW n \in Members, NEW t \in Gn!ActiveOf(m), NEW u \in Gn!ActiveOf(n)
      PROVE  t = u \/ n \notin Gn!MembersOf(t) \/ m \notin Gn!MembersOf(u)
  BY <1>1, <1>2, <1>3 DEF OneActive
<1>7. ASSUME NEW t \in Gn!Targets, NEW m \in Members, version[t][m].state \in {"active", "retired"}
      PROVE  written[t] = Gn!Canonical \X (1..Pages)
  <2>1. Full(t) /\ written[t] \subseteq Gn!Canonical \X (1..Pages)
    BY <1>1, <1>7 DEF RowsTogether, Ever, GenerationTypeOK
  <2> QED BY <2>1 DEF Full
<1> QED BY <1>4, <1>5, <1>6, <1>7 DEF Gn!GenerationsSound, Members

-----------------------------------------------------------------------------
(* The way of a document into the parser (Parsing) *)

Faulty == {"unsupported", "large", "invalid", "long"}

\* What a verdict says of its document; an attempt that has begun has left the last
\* attempt's disturbance behind, and its verdict is not out.
VerdictOK(r) ==
  /\ asked[r] \in [parser : {"remote", "builtin", "vision"}, nature : Ps!Natures]
  /\ verdict[r] = "unsupported" => asked[r].nature \in Faulty
  /\ verdict[r] = "rejected" => asked[r].parser = "vision"
  /\ verdict[r] = "retry" /\ call[r] = "idle" /\ r \notin disturbed => asked[r].nature = "broken"
  /\ verdict[r] = "indexed" => asked[r].nature = "good"

ParsingInv ==
  part = "parsing" =>
    /\ asked \in [Requests -> [parser : {"remote", "builtin", "vision"}, nature : Ps!Natures]]
    /\ call \in [Requests -> {"idle", "waiting", "posted"}] /\ DOMAIN verdict = Requests
    /\ \A r \in Requests : VerdictOK(r)

\* How often a failure is classified on its way and by whom does not matter: the
\* worker's 500 and 503 come out as an error to repeat, its other refusals as final.
LEMMA Classified ==
  /\ \A nature \in Faulty \ {"long"} :
       Ps!VerdictOf(Ps!ParserError(Ps!ParserStatus(Ps!WorkerError(Ps!WorkerStatus(nature))))) = "unsupported"
  /\ \A status \in {500, 503} : Ps!VerdictOf(Ps!ParserError(Ps!ParserStatus(Ps!WorkerError(status)))) = "retry"
  /\ \A code \in {"DeadlineExceeded", "Unavailable", "Internal"} : Ps!VerdictOf(Ps!ParserError(code)) = "retry"
  /\ \A nature \in {"unsupported", "large", "invalid"} : Ps!VerdictOf(Ps!Extracted(nature)) = "unsupported"
<1>1. /\ Ps!WorkerStatus("unsupported") = 415 /\ Ps!WorkerStatus("large") = 413 /\ Ps!WorkerStatus("invalid") = 422
  BY DEF Ps!WorkerStatus
<1>2. /\ Ps!WorkerError(415) = "unsupported" /\ Ps!WorkerError(413) = "limit" /\ Ps!WorkerError(422) = "permanent"
      /\ Ps!WorkerError(500) = "retryable" /\ Ps!WorkerError(503) = "retryable"
  BY DEF Ps!WorkerError
<1>3. \A class \in {"unsupported", "limit", "retryable", "permanent"} : Ps!ParserError(Ps!ParserStatus(class)) = class
  BY DEF Ps!ParserError, Ps!ParserStatus
<1>4. \A code \in {"DeadlineExceeded", "Unavailable", "Internal"} : Ps!ParserError(code) = "retryable"
  BY DEF Ps!ParserError
<1>5. \A nature \in {"unsupported", "large", "invalid"} : Ps!Extracted(nature) \in {"unsupported", "limit", "permanent"}
  BY DEF Ps!Extracted
<1> QED BY <1>1, <1>2, <1>3, <1>4, <1>5 DEF Ps!VerdictOf, Faulty

\* The end of an attempt with a verdict that fits the document.
LEMMA EndOK ==
  ASSUME part = "parsing", ParsingInv, UNCHANGED <<part, asked>>,
         NEW r \in Requests, NEW result \in {"retry", "unsupported", "rejected", "indexed"}, Ps!End(r, result),
         disturbed' \in {disturbed, disturbed \cup {r}, disturbed \ {r}},
         result = "unsupported" => asked[r].nature \in Faulty,
         result = "rejected" => asked[r].parser = "vision",
         result = "retry" => r \in disturbed' \/ asked[r].nature = "broken",
         result = "indexed" => asked[r].nature = "good"
  PROVE  ParsingInv'
<1>1. /\ call' = [call EXCEPT ![r] = "idle"] /\ verdict' = [verdict EXCEPT ![r] = result]
      /\ call' \in [Requests -> {"idle", "waiting", "posted"}] /\ DOMAIN verdict' = Requests
  BY DEF Ps!End, ParsingInv
<1>2. ASSUME NEW q \in Requests PROVE VerdictOK(q)'
  <2>1. CASE q = r
    BY <1>1, <2>1 DEF ParsingInv, VerdictOK
  <2>2. CASE q # r
    <3>1. call'[q] = call[q] /\ verdict'[q] = verdict[q] /\ (q \in disturbed' <=> q \in disturbed)
      BY <1>1, <2>2 DEF ParsingInv
    <3> QED BY <3>1 DEF ParsingInv, VerdictOK
  <2> QED BY <2>1, <2>2
<1> QED BY <1>1, <1>2 DEF ParsingInv

\* An attempt that goes on.
LEMMA GoesOn ==
  ASSUME part = "parsing", ParsingInv, UNCHANGED <<part, asked, verdict>>,
         NEW r \in Requests, NEW at \in {"waiting", "posted"}, call' = [call EXCEPT ![r] = at],
         disturbed' \in {disturbed, disturbed \ {r}}
  PROVE  ParsingInv'
<1>1. call' \in [Requests -> {"idle", "waiting", "posted"}]
  BY DEF ParsingInv
<1>2. ASSUME NEW q \in Requests PROVE VerdictOK(q)'
  <2>1. call'[q] = "idle" => call[q] = "idle" /\ (q \in disturbed' <=> q \in disturbed)
    BY DEF ParsingInv
  <2> QED BY <2>1 DEF ParsingInv, VerdictOK
<1> QED BY <1>1, <1>2 DEF ParsingInv

LEMMA HereStep ==
  ASSUME part = "parsing", ParsingInv, UNCHANGED part,
         NEW r \in Requests, NEW parser, Ps!ParseHere(r, parser)
  PROVE  ParsingInv'
<1> DEFINE nature == asked[r].nature
<1>1. UNCHANGED asked /\ nature \in Ps!Natures
  BY DEF Ps!ParseHere, ParsingInv
<1>2. CASE disturbed' = disturbed \cup {r} /\ Ps!End(r, Ps!VerdictOf("retryable"))
  <2>1. Ps!VerdictOf("retryable") = "retry"
    BY DEF Ps!VerdictOf
  <2> QED BY <1>1, <1>2, <2>1, EndOK
<1>3. CASE /\ disturbed' = disturbed \ {r}
           /\ Ps!End(r, IF nature \in {"good", "long"} THEN Ps!ChunksForIndex(nature)
                        ELSE Ps!VerdictOf(Ps!Extracted(nature)))
  <2>1. CASE nature = "good" \/ nature = "long"
    <3>1. Ps!ChunksForIndex(nature) = IF nature = "long" THEN "unsupported" ELSE "indexed"
      BY DEF Ps!ChunksForIndex
    <3> QED BY <1>1, <1>3, <2>1, <3>1, EndOK DEF Faulty
  <2>2. CASE nature \in {"unsupported", "large", "invalid"}
    <3>1. Ps!VerdictOf(Ps!Extracted(nature)) = "unsupported"
      BY <2>2, Classified
    <3>2. Ps!End(r, "unsupported")
      BY <1>3, <2>2, <3>1
    <3> QED BY <1>1, <1>3, <2>2, <3>2, EndOK DEF Faulty
  <2>3. CASE nature = "broken"
    <3>1. Ps!VerdictOf(Ps!Extracted(nature)) = "retry"
      BY <2>3 DEF Ps!VerdictOf, Ps!Extracted
    <3>2. Ps!End(r, "retry")
      BY <1>3, <2>3, <3>1
    <3> QED BY <1>1, <1>3, <2>3, <3>2, EndOK
  <2> QED BY <1>1, <2>1, <2>2, <2>3 DEF Ps!Natures
<1> QED BY <1>2, <1>3 DEF Ps!ParseHere

LEMMA ParserAnswers ==
  ASSUME part = "parsing", ParsingInv, UNCHANGED part,
         NEW r \in Requests, NEW attempt, Ps!WorkerAnswers(r, attempt)
  PROVE  ParsingInv'
<1> DEFINE nature == asked[r].nature
           status == Ps!WorkerStatus(nature)
<1>1. UNCHANGED <<asked, disturbed>> /\ nature \in Ps!Natures
  BY DEF Ps!WorkerAnswers, ParsingInv
<1>2. CASE UNCHANGED <<call, verdict>>
  BY <1>1, <1>2 DEF ParsingInv, VerdictOK
<1>3. CASE Ps!End(r, IF status = 200 THEN Ps!ChunksForIndex(nature)
                     ELSE Ps!VerdictOf(Ps!ParserError(Ps!ParserStatus(Ps!WorkerError(status)))))
  <2>1. CASE nature = "good" \/ nature = "long"
    <3>1. status = 200 /\ Ps!ChunksForIndex(nature) = IF nature = "long" THEN "unsupported" ELSE "indexed"
      BY <2>1 DEF Ps!ChunksForIndex, Ps!WorkerStatus
    <3> QED BY <1>1, <1>3, <2>1, <3>1, EndOK DEF Faulty
  <2>2. CASE nature \in Faulty \ {"long"}
    <3>1. status # 200
      BY <2>2 DEF Ps!WorkerStatus, Faulty
    <3>2. Ps!End(r, "unsupported")
      BY <1>3, <2>2, <3>1, Classified
    <3> QED BY <1>1, <2>2, <3>2, EndOK
  <2>3. CASE nature = "broken"
    <3>1. status = 500
      BY <2>3 DEF Ps!WorkerStatus
    <3>2. Ps!End(r, "retry")
      BY <1>3, <3>1, Classified
    <3> QED BY <1>1, <2>3, <3>2, EndOK
  <2> QED BY <1>1, <2>1, <2>2, <2>3 DEF Ps!Natures, Faulty
<1> QED BY <1>2, <1>3 DEF Ps!WorkerAnswers

LEMMA ParsingStep ==
  ASSUME ParsingInv, UNCHANGED part, part = "parsing" => [Ps!Next]_parseVars
  PROVE  ParsingInv'
<1> SUFFICES ASSUME part = "parsing" PROVE ParsingInv'
  BY DEF ParsingInv
<1>1. CASE UNCHANGED parseVars
  BY <1>1 DEF parseVars, ParsingInv, VerdictOK
<1>2. ASSUME NEW r \in Requests, Ps!Parse(r) PROVE ParsingInv'
  BY <1>2, GoesOn DEF Ps!Parse
<1>3. ASSUME NEW r \in Requests, Ps!ParseDocument(r) PROVE ParsingInv'
  <2>1. UNCHANGED asked
    BY <1>3 DEF Ps!ParseDocument
  <2>2. CASE call' = [call EXCEPT ![r] = "posted"] /\ UNCHANGED <<verdict, disturbed>>
    BY <2>1, <2>2, GoesOn
  <2>3. CASE /\ Ps!End(r, Ps!VerdictOf(Ps!ParserError(Ps!ParserStatus(Ps!WorkerError(503)))))
             /\ disturbed' = disturbed \cup {r}
    BY <2>1, <2>3, Classified, EndOK
  <2> QED BY <1>3, <2>2, <2>3 DEF Ps!ParseDocument
<1>4. ASSUME NEW r \in Requests, NEW code \in {"DeadlineExceeded", "Unavailable", "Internal"},
             Ps!End(r, Ps!VerdictOf(Ps!ParserError(code))), disturbed' = disturbed \cup {r}, UNCHANGED asked
      PROVE  ParsingInv'
  BY <1>4, Classified, EndOK
<1>5. ASSUME NEW r \in Requests, Ps!Timeout(r) PROVE ParsingInv'
  BY <1>4, <1>5 DEF Ps!Timeout
<1>6. ASSUME NEW r \in Requests, NEW code \in {"Unavailable", "Internal"}, Ps!Outage(r, code) PROVE ParsingInv'
  BY <1>4, <1>6 DEF Ps!Outage
<1>7. ASSUME NEW r \in Requests, Ps!VisionRejects(r) PROVE ParsingInv'
  BY <1>7, EndOK DEF Ps!VisionRejects
<1> QED
  BY <1>1, <1>2, <1>3, <1>5, <1>6, <1>7, HereStep, ParserAnswers DEF Ps!Next, Ps!BuiltinParse, Ps!ParseVisionImage

-----------------------------------------------------------------------------
(* Answering: sequences in order *)

LEMMA SameSize == \A S : An!Cardinality(S) = Cardinality(S)
BY DEF An!Cardinality, Cardinality

LEMMA SameRange == \A s : An!Range(s) = Range(s)
BY DEF An!Range, Range

\* Below[r] is what comes before r.
StrictOrder(S, Below) ==
  /\ Below \in [S -> SUBSET S]
  /\ \A a \in S : a \notin Below[a]
  /\ \A a, b \in S : a # b => a \in Below[b] \/ b \in Below[a]
  /\ \A a, b, c \in S : a \in Below[b] /\ b \in Below[c] => a \in Below[c]

\* The number of elements below one tells it from the others, and is what its place needs.
LEMMA PlacesBelow ==
  ASSUME NEW S, IsFiniteSet(S), NEW Below, StrictOrder(S, Below)
  PROVE  /\ Cardinality(S) \in Nat
         /\ \A r \in S : Cardinality(Below[r]) \in 0 .. Cardinality(S) - 1
         /\ \A a, b \in S : a \in Below[b] => Cardinality(Below[a]) < Cardinality(Below[b])
         /\ \A k \in 1 .. Cardinality(S) : \E r \in S : Cardinality(Below[r]) = k - 1
<1>1. Cardinality(S) \in Nat
  BY FS_CardinalityType
<1>2. ASSUME NEW r \in S
      PROVE  /\ IsFiniteSet(Below[r]) /\ Cardinality(Below[r]) \in Nat
             /\ Cardinality(Below[r]) \in 0 .. Cardinality(S) - 1
  <2>1. Below[r] \in SUBSET S /\ Below[r] # S
    BY DEF StrictOrder
  <2>2. IsFiniteSet(Below[r]) /\ Cardinality(Below[r]) <= Cardinality(S) /\ Cardinality(Below[r]) # Cardinality(S)
    BY <2>1, FS_Subset
  <2>3. Cardinality(Below[r]) \in Nat
    BY <2>2, FS_CardinalityType
  <2> QED BY <1>1, <2>2, <2>3
<1>3. ASSUME NEW a \in S, NEW b \in S, a \in Below[b] PROVE Cardinality(Below[a]) < Cardinality(Below[b])
  <2>1. Below[a] \in SUBSET Below[b] /\ Below[a] # Below[b]
    BY <1>3 DEF StrictOrder
  <2>2. Cardinality(Below[a]) <= Cardinality(Below[b]) /\ Cardinality(Below[a]) # Cardinality(Below[b])
    BY <1>2, <2>1, FS_Subset
  <2> QED BY <1>2, <2>2
<1> DEFINE T == 0 .. Cardinality(S) - 1
           f == [r \in S |-> Cardinality(Below[r])]
<1>4. f \in Injection(S, T)
  <2>1. f \in [S -> T]
    BY <1>2
  <2>2. \A a, b \in S : f[a] = f[b] => a = b
    <3> SUFFICES ASSUME NEW a \in S, NEW b \in S, a # b PROVE f[a] # f[b]
      OBVIOUS
    <3>1. a \in Below[b] \/ b \in Below[a]
      BY DEF StrictOrder
    <3> QED BY <1>2, <1>3, <3>1
  <2> HIDE DEF f, T
  <2> QED BY <2>1, <2>2 DEF Injection, IsInjective
<1>5. IsFiniteSet(T) /\ Cardinality(T) = Cardinality(S)
  BY <1>1, FS_Interval
<1>6. f \in Surjection(S, T)
  BY <1>4, <1>5, FS_Injection
<1>7. \A n \in T : \E r \in S : f[r] = n
  BY <1>6 DEF Surjection
<1>8. ASSUME NEW k \in 1 .. Cardinality(S) PROVE \E r \in S : Cardinality(Below[r]) = k - 1
  <2>1. k - 1 \in T
    BY <1>1
  <2> QED BY <1>7, <2>1
<1> QED BY <1>1, <1>2, <1>3, <1>8

\* A sequence that puts at each place the element with as many below it.
Placed(s, S, Below) ==
  /\ s = [k \in 1 .. Cardinality(S) |-> s[k]]
  /\ \A k \in 1 .. Cardinality(S) :
       (\E r \in S : Cardinality(Below[r]) = k - 1) => s[k] \in S /\ Cardinality(Below[s[k]]) = k - 1

LEMMA OrderedSequence ==
  ASSUME NEW S, IsFiniteSet(S), NEW Below, StrictOrder(S, Below), NEW s, Placed(s, S, Below)
  PROVE  /\ Cardinality(S) \in Nat /\ s \in Seq(S) /\ Len(s) = Cardinality(S) /\ DOMAIN s = 1 .. Cardinality(S)
         /\ \A r \in S : \E k \in DOMAIN s : s[k] = r
         /\ \A i, j \in DOMAIN s : s[i] \in Below[s[j]] <=> i < j
         /\ \A i, j \in DOMAIN s : s[i] = s[j] => i = j
<1> DEFINE N == Cardinality(S)
<1>1. N \in Nat /\ DOMAIN s = 1 .. N
  BY PlacesBelow DEF Placed
<1>2. ASSUME NEW k \in 1 .. N PROVE s[k] \in S /\ Cardinality(Below[s[k]]) = k - 1
  BY PlacesBelow DEF Placed
<1>3. s \in Seq(S) /\ Len(s) = N
  <2>1. s \in [1 .. N -> S]
    BY <1>2 DEF Placed
  <2> HIDE DEF N
  <2> QED BY <1>1, <2>1
<1>4. \A i, j \in 1 .. N : s[i] = s[j] => i = j
  <2> SUFFICES ASSUME NEW i \in 1 .. N, NEW j \in 1 .. N, s[i] = s[j] PROVE i = j
    OBVIOUS
  <2>1. i - 1 = j - 1
    BY <1>2
  <2> QED BY <2>1
<1>5. ASSUME NEW i \in 1 .. N, NEW j \in 1 .. N PROVE s[i] \in Below[s[j]] <=> i < j
  <2>1. /\ s[i] \in S /\ Cardinality(Below[s[i]]) = i - 1
        /\ s[j] \in S /\ Cardinality(Below[s[j]]) = j - 1
    BY <1>2
  <2>2. s[i] \in Below[s[j]] => i < j
    <3>1. s[i] \in Below[s[j]] => i - 1 < j - 1
      BY <2>1, PlacesBelow
    <3> QED BY <3>1
  <2>3. s[j] \in Below[s[i]] => j < i
    <3>1. s[j] \in Below[s[i]] => j - 1 < i - 1
      BY <2>1, PlacesBelow
    <3> QED BY <3>1
  <2>4. i # j => s[i] \in Below[s[j]] \/ s[j] \in Below[s[i]]
    BY <1>4, <2>1 DEF StrictOrder
  <2> QED BY <2>2, <2>3, <2>4
<1>6. ASSUME NEW r \in S PROVE \E k \in 1 .. N : s[k] = r
  <2> DEFINE k == Cardinality(Below[r]) + 1
  <2>1. Cardinality(Below[r]) \in 0 .. N - 1
    BY PlacesBelow
  <2>2. k \in 1 .. N /\ Cardinality(Below[r]) = k - 1
    BY <1>1, <2>1
  <2>3. s[k] \in S /\ Cardinality(Below[s[k]]) = Cardinality(Below[r])
    BY <1>2, <2>2
  <2>4. s[k] = r
    <3>1. ~(s[k] \in Below[r]) /\ ~(r \in Below[s[k]])
      BY <2>1, <2>3, PlacesBelow
    <3> QED BY <2>3, <3>1 DEF StrictOrder
  <2> QED BY <2>2, <2>4
<1> QED BY <1>1, <1>3, <1>4, <1>5, <1>6

\* A set of places of a sequence, in order.
LEMMA PickedIs ==
  ASSUME NEW A, NEW s \in Seq(A), NEW I \in SUBSET (DOMAIN s)
  PROVE  /\ IsFiniteSet(I) /\ Cardinality(I) \in Nat
         /\ An!Picked(s, I) \in Seq(A) /\ Len(An!Picked(s, I)) = Cardinality(I)
         /\ \E o \in [1 .. Cardinality(I) -> I] :
              /\ \A k \in 1 .. Cardinality(I) : An!Picked(s, I)[k] = s[o[k]]
              /\ \A i \in I : \E k \in 1 .. Cardinality(I) : o[k] = i
              /\ \A j, k \in 1 .. Cardinality(I) : j < k <=> o[j] < o[k]
<1> DEFINE Below == [i \in I |-> {q \in I : q < i}]
           o == An!InOrder(I, <)
<1>1. DOMAIN s = 1 .. Len(s) /\ Len(s) \in Nat
  OBVIOUS
<1>2. IsFiniteSet(I) /\ Cardinality(I) \in Nat
  <2>1. IsFiniteSet(1 .. Len(s))
    BY <1>1, FS_Interval
  <2> QED BY <1>1, <2>1, FS_Subset, FS_CardinalityType
<1>3. StrictOrder(I, Below)
  <2>1. \A i \in I : i \in Int
    BY <1>1
  <2> QED BY <2>1 DEF StrictOrder
<1>4. Placed(o, I, Below)
  <2> DEFINE c(k) == CHOOSE i \in I : An!Cardinality({q \in I : q < i}) = k - 1
  <2>1. o = [k \in 1 .. Cardinality(I) |-> c(k)]
    BY SameSize DEF An!InOrder
  <2>2. \A i \in I : An!Cardinality({q \in I : q < i}) = Cardinality(Below[i])
    BY SameSize
  <2> HIDE DEF o, Below
  <2>3. ASSUME NEW k \in 1 .. Cardinality(I), \E i \in I : Cardinality(Below[i]) = k - 1
        PROVE  o[k] \in I /\ Cardinality(Below[o[k]]) = k - 1
    <3>1. o[k] = CHOOSE i \in I : An!Cardinality({q \in I : q < i}) = k - 1
      BY <2>1
    <3>2. \E i \in I : An!Cardinality({q \in I : q < i}) = k - 1
      BY <2>2, <2>3
    <3>3. o[k] \in I /\ An!Cardinality({q \in I : q < o[k]}) = k - 1
      BY <3>1, <3>2
    <3> QED BY <2>2, <3>3
  <2> HIDE DEF c
  <2>4. o = [k \in 1 .. Cardinality(I) |-> o[k]]
    BY <2>1
  <2> QED BY <2>3, <2>4 DEF Placed
<1>5. An!Picked(s, I) = [k \in DOMAIN o |-> s[o[k]]]
  BY DEF An!Picked
<1> HIDE DEF o
<1>6. /\ o \in Seq(I) /\ Len(o) = Cardinality(I) /\ DOMAIN o = 1 .. Cardinality(I)
      /\ \A r \in I : \E k \in DOMAIN o : o[k] = r
      /\ \A j, k \in DOMAIN o : o[j] \in Below[o[k]] <=> j < k
  BY <1>2, <1>3, <1>4, OrderedSequence
<1>7. o \in [1 .. Cardinality(I) -> I]
  BY <1>6
<1>8. \A j, k \in 1 .. Cardinality(I) : j < k <=> o[j] < o[k]
  BY <1>6, <1>7
<1>9. An!Picked(s, I) \in [1 .. Cardinality(I) -> A]
  <2>1. \A i \in I : s[i] \in A
    OBVIOUS
  <2> QED BY <1>5, <1>6, <1>7, <2>1
<1>10. An!Picked(s, I) \in Seq(A) /\ Len(An!Picked(s, I)) = Cardinality(I)
  BY <1>2, <1>9
<1> QED BY <1>2, <1>5, <1>6, <1>7, <1>8, <1>10

\* The beginning of a sequence.
LEMMA FirstIs ==
  ASSUME NEW A, NEW s \in Seq(A), NEW n \in Nat
  PROVE  /\ An!FirstOf(s, n) \in Seq(A) /\ Len(An!FirstOf(s, n)) = IF Len(s) < n THEN Len(s) ELSE n
         /\ \A k \in DOMAIN An!FirstOf(s, n) : k \in DOMAIN s /\ An!FirstOf(s, n)[k] = s[k]
<1>1. An!FirstOf(s, n) = SubSeq(s, 1, IF Len(s) < n THEN Len(s) ELSE n)
  BY DEF An!FirstOf
<1> QED BY <1>1

LEMMA IntegersInOrder ==
  ASSUME NEW S \in SUBSET Int
  PROVE  StrictOrder(S, [i \in S |-> {q \in S : q < i}])
BY DEF StrictOrder

DistinctIn(s) == \A i, j \in DOMAIN s : s[i][2] = s[j][2] => i = j

\* Each chunk where it appears first.
LEMMA ChunksOnce ==
  ASSUME NEW A, NEW s \in Seq(A)
  PROVE  An!DistinctChunks(s) \in Seq(A) /\ DistinctIn(An!DistinctChunks(s))
<1> DEFINE I == {i \in DOMAIN s : \A j \in 1..i - 1 : s[j][2] # s[i][2]}
           p == An!Picked(s, I)
           d == An!FirstOf(p, CandidateLimit)
<1>1. An!DistinctChunks(s) = d
  BY DEF An!DistinctChunks
<1>0. I \in SUBSET (DOMAIN s) /\ CandidateLimit \in Nat
  BY AnswerLimits
<1>7. \A i \in I : \A j \in 1..i - 1 : s[j][2] # s[i][2]
  OBVIOUS
<1> HIDE DEF I
<1>2. p \in Seq(A) /\ Len(p) = Cardinality(I)
  BY <1>0, PickedIs
<1>3. PICK o \in [1 .. Cardinality(I) -> I] :
         /\ \A k \in 1 .. Cardinality(I) : p[k] = s[o[k]]
         /\ \A j, k \in 1 .. Cardinality(I) : j < k <=> o[j] < o[k]
  <2>1. s \in Seq(A) /\ I \in SUBSET (DOMAIN s)
    BY <1>0
  <2> QED BY ONLY <2>1, PickedIs
<1> HIDE DEF p
<1>4. ASSUME NEW j \in DOMAIN p, NEW k \in DOMAIN p, j < k PROVE p[j][2] # p[k][2]
  <2>1. DOMAIN p = 1 .. Cardinality(I)
    BY <1>2
  <2>2. o[j] \in DOMAIN s /\ o[k] \in I /\ o[j] < o[k] /\ p[j] = s[o[j]] /\ p[k] = s[o[k]]
    BY <1>0, <1>3, <1>4, <2>1
  <2>3. o[j] \in 1 .. o[k] - 1
    <3>1. o[j] \in 1 .. Len(s) /\ o[k] \in 1 .. Len(s)
      BY <1>0, <2>2
    <3> QED BY <2>2, <3>1
  <2> QED BY <1>7, <2>2, <2>3
<1>5. DistinctIn(p)
  <2> SUFFICES ASSUME NEW j \in DOMAIN p, NEW k \in DOMAIN p, j # k PROVE p[j][2] # p[k][2]
    BY DEF DistinctIn
  <2>1. j < k \/ k < j
    BY <1>2
  <2> QED BY <1>4, <2>1
<1>6. d \in Seq(A) /\ \A k \in DOMAIN d : k \in DOMAIN p /\ d[k] = p[k]
  BY <1>0, <1>2, FirstIs
<1> QED BY <1>1, <1>5, <1>6 DEF DistinctIn, I

\* What is left of a list stays distinct.
Kept(s, R) == An!Picked(s, {i \in DOMAIN s : s[i] \in R})

LEMMA Filtered ==
  ASSUME NEW A, NEW s \in Seq(A), DistinctIn(s), NEW R
  PROVE  Kept(s, R) \in Seq(Range(Kept(s, R))) /\ Range(Kept(s, R)) \subseteq R /\ DistinctIn(Kept(s, R))
<1> DEFINE I == {i \in DOMAIN s : s[i] \in R}
           p == An!Picked(s, I)
<1>0. I \in SUBSET (DOMAIN s) /\ \A i \in I : s[i] \in R
  OBVIOUS
<1> HIDE DEF I
<1>1. p \in Seq(A) /\ Len(p) = Cardinality(I)
  BY <1>0, PickedIs
<1>2. PICK o \in [1 .. Cardinality(I) -> I] :
         /\ \A k \in 1 .. Cardinality(I) : p[k] = s[o[k]]
         /\ \A j, k \in 1 .. Cardinality(I) : j < k <=> o[j] < o[k]
  BY <1>0, PickedIs
<1> HIDE DEF p, I
<1>3. DOMAIN p = 1 .. Cardinality(I)
  BY <1>1
<1>4. \A k \in DOMAIN p : p[k] \in R
  BY <1>0, <1>2, <1>3
<1>5. DistinctIn(p)
  <2> SUFFICES ASSUME NEW j \in DOMAIN p, NEW k \in DOMAIN p, p[j][2] = p[k][2] PROVE j = k
    BY DEF DistinctIn
  <2>1. o[j] \in DOMAIN s /\ o[k] \in DOMAIN s /\ o[j] = o[k]
    BY <1>0, <1>2, <1>3 DEF DistinctIn
  <2>2. o[j] \in Int /\ ~(j < k) /\ ~(k < j)
    BY <1>0, <1>2, <1>3, <2>1
  <2> QED BY <1>1, <2>2
<1>6. p \in Seq(Range(p)) /\ Range(p) \subseteq R
  <2>1. p \in [1 .. Len(p) -> Range(p)] /\ Len(p) \in Nat
    BY <1>1 DEF Range
  <2> QED BY <1>4, <2>1 DEF Range
<1> QED BY <1>5, <1>6 DEF p, I, Kept

\* The first pieces of each file, up to the limit of all: a candidate is left out only
\* for one of the two limits.
OfFile(e, f) == {i \in DOMAIN e : e[i][1] = f}

LEMMA EvidenceIs ==
  ASSUME NEW A, NEW s \in Seq(A), DistinctIn(s)
  PROVE  LET e == An!Evidence(s)
         IN /\ e \in Seq(A) /\ Range(e) \subseteq Range(s) /\ DistinctIn(e) /\ Len(e) <= TopK
            /\ \A f : Cardinality(OfFile(e, f)) <= PerFile
            /\ \A r \in Range(s) \ Range(e) : Len(e) = TopK \/ Cardinality(OfFile(e, r[1])) = PerFile
<1> DEFINE Before(i) == {j \in 1..i - 1 : s[j][1] = s[i][1]}
           I == {i \in DOMAIN s : Cardinality(Before(i)) < PerFile}
           p == An!Picked(s, I)
           e == An!FirstOf(p, TopK)
           Of(f) == {i \in DOMAIN e : e[i][1] = f}
<1>0. PerFile \in Nat /\ TopK \in Nat /\ DOMAIN s = 1 .. Len(s) /\ Len(s) \in Nat
  BY AnswerLimits
<1>1. An!Evidence(s) = e
  <2>1. I = {i \in DOMAIN s : An!Cardinality({j \in 1..i - 1 : s[j][1] = s[i][1]}) < PerFile}
    BY SameSize
  <2> QED BY <2>1 DEF An!Evidence
<1>13. /\ I \in SUBSET (DOMAIN s) /\ \A i \in I : Cardinality(Before(i)) < PerFile
       /\ \A i \in DOMAIN s : i \notin I => ~(Cardinality(Before(i)) < PerFile)
  OBVIOUS
<1> HIDE DEF I
<1>2. p \in Seq(A) /\ Len(p) = Cardinality(I) /\ Cardinality(I) \in Nat
  BY <1>13, PickedIs
<1>3. PICK o \in [1 .. Cardinality(I) -> I] :
         /\ \A k \in 1 .. Cardinality(I) : p[k] = s[o[k]]
         /\ \A i \in I : \E k \in 1 .. Cardinality(I) : o[k] = i
         /\ \A j, k \in 1 .. Cardinality(I) : j < k <=> o[j] < o[k]
  BY <1>13, PickedIs
<1> HIDE DEF p
<1>4. /\ e \in Seq(A) /\ Len(e) = IF Cardinality(I) < TopK THEN Cardinality(I) ELSE TopK
      /\ \A k \in DOMAIN e : k \in DOMAIN p /\ e[k] = p[k]
  BY <1>0, <1>2, FirstIs
<1> HIDE DEF e
<1>5. \A k \in DOMAIN e : k \in 1 .. Cardinality(I) /\ o[k] \in I /\ o[k] \in DOMAIN s /\ e[k] = s[o[k]]
  BY <1>2, <1>3, <1>4, <1>13
<1>6. Range(e) \subseteq Range(s) /\ Len(e) <= TopK
  BY <1>0, <1>2, <1>4, <1>5 DEF Range
<1>7. \A j, k \in DOMAIN e : o[j] = o[k] => j = k
  <2> SUFFICES ASSUME NEW j \in DOMAIN e, NEW k \in DOMAIN e, o[j] = o[k] PROVE j = k
    OBVIOUS
  <2>1. o[j] \in Int /\ ~(j < k) /\ ~(k < j)
    BY <1>0, <1>3, <1>5
  <2> QED BY <1>4, <2>1
<1>8. DistinctIn(e)
  <2> SUFFICES ASSUME NEW j \in DOMAIN e, NEW k \in DOMAIN e, e[j][2] = e[k][2] PROVE j = k
    BY DEF DistinctIn
  <2>1. o[j] = o[k]
    BY <1>5 DEF DistinctIn
  <2> QED BY <1>7, <2>1
<1>9. \A f : IsFiniteSet(Of(f)) /\ Of(f) \in SUBSET Int
  <2>1. DOMAIN e \in SUBSET Int /\ IsFiniteSet(DOMAIN e)
    BY <1>4, FS_Interval
  <2> TAKE f
  <2> QED BY <2>1, FS_Subset
<1>10. \A i \in DOMAIN s : IsFiniteSet(Before(i)) /\ Cardinality(Before(i)) \in Nat
  <2> TAKE i \in DOMAIN s
  <2>1. IsFiniteSet(1 .. i - 1)
    BY <1>0, FS_Interval
  <2> QED BY <2>1, FS_Subset, FS_CardinalityType
<1>11. ASSUME NEW f PROVE Cardinality(Of(f)) \in Nat /\ Cardinality(Of(f)) <= PerFile
  <2> DEFINE S == Of(f)
             Below == [i \in S |-> {q \in S : q < i}]
  <2>1. IsFiniteSet(S) /\ Cardinality(S) \in Nat
    BY <1>9, FS_CardinalityType
  <2>2. CASE Cardinality(S) = 0
    BY <1>0, <2>2
  <2>3. CASE Cardinality(S) # 0
    <3>1. StrictOrder(S, Below)
      BY <1>9, IntegersInOrder
    <3>2. \A k \in 1 .. Cardinality(S) : \E r \in S : Cardinality(Below[r]) = k - 1
      <4> HIDE DEF S, Below
      <4> QED BY <2>1, <3>1, PlacesBelow
    <3>3. PICK r \in S : Cardinality(Below[r]) = Cardinality(S) - 1
      <4>1. Cardinality(S) \in 1 .. Cardinality(S)
        BY <2>1, <2>3
      <4> QED BY <3>2, <4>1
    <3> DEFINE g == [q \in Below[r] |-> o[q]]
    <3>4. o[r] \in I /\ o[r] \in DOMAIN s /\ r \in 1 .. Cardinality(I) /\ s[o[r]][1] = f
      BY <1>5
    <3>5. g \in Injection(Below[r], Before(o[r]))
      <4>1. \A q \in Below[r] : q \in DOMAIN e /\ q < r /\ o[q] \in DOMAIN s /\ s[o[q]][1] = f /\ q \in 1 .. Cardinality(I)
        BY <1>5
      <4>2. \A q \in Below[r] : o[q] < o[r]
        BY <1>3, <3>4, <4>1
      <4>3. \A q \in Below[r] : o[q] \in Before(o[r])
        BY <1>0, <3>4, <4>1, <4>2
      <4>4. g \in [Below[r] -> Before(o[r])] /\ \A q, t \in Below[r] : g[q] = g[t] => q = t
        BY <1>7, <4>1, <4>3
      <4> HIDE DEF g, Below, Before
      <4> QED BY <4>4 DEF Injection, IsInjective
    <3>6. Cardinality(Below[r]) <= Cardinality(Before(o[r]))
      <4> HIDE DEF g, Below, Before
      <4> QED BY <1>10, <3>4, <3>5, FS_Injection DEF Before
    <3>7. Cardinality(Before(o[r])) < PerFile
      BY <1>13, <3>4
    <3>8. Cardinality(Before(o[r])) \in Nat
      BY <1>10, <3>4
    <3>9. Cardinality(S) <= PerFile
      <4> HIDE DEF S, Below, Before
      <4> QED BY <1>0, <2>1, <3>3, <3>6, <3>7, <3>8
    <3> QED BY <2>1, <3>9
  <2> QED BY <2>1, <2>2, <2>3
<1>12. ASSUME NEW x \in Range(s) \ Range(e), Len(e) # TopK PROVE Cardinality(Of(x[1])) = PerFile
  <2> DEFINE f == x[1]
             J == {j \in DOMAIN s : s[j][1] = f}
             Below == [i \in J |-> {q \in J : q < i}]
  <2>1. PICK i \in DOMAIN s : s[i] = x
    BY DEF Range
  <2>2. Len(e) = Cardinality(I) /\ DOMAIN e = 1 .. Cardinality(I)
    BY <1>0, <1>2, <1>4, <1>12
  <2>3. i \notin I
    <3> SUFFICES ASSUME i \in I PROVE FALSE
      OBVIOUS
    <3>1. PICK k \in 1 .. Cardinality(I) : o[k] = i
      BY <1>3
    <3>2. k \in DOMAIN e /\ e[k] = x
      BY <1>5, <2>1, <2>2, <3>1
    <3> QED BY <1>12, <3>2 DEF Range
  <2>4. IsFiniteSet(J) /\ J \in SUBSET Int /\ Cardinality(J) \in Nat
    <3>1. IsFiniteSet(DOMAIN s)
      BY <1>0, FS_Interval
    <3> QED BY <1>0, <3>1, FS_Subset, FS_CardinalityType
  <2>5. StrictOrder(J, Below)
    BY <2>4, IntegersInOrder
  <2>6. \A j \in J : Below[j] = Before(j)
    BY <1>0
  <2>7. i \in J /\ PerFile <= Cardinality(Below[i])
    <3>1. i \in J /\ ~(Cardinality(Before(i)) < PerFile)
      BY <1>13, <2>1, <2>3
    <3>2. Cardinality(Before(i)) \in Nat /\ Below[i] = Before(i)
      BY <1>10, <2>6, <3>1
    <3> HIDE DEF J, Below, Before
    <3> QED BY <1>0, <3>1, <3>2
  <2>8. /\ \A k \in 1 .. Cardinality(J) : \E r \in J : Cardinality(Below[r]) = k - 1
        /\ Cardinality(Below[i]) \in 0 .. Cardinality(J) - 1
    <3> HIDE DEF J, Below
    <3> QED BY <2>4, <2>5, <2>7, PlacesBelow
  <2> DEFINE S == Of(f)
             Is(k, m) == Cardinality(Below[o[m]]) = k - 1
             g == [k \in 1 .. PerFile |-> CHOOSE m \in S : Is(k, m)]
  <2>9. ASSUME NEW k \in 1 .. PerFile PROVE \E m \in S : Is(k, m)
    <3>1. k \in 1 .. Cardinality(J)
      BY <1>0, <2>4, <2>7, <2>8
    <3>2. PICK j \in J : Cardinality(Below[j]) = k - 1
      BY <2>8, <3>1
    <3>3. j \in I
      BY <1>0, <1>13, <2>6, <3>2
    <3>4. PICK m \in 1 .. Cardinality(I) : o[m] = j
      BY <1>3, <3>3
    <3>5. m \in DOMAIN e /\ e[m] = s[j]
      BY <1>5, <2>2, <3>4
    <3> QED BY <3>2, <3>4, <3>5
  <2>10. g \in Injection(1 .. PerFile, S)
    <3> HIDE DEF Is, S
    <3>1. \A k \in 1 .. PerFile : g[k] \in S /\ Is(k, g[k])
      BY <2>9
    <3>2. g \in [1 .. PerFile -> S]
      BY <3>1
    <3> HIDE DEF g
    <3>3. \A k, m \in 1 .. PerFile : g[k] = g[m] => k = m
      <4> SUFFICES ASSUME NEW k \in 1 .. PerFile, NEW m \in 1 .. PerFile, g[k] = g[m] PROVE k = m
        OBVIOUS
      <4>1. k - 1 = m - 1
        BY <3>1 DEF Is
      <4> QED BY <1>0, <4>1
    <3> QED BY <3>2, <3>3 DEF Injection, IsInjective
  <2>11. Cardinality(1 .. PerFile) = PerFile
    BY <1>0, FS_Interval
  <2>12. PerFile <= Cardinality(S)
    <3>1. IsFiniteSet(S)
      BY <1>9
    <3> HIDE DEF g, S
    <3> QED BY <2>10, <2>11, <3>1, FS_Injection
  <2>13. Cardinality(S) \in Nat /\ Cardinality(S) <= PerFile
    BY <1>11
  <2> QED BY <1>0, <2>12, <2>13
<1> QED BY <1>1, <1>4, <1>6, <1>8, <1>11, <1>12 DEF e, I, OfFile

-----------------------------------------------------------------------------
(* Answering: lists and their fusion *)

Pairs == An!Owned \X An!Chunks
TextModes == {"fulltext", "semantic"}
ListOK(s) == s \in Seq(Pairs) /\ Len(s) <= 12

LEMMA PairsFinite == IsFiniteSet(Pairs) /\ Cardinality(Pairs) = 12
<1>1. \A n \in Nat : IsFiniteSet(1..n) /\ Cardinality(1..n) = n
  BY FS_Interval
<1>2. IsFiniteSet(1..3) /\ Cardinality(1..3) = 3 /\ IsFiniteSet(1..4) /\ Cardinality(1..4) = 4
  BY <1>1
<1>3. IsFiniteSet((1..3) \X (1..4)) /\ Cardinality((1..3) \X (1..4)) = Cardinality(1..3) * Cardinality(1..4)
  BY ONLY <1>2, FS_Product
<1> QED BY <1>2, <1>3 DEF Pairs, An!Owned, An!Chunks

LEMMA FewPairs ==
  ASSUME NEW S \in SUBSET Pairs
  PROVE  IsFiniteSet(S) /\ Cardinality(S) \in Nat /\ Cardinality(S) <= 12
BY PairsFinite, FS_Subset, FS_CardinalityType

\* The rows of a query in the order of their score are those rows.
LEMMA RankedIs ==
  ASSUME NEW rows \in SUBSET Pairs, NEW C, NEW score \in [C -> 1..2], \A r \in rows : r[2] \in C
  PROVE  ListOK(An!Ranked(rows, score)) /\ Range(An!Ranked(rows, score)) \subseteq rows
<1> DEFINE Over(a, b) == \/ score[a[2]] > score[b[2]]
                         \/ score[a[2]] = score[b[2]] /\ (a[1] < b[1] \/ (a[1] = b[1] /\ a[2] < b[2]))
           Below == [b \in rows |-> {a \in rows : Over(a, b)}]
           s == An!Ranked(rows, score)
           c(k) == CHOOSE b \in rows : An!Cardinality({a \in rows : Over(a, b)}) = k - 1
<1>1. IsFiniteSet(rows) /\ Cardinality(rows) \in Nat /\ Cardinality(rows) <= 12
  BY FewPairs
<1>2. s = [k \in 1 .. Cardinality(rows) |-> c(k)]
  BY SameSize DEF An!Ranked, An!InOrder
<1>3. StrictOrder(rows, Below)
  <2>1. \A r \in rows : score[r[2]] \in Int /\ r[1] \in Int /\ r[2] \in Int /\ r = <<r[1], r[2]>>
    BY DEF Pairs, An!Owned, An!Chunks
  <2>2. \A a, b \in rows : a = b \/ Over(a, b) \/ Over(b, a)
    BY <2>1
  <2>3. \A a, b, d \in rows : Over(a, b) /\ Over(b, d) => Over(a, d)
    BY <2>1
  <2>4. \A a \in rows : ~Over(a, a)
    BY <2>1
  <2> HIDE DEF Over
  <2> QED BY <2>2, <2>3, <2>4 DEF StrictOrder
<1>4. \A b \in rows : An!Cardinality({a \in rows : Over(a, b)}) = Cardinality(Below[b])
  BY SameSize
<1> HIDE DEF s, Over
<1>5. ASSUME NEW k \in 1 .. Cardinality(rows), \E r \in rows : Cardinality(Below[r]) = k - 1
      PROVE  c(k) \in rows /\ Cardinality(Below[c(k)]) = k - 1
  <2>1. \E r \in rows : An!Cardinality({a \in rows : Over(a, r)}) = k - 1
    BY <1>4, <1>5
  <2>2. c(k) \in rows /\ An!Cardinality({a \in rows : Over(a, c(k))}) = k - 1
    BY <2>1
  <2> HIDE DEF c
  <2> QED BY <1>4, <2>2
<1> HIDE DEF c, Below
<1>6. Placed(s, rows, Below)
  BY <1>2, <1>5 DEF Placed
<1>7. s \in Seq(rows) /\ Len(s) = Cardinality(rows)
  BY <1>1, <1>3, <1>6, OrderedSequence
<1>8. s \in Seq(Pairs) /\ Range(s) \subseteq rows
  <2>1. s \in [1 .. Len(s) -> rows] /\ Len(s) \in Nat
    BY <1>7
  <2> QED BY <2>1 DEF Range
<1> QED BY <1>1, <1>7, <1>8 DEF ListOK, s

\* A piece of such a list.
LEMMA ListCut ==
  ASSUME NEW s \in Seq(Pairs), Len(s) <= 12, NEW n \in Nat
  PROVE  ListOK(An!FirstOf(s, n)) /\ Range(An!FirstOf(s, n)) \subseteq Range(s)
BY FirstIs DEF ListOK, Range

\* A smaller rank weighs more.
LEMMA ShareFalls ==
  LET K == 61 * 62 * 63 * 64
  IN /\ \A i \in 1..12 : K \div (60 + i) \in Nat /\ K \div (60 + i) > 0
     /\ \A i, j \in 1..12 : i < j => K \div (60 + i) > K \div (60 + j)
<1> DEFINE K == 61 * 62 * 63 * 64
           d == [i \in 1..12 |-> K \div (60 + i)]
<1>1. /\ d[1] = 249984 /\ d[2] = 245952 /\ d[3] = 242048 /\ d[4] = 238266 /\ d[5] = 234600 /\ d[6] = 231045
      /\ d[7] = 227597 /\ d[8] = 224250 /\ d[9] = 221000 /\ d[10] = 217843 /\ d[11] = 214774 /\ d[12] = 211792
  OBVIOUS
<1>2. \A i \in 1..12 : d[i] = K \div (60 + i)
  OBVIOUS
<1> HIDE DEF d, K
<1>3. \A i, j \in 1..12 : i < j => d[i] > d[j]
  BY <1>1
<1>4. \A i \in 1..12 : d[i] \in Nat /\ d[i] > 0
  BY <1>1
<1> QED BY <1>2, <1>3, <1>4 DEF K

Above(s, a, b) == a \in Range(s) /\ (b \notin Range(s) \/ An!RankOf(s, a) < An!RankOf(s, b))

LEMMA RankIs ==
  ASSUME NEW s, ListOK(s), NEW a \in Range(s)
  PROVE  An!RankOf(s, a) \in DOMAIN s /\ s[An!RankOf(s, a)] = a /\ An!RankOf(s, a) \in 1..12
<1>1. \E i \in DOMAIN s : s[i] = a
  BY DEF Range
<1>2. An!RankOf(s, a) = CHOOSE i \in DOMAIN s : s[i] = a
  BY SameRange DEF An!RankOf
<1>3. An!RankOf(s, a) \in DOMAIN s /\ s[An!RankOf(s, a)] = a
  BY <1>1, <1>2
<1> QED BY <1>3 DEF ListOK

LEMMA ShareRises ==
  ASSUME NEW s, ListOK(s), NEW a, NEW b
  PROVE  /\ An!Share(s, a) \in Nat
         /\ Above(s, a, b) => An!Share(s, a) > An!Share(s, b)
         /\ a \notin Range(s) /\ b \notin Range(s) => An!Share(s, a) = An!Share(s, b)
<1>1. \A r : An!Share(s, r) = IF r \in Range(s) THEN (61 * 62 * 63 * 64) \div (60 + An!RankOf(s, r)) ELSE 0
  BY SameRange DEF An!Share
<1>2. \A r \in Range(s) : An!RankOf(s, r) \in 1..12
  BY RankIs
<1>3. ASSUME NEW r PROVE An!Share(s, r) \in Nat /\ (r \in Range(s) => An!Share(s, r) > 0)
  BY <1>1, <1>2, ShareFalls
<1>4. CASE a \in Range(s) /\ b \in Range(s) /\ An!RankOf(s, a) < An!RankOf(s, b)
  BY <1>1, <1>2, <1>3, <1>4, ShareFalls
<1>5. CASE a \in Range(s) /\ b \notin Range(s)
  BY <1>1, <1>3, <1>5
<1>6. CASE a \notin Range(s) /\ b \notin Range(s)
  BY <1>1, <1>3, <1>6 DEF Above
<1> QED BY <1>3, <1>4, <1>5, <1>6 DEF Above

\* A candidate that both lists rank above another one is fused above it.
NotBelow(s, a, b) == Above(s, a, b) \/ (a \notin Range(s) /\ b \notin Range(s))

LEMMA FusedFair ==
  ASSUME NEW text, ListOK(text), NEW vector, ListOK(vector), NEW flip, NEW n \in Nat
  PROVE  LET s == An!ReciprocalRankFusion(text, vector, flip, n)
         IN /\ s \in Seq(Pairs)
            /\ \A a, b \in Range(text) \cup Range(vector) :
                 NotBelow(text, a, b) /\ NotBelow(vector, a, b) => b \notin Range(s) \/ Above(s, a, b)
<1> DEFINE D == An!Range(text) \cup An!Range(vector)
           score == [r \in D |-> An!FusedScore(text, vector, r)]
           Over(x, y) ==
             \/ score[x] > score[y]
             \/ score[x] = score[y] /\ x[2] < y[2]
             \/ score[x] = score[y] /\ x[2] = y[2] /\ (IF x[2] \in flip THEN x[1] > y[1] ELSE x[1] < y[1])
           Below == [y \in D |-> {x \in D : Over(x, y)}]
           c(k) == CHOOSE y \in D : An!Cardinality({x \in D : Over(x, y)}) = k - 1
           f == [k \in 1 .. An!Cardinality(D) |-> c(k)]
           s == An!ReciprocalRankFusion(text, vector, flip, n)
<1>0. D = Range(text) \cup Range(vector)
  BY SameRange
<1>1. D \in SUBSET Pairs /\ IsFiniteSet(D)
  BY <1>0, FewPairs DEF ListOK, Range
<1>2. s = An!FirstOf(f, n)
  <2>1. s = An!FirstOf(An!InOrder(DOMAIN score, Over), n)
    BY DEF An!ReciprocalRankFusion
  <2>2. DOMAIN score = D
    OBVIOUS
  <2>3. An!InOrder(D, Over) = f
    BY DEF An!InOrder
  <2> QED BY <2>1, <2>2, <2>3
<1>3. \A r \in D : score[r] = An!Share(text, r) + An!Share(vector, r) /\ score[r] \in Int
  BY ShareRises DEF An!FusedScore
<1>4. ASSUME NEW a \in D, NEW b \in D, NotBelow(text, a, b), NotBelow(vector, a, b)
      PROVE  score[a] > score[b]
  <2>1. An!Share(text, a) \in Nat /\ An!Share(text, b) \in Nat /\ An!Share(vector, a) \in Nat /\ An!Share(vector, b) \in Nat
    BY ShareRises
  <2>2. An!Share(text, a) > An!Share(text, b) \/ (An!Share(text, a) = An!Share(text, b) /\ a \notin Range(text))
    BY <1>4, ShareRises DEF NotBelow
  <2>3. An!Share(vector, a) > An!Share(vector, b) \/ (An!Share(vector, a) = An!Share(vector, b) /\ a \notin Range(vector))
    BY <1>4, ShareRises DEF NotBelow
  <2>4. score[a] = An!Share(text, a) + An!Share(vector, a) /\ score[b] = An!Share(text, b) + An!Share(vector, b)
    BY <1>0, <1>3
  <2> QED BY <1>0, <2>1, <2>2, <2>3, <2>4
<1> HIDE DEF score
<1>5. StrictOrder(D, Below)
  <2>1. \A r \in D : r[1] \in Int /\ r[2] \in Int /\ r = <<r[1], r[2]>>
    BY <1>1 DEF Pairs, An!Owned, An!Chunks
  <2> HIDE DEF D
  <2>2. \A x, y \in D : x = y \/ Over(x, y) \/ Over(y, x)
    BY <1>3, <2>1
  <2>3. \A x, y, z \in D : Over(x, y) /\ Over(y, z) => Over(x, z)
    BY <1>3, <2>1
  <2>4. \A x \in D : ~Over(x, x)
    BY <1>3, <2>1
  <2> HIDE DEF Over
  <2> QED BY <2>2, <2>3, <2>4 DEF StrictOrder
<1>6. \A a, b \in D : score[a] > score[b] => a \in Below[b]
  OBVIOUS
<1>7. \A y \in D : An!Cardinality({x \in D : Over(x, y)}) = Cardinality(Below[y])
  BY SameSize
<1> HIDE DEF s, Over, D
<1>8. ASSUME NEW k \in 1 .. Cardinality(D), \E r \in D : Cardinality(Below[r]) = k - 1
      PROVE  c(k) \in D /\ Cardinality(Below[c(k)]) = k - 1
  <2>1. \E r \in D : An!Cardinality({x \in D : Over(x, r)}) = k - 1
    BY <1>7, <1>8
  <2>2. c(k) \in D /\ An!Cardinality({x \in D : Over(x, c(k))}) = k - 1
    BY <2>1
  <2> HIDE DEF c
  <2> QED BY <1>7, <2>2
<1> HIDE DEF c, Below
<1>9. Placed(f, D, Below)
  BY <1>8, SameSize DEF Placed
<1> HIDE DEF f
<1>10. /\ f \in Seq(D) /\ \A r \in D : \E k \in DOMAIN f : f[k] = r
       /\ \A i, j \in DOMAIN f : f[i] \in Below[f[j]] <=> i < j
       /\ \A i, j \in DOMAIN f : f[i] = f[j] => i = j
  BY <1>1, <1>5, <1>9, OrderedSequence
<1>11. /\ s \in Seq(D) /\ Len(s) = IF Len(f) < n THEN Len(f) ELSE n
       /\ \A k \in DOMAIN s : k \in DOMAIN f /\ s[k] = f[k]
  BY <1>2, <1>10, FirstIs
<1>12. ASSUME NEW a \in D, NEW b \in D, a \in Below[b], b \in Range(s) PROVE Above(s, a, b)
  <2>1. PICK k \in DOMAIN s : s[k] = b
    BY <1>12 DEF Range
  <2>2. PICK j \in DOMAIN f : f[j] = a
    BY <1>10
  <2>3. j < k
    BY <1>12, <1>10, <1>11, <2>1, <2>2
  <2>4. j \in DOMAIN s /\ s[j] = a
    BY <1>10, <1>11, <2>1, <2>2, <2>3
  <2>5. An!RankOf(s, a) = CHOOSE i \in DOMAIN s : s[i] = a
    BY <2>4, SameRange DEF An!RankOf, Range
  <2>6. An!RankOf(s, b) = CHOOSE i \in DOMAIN s : s[i] = b
    BY <2>1, SameRange DEF An!RankOf, Range
  <2>7. An!RankOf(s, a) = j
    BY <1>10, <1>11, <2>4, <2>5
  <2>8. An!RankOf(s, b) = k
    BY <1>10, <1>11, <2>1, <2>6
  <2> QED BY <2>3, <2>4, <2>7, <2>8 DEF Above, Range
<1>13. s \in Seq(Pairs)
  BY <1>1, <1>11
<1> QED BY <1>0, <1>4, <1>6, <1>12, <1>13 DEF s

LEMMA ReadablePairs == An!Readable \in SUBSET Pairs
<1>1. \A w : \A r \in An!ReadableIn(w) : r \in An!Owned \X An!Chunks
  BY DEF An!ReadableIn
<1> QED BY <1>1 DEF An!Readable, Pairs

\* What PostgreSQL answers is of the owner's readable rows.
LEMMA DatabaseIs ==
  ASSUME NEW mode \in TextModes, NEW answer \in An!DatabaseAnswers(mode)
  PROVE  ListOK(answer) /\ Range(answer) \subseteq An!Readable
<1>1. An!Readable \in SUBSET Pairs
  BY ReadablePairs
<1>2. CASE mode = "fulltext"
  <2> DEFINE T == {r[2] : r \in An!Readable}
             Of(S) == {An!Ranked({r \in An!Readable : r[2] \in S}, score) : score \in An!Scores(S)}
  <2>0. answer \in UNION {Of(S) : S \in SUBSET T}
    BY <1>2 DEF An!DatabaseAnswers
  <2> HIDE DEF T, Of
  <2>3. PICK S \in SUBSET T : answer \in Of(S)
    BY <2>0
  <2>1. PICK score \in An!Scores(S) : answer = An!Ranked({r \in An!Readable : r[2] \in S}, score)
    BY <2>3 DEF Of
  <2>2. {r \in An!Readable : r[2] \in S} \in SUBSET Pairs /\ score \in [S -> 1..2]
    BY <1>1 DEF An!Scores
  <2> QED BY <2>1, <2>2, RankedIs
<1>3. CASE mode = "semantic"
  <2>1. PICK documents \in SUBSET {1, 2} : answer \in An!SetToSeqs({r \in An!Readable : An!ChunkObject[r[2]] \in documents})
    BY <1>3 DEF An!DatabaseAnswers
  <2> DEFINE rows == {r \in An!Readable : An!ChunkObject[r[2]] \in documents}
  <2>2. rows \in SUBSET Pairs /\ rows \subseteq An!Readable
    BY <1>1
  <2> HIDE DEF rows
  <2>3. Cardinality(rows) \in Nat /\ Cardinality(rows) <= 12
    BY <2>2, FewPairs
  <2>4. answer \in [1..Cardinality(rows) -> rows]
    BY <2>1, SameSize DEF An!SetToSeqs, rows
  <2>5. answer \in Seq(rows) /\ Len(answer) = Cardinality(rows) /\ Range(answer) \subseteq rows
    BY <2>3, <2>4 DEF Range
  <2> QED BY <2>2, <2>3, <2>5 DEF ListOK
<1> QED BY <1>2, <1>3 DEF TextModes

-----------------------------------------------------------------------------
(* Answering: the invariant *)

Worlds == [live : SUBSET An!Files, active : [1..2 -> 1..2], ready : SUBSET {1, 2}, changes : Nat]
Demands == [goal : An!Modes \cup {"hybrid", "ask"}, backend : {"postgres", "shadow", "es_qdrant"}, fallback : BOOLEAN]
Routes == {"none", "external", "database", "shadow", "done", "failed"}

AnswerTypeOK ==
  /\ world \in Worlds /\ request \in Demands
  /\ path \in [An!Modes -> Routes] /\ list = [mode \in An!Modes |-> list[mode]]

\* A path fails only with the database, or where the external index has no fallback.
RoutesOK ==
  \A mode \in An!Modes :
    /\ path[mode] = "external" => request.backend = "es_qdrant"
    /\ path[mode] = "failed" => "database" \in outages \/ (request.backend = "es_qdrant" /\ ~request.fallback)

RecallOK ==
  /\ An!Readable \subseteq authorised
  /\ \A mode \in TextModes : ListOK(list[mode]) /\ Range(list[mode]) \subseteq authorised

\* Nothing is fused before both paths are back, and the lists stay until it is loaded.
FusedOK == (pc \notin {"load", "done"} => fused = <<>>) /\ An!FusionFair

\* The candidates were readable when their text was loaded, each chunk once, and
\* nothing else is made evidence.
ChosenOK ==
  /\ pc \in {"load", "rerank", "answer"} => candidates \in Seq(Range(candidates))
  /\ pc \in {"rerank", "answer"} => Range(candidates) \subseteq current /\ DistinctIn(candidates)
  /\ pc # "done" => evidence = <<>> /\ cited = {}
  /\ An!EvidenceFair

AnswerOK == AnswerTypeOK /\ RoutesOK /\ RecallOK /\ FusedOK /\ ChosenOK
AnswerInv == part = "answering" => AnswerOK

LEMMA NoEvidence ==
  ASSUME evidence = <<>>, cited = {}
  PROVE  An!EvidenceFair
<1>1. Range(<<>>) = {} /\ DOMAIN <<>> = {} /\ Len(<<>>) = 0
  BY DEF Range
<1>2. An!Range(evidence) = {} /\ TopK \in Nat /\ PerFile \in Nat
  BY <1>1, SameRange, AnswerLimits
<1>3. \A f : {i \in DOMAIN evidence : evidence[i][1] = f} = {}
  BY <1>1
<1>4. An!Cardinality({}) = 0
  BY SameSize, FS_EmptySet
<1> QED BY <1>1, <1>2, <1>3, <1>4 DEF An!EvidenceFair

LEMMA NoEvidenceNext ==
  ASSUME evidence' = <<>>, cited' = {}
  PROVE  An!EvidenceFair'
<1>1. Range(<<>>) = {} /\ DOMAIN <<>> = {} /\ Len(<<>>) = 0
  BY DEF Range
<1>2. An!Range(evidence') = {} /\ TopK \in Nat /\ PerFile \in Nat
  BY <1>1, SameRange, AnswerLimits
<1>3. \A f : {i \in DOMAIN evidence' : evidence'[i][1] = f} = {}
  BY <1>1
<1>4. An!Cardinality({}) = 0
  BY SameSize, FS_EmptySet
<1> QED BY <1>1, <1>2, <1>3, <1>4 DEF An!EvidenceFair

LEMMA AnswerInit == An!Init => AnswerOK
<1> SUFFICES ASSUME An!Init PROVE AnswerOK
  OBVIOUS
<1>1. AnswerTypeOK
  BY DEF An!Init, AnswerTypeOK, Worlds, Demands, Routes, An!Files
<1>2. RoutesOK
  BY DEF An!Init, RoutesOK
<1>3. RecallOK
  <2>1. <<>> \in Seq(Pairs) /\ Len(<<>>) = 0 /\ Range(<<>>) = {}
    BY DEF Range
  <2> QED BY <2>1 DEF An!Init, RecallOK, ListOK, TextModes, An!Modes
<1>4. FusedOK
  BY DEF An!Init, FusedOK, An!FusionFair
<1>5. ChosenOK
  BY NoEvidence DEF An!Init, ChosenOK
<1> QED BY <1>1, <1>2, <1>3, <1>4, <1>5 DEF AnswerOK

LEMMA ChangeStep ==
  ASSUME AnswerOK, NEW w \in Worlds, An!Change(w)
  PROVE  AnswerOK'
<1>1. world' = [w EXCEPT !.changes = @ + 1] /\ world' \in Worlds
  BY DEF An!Change, Worlds, AnswerOK, AnswerTypeOK
<1>2. An!Readable' = An!ReadableIn(w)
  <2>1. world'.live = w.live /\ world'.active = w.active /\ world'.ready = w.ready
    BY <1>1 DEF Worlds
  <2> QED BY <2>1 DEF An!Readable, An!ReadableIn
<1>3. AnswerTypeOK' /\ RoutesOK'
  BY <1>1 DEF AnswerOK, AnswerTypeOK, RoutesOK, An!Change
<1>4. RecallOK'
  BY <1>2 DEF AnswerOK, RecallOK, An!Change
<1>5. FusedOK'
  BY DEF AnswerOK, FusedOK, An!FusionFair, An!Change
<1>6. ChosenOK'
  BY NoEvidenceNext DEF AnswerOK, ChosenOK, An!Change
<1> QED BY <1>3, <1>4, <1>5, <1>6 DEF AnswerOK

\* A step that moves the request on to the recall, or ends it.
LEMMA EarlyStep ==
  ASSUME AnswerOK, UNCHANGED <<world, request, list, fused, candidates, evidence, cited, authorised, current>>,
         pc \in {"start", "validate", "embed"}, pc' \in {"validate", "embed", "recall", "done"},
         outages \subseteq outages', path' \in [An!Modes -> Routes], path' = path \/
           \A mode \in An!Modes : path'[mode] # "failed" /\ (path'[mode] = "external" => request.backend = "es_qdrant")
  PROVE  AnswerOK'
<1>1. AnswerTypeOK' /\ RoutesOK' /\ RecallOK'
  BY DEF AnswerOK, AnswerTypeOK, RoutesOK, RecallOK, An!Readable
<1>2. FusedOK'
  BY DEF AnswerOK, FusedOK, An!FusionFair
<1>3. ChosenOK'
  BY NoEvidenceNext DEF AnswerOK, ChosenOK
<1> QED BY <1>1, <1>2, <1>3 DEF AnswerOK

\* A path that reports its rows, or is tried again elsewhere.
LEMMA RecallStep ==
  ASSUME AnswerOK, NEW mode \in An!Modes, NEW rows, pc = "recall", An!Recalled(mode, rows),
         mode \in TextModes => ListOK(rows) /\ Range(rows) \subseteq authorised,
         outages \subseteq outages', NEW route \in Routes, path' = [path EXCEPT ![mode] = route],
         route = "external" => request.backend = "es_qdrant",
         route = "failed" => "database" \in outages' \/ (request.backend = "es_qdrant" /\ ~request.fallback)
  PROVE  AnswerOK'
<1>1. AnswerTypeOK' /\ RoutesOK'
  BY DEF AnswerOK, AnswerTypeOK, RoutesOK, An!Recalled
<1>2. RecallOK'
  BY DEF AnswerOK, AnswerTypeOK, RecallOK, An!Recalled, An!Readable, TextModes, An!Modes
<1>3. FusedOK'
  BY DEF AnswerOK, FusedOK, An!FusionFair, An!Recalled
<1>4. ChosenOK'
  BY NoEvidenceNext DEF AnswerOK, ChosenOK, An!Recalled
<1> QED BY <1>1, <1>2, <1>3, <1>4 DEF AnswerOK

LEMMA ExternalStep ==
  ASSUME AnswerOK, NEW mode \in An!Modes, An!QueryExternalCandidates(mode)
  PROVE  AnswerOK'
<1>1. pc = "recall" /\ request.backend = "es_qdrant" /\ request \in Demands
  BY DEF An!QueryExternalCandidates, AnswerOK, RoutesOK, AnswerTypeOK
<1>2. ListOK(<<>>) /\ Range(<<>>) \subseteq authorised
  BY DEF ListOK, Range
<1>3. CASE /\ An!Recalled(mode, <<>>) /\ outages' = outages \cup {"external"}
           /\ path' = [path EXCEPT ![mode] = IF request.fallback THEN "database" ELSE "failed"]
  BY <1>1, <1>2, <1>3, RecallStep DEF Routes, Demands
<1>4. ASSUME NEW named \in SUBSET An!Chunks, NEW score \in An!Scores(named), NEW rows,
             rows = An!Ranked({r \in An!Readable : r[2] \in named}, score), UNCHANGED outages,
             \/ An!Recalled(mode, <<>>) /\ path' = [path EXCEPT ![mode] = "database"]
             \/ An!Recalled(mode, rows) /\ path' = [path EXCEPT ![mode] = "done"]
      PROVE  AnswerOK'
  <2>1. {r \in An!Readable : r[2] \in named} \in SUBSET Pairs /\ score \in [named -> 1..2]
    BY ReadablePairs DEF An!Scores
  <2>2. ListOK(rows) /\ Range(rows) \subseteq An!Readable
    BY <1>4, <2>1, RankedIs
  <2>3. ListOK(rows) /\ Range(rows) \subseteq authorised
    BY <2>2 DEF AnswerOK, RecallOK
  <2> QED BY <1>1, <1>2, <1>4, <2>3, RecallStep DEF Routes
<1> QED BY <1>3, <1>4 DEF An!QueryExternalCandidates

LEMMA DatabaseStep ==
  ASSUME AnswerOK, NEW mode \in An!Modes, An!QueryCandidates(mode)
  PROVE  AnswerOK'
<1>1. pc = "recall"
  BY DEF An!QueryCandidates
<1>2. ListOK(<<>>) /\ Range(<<>>) \subseteq authorised
  BY DEF ListOK, Range
<1>3. CASE An!Recalled(mode, <<>>) /\ path' = [path EXCEPT ![mode] = "failed"] /\ outages' = outages \cup {"database"}
  BY <1>1, <1>2, <1>3, RecallStep DEF Routes
<1>4. ASSUME NEW answer \in An!DatabaseAnswers(mode), An!Recalled(mode, An!FirstOf(answer, RecallLimit)),
             NEW route \in {"shadow", "done"}, path' = [path EXCEPT ![mode] = route], UNCHANGED outages
      PROVE  AnswerOK'
  <2>1. ASSUME mode \in TextModes
        PROVE  ListOK(An!FirstOf(answer, RecallLimit)) /\ Range(An!FirstOf(answer, RecallLimit)) \subseteq authorised
    <3>1. ListOK(answer) /\ Range(answer) \subseteq An!Readable /\ RecallLimit \in Nat
      BY <2>1, DatabaseIs, AnswerLimits
    <3>2. ListOK(An!FirstOf(answer, RecallLimit)) /\ Range(An!FirstOf(answer, RecallLimit)) \subseteq Range(answer)
      BY <3>1, ListCut DEF ListOK
    <3> QED BY <3>1, <3>2 DEF AnswerOK, RecallOK
  <2> QED BY <1>1, <1>4, <2>1, RecallStep DEF Routes
<1>5. CASE /\ \E answer \in An!DatabaseAnswers(mode) : An!Recalled(mode, An!FirstOf(answer, RecallLimit))
           /\ path' = [path EXCEPT ![mode] = IF request.backend = "shadow" /\ mode # "name" THEN "shadow" ELSE "done"]
           /\ UNCHANGED outages
  <2> DEFINE route == IF request.backend = "shadow" /\ mode # "name" THEN "shadow" ELSE "done"
  <2>1. route \in {"shadow", "done"}
    OBVIOUS
  <2> QED BY <1>4, <1>5, <2>1
<1> QED BY <1>3, <1>5 DEF An!QueryCandidates

LEMMA ShadowStep ==
  ASSUME AnswerOK, NEW mode \in An!Modes, An!ShadowRead(mode)
  PROVE  AnswerOK'
<1>1. mode \in TextModes => ListOK(list[mode]) /\ Range(list[mode]) \subseteq authorised
  BY DEF AnswerOK, RecallOK
<1> QED BY <1>1, RecallStep DEF An!ShadowRead, Routes

\* A grouped list is a list.
LEMMA GroupedIs ==
  ASSUME NEW A, NEW s \in Seq(A), NEW n
  PROVE  LET g == An!GroupCandidates(s, n) IN g \in Seq(Range(g))
<1> DEFINE g == An!GroupCandidates(s, n)
           hit(i) == CHOOSE h \in An!HitsOf(s) : s[h][1] = s[i][1]
           placed == {<<hit(i), i>> : i \in DOMAIN s}
           kept == {p \in placed : An!Cardinality({h \in An!HitsOf(s) : h < p[1]}) < n}
           At(k) == CHOOSE r \in kept :
                      An!Cardinality({q \in kept : q[1] < r[1] \/ (q[1] = r[1] /\ q[2] < r[2])}) = k - 1
           order == [k \in 1 .. An!Cardinality(kept) |-> At(k)]
<1>0. g = [k \in DOMAIN order |-> s[order[k][2]]]
  BY DEF An!GroupCandidates, An!InOrder
<1> HIDE DEF At
<1>1. kept \in SUBSET placed /\ g = [k \in 1 .. Cardinality(kept) |-> g[k]]
  BY <1>0, SameSize
<1>2. Cardinality(kept) \in Nat
  <2>1. IsFiniteSet(DOMAIN s)
    BY FS_Interval
  <2> DEFINE f == [i \in DOMAIN s |-> <<hit(i), i>>]
  <2>2. f \in Surjection(DOMAIN s, placed)
    <3> HIDE DEF hit
    <3> QED BY DEF Surjection
  <2> HIDE DEF f, placed, kept
  <2>3. IsFiniteSet(placed)
    BY <2>1, <2>2, FS_Surjection
  <2> QED BY <1>1, <2>3, FS_Subset, FS_CardinalityType
<1> HIDE DEF g, kept
<1>3. g \in [1 .. Cardinality(kept) -> Range(g)]
  BY <1>1 DEF Range
<1> QED BY <1>2, <1>3 DEF g

LEMMA FuseStep ==
  ASSUME AnswerOK, An!Fuse
  PROVE  AnswerOK'
<1>1. /\ UNCHANGED <<world, request, path, list, evidence, cited, authorised, current, outages>>
      /\ pc = "recall" /\ fused = <<>> /\ evidence = <<>> /\ cited = {}
  BY DEF An!Fuse, AnswerOK, FusedOK, ChosenOK
<1>2. AnswerTypeOK' /\ RoutesOK' /\ RecallOK'
  BY <1>1 DEF AnswerOK, AnswerTypeOK, RoutesOK, RecallOK, An!Readable
<1>3. CASE pc' = "done" /\ UNCHANGED fused
  <2>1. FusedOK'
    BY <1>1, <1>3 DEF FusedOK, An!FusionFair
  <2>2. ChosenOK'
    BY <1>1, <1>3, NoEvidenceNext DEF ChosenOK
  <2> QED BY <1>2, <2>1, <2>2 DEF AnswerOK
<1>4. ASSUME NEW flip, NEW n,
             fused' = An!ReciprocalRankFusion(list["fulltext"], list["semantic"], flip, FusionLimit),
             candidates' = An!GroupCandidates(fused', n), pc' \in {"load", "done"}
      PROVE  AnswerOK'
  <2> DEFINE text == list["fulltext"]
             vector == list["semantic"]
  <2>1. ListOK(text) /\ ListOK(vector) /\ FusionLimit \in Nat
    BY AnswerLimits DEF AnswerOK, RecallOK, TextModes
  <2>2. /\ fused' \in Seq(Pairs)
        /\ \A a, b \in Range(text) \cup Range(vector) :
             NotBelow(text, a, b) /\ NotBelow(vector, a, b) => b \notin Range(fused') \/ Above(fused', a, b)
    BY <1>4, <2>1, FusedFair
  <2>3. FusedOK'
    BY <1>1, <1>4, <2>2, SameRange DEF FusedOK, An!FusionFair, Above, NotBelow
  <2>4. candidates' \in Seq(Range(candidates'))
    BY <1>4, <2>2, GroupedIs
  <2>5. ChosenOK'
    BY <1>1, <1>4, <2>4, NoEvidenceNext DEF ChosenOK
  <2> QED BY <1>2, <2>3, <2>5 DEF AnswerOK
<1> QED BY <1>3, <1>4 DEF An!Fuse

LEMMA LoadStep ==
  ASSUME AnswerOK, An!LoadFullChunks
  PROVE  AnswerOK'
<1>1. /\ UNCHANGED <<world, request, path, evidence, cited, authorised>>
      /\ pc = "load" /\ fused' = <<>> /\ evidence = <<>> /\ cited = {} /\ candidates \in Seq(Range(candidates))
      /\ current' = An!Readable /\ list' = [mode \in An!Modes |-> <<>>] /\ outages \subseteq outages'
  BY DEF An!LoadFullChunks, An!End, AnswerOK, ChosenOK
<1>2. AnswerTypeOK' /\ RoutesOK'
  BY <1>1 DEF AnswerOK, AnswerTypeOK, RoutesOK
<1>3. RecallOK'
  <2>1. ListOK(<<>>) /\ Range(<<>>) = {}
    BY DEF ListOK, Range
  <2> QED BY <1>1, <2>1 DEF AnswerOK, RecallOK, An!Readable, TextModes, An!Modes
<1>4. FusedOK'
  BY <1>1 DEF FusedOK, An!FusionFair
<1>5. CASE pc' = "done"
  <2>1. ChosenOK'
    BY <1>1, <1>5, NoEvidenceNext DEF ChosenOK
  <2> QED BY <1>2, <1>3, <1>4, <2>1 DEF AnswerOK
<1>6. CASE pc' = "rerank" /\ candidates' = LET s == An!DistinctChunks(candidates) IN An!Picked(s, {i \in DOMAIN s : s[i] \in An!Readable})
  <2> DEFINE s == An!DistinctChunks(candidates)
  <2>1. s \in Seq(Range(candidates)) /\ DistinctIn(s)
    BY <1>1, ChunksOnce
  <2>2. candidates' = An!Picked(s, {i \in DOMAIN s : s[i] \in An!Readable})
    BY <1>6
  <2> HIDE DEF s
  <2>3. candidates' \in Seq(Range(candidates')) /\ Range(candidates') \subseteq current' /\ DistinctIn(candidates')
    <3>1. candidates' = Kept(s, An!Readable) /\ current' = An!Readable
      BY <1>1, <2>2 DEF Kept
    <3> QED BY <2>1, <3>1, Filtered
  <2>4. ChosenOK'
    BY <1>1, <1>6, <2>3, NoEvidenceNext DEF ChosenOK, DistinctIn
  <2> QED BY <1>2, <1>3, <1>4, <2>4 DEF AnswerOK
<1> QED BY <1>5, <1>6 DEF An!LoadFullChunks, An!End

LEMMA RerankedIs ==
  ASSUME NEW s, s \in Seq(Range(s)), DistinctIn(s), NEW t \in An!RerankAnswers(s)
  PROVE  t \in Seq(Range(t)) /\ Range(t) \subseteq Range(s) /\ DistinctIn(t)
<1>1. CASE t \in An!SetToSeqs(Range(s))
  <2> DEFINE R == Range(s)
  <2>1. IsFiniteSet(R) /\ Cardinality(R) \in Nat
    <3>1. IsFiniteSet(DOMAIN s)
      BY FS_Interval
    <3> DEFINE g == [i \in DOMAIN s |-> s[i]]
    <3>2. g \in Surjection(DOMAIN s, R)
      BY DEF Surjection, Range
    <3> HIDE DEF g, R
    <3> QED BY <3>1, <3>2, FS_Surjection, FS_CardinalityType
  <2>2. t \in [1 .. Cardinality(R) -> R] /\ \A i, j \in 1 .. Cardinality(R) : i # j => t[i] # t[j]
    BY <1>1, SameSize, SameRange DEF An!SetToSeqs
  <2>3. \A x, y \in R : x[2] = y[2] => x = y
    BY DEF DistinctIn, Range
  <2> HIDE DEF R
  <2>4. DistinctIn(t)
    BY <2>2, <2>3 DEF DistinctIn
  <2>5. t \in [1 .. Cardinality(R) -> Range(t)] /\ Range(t) \subseteq R
    BY <2>2 DEF Range
  <2> QED BY <2>1, <2>4, <2>5 DEF R
<1>2. CASE t = s
  BY <1>2
<1> QED BY <1>1, <1>2, SameRange DEF An!RerankAnswers

LEMMA RerankStep ==
  ASSUME AnswerOK, An!Rerank
  PROVE  AnswerOK'
<1>1. /\ UNCHANGED <<world, request, path, list, fused, evidence, cited, authorised, current, outages>>
      /\ pc = "rerank" /\ pc' = "answer" /\ fused = <<>> /\ evidence = <<>> /\ cited = {}
      /\ candidates \in Seq(Range(candidates)) /\ Range(candidates) \subseteq current /\ DistinctIn(candidates)
  BY DEF An!Rerank, AnswerOK, FusedOK, ChosenOK
<1>2. AnswerTypeOK' /\ RoutesOK' /\ RecallOK' /\ FusedOK'
  BY <1>1 DEF AnswerOK, AnswerTypeOK, RoutesOK, RecallOK, FusedOK, An!Readable, An!FusionFair
<1>3. candidates' \in An!RerankAnswers(candidates) \/ candidates' = candidates
  BY DEF An!Rerank
<1>4. candidates' \in Seq(Range(candidates')) /\ Range(candidates') \subseteq current /\ DistinctIn(candidates')
  BY <1>1, <1>3, RerankedIs
<1>5. ChosenOK'
  BY <1>1, <1>4, NoEvidenceNext DEF ChosenOK, DistinctIn
<1> QED BY <1>2, <1>5 DEF AnswerOK

LEMMA GivenStep ==
  ASSUME AnswerOK, An!Answer
  PROVE  AnswerOK'
<1>1. /\ UNCHANGED <<world, request, path, list, fused, candidates, authorised, current>>
      /\ pc = "answer" /\ pc' = "done" /\ fused = <<>> /\ evidence = <<>> /\ cited = {}
      /\ candidates \in Seq(Range(candidates)) /\ Range(candidates) \subseteq current /\ DistinctIn(candidates)
      /\ evidence' = An!Evidence(candidates) /\ outages \subseteq outages'
  BY DEF An!Answer, An!End, AnswerOK, FusedOK, ChosenOK
<1>2. AnswerTypeOK' /\ RoutesOK' /\ RecallOK' /\ FusedOK'
  BY <1>1 DEF AnswerOK, AnswerTypeOK, RoutesOK, RecallOK, FusedOK, An!Readable, An!FusionFair
<1>3. /\ Range(evidence') \subseteq Range(candidates) /\ DistinctIn(evidence') /\ Len(evidence') <= TopK
      /\ \A f : Cardinality(OfFile(evidence', f)) <= PerFile
      /\ \A r \in Range(candidates) \ Range(evidence') :
           Len(evidence') = TopK \/ Cardinality(OfFile(evidence', r[1])) = PerFile
  BY <1>1, EvidenceIs
<1>4. cited' \subseteq Range(evidence')
  BY <1>1, SameRange DEF An!Answer, An!Citations
<1>5. An!EvidenceFair'
  <2>1. Range(evidence') \subseteq current' /\ cited' \subseteq current'
    BY <1>1, <1>3, <1>4
  <2>2. \A f : An!Cardinality({i \in DOMAIN evidence' : evidence'[i][1] = f}) = Cardinality(OfFile(evidence', f))
    BY SameSize DEF OfFile
  <2>3. An!Range(evidence') = Range(evidence') /\ An!Range(candidates') = Range(candidates)
    BY <1>1, SameRange
  <2> QED BY <1>3, <2>1, <2>2, <2>3 DEF An!EvidenceFair, DistinctIn
<1>6. ChosenOK'
  BY <1>1, <1>5 DEF ChosenOK
<1> QED BY <1>2, <1>6 DEF AnswerOK

LEMMA AnswerStep == AnswerOK /\ [An!Next]_answerVars => AnswerOK'
<1> SUFFICES ASSUME AnswerOK, [An!Next]_answerVars PROVE AnswerOK'
  OBVIOUS
<1>1. CASE UNCHANGED answerVars
  <2>1. AnswerTypeOK' /\ RoutesOK' /\ RecallOK'
    BY <1>1 DEF answerVars, AnswerOK, AnswerTypeOK, RoutesOK, RecallOK, An!Readable
  <2>2. FusedOK'
    BY <1>1 DEF answerVars, AnswerOK, FusedOK, An!FusionFair
  <2>3. ChosenOK'
    BY <1>1 DEF answerVars, AnswerOK, ChosenOK, An!EvidenceFair, DistinctIn
  <2> QED BY <2>1, <2>2, <2>3 DEF AnswerOK
<1>2. CASE An!DeleteFile \/ An!Reindex \/ An!Collect
  <2>1. world \in Worlds
    BY DEF AnswerOK, AnswerTypeOK
  <2>2. ASSUME NEW f, An!Change([world EXCEPT !.live = @ \ {f}]) PROVE AnswerOK'
    BY <2>1, <2>2, ChangeStep DEF Worlds
  <2>3. CASE An!Reindex
    <3>1. [world EXCEPT !.active[1] = 2] \in Worlds
      BY <2>1 DEF Worlds
    <3> QED BY <2>3, <3>1, ChangeStep DEF An!Reindex
  <2>4. CASE An!Collect
    <3>1. [world EXCEPT !.ready = @ \ {2}] \in Worlds
      BY <2>1 DEF Worlds
    <3> QED BY <2>4, <3>1, ChangeStep DEF An!Collect
  <2> QED BY <1>2, <2>2, <2>3, <2>4 DEF An!DeleteFile
<1>3. path \in [An!Modes -> Routes]
  BY DEF AnswerOK, AnswerTypeOK
<1>4. CASE An!Allow
  BY <1>3, <1>4, EarlyStep DEF An!Allow, An!End
<1>5. CASE An!Start
  <2>1. path' \in [An!Modes -> Routes]
    BY <1>5 DEF An!Start, Routes
  <2>2. \A mode \in An!Modes : path'[mode] # "failed" /\ (path'[mode] = "external" => request.backend = "es_qdrant")
    BY <1>5 DEF An!Start
  <2> QED BY <1>5, <2>1, <2>2, EarlyStep DEF An!Start, An!End
<1>6. CASE An!EmbedQuery
  BY <1>3, <1>6, EarlyStep DEF An!EmbedQuery, An!End
<1>7. CASE An!Recall
  BY <1>7, ExternalStep, DatabaseStep, ShadowStep DEF An!Recall, An!Modes
<1> QED BY <1>1, <1>2, <1>4, <1>5, <1>6, <1>7, FuseStep, LoadStep, RerankStep, GivenStep DEF An!Next

LEMMA AnswerSettles == AnswerOK => An!AnswerSound
<1> SUFFICES ASSUME AnswerOK PROVE An!AnswerSound
  OBVIOUS
<1>1. An!IndexAuthorisesNothing
  BY SameRange DEF AnswerOK, RecallOK, An!IndexAuthorisesNothing, TextModes, An!Modes
<1>2. An!OutageHidden
  BY DEF AnswerOK, RoutesOK, An!OutageHidden, An!Failed
<1> QED BY <1>1, <1>2 DEF AnswerOK, FusedOK, ChosenOK, An!AnswerSound

-----------------------------------------------------------------------------
(* The suite *)

\* A step of the suite is a step of one component, and the others rest.
LEMMA SuiteSteps ==
  ASSUME [SuiteNext]_suiteVars
  PROVE  /\ [Wf!Next]_workflowVars /\ [Doc!Next]_documentVars /\ [Th!Next]_thumbnailVars
         /\ [Next]_vars /\ [Gn!Next]_generationVars
  BY DEF SuiteNext, suiteVars, keptVars

LEMMA SuiteStarts == SuiteInit => Wf!Init /\ Doc!Init /\ Th!Init /\ Init /\ Gn!Init
  BY DEF SuiteInit

\* Whatever is called, twice or at once (workflow/service.go): a workflow that
\* succeeded has nothing undone, and a step is undone once, after it succeeded.
THEOREM CompensationTheorem == SuiteSpec => []CompensationSound
<1>1. SuiteInit => WorkflowInv
  BY SuiteStarts, WorkflowInit
<1>2. WorkflowInv /\ [SuiteNext]_suiteVars => WorkflowInv'
  BY SuiteSteps, WorkflowStep
<1>3. WorkflowInv => CompensationSound
  BY WorkflowSound DEF CompensationSound
<1> QED BY <1>1, <1>2, <1>3, PTL DEF SuiteSpec

\* However indexers race with each other, with their leases, a reprocess request and
\* the object's deletion (ai/service.go: startDocumentVersion, runIndex): readers
\* have the newest version that was indexed, and one that failed hides nothing.
THEOREM DocumentTheorem == SuiteSpec => []DocumentSound
<1>1. SuiteInit => DocumentInv
  BY SuiteStarts, DocumentInit
<1>2. DocumentInv /\ [SuiteNext]_suiteVars => DocumentInv'
  BY SuiteSteps, DocumentStep
<1>3. DocumentInv => DocumentSound
  BY DEF DocumentInv, DocumentSound
<1> QED BY <1>1, <1>2, <1>3, PTL DEF SuiteSpec

\* For any number of attempts, cleaners and collectors (media/service.go,
\* objectstore/service.go): a thumbnail that is served exists, and without an
\* outlived lease stored bytes belong to it or to an operation that removes them.
THEOREM ThumbnailTheorem == SuiteSpec => []ThumbnailsHold
<1>1. SuiteInit => ThumbnailSafe
  BY SuiteStarts, ThumbnailInit DEF ThumbnailSafe
<1>2. ThumbnailSafe /\ [SuiteNext]_suiteVars => ThumbnailSafe'
  BY SuiteSteps, ThumbnailStep
<1>3. ThumbnailSafe => ThumbnailsHold
  BY ThumbnailSound DEF ThumbnailsHold
<1> QED BY <1>1, <1>2, <1>3, PTL DEF SuiteSpec

\* With any number of handlers and backfills, of versions, crashes and failed
\* publications (search/projector.go, search/external.go): when no event is due both
\* indexes show the object's active version, whatever was written late.  And for any
\* generations and operators (search/index.go, search/backfill.go): a cutover that is
\* not undone moves every member of a generation, PostgreSQL's members are never
\* without an active version, and none was active before its pages were all written.
THEOREM IndexTheorem == SuiteSpec => []IndexSound
<1>1. SuiteInit => ContentInv /\ GenerationsInv
  BY SuiteStarts, ContentInit, GenerationsInit
<1>2. ContentInv /\ GenerationsInv /\ [SuiteNext]_suiteVars => ContentInv' /\ GenerationsInv'
  BY SuiteSteps, ContentNext, GenerationsStep
<1>3. ContentInv /\ GenerationsInv => IndexSound
  BY ContentSettles, GenerationsSettle DEF IndexSound
<1> QED BY <1>1, <1>2, <1>3, PTL DEF SuiteSpec

\* For any number of documents, slots and tries (ai/service.go, ai/parserrpc,
\* parser_worker/server.py): a document is given up as unsupported only for its own
\* fault, and only an image for a refusal by the vision provider (ai/provider.go); an
\* attempt that nothing disturbed is repeated only after an error nobody knows, and
\* only a whole document is indexed.
THEOREM ParsingTheorem == SuiteSpec => [](part = "parsing" => Ps!ParsingSound)
<1>1. SuiteInit => ParsingInv
  BY DEF SuiteInit, Ps!Init, ParsingInv, VerdictOK
<1>2. [SuiteNext]_suiteVars => UNCHANGED part /\ (part = "parsing" => [Ps!Next]_parseVars)
  BY DEF SuiteNext, suiteVars, passingVars
<1>3. ParsingInv /\ [SuiteNext]_suiteVars => ParsingInv'
  BY <1>2, ParsingStep
<1>4. ParsingInv => (part = "parsing" => Ps!ParsingSound)
  BY DEF ParsingInv, VerdictOK, Ps!ParsingSound, Faulty
<1> QED BY <1>1, <1>3, <1>4, PTL DEF SuiteSpec

\* For any limits and any number of changes during the request (ai/search.go: ask,
\* reciprocalRankFusion, LoadFullChunks; ai/tracing.go): whatever an index names, only
\* what the owner may read when its text is loaded reaches the model; each chunk is in
\* the evidence once, and a candidate is left out only for a limit that is reached; of
\* two candidates the one both paths prefer is fused first; and an outage of the
\* indexes alone fails no request that may go to PostgreSQL.
THEOREM AnswerTheorem == SuiteSpec => []AnswerSound
<1>1. SuiteInit => AnswerInv
  BY AnswerInit DEF SuiteInit, AnswerInv
<1>2. [SuiteNext]_suiteVars => UNCHANGED part /\ (part = "answering" => [An!Next]_answerVars)
  BY DEF SuiteNext, suiteVars, passingVars
<1>3. AnswerInv /\ [SuiteNext]_suiteVars => AnswerInv'
  BY <1>2, AnswerStep DEF AnswerInv
<1>4. AnswerInv => AnswerSound
  BY AnswerSettles DEF AnswerInv, AnswerSound
<1> QED BY <1>1, <1>3, <1>4, PTL DEF SuiteSpec
=============================================================================
