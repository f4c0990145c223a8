----------------------------- MODULE AgentView -----------------------------
(***************************************************************************)
(* What a sandbox agent promises to the control plane: one command or job  *)
(* at a time, an outcome that is decided once, and a slot that is given    *)
(* back together with the end of the execution.  AgentExec is shown to     *)
(* implement it; SandboxManager's agents behave like it too.               *)
(***************************************************************************)
CONSTANT Exec

VARIABLES slot,   \* free, an execution, or job
          phase,  \* of each execution: unused, running, dying (decided), over, lost
          out     \* its outcome once decided

vars == <<slot, phase, out>>

Init ==
  /\ slot = "free"
  /\ phase = [e \in Exec |-> "unused"]
  /\ out = [e \in Exec |-> "none"]

(* The command runs, or could not be started. *)
Start(e) ==
  /\ slot = "free" /\ phase[e] = "unused"
  /\ slot' = e
  /\ \/ phase' = [phase EXCEPT ![e] = "running"] /\ UNCHANGED out
     \/ phase' = [phase EXCEPT ![e] = "dying"] /\ out' = [out EXCEPT ![e] = "failed"]

(* Whatever ends it first decides the outcome, for good. *)
Decide(e) ==
  /\ phase[e] = "running"
  /\ phase' = [phase EXCEPT ![e] = "dying"]
  /\ \E o \in {"completed", "failed", "timeout", "killed"} : out' = [out EXCEPT ![e] = o]
  /\ UNCHANGED slot

(* The terminal event and the release of the slot are one step.            *)
Finish(e) ==
  /\ slot = e /\ phase[e] = "dying"
  /\ phase' = [phase EXCEPT ![e] = "over"]
  /\ slot' = "free"
  /\ UNCHANGED out

JobBegins == slot = "free" /\ slot' = "job" /\ UNCHANGED <<phase, out>>
JobEnds == slot = "job" /\ slot' = "free" /\ UNCHANGED <<phase, out>>

(* The agent or its container is gone, and with it all it was doing.       *)
Die ==
  /\ slot' = "free"
  /\ phase' = [e \in Exec |-> IF phase[e] \in {"running", "dying"} THEN "lost" ELSE phase[e]]
  /\ UNCHANGED out

Next ==
  \/ \E e \in Exec : Start(e) \/ Decide(e) \/ Finish(e)
  \/ JobBegins \/ JobEnds \/ Die

Spec == Init /\ [][Next]_vars
=============================================================================
