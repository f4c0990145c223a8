----------------------------- MODULE AgentExec -----------------------------
(***************************************************************************)
(* The exec engine of the sandbox agent: ExecutionRegistry with its busy   *)
(* gate (exec/registry.ts), the process group and the finalization of an   *)
(* execution (exec/spawn.ts, exec/timeout.ts), the diff and archive jobs   *)
(* that share the gate (stream.ts) and the shutdown (index.ts).  An action *)
(* is one callback of the event loop, or one step of the operating system. *)
(* A process group is its leader and one background descendant; output and *)
(* the log file are left out.                                              *)
(***************************************************************************)
EXTENDS FiniteSets

CONSTANTS Exec, Job, None

ASSUME NamesAssumption == /\ Exec \cap Job = {} /\ None \notin Exec \cup Job
                          /\ "free" \notin Exec /\ "job" \notin Exec

VARIABLES
  gate,      \* BusyGate.#active
  status,    \* record.status
  reason,    \* record.killReason
  finish,    \* finalize: not begun, awaiting log.end(), done
  timers,    \* record.timers: total timeout, SIGTERM -> SIGKILL, drain
  exitSeen,  \* record.childExited
  eof,       \* stdoutEnded and stderrEnded
  answer,    \* what the last POST /kill of the execution answered
  leader,    \* the direct child: none, alive, dead
  behind,    \* what it left in the background: none, quiet, holding the pipes
  job,       \* a diff or archive: none, open, spawned, tracked, exited, done
  abort,     \* JobGuard.abortReason
  agent,     \* up, draining (in shutdown), closing, gone
  awaited    \* the executions shutdown waits for

recordVars == <<status, reason, finish, timers, exitSeen, eof, answer>>
groupVars == <<leader, behind>>
jobVars == <<job, abort>>
lifeVars == <<agent, awaited>>
vars == <<gate, recordVars, groupVars, jobVars, lifeVars>>

Terminal == {"completed", "failed", "timeout", "killed"}

NoTimers == [timeout |-> FALSE, escalation |-> "none", drain |-> FALSE]
TimerType == [timeout : BOOLEAN, escalation : {"none", "armed", "fired"}, drain : BOOLEAN]

Init ==
  /\ gate = None
  /\ status = [e \in Exec |-> "none"]
  /\ reason = [e \in Exec |-> "none"]
  /\ finish = [e \in Exec |-> "no"]
  /\ timers = [e \in Exec |-> NoTimers]
  /\ exitSeen = [e \in Exec |-> FALSE]
  /\ eof = [e \in Exec |-> FALSE]
  /\ answer = [e \in Exec |-> "none"]
  /\ leader = [e \in Exec |-> "none"]
  /\ behind = [e \in Exec |-> "none"]
  /\ job = [j \in Job |-> "none"]
  /\ abort = [j \in Job |-> "none"]
  /\ agent = "up"
  /\ awaited = {}

Alive == agent # "gone"

------------------------------------------------------------------------------
(* Mutant: a request is accepted while the agent shuts down. *)
Start_DuringShutdown(e) ==
  /\ Alive /\ gate = None /\ status[e] = "none"
  /\ gate' = e
  /\ status' = [status EXCEPT ![e] = "running"]
  /\ leader' = [leader EXCEPT ![e] = "alive"]
  /\ timers' = [timers EXCEPT ![e].timeout = TRUE]
  /\ UNCHANGED <<finish, reason, exitSeen, eof, answer, behind, jobVars, lifeVars>>

(* ExecutionRegistry.start: refused while shutting down (503) or busy      *)
(* (409).  A command that cannot be started is finalized at once.          *)
Start(e) ==
  /\ agent = "up" /\ gate = None /\ status[e] = "none"
  /\ gate' = e
  /\ \/ /\ status' = [status EXCEPT ![e] = "running"]
        /\ leader' = [leader EXCEPT ![e] = "alive"]
        /\ timers' = [timers EXCEPT ![e].timeout = TRUE]
        /\ UNCHANGED finish
     \/ /\ status' = [status EXCEPT ![e] = "failed"]
        /\ finish' = [finish EXCEPT ![e] = "logging"]
        /\ UNCHANGED <<leader, timers>>
  /\ UNCHANGED <<reason, exitSeen, eof, answer, behind, jobVars, lifeVars>>

(* requestKill for each of a set: the first reason stays, the timeout is   *)
(* off, and SIGTERM goes to the group (which may or may not heed it).      *)
RequestKill(es, why) ==
  LET hit == {e \in es : status[e] = "running" /\ finish[e] = "no"}
  IN /\ reason' = [e \in Exec |-> IF e \in hit /\ reason[e] = "none" THEN why ELSE reason[e]]
     /\ timers' = [e \in Exec |-> IF e \notin hit THEN timers[e] ELSE
                     [timers[e] EXCEPT !.timeout = FALSE,
                                       !.escalation = IF @ = "none" THEN "armed" ELSE @]]

(* Mutant: a signal that was sent is taken for a death. *)
Kill_Releases(e) ==
  /\ Alive /\ status[e] # "none"
  /\ RequestKill({e}, "killed")
  /\ answer' = [answer EXCEPT ![e] = IF status[e] = "running" THEN "killing" ELSE status[e]]
  /\ gate' = IF gate = e THEN None ELSE gate
  /\ UNCHANGED <<status, finish, exitSeen, eof, groupVars, jobVars, lifeVars>>

(* POST /exec/{id}/kill *)
Kill(e) ==
  /\ Alive /\ status[e] # "none"
  /\ RequestKill({e}, "killed")
  /\ answer' = [answer EXCEPT ![e] = IF status[e] = "running" THEN "killing" ELSE status[e]]
  /\ UNCHANGED <<gate, status, finish, exitSeen, eof, groupVars, jobVars, lifeVars>>

(* Mutant: the timeout finalizes without waiting for the process. *)
TimeoutFires_Finalizes(e) ==
  /\ Alive /\ timers[e].timeout
  /\ finish' = [finish EXCEPT ![e] = "logging"]
  /\ status' = [status EXCEPT ![e] = "timeout"]
  /\ timers' = [timers EXCEPT ![e] = NoTimers]
  /\ UNCHANGED <<gate, reason, exitSeen, eof, answer, groupVars, jobVars, lifeVars>>

(* The total timeout. *)
TimeoutFires(e) ==
  /\ Alive /\ timers[e].timeout
  /\ RequestKill({e}, "timeout")
  /\ UNCHANGED <<gate, status, finish, exitSeen, eof, answer, groupVars, jobVars, lifeVars>>

(* The grace after SIGTERM is over: SIGKILL to the whole group.            *)
EscalationFires(e) ==
  /\ Alive /\ timers[e].escalation = "armed"
  /\ timers' = [timers EXCEPT ![e].escalation = "fired"]
  /\ leader' = [leader EXCEPT ![e] = "dead"]
  /\ behind' = [behind EXCEPT ![e] = "none"]
  /\ UNCHANGED <<gate, status, reason, finish, exitSeen, eof, answer, jobVars, lifeVars>>

(* Mutant: a command that exited before SIGKILL counts as completed. *)
Finalize_ExitWins(e) ==
  /\ finish' = [finish EXCEPT ![e] = "logging"]
  /\ status' = [status EXCEPT ![e] =
                  IF timers[e].escalation = "fired" THEN reason[e] ELSE "completed"]
  /\ timers' = [timers EXCEPT ![e] = NoTimers]

(* The synchronous part of finalize: timers off, outcome decided.          *)
Finalize(e) ==
  /\ finish' = [finish EXCEPT ![e] = "logging"]
  /\ status' = [status EXCEPT ![e] = IF reason[e] = "none" THEN "completed" ELSE reason[e]]
  /\ timers' = [timers EXCEPT ![e] = NoTimers]

(* Mutant: only the end of both pipes ends an execution. *)
MaybeComplete_NoDrain(e, exited, ended) ==
  IF finish[e] # "no" \/ status[e] # "running" \/ ~ exited \/ ~ ended
  THEN UNCHANGED <<finish, status, timers>>
  ELSE Finalize(e)

(* maybeComplete: the child has exited and both pipes are at their end, or *)
(* the drain window opens.                                                 *)
MaybeComplete(e, exited, ended) ==
  IF finish[e] # "no" \/ status[e] # "running" \/ ~ exited
  THEN UNCHANGED <<finish, status, timers>>
  ELSE IF ended THEN Finalize(e)
  ELSE timers' = [timers EXCEPT ![e].drain = TRUE] /\ UNCHANGED <<finish, status>>

(* The child's exit event. *)
ExitSeen(e) ==
  /\ Alive /\ leader[e] = "dead" /\ ~ exitSeen[e]
  /\ exitSeen' = [exitSeen EXCEPT ![e] = TRUE]
  /\ MaybeComplete(e, TRUE, eof[e])
  /\ UNCHANGED <<gate, reason, eof, answer, groupVars, jobVars, lifeVars>>

(* Both pipes report their end: nobody holds the writing side any more.    *)
PipesEnd(e) ==
  /\ Alive /\ leader[e] # "none" /\ behind[e] # "holding" /\ ~ eof[e]
  /\ eof' = [eof EXCEPT ![e] = TRUE]
  /\ MaybeComplete(e, exitSeen[e], TRUE)
  /\ UNCHANGED <<gate, reason, exitSeen, answer, groupVars, jobVars, lifeVars>>

(* The drain window closes: the pipes are torn down. *)
DrainFires(e) ==
  /\ Alive /\ timers[e].drain
  /\ Finalize(e)
  /\ UNCHANGED <<gate, reason, exitSeen, eof, answer, groupVars, jobVars, lifeVars>>

(* BusyGate.release compares the id. *)
Release(id) == gate' = IF gate = id THEN None ELSE gate

(* Mutant: onFinish is not called. *)
Announce_KeepsSlot(e) ==
  /\ Alive /\ finish[e] = "logging"
  /\ finish' = [finish EXCEPT ![e] = "done"]
  /\ UNCHANGED <<gate, status, reason, timers, exitSeen, eof, answer, groupVars, jobVars, lifeVars>>

(* After log.end(): terminal event, end of the streams, slot, #finished.   *)
Announce(e) ==
  /\ Alive /\ finish[e] = "logging"
  /\ finish' = [finish EXCEPT ![e] = "done"]
  /\ Release(e)
  /\ UNCHANGED <<status, reason, timers, exitSeen, eof, answer, groupVars, jobVars, lifeVars>>

------------------------------------------------------------------------------
(* The operating system's side of a process group.                         *)

(* The leader ends by itself or by a signal. *)
LeaderExits(e) ==
  /\ leader[e] = "alive"
  /\ leader' = [leader EXCEPT ![e] = "dead"]
  /\ UNCHANGED <<gate, recordVars, behind, jobVars, lifeVars>>

(* It starts something in the background, with or without its pipes.       *)
Forks(e) ==
  /\ leader[e] = "alive" /\ behind[e] = "none"
  /\ \E kind \in {"quiet", "holding"} :
       /\ kind = "holding" => ~ eof[e]
       /\ behind' = [behind EXCEPT ![e] = kind]
  /\ UNCHANGED <<gate, recordVars, leader, jobVars, lifeVars>>

BehindExits(e) ==
  /\ behind[e] # "none"
  /\ behind' = [behind EXCEPT ![e] = "none"]
  /\ UNCHANGED <<gate, recordVars, leader, jobVars, lifeVars>>

------------------------------------------------------------------------------
(* JobGuard *)

JobBegin(j) ==
  /\ agent = "up" /\ gate = None /\ job[j] = "none"
  /\ gate' = j
  /\ job' = [job EXCEPT ![j] = "open"]
  /\ UNCHANGED <<recordVars, groupVars, abort, lifeVars>>

(* spawnManaged: the child is tracked only when its spawn event arrives.   *)
JobSpawn(j) ==
  /\ Alive /\ job[j] = "open"
  /\ job' = [job EXCEPT ![j] = "spawned"]
  /\ UNCHANGED <<gate, recordVars, groupVars, abort, lifeVars>>

JobTrack(j) ==
  /\ Alive /\ job[j] = "spawned"
  /\ job' = [job EXCEPT ![j] = IF abort[j] = "none" THEN "tracked" ELSE "exited"]
  /\ UNCHANGED <<gate, recordVars, groupVars, abort, lifeVars>>

JobExits(j) ==
  /\ job[j] = "tracked"
  /\ job' = [job EXCEPT ![j] = "exited"]
  /\ UNCHANGED <<gate, recordVars, groupVars, abort, lifeVars>>

(* A diff runs several commands, one after the other, unless aborted.      *)
JobContinues(j) ==
  /\ Alive /\ job[j] = "exited" /\ abort[j] = "none"
  /\ job' = [job EXCEPT ![j] = "open"]
  /\ UNCHANGED <<gate, recordVars, groupVars, abort, lifeVars>>

(* guard.finish() in the finally of the handler. *)
JobFinish(j) ==
  /\ Alive /\ job[j] \in {"open", "exited"}
  /\ job' = [job EXCEPT ![j] = "done"]
  /\ Release(j)
  /\ UNCHANGED <<recordVars, groupVars, abort, lifeVars>>

KillTracked(js) ==
  job' = [j \in Job |-> IF j \in js /\ job[j] = "tracked" THEN "exited" ELSE job[j]]

(* streamTimeoutMs is over, or the client has gone. *)
JobAborts(j) ==
  /\ Alive /\ job[j] \notin {"none", "done"} /\ abort[j] = "none"
  /\ \E why \in {"timeout", "client_gone"} : abort' = [abort EXCEPT ![j] = why]
  /\ KillTracked({j})
  /\ UNCHANGED <<gate, recordVars, groupVars, lifeVars>>

------------------------------------------------------------------------------
(* SIGTERM: registry.shutdown kills what runs and waits for it ...         *)
Shutdown ==
  LET running == {e \in Exec : status[e] = "running"}
  IN /\ agent = "up"
     /\ KillTracked(Job)
     /\ RequestKill(running, "killed")
     /\ awaited' = running
     /\ agent' = IF running = {} THEN "closing" ELSE "draining"
     /\ UNCHANGED <<gate, status, finish, exitSeen, eof, answer, groupVars, abort>>

(* ... until all are finished, or a second after the last SIGKILL.         *)
ShutdownWaited ==
  /\ agent = "draining"
  /\ \/ \A e \in awaited : finish[e] = "done"
     \/ \A e \in awaited : timers[e].escalation # "armed"
  /\ agent' = "closing"
  /\ UNCHANGED <<gate, recordVars, groupVars, jobVars, awaited>>

(* closeAllConnections cuts the clients of jobs; process.exit follows.     *)
Exit ==
  /\ agent = "closing"
  /\ agent' = "gone"
  /\ KillTracked(Job)
  /\ UNCHANGED <<gate, recordVars, groupVars, abort, awaited>>

------------------------------------------------------------------------------
LoopStep(e) ==
  \/ TimeoutFires(e) \/ EscalationFires(e) \/ ExitSeen(e) \/ PipesEnd(e)
  \/ DrainFires(e) \/ Announce(e)

GroupStep(e) == LeaderExits(e) \/ Forks(e) \/ BehindExits(e)

JobStep(j) == JobSpawn(j) \/ JobTrack(j) \/ JobExits(j) \/ JobContinues(j) \/ JobFinish(j)

Next ==
  \/ \E e \in Exec : Start(e) \/ Kill(e) \/ LoopStep(e) \/ GroupStep(e)
  \/ \E j \in Job : JobBegin(j) \/ JobStep(j) \/ JobAborts(j)
  \/ Shutdown \/ ShutdownWaited \/ Exit

Spec == Init /\ [][Next]_vars

(* Timers fire, events of the loop are delivered, and a job that has been  *)
(* aborted is left by its handler.  A command itself may run for ever.     *)
Fairness ==
  /\ \A e \in Exec :
       /\ WF_vars(TimeoutFires(e)) /\ WF_vars(EscalationFires(e)) /\ WF_vars(ExitSeen(e))
       /\ WF_vars(DrainFires(e)) /\ WF_vars(Announce(e))
  /\ \A j \in Job :
       /\ WF_vars(JobAborts(j)) /\ WF_vars(JobTrack(j))
       /\ WF_vars(abort[j] # "none" /\ JobFinish(j))

FairSpec == Spec /\ Fairness

------------------------------------------------------------------------------
(* Types of all variables. *)
TypeOK ==
  /\ gate \in Exec \cup Job \cup {None}
  /\ status \in [Exec -> {"none", "running"} \cup Terminal]
  /\ reason \in [Exec -> {"none", "killed", "timeout"}]
  /\ finish \in [Exec -> {"no", "logging", "done"}]
  /\ timers \in [Exec -> TimerType]
  /\ exitSeen \in [Exec -> BOOLEAN] /\ eof \in [Exec -> BOOLEAN]
  /\ answer \in [Exec -> {"none", "killing"} \cup Terminal]
  /\ leader \in [Exec -> {"none", "alive", "dead"}]
  /\ behind \in [Exec -> {"none", "quiet", "holding"}]
  /\ job \in [Job -> {"none", "open", "spawned", "tracked", "exited", "done"}]
  /\ abort \in [Job -> {"none", "timeout", "client_gone"}]
  /\ agent \in {"up", "draining", "closing", "gone"}
  /\ awaited \subseteq Exec

(* "Only one execution at a time" (registry.ts:114), jobs included: every  *)
(* command that is alive is the one in the gate, so no two of them write   *)
(* the workspace together, however kills, timeouts and shutdown fall.      *)
OneAtATime ==
  /\ \A e \in Exec : leader[e] = "alive" => gate = e
  /\ \A j \in Job : job[j] \in {"spawned", "tracked"} => gate = j

(* "The terminal event is sent only when the process is really dead"       *)
(* (spawn.ts:11): once finalize has begun the command is dead, its outcome *)
(* is decided, and no timer is left to act on a finished execution.        *)
EndIsReal ==
  \A e \in Exec : finish[e] # "no" =>
    leader[e] # "alive" /\ status[e] \in Terminal /\ timers[e] = NoTimers

(* A POST /kill that was answered "killing" is kept: the execution ends as *)
(* killed or timeout, never as completed, even if its command had already  *)
(* exited and only its output was being drained.                           *)
KillAnswerKept ==
  \A e \in Exec : answer[e] = "killing" => status[e] \in {"running", "killed", "timeout"}

(* "The first reason to end it counts" (spawn.ts:285): neither a timeout   *)
(* after a kill nor a shutdown after a timeout changes the outcome.        *)
FirstReasonCounts ==
  [][\A e \in Exec :
       /\ reason[e] # "none" => reason'[e] = reason[e]
       /\ status[e] \in Terminal => status'[e] = status[e]]_vars

(* index.ts:60, "kill the process groups first, then close the server":    *)
(* when the agent exits no command it started is alive.                    *)
NoOrphan == agent = "gone" => \A e \in Exec : leader[e] # "alive"

(* The slot is given back whatever the command does (registry.ts:99: "or   *)
(* the sandbox answers 409 for ever"): hung, deaf to SIGTERM, with a       *)
(* background process holding its pipes, or a job whose client is gone.    *)
SlotComesBack ==
  \A x \in Exec \cup Job : gate = x ~> gate # x \/ agent = "gone"

(* docs/sandbox.md:192, "timeout: the process tree has been killed", and   *)
(* docs/sandbox.md:456: SIGTERM to the whole group, SIGKILL after 5s.      *)
TreeIsDead ==
  \A e \in Exec : finish[e] = "done" /\ status[e] = "timeout" => behind[e] = "none"

(* The agent as the control plane sees it. *)
SlotSeen ==
  IF agent = "gone" \/ gate = None THEN "free" ELSE IF gate \in Exec THEN gate ELSE "job"
PhaseSeen ==
  [e \in Exec |->
     IF status[e] = "none" THEN "unused" ELSE IF finish[e] = "done" THEN "over"
     ELSE IF agent = "gone" THEN "lost"
     ELSE IF status[e] = "running" /\ reason[e] = "none" THEN "running" ELSE "dying"]
OutSeen == [e \in Exec |-> IF status[e] \in Terminal THEN status[e] ELSE reason[e]]

View == INSTANCE AgentView WITH slot <- SlotSeen, phase <- PhaseSeen, out <- OutSeen

(* The engine implements the agent the control plane relies on: one        *)
(* command or job at a time, an outcome decided once, and a terminal event *)
(* that comes together with the free slot.                                 *)
ViewSpec == View!Spec
=============================================================================
