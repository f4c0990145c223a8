-------------------------- MODULE SandboxManager --------------------------
(***************************************************************************)
(* The control plane's SandboxManager, TTL sweeper and startup reconcile,  *)
(* with the parts of the world they act on: the sandboxes, transitions and *)
(* executions tables, the container of each sandbox and the single exec    *)
(* slot of the agent inside it.  An action is the code between two awaits; *)
(* everything a thread of the control plane knows lives in pc, at, call    *)
(* and snap and is lost when the process dies.                             *)
(*                                                                         *)
(* Artifacts, output and timestamps are abstracted: a row is fresh or past *)
(* its TTL, an archive covers a set of executions, an execution has an     *)
(* outcome.  The retries inside one archiving and the steps inside one     *)
(* provider call are one choice of their result.                           *)
(***************************************************************************)
EXTENDS SandboxRow, FiniteSets

CONSTANTS
  Sandbox,        \* sandbox ids; each is created at most once (a ULID)
  Caller,         \* concurrent callers of the manager
  Sweeper,        \* the TTL sweeper's timer callback
  Exec,           \* execution ids the agents hand out
  None,
  Archiving,      \* is SandboxManagerOptions.artifacts given?
  LossyReplies,   \* may the answer of POST /exec be lost after the agent acted?
  MaxReconnects,  \* bound of readSseStream
  MaxCalls,       \* bound: execInSandbox calls that pass the first check
  MaxDestroys,    \* bound: explicit destroySandbox calls
  MaxCrashes,     \* bound: deaths of the control plane process
  MaxFaults       \* bound: network, Docker and container failures

Thread == Caller \cup {Sweeper}

ASSUME ThreadAssumption == Sweeper \notin Caller /\ None \notin Sandbox \cup Exec
ASSUME ExecAssumption == Exec \cap {"free", "job"} = {}
ASSUME FlagAssumption == Archiving \in BOOLEAN /\ LossyReplies \in BOOLEAN
ASSUME BoundAssumption ==
  /\ MaxReconnects \in Nat /\ MaxCalls \in Nat /\ MaxDestroys \in Nat
  /\ MaxCrashes \in Nat /\ MaxFaults \in Nat

VARIABLES
  row,            \* sandboxes: state, has endpoint+token, reason, within TTL
  audit,          \* sandbox_state_transitions
  execution,      \* executions: the recorded outcome, "none" = no row
  container,      \* Docker's view of each sandbox container
  slot,           \* BusyGate of each agent: free, an execution or a diff/archive job
  run,            \* the agents' execution records; "dying": the outcome is decided
  saved,          \* executions whose effects are in an uploaded archive
  pc, at,         \* where each control plane thread is, and on which sandbox
  call,           \* an execInSandbox call: stream, watchdog and kill
  snap,           \* a destroySandbox call: the row it read, its archive
  archiveFailed,  \* #archiveFailures: no entry, within or past the grace period
  sweep,          \* rows of the current sweep still to be destroyed
  cp,             \* life of the process: serving, down, reconcile, orphans
  scan, look,     \* reconcile: rows or containers left, and the one in hand
  left            \* what is left of each bound

dbVars    == <<row, audit, execution>>
worldVars == <<container, slot, run, saved>>
threadVars == <<pc, at, call, snap>>
cpVars    == <<archiveFailed, sweep, cp, scan, look>>
vars == <<dbVars, worldVars, threadVars, cpVars, left>>

------------------------------------------------------------------------------
Outcomes == {"completed", "failed", "timeout", "killed"}
Phases   == {"unused", "running", "dying", "over", "lost"}
Reasons  == {"none", "other", "archive_failed"}
Containers == {"absent", "starting", "up", "stopping", "exited"}

RowType  == [state : States \cup {"none"}, conn : BOOLEAN, reason : Reasons, fresh : BOOLEAN]
RunType  == [sbx : Sandbox \cup {None}, phase : Phases, out : Outcomes \cup {"none"}]
CallType == [id : Exec \cup {None}, sse : {"off", "connect", "read", "sleep"},
             tries : 0 .. MaxReconnects, watch : {"armed", "waiting", "expired"},
             kill : {"none", "sent", "ok", "failed"}, aborted : BOOLEAN,
             result : Outcomes \cup {"none"}]
SnapType == [state : States \cup {"none"}, last : BOOLEAN, forced : BOOLEAN,
             covers : SUBSET Exec, owed : SUBSET Exec]
LookType == [sbx : Sandbox \cup {None}, what : {"none", "gone", "unreachable", "idle", "active"},
             id : Exec \cup {None}, step : {"none", "act", "record", "release"}]

NoRow  == [state |-> "none", conn |-> FALSE, reason |-> "none", fresh |-> TRUE]
NoRun  == [sbx |-> None, phase |-> "unused", out |-> "none"]
NoCall == [id |-> None, sse |-> "off", tries |-> 0, watch |-> "armed",
           kill |-> "none", aborted |-> FALSE, result |-> "none"]
NoSnap == [state |-> "none", last |-> FALSE, forced |-> FALSE, covers |-> {}, owed |-> {}]
NoLook == [sbx |-> None, what |-> "none", id |-> None, step |-> "none"]

CreatePcs == {"create_start", "create_wait", "create_commit", "create_failed", "create_undo"}
ExecPcs   == {"exec_gate", "exec_post", "stream", "finish", "finish_record", "finish_error",
              "record", "release"}
DestroyPcs == {"archive", "archiving", "archive_error", "stop", "remove", "remove_failed",
               "destroyed"}
Pcs == {"idle"} \cup CreatePcs \cup ExecPcs \cup DestroyPcs

(* Between winning the READY -> BUSY compare-and-set and giving it back.   *)
HolderPcs == ExecPcs \ {"exec_gate"}

Init ==
  /\ row = [s \in Sandbox |-> NoRow]
  /\ audit = [s \in Sandbox |-> <<>>]
  /\ execution = [e \in Exec |-> "none"]
  /\ container = [s \in Sandbox |-> "absent"]
  /\ slot = [s \in Sandbox |-> "free"]
  /\ run = [e \in Exec |-> NoRun]
  /\ saved = {}
  /\ pc = [t \in Thread |-> "idle"]
  /\ at = [t \in Thread |-> None]
  /\ call = [t \in Thread |-> NoCall]
  /\ snap = [t \in Thread |-> NoSnap]
  /\ archiveFailed = [s \in Sandbox |-> "no"]
  /\ sweep = {}
  /\ cp = "serving"
  /\ scan = {}
  /\ look = NoLook
  /\ left = [call |-> MaxCalls, destroy |-> MaxDestroys, crash |-> MaxCrashes, fault |-> MaxFaults]

------------------------------------------------------------------------------

(* sandbox_transition(): check and update under the row lock, plus one     *)
(* audit row; otherwise nothing changes and the caller is told why.        *)
Transition(s, from, new) ==
  IF MayMove(row[s].state, from, new.state)
  THEN /\ row' = [row EXCEPT ![s] = new]
       /\ audit' = [audit EXCEPT ![s] = Append(@, <<row[s].state, new.state>>)]
  ELSE UNCHANGED <<row, audit>>

To(s, state) == [row[s] EXCEPT !.state = state, !.reason = "other"]
Refreshed(s, state) == [To(s, state) EXCEPT !.fresh = TRUE]

Goto(t, label) == pc' = [pc EXCEPT ![t] = label]

Return(t) ==
  /\ pc' = [pc EXCEPT ![t] = "idle"]
  /\ at' = [at EXCEPT ![t] = None]
  /\ call' = [call EXCEPT ![t] = NoCall]
  /\ snap' = [snap EXCEPT ![t] = NoSnap]

(* Mutant: the server listens while reconcile still runs. *)
CanStart_DuringReconcile(t) == cp # "down" /\ pc[t] = "idle"

CanStart(t) == cp = "serving" /\ pc[t] = "idle"

Spend(what) == left[what] > 0 /\ left' = [left EXCEPT ![what] = @ - 1]

(* The agent answers HTTP; while it shuts down it only serves old streams. *)
Reachable(s) == container[s] \in {"up", "stopping"}

(* A call that cannot reach the agent, or that the network drops.          *)
CallFails(s) == IF Reachable(s) THEN Spend("fault") ELSE UNCHANGED left

(* Every process of a container dies with it, and so does the event buffer.*)
ExecsDieIn(s) ==
  /\ run' = [e \in Exec |-> IF run[e].sbx = s /\ run[e].phase \in {"running", "dying"}
                              THEN [run[e] EXCEPT !.phase = "lost"] ELSE run[e]]
  /\ slot' = [slot EXCEPT ![s] = "free"]

------------------------------------------------------------------------------
(* createSandbox *)

(* The row and its first audit entry, before the provider is called.       *)
CreateInsert(t, s) ==
  /\ CanStart(t) /\ t # Sweeper /\ row[s] = NoRow
  /\ row' = [row EXCEPT ![s] = [NoRow EXCEPT !.state = "CREATING", !.reason = "other"]]
  /\ audit' = [audit EXCEPT ![s] = <<<<"none", "CREATING">>>>]
  /\ Goto(t, "create_start") /\ at' = [at EXCEPT ![t] = s]
  /\ UNCHANGED <<execution, worldVars, call, snap, cpVars, left>>

CreateContainer(t) ==
  /\ pc[t] = "create_start"
  /\ container' = [container EXCEPT ![at[t]] = "starting"]
  /\ Goto(t, "create_wait")
  /\ UNCHANGED <<dbVars, slot, run, saved, at, call, snap, cpVars, left>>

(* waitForReady saw /health answer ready. *)
CreateReady(t) ==
  /\ pc[t] = "create_wait" /\ container[at[t]] = "up"
  /\ Goto(t, "create_commit")
  /\ UNCHANGED <<dbVars, worldVars, at, call, snap, cpVars, left>>

(* Any step of provider.create fails; its rollback swallows its own errors *)
(* and may leave the container behind.                                     *)
CreateGivesUp(t) ==
  /\ pc[t] \in {"create_start", "create_wait"}
  /\ \/ /\ container' = [container EXCEPT ![at[t]] = "absent"]
        /\ ExecsDieIn(at[t])
        /\ UNCHANGED left
     \/ Spend("fault") /\ UNCHANGED <<container, run, slot>>
  /\ Goto(t, "create_failed")
  /\ UNCHANGED <<dbVars, saved, at, call, snap, cpVars>>

CreateFailed(t) ==
  /\ pc[t] = "create_failed"
  /\ Transition(at[t], {"CREATING"}, To(at[t], "ERROR"))
  /\ Return(t)
  /\ UNCHANGED <<execution, worldVars, cpVars, left>>

CreateCommit(t) ==
  /\ pc[t] = "create_commit"
  /\ Transition(at[t], {"CREATING"}, [Refreshed(at[t], "READY") EXCEPT !.conn = TRUE])
  /\ IF row[at[t]].state = "CREATING"
     THEN Return(t)
     ELSE Goto(t, "create_undo") /\ UNCHANGED <<at, call, snap>>
  /\ UNCHANGED <<execution, worldVars, cpVars, left>>

(* The row left CREATING meanwhile: the container nobody will claim goes.  *)
CreateUndo(t) ==
  /\ pc[t] = "create_undo"
  /\ \/ /\ container' = [container EXCEPT ![at[t]] = "absent"]
        /\ ExecsDieIn(at[t])
        /\ UNCHANGED left
     \/ Spend("fault") /\ UNCHANGED <<container, run, slot>>
  /\ Return(t)
  /\ UNCHANGED <<dbVars, saved, cpVars>>

------------------------------------------------------------------------------
(* execInSandbox *)

(* The row is read and checked: anything but READY with an endpoint throws.*)
ExecRead(t, s) ==
  /\ CanStart(t) /\ t # Sweeper
  /\ row[s].state = "READY" /\ row[s].conn
  /\ Spend("call")
  /\ Goto(t, "exec_gate") /\ at' = [at EXCEPT ![t] = s]
  /\ UNCHANGED <<dbVars, worldVars, call, snap, cpVars>>

(* Mutant: the result of the compare-and-set is not looked at. *)
ExecGate_Unchecked(t) ==
  /\ pc[t] = "exec_gate"
  /\ Transition(at[t], {"READY"}, Refreshed(at[t], "BUSY"))
  /\ Goto(t, "exec_post")
  /\ UNCHANGED <<execution, worldVars, at, call, snap, cpVars, left>>

(* The compare-and-set that admits one call at a time. *)
ExecGate(t) ==
  /\ pc[t] = "exec_gate"
  /\ Transition(at[t], {"READY"}, Refreshed(at[t], "BUSY"))
  /\ IF row[at[t]].state = "READY"
     THEN Goto(t, "exec_post") /\ UNCHANGED <<at, call, snap>>
     ELSE Return(t)
  /\ UNCHANGED <<execution, worldVars, cpVars, left>>

(* The agent takes its slot and starts the process; 202 with an id comes   *)
(* back, or is lost and looks like a failed connection.                    *)
ExecAccepted(t) ==
  /\ pc[t] = "exec_post" /\ container[at[t]] = "up" /\ slot[at[t]] = "free"
  /\ \E e \in Exec :
       /\ run[e].phase = "unused"
       /\ run' = [run EXCEPT ![e] = [sbx |-> at[t], phase |-> "running", out |-> "none"]]
       /\ slot' = [slot EXCEPT ![at[t]] = e]
       /\ \/ /\ call' = [call EXCEPT ![t].id = e, ![t].sse = "connect"]
             /\ Goto(t, "stream")
             /\ UNCHANGED left
          \/ /\ LossyReplies /\ Spend("fault")
             /\ Goto(t, "release")
             /\ UNCHANGED call
  /\ UNCHANGED <<dbVars, container, saved, at, snap, cpVars>>

(* 409: somebody else holds the slot; #rejectExec leaves the row BUSY.     *)
ExecBusy(t) ==
  /\ pc[t] = "exec_post" /\ container[at[t]] = "up" /\ slot[at[t]] # "free"
  /\ Return(t)
  /\ UNCHANGED <<dbVars, worldVars, cpVars, left>>

(* 400, 503 or no connection: #rejectExec gives the row back.              *)
ExecRefused(t) ==
  /\ pc[t] = "exec_post"
  /\ Goto(t, "release")
  /\ UNCHANGED <<dbVars, worldVars, at, call, snap, cpVars, left>>

(* streamEvents: connect, with Last-Event-ID after the first time. *)
StreamConnects(t) ==
  /\ pc[t] = "stream" /\ call[t].sse = "connect"
  /\ \/ /\ Reachable(at[t])
        /\ call' = [call EXCEPT ![t].sse = "read"]
        /\ UNCHANGED <<pc, left>>
     \/ /\ CallFails(at[t])
        /\ call' = [call EXCEPT ![t].sse = "off"]
        /\ Goto(t, "finish")
  /\ UNCHANGED <<dbVars, worldVars, at, snap, cpVars>>

(* Mutant: any terminal event that is not a kill counts as completed. *)
StreamTerminal_Optimistic(t) ==
  /\ pc[t] = "stream" /\ call[t].sse = "read"
  /\ Reachable(at[t]) /\ run[call[t].id].phase = "over"
  /\ call' = [call EXCEPT ![t].sse = "off",
               ![t].result = IF run[call[t].id].out = "killed" THEN "killed" ELSE "completed"]
  /\ Goto(t, "record")
  /\ UNCHANGED <<dbVars, worldVars, at, snap, cpVars, left>>

StreamTerminal(t) ==
  /\ pc[t] = "stream" /\ call[t].sse = "read"
  /\ Reachable(at[t]) /\ run[call[t].id].phase = "over"
  /\ call' = [call EXCEPT ![t].sse = "off", ![t].result = run[call[t].id].out]
  /\ Goto(t, "record")
  /\ UNCHANGED <<dbVars, worldVars, at, snap, cpVars, left>>

(* A clean end of the body: wait and reconnect, until the tries are used.  *)
StreamCloses(t) ==
  /\ pc[t] = "stream" /\ call[t].sse = "read"
  /\ CallFails(at[t])
  /\ IF call[t].tries < MaxReconnects
     THEN /\ call' = [call EXCEPT ![t].sse = "sleep", ![t].tries = @ + 1]
          /\ UNCHANGED pc
     ELSE /\ call' = [call EXCEPT ![t].sse = "off"]
          /\ Goto(t, "finish")
  /\ UNCHANGED <<dbVars, worldVars, at, snap, cpVars>>

(* A read error is final: readSseStream throws connect_failed. *)
StreamBreaks(t) ==
  /\ pc[t] = "stream" /\ call[t].sse = "read"
  /\ CallFails(at[t])
  /\ call' = [call EXCEPT ![t].sse = "off"]
  /\ Goto(t, "finish")
  /\ UNCHANGED <<dbVars, worldVars, at, snap, cpVars>>

StreamWakes(t) ==
  /\ pc[t] = "stream" /\ call[t].sse = "sleep"
  /\ call' = [call EXCEPT ![t].sse = "connect"]
  /\ UNCHANGED <<dbVars, worldVars, pc, at, snap, cpVars, left>>

(* abort.abort().  A fetch or a read in progress throws; a reconnect that  *)
(* is waiting wakes up and goes on, for an aborted signal fires no second  *)
(* event for the next connection's listener; later nobody listens.         *)
Abort(t, c) ==
  IF c.aborted \/ pc[t] # "stream"
  THEN call' = [call EXCEPT ![t] = c] /\ UNCHANGED pc
  ELSE IF c.sse = "sleep"
  THEN call' = [call EXCEPT ![t] = [c EXCEPT !.aborted = TRUE, !.sse = "connect"]] /\ UNCHANGED pc
  ELSE /\ call' = [call EXCEPT ![t] = [c EXCEPT !.aborted = TRUE, !.sse = "off"]]
       /\ Goto(t, "finish")

(* timeoutMs + grace without a terminal event: POST kill, start killWait.  *)
WatchdogFires(t) ==
  /\ pc[t] = "stream" /\ call[t].watch = "armed"
  /\ call' = [call EXCEPT ![t].watch = "waiting", ![t].kill = "sent"]
  /\ UNCHANGED <<dbVars, worldVars, pc, at, snap, cpVars, left>>

(* POST /exec/{id}/kill, idempotent; only a running execution is signalled.*)
Kill(e) ==
  run' = IF run[e].phase = "running"
         THEN [run EXCEPT ![e].phase = "dying", ![e].out = "killed"] ELSE run

(* The watchdog does not wait for its kill; the call may have moved on.    *)
KillAnswered(t) ==
  /\ call[t].kill = "sent"
  /\ \/ /\ Reachable(at[t]) /\ Kill(call[t].id)
        /\ call' = [call EXCEPT ![t].kill = "ok"]
        /\ UNCHANGED <<pc, left>>
     \/ /\ CallFails(at[t])
        /\ Abort(t, [call[t] EXCEPT !.kill = "failed"])
        /\ UNCHANGED run
  /\ UNCHANGED <<dbVars, container, slot, saved, at, snap, cpVars>>

(* Mutant: the end of killWait is only logged. *)
KillWaitExpires_NoAbort(t) ==
  /\ pc[t] = "stream" /\ call[t].watch = "waiting"
  /\ call' = [call EXCEPT ![t].watch = "expired"]
  /\ UNCHANGED <<dbVars, worldVars, pc, at, snap, cpVars, left>>

KillWaitExpires(t) ==
  /\ pc[t] = "stream" /\ call[t].watch = "waiting"
  /\ Abort(t, [call[t] EXCEPT !.watch = "expired"])
  /\ UNCHANGED <<dbVars, worldVars, at, snap, cpVars, left>>

(* Mutant: an execution nobody could kill is not recorded. *)
FinishKill_SkipsRecord(t) ==
  /\ pc[t] = "finish"
  /\ \/ /\ call[t].watch = "armed" /\ Reachable(at[t]) /\ Kill(call[t].id)
        /\ call' = [call EXCEPT ![t].result = "killed"]
        /\ Goto(t, "finish_record")
        /\ UNCHANGED left
     \/ /\ call[t].watch # "armed" \/ CallFails(at[t])
        /\ UNCHANGED <<call, run, left>>
        /\ Goto(t, "finish_error")
  /\ UNCHANGED <<dbVars, container, slot, saved, at, snap, cpVars>>

(* #finishExec without a terminal event: unless the watchdog already did,  *)
(* try one kill, and record what that says.                                *)
FinishKill(t) ==
  /\ pc[t] = "finish"
  /\ \/ /\ call[t].watch # "armed"
        /\ call' = [call EXCEPT ![t].result = IF call[t].kill = "ok"
                                              THEN "killed" ELSE "failed"]
        /\ UNCHANGED <<run, left>>
     \/ /\ call[t].watch = "armed" /\ Reachable(at[t]) /\ Kill(call[t].id)
        /\ call' = [call EXCEPT ![t].result = "killed"]
        /\ UNCHANGED left
     \/ /\ call[t].watch = "armed" /\ CallFails(at[t])
        /\ call' = [call EXCEPT ![t].result = "failed"]
        /\ UNCHANGED run
  /\ Goto(t, "finish_record")
  /\ UNCHANGED <<dbVars, container, slot, saved, at, snap, cpVars>>

(* recordExecution: an upsert by execution id. *)
RecordExecution(t) ==
  /\ pc[t] \in {"record", "finish_record"}
  /\ execution' = [execution EXCEPT ![call[t].id] = call[t].result]
  /\ Goto(t, IF pc[t] = "record" THEN "release" ELSE "finish_error")
  /\ UNCHANGED <<row, audit, worldVars, at, call, snap, cpVars, left>>

(* #releaseBusy after a terminal event or a rejected POST. *)
ReleaseBusy(t) ==
  /\ pc[t] = "release"
  /\ Transition(at[t], {"BUSY"}, Refreshed(at[t], "READY"))
  /\ Return(t)
  /\ UNCHANGED <<execution, worldVars, cpVars, left>>

(* Mutant: the sandbox is given back although nobody saw the command end. *)
FinishError_BackToReady(t) ==
  /\ pc[t] = "finish_error"
  /\ Transition(at[t], {"BUSY"}, To(at[t], "READY"))
  /\ Return(t)
  /\ UNCHANGED <<execution, worldVars, cpVars, left>>

FinishError(t) ==
  /\ pc[t] = "finish_error"
  /\ Transition(at[t], {"BUSY"}, To(at[t], "ERROR"))
  /\ Return(t)
  /\ UNCHANGED <<execution, worldVars, cpVars, left>>

------------------------------------------------------------------------------
(* destroySandbox *)

(* getSandbox and the decisions taken before the next await: within the    *)
(* grace period of a failed archive the call throws, a DESTROYED row skips *)
(* the archive, and so does (in ArchiveSkip) a row without an endpoint.    *)
BeginDestroy(t, s) ==
  LET archives == Archiving /\ row[s].state # "DESTROYED"
  IN /\ CanStart(t) /\ row[s] # NoRow
     /\ ~ (archives /\ archiveFailed[s] = "grace")
     /\ snap' = [snap EXCEPT ![t] =
          [NoSnap EXCEPT !.state = row[s].state,
                         !.last = archives /\ archiveFailed[s] = "over",
                         !.owed = {e \in Exec : /\ run[e].sbx = s /\ run[e].phase = "over"
                                                /\ execution[e] # "none"}]]
     /\ Goto(t, IF archives /\ row[s].conn THEN "archive" ELSE "stop")
     /\ at' = [at EXCEPT ![t] = s]
     /\ archiveFailed' = IF archives /\ ~ row[s].conn
                         THEN [archiveFailed EXCEPT ![s] = "no"] ELSE archiveFailed
     /\ UNCHANGED <<dbVars, worldVars, call, cp, scan, look>>

DestroyRead(t, s) ==
  /\ t # Sweeper
  /\ BeginDestroy(t, s)
  /\ Spend("destroy") /\ UNCHANGED sweep

(* Mutant: the archive is streamed whoever holds the agent's slot. *)
ArchiveBegin_IgnoresSlot(t) ==
  /\ pc[t] = "archive" /\ container[at[t]] = "up"
  /\ slot' = [slot EXCEPT ![at[t]] = "job"]
  /\ snap' = [snap EXCEPT ![t].covers =
                {e \in Exec : run[e].sbx = at[t] /\ run[e].phase = "over"}]
  /\ Goto(t, "archiving")
  /\ UNCHANGED <<dbVars, container, run, saved, at, call, cpVars, left>>

(* GET /archive takes the agent's slot and streams what is there now.      *)
ArchiveBegin(t) ==
  /\ pc[t] = "archive" /\ container[at[t]] = "up" /\ slot[at[t]] = "free"
  /\ slot' = [slot EXCEPT ![at[t]] = "job"]
  /\ snap' = [snap EXCEPT ![t].covers =
                {e \in Exec : run[e].sbx = at[t] /\ run[e].phase = "over"}]
  /\ Goto(t, "archiving")
  /\ UNCHANGED <<dbVars, container, run, saved, at, call, cpVars, left>>

ArchiveEnd(t) ==
  /\ pc[t] = "archiving" /\ container[at[t]] = "up"
  /\ saved' = saved \cup snap[t].covers
  /\ slot' = [slot EXCEPT ![at[t]] = IF @ = "job" THEN "free" ELSE @]
  /\ archiveFailed' = IF snap[t].last THEN [archiveFailed EXCEPT ![at[t]] = "no"]
                                      ELSE archiveFailed
  /\ Goto(t, "stop")
  /\ UNCHANGED <<dbVars, container, run, at, call, snap, sweep, cp, scan, look, left>>

(* Mutant: a failed archive does not keep the sandbox from being destroyed. *)
ArchiveFails_DestroysAnyway(t) ==
  /\ pc[t] \in {"archive", "archiving"}
  /\ slot' = [slot EXCEPT ![at[t]] =
                IF pc[t] = "archiving" /\ @ = "job" THEN "free" ELSE @]
  /\ archiveFailed' = [archiveFailed EXCEPT ![at[t]] = IF snap[t].last THEN "no" ELSE "grace"]
  /\ Goto(t, "stop")
  /\ UNCHANGED <<dbVars, container, run, saved, at, call, snap, sweep, cp, scan, look, left>>

(* Every attempt failed.  The first time the grace period starts and the   *)
(* row is to become ERROR; after the grace period the destroy is forced.   *)
ArchiveFails(t) ==
  /\ pc[t] \in {"archive", "archiving"}
  /\ slot' = [slot EXCEPT ![at[t]] =
                IF pc[t] = "archiving" /\ @ = "job" THEN "free" ELSE @]
  /\ IF snap[t].last
     THEN /\ archiveFailed' = [archiveFailed EXCEPT ![at[t]] = "no"]
          /\ snap' = [snap EXCEPT ![t].forced = TRUE]
          /\ Goto(t, "stop")
     ELSE /\ archiveFailed' = [archiveFailed EXCEPT ![at[t]] = "grace"]
          /\ Goto(t, "archive_error")
          /\ UNCHANGED snap
  /\ UNCHANGED <<dbVars, container, run, saved, at, call, sweep, cp, scan, look, left>>

ArchiveError(t) ==
  /\ pc[t] = "archive_error"
  /\ Transition(at[t], {"CREATING", "READY", "BUSY"},
                [To(at[t], "ERROR") EXCEPT !.reason = "archive_failed"])
  /\ Return(t)
  /\ UNCHANGED <<execution, worldVars, cpVars, left>>

(* provider.destroy: docker stop, so the agent kills what it runs ...      *)
StopContainer(t) ==
  /\ pc[t] = "stop"
  /\ LET s == at[t] IN
     IF container[s] \in {"starting", "up"}
     THEN /\ container' = [container EXCEPT ![s] = "stopping"]
          /\ run' = [e \in Exec |-> IF run[e].sbx = s /\ run[e].phase = "running"
                       THEN [run[e] EXCEPT !.phase = "dying", !.out = "killed"] ELSE run[e]]
     ELSE UNCHANGED <<container, run>>
  /\ Goto(t, "remove")
  /\ UNCHANGED <<dbVars, slot, saved, at, call, snap, cpVars, left>>

(* ... then DELETE force=1 and the volume; a 404 is success.               *)
RemoveContainer(t) ==
  /\ pc[t] = "remove"
  /\ container' = [container EXCEPT ![at[t]] = "absent"]
  /\ ExecsDieIn(at[t])
  /\ Goto(t, "destroyed")
  /\ UNCHANGED <<dbVars, saved, at, call, snap, cpVars, left>>

(* Docker fails at any of these steps, the volume's included. *)
RemoveFails(t) ==
  /\ pc[t] \in {"stop", "remove"} /\ Spend("fault")
  /\ \/ UNCHANGED <<container, run, slot>>
     \/ /\ pc[t] = "remove"
        /\ container' = [container EXCEPT ![at[t]] = "absent"]
        /\ ExecsDieIn(at[t])
  /\ Goto(t, "remove_failed")
  /\ UNCHANGED <<dbVars, saved, at, call, snap, cpVars>>

RemoveFailed(t) ==
  /\ pc[t] = "remove_failed"
  /\ Transition(at[t], ExpirableStates, To(at[t], "ERROR"))
  /\ Return(t)
  /\ UNCHANGED <<execution, worldVars, cpVars, left>>

Destroyed(t) ==
  /\ pc[t] = "destroyed"
  /\ IF snap[t].state = "DESTROYED"
     THEN UNCHANGED <<row, audit>>
     ELSE Transition(at[t], ExpirableStates,
            [To(at[t], "DESTROYED") EXCEPT
               !.reason = IF snap[t].forced THEN "archive_failed" ELSE "other"])
  /\ archiveFailed' = [archiveFailed EXCEPT ![at[t]] = "no"]
  /\ Return(t)
  /\ UNCHANGED <<execution, worldVars, sweep, cp, scan, look, left>>

------------------------------------------------------------------------------
(* The TTL sweeper *)

(* sweepOnce lists the expired rows once and works through that list.      *)
SweepList ==
  /\ CanStart(Sweeper) /\ sweep = {}
  /\ sweep' = {s \in Sandbox : row[s].state \in ExpirableStates /\ ~ row[s].fresh}
  /\ sweep' # {}
  /\ UNCHANGED <<dbVars, worldVars, threadVars, archiveFailed, cp, scan, look, left>>

SweepDestroy(s) ==
  /\ s \in sweep /\ sweep' = sweep \ {s}
  /\ BeginDestroy(Sweeper, s)
  /\ UNCHANGED left

(* destroySandbox threw archive_failed at once; on to the next row.        *)
SweepSkip(s) ==
  /\ CanStart(Sweeper) /\ s \in sweep
  /\ Archiving /\ row[s].state # "DESTROYED" /\ archiveFailed[s] = "grace"
  /\ sweep' = sweep \ {s}
  /\ UNCHANGED <<dbVars, worldVars, threadVars, archiveFailed, cp, scan, look, left>>

(* Time passes: last_active_at falls behind the TTL, the grace period ends.*)
Expire(s) ==
  /\ row[s] # NoRow /\ row[s].fresh
  /\ row' = [row EXCEPT ![s].fresh = FALSE]
  /\ UNCHANGED <<audit, execution, worldVars, threadVars, cpVars, left>>

GraceEnds(s) ==
  /\ archiveFailed[s] = "grace"
  /\ archiveFailed' = [archiveFailed EXCEPT ![s] = "over"]
  /\ UNCHANGED <<dbVars, worldVars, threadVars, sweep, cp, scan, look, left>>

------------------------------------------------------------------------------
(* The agents and their containers *)

ContainerUp(s) ==
  /\ container[s] = "starting"
  /\ container' = [container EXCEPT ![s] = "up"]
  /\ UNCHANGED <<dbVars, slot, run, saved, threadVars, cpVars, left>>

ContainerExits(s) ==
  /\ container[s] \in {"starting", "up", "stopping"}
  /\ IF container[s] = "stopping" THEN UNCHANGED left ELSE Spend("fault")
  /\ container' = [container EXCEPT ![s] = "exited"]
  /\ ExecsDieIn(s)
  /\ UNCHANGED <<dbVars, saved, threadVars, cpVars>>

(* The agent's own timeout starts its SIGTERM .. SIGKILL ladder.           *)
AgentTimesOut(e) ==
  /\ run[e].phase = "running"
  /\ run' = [run EXCEPT ![e].phase = "dying", ![e].out = "timeout"]
  /\ UNCHANGED <<dbVars, container, slot, saved, threadVars, cpVars, left>>

(* The command ends by itself, or could not be started: from here on its   *)
(* outcome is decided and a kill changes nothing.                          *)
AgentEnds(e) ==
  /\ run[e].phase = "running"
  /\ \E out \in {"completed", "failed"} :
       run' = [run EXCEPT ![e].phase = "dying", ![e].out = out]
  /\ UNCHANGED <<dbVars, container, slot, saved, threadVars, cpVars, left>>

(* finalize: the terminal event is published and the slot given back.      *)
AgentFinishes(e) ==
  /\ run[e].phase = "dying"
  /\ run' = [run EXCEPT ![e].phase = "over"]
  /\ slot' = [slot EXCEPT ![run[e].sbx] = IF @ = e THEN "free" ELSE @]
  /\ UNCHANGED <<dbVars, container, saved, threadVars, cpVars, left>>

(* A diff, an archive or an execAndWait of the repo layer: they share the  *)
(* slot and bypass the READY -> BUSY gate.                                 *)
JobBegins(s) ==
  /\ cp = "serving" /\ container[s] = "up" /\ slot[s] = "free" /\ row[s].conn
  /\ slot' = [slot EXCEPT ![s] = "job"]
  /\ UNCHANGED <<dbVars, container, run, saved, threadVars, cpVars, left>>

JobEnds(s) ==
  /\ slot[s] = "job" /\ \A t \in Thread : ~ (pc[t] = "archiving" /\ at[t] = s)
  /\ slot' = [slot EXCEPT ![s] = "free"]
  /\ UNCHANGED <<dbVars, container, run, saved, threadVars, cpVars, left>>

------------------------------------------------------------------------------
(* Death of the control plane process, and reconcile() when it is back *)

Crash ==
  /\ cp # "down" /\ Spend("crash")
  /\ cp' = "down"
  /\ pc' = [t \in Thread |-> "idle"]
  /\ at' = [t \in Thread |-> None]
  /\ call' = [t \in Thread |-> NoCall]
  /\ snap' = [t \in Thread |-> NoSnap]
  /\ archiveFailed' = [s \in Sandbox |-> "no"]
  /\ sweep' = {} /\ scan' = {} /\ look' = NoLook
  /\ UNCHANGED <<dbVars, worldVars>>

reconcileVars == <<scan, look>>

Restart ==
  /\ cp = "down" /\ cp' = "reconcile"
  /\ scan' = {s \in Sandbox : row[s].state \in ReconcileStates}
  /\ UNCHANGED <<dbVars, worldVars, threadVars, archiveFailed, sweep, look, left>>

(* provider.inspect of one row.  A call that throws leaves the row alone.  *)
Inspect(s) ==
  /\ cp = "reconcile" /\ s \in scan /\ look = NoLook
  /\ \/ /\ look' = [NoLook EXCEPT !.sbx = s, !.step = "act",
             !.what = IF container[s] \in {"absent", "exited"} THEN "gone"
                      ELSE IF container[s] # "up" THEN "unreachable"
                      ELSE IF slot[s] = "free" THEN "idle" ELSE "active",
             !.id = IF container[s] = "up" /\ slot[s] \in Exec THEN slot[s] ELSE None]
        /\ UNCHANGED <<scan, left>>
     \/ /\ Spend("fault")
        /\ scan' = scan \ {s} /\ UNCHANGED look
  /\ UNCHANGED <<dbVars, worldVars, threadVars, archiveFailed, sweep, cp>>

RowDone == look' = NoLook /\ scan' = scan \ {look.sbx}

(* checkSandbox: move the row to what the inspection says.                 *)
CheckSandbox ==
  /\ look.step = "act"
  /\ LET s == look.sbx IN
       \/ /\ look.what = "gone"
          /\ Transition(s, ReconcileStates, To(s, "ERROR"))
       \/ /\ look.what = "idle" /\ row[s].state = "BUSY"
          /\ Transition(s, {"BUSY"}, To(s, "READY"))
       \/ /\ look.what \in {"idle", "active"} /\ row[s].state = "CREATING"
          /\ Transition(s, {"CREATING"}, To(s, "READY"))
       \/ /\ look.what = "active" /\ row[s].state = "BUSY" /\ ~ row[s].conn
          /\ Transition(s, {"BUSY"}, To(s, "ERROR"))
       \/ /\ look.what = "unreachable" \/ (look.what # "gone" /\ row[s].state = "READY")
          /\ UNCHANGED <<row, audit>>
  /\ RowDone
  /\ UNCHANGED <<execution, worldVars, threadVars, archiveFailed, sweep, cp, left>>

(* killRestartedExecution: only a successful kill goes on to the record    *)
(* and the release.  A job's id is not an execution the agent can kill.    *)
KillRestarted ==
  /\ look.step = "act" /\ look.what = "active"
  /\ row[look.sbx].state = "BUSY" /\ row[look.sbx].conn
  /\ \/ /\ look.id # None /\ Reachable(look.sbx) /\ Kill(look.id)
        /\ look' = [look EXCEPT !.step = "record"]
        /\ UNCHANGED <<scan, left>>
     \/ /\ IF look.id = None THEN UNCHANGED left ELSE CallFails(look.sbx)
        /\ RowDone /\ UNCHANGED run
  /\ UNCHANGED <<dbVars, container, slot, saved, threadVars, archiveFailed, sweep, cp>>

RecordRestarted ==
  /\ look.step = "record"
  /\ execution' = [execution EXCEPT ![look.id] = "killed"]
  /\ look' = [look EXCEPT !.step = "release"]
  /\ UNCHANGED <<row, audit, worldVars, threadVars, archiveFailed, sweep, cp, scan, left>>

ReleaseRestarted ==
  /\ look.step = "release"
  /\ Transition(look.sbx, {"BUSY"}, To(look.sbx, "READY"))
  /\ RowDone
  /\ UNCHANGED <<execution, worldVars, threadVars, archiveFailed, sweep, cp, left>>

(* sweepOrphans: list the managed containers, then check each one's row.   *)
ListManaged ==
  /\ cp = "reconcile" /\ scan = {} /\ look = NoLook
  /\ cp' = "orphans"
  /\ scan' = {s \in Sandbox : container[s] # "absent"}
  /\ UNCHANGED <<dbVars, worldVars, threadVars, archiveFailed, sweep, look, left>>

CheckOrphan(s) ==
  /\ cp = "orphans" /\ s \in scan
  /\ scan' = scan \ {s}
  /\ IF row[s].state \in {"none", "DESTROYED"}
     THEN \/ /\ container' = [container EXCEPT ![s] = "absent"]
             /\ ExecsDieIn(s) /\ UNCHANGED left
          \/ Spend("fault") /\ UNCHANGED <<container, run, slot>>
     ELSE UNCHANGED <<container, run, slot, left>>
  /\ UNCHANGED <<dbVars, saved, threadVars, archiveFailed, sweep, cp, look>>

ReconcileDone ==
  /\ cp = "orphans" /\ scan = {}
  /\ cp' = "serving"
  /\ UNCHANGED <<dbVars, worldVars, threadVars, archiveFailed, sweep, scan, look, left>>

------------------------------------------------------------------------------
CreateStep(t) ==
  \/ CreateContainer(t) \/ CreateReady(t) \/ CreateGivesUp(t)
  \/ CreateFailed(t) \/ CreateCommit(t) \/ CreateUndo(t)

ExecStep(t) ==
  \/ ExecGate(t) \/ ExecAccepted(t) \/ ExecBusy(t) \/ ExecRefused(t)
  \/ FinishKill(t) \/ RecordExecution(t) \/ ReleaseBusy(t) \/ FinishError(t)

StreamEnds(t) == StreamCloses(t) \/ StreamBreaks(t)

StreamStep(t) ==
  \/ StreamConnects(t) \/ StreamTerminal(t) \/ StreamEnds(t) \/ StreamWakes(t)
  \/ WatchdogFires(t) \/ KillAnswered(t) \/ KillWaitExpires(t)

ArchiveStep(t) == ArchiveBegin(t) \/ ArchiveEnd(t) \/ ArchiveFails(t) \/ ArchiveError(t)

DestroyStep(t) ==
  \/ ArchiveStep(t)
  \/ StopContainer(t) \/ RemoveContainer(t) \/ RemoveFails(t) \/ RemoveFailed(t) \/ Destroyed(t)

ThreadStep(t) == CreateStep(t) \/ ExecStep(t) \/ StreamStep(t) \/ DestroyStep(t)

NewCall(t, s) == CreateInsert(t, s) \/ ExecRead(t, s) \/ DestroyRead(t, s)

SweepStep == SweepList \/ \E s \in Sandbox : SweepDestroy(s) \/ SweepSkip(s)

TimeStep(s) == Expire(s) \/ GraceEnds(s)

WorldStep(s) == ContainerUp(s) \/ ContainerExits(s) \/ JobBegins(s) \/ JobEnds(s)

AgentStep(e) == AgentTimesOut(e) \/ AgentEnds(e) \/ AgentFinishes(e)

ReconcileStep ==
  \/ CheckSandbox \/ KillRestarted \/ RecordRestarted \/ ReleaseRestarted
  \/ ListManaged \/ ReconcileDone
  \/ \E s \in Sandbox : Inspect(s) \/ CheckOrphan(s)

Next ==
  \/ \E t \in Thread : ThreadStep(t) \/ \E s \in Sandbox : NewCall(t, s)
  \/ SweepStep
  \/ \E s \in Sandbox : TimeStep(s) \/ WorldStep(s)
  \/ \E e \in Exec : AgentStep(e)
  \/ Crash \/ Restart \/ ReconcileStep

Spec == Init /\ [][Next]_vars

(* What the code waits for always comes: each call of the process makes    *)
(* its next step (requests have timeouts, Docker calls a deadline), timers *)
(* fire, a broken connection is noticed, the process is restarted.  Nothing*)
(* is assumed of the agent, of new calls or of faults.                     *)
Fairness ==
  /\ \A t \in Thread :
       /\ WF_vars(CreateStep(t)) /\ WF_vars(ExecStep(t)) /\ WF_vars(DestroyStep(t))
       /\ WF_vars(StreamConnects(t)) /\ WF_vars(StreamTerminal(t)) /\ WF_vars(StreamWakes(t))
       /\ WF_vars(at[t] # None /\ ~ Reachable(at[t]) /\ StreamEnds(t))
       /\ WF_vars(WatchdogFires(t)) /\ WF_vars(KillAnswered(t)) /\ WF_vars(KillWaitExpires(t))
  /\ WF_vars(SweepStep)
  /\ \A s \in Sandbox : WF_vars(GraceEnds(s))
  /\ WF_vars(Restart) /\ WF_vars(ReconcileStep)

FairSpec == Spec /\ Fairness

------------------------------------------------------------------------------
DbTypeOK ==
  /\ row \in [Sandbox -> RowType]
  /\ audit \in [Sandbox -> Seq((States \cup {"none"}) \X States)]
  /\ execution \in [Exec -> Outcomes \cup {"none"}]

WorldTypeOK ==
  /\ container \in [Sandbox -> Containers]
  /\ slot \in [Sandbox -> Exec \cup {"free", "job"}]
  /\ run \in [Exec -> RunType]
  /\ saved \subseteq Exec

ThreadTypeOK ==
  /\ pc \in [Thread -> Pcs]
  /\ at \in [Thread -> Sandbox \cup {None}]
  /\ call \in [Thread -> CallType]
  /\ snap \in [Thread -> SnapType]

CpTypeOK ==
  /\ archiveFailed \in [Sandbox -> {"no", "grace", "over"}]
  /\ sweep \subseteq Sandbox
  /\ cp \in {"serving", "down", "reconcile", "orphans"}
  /\ scan \subseteq Sandbox
  /\ look \in LookType
  /\ left \in [{"call", "destroy", "crash", "fault"} -> Nat]

(* Types of all variables. *)
TypeOK == DbTypeOK /\ WorldTypeOK /\ ThreadTypeOK /\ CpTypeOK

(* What a thread or the reconcile loop has in hand is really there: a busy *)
(* thread has a sandbox, a stream or a pending kill has an execution, an   *)
(* execution has a sandbox, and reconcile acts only while it runs.         *)
InHand ==
  /\ \A t \in Thread :
       /\ pc[t] # "idle" => at[t] \in Sandbox
       /\ pc[t] \in {"stream", "finish", "finish_record", "record"} \/ call[t].kill = "sent"
            => call[t].id \in Exec /\ pc[t] # "idle"
  /\ \A e \in Exec : run[e].phase # "unused" => run[e].sbx \in Sandbox
  /\ look.step # "none" => look.sbx \in Sandbox /\ cp = "reconcile"
  /\ look.step \in {"record", "release"} => look.id \in Exec

(* Requests and sweeps are served only after reconcile has ended: nothing  *)
(* of a crashed process runs on, and reconcile has no competitor.          *)
ReconcileAlone == cp # "serving" => \A t \in Thread : pc[t] = "idle"

(* While a call holds a sandbox its row is BUSY, or somebody has taken it  *)
(* out of service for good; it is never back in READY behind the call.     *)
HolderKeepsRow ==
  \A t \in Thread :
    pc[t] \in HolderPcs => row[at[t]].state \in {"BUSY", "ERROR", "DESTROYED"}

(* "READY -> BUSY is the concurrency gate" (sandbox-manager.ts:423): two   *)
(* calls never hold the same sandbox between winning the compare-and-set   *)
(* and giving the row back, whatever destroy, sweeper, watchdog and        *)
(* restart do to the row meanwhile.                                        *)
GateExclusive ==
  \A t, u \in Thread :
    t # u /\ pc[t] \in HolderPcs /\ pc[u] \in HolderPcs => at[t] # at[u]

(* A sandbox the next caller may get is not running a command the control  *)
(* plane started: a READY row has no execution that is still live and that *)
(* nobody has asked to die (docs/sandbox.md:260, "READY: idle").           *)
ReadyMeansIdle ==
  \A e \in Exec : run[e].phase = "running" => row[run[e].sbx].state # "READY"

(* A row that says completed or timeout was written from the terminal      *)
(* event of that very execution, and the upsert never puts one of these    *)
(* over another outcome (db/executions.ts:77): no kill, reconnect, crash   *)
(* or reconcile makes up a success.                                        *)
ResultsAreTrue ==
  \A e \in Exec : execution[e] \in {"completed", "timeout"} => execution[e] = run[e].out

(* Every execution an agent started is in the executions table, or a live  *)
(* call is still responsible for writing it, or the process has died since.*)
EveryRunIsAccounted ==
  \A e \in Exec :
    \/ run[e].phase = "unused" \/ execution[e] # "none" \/ left.crash < MaxCrashes
    \/ \E t \in Thread : call[t].id = e

(* sandbox-manager.ts:733: what had been recorded before a destroy began   *)
(* is lost with the container only if it is in an archive or if the row    *)
(* will say archive_failed.                                                *)
LossIsForced ==
  [][\A t \in Thread :
       (/\ Archiving /\ pc[t] = "remove" /\ pc'[t] # "remove" /\ snap[t].state # "DESTROYED"
        /\ container[at[t]] # "absent" /\ container'[at[t]] = "absent")
       => snap[t].owed \subseteq saved \/ snap[t].forced]_vars

(* Once reconcile is through, every row fits the world again (no fault     *)
(* hitting it): no container without a living row, no READY or BUSY row    *)
(* without a container, no execution of the old process left running under *)
(* a row that will take commands.                                          *)
ReconcileAgrees ==
  [][cp = "orphans" /\ cp' = "serving" =>
       \A s \in Sandbox :
         /\ row[s].state \in {"none", "DESTROYED"} => container[s] = "absent"
         /\ row[s].state \in {"READY", "BUSY"} => container[s] # "absent"
         /\ \A e \in Exec : run[e].sbx = s /\ run[e].phase = "running"
              => row[s].state = "ERROR" \/ container[s] = "stopping"]_vars

(* The agent inside one sandbox, and the promise it keeps: a command, a    *)
(* diff or an archive at a time, an outcome decided once, a terminal event *)
(* together with the free slot.  AgentExec implements the same promise, so *)
(* nothing the manager meets here is beyond the real agent.                *)
Agent(s) == INSTANCE AgentView WITH
  slot <- slot[s],
  phase <- [e \in Exec |-> IF run[e].sbx = s THEN run[e].phase ELSE "unused"],
  out <- [e \in Exec |-> IF run[e].sbx = s THEN run[e].out ELSE "none"]
AgentsKeepPromise ==
  /\ \A s \in Sandbox : Agent(s)!Init
  /\ [][\A s \in Sandbox : [Agent(s)!Next]_(Agent(s)!vars)]_vars

Lifecycle == INSTANCE SandboxLifecycle WITH state <- [s \in Sandbox |-> row[s].state]

(* Every change of a row is one legal edge with its audit entry: the       *)
(* manager implements the lifecycle the database promises.                 *)
LifecycleSpec == Lifecycle!Spec
TrailIsPath == Lifecycle!TrailIsPath

(* docs/sandbox.md section D, "TTL is the safety net: at expiry, whatever  *)
(* the state, it is destroyed": an expired row is destroyed, or is used    *)
(* again, or the process dies.                                             *)
TtlReclaims ==
  \A s \in Sandbox :
    (row[s].state \in ExpirableStates /\ ~ row[s].fresh /\ cp = "serving")
      ~> (row[s].state = "DESTROYED" \/ row[s].fresh \/ cp = "down")

(* The watchdog bounds every call: a call that follows an event stream     *)
(* ends, unless its abort fell into the pause before a reconnect.          *)
AbortLost(t) == pc[t] = "stream" /\ call[t].aborted
ExecReturnsOrAbortLost ==
  \A t \in Thread : pc[t] = "stream" ~> pc[t] = "idle" \/ AbortLost(t)

=============================================================================
