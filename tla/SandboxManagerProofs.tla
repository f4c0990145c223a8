----------------------- MODULE SandboxManagerProofs -----------------------
(***************************************************************************)
(* Theorems about SandboxManager for any number of sandboxes, callers and  *)
(* executions and any value of the bounds.                                 *)
(***************************************************************************)
EXTENDS SandboxManager, TLAPS

(* Every row sandbox_transition() writes is a row, and so is its audit.    *)
LEMMA TransitionType ==
  ASSUME DbTypeOK, NEW s \in Sandbox, NEW from, NEW new \in RowType, new.state \in States,
         Transition(s, from, new)
  PROVE  /\ row' \in [Sandbox -> RowType]
         /\ audit' \in [Sandbox -> Seq((States \cup {"none"}) \X States)]
<1>1. row[s].state \in States \cup {"none"} /\ audit[s] \in Seq((States \cup {"none"}) \X States)
  BY DEF DbTypeOK, RowType
<1>2. Append(audit[s], <<row[s].state, new.state>>) \in Seq((States \cup {"none"}) \X States)
  BY <1>1
<1>. QED  BY <1>1, <1>2 DEF Transition, DbTypeOK

LEMMA ToType ==
  ASSUME DbTypeOK, NEW s \in Sandbox, NEW st \in States
  PROVE  /\ To(s, st) \in RowType /\ To(s, st).state = st
         /\ Refreshed(s, st) \in RowType /\ Refreshed(s, st).state = st
  BY DEF DbTypeOK, To, Refreshed, RowType, Reasons

LEMMA KillType ==
  ASSUME run \in [Exec -> RunType], NEW e \in Exec, Kill(e)
  PROVE  /\ run' \in [Exec -> RunType]
         /\ \A x \in Exec : run'[x].sbx = run[x].sbx
                             /\ (run'[x].phase # "unused" => run[x].phase # "unused")
<1>1. run' \in [Exec -> RunType]
  BY DEF Kill, RunType, Phases, Outcomes
<1>. QED  BY <1>1 DEF Kill, RunType

LEMMA ExecsDieType ==
  ASSUME WorldTypeOK, NEW s \in Sandbox, ExecsDieIn(s)
  PROVE  run' \in [Exec -> RunType] /\ slot' \in [Sandbox -> Exec \cup {"free", "job"}]
  BY DEF ExecsDieIn, WorldTypeOK, RunType, Phases

LEMMA ReturnType ==
  ASSUME ThreadTypeOK, NEW t \in Thread, Return(t)
  PROVE  ThreadTypeOK'
  BY BoundAssumption DEF Return, ThreadTypeOK, Pcs, CallType, SnapType, NoCall, NoSnap, Outcomes

LEMMA SpendType ==
  ASSUME left \in [{"call", "destroy", "crash", "fault"} -> Nat],
         NEW what \in {"call", "destroy", "crash", "fault"}, Spend(what)
  PROVE  left' \in [{"call", "destroy", "crash", "fault"} -> Nat]
  BY DEF Spend

(* Facts about labels and fields used without comment below. *)
LEMMA Labels ==
  /\ Sweeper \in Thread /\ None \notin Sandbox /\ None \notin Exec
  /\ HolderPcs \subseteq Pcs /\ "idle" \notin HolderPcs
  /\ HolderPcs \cap CreatePcs = {} /\ HolderPcs \cap DestroyPcs = {}
  BY ThreadAssumption DEF Thread, HolderPcs, Pcs, ExecPcs, CreatePcs, DestroyPcs

LEMMA GotoType ==
  ASSUME ThreadTypeOK, NEW t \in Thread, NEW label \in Pcs, Goto(t, label)
  PROVE  pc' \in [Thread -> Pcs] /\ pc'[t] = label
  BY DEF Goto, ThreadTypeOK

(* Returning, or moving on without touching what is in hand, keeps InHand. *)
LEMMA ReturnInHand ==
  ASSUME ThreadTypeOK, InHand, NEW t \in Thread, Return(t), UNCHANGED <<run, look, cp>>
  PROVE  InHand'
  BY DEF Return, InHand, NoCall, ThreadTypeOK

LEMMA GotoInHand ==
  ASSUME ThreadTypeOK, InHand, NEW t \in Thread, pc[t] # "idle",
         NEW label \in Pcs \ {"idle"}, Goto(t, label),
         label \in {"stream", "finish", "finish_record", "record"} => call[t].id \in Exec,
         UNCHANGED <<at, call, run, look, cp>>
  PROVE  InHand'
  BY DEF Goto, InHand, ThreadTypeOK

(* A step of createSandbox. *)
LEMMA CreateType ==
  ASSUME TypeOK, InHand, NEW t \in Thread, CreateStep(t)
  PROVE  TypeOK' /\ InHand'
<1>. USE DEF TypeOK
<1>1. CASE CreateContainer(t)
  BY <1>1 DEF CreateContainer, InHand, DbTypeOK, WorldTypeOK, ThreadTypeOK, CpTypeOK, Goto,
     dbVars, cpVars, Containers, Pcs, CreatePcs
<1>2. CASE CreateReady(t)
  BY <1>2 DEF CreateReady, InHand, DbTypeOK, WorldTypeOK, ThreadTypeOK, CpTypeOK, Goto,
     dbVars, cpVars, worldVars, Pcs, CreatePcs
<1>3. CASE CreateGivesUp(t)
  <2>1. at[t] \in Sandbox /\ pc[t] # "idle"
    BY <1>3 DEF CreateGivesUp, InHand
  <2>2. WorldTypeOK' /\ left' \in [{"call", "destroy", "crash", "fault"} -> Nat]
    <3>1. CASE UNCHANGED left /\ ExecsDieIn(at[t])
               /\ container' = [container EXCEPT ![at[t]] = "absent"]
      BY <1>3, <2>1, <3>1, ExecsDieType DEF CreateGivesUp, WorldTypeOK, Containers, CpTypeOK
    <3>2. CASE Spend("fault") /\ UNCHANGED <<container, run, slot>>
      BY <1>3, <3>2, SpendType DEF CreateGivesUp, WorldTypeOK, CpTypeOK
    <3>. QED  BY <1>3, <3>1, <3>2 DEF CreateGivesUp
  <2>3. pc' \in [Thread -> Pcs] /\ pc'[t] = "create_failed" /\ \A u \in Thread \ {t} : pc'[u] = pc[u]
    BY <1>3 DEF CreateGivesUp, Goto, ThreadTypeOK, Pcs, CreatePcs
  <2>4. \A e \in Exec : run'[e].phase # "unused" => run'[e].sbx \in Sandbox
    BY <1>3 DEF CreateGivesUp, ExecsDieIn, InHand, WorldTypeOK, RunType
  <2>5. InHand'
    BY <1>3, <2>1, <2>3, <2>4 DEF CreateGivesUp, InHand, cpVars
  <2>. QED
    BY <1>3, <2>2, <2>3, <2>5 DEF CreateGivesUp, DbTypeOK, ThreadTypeOK, CpTypeOK, dbVars, cpVars
<1>4. CASE CreateFailed(t)
  <2>1. at[t] \in Sandbox
    BY <1>4 DEF CreateFailed, InHand
  <2>2. DbTypeOK'
    BY <1>4, <2>1, TransitionType, ToType DEF CreateFailed, DbTypeOK, States
  <2>3. InHand'
    BY <1>4, ReturnInHand DEF CreateFailed, worldVars, cpVars
  <2>. QED
    BY <1>4, <2>2, <2>3, ReturnType DEF CreateFailed, WorldTypeOK, CpTypeOK, worldVars, cpVars
<1>5. CASE CreateCommit(t)
  <2>1. at[t] \in Sandbox /\ pc[t] # "idle"
    BY <1>5 DEF CreateCommit, InHand
  <2>2. [Refreshed(at[t], "READY") EXCEPT !.conn = TRUE] \in RowType
        /\ [Refreshed(at[t], "READY") EXCEPT !.conn = TRUE].state = "READY"
    <3>1. \A r \in RowType : /\ [r EXCEPT !.conn = TRUE] \in RowType
                              /\ [r EXCEPT !.conn = TRUE].state = r.state
      BY DEF RowType
    <3>. QED  BY <2>1, <3>1, ToType DEF States
  <2>3. DbTypeOK'
    BY <1>5, <2>1, <2>2, TransitionType DEF CreateCommit, DbTypeOK, States
  <2>4. ThreadTypeOK'
    BY <1>5, ReturnType, GotoType DEF CreateCommit, ThreadTypeOK, Pcs, CreatePcs
  <2>5. InHand'
    BY <1>5, <2>1, ReturnInHand, GotoInHand DEF CreateCommit, worldVars, cpVars, Pcs, CreatePcs
  <2>. QED
    BY <1>5, <2>3, <2>4, <2>5 DEF CreateCommit, WorldTypeOK, CpTypeOK, worldVars, cpVars
<1>6. CASE CreateUndo(t)
  <2>1. at[t] \in Sandbox
    BY <1>6 DEF CreateUndo, InHand
  <2>2. WorldTypeOK' /\ left' \in [{"call", "destroy", "crash", "fault"} -> Nat]
    <3>1. CASE UNCHANGED left /\ ExecsDieIn(at[t])
               /\ container' = [container EXCEPT ![at[t]] = "absent"]
      BY <1>6, <2>1, <3>1, ExecsDieType DEF CreateUndo, WorldTypeOK, Containers, CpTypeOK
    <3>2. CASE Spend("fault") /\ UNCHANGED <<container, run, slot>>
      BY <1>6, <3>2, SpendType DEF CreateUndo, WorldTypeOK, CpTypeOK
    <3>. QED  BY <1>6, <3>1, <3>2 DEF CreateUndo
  <2>3. \A e \in Exec : run'[e].phase # "unused" => run'[e].sbx \in Sandbox
    BY <1>6 DEF CreateUndo, ExecsDieIn, InHand, WorldTypeOK, RunType
  <2>4. InHand'
    BY <1>6, <2>3 DEF CreateUndo, Return, InHand, NoCall, ThreadTypeOK, cpVars
  <2>. QED
    BY <1>6, <2>2, <2>4, ReturnType DEF CreateUndo, DbTypeOK, CpTypeOK, dbVars, cpVars
<1>. QED  BY <1>1, <1>2, <1>3, <1>4, <1>5, <1>6 DEF CreateStep

(* A step of execInSandbox outside its event stream. *)
LEMMA ExecType ==
  ASSUME TypeOK, InHand, NEW t \in Thread, ExecStep(t)
  PROVE  TypeOK' /\ InHand'
<1>. USE DEF TypeOK
<1>0. at[t] \in Sandbox /\ pc[t] # "idle"
  BY DEF InHand, ExecStep, ExecGate, ExecAccepted, ExecBusy, ExecRefused, FinishKill,
     RecordExecution, ReleaseBusy, FinishError
<1>1. CASE ExecGate(t)
  <2>1. DbTypeOK'
    BY <1>0, <1>1, TransitionType, ToType DEF ExecGate, DbTypeOK, States
  <2>2. ThreadTypeOK'
    BY <1>1, ReturnType, GotoType DEF ExecGate, ThreadTypeOK, Pcs, ExecPcs
  <2>3. InHand'
    BY <1>0, <1>1, ReturnInHand, GotoInHand DEF ExecGate, worldVars, cpVars, Pcs, ExecPcs
  <2>. QED
    BY <1>1, <2>1, <2>2, <2>3 DEF ExecGate, WorldTypeOK, CpTypeOK, worldVars, cpVars
<1>2. CASE ExecAccepted(t)
  <2>1. PICK e \in Exec :
          /\ run' = [run EXCEPT ![e] = [sbx |-> at[t], phase |-> "running", out |-> "none"]]
          /\ slot' = [slot EXCEPT ![at[t]] = e]
          /\ \/ /\ call' = [call EXCEPT ![t].id = e, ![t].sse = "connect"]
                /\ Goto(t, "stream")
                /\ UNCHANGED left
             \/ /\ Spend("fault") /\ Goto(t, "release") /\ UNCHANGED call
    BY <1>2 DEF ExecAccepted
  <2>2. WorldTypeOK'
    BY <1>0, <1>2, <2>1 DEF ExecAccepted, WorldTypeOK, RunType, Phases
  <2>3. left' \in [{"call", "destroy", "crash", "fault"} -> Nat]
    BY <2>1, SpendType DEF CpTypeOK
  <2>4. call' \in [Thread -> CallType]
    BY <2>1 DEF ThreadTypeOK, CallType
  <2>5. ThreadTypeOK'
    BY <1>2, <2>1, <2>4 DEF ExecAccepted, ThreadTypeOK, Goto, Pcs, ExecPcs
  <2>6. \A x \in Exec : run'[x].phase # "unused" => run'[x].sbx \in Sandbox
    BY <1>0, <2>1 DEF InHand, WorldTypeOK
  <2>7. \A u \in Thread :
          /\ pc'[u] # "idle" => at'[u] \in Sandbox
          /\ pc'[u] \in {"stream", "finish", "finish_record", "record"} \/ call'[u].kill = "sent"
               => call'[u].id \in Exec /\ pc'[u] # "idle"
    <3>1. ASSUME NEW u \in Thread, u # t
          PROVE  pc'[u] = pc[u] /\ call'[u] = call[u] /\ at'[u] = at[u]
      BY <1>2, <2>1, <3>1 DEF ExecAccepted, ThreadTypeOK, Goto
    <3>2. at'[t] \in Sandbox /\ pc'[t] # "idle"
      BY <1>0, <1>2, <2>1 DEF ExecAccepted, ThreadTypeOK, Goto
    <3>3. CASE call' = [call EXCEPT ![t].id = e, ![t].sse = "connect"]
      BY <3>1, <3>2, <3>3 DEF InHand, ThreadTypeOK, CallType
    <3>4. CASE Goto(t, "release") /\ UNCHANGED call
      BY <3>1, <3>2, <3>4 DEF InHand, ThreadTypeOK, Goto
    <3>. QED  BY <2>1, <3>3, <3>4
  <2>8. InHand'
    BY <1>2, <2>6, <2>7 DEF ExecAccepted, InHand, cpVars
  <2>. QED
    BY <1>2, <2>2, <2>3, <2>5, <2>8 DEF ExecAccepted, DbTypeOK, CpTypeOK, dbVars, cpVars
<1>3. CASE ExecBusy(t)
  BY <1>3, ReturnType, ReturnInHand
     DEF ExecBusy, DbTypeOK, WorldTypeOK, CpTypeOK, dbVars, worldVars, cpVars
<1>4. CASE ExecRefused(t)
  BY <1>0, <1>4, GotoType, GotoInHand
     DEF ExecRefused, DbTypeOK, WorldTypeOK, ThreadTypeOK, CpTypeOK, dbVars, worldVars, cpVars,
         Pcs, ExecPcs
<1>5. CASE FinishKill(t)
  <2>1. call[t].id \in Exec
    BY <1>5 DEF FinishKill, InHand
  <2>2. PICK r \in {"killed", "failed"} : call' = [call EXCEPT ![t].result = r]
    BY <1>5 DEF FinishKill
  <2>3. call' \in [Thread -> CallType] /\ \A u \in Thread : call'[u].id = call[u].id /\ call'[u].kill = call[u].kill
    BY <2>2 DEF ThreadTypeOK, CallType, Outcomes
  <2>4. run' \in [Exec -> RunType] /\ \A e \in Exec : run'[e].sbx = run[e].sbx
                                       /\ (run'[e].phase # "unused" => run[e].phase # "unused")
    BY <1>5, <2>1, KillType DEF FinishKill, Kill, WorldTypeOK, RunType
  <2>5. left' \in [{"call", "destroy", "crash", "fault"} -> Nat]
    BY <1>5, SpendType DEF FinishKill, CallFails, CpTypeOK
  <2>6. ThreadTypeOK' /\ pc' = [pc EXCEPT ![t] = "finish_record"]
    BY <1>5, <2>3 DEF FinishKill, ThreadTypeOK, Goto, Pcs, ExecPcs
  <2>7. InHand'
    BY <1>0, <1>5, <2>1, <2>3, <2>4, <2>6 DEF FinishKill, InHand, ThreadTypeOK, cpVars
  <2>. QED
    BY <1>5, <2>4, <2>5, <2>6, <2>7
       DEF FinishKill, DbTypeOK, WorldTypeOK, CpTypeOK, dbVars, cpVars
<1>6. CASE RecordExecution(t)
  <2>1. DbTypeOK'
    BY <1>6 DEF RecordExecution, DbTypeOK, ThreadTypeOK, CallType
  <2>2. pc' = [pc EXCEPT ![t] = "release"] \/ pc' = [pc EXCEPT ![t] = "finish_error"]
    BY <1>6 DEF RecordExecution, Goto
  <2>3. ThreadTypeOK' /\ InHand'
    BY <1>0, <1>6, <2>2 DEF RecordExecution, ThreadTypeOK, InHand, Pcs, ExecPcs, worldVars, cpVars
  <2>. QED
    BY <1>6, <2>1, <2>3 DEF RecordExecution, WorldTypeOK, CpTypeOK, worldVars, cpVars
<1>7. CASE ReleaseBusy(t)
  <2>1. DbTypeOK'
    BY <1>0, <1>7, TransitionType, ToType DEF ReleaseBusy, DbTypeOK, States
  <2>. QED
    BY <1>7, <2>1, ReturnType, ReturnInHand
       DEF ReleaseBusy, WorldTypeOK, CpTypeOK, worldVars, cpVars
<1>8. CASE FinishError(t)
  <2>1. DbTypeOK'
    BY <1>0, <1>8, TransitionType, ToType DEF FinishError, DbTypeOK, States
  <2>. QED
    BY <1>8, <2>1, ReturnType, ReturnInHand
       DEF FinishError, WorldTypeOK, CpTypeOK, worldVars, cpVars
<1>. QED  BY <1>1, <1>2, <1>3, <1>4, <1>5, <1>6, <1>7, <1>8 DEF ExecStep

(* The stream's own moves change a call in fields that cannot leave their  *)
(* type and never forget which execution it follows.                       *)
LEMMA StreamMoveType ==
  ASSUME TypeOK, InHand, NEW t \in Thread, pc[t] = "stream" \/ call[t].kill = "sent",
         call' \in [Thread -> CallType],
         \A u \in Thread : call'[u].id = call[u].id
                           /\ (call'[u].kill = "sent" => call[u].kill = "sent" \/ pc[u] = "stream"),
         UNCHANGED pc \/ Goto(t, "finish") \/ Goto(t, "record"),
         UNCHANGED <<at, snap, look, cp>>,
         \A e \in Exec : run'[e].sbx = run[e].sbx
                         /\ (run'[e].phase # "unused" => run[e].phase # "unused")
  PROVE  ThreadTypeOK' /\ InHand'
<1>1. pc[t] # "idle" /\ at[t] \in Sandbox /\ call[t].id \in Exec
  BY DEF InHand
<1>2. pc' \in [Thread -> Pcs] /\ pc'[t] # "idle" /\ \A u \in Thread \ {t} : pc'[u] = pc[u]
  BY <1>1 DEF TypeOK, ThreadTypeOK, Goto, Pcs, ExecPcs
<1>. QED  BY <1>1, <1>2 DEF InHand, TypeOK, ThreadTypeOK

(* One call record is replaced by another about the same execution. *)
LEMMA CallUpdate ==
  ASSUME ThreadTypeOK, NEW t \in Thread, NEW c \in CallType, c.id = call[t].id,
         call' = [call EXCEPT ![t] = c]
  PROVE  /\ call' \in [Thread -> CallType] /\ call'[t] = c
         /\ \A u \in Thread : call'[u].id = call[u].id /\ (u # t => call'[u] = call[u])
  BY DEF ThreadTypeOK

(* The values a stream step gives to the fields of a call are of their type. *)
LEMMA WithSse ==
  ASSUME NEW c \in CallType, NEW x \in {"off", "connect", "read", "sleep"}
  PROVE  /\ [c EXCEPT !.sse = x] \in CallType
         /\ [c EXCEPT !.sse = x].id = c.id /\ [c EXCEPT !.sse = x].kill = c.kill
  BY DEF CallType

LEMMA WithWatch ==
  ASSUME NEW c \in CallType, NEW x \in {"waiting", "expired"}
  PROVE  /\ [c EXCEPT !.watch = x] \in CallType
         /\ [c EXCEPT !.watch = x].id = c.id /\ [c EXCEPT !.watch = x].kill = c.kill
  BY DEF CallType

LEMMA WithKill ==
  ASSUME NEW c \in CallType, NEW x \in {"sent", "ok", "failed"}
  PROVE  [c EXCEPT !.kill = x] \in CallType /\ [c EXCEPT !.kill = x].id = c.id
  BY DEF CallType

LEMMA WithAbort ==
  ASSUME NEW c \in CallType, NEW x \in {"off", "connect"}
  PROVE  /\ [c EXCEPT !.aborted = TRUE, !.sse = x] \in CallType
         /\ [c EXCEPT !.aborted = TRUE, !.sse = x].id = c.id
         /\ [c EXCEPT !.aborted = TRUE, !.sse = x].kill = c.kill
  BY DEF CallType

LEMMA SseUpdate ==
  ASSUME ThreadTypeOK, NEW t \in Thread, NEW x \in {"off", "connect", "read", "sleep"},
         call' = [call EXCEPT ![t].sse = x]
  PROVE  /\ call' \in [Thread -> CallType]
         /\ \A u \in Thread : call'[u].id = call[u].id /\ call'[u].kill = call[u].kill
<1>1. call[t] \in CallType
  BY DEF ThreadTypeOK
<1>2. call' = [call EXCEPT ![t] = [call[t] EXCEPT !.sse = x]]
  OBVIOUS
<1>3. /\ call' \in [Thread -> CallType] /\ call'[t] = [call[t] EXCEPT !.sse = x]
      /\ \A u \in Thread : call'[u].id = call[u].id /\ (u # t => call'[u] = call[u])
  BY <1>1, <1>2, CallUpdate, WithSse
<1>. QED  BY <1>1, <1>3, WithSse

LEMMA AbortType ==
  ASSUME ThreadTypeOK, NEW t \in Thread, NEW c \in CallType, c.id = call[t].id, Abort(t, c)
  PROVE  /\ call' \in [Thread -> CallType] /\ call'[t].kill = c.kill
         /\ \A u \in Thread : call'[u].id = call[u].id /\ (u # t => call'[u] = call[u])
         /\ UNCHANGED pc \/ Goto(t, "finish")
<1>1. CASE call' = [call EXCEPT ![t] = c]
  BY <1>1, CallUpdate DEF Abort
<1>2. CASE call' = [call EXCEPT ![t] = [c EXCEPT !.aborted = TRUE, !.sse = "connect"]]
  BY <1>2, CallUpdate, WithAbort DEF Abort
<1>3. CASE call' = [call EXCEPT ![t] = [c EXCEPT !.aborted = TRUE, !.sse = "off"]]
  BY <1>3, CallUpdate, WithAbort DEF Abort
<1>. QED  BY <1>1, <1>2, <1>3 DEF Abort

(* A step of readSseStream or of the watchdog. *)
LEMMA StreamType ==
  ASSUME TypeOK, InHand, NEW t \in Thread, StreamStep(t)
  PROVE  TypeOK' /\ InHand'
<1>. USE DEF TypeOK
<1>0. call[t].id \in Exec /\ at[t] \in Sandbox /\ call[t] \in CallType
  BY DEF InHand, ThreadTypeOK, StreamStep, StreamConnects, StreamTerminal, StreamEnds,
     StreamCloses, StreamBreaks, StreamWakes, WatchdogFires, KillAnswered, KillWaitExpires
<1>1. CASE StreamConnects(t)
  <2>1. /\ call' \in [Thread -> CallType]
        /\ \A u \in Thread : call'[u].id = call[u].id /\ call'[u].kill = call[u].kill
    BY <1>1, SseUpdate DEF StreamConnects
  <2>2. left' \in [{"call", "destroy", "crash", "fault"} -> Nat]
    BY <1>1, SpendType DEF StreamConnects, CallFails, CpTypeOK
  <2>3. ThreadTypeOK' /\ InHand'
    BY <1>1, <2>1, StreamMoveType DEF StreamConnects, worldVars, cpVars
  <2>. QED
    BY <1>1, <2>2, <2>3
       DEF StreamConnects, DbTypeOK, WorldTypeOK, CpTypeOK, dbVars, worldVars, cpVars
<1>2. CASE StreamTerminal(t)
  <2>1. run[call[t].id].out \in Outcomes \cup {"none"}
    BY <1>0 DEF WorldTypeOK, RunType
  <2>2. /\ call' \in [Thread -> CallType]
        /\ \A u \in Thread : call'[u].id = call[u].id /\ call'[u].kill = call[u].kill
    <3>1. PICK x \in Outcomes \cup {"none"} :
            call' = [call EXCEPT ![t].sse = "off", ![t].result = x]
      BY <1>2, <2>1 DEF StreamTerminal
    <3>2. call' \in [Thread -> CallType]
      BY <1>0, <3>1 DEF ThreadTypeOK, CallType
    <3>. QED  BY <1>0, <3>1, <3>2 DEF ThreadTypeOK, CallType
  <2>3. ThreadTypeOK' /\ InHand'
    BY <1>2, <2>2, StreamMoveType DEF StreamTerminal, worldVars, cpVars
  <2>. QED
    BY <1>2, <2>3
       DEF StreamTerminal, DbTypeOK, WorldTypeOK, CpTypeOK, dbVars, worldVars, cpVars
<1>3. CASE StreamEnds(t)
  <2>1. /\ call' \in [Thread -> CallType]
        /\ \A u \in Thread : call'[u].id = call[u].id /\ call'[u].kill = call[u].kill
    <3>1. CASE /\ call[t].tries < MaxReconnects
               /\ call' = [call EXCEPT ![t].sse = "sleep", ![t].tries = @ + 1]
      <4>1. call[t].tries + 1 \in 0 .. MaxReconnects
        BY <1>0, <3>1, BoundAssumption DEF CallType
      <4>2. call' \in [Thread -> CallType]
        BY <1>0, <3>1, <4>1 DEF ThreadTypeOK, CallType
      <4>. QED  BY <1>0, <3>1, <4>2 DEF ThreadTypeOK, CallType
    <3>2. CASE call' = [call EXCEPT ![t].sse = "off"]
      BY <3>2, SseUpdate
    <3>. QED  BY <1>3, <3>1, <3>2 DEF StreamEnds, StreamCloses, StreamBreaks
  <2>2. left' \in [{"call", "destroy", "crash", "fault"} -> Nat]
    BY <1>3, SpendType DEF StreamEnds, StreamCloses, StreamBreaks, CallFails, CpTypeOK
  <2>3. ThreadTypeOK' /\ InHand'
    BY <1>3, <2>1, StreamMoveType
       DEF StreamEnds, StreamCloses, StreamBreaks, worldVars, cpVars
  <2>. QED
    BY <1>3, <2>2, <2>3 DEF StreamEnds, StreamCloses, StreamBreaks, DbTypeOK, WorldTypeOK,
       CpTypeOK, dbVars, worldVars, cpVars
<1>4. CASE StreamWakes(t)
  <2>1. /\ call' \in [Thread -> CallType]
        /\ \A u \in Thread : call'[u].id = call[u].id /\ call'[u].kill = call[u].kill
    BY <1>4 DEF StreamWakes, ThreadTypeOK, CallType
  <2>2. ThreadTypeOK' /\ InHand'
    BY <1>4, <2>1, StreamMoveType DEF StreamWakes, worldVars, cpVars
  <2>. QED
    BY <1>4, <2>2 DEF StreamWakes, DbTypeOK, WorldTypeOK, CpTypeOK, dbVars, worldVars, cpVars
<1>5. CASE WatchdogFires(t)
  <2>1. /\ call' \in [Thread -> CallType]
        /\ \A u \in Thread : call'[u].id = call[u].id /\ (u # t => call'[u].kill = call[u].kill)
    <3>1. call' = [call EXCEPT ![t] = [[call[t] EXCEPT !.watch = "waiting"] EXCEPT !.kill = "sent"]]
      BY <1>5 DEF WatchdogFires
    <3>2. /\ [[call[t] EXCEPT !.watch = "waiting"] EXCEPT !.kill = "sent"] \in CallType
          /\ [[call[t] EXCEPT !.watch = "waiting"] EXCEPT !.kill = "sent"].id = call[t].id
      BY <1>0, WithWatch, WithKill
    <3>. QED  BY <3>1, <3>2, CallUpdate
  <2>2. ThreadTypeOK' /\ InHand'
    BY <1>5, <2>1, StreamMoveType DEF WatchdogFires, worldVars, cpVars
  <2>. QED
    BY <1>5, <2>2 DEF WatchdogFires, DbTypeOK, WorldTypeOK, CpTypeOK, dbVars, worldVars, cpVars
<1>6. CASE KillAnswered(t)
  <2>1. /\ call' \in [Thread -> CallType]
        /\ \A u \in Thread : call'[u].id = call[u].id /\ (u # t => call'[u].kill = call[u].kill)
    <3>1. CASE call' = [call EXCEPT ![t] = [call[t] EXCEPT !.kill = "ok"]]
      BY <1>0, <3>1, CallUpdate, WithKill
    <3>2. CASE Abort(t, [call[t] EXCEPT !.kill = "failed"])
      BY <1>0, <3>2, AbortType, WithKill
    <3>. QED  BY <1>6, <3>1, <3>2 DEF KillAnswered
  <2>2. UNCHANGED pc \/ Goto(t, "finish")
    BY <1>6 DEF KillAnswered, Abort
  <2>3. run' \in [Exec -> RunType] /\ \A e \in Exec : run'[e].sbx = run[e].sbx
                                       /\ (run'[e].phase # "unused" => run[e].phase # "unused")
    BY <1>0, <1>6, KillType DEF KillAnswered, Kill, WorldTypeOK, RunType
  <2>4. left' \in [{"call", "destroy", "crash", "fault"} -> Nat]
    BY <1>6, SpendType DEF KillAnswered, CallFails, CpTypeOK
  <2>5. ThreadTypeOK' /\ InHand'
    BY <1>6, <2>1, <2>2, <2>3, StreamMoveType DEF KillAnswered, cpVars
  <2>. QED
    BY <1>6, <2>3, <2>4, <2>5
       DEF KillAnswered, DbTypeOK, WorldTypeOK, CpTypeOK, dbVars, cpVars
<1>7. CASE KillWaitExpires(t)
  <2>1. /\ call' \in [Thread -> CallType]
        /\ \A u \in Thread : call'[u].id = call[u].id /\ call'[u].kill = call[u].kill
    <3>1. /\ [call[t] EXCEPT !.watch = "expired"] \in CallType
          /\ [call[t] EXCEPT !.watch = "expired"].id = call[t].id
          /\ [call[t] EXCEPT !.watch = "expired"].kill = call[t].kill
      BY <1>0, WithWatch
    <3>2. Abort(t, [call[t] EXCEPT !.watch = "expired"])
      BY <1>7 DEF KillWaitExpires
    <3>. QED  BY <3>1, <3>2, AbortType
  <2>2. ThreadTypeOK' /\ InHand'
    BY <1>7, <2>1, StreamMoveType DEF KillWaitExpires, Abort, worldVars, cpVars
  <2>. QED
    BY <1>7, <2>2 DEF KillWaitExpires, DbTypeOK, WorldTypeOK, CpTypeOK, dbVars, worldVars, cpVars
<1>. QED  BY <1>1, <1>2, <1>3, <1>4, <1>5, <1>6, <1>7 DEF StreamStep

(* A thread that has no stream and no kill moves on between two labels.    *)
LEMMA MoveInHand ==
  ASSUME ThreadTypeOK, InHand, NEW t \in Thread, pc[t] # "idle",
         NEW label \in Pcs \ {"idle", "stream", "finish", "finish_record", "record"}, Goto(t, label),
         UNCHANGED <<at, call, look, cp>>,
         \A e \in Exec : run'[e].phase # "unused" => run'[e].sbx \in Sandbox
  PROVE  InHand'
  BY DEF Goto, InHand, ThreadTypeOK

LEMMA ExecsDieInHand ==
  ASSUME WorldTypeOK, InHand, NEW s, ExecsDieIn(s)
  PROVE  \A e \in Exec : run'[e].phase # "unused" => run'[e].sbx \in Sandbox
  BY DEF ExecsDieIn, InHand, WorldTypeOK, RunType

(* A step of destroySandbox after it has read the row. *)
LEMMA DestroyType ==
  ASSUME TypeOK, InHand, NEW t \in Thread, DestroyStep(t)
  PROVE  TypeOK' /\ InHand'
<1>. USE DEF TypeOK
<1>0. at[t] \in Sandbox /\ pc[t] # "idle"
  BY DEF InHand, DestroyStep, ArchiveStep, ArchiveBegin, ArchiveEnd, ArchiveFails, ArchiveError,
     StopContainer, RemoveContainer, RemoveFails, RemoveFailed, Destroyed
<1>a. \A e \in Exec : run[e].phase # "unused" => run[e].sbx \in Sandbox
  BY DEF InHand
<1>1. CASE ArchiveBegin(t)
  <2>1. slot' \in [Sandbox -> Exec \cup {"free", "job"}]
    BY <1>1 DEF ArchiveBegin, WorldTypeOK
  <2>2. snap' \in [Thread -> SnapType]
    BY <1>1 DEF ArchiveBegin, ThreadTypeOK, SnapType
  <2>3. InHand'
    BY <1>0, <1>1, <1>a, MoveInHand DEF ArchiveBegin, Pcs, DestroyPcs, cpVars
  <2>. QED
    BY <1>1, <2>1, <2>2, <2>3, GotoType DEF ArchiveBegin, DbTypeOK, WorldTypeOK, ThreadTypeOK,
       CpTypeOK, dbVars, cpVars, Pcs, DestroyPcs
<1>2. CASE ArchiveEnd(t)
  <2>1. slot' \in [Sandbox -> Exec \cup {"free", "job"}] /\ saved' \subseteq Exec
    BY <1>2 DEF ArchiveEnd, WorldTypeOK, ThreadTypeOK, SnapType
  <2>2. archiveFailed' \in [Sandbox -> {"no", "grace", "over"}]
    BY <1>2 DEF ArchiveEnd, CpTypeOK
  <2>3. InHand'
    BY <1>0, <1>2, <1>a, MoveInHand DEF ArchiveEnd, Pcs, DestroyPcs
  <2>. QED
    BY <1>2, <2>1, <2>2, <2>3, GotoType DEF ArchiveEnd, DbTypeOK, WorldTypeOK, ThreadTypeOK,
       CpTypeOK, dbVars, Pcs, DestroyPcs
<1>3. CASE ArchiveFails(t)
  <2>1. slot' \in [Sandbox -> Exec \cup {"free", "job"}]
    BY <1>3 DEF ArchiveFails, WorldTypeOK
  <2>2. archiveFailed' \in [Sandbox -> {"no", "grace", "over"}]
    BY <1>3 DEF ArchiveFails, CpTypeOK
  <2>3. snap' \in [Thread -> SnapType]
    <3>1. CASE UNCHANGED snap
      BY <3>1 DEF ThreadTypeOK
    <3>2. CASE snap' = [snap EXCEPT ![t].forced = TRUE]
      BY <3>2 DEF ThreadTypeOK, SnapType
    <3>. QED  BY <1>3, <3>1, <3>2 DEF ArchiveFails
  <2>4. InHand'
    BY <1>0, <1>3, <1>a, MoveInHand DEF ArchiveFails, Pcs, DestroyPcs
  <2>. QED
    BY <1>3, <2>1, <2>2, <2>3, <2>4, GotoType DEF ArchiveFails, DbTypeOK, WorldTypeOK,
       ThreadTypeOK, CpTypeOK, dbVars, Pcs, DestroyPcs
<1>4. CASE ArchiveError(t)
  <2>1. /\ [To(at[t], "ERROR") EXCEPT !.reason = "archive_failed"] \in RowType
        /\ [To(at[t], "ERROR") EXCEPT !.reason = "archive_failed"].state = "ERROR"
    <3>1. To(at[t], "ERROR") \in RowType /\ To(at[t], "ERROR").state = "ERROR"
      BY <1>0, ToType DEF States
    <3>. QED  BY <3>1 DEF RowType, Reasons
  <2>2. DbTypeOK'
    BY <1>0, <1>4, <2>1, TransitionType DEF ArchiveError, DbTypeOK, States
  <2>. QED
    BY <1>4, <2>2, ReturnType, ReturnInHand
       DEF ArchiveError, WorldTypeOK, CpTypeOK, worldVars, cpVars
<1>5. CASE StopContainer(t)
  <2>1. WorldTypeOK' /\ \A e \in Exec : run'[e].phase # "unused" => run'[e].sbx \in Sandbox
    <3>1. CASE UNCHANGED <<container, run>>
      BY <1>5, <1>a, <3>1 DEF StopContainer, WorldTypeOK
    <3>2. CASE /\ container' = [container EXCEPT ![at[t]] = "stopping"]
               /\ run' = [e \in Exec |-> IF run[e].sbx = at[t] /\ run[e].phase = "running"
                            THEN [run[e] EXCEPT !.phase = "dying", !.out = "killed"] ELSE run[e]]
      <4>1. \A e \in Exec : run'[e] \in RunType /\ run'[e].sbx = run[e].sbx
                            /\ (run'[e].phase # "unused" => run[e].phase # "unused")
        BY <3>2 DEF WorldTypeOK, RunType, Phases, Outcomes
      <4>. QED
        BY <1>5, <1>a, <3>2, <4>1 DEF StopContainer, WorldTypeOK, Containers
    <3>. QED  BY <1>5, <3>1, <3>2 DEF StopContainer
  <2>2. InHand'
    BY <1>0, <1>5, <2>1, MoveInHand DEF StopContainer, Pcs, DestroyPcs, cpVars
  <2>. QED
    BY <1>5, <2>1, <2>2, GotoType DEF StopContainer, DbTypeOK, ThreadTypeOK, CpTypeOK, dbVars,
       cpVars, Pcs, DestroyPcs
<1>6. CASE RemoveContainer(t)
  <2>1. WorldTypeOK'
    BY <1>0, <1>6, ExecsDieType DEF RemoveContainer, WorldTypeOK, Containers
  <2>2. InHand'
    BY <1>0, <1>6, MoveInHand, ExecsDieInHand DEF RemoveContainer, Pcs, DestroyPcs, cpVars
  <2>. QED
    BY <1>6, <2>1, <2>2, GotoType DEF RemoveContainer, DbTypeOK, ThreadTypeOK, CpTypeOK, dbVars,
       cpVars, Pcs, DestroyPcs
<1>7. CASE RemoveFails(t)
  <2>1. WorldTypeOK' /\ \A e \in Exec : run'[e].phase # "unused" => run'[e].sbx \in Sandbox
    BY <1>0, <1>7, <1>a, ExecsDieType, ExecsDieInHand DEF RemoveFails, WorldTypeOK, Containers
  <2>2. InHand'
    BY <1>0, <1>7, <2>1, MoveInHand DEF RemoveFails, Pcs, DestroyPcs, cpVars
  <2>. QED
    BY <1>7, <2>1, <2>2, GotoType, SpendType DEF RemoveFails, DbTypeOK, ThreadTypeOK, CpTypeOK,
       dbVars, cpVars, Pcs, DestroyPcs
<1>8. CASE RemoveFailed(t)
  <2>1. DbTypeOK'
    BY <1>0, <1>8, TransitionType, ToType DEF RemoveFailed, DbTypeOK, States
  <2>. QED
    BY <1>8, <2>1, ReturnType, ReturnInHand
       DEF RemoveFailed, WorldTypeOK, CpTypeOK, worldVars, cpVars
<1>9. CASE Destroyed(t)
  <2>1. \A x \in {"archive_failed", "other"} :
          /\ [To(at[t], "DESTROYED") EXCEPT !.reason = x] \in RowType
          /\ [To(at[t], "DESTROYED") EXCEPT !.reason = x].state = "DESTROYED"
    <3>1. To(at[t], "DESTROYED") \in RowType /\ To(at[t], "DESTROYED").state = "DESTROYED"
      BY <1>0, ToType DEF States
    <3>. QED  BY <3>1 DEF RowType, Reasons
  <2>2. DbTypeOK'
    BY <1>0, <1>9, <2>1, TransitionType DEF Destroyed, DbTypeOK, States
  <2>3. archiveFailed' \in [Sandbox -> {"no", "grace", "over"}]
    BY <1>9 DEF Destroyed, CpTypeOK
  <2>. QED
    BY <1>9, <2>2, <2>3, ReturnType, ReturnInHand DEF Destroyed, WorldTypeOK, CpTypeOK, worldVars
<1>. QED
  BY <1>1, <1>2, <1>3, <1>4, <1>5, <1>6, <1>7, <1>8, <1>9 DEF DestroyStep, ArchiveStep

(* Calls that begin, and the sweeper's list. *)
LEMMA BeginDestroyType ==
  ASSUME TypeOK, InHand, NEW t \in Thread, NEW s \in Sandbox, BeginDestroy(t, s)
  PROVE  ThreadTypeOK' /\ InHand' /\ archiveFailed' \in [Sandbox -> {"no", "grace", "over"}]
<1>. USE DEF TypeOK
<1>1. snap' \in [Thread -> SnapType]
  <2>1. PICK d \in SnapType : snap' = [snap EXCEPT ![t] = d]
    <3>1. row[s].state \in States \cup {"none"}
      BY DEF DbTypeOK, RowType
    <3>2. \A b \in BOOLEAN, o \in SUBSET Exec :
            [NoSnap EXCEPT !.state = row[s].state, !.last = b, !.owed = o] \in SnapType
      BY <3>1 DEF NoSnap, SnapType
    <3>3. ((Archiving /\ row[s].state # "DESTROYED") /\ archiveFailed[s] = "over") \in BOOLEAN
      OBVIOUS
    <3>. QED  BY <3>2, <3>3 DEF BeginDestroy
  <2>. QED  BY <2>1 DEF ThreadTypeOK
<1>2. /\ pc' \in [Thread -> Pcs] /\ at' \in [Thread -> Sandbox \cup {None}]
      /\ at'[t] = s /\ pc'[t] \in {"archive", "stop"} /\ pc[t] = "idle"
      /\ \A u \in Thread \ {t} : pc'[u] = pc[u] /\ at'[u] = at[u]
  BY DEF BeginDestroy, CanStart, ThreadTypeOK, Goto, Pcs, DestroyPcs
<1>3. InHand'
  BY <1>2 DEF BeginDestroy, InHand, ThreadTypeOK, worldVars
<1>4. archiveFailed' \in [Sandbox -> {"no", "grace", "over"}]
  BY DEF BeginDestroy, CpTypeOK
<1>. QED  BY <1>1, <1>2, <1>3, <1>4 DEF BeginDestroy, ThreadTypeOK

LEMMA NewCallType ==
  ASSUME TypeOK, InHand, NEW t \in Thread, NEW s \in Sandbox, NewCall(t, s)
  PROVE  TypeOK' /\ InHand'
<1>. USE DEF TypeOK
<1>1. CASE CreateInsert(t, s)
  <2>1. [NoRow EXCEPT !.state = "CREATING", !.reason = "other"] \in RowType
    BY DEF NoRow, RowType, States, Reasons
  <2>2. <<<<"none", "CREATING">>>> \in Seq((States \cup {"none"}) \X States)
    BY DEF States
  <2>3. DbTypeOK'
    BY <1>1, <2>1, <2>2 DEF CreateInsert, DbTypeOK
  <2>4. ThreadTypeOK' /\ InHand'
    BY <1>1 DEF CreateInsert, CanStart, Goto, ThreadTypeOK, InHand, worldVars, cpVars, Pcs, CreatePcs
  <2>. QED
    BY <1>1, <2>3, <2>4 DEF CreateInsert, WorldTypeOK, CpTypeOK, worldVars, cpVars
<1>2. CASE ExecRead(t, s)
  <2>1. ThreadTypeOK' /\ InHand'
    BY <1>2 DEF ExecRead, CanStart, Goto, ThreadTypeOK, InHand, worldVars, cpVars, Pcs, ExecPcs
  <2>. QED
    BY <1>2, <2>1, SpendType
       DEF ExecRead, DbTypeOK, WorldTypeOK, CpTypeOK, dbVars, worldVars, cpVars
<1>3. CASE DestroyRead(t, s)
  <2>1. BeginDestroy(t, s)
    BY <1>3 DEF DestroyRead
  <2>. QED
    BY <1>3, <2>1, BeginDestroyType, SpendType
       DEF DestroyRead, BeginDestroy, DbTypeOK, WorldTypeOK, CpTypeOK, dbVars, worldVars
<1>. QED  BY <1>1, <1>2, <1>3 DEF NewCall

LEMMA SweepType ==
  ASSUME TypeOK, InHand, SweepStep
  PROVE  TypeOK' /\ InHand'
<1>. USE DEF TypeOK
<1>1. CASE SweepList
  BY <1>1 DEF SweepList, InHand, DbTypeOK, WorldTypeOK, ThreadTypeOK, CpTypeOK,
     dbVars, worldVars, threadVars
<1>2. ASSUME NEW s \in Sandbox, SweepDestroy(s)
      PROVE  TypeOK' /\ InHand'
  <2>1. BeginDestroy(Sweeper, s)
    BY <1>2 DEF SweepDestroy
  <2>. QED
    BY <1>2, <2>1, BeginDestroyType, Labels
       DEF SweepDestroy, BeginDestroy, DbTypeOK, WorldTypeOK, CpTypeOK, dbVars, worldVars
<1>3. ASSUME NEW s \in Sandbox, SweepSkip(s)
      PROVE  TypeOK' /\ InHand'
  BY <1>3 DEF SweepSkip, InHand, DbTypeOK, WorldTypeOK, ThreadTypeOK, CpTypeOK,
     dbVars, worldVars, threadVars
<1>. QED  BY <1>1, <1>2, <1>3 DEF SweepStep

(* Time, containers and agents. *)
LEMMA WorldType ==
  ASSUME TypeOK, InHand, NEW s \in Sandbox, TimeStep(s) \/ WorldStep(s)
  PROVE  TypeOK' /\ InHand'
<1>. USE DEF TypeOK
<1>1. CASE Expire(s)
  <2>1. row' \in [Sandbox -> RowType]
    BY <1>1 DEF Expire, DbTypeOK, RowType
  <2>. QED
    BY <1>1, <2>1 DEF Expire, InHand, DbTypeOK, WorldTypeOK, ThreadTypeOK, CpTypeOK,
       worldVars, threadVars, cpVars
<1>2. CASE GraceEnds(s)
  BY <1>2 DEF GraceEnds, InHand, DbTypeOK, WorldTypeOK, ThreadTypeOK, CpTypeOK,
     dbVars, worldVars, threadVars
<1>3. CASE ContainerUp(s)
  BY <1>3 DEF ContainerUp, InHand, DbTypeOK, WorldTypeOK, ThreadTypeOK, CpTypeOK, Containers,
     dbVars, threadVars, cpVars
<1>4. CASE ContainerExits(s)
  <2>1. WorldTypeOK' /\ left' \in [{"call", "destroy", "crash", "fault"} -> Nat]
    BY <1>4, ExecsDieType, SpendType DEF ContainerExits, WorldTypeOK, CpTypeOK, Containers
  <2>2. \A e \in Exec : run'[e].phase # "unused" => run'[e].sbx \in Sandbox
    BY <1>4, ExecsDieInHand DEF ContainerExits
  <2>. QED
    BY <1>4, <2>1, <2>2 DEF ContainerExits, InHand, DbTypeOK, ThreadTypeOK, CpTypeOK,
       dbVars, threadVars, cpVars
<1>5. CASE JobBegins(s)
  BY <1>5 DEF JobBegins, InHand, DbTypeOK, WorldTypeOK, ThreadTypeOK, CpTypeOK,
     dbVars, threadVars, cpVars
<1>6. CASE JobEnds(s)
  BY <1>6 DEF JobEnds, InHand, DbTypeOK, WorldTypeOK, ThreadTypeOK, CpTypeOK,
     dbVars, threadVars, cpVars
<1>. QED  BY <1>1, <1>2, <1>3, <1>4, <1>5, <1>6 DEF TimeStep, WorldStep

LEMMA AgentType ==
  ASSUME TypeOK, InHand, NEW e \in Exec, AgentStep(e)
  PROVE  TypeOK' /\ InHand'
<1>. USE DEF TypeOK
<1>1. run' \in [Exec -> RunType]
  BY DEF AgentStep, AgentTimesOut, AgentEnds, AgentFinishes, WorldTypeOK, RunType, Phases, Outcomes
<1>2. \A x \in Exec : run'[x].sbx = run[x].sbx /\ (run'[x].phase # "unused" => run[x].phase # "unused")
  BY DEF AgentStep, AgentTimesOut, AgentEnds, AgentFinishes, WorldTypeOK, RunType
<1>3. slot' \in [Sandbox -> Exec \cup {"free", "job"}]
  BY DEF AgentStep, AgentTimesOut, AgentEnds, AgentFinishes, WorldTypeOK
<1>4. UNCHANGED <<dbVars, container, saved, threadVars, cpVars, left>>
  BY DEF AgentStep, AgentTimesOut, AgentEnds, AgentFinishes
<1>. QED
  BY <1>1, <1>2, <1>3, <1>4 DEF InHand, DbTypeOK, WorldTypeOK, ThreadTypeOK, CpTypeOK,
     dbVars, threadVars, cpVars

(* Death of the process and reconcile. *)
LEMMA CrashType ==
  ASSUME TypeOK, InHand, Crash
  PROVE  TypeOK' /\ InHand'
<1>1. ThreadTypeOK'
  BY BoundAssumption DEF Crash, ThreadTypeOK, Pcs, CallType, SnapType, NoCall, NoSnap, Outcomes
<1>2. NoLook \in LookType
  BY DEF NoLook, LookType
<1>3. CpTypeOK'
  BY <1>2, SpendType DEF Crash, CpTypeOK, TypeOK
<1>4. InHand'
  BY DEF Crash, InHand, NoCall, NoLook, worldVars
<1>. QED
  BY <1>1, <1>3, <1>4 DEF Crash, TypeOK, DbTypeOK, WorldTypeOK, dbVars, worldVars

LEMMA ReconcileType ==
  ASSUME TypeOK, InHand, ReconcileStep \/ Restart
  PROVE  TypeOK' /\ InHand'
<1>. USE DEF TypeOK
<1>0. NoLook \in LookType /\ NoLook.step = "none"
  BY DEF NoLook, LookType
<1>1. CASE CheckSandbox
  <2>1. look.sbx \in Sandbox
    BY <1>1 DEF CheckSandbox, InHand
  <2>2. row' \in [Sandbox -> RowType] /\ audit' \in [Sandbox -> Seq((States \cup {"none"}) \X States)]
    <3>1. CASE UNCHANGED <<row, audit>>
      BY <3>1 DEF DbTypeOK
    <3>2. CASE \E from, st : st \in {"ERROR", "READY"} /\ Transition(look.sbx, from, To(look.sbx, st))
      BY <2>1, <3>2, TransitionType, ToType DEF States
    <3>. QED  BY <1>1, <3>1, <3>2 DEF CheckSandbox
  <2>3. look' \in LookType /\ scan' \subseteq Sandbox /\ look'.step = "none"
    BY <1>0, <1>1 DEF CheckSandbox, RowDone, CpTypeOK
  <2>. QED
    BY <1>1, <2>2, <2>3 DEF CheckSandbox, InHand, DbTypeOK, WorldTypeOK, ThreadTypeOK, CpTypeOK,
       worldVars, threadVars
<1>2. CASE KillRestarted
  <2>1. CASE Kill(look.id) /\ look.id # None /\ look' = [look EXCEPT !.step = "record"]
             /\ UNCHANGED <<scan, left>>
    <3>1. look.id \in Exec
      BY <2>1 DEF CpTypeOK, LookType
    <3>2. run' \in [Exec -> RunType] /\ \A e \in Exec : run'[e].sbx = run[e].sbx
                                         /\ (run'[e].phase # "unused" => run[e].phase # "unused")
      BY <2>1, <3>1, KillType DEF WorldTypeOK
    <3>3. look' \in LookType /\ look'.sbx = look.sbx /\ look'.id = look.id
      BY <2>1 DEF CpTypeOK, LookType
    <3>4. InHand'
      BY <1>2, <3>1, <3>2, <3>3 DEF KillRestarted, InHand, threadVars
    <3>. QED
      BY <1>2, <2>1, <3>2, <3>3, <3>4 DEF KillRestarted, DbTypeOK, WorldTypeOK, ThreadTypeOK,
         CpTypeOK, dbVars, threadVars
  <2>2. CASE RowDone /\ UNCHANGED run
             /\ IF look.id = None THEN UNCHANGED left ELSE CallFails(look.sbx)
    <3>1. left' \in [{"call", "destroy", "crash", "fault"} -> Nat]
      BY <2>2, SpendType DEF CallFails, CpTypeOK
    <3>2. look' \in LookType /\ scan' \subseteq Sandbox /\ look'.step = "none"
      BY <1>0, <2>2 DEF RowDone, CpTypeOK
    <3>. QED
      BY <1>2, <2>2, <3>1, <3>2 DEF KillRestarted, InHand, DbTypeOK, WorldTypeOK, ThreadTypeOK,
         CpTypeOK, dbVars, threadVars
  <2>. QED  BY <1>2, <2>1, <2>2 DEF KillRestarted
<1>3. CASE RecordRestarted
  <2>1. look' \in LookType /\ look'.sbx = look.sbx /\ look'.id = look.id /\ look'.step = "release"
    BY <1>3 DEF RecordRestarted, CpTypeOK, LookType
  <2>2. execution' \in [Exec -> Outcomes \cup {"none"}]
    BY <1>3 DEF RecordRestarted, DbTypeOK, Outcomes
  <2>3. InHand'
    BY <1>3, <2>1 DEF RecordRestarted, InHand, worldVars, threadVars
  <2>. QED
    BY <1>3, <2>1, <2>2, <2>3 DEF RecordRestarted, DbTypeOK, WorldTypeOK, ThreadTypeOK, CpTypeOK,
       worldVars, threadVars
<1>4. CASE ReleaseRestarted
  <2>1. look.sbx \in Sandbox
    BY <1>4 DEF ReleaseRestarted, InHand
  <2>2. row' \in [Sandbox -> RowType] /\ audit' \in [Sandbox -> Seq((States \cup {"none"}) \X States)]
    BY <1>4, <2>1, TransitionType, ToType DEF ReleaseRestarted, States
  <2>3. look' \in LookType /\ scan' \subseteq Sandbox /\ look'.step = "none"
    BY <1>0, <1>4 DEF ReleaseRestarted, RowDone, CpTypeOK
  <2>. QED
    BY <1>4, <2>2, <2>3 DEF ReleaseRestarted, InHand, DbTypeOK, WorldTypeOK, ThreadTypeOK,
       CpTypeOK, worldVars, threadVars
<1>5. CASE ListManaged \/ ReconcileDone \/ Restart
  <2>1. /\ UNCHANGED <<dbVars, worldVars, threadVars, archiveFailed, sweep, look, left>>
        /\ scan' \subseteq Sandbox /\ cp' \in {"reconcile", "orphans", "serving"}
        /\ cp' = "reconcile" \/ look = NoLook \/ cp # "reconcile"
    BY <1>5 DEF ListManaged, ReconcileDone, Restart, CpTypeOK
  <2>. QED
    BY <1>0, <2>1 DEF InHand, DbTypeOK, WorldTypeOK, ThreadTypeOK, CpTypeOK,
       dbVars, worldVars, threadVars
<1>6. ASSUME NEW s \in Sandbox, Inspect(s)
      PROVE  TypeOK' /\ InHand'
  <2>1. CASE UNCHANGED look /\ Spend("fault") /\ scan' = scan \ {s}
    BY <1>6, <2>1, SpendType DEF Inspect, InHand, DbTypeOK, WorldTypeOK, ThreadTypeOK, CpTypeOK,
       dbVars, worldVars, threadVars
  <2>2. CASE UNCHANGED <<scan, left>>
    <3>1. PICK w \in {"gone", "unreachable", "idle", "active"}, i \in Exec \cup {None} :
            look' = [NoLook EXCEPT !.sbx = s, !.step = "act", !.what = w, !.id = i]
      <4>1. (IF container[s] \in {"absent", "exited"} THEN "gone"
             ELSE IF container[s] # "up" THEN "unreachable"
             ELSE IF slot[s] = "free" THEN "idle" ELSE "active")
              \in {"gone", "unreachable", "idle", "active"}
        OBVIOUS
      <4>2. (IF container[s] = "up" /\ slot[s] \in Exec THEN slot[s] ELSE None) \in Exec \cup {None}
        OBVIOUS
      <4>. QED  BY <1>6, <2>2, <4>1, <4>2, ThreadAssumption DEF Inspect
    <3>2. look' \in LookType /\ look'.step = "act" /\ look'.sbx = s
      BY <1>0, <3>1 DEF NoLook, LookType
    <3>3. cp = "reconcile"
      BY <1>6 DEF Inspect
    <3>. QED
      BY <1>6, <2>2, <3>2, <3>3 DEF Inspect, InHand, DbTypeOK, WorldTypeOK, ThreadTypeOK, CpTypeOK,
         dbVars, worldVars, threadVars
  <2>. QED  BY <1>6, <2>1, <2>2 DEF Inspect
<1>7. ASSUME NEW s \in Sandbox, CheckOrphan(s)
      PROVE  TypeOK' /\ InHand'
  <2>1. WorldTypeOK' /\ left' \in [{"call", "destroy", "crash", "fault"} -> Nat]
    BY <1>7, ExecsDieType, SpendType DEF CheckOrphan, WorldTypeOK, CpTypeOK, Containers
  <2>2. \A e \in Exec : run'[e].phase # "unused" => run'[e].sbx \in Sandbox
    BY <1>7, ExecsDieInHand DEF CheckOrphan, InHand
  <2>. QED
    BY <1>7, <2>1, <2>2 DEF CheckOrphan, InHand, DbTypeOK, ThreadTypeOK, CpTypeOK,
       dbVars, threadVars
<1>. QED  BY <1>1, <1>2, <1>3, <1>4, <1>5, <1>6, <1>7 DEF ReconcileStep

LEMMA InitType == Init => TypeOK /\ InHand
<1>. SUFFICES ASSUME Init PROVE TypeOK /\ InHand
  OBVIOUS
<1>1. DbTypeOK
  BY DEF Init, DbTypeOK, NoRow, RowType, Reasons
<1>2. WorldTypeOK
  BY DEF Init, WorldTypeOK, Containers, NoRun, RunType, Phases
<1>3. ThreadTypeOK
  BY BoundAssumption DEF Init, ThreadTypeOK, Pcs, NoCall, CallType, NoSnap, SnapType
<1>4. CpTypeOK
  BY BoundAssumption DEF Init, CpTypeOK, NoLook, LookType
<1>5. InHand
  BY DEF Init, InHand, NoCall, NoRun, NoLook
<1>. QED  BY <1>1, <1>2, <1>3, <1>4, <1>5 DEF TypeOK

LEMMA NextType ==
  ASSUME TypeOK, InHand, [Next]_vars
  PROVE  TypeOK' /\ InHand'
<1>1. ASSUME NEW t \in Thread, ThreadStep(t)
      PROVE  TypeOK' /\ InHand'
  BY <1>1, CreateType, ExecType, StreamType, DestroyType DEF ThreadStep
<1>2. CASE UNCHANGED vars
  BY <1>2 DEF vars, dbVars, worldVars, threadVars, cpVars, TypeOK, InHand,
     DbTypeOK, WorldTypeOK, ThreadTypeOK, CpTypeOK
<1>. QED
  BY <1>1, <1>2, NewCallType, SweepType, WorldType, AgentType, CrashType, ReconcileType DEF Next

(* Every variable of every reachable state has its type, and whatever a    *)
(* thread or reconcile has in hand (a sandbox, an execution) is there.     *)
THEOREM TypeCorrect == Spec => []TypeOK /\ []InHand
<1>1. TypeOK /\ InHand /\ [Next]_vars => TypeOK' /\ InHand'
  BY NextType
<1>. QED  BY InitType, <1>1, PTL DEF Spec

------------------------------------------------------------------------------
(* What a step does to the sandboxes table: nothing that the lifecycle can *)
(* see, one INSERT, or one legal move with its audit row.                  *)
RowStill ==
  audit' = audit /\ \A s \in Sandbox : row'[s].state = row[s].state

RowInserted(s) ==
  /\ row[s].state = "none"
  /\ \E new \in RowType : new.state = "CREATING" /\ row' = [row EXCEPT ![s] = new]
  /\ audit' = [audit EXCEPT ![s] = <<<<"none", "CREATING">>>>]

RowMoved(s, new) ==
  /\ <<row[s].state, new.state>> \in Edges
  /\ row' = [row EXCEPT ![s] = new]
  /\ audit' = [audit EXCEPT ![s] = Append(@, <<row[s].state, new.state>>)]

LEMMA TransitionMoves ==
  ASSUME TypeOK, NEW s \in Sandbox, NEW from, NEW new, Transition(s, from, new)
  PROVE  RowStill \/ (RowMoved(s, new) /\ row[s].state \in from)
  BY DEF Transition, MayMove, RowStill, RowMoved

(* A thread moves the row of its own sandbox only, and only #releaseBusy   *)
(* takes a row from BUSY to READY.                                         *)
LEMMA ThreadRow ==
  ASSUME TypeOK, InHand, NEW t \in Thread, ThreadStep(t)
  PROVE  \/ RowStill
         \/ \E new : /\ RowMoved(at[t], new)
                     /\ row[at[t]].state = "BUSY" /\ new.state = "READY" => pc[t] = "release"
<1>1. CASE CreateFailed(t)
  BY <1>1, TransitionMoves DEF CreateFailed, InHand, To, TypeOK, DbTypeOK, RowType
<1>2. CASE CreateCommit(t)
  BY <1>2, TransitionMoves DEF CreateCommit, InHand
<1>3. CASE ExecGate(t)
  BY <1>3, TransitionMoves DEF ExecGate, InHand
<1>4. CASE ReleaseBusy(t)
  BY <1>4, TransitionMoves DEF ReleaseBusy, InHand
<1>5. CASE FinishError(t)
  BY <1>5, TransitionMoves, ToType DEF FinishError, InHand, TypeOK, States
<1>6. CASE ArchiveError(t)
  <2>1. at[t] \in Sandbox
    BY <1>6 DEF ArchiveError, InHand
  <2>2. [To(at[t], "ERROR") EXCEPT !.reason = "archive_failed"].state = "ERROR"
    <3>1. To(at[t], "ERROR") \in RowType /\ To(at[t], "ERROR").state = "ERROR"
      BY <2>1, ToType DEF States, TypeOK
    <3>. QED  BY <3>1 DEF RowType
  <2>. QED  BY <1>6, <2>1, <2>2, TransitionMoves DEF ArchiveError
<1>7. CASE RemoveFailed(t)
  BY <1>7, TransitionMoves, ToType DEF RemoveFailed, InHand, TypeOK, States
<1>8. CASE Destroyed(t)
  <2>1. at[t] \in Sandbox
    BY <1>8 DEF Destroyed, InHand
  <2>2. \A x : [To(at[t], "DESTROYED") EXCEPT !.reason = x].state = "DESTROYED"
    <3>1. To(at[t], "DESTROYED") \in RowType /\ To(at[t], "DESTROYED").state = "DESTROYED"
      BY <2>1, ToType DEF States, TypeOK
    <3>. QED  BY <3>1 DEF RowType
  <2>3. CASE UNCHANGED <<row, audit>>
    BY <2>3 DEF RowStill
  <2>4. PICK x : snap[t].state # "DESTROYED" => 
          Transition(at[t], ExpirableStates, [To(at[t], "DESTROYED") EXCEPT !.reason = x])
    BY <1>8 DEF Destroyed
  <2>. QED  BY <1>8, <2>1, <2>2, <2>3, <2>4, TransitionMoves DEF Destroyed
<1>9. CASE UNCHANGED <<row, audit>>
  BY <1>9 DEF RowStill
<1>10. \/ CreateFailed(t) \/ CreateCommit(t) \/ ExecGate(t) \/ ReleaseBusy(t) \/ FinishError(t)
       \/ ArchiveError(t) \/ RemoveFailed(t) \/ Destroyed(t) \/ UNCHANGED <<row, audit>>
  BY DEF ThreadStep, CreateStep, ExecStep, StreamStep, StreamEnds, DestroyStep, ArchiveStep, CreateContainer,
     CreateReady, CreateGivesUp, CreateUndo, ExecAccepted, ExecBusy, ExecRefused, FinishKill,
     RecordExecution, StreamConnects, StreamTerminal, StreamCloses, StreamBreaks, StreamWakes,
     WatchdogFires, KillAnswered, KillWaitExpires, ArchiveBegin, ArchiveEnd, ArchiveFails,
     StopContainer, RemoveContainer, RemoveFails, dbVars
<1>. QED  BY <1>1, <1>2, <1>3, <1>4, <1>5, <1>6, <1>7, <1>8, <1>9, <1>10

LEMMA ReconcileRow ==
  ASSUME TypeOK, InHand, ReconcileStep
  PROVE  RowStill \/ \E s \in Sandbox : \E new : cp = "reconcile" /\ RowMoved(s, new)
<1>1. CASE CheckSandbox
  <2>1. look.sbx \in Sandbox /\ cp = "reconcile"
    BY <1>1 DEF CheckSandbox, InHand
  <2>2. CASE UNCHANGED <<row, audit>>
    BY <2>2 DEF RowStill
  <2>3. CASE \E from, new : Transition(look.sbx, from, new)
    BY <2>1, <2>3, TransitionMoves
  <2>. QED  BY <1>1, <2>2, <2>3 DEF CheckSandbox
<1>2. CASE ReleaseRestarted
  BY <1>2, TransitionMoves DEF ReleaseRestarted, InHand
<1>3. CASE UNCHANGED <<row, audit>>
  BY <1>3 DEF RowStill
<1>4. CheckSandbox \/ ReleaseRestarted \/ UNCHANGED <<row, audit>>
  BY DEF ReconcileStep, KillRestarted, RecordRestarted, ListManaged, ReconcileDone, Inspect,
     CheckOrphan, dbVars
<1>. QED  BY <1>1, <1>2, <1>3, <1>4

LEMMA NextRow ==
  ASSUME TypeOK, InHand, [Next]_vars
  PROVE  \/ RowStill
         \/ \E s \in Sandbox : RowInserted(s)
         \/ \E s \in Sandbox : \E new :
              /\ RowMoved(s, new)
              /\ row[s].state = "BUSY" /\ new.state = "READY"
                   => \/ cp = "reconcile"
                      \/ \E t \in Thread : pc[t] = "release" /\ at[t] = s /\ ReleaseBusy(t)
<1>1. ASSUME NEW t \in Thread, ThreadStep(t)
      PROVE  \/ RowStill
             \/ \E new : /\ RowMoved(at[t], new) /\ at[t] \in Sandbox
                         /\ row[at[t]].state = "BUSY" /\ new.state = "READY"
                              => pc[t] = "release" /\ ReleaseBusy(t)
  <2>1. pc[t] # "idle" => at[t] \in Sandbox
    BY DEF InHand
  <2>2. RowStill \/ pc[t] # "idle"
    BY <1>1 DEF ThreadStep, CreateStep, ExecStep, StreamStep, StreamEnds, DestroyStep, ArchiveStep,
       CreateContainer, CreateReady, CreateGivesUp, CreateUndo, CreateFailed, CreateCommit,
       ExecGate, ExecAccepted, ExecBusy, ExecRefused, FinishKill, ReleaseBusy, FinishError,
       RecordExecution, StreamConnects, StreamTerminal, StreamCloses, StreamBreaks, StreamWakes,
       WatchdogFires, KillAnswered, KillWaitExpires, ArchiveBegin, ArchiveEnd, ArchiveFails,
       ArchiveError, StopContainer, RemoveContainer, RemoveFails, RemoveFailed, Destroyed,
       InHand, RowStill, dbVars
  <2>3. pc[t] = "release" => RowStill \/ ReleaseBusy(t)
    BY <1>1 DEF ThreadStep, CreateStep, ExecStep, StreamStep, StreamEnds, DestroyStep, ArchiveStep,
       CreateContainer, CreateReady, CreateGivesUp, CreateUndo, CreateFailed, CreateCommit,
       ExecGate, ExecAccepted, ExecBusy, ExecRefused, FinishKill, FinishError,
       RecordExecution, StreamConnects, StreamTerminal, StreamCloses, StreamBreaks, StreamWakes,
       WatchdogFires, KillAnswered, KillWaitExpires, ArchiveBegin, ArchiveEnd, ArchiveFails,
       ArchiveError, StopContainer, RemoveContainer, RemoveFails, RemoveFailed, Destroyed,
       RowStill, dbVars
  <2>. QED  BY <1>1, <2>1, <2>2, <2>3, ThreadRow
<1>2. ASSUME NEW t \in Thread, NEW s \in Sandbox, NewCall(t, s)
      PROVE  RowStill \/ RowInserted(s)
  <2>1. CASE CreateInsert(t, s)
    <3>1. /\ [NoRow EXCEPT !.state = "CREATING", !.reason = "other"] \in RowType
          /\ [NoRow EXCEPT !.state = "CREATING", !.reason = "other"].state = "CREATING"
      BY DEF NoRow, RowType, States, Reasons
    <3>2. row[s].state = "none"
      BY <2>1 DEF CreateInsert, NoRow
    <3>. QED  BY <2>1, <3>1, <3>2 DEF CreateInsert, RowInserted
  <2>. QED
    BY <1>2, <2>1 DEF NewCall, ExecRead, DestroyRead, BeginDestroy, RowStill, dbVars
<1>3. ASSUME NEW s \in Sandbox, TimeStep(s) \/ WorldStep(s)
      PROVE  RowStill
  <2>1. CASE Expire(s)
    BY <2>1 DEF Expire, RowStill, TypeOK, DbTypeOK, RowType
  <2>. QED
    BY <1>3, <2>1 DEF TimeStep, WorldStep, GraceEnds, ContainerUp, ContainerExits, JobBegins,
       JobEnds, RowStill, dbVars
<1>4. CASE SweepStep
  BY <1>4 DEF SweepStep, SweepList, SweepDestroy, SweepSkip, BeginDestroy, RowStill, dbVars
<1>5. ASSUME NEW e \in Exec, AgentStep(e)
      PROVE  RowStill
  BY <1>5 DEF AgentStep, AgentTimesOut, AgentEnds, AgentFinishes, RowStill, dbVars
<1>6. CASE Crash \/ Restart \/ UNCHANGED vars
  BY <1>6 DEF Crash, Restart, RowStill, vars, dbVars
<1>7. ASSUME NEW t \in Thread, ThreadStep(t)
      PROVE  \/ RowStill
             \/ \E s \in Sandbox : \E new :
                  /\ RowMoved(s, new)
                  /\ row[s].state = "BUSY" /\ new.state = "READY"
                       => \E u \in Thread : pc[u] = "release" /\ at[u] = s /\ ReleaseBusy(u)
  BY <1>1, <1>7
<1>8. ASSUME ReconcileStep
      PROVE  \/ RowStill
             \/ \E s \in Sandbox : \E new : RowMoved(s, new) /\ cp = "reconcile"
  BY <1>8, ReconcileRow
<1>. QED
  BY <1>2, <1>3, <1>4, <1>5, <1>6, <1>7, <1>8 DEF Next

------------------------------------------------------------------------------
(* The manager implements the lifecycle of SandboxLifecycle: whatever the  *)
(* threads, the sweeper, a crash and reconcile do, every change of a row   *)
(* is one of the legal edges and leaves exactly one audit row.             *)
THEOREM Implements == Spec => LifecycleSpec
<1>1. Init => Lifecycle!Init
  BY DEF Init, Lifecycle!Init, NoRow
<1>2. TypeOK /\ InHand /\ [Next]_vars => [Lifecycle!Next]_(Lifecycle!vars)
  <2>. SUFFICES ASSUME TypeOK, InHand, [Next]_vars
                PROVE  [Lifecycle!Next]_(Lifecycle!vars)
    OBVIOUS
  <2>1. row \in [Sandbox -> RowType] /\ row' \in [Sandbox -> RowType]
    BY NextType DEF TypeOK, DbTypeOK
  <2>2. CASE RowStill
    BY <2>2 DEF RowStill, Lifecycle!vars
  <2>3. ASSUME NEW s \in Sandbox, RowInserted(s)
        PROVE  Lifecycle!Insert(s)
    BY <2>1, <2>3 DEF RowInserted, Lifecycle!Insert
  <2>4. ASSUME NEW s \in Sandbox, NEW new, RowMoved(s, new)
        PROVE  \E to \in Lifecycle!States : Lifecycle!Move(s, to)
    <3>1. new.state \in States
      BY <2>4 DEF RowMoved, Edges, States
    <3>2. [x \in Sandbox |-> row[x].state]' = [[x \in Sandbox |-> row[x].state] EXCEPT ![s] = new.state]
      BY <2>1, <2>4 DEF RowMoved
    <3>. QED
      BY <2>4, <3>1, <3>2 DEF RowMoved, Lifecycle!Move, Lifecycle!Edges, Lifecycle!States, Edges, States
  <2>. QED  BY <2>2, <2>3, <2>4, NextRow DEF Lifecycle!Next
<1>. QED  BY <1>1, <1>2, TypeCorrect, PTL DEF Spec, LifecycleSpec, Lifecycle!Spec

------------------------------------------------------------------------------
(* The concurrency gate.  GateExclusive alone is not inductive: a holder   *)
(* must also know that nobody else can have put its row back to READY      *)
(* (HolderKeepsRow), which needs that reconcile, which may do so, runs     *)
(* while no call does (ReconcileAlone).                                    *)
GateInv == ReconcileAlone /\ HolderKeepsRow /\ GateExclusive

(* A thread step is taken by a busy thread and concerns that thread alone; *)
(* only ExecGate makes a holder, out of READY, and #releaseBusy ends one.  *)
LEMMA ThreadPc ==
  ASSUME TypeOK, InHand, NEW t \in Thread, ThreadStep(t)
  PROVE  /\ pc[t] # "idle" /\ UNCHANGED cp
         /\ \A u \in Thread \ {t} : pc'[u] = pc[u] /\ at'[u] = at[u]
         /\ pc'[t] \in HolderPcs =>
              /\ at'[t] = at[t]
              /\ \/ pc[t] \in HolderPcs
                 \/ row[at[t]].state = "READY" /\ row'[at[t]].state = "BUSY"
<1>1. pc[t] # "idle" /\ UNCHANGED cp
  BY DEF ThreadStep, CreateStep, ExecStep, StreamStep, StreamEnds, DestroyStep, ArchiveStep,
     CreateContainer, CreateReady, CreateGivesUp, CreateUndo, CreateFailed, CreateCommit,
     ExecGate, ExecAccepted, ExecBusy, ExecRefused, FinishKill, ReleaseBusy, FinishError,
     RecordExecution, StreamConnects, StreamTerminal, StreamCloses, StreamBreaks, StreamWakes,
     WatchdogFires, KillAnswered, KillWaitExpires, ArchiveBegin, ArchiveEnd, ArchiveFails,
     ArchiveError, StopContainer, RemoveContainer, RemoveFails, RemoveFailed, Destroyed,
     InHand, cpVars
<1>2. \/ Return(t)
      \/ UNCHANGED at /\ \E label \in Pcs : Goto(t, label)
      \/ UNCHANGED <<at, pc>>
  BY DEF ThreadStep, CreateStep, ExecStep, StreamStep, StreamEnds, DestroyStep, ArchiveStep,
     CreateContainer, CreateReady, CreateGivesUp, CreateUndo, CreateFailed, CreateCommit,
     ExecGate, ExecAccepted, ExecBusy, ExecRefused, FinishKill, ReleaseBusy, FinishError,
     RecordExecution, StreamConnects, StreamTerminal, StreamCloses, StreamBreaks, StreamWakes,
     WatchdogFires, KillAnswered, KillWaitExpires, ArchiveBegin, ArchiveEnd, ArchiveFails,
     ArchiveError, StopContainer, RemoveContainer, RemoveFails, RemoveFailed, Destroyed,
     Abort, Pcs, CreatePcs, ExecPcs, DestroyPcs
<1>3. \A u \in Thread \ {t} : pc'[u] = pc[u] /\ at'[u] = at[u]
  BY <1>2 DEF Return, Goto, TypeOK, ThreadTypeOK
<1>4. pc'[t] = "idle" \/ at'[t] = at[t]
  BY <1>2 DEF Return, Goto, TypeOK, ThreadTypeOK
<1>5. CASE ExecGate(t)
  <2>1. pc'[t] # "idle" => row[at[t]].state = "READY" /\ Transition(at[t], {"READY"}, Refreshed(at[t], "BUSY"))
    BY <1>5 DEF ExecGate, Return, TypeOK, ThreadTypeOK
  <2>2. at[t] \in Sandbox /\ Refreshed(at[t], "BUSY").state = "BUSY"
    BY <1>1, ToType DEF InHand, TypeOK, States
  <2>3. pc'[t] # "idle" => row'[at[t]] = Refreshed(at[t], "BUSY")
    BY <2>1, <2>2 DEF Transition, MayMove, Edges, TypeOK, DbTypeOK
  <2>. QED  BY <1>1, <1>3, <1>4, <2>1, <2>2, <2>3, Labels
<1>6. CASE pc'[t] \in HolderPcs /\ ~ ExecGate(t)
  <2>1. pc[t] \in HolderPcs
    <3>. USE DEF TypeOK, ThreadTypeOK, HolderPcs, ExecPcs, Goto, Return
    <3>1. CASE CreateStep(t)
      BY <1>6, <3>1 DEF CreateStep, CreateContainer, CreateReady, CreateGivesUp, CreateUndo,
         CreateFailed, CreateCommit
    <3>2. CASE ExecStep(t)
      BY <1>6, <3>2 DEF ExecStep, ExecAccepted, ExecBusy, ExecRefused, FinishKill, ReleaseBusy,
         FinishError, RecordExecution
    <3>3. CASE StreamStep(t)
      BY <1>6, <3>3 DEF StreamStep, StreamEnds, StreamConnects, StreamTerminal, StreamCloses,
         StreamBreaks, StreamWakes, WatchdogFires, KillAnswered, KillWaitExpires, Abort
    <3>4. CASE DestroyStep(t)
      BY <1>6, <3>4 DEF DestroyStep, ArchiveStep, ArchiveBegin, ArchiveEnd, ArchiveFails,
         ArchiveError, StopContainer, RemoveContainer, RemoveFails, RemoveFailed, Destroyed
    <3>. QED  BY <3>1, <3>2, <3>3, <3>4 DEF ThreadStep
  <2>. QED  BY <1>1, <1>3, <1>4, <1>6, <2>1, Labels
<1>. QED  BY <1>1, <1>3, <1>5, <1>6

(* What a step that is not a thread's does to pc and cp.                   *)
LEMMA OtherPc ==
  ASSUME TypeOK, InHand, [Next]_vars, ~ \E t \in Thread : ThreadStep(t)
  PROVE  \/ \A t \in Thread : pc'[t] = "idle"
         \/ /\ UNCHANGED <<pc, at>>
            /\ cp' # "serving" => cp # "serving"
         \/ /\ cp = "serving" /\ UNCHANGED cp
            /\ \E t \in Thread :
                 /\ pc'[t] \notin HolderPcs
                 /\ \A u \in Thread \ {t} : pc'[u] = pc[u] /\ at'[u] = at[u]
<1>1. ASSUME NEW t \in Thread, NEW s \in Sandbox, NewCall(t, s) \/ BeginDestroy(t, s)
      PROVE  /\ cp = "serving" /\ UNCHANGED cp
             /\ pc'[t] \notin HolderPcs
             /\ \A u \in Thread \ {t} : pc'[u] = pc[u] /\ at'[u] = at[u]
  BY <1>1 DEF NewCall, CreateInsert, ExecRead, DestroyRead, BeginDestroy, CanStart, Goto, TypeOK,
     ThreadTypeOK, HolderPcs, ExecPcs, cpVars
<1>2. CASE SweepStep
  <2>1. CASE \E s \in Sandbox : BeginDestroy(Sweeper, s)
    BY <1>1, <2>1, Labels
  <2>. QED
    BY <1>2, <2>1 DEF SweepStep, SweepList, SweepDestroy, SweepSkip, threadVars
<1>3. ASSUME NEW s \in Sandbox, TimeStep(s) \/ WorldStep(s)
      PROVE  UNCHANGED <<pc, at, cp>>
  BY <1>3 DEF TimeStep, WorldStep, Expire, GraceEnds, ContainerUp, ContainerExits, JobBegins,
     JobEnds, threadVars, cpVars
<1>4. ASSUME NEW e \in Exec, AgentStep(e)
      PROVE  UNCHANGED <<pc, at, cp>>
  BY <1>4 DEF AgentStep, AgentTimesOut, AgentEnds, AgentFinishes, threadVars, cpVars
<1>5. CASE Crash
  BY <1>5 DEF Crash
<1>6. CASE ReconcileStep \/ Restart
  BY <1>6 DEF ReconcileStep, Restart, CheckSandbox, KillRestarted, RecordRestarted,
     ReleaseRestarted, ListManaged, ReconcileDone, Inspect, CheckOrphan, threadVars
<1>7. CASE UNCHANGED vars
  BY <1>7 DEF vars, threadVars, cpVars
<1>. QED  BY <1>1, <1>2, <1>3, <1>4, <1>5, <1>6, <1>7 DEF Next

LEMMA GateStep ==
  ASSUME TypeOK, InHand, GateInv, [Next]_vars
  PROVE  GateInv'
<1>0. TypeOK' /\ InHand'
  BY NextType
<1>1. ReconcileAlone'
  BY ThreadPc, OtherPc DEF GateInv, ReconcileAlone
<1>2. GateExclusive'
  <2>1. ASSUME NEW t \in Thread, ThreadStep(t)
        PROVE  GateExclusive'
    BY <2>1, ThreadPc DEF GateInv, GateExclusive, HolderKeepsRow
  <2>2. CASE ~ \E t \in Thread : ThreadStep(t)
    BY <2>2, OtherPc, Labels DEF GateInv, GateExclusive
  <2>. QED  BY <2>1, <2>2
<1>3. ASSUME NEW u \in Thread, pc'[u] \in HolderPcs
      PROVE  row'[at'[u]].state \in {"BUSY", "ERROR", "DESTROYED"}
  (* u is a holder already, unless this is its ExecGate *)
  <2>1. CASE row'[at'[u]].state = "BUSY"
    BY <2>1
  <2>2. CASE pc[u] \in HolderPcs /\ at'[u] = at[u]
    <3>1. at[u] \in Sandbox /\ row[at[u]].state \in {"BUSY", "ERROR", "DESTROYED"}
      BY <2>2, Labels DEF GateInv, HolderKeepsRow, InHand
    <3>2. CASE RowStill
      BY <2>2, <3>1, <3>2 DEF RowStill
    <3>3. ASSUME NEW s \in Sandbox, RowInserted(s)
          PROVE  row'[at[u]] = row[at[u]]
      BY <3>1, <3>3 DEF RowInserted, TypeOK, DbTypeOK
    <3>4. ASSUME NEW s \in Sandbox, NEW new, RowMoved(s, new), s # at[u]
          PROVE  row'[at[u]] = row[at[u]]
      BY <3>1, <3>4 DEF RowMoved, TypeOK, DbTypeOK
    <3>5. ASSUME NEW new, RowMoved(at[u], new)
          PROVE  row'[at[u]] = new /\ <<row[at[u]].state, new.state>> \in Edges
      BY <3>1, <3>5 DEF RowMoved, TypeOK, DbTypeOK
    <3>6. cp # "reconcile"
      BY <2>2, Labels DEF GateInv, ReconcileAlone
    <3>7. ASSUME NEW t \in Thread, pc[t] = "release", at[t] = at[u], ReleaseBusy(t)
          PROVE  FALSE
      <4>1. t = u
        BY <2>2, <3>7 DEF GateInv, GateExclusive, HolderPcs, ExecPcs
      <4>2. pc'[u] = "idle"
        BY <3>7, <4>1 DEF ReleaseBusy, Return, TypeOK, ThreadTypeOK
      <4>. QED  BY <1>3, <4>2, Labels
    <3>8. ASSUME NEW new, RowMoved(at[u], new),
                 ~ (row[at[u]].state = "BUSY" /\ new.state = "READY")
          PROVE  new.state \in {"BUSY", "ERROR", "DESTROYED"}
      BY <3>1, <3>5, <3>8 DEF Edges
    <3>. QED  BY <2>2, <3>1, <3>2, <3>3, <3>4, <3>5, <3>6, <3>7, <3>8, NextRow
  <2>3. (pc[u] \in HolderPcs /\ at'[u] = at[u]) \/ row'[at'[u]].state = "BUSY"
    <3>1. ASSUME NEW t \in Thread, ThreadStep(t)
          PROVE  (pc[u] \in HolderPcs /\ at'[u] = at[u]) \/ row'[at'[u]].state = "BUSY"
      BY <1>3, <3>1, ThreadPc
    <3>2. CASE ~ \E t \in Thread : ThreadStep(t)
      BY <1>3, <3>2, OtherPc, Labels
    <3>. QED  BY <3>1, <3>2
  <2>. QED  BY <2>1, <2>2, <2>3
<1>. QED  BY <1>1, <1>2, <1>3 DEF GateInv, HolderKeepsRow

(* At most one call holds a sandbox at any time, whatever the number of    *)
(* callers and sandboxes and whatever destroy, sweeper, watchdog, crash    *)
(* and reconcile do; and while one holds it the row is not READY.          *)
THEOREM Gate == Spec => []GateExclusive /\ []HolderKeepsRow /\ []ReconcileAlone
<1>1. Init => GateInv
  BY Labels DEF Init, GateInv, ReconcileAlone, HolderKeepsRow, GateExclusive
<1>2. TypeOK /\ InHand /\ GateInv /\ [Next]_vars => GateInv'
  BY GateStep
<1>3. GateInv => GateExclusive /\ HolderKeepsRow /\ ReconcileAlone
  BY DEF GateInv
<1>. QED  BY <1>1, <1>2, <1>3, TypeCorrect, PTL DEF Spec

(* Nobody brings a row back to READY behind the call that holds it: not a  *)
(* destroy that fails, a watchdog, a sweep or a reconcile (#releaseBusy,   *)
(* #rejectExec, checkSandbox).                                             *)
THEOREM HolderKeeps == Spec => []HolderKeepsRow
BY Gate, PTL

------------------------------------------------------------------------------
(* One more legal edge makes a longer trail. *)
LEMMA TrailGrows ==
  ASSUME NEW trail \in Seq((States \cup {"none"}) \X States), NEW current, NEW new \in States,
         IsTrail(trail, current), <<current, new>> \in Edges
  PROVE  IsTrail(Append(trail, <<current, new>>), new)
<1>. DEFINE longer == Append(trail, <<current, new>>)
<1>1. Len(trail) \in Nat /\ Len(trail) > 0 /\ Len(longer) = Len(trail) + 1
  BY DEF IsTrail
<1>2. /\ \A i \in 1 .. Len(trail) : longer[i] = trail[i]
      /\ longer[Len(trail) + 1] = <<current, new>>
  OBVIOUS
<1>. HIDE DEF longer
<1>3. ASSUME NEW i \in 2 .. Len(longer)
      PROVE  longer[i] \in Edges /\ longer[i - 1][2] = longer[i][1]
  <2>1. CASE i = Len(trail) + 1
    <3>1. longer[i] = <<current, new>> /\ i - 1 = Len(trail) /\ Len(trail) \in 1 .. Len(trail)
      BY <1>1, <1>2, <2>1
    <3>2. longer[i - 1] = trail[Len(trail)] /\ trail[Len(trail)][2] = current
      BY <1>2, <3>1 DEF IsTrail
    <3>. QED  BY <3>1, <3>2
  <2>2. CASE i \in 2 .. Len(trail)
    BY <1>1, <1>2, <2>2 DEF IsTrail
  <2>. QED  BY <1>1, <1>3, <2>1, <2>2
<1>4. longer[1] = trail[1] /\ longer[Len(longer)][2] = new
  BY <1>1, <1>2
<1>5. trail[1] = <<"none", "CREATING">>
  BY DEF IsTrail
<1>6. IsTrail(longer, new)
  BY <1>1, <1>3, <1>4, <1>5 DEF IsTrail
<1>. QED  BY <1>6 DEF longer

Trails ==
  \A s \in Sandbox : IF row[s].state = "none" THEN audit[s] = <<>>
                                              ELSE IsTrail(audit[s], row[s].state)

(* sandbox_state_transitions is complete: at any moment the audit rows of  *)
(* a sandbox are a path of the lifecycle from its creation to its state.   *)
THEOREM AuditTrail == Spec => []TrailIsPath
<1>1. Init => Trails
  BY DEF Init, Trails, NoRow
<1>2. TypeOK /\ InHand /\ Trails /\ [Next]_vars => Trails'
  <2>. SUFFICES ASSUME TypeOK, InHand, Trails, [Next]_vars, NEW s \in Sandbox
                PROVE  IF row'[s].state = "none" THEN audit'[s] = <<>>
                                                 ELSE IsTrail(audit'[s], row'[s].state)
    BY DEF Trails
  <2>1. row \in [Sandbox -> RowType] /\ audit \in [Sandbox -> Seq((States \cup {"none"}) \X States)]
    BY DEF TypeOK, DbTypeOK
  <2>2. CASE RowStill
    BY <2>2 DEF RowStill, Trails
  <2>3. ASSUME NEW x \in Sandbox, RowInserted(x)
        PROVE  IF row'[s].state = "none" THEN audit'[s] = <<>>
                                         ELSE IsTrail(audit'[s], row'[s].state)
    <3>1. CASE x # s
      BY <2>1, <2>3, <3>1 DEF RowInserted, Trails
    <3>2. CASE x = s
      <4>1. row'[s].state = "CREATING" /\ audit'[s] = <<<<"none", "CREATING">>>>
        BY <2>1, <2>3, <3>2 DEF RowInserted
      <4>2. IsTrail(<<<<"none", "CREATING">>>>, "CREATING")
        BY DEF IsTrail
      <4>. QED  BY <4>1, <4>2
    <3>. QED  BY <3>1, <3>2
  <2>4. ASSUME NEW x \in Sandbox, NEW new, RowMoved(x, new)
        PROVE  IF row'[s].state = "none" THEN audit'[s] = <<>>
                                         ELSE IsTrail(audit'[s], row'[s].state)
    <3>1. CASE x # s
      BY <2>1, <2>4, <3>1 DEF RowMoved, Trails
    <3>2. CASE x = s
      <4>1. /\ row[s].state # "none" /\ new.state # "none" /\ new.state \in States
            /\ <<row[s].state, new.state>> \in Edges
        BY <2>4, <3>2 DEF RowMoved, Edges, States
      <4>2. row'[s] = new /\ audit'[s] = Append(audit[s], <<row[s].state, new.state>>)
        BY <2>1, <2>4, <3>2 DEF RowMoved
      <4>3. IsTrail(audit[s], row[s].state) /\ audit[s] \in Seq((States \cup {"none"}) \X States)
        BY <2>1, <4>1 DEF Trails
      <4>. QED  BY <4>1, <4>2, <4>3, TrailGrows
    <3>. QED  BY <3>1, <3>2
  <2>. QED  BY <2>2, <2>3, <2>4, NextRow
<1>3. Trails => TrailIsPath
  BY DEF Trails, TrailIsPath, Lifecycle!TrailIsPath, Lifecycle!IsTrail, IsTrail, Lifecycle!Edges, Edges
<1>. QED  BY <1>1, <1>2, <1>3, TypeCorrect, PTL DEF Spec

------------------------------------------------------------------------------
(* What a step may do to the agents: take a slot for a command or a job,   *)
(* give it back, decide outcomes, or die.                                  *)

Started(t, e) ==
  /\ pc[t] = "exec_post" /\ slot[at[t]] = "free" /\ run[e].phase = "unused"
  /\ run' = [run EXCEPT ![e] = [sbx |-> at[t], phase |-> "running", out |-> "none"]]
  /\ slot' = [slot EXCEPT ![at[t]] = e]

Decided(e, out) ==
  /\ run[e].phase = "running"
  /\ run' = [run EXCEPT ![e].phase = "dying", ![e].out = out]
  /\ UNCHANGED slot

Stopped(s) ==
  /\ run' = [e \in Exec |-> IF run[e].sbx = s /\ run[e].phase = "running"
                              THEN [run[e] EXCEPT !.phase = "dying", !.out = "killed"] ELSE run[e]]
  /\ UNCHANGED slot

Finished(e) ==
  /\ run[e].phase = "dying"
  /\ run' = [run EXCEPT ![e].phase = "over"]
  /\ slot' = [slot EXCEPT ![run[e].sbx] = IF @ = e THEN "free" ELSE @]

JobTakes(s) == slot[s] = "free" /\ slot' = [slot EXCEPT ![s] = "job"] /\ UNCHANGED run
JobGives(s) == slot[s] = "job" /\ slot' = [slot EXCEPT ![s] = "free"] /\ UNCHANGED run

AgentMoves ==
  \/ UNCHANGED <<run, slot>>
  \/ \E s \in Sandbox : ExecsDieIn(s) \/ Stopped(s) \/ JobTakes(s) \/ JobGives(s)
  \/ \E e \in Exec : Finished(e) \/ \E out \in Outcomes : Decided(e, out)
  \/ \E t \in Thread, e \in Exec : ExecAccepted(t) /\ at[t] \in Sandbox /\ Started(t, e)

LEMMA KillMoves ==
  ASSUME TypeOK, NEW e \in Exec, Kill(e), UNCHANGED slot
  PROVE  AgentMoves
<1>1. CASE run[e].phase = "running"
  <2>1. Decided(e, "killed")
    BY <1>1 DEF Kill, Decided
  <2>. QED  BY <2>1 DEF AgentMoves, Outcomes
<1>2. CASE run[e].phase # "running"
  BY <1>2 DEF Kill, AgentMoves
<1>. QED  BY <1>1, <1>2

LEMMA ThreadAgent ==
  ASSUME TypeOK, InHand, NEW t \in Thread, ThreadStep(t)
  PROVE  AgentMoves
<1>0. at[t] \in Sandbox
  BY ThreadPc DEF InHand
<1>1. CASE UNCHANGED <<run, slot>>
  BY <1>1 DEF AgentMoves
<1>2. CASE ExecsDieIn(at[t])
  BY <1>0, <1>2 DEF AgentMoves
<1>3. CASE CreateStep(t)
  BY <1>1, <1>2, <1>3 DEF CreateStep, CreateContainer, CreateReady, CreateGivesUp, CreateUndo,
     CreateFailed, CreateCommit, worldVars
<1>4. CASE ExecAccepted(t)
  <2>1. PICK e \in Exec : Started(t, e)
    BY <1>4 DEF ExecAccepted, Started
  <2>. QED  BY <1>0, <1>4, <2>1 DEF AgentMoves
<1>5. CASE FinishKill(t)
  <2>1. UNCHANGED slot /\ (UNCHANGED run \/ Kill(call[t].id)) /\ call[t].id \in Exec
    BY <1>5 DEF FinishKill, InHand
  <2>. QED  BY <1>1, <2>1, KillMoves
<1>6. CASE ExecStep(t) /\ ~ ExecAccepted(t) /\ ~ FinishKill(t)
  BY <1>1, <1>6 DEF ExecStep, ExecGate, ExecBusy, ExecRefused, RecordExecution, ReleaseBusy,
     FinishError, worldVars
<1>7. CASE KillAnswered(t)
  <2>1. UNCHANGED slot /\ (UNCHANGED run \/ Kill(call[t].id)) /\ call[t].id \in Exec
    BY <1>7 DEF KillAnswered, InHand
  <2>. QED  BY <1>1, <2>1, KillMoves
<1>8. CASE StreamStep(t) /\ ~ KillAnswered(t)
  BY <1>1, <1>8 DEF StreamStep, StreamEnds, StreamConnects, StreamTerminal, StreamCloses,
     StreamBreaks, StreamWakes, WatchdogFires, KillWaitExpires, worldVars
<1>9. CASE ArchiveStep(t)
  <2>0. slot[at[t]] \in Exec \cup {"free", "job"} /\ slot \in [Sandbox -> Exec \cup {"free", "job"}]
    BY <1>0 DEF TypeOK, WorldTypeOK
  <2>1. CASE ArchiveBegin(t)
    BY <1>0, <2>1 DEF ArchiveBegin, JobTakes, AgentMoves
  <2>2. CASE ArchiveEnd(t) \/ ArchiveFails(t)
    <3>1. CASE slot[at[t]] = "job" /\ slot' = [slot EXCEPT ![at[t]] = "free"]
      BY <1>0, <2>2, <3>1 DEF ArchiveEnd, ArchiveFails, JobGives, AgentMoves
    <3>2. CASE slot' = [slot EXCEPT ![at[t]] = slot[at[t]]]
      BY <1>0, <1>1, <2>0, <2>2, <3>2 DEF ArchiveEnd, ArchiveFails
    <3>. QED  BY <2>0, <2>2, <3>1, <3>2 DEF ArchiveEnd, ArchiveFails
  <2>3. CASE ArchiveError(t)
    BY <1>1, <2>3 DEF ArchiveError, worldVars
  <2>. QED  BY <1>9, <2>1, <2>2, <2>3 DEF ArchiveStep
<1>10. CASE StopContainer(t)
  <2>1. UNCHANGED <<run, slot>> \/ Stopped(at[t])
    BY <1>10 DEF StopContainer, Stopped
  <2>. QED  BY <1>0, <2>1 DEF AgentMoves
<1>11. CASE RemoveContainer(t) \/ RemoveFails(t) \/ RemoveFailed(t) \/ Destroyed(t)
  BY <1>1, <1>2, <1>11 DEF RemoveContainer, RemoveFails, RemoveFailed, Destroyed, worldVars
<1>. QED  BY <1>3, <1>4, <1>5, <1>6, <1>7, <1>8, <1>9, <1>10, <1>11 DEF ThreadStep, DestroyStep

LEMMA NextAgent ==
  ASSUME TypeOK, InHand, [Next]_vars
  PROVE  AgentMoves
<1>1. CASE UNCHANGED <<run, slot>>
  BY <1>1 DEF AgentMoves
<1>2. ASSUME NEW t \in Thread, ThreadStep(t)
      PROVE  AgentMoves
  BY <1>2, ThreadAgent
<1>3. CASE SweepStep \/ Crash \/ Restart \/ UNCHANGED vars \/ \E t \in Thread, s \in Sandbox : NewCall(t, s)
  BY <1>1, <1>3 DEF SweepStep, SweepList, SweepDestroy, SweepSkip, BeginDestroy, NewCall,
     CreateInsert, ExecRead, DestroyRead, Crash, Restart, vars, worldVars
<1>4. ASSUME NEW s \in Sandbox, TimeStep(s) \/ WorldStep(s)
      PROVE  AgentMoves
  <2>1. \/ UNCHANGED <<run, slot>>
        \/ ExecsDieIn(s) \/ JobTakes(s) \/ JobGives(s)
    BY <1>4 DEF TimeStep, WorldStep, Expire, GraceEnds, ContainerUp, ContainerExits, JobBegins,
       JobEnds, JobTakes, JobGives, worldVars
  <2>. QED  BY <2>1 DEF AgentMoves
<1>5. ASSUME NEW e \in Exec, AgentStep(e)
      PROVE  AgentMoves
  <2>1. Finished(e) \/ \E out \in Outcomes : Decided(e, out)
    BY <1>5 DEF AgentStep, AgentTimesOut, AgentEnds, AgentFinishes, Finished, Decided, Outcomes
  <2>. QED  BY <2>1 DEF AgentMoves
<1>6. CASE KillRestarted
  <2>1. UNCHANGED slot /\ (UNCHANGED run \/ (Kill(look.id) /\ look.id # None)) /\ look \in LookType
    BY <1>6 DEF KillRestarted, TypeOK, CpTypeOK
  <2>. QED  BY <1>1, <2>1, KillMoves DEF LookType
<1>7. ASSUME NEW s \in Sandbox, CheckOrphan(s)
      PROVE  AgentMoves
  <2>1. UNCHANGED <<run, slot>> \/ ExecsDieIn(s)
    BY <1>7 DEF CheckOrphan
  <2>. QED  BY <2>1 DEF AgentMoves
<1>8. CASE ReconcileStep
  BY <1>1, <1>6, <1>7, <1>8 DEF ReconcileStep, CheckSandbox, RecordRestarted, ReleaseRestarted,
     ListManaged, ReconcileDone, Inspect, worldVars
<1>. QED  BY <1>2, <1>3, <1>4, <1>5, <1>8 DEF Next

(* A live execution has the slot of its agent, and an outcome as soon as   *)
(* that is decided, but not before.                                        *)
SlotOk ==
  \A e \in Exec :
    /\ run[e].phase \in {"running", "dying"} => slot[run[e].sbx] = e
    /\ run[e].phase = "unused" => run[e] = NoRun
    /\ run[e].phase = "running" => run[e].out = "none"
    /\ run[e].phase \in {"dying", "over"} => run[e].out # "none"

(* The life of one execution: it is decided once, and what is over stays.   *)
RunLife(e) ==
  \/ run'[e] = run[e]
  \/ /\ run[e].phase = "unused" /\ run'[e].phase = "running"
     /\ \E t \in Thread : ExecAccepted(t) /\ Started(t, e) /\ at[t] \in Sandbox /\ run'[e].sbx = at[t]
  \/ /\ run[e].phase \in {"running", "dying"} /\ run'[e].phase \in {"dying", "over", "lost"}
     /\ run'[e].sbx = run[e].sbx
     /\ run[e].phase = "dying" => run'[e].out = run[e].out
     /\ run'[e].phase \in {"dying", "over"} => run'[e].out # "none"

LEMMA EveryRunLives ==
  ASSUME TypeOK, InHand, SlotOk, AgentMoves, NEW e \in Exec
  PROVE  RunLife(e)
<1>0. run \in [Exec -> RunType] /\ run[e] \in RunType
  BY DEF TypeOK, WorldTypeOK
<1>1. CASE UNCHANGED <<run, slot>> \/ \E s \in Sandbox : JobTakes(s) \/ JobGives(s)
  BY <1>1 DEF RunLife, JobTakes, JobGives
<1>2. ASSUME NEW s \in Sandbox, ExecsDieIn(s)
      PROVE  RunLife(e)
  <2>1. run'[e] = run[e] \/ (run[e].phase \in {"running", "dying"} /\ run'[e] = [run[e] EXCEPT !.phase = "lost"])
    BY <1>2 DEF ExecsDieIn
  <2>2. LET r == [run[e] EXCEPT !.phase = "lost"]
        IN  r.phase = "lost" /\ r.sbx = run[e].sbx /\ r.out = run[e].out
    BY <1>0 DEF RunType
  <2>. QED  BY <2>1, <2>2 DEF RunLife
<1>3. ASSUME NEW out \in Outcomes
      PROVE  LET r == [run[e] EXCEPT !.phase = "dying", !.out = out]
             IN  r.phase = "dying" /\ r.sbx = run[e].sbx /\ r.out # "none"
  BY <1>0 DEF RunType, Outcomes
<1>4. ASSUME NEW s \in Sandbox, Stopped(s)
      PROVE  RunLife(e)
  <2>1. \/ run'[e] = run[e]
        \/ run[e].phase = "running" /\ run'[e] = [run[e] EXCEPT !.phase = "dying", !.out = "killed"]
    BY <1>4 DEF Stopped
  <2>2. "killed" \in Outcomes
    BY DEF Outcomes
  <2>. QED  BY <1>3, <2>1, <2>2 DEF RunLife
<1>5. ASSUME NEW x \in Exec, NEW out \in Outcomes, Decided(x, out)
      PROVE  RunLife(e)
  <2>1. \/ run'[e] = run[e]
        \/ run[e].phase = "running" /\ run'[e] = [run[e] EXCEPT !.phase = "dying", !.out = out]
    BY <1>0, <1>5 DEF Decided
  <2>. QED  BY <1>3, <2>1 DEF RunLife
<1>6. ASSUME NEW x \in Exec, Finished(x)
      PROVE  RunLife(e)
  <2>1. run'[e] = run[e] \/ (run[e].phase = "dying" /\ run'[e] = [run[e] EXCEPT !.phase = "over"])
    BY <1>0, <1>6 DEF Finished
  <2>2. LET r == [run[e] EXCEPT !.phase = "over"]
        IN  r.phase = "over" /\ r.sbx = run[e].sbx /\ r.out = run[e].out
    BY <1>0 DEF RunType
  <2>. QED  BY <2>1, <2>2 DEF RunLife, SlotOk
<1>7. ASSUME NEW t \in Thread, NEW x \in Exec, ExecAccepted(t), at[t] \in Sandbox, Started(t, x)
      PROVE  RunLife(e)
  BY <1>0, <1>7 DEF Started, RunLife
<1>. QED  BY <1>1, <1>2, <1>4, <1>5, <1>6, <1>7 DEF AgentMoves

LEMMA SlotStep ==
  ASSUME TypeOK, InHand, SlotOk, AgentMoves
  PROVE  SlotOk'
<1>0. /\ run \in [Exec -> RunType] /\ slot \in [Sandbox -> Exec \cup {"free", "job"}]
      /\ "free" \notin Exec /\ "job" \notin Exec
      /\ \A e \in Exec : run[e].phase # "unused" => run[e].sbx \in Sandbox
  BY ExecAssumption DEF TypeOK, WorldTypeOK, InHand
<1> SUFFICES ASSUME NEW e \in Exec
             PROVE  /\ run'[e].phase \in {"running", "dying"} => slot'[run'[e].sbx] = e
                    /\ run'[e].phase = "unused" => run'[e] = NoRun
                    /\ run'[e].phase = "running" => run'[e].out = "none"
                    /\ run'[e].phase \in {"dying", "over"} => run'[e].out # "none"
  BY DEF SlotOk
<1>1. RunLife(e)
  BY EveryRunLives
<1>2. /\ run'[e].phase = "unused" => run'[e] = NoRun
      /\ run'[e].phase \in {"dying", "over"} => run'[e].out # "none"
  BY <1>1 DEF RunLife, SlotOk
<1>3. run'[e].phase = "running" => run'[e].out = "none"
  BY <1>0, <1>1 DEF RunLife, Started, SlotOk
<1>4. ASSUME run'[e].phase \in {"running", "dying"}
      PROVE  slot'[run'[e].sbx] = e
  <2>1. run[e].phase \in {"running", "dying"} => slot[run[e].sbx] = e /\ run[e].sbx \in Sandbox
    BY <1>0 DEF SlotOk
  <2>2. CASE UNCHANGED <<run, slot>>
    BY <1>4, <2>1, <2>2
  <2>3. ASSUME NEW s \in Sandbox, ExecsDieIn(s)
        PROVE  slot'[run'[e].sbx] = e
    <3>1. run'[e] = run[e] /\ run[e].sbx # s
      <4>1. CASE run[e].sbx = s /\ run[e].phase \in {"running", "dying"}
        <5>1. run'[e].phase = "lost"
          BY <1>0, <2>3, <4>1 DEF ExecsDieIn, RunType
        <5>. QED  BY <1>4, <5>1
      <4>2. CASE ~ (run[e].sbx = s /\ run[e].phase \in {"running", "dying"})
        BY <1>4, <2>3, <4>2 DEF ExecsDieIn
      <4>. QED  BY <4>1, <4>2
    <3>. QED  BY <1>0, <1>4, <2>1, <2>3, <3>1 DEF ExecsDieIn
  <2>4. ASSUME NEW s \in Sandbox, JobTakes(s) \/ JobGives(s)
        PROVE  slot'[run'[e].sbx] = e
    BY <1>0, <1>4, <2>1, <2>4 DEF JobTakes, JobGives
  <2>5. ASSUME UNCHANGED slot, run[e].phase = "running", run'[e].sbx = run[e].sbx
        PROVE  slot'[run'[e].sbx] = e
    BY <2>1, <2>5
  <2>6. ASSUME NEW s \in Sandbox, Stopped(s)
        PROVE  slot'[run'[e].sbx] = e
    <3>1. UNCHANGED slot /\ (run'[e] = run[e] \/ run[e].phase = "running")
      BY <2>6 DEF Stopped
    <3>. QED  BY <1>1, <1>4, <2>1, <2>5, <3>1 DEF RunLife
  <2>7. ASSUME NEW x \in Exec, NEW out \in Outcomes, Decided(x, out)
        PROVE  slot'[run'[e].sbx] = e
    <3>1. UNCHANGED slot /\ (run'[e] = run[e] \/ run[e].phase = "running")
      BY <1>0, <2>7 DEF Decided
    <3>. QED  BY <1>1, <1>4, <2>1, <2>5, <3>1 DEF RunLife
  <2>8. ASSUME NEW x \in Exec, Finished(x)
        PROVE  slot'[run'[e].sbx] = e
    <3>1. CASE x = e
      <4>1. run'[e].phase = "over"
        BY <1>0, <2>8, <3>1 DEF Finished, RunType
      <4>. QED  BY <1>4, <4>1
    <3>2. CASE x # e
      BY <1>0, <1>4, <2>1, <2>8, <3>2 DEF Finished
    <3>. QED  BY <3>1, <3>2
  <2>9. ASSUME NEW t \in Thread, NEW x \in Exec, at[t] \in Sandbox, Started(t, x)
        PROVE  slot'[run'[e].sbx] = e
    BY <1>0, <1>4, <2>1, <2>9 DEF Started
  <2>. QED  BY <2>2, <2>3, <2>4, <2>6, <2>7, <2>8, <2>9 DEF AgentMoves
<1>. QED  BY <1>2, <1>3, <1>4

LEMMA SlotInductive == Spec => []SlotOk
<1>1. Init => SlotOk
  BY DEF Init, SlotOk, NoRun
<1>2. TypeOK /\ InHand /\ SlotOk /\ [Next]_vars => SlotOk'
  BY NextAgent, SlotStep
<1>. QED  BY <1>1, <1>2, TypeCorrect, PTL DEF Spec

------------------------------------------------------------------------------
(* The agents that the manager meets behave like the real ones.            *)

(* One step of the agents is, in every sandbox, a step of AgentView or     *)
(* none.                                                                   *)
LEMMA AgentStepIsView ==
  ASSUME TypeOK, InHand, SlotOk, [Next]_vars, NEW s \in Sandbox
  PROVE  [Agent(s)!Next]_(Agent(s)!vars)
<1> DEFINE phase == [e \in Exec |-> IF run[e].sbx = s THEN run[e].phase ELSE "unused"]
           out == [e \in Exec |-> IF run[e].sbx = s THEN run[e].out ELSE "none"]
<1>0. /\ run \in [Exec -> RunType] /\ slot \in [Sandbox -> Exec \cup {"free", "job"}]
      /\ run' \in [Exec -> RunType] /\ AgentMoves
  <2>1. run' \in [Exec -> RunType]
    BY NextType DEF TypeOK, WorldTypeOK
  <2>. QED  BY <2>1, NextAgent DEF TypeOK, WorldTypeOK
<1>. HIDE DEF phase, out
(* What a step of the view is, in these terms. *)
<1>1. ASSUME slot'[s] = slot[s], phase' = phase, out' = out
      PROVE  UNCHANGED Agent(s)!vars
  BY <1>1 DEF Agent!vars, phase, out
<1>2. ASSUME slot'[s] = "free", out' = out,
             phase' = [e \in Exec |-> IF phase[e] \in {"running", "dying"} THEN "lost" ELSE phase[e]]
      PROVE  Agent(s)!Next
  BY <1>2 DEF Agent!Next, Agent!Die, phase, out
<1>3. ASSUME NEW e \in Exec, slot'[s] = slot[s], phase[e] = "running",
             phase' = [phase EXCEPT ![e] = "dying"],
             \E o \in Outcomes : out' = [out EXCEPT ![e] = o]
      PROVE  Agent(s)!Next
  BY <1>3 DEF Agent!Next, Agent!Decide, phase, out, Outcomes
<1>4. ASSUME NEW e \in Exec, slot[s] = e, phase[e] = "dying", slot'[s] = "free",
             phase' = [phase EXCEPT ![e] = "over"], out' = out
      PROVE  Agent(s)!Next
  BY <1>4 DEF Agent!Next, Agent!Finish, phase, out
<1>5. ASSUME NEW e \in Exec, slot[s] = "free", phase[e] = "unused", slot'[s] = e,
             phase' = [phase EXCEPT ![e] = "running"], out' = out
      PROVE  Agent(s)!Next
  BY <1>5 DEF Agent!Next, Agent!Start, phase, out
<1>6. ASSUME phase' = phase, out' = out,
             \/ slot[s] = "free" /\ slot'[s] = "job"
             \/ slot[s] = "job" /\ slot'[s] = "free"
      PROVE  Agent(s)!Next
  BY <1>6 DEF Agent!Next, Agent!JobBegins, Agent!JobEnds, phase, out
(* What each move is to the sandbox s. *)
<1>p. \A e \in Exec : /\ phase[e] = IF run[e].sbx = s THEN run[e].phase ELSE "unused"
                      /\ out[e] = IF run[e].sbx = s THEN run[e].out ELSE "none"
                      /\ phase'[e] = IF run'[e].sbx = s THEN run'[e].phase ELSE "unused"
                      /\ out'[e] = IF run'[e].sbx = s THEN run'[e].out ELSE "none"
  BY DEF phase, out
<1>f. phase \in [Exec -> Phases] /\ out \in [Exec -> Outcomes \cup {"none"}]
  BY <1>0 DEF phase, out, RunType, Phases
<1>g. phase' \in [Exec -> Phases] /\ out' \in [Exec -> Outcomes \cup {"none"}]
  BY <1>0 DEF phase, out, RunType, Phases
<1>s. (UNCHANGED run \/ \A e \in Exec : phase'[e] = phase[e] /\ out'[e] = out[e]) => phase' = phase /\ out' = out
  BY <1>f, <1>g DEF phase, out
<1>7. CASE UNCHANGED <<run, slot>>
  BY <1>1, <1>7, <1>s
<1>8. ASSUME NEW x \in Sandbox, ExecsDieIn(x)
      PROVE  [Agent(s)!Next]_(Agent(s)!vars)
  <2>1. \A e \in Exec : /\ run'[e].sbx = run[e].sbx /\ run'[e].out = run[e].out
                        /\ run'[e].phase = IF run[e].sbx = x /\ run[e].phase \in {"running", "dying"}
                                           THEN "lost" ELSE run[e].phase
    BY <1>0, <1>8 DEF ExecsDieIn, RunType
  <2>2. CASE x = s
    <3>1. \A e \in Exec : phase'[e] = IF phase[e] \in {"running", "dying"} THEN "lost" ELSE phase[e]
      BY <1>p, <2>1, <2>2
    <3>2. phase' = [e \in Exec |-> IF phase[e] \in {"running", "dying"} THEN "lost" ELSE phase[e]]
      BY <1>g, <3>1
    <3>3. \A e \in Exec : out'[e] = out[e]
      BY <1>p, <2>1
    <3>. QED  BY <1>0, <1>2, <1>8, <1>f, <1>g, <2>2, <3>2, <3>3 DEF ExecsDieIn
  <2>3. CASE x # s
    <3>1. \A e \in Exec : phase'[e] = phase[e] /\ out'[e] = out[e]
      BY <1>p, <2>1, <2>3
    <3>. QED  BY <1>0, <1>1, <1>8, <1>s, <2>3, <3>1 DEF ExecsDieIn
  <2>. QED  BY <2>2, <2>3
<1>9. ASSUME NEW x \in Sandbox, JobTakes(x) \/ JobGives(x)
      PROVE  [Agent(s)!Next]_(Agent(s)!vars)
  <2>1. CASE x = s
    BY <1>0, <1>6, <1>9, <1>s, <2>1 DEF JobTakes, JobGives
  <2>2. CASE x # s
    BY <1>0, <1>1, <1>9, <1>s, <2>2 DEF JobTakes, JobGives
  <2>. QED  BY <2>1, <2>2
(* One execution is decided. *)
<1>10. ASSUME NEW e \in Exec, NEW o \in Outcomes, UNCHANGED slot, run[e].phase = "running",
              run'[e].phase = "dying", run'[e].out = o, run'[e].sbx = run[e].sbx,
              \A x \in Exec \ {e} : run[x].sbx = s => run'[x] = run[x],
              \A x \in Exec : run'[x].sbx = run[x].sbx
       PROVE  [Agent(s)!Next]_(Agent(s)!vars)
  <2>1. CASE run[e].sbx = s
    <3>1. /\ phase[e] = "running" /\ phase'[e] = "dying" /\ out'[e] = o
          /\ \A x \in Exec \ {e} : phase'[x] = phase[x] /\ out'[x] = out[x]
      BY <1>10, <1>p, <2>1
    <3>2. phase' = [phase EXCEPT ![e] = "dying"] /\ out' = [out EXCEPT ![e] = o]
      BY <1>f, <1>g, <3>1
    <3>. QED  BY <1>3, <1>10, <3>1, <3>2
  <2>2. CASE run[e].sbx # s
    <3>1. \A x \in Exec : phase'[x] = phase[x] /\ out'[x] = out[x]
      BY <1>10, <1>p, <2>2
    <3>. QED  BY <1>1, <1>10, <1>s, <3>1
  <2>. QED  BY <2>1, <2>2
<1>11. ASSUME NEW e \in Exec, NEW o \in Outcomes, Decided(e, o)
       PROVE  [Agent(s)!Next]_(Agent(s)!vars)
  <2>1. run'[e].phase = "dying" /\ run'[e].out = o /\ run'[e].sbx = run[e].sbx
    BY <1>0, <1>11 DEF Decided, RunType
  <2>2. \A x \in Exec \ {e} : run'[x] = run[x]
    BY <1>0, <1>11 DEF Decided
  <2>. QED  BY <1>10, <1>11, <2>1, <2>2 DEF Decided
<1>12. ASSUME NEW x \in Sandbox, Stopped(x)
       PROVE  [Agent(s)!Next]_(Agent(s)!vars)
  <2>1. \A e \in Exec :
           /\ run'[e].sbx = run[e].sbx
           /\ run[e].sbx = x /\ run[e].phase = "running" => run'[e].phase = "dying" /\ run'[e].out = "killed"
           /\ ~(run[e].sbx = x /\ run[e].phase = "running") => run'[e] = run[e]
    <3>1. \A e \in Exec : LET r == [run[e] EXCEPT !.phase = "dying", !.out = "killed"]
                          IN  r.phase = "dying" /\ r.out = "killed" /\ r.sbx = run[e].sbx
      BY <1>0 DEF RunType
    <3>. QED  BY <1>12, <3>1 DEF Stopped
  <2>2. CASE x = s /\ \E e \in Exec : run[e].sbx = s /\ run[e].phase = "running"
    <3>1. PICK e \in Exec : run[e].sbx = s /\ run[e].phase = "running"
      BY <2>2
    <3>2. \A y \in Exec \ {e} : run[y].sbx = s => run[y].phase # "running"
      BY <3>1 DEF SlotOk
    <3>3. UNCHANGED slot /\ "killed" \in Outcomes
      BY <1>12 DEF Stopped, Outcomes
    <3>. QED  BY <1>10, <2>1, <2>2, <3>1, <3>2, <3>3
  <2>3. CASE ~ (x = s /\ \E e \in Exec : run[e].sbx = s /\ run[e].phase = "running")
    <3>1. \A e \in Exec : phase'[e] = phase[e] /\ out'[e] = out[e]
      BY <1>p, <2>1, <2>3
    <3>. QED  BY <1>1, <1>12, <1>s, <3>1 DEF Stopped
  <2>. QED  BY <2>2, <2>3
<1>13. ASSUME NEW e \in Exec, Finished(e)
       PROVE  [Agent(s)!Next]_(Agent(s)!vars)
  <2>1. /\ run[e].phase = "dying" /\ slot[run[e].sbx] = e /\ run[e].sbx \in Sandbox
        /\ run'[e].phase = "over" /\ run'[e].sbx = run[e].sbx /\ run'[e].out = run[e].out
        /\ \A x \in Exec \ {e} : run'[x] = run[x]
    BY <1>0, <1>13 DEF Finished, RunType, SlotOk, InHand
  <2>2. slot' = [slot EXCEPT ![run[e].sbx] = "free"]
    BY <1>0, <1>13, <2>1 DEF Finished
  <2>3. CASE run[e].sbx = s
    <3>1. /\ phase[e] = "dying" /\ phase'[e] = "over"
          /\ \A x \in Exec \ {e} : phase'[x] = phase[x]
          /\ \A x \in Exec : out'[x] = out[x]
      BY <1>p, <2>1, <2>3
    <3>2. phase' = [phase EXCEPT ![e] = "over"] /\ out' = out
      BY <1>f, <1>g, <3>1
    <3>. QED  BY <1>0, <1>4, <2>1, <2>2, <2>3, <3>1, <3>2
  <2>4. CASE run[e].sbx # s
    <3>1. \A x \in Exec : phase'[x] = phase[x] /\ out'[x] = out[x]
      BY <1>p, <2>1, <2>4
    <3>. QED  BY <1>0, <1>1, <1>s, <2>1, <2>2, <2>4, <3>1
  <2>. QED  BY <2>3, <2>4
<1>14. ASSUME NEW t \in Thread, NEW e \in Exec, at[t] \in Sandbox, Started(t, e)
       PROVE  [Agent(s)!Next]_(Agent(s)!vars)
  <2>1. /\ slot[at[t]] = "free" /\ slot' = [slot EXCEPT ![at[t]] = e]
        /\ run[e].phase = "unused" /\ run[e].sbx = None /\ run[e].out = "none"
        /\ run'[e].phase = "running" /\ run'[e].sbx = at[t] /\ run'[e].out = "none"
        /\ \A x \in Exec \ {e} : run'[x] = run[x]
    BY <1>0, <1>14 DEF Started, SlotOk, NoRun
  <2>2. None # s
    BY ThreadAssumption
  <2>3. \A x \in Exec : out'[x] = out[x]
    BY <1>p, <2>1, <2>2
  <2>4. CASE at[t] = s
    <3>1. phase[e] = "unused" /\ phase'[e] = "running" /\ \A x \in Exec \ {e} : phase'[x] = phase[x]
      BY <1>p, <2>1, <2>2, <2>4
    <3>2. phase' = [phase EXCEPT ![e] = "running"] /\ out' = out
      BY <1>f, <1>g, <2>3, <3>1
    <3>. QED  BY <1>0, <1>5, <2>1, <2>4, <3>1, <3>2
  <2>5. CASE at[t] # s
    <3>1. \A x \in Exec : phase'[x] = phase[x]
      BY <1>p, <2>1, <2>2, <2>5
    <3>. QED  BY <1>0, <1>1, <1>s, <2>1, <2>3, <2>5, <3>1
  <2>. QED  BY <2>4, <2>5
<1>. QED  BY <1>0, <1>7, <1>8, <1>9, <1>11, <1>12, <1>13, <1>14 DEF AgentMoves

(* In every sandbox the manager meets an agent that keeps its promise, one *)
(* command or job at a time and each outcome decided once, whatever any    *)
(* number of callers, destroys and restarts do (the manager only asks:     *)
(* sandbox-manager.ts:423-476, 641, 764, 810; reconcile.ts:212).           *)
THEOREM AgentsDoAsTheyPromise == Spec => AgentsKeepPromise
<1>1. Init => \A s \in Sandbox : Agent(s)!Init
  <2> SUFFICES ASSUME Init, NEW s \in Sandbox PROVE Agent(s)!Init
    OBVIOUS
  <2>1. slot[s] = "free" /\ \A e \in Exec : run[e] = NoRun
    BY DEF Init
  <2>. QED  BY <2>1 DEF Agent!Init, NoRun
<1> DEFINE A == \A s \in Sandbox : [Agent(s)!Next]_(Agent(s)!vars)
<1>2. TypeOK /\ InHand /\ SlotOk /\ [Next]_vars => A
  BY AgentStepIsView
<1>3. UNCHANGED vars => A
  BY DEF vars, worldVars, Agent!vars
<1> HIDE DEF A
<1>4. Spec => [][A]_vars
  BY <1>2, TypeCorrect, SlotInductive, PTL DEF Spec
<1>5. Spec => \A s \in Sandbox : Agent(s)!Init
  BY <1>1 DEF Spec
<1>. QED  BY <1>4, <1>5 DEF AgentsKeepPromise, A

------------------------------------------------------------------------------
(* The calls that follow an execution.                                     *)

(* A thread's own state changes by its own steps, by a new call or by the  *)
(* death of the process.                                                   *)
LEMMA ThreadOthers ==
  ASSUME TypeOK, InHand, NEW t \in Thread, ThreadStep(t), NEW u \in Thread \ {t}
  PROVE  pc'[u] = pc[u] /\ at'[u] = at[u] /\ call'[u] = call[u] /\ snap'[u] = snap[u]
<1>1. pc'[u] = pc[u] /\ at'[u] = at[u]
  BY ThreadPc
<1>. USE DEF TypeOK, ThreadTypeOK, Return
<1>2. CASE CreateStep(t)
  BY <1>1, <1>2 DEF CreateStep, CreateContainer, CreateReady, CreateGivesUp, CreateUndo,
     CreateFailed, CreateCommit
<1>3. CASE ExecStep(t)
  BY <1>1, <1>3 DEF ExecStep, ExecGate, ExecAccepted, ExecBusy, ExecRefused, FinishKill,
     RecordExecution, ReleaseBusy, FinishError
<1>4. CASE StreamStep(t)
  BY <1>1, <1>4 DEF StreamStep, StreamEnds, StreamConnects, StreamTerminal, StreamCloses,
     StreamBreaks, StreamWakes, WatchdogFires, KillAnswered, KillWaitExpires, Abort
<1>5. CASE DestroyStep(t)
  BY <1>1, <1>5 DEF DestroyStep, ArchiveStep, ArchiveBegin, ArchiveEnd, ArchiveFails,
     ArchiveError, StopContainer, RemoveContainer, RemoveFails, RemoveFailed, Destroyed
<1>. QED  BY <1>2, <1>3, <1>4, <1>5 DEF ThreadStep

Begins(t, s) == NewCall(t, s) \/ BeginDestroy(t, s)

LEMMA NextThread ==
  ASSUME TypeOK, InHand, [Next]_vars, NEW t \in Thread
  PROVE  \/ ThreadStep(t)
         \/ pc'[t] = pc[t] /\ at'[t] = at[t] /\ call'[t] = call[t] /\ snap'[t] = snap[t]
         \/ pc[t] = "idle" /\ call'[t] = call[t] /\ \E s \in Sandbox : Begins(t, s)
         \/ Crash
<1>1. ASSUME NEW u \in Thread, NEW s \in Sandbox, Begins(u, s), u # t
      PROVE  pc'[t] = pc[t] /\ at'[t] = at[t] /\ call'[t] = call[t] /\ snap'[t] = snap[t]
  BY <1>1 DEF Begins, NewCall, CreateInsert, ExecRead, DestroyRead, BeginDestroy, Goto, TypeOK,
     ThreadTypeOK
<1>2. ASSUME NEW s \in Sandbox, Begins(t, s)
      PROVE  pc[t] = "idle" /\ call'[t] = call[t]
  BY <1>2 DEF Begins, NewCall, CreateInsert, ExecRead, DestroyRead, BeginDestroy, CanStart
<1>3. ASSUME NEW u \in Thread, ThreadStep(u), u # t
      PROVE  pc'[t] = pc[t] /\ at'[t] = at[t] /\ call'[t] = call[t] /\ snap'[t] = snap[t]
  BY <1>3, ThreadOthers
<1>4. CASE SweepStep
  BY <1>1, <1>2, <1>4, Labels DEF SweepStep, SweepList, SweepDestroy, SweepSkip, Begins, threadVars
<1>5. CASE UNCHANGED threadVars
  BY <1>5 DEF threadVars
<1>6. ASSUME NEW s \in Sandbox, TimeStep(s) \/ WorldStep(s)
      PROVE  UNCHANGED threadVars
  BY <1>6 DEF TimeStep, WorldStep, Expire, GraceEnds, ContainerUp, ContainerExits, JobBegins, JobEnds
<1>7. ASSUME NEW e \in Exec, AgentStep(e)
      PROVE  UNCHANGED threadVars
  BY <1>7 DEF AgentStep, AgentTimesOut, AgentEnds, AgentFinishes
<1>8. CASE ReconcileStep \/ Restart \/ UNCHANGED vars
  BY <1>5, <1>8 DEF ReconcileStep, Restart, CheckSandbox, KillRestarted, RecordRestarted,
     ReleaseRestarted, ListManaged, ReconcileDone, Inspect, CheckOrphan, vars
<1>. QED  BY <1>1, <1>2, <1>3, <1>4, <1>5, <1>6, <1>7, <1>8 DEF Next, Begins

(* Who writes the executions table: the call that has an execution in hand *)
(* once it is through with it, and reconcile after a kill.                 *)
ExecutionMoves ==
  \/ UNCHANGED execution
  \/ \E t \in Thread : RecordExecution(t) /\ call[t].id \in Exec
  \/ RecordRestarted /\ look.id \in Exec

LEMMA NextExecution ==
  ASSUME TypeOK, InHand, [Next]_vars
  PROVE  ExecutionMoves
<1>1. ASSUME NEW t \in Thread, ThreadStep(t)
      PROVE  ExecutionMoves
  <2>1. UNCHANGED execution \/ RecordExecution(t)
    BY <1>1 DEF ThreadStep, CreateStep, ExecStep, StreamStep, StreamEnds, DestroyStep, ArchiveStep,
       CreateContainer, CreateReady, CreateGivesUp, CreateUndo, CreateFailed, CreateCommit,
       ExecGate, ExecAccepted, ExecBusy, ExecRefused, FinishKill, ReleaseBusy, FinishError,
       StreamConnects, StreamTerminal, StreamCloses, StreamBreaks, StreamWakes,
       WatchdogFires, KillAnswered, KillWaitExpires, ArchiveBegin, ArchiveEnd, ArchiveFails,
       ArchiveError, StopContainer, RemoveContainer, RemoveFails, RemoveFailed, Destroyed, dbVars
  <2>2. RecordExecution(t) => call[t].id \in Exec
    BY DEF RecordExecution, InHand
  <2>. QED  BY <2>1, <2>2 DEF ExecutionMoves
<1>2. ASSUME NEW t \in Thread, NEW s \in Sandbox, NewCall(t, s)
      PROVE  UNCHANGED execution
  BY <1>2 DEF NewCall, CreateInsert, ExecRead, DestroyRead, BeginDestroy, dbVars
<1>3. CASE SweepStep \/ Crash \/ Restart \/ UNCHANGED vars
  BY <1>3 DEF SweepStep, SweepList, SweepDestroy, SweepSkip, BeginDestroy, Crash, Restart, vars,
     dbVars, ExecutionMoves
<1>4. ASSUME NEW s \in Sandbox, TimeStep(s) \/ WorldStep(s)
      PROVE  UNCHANGED execution
  BY <1>4 DEF TimeStep, WorldStep, Expire, GraceEnds, ContainerUp, ContainerExits, JobBegins,
     JobEnds, dbVars
<1>5. ASSUME NEW e \in Exec, AgentStep(e)
      PROVE  UNCHANGED execution
  BY <1>5 DEF AgentStep, AgentTimesOut, AgentEnds, AgentFinishes, dbVars
<1>6. CASE ReconcileStep
  <2>1. RecordRestarted => look.id \in Exec
    BY DEF RecordRestarted, InHand
  <2>. QED  BY <1>6, <2>1 DEF ReconcileStep, CheckSandbox, KillRestarted, ReleaseRestarted,
               ListManaged, ReconcileDone, Inspect, CheckOrphan, dbVars, ExecutionMoves
<1>. QED  BY <1>1, <1>2, <1>3, <1>4, <1>5, <1>6 DEF Next, ExecutionMoves

FollowPcs == {"stream", "finish", "finish_record", "record", "release", "finish_error"}

(* What a call that has an execution in hand knows of it: whose it is,     *)
(* that it is over once a terminal event was read, that anything else is a *)
(* kill or a failure, and that its row is written before the call lets go. *)
CallOk(t) ==
  LET e == call[t].id IN
  e \in Exec =>
    /\ pc[t] \in FollowPcs
    /\ run[e].phase # "unused" /\ run[e].sbx = at[t]
    /\ pc[t] \in {"record", "release"} => run[e].phase = "over"
    /\ pc[t] = "record" => call[t].result = run[e].out
    /\ pc[t] = "finish_record" => call[t].result \in {"killed", "failed"}
    /\ pc[t] \in {"release", "finish_error"} => execution[e] # "none"

RunInv == ResultsAreTrue /\ \A t \in Thread : CallOk(t)

(* A record of the run of an execution keeps what calls rely on.           *)
LEMMA RunLasts ==
  ASSUME NEW e \in Exec, RunLife(e), run[e].phase # "unused"
  PROVE  /\ run'[e].phase # "unused" /\ run'[e].sbx = run[e].sbx
         /\ run[e].phase = "over" => run'[e] = run[e]
         /\ run[e].out # "none" /\ run[e].phase # "running" => run'[e].out = run[e].out
BY DEF RunLife

(* A call record about the same execution and with the same result.        *)
Same(c, d) == c.id = d.id /\ c.result = d.result

LEMMA SameCall ==
  ASSUME NEW c \in CallType
  PROVE  /\ \A x : Same([c EXCEPT !.sse = x], c)
         /\ \A x : Same([c EXCEPT !.watch = x], c)
         /\ \A x : Same([c EXCEPT !.kill = x], c)
         /\ \A x, y : Same([c EXCEPT !.watch = x, !.kill = y], c)
         /\ \A x : Same([c EXCEPT !.aborted = TRUE, !.sse = x], c)
  BY DEF CallType, Same

(* A step of the stream other than the terminal event leaves a call where  *)
(* it is or sends it to #finishExec, without a result.                     *)
LEMMA StreamCall ==
  ASSUME TypeOK, InHand, NEW t \in Thread, StreamStep(t), ~ StreamTerminal(t)
  PROVE  /\ call'[t].id = call[t].id /\ call'[t].result = call[t].result
         /\ UNCHANGED <<at, execution>>
         /\ UNCHANGED pc \/ (pc[t] = "stream" /\ pc'[t] = "finish")
<1>0. call[t] \in CallType /\ call \in [Thread -> CallType] /\ pc \in [Thread -> Pcs]
  BY DEF TypeOK, ThreadTypeOK
<1>1. UNCHANGED <<at, execution>>
  BY DEF StreamStep, StreamEnds, StreamConnects, StreamTerminal, StreamCloses, StreamBreaks,
     StreamWakes, WatchdogFires, KillAnswered, KillWaitExpires, dbVars
<1> DEFINE Moves == UNCHANGED pc \/ (pc[t] = "stream" /\ pc'[t] = "finish")
<1>2. ASSUME NEW c \in CallType, Same(c, call[t]), Abort(t, c)
      PROVE  (\E d : call' = [call EXCEPT ![t] = d] /\ Same(d, call[t])) /\ Moves
  <2>1. \A x : Same([c EXCEPT !.aborted = TRUE, !.sse = x], call[t])
    BY <1>2, SameCall DEF Same
  <2>. QED  BY <1>0, <1>2, <2>1 DEF Abort, Goto
<1>3. ASSUME NEW d, call' = [call EXCEPT ![t] = d], Same(d, call[t])
      PROVE  call'[t].id = call[t].id /\ call'[t].result = call[t].result
  BY <1>0, <1>3 DEF Same
<1>4. CASE KillAnswered(t)
  <2>1. [call[t] EXCEPT !.kill = "failed"] \in CallType /\ Same([call[t] EXCEPT !.kill = "failed"], call[t])
    BY <1>0, WithKill, SameCall
  <2>2. CASE Abort(t, [call[t] EXCEPT !.kill = "failed"])
    BY <1>1, <1>2, <1>3, <2>1, <2>2
  <2>3. CASE call' = [call EXCEPT ![t] = [call[t] EXCEPT !.kill = "ok"]] /\ UNCHANGED pc
    BY <1>0, <1>1, <1>3, <2>3, SameCall
  <2>. QED  BY <1>4, <2>2, <2>3 DEF KillAnswered
<1>5. CASE KillWaitExpires(t)
  <2>1. [call[t] EXCEPT !.watch = "expired"] \in CallType /\ Same([call[t] EXCEPT !.watch = "expired"], call[t])
    BY <1>0, WithWatch, SameCall
  <2>. QED  BY <1>1, <1>2, <1>3, <1>5, <2>1 DEF KillWaitExpires
<1>6. CASE StreamConnects(t) \/ StreamBreaks(t) \/ StreamWakes(t)
  <2>1. \E x : call' = [call EXCEPT ![t] = [call[t] EXCEPT !.sse = x]]
    BY <1>6 DEF StreamConnects, StreamBreaks, StreamWakes
  <2>2. Moves
    BY <1>0, <1>6 DEF StreamConnects, StreamBreaks, StreamWakes, Goto
  <2>. QED  BY <1>0, <1>1, <1>3, <2>1, <2>2, SameCall
<1>7. CASE StreamCloses(t)
  <2>1. call'[t].id = call[t].id /\ call'[t].result = call[t].result
    BY <1>0, <1>7 DEF StreamCloses, CallType
  <2>2. Moves
    BY <1>0, <1>7 DEF StreamCloses, Goto
  <2>. QED  BY <1>1, <2>1, <2>2
<1>8. CASE WatchdogFires(t)
  <2>1. call' = [call EXCEPT ![t] = [call[t] EXCEPT !.watch = "waiting", !.kill = "sent"]] /\ UNCHANGED pc
    BY <1>8 DEF WatchdogFires
  <2>. QED  BY <1>0, <1>1, <1>3, <2>1, SameCall
<1>. QED  BY <1>4, <1>5, <1>6, <1>7, <1>8 DEF StreamStep, StreamEnds

(* A call that has nothing in hand has nothing to know. *)
LEMMA NothingToKnow ==
  ASSUME NEW t \in Thread, call'[t].id \notin Exec
  PROVE  CallOk(t)'
BY DEF CallOk

LEMMA IdleKnowsNothing ==
  ASSUME TypeOK, NEW t \in Thread, Return(t)
  PROVE  CallOk(t)' /\ call'[t] = NoCall
<1>1. call'[t] = NoCall /\ call'[t].id = None
  BY DEF Return, TypeOK, ThreadTypeOK, NoCall
<1>. QED  BY <1>1, NothingToKnow, Labels

LEMMA ThreadCallOk ==
  ASSUME TypeOK, InHand, SlotOk, NEW t \in Thread, CallOk(t), ThreadStep(t), \A e \in Exec : RunLife(e)
  PROVE  CallOk(t)'
<1>0. call \in [Thread -> CallType] /\ pc \in [Thread -> Pcs] /\ execution \in [Exec -> Outcomes \cup {"none"}]
      /\ run \in [Exec -> RunType] /\ call[t] \in CallType /\ "none" \notin Outcomes
  BY DEF TypeOK, ThreadTypeOK, DbTypeOK, WorldTypeOK, Outcomes
<1>1. pc[t] \notin FollowPcs => call[t].id \notin Exec
  BY DEF CallOk
<1>2. CASE Return(t)
  BY <1>2, IdleKnowsNothing
<1>3. ASSUME pc[t] \notin FollowPcs, call'[t] = call[t]
      PROVE  CallOk(t)'
  BY <1>1, <1>3, NothingToKnow
<1>4. CASE CreateStep(t)
  BY <1>2, <1>3, <1>4 DEF CreateStep, CreateContainer, CreateReady, CreateGivesUp, CreateFailed,
     CreateCommit, CreateUndo, FollowPcs
<1>5. CASE DestroyStep(t)
  BY <1>2, <1>3, <1>5 DEF DestroyStep, ArchiveStep, ArchiveBegin, ArchiveEnd, ArchiveFails,
     ArchiveError, StopContainer, RemoveContainer, RemoveFails, RemoveFailed, Destroyed, FollowPcs
<1>6. CASE ExecAccepted(t)
  <2>1. PICK e \in Exec :
          /\ run' = [run EXCEPT ![e] = [sbx |-> at[t], phase |-> "running", out |-> "none"]]
          /\ \/ call' = [call EXCEPT ![t].id = e, ![t].sse = "connect"] /\ Goto(t, "stream")
             \/ UNCHANGED call
    BY <1>6 DEF ExecAccepted
  <2>2. UNCHANGED at /\ pc[t] = "exec_post"
    BY <1>6 DEF ExecAccepted
  <2>3. CASE call' = [call EXCEPT ![t].id = e, ![t].sse = "connect"] /\ Goto(t, "stream")
    <3>1. call'[t].id = e /\ pc'[t] = "stream"
      BY <1>0, <2>3 DEF CallType, Goto
    <3>2. run'[e].phase = "running" /\ run'[e].sbx = at[t]
      BY <1>0, <2>1
    <3>. QED  BY <2>2, <3>1, <3>2 DEF CallOk, FollowPcs
  <2>4. CASE UNCHANGED call
    BY <1>3, <2>2, <2>4 DEF FollowPcs
  <2>. QED  BY <2>1, <2>3, <2>4
<1>7. CASE ExecGate(t) \/ ExecBusy(t) \/ ExecRefused(t) \/ ReleaseBusy(t) \/ FinishError(t)
  BY <1>2, <1>3, <1>7 DEF ExecGate, ExecBusy, ExecRefused, ReleaseBusy, FinishError, FollowPcs
(* The steps of a call about its execution. *)
<1>8. ASSUME call[t].id \in Exec, call'[t].id = call[t].id, UNCHANGED at
      PROVE  LET e == call[t].id IN
             /\ pc[t] \in FollowPcs /\ run'[e].phase # "unused" /\ run'[e].sbx = at[t]
             /\ run[e].phase = "over" => run'[e] = run[e] /\ run[e].out # "none"
  BY <1>8, RunLasts DEF CallOk, SlotOk
<1>9. CASE FinishKill(t)
  <2>1. call[t].id \in Exec /\ UNCHANGED at /\ pc'[t] = "finish_record"
    BY <1>0, <1>9 DEF FinishKill, InHand, Goto
  <2>2. call'[t].id = call[t].id /\ call'[t].result \in {"killed", "failed"}
    <3>1. \A x \in Outcomes : [call[t] EXCEPT !.result = x].id = call[t].id
                              /\ [call[t] EXCEPT !.result = x].result = x
      BY <1>0 DEF CallType
    <3>2. \E x \in {"killed", "failed"} : call' = [call EXCEPT ![t] = [call[t] EXCEPT !.result = x]]
      BY <1>9 DEF FinishKill
    <3>. QED  BY <1>0, <3>1, <3>2 DEF Outcomes
  <2>. QED  BY <1>8, <2>1, <2>2 DEF CallOk, FollowPcs
<1>10. CASE RecordExecution(t)
  <2>1. call[t].id \in Exec /\ UNCHANGED <<at, call>>
        /\ execution'[call[t].id] = call[t].result /\ pc[t] \in {"record", "finish_record"}
        /\ pc'[t] = IF pc[t] = "record" THEN "release" ELSE "finish_error"
    BY <1>0, <1>10 DEF RecordExecution, InHand, Goto
  <2>2. call[t].result # "none"
    BY <2>1, <1>8 DEF CallOk
  <2>. QED  BY <1>8, <2>1, <2>2 DEF CallOk, FollowPcs
<1>11. CASE StreamTerminal(t)
  <2>1. call[t].id \in Exec /\ UNCHANGED at /\ pc'[t] = "record" /\ run[call[t].id].phase = "over"
    BY <1>0, <1>11 DEF StreamTerminal, InHand, Goto
  <2>2. call'[t].id = call[t].id /\ call'[t].result = run[call[t].id].out
    BY <1>0, <1>11 DEF StreamTerminal, CallType
  <2>. QED  BY <1>8, <2>1, <2>2 DEF CallOk, FollowPcs
<1>12. CASE StreamStep(t) /\ ~ StreamTerminal(t)
  <2>1. /\ call'[t].id = call[t].id /\ call'[t].result = call[t].result
        /\ UNCHANGED <<at, execution>>
        /\ UNCHANGED pc \/ (pc[t] = "stream" /\ pc'[t] = "finish")
    BY <1>12, StreamCall
  <2>2. CASE call[t].id \notin Exec
    BY <2>1, <2>2, NothingToKnow
  <2>3. CASE call[t].id \in Exec
    BY <1>8, <2>1, <2>3 DEF CallOk, FollowPcs
  <2>. QED  BY <2>2, <2>3
<1>. QED  BY <1>4, <1>5, <1>6, <1>7, <1>9, <1>10, <1>11, <1>12 DEF ThreadStep, ExecStep

(* What is written in the executions table is never unwritten, and each    *)
(* writer writes what its execution came to, or a kill or a failure.       *)
LEMMA ExecutionLasts ==
  ASSUME TypeOK, InHand, SlotOk, RunInv, ExecutionMoves, NEW e \in Exec
  PROVE  \/ execution'[e] = execution[e]
         \/ execution'[e] \in {"killed", "failed"}
         \/ run[e].phase = "over" /\ execution'[e] = run[e].out /\ execution'[e] # "none"
<1>0. execution \in [Exec -> Outcomes \cup {"none"}]
  BY DEF TypeOK, DbTypeOK
<1>1. ASSUME NEW t \in Thread, RecordExecution(t), call[t].id \in Exec
      PROVE  \/ execution'[e] = execution[e]
             \/ execution'[e] \in {"killed", "failed"}
             \/ run[e].phase = "over" /\ execution'[e] = run[e].out /\ execution'[e] # "none"
  <2>1. CallOk(t)
    BY DEF RunInv
  <2>2. execution' = [execution EXCEPT ![call[t].id] = call[t].result] /\ pc[t] \in {"record", "finish_record"}
    BY <1>1 DEF RecordExecution
  <2>3. CASE e = call[t].id
    BY <1>0, <1>1, <2>1, <2>2, <2>3 DEF CallOk, SlotOk
  <2>4. CASE e # call[t].id
    BY <1>0, <2>2, <2>4
  <2>. QED  BY <2>3, <2>4
<1>2. CASE RecordRestarted /\ look.id \in Exec
  BY <1>0, <1>2 DEF RecordRestarted
<1>. QED  BY <1>1, <1>2 DEF ExecutionMoves

LEMMA RunInvStep ==
  ASSUME TypeOK, InHand, SlotOk, RunInv, [Next]_vars
  PROVE  RunInv'
<1>0. /\ \A e \in Exec : RunLife(e)
      /\ ExecutionMoves
  BY NextAgent, EveryRunLives, NextExecution
<1>1. ASSUME NEW e \in Exec, execution'[e] \in {"completed", "timeout"}
      PROVE  execution'[e] = run'[e].out
  <2>1. \/ execution'[e] = execution[e]
        \/ run[e].phase = "over" /\ execution'[e] = run[e].out
    BY <1>0, <1>1, ExecutionLasts
  <2>2. execution'[e] = run[e].out
    BY <1>1, <2>1 DEF RunInv, ResultsAreTrue
  <2>3. run[e].phase # "unused" /\ run[e].phase # "running"
    BY <1>1, <2>2 DEF SlotOk, NoRun
  <2>4. run'[e].out = run[e].out
    BY <1>0, <2>3 DEF RunLife
  <2>. QED  BY <2>2, <2>4
<1>2. ASSUME NEW t \in Thread
      PROVE  CallOk(t)'
  <2>1. CallOk(t)
    BY DEF RunInv
  <2>2. CASE ThreadStep(t)
    BY <1>0, <2>1, <2>2, ThreadCallOk
  <2>3. CASE Crash
    <3>1. call'[t] = NoCall
      BY <2>3 DEF Crash
    <3>. QED  BY <3>1, NothingToKnow, Labels DEF NoCall
  <2>4. CASE pc[t] = "idle" /\ call'[t] = call[t]
    <3>1. call[t].id \notin Exec
      BY <2>1, <2>4 DEF CallOk, FollowPcs
    <3>. QED  BY <2>4, <3>1, NothingToKnow
  <2>5. CASE pc'[t] = pc[t] /\ at'[t] = at[t] /\ call'[t] = call[t]
    <3>1. CASE call[t].id \notin Exec
      BY <2>5, <3>1, NothingToKnow
    <3>2. CASE call[t].id \in Exec
      <4>1. /\ run[call[t].id].phase # "unused" /\ RunLife(call[t].id)
            /\ execution[call[t].id] # "none" => execution'[call[t].id] # "none"
        BY <1>0, <2>1, <3>2, ExecutionLasts DEF CallOk
      <4>. QED  BY <2>1, <2>5, <3>2, <4>1, RunLasts DEF CallOk
    <3>. QED  BY <3>1, <3>2
  <2>. QED  BY <2>2, <2>3, <2>4, <2>5, NextThread
<1>. QED  BY <1>1, <1>2 DEF RunInv, ResultsAreTrue

LEMMA RunInvInductive == Spec => []RunInv
<1>1. Init => RunInv
  <2> SUFFICES ASSUME Init PROVE RunInv
    OBVIOUS
  <2>1. \A t \in Thread : call[t].id \notin Exec
    BY Labels DEF Init, NoCall
  <2>2. \A e \in Exec : execution[e] = "none"
    BY DEF Init
  <2>. QED  BY <2>1, <2>2 DEF RunInv, ResultsAreTrue, CallOk
<1>2. TypeOK /\ InHand /\ SlotOk /\ RunInv /\ [Next]_vars => RunInv'
  BY RunInvStep
<1>. QED  BY <1>1, <1>2, TypeCorrect, SlotInductive, PTL DEF Spec

(* No result is made up: a row that says completed or timeout says what    *)
(* that very execution came to, however often the stream broke, the        *)
(* watchdog fired, the answer of POST /exec was lost or the process died   *)
(* (sandbox-manager.ts:592-607, 641-661; reconcile.ts:220;                 *)
(* db/executions.ts:77).                                                   *)
THEOREM ResultsAreReal == Spec => []ResultsAreTrue
<1>1. RunInv => ResultsAreTrue
  BY DEF RunInv
<1>. QED  BY <1>1, RunInvInductive, PTL

------------------------------------------------------------------------------
(* No execution is lost sight of.                                          *)

(* A step uses up one thing at most. *)
LEMMA LeftMoves ==
  ASSUME [Next]_vars
  PROVE  \/ UNCHANGED left
         \/ Spend("call") \/ Spend("destroy") \/ Spend("fault") \/ (Crash /\ Spend("crash"))
<1>1. ASSUME NEW t \in Thread, ThreadStep(t)
      PROVE  UNCHANGED left \/ Spend("fault")
  BY <1>1 DEF ThreadStep, CreateStep, ExecStep, StreamStep, StreamEnds, DestroyStep, ArchiveStep,
     CreateContainer, CreateReady, CreateGivesUp, CreateUndo, CreateFailed, CreateCommit,
     ExecGate, ExecAccepted, ExecBusy, ExecRefused, FinishKill, RecordExecution, ReleaseBusy,
     FinishError, StreamConnects, StreamTerminal, StreamCloses, StreamBreaks, StreamWakes,
     WatchdogFires, KillAnswered, KillWaitExpires, ArchiveBegin, ArchiveEnd, ArchiveFails,
     ArchiveError, StopContainer, RemoveContainer, RemoveFails, RemoveFailed, Destroyed, CallFails
<1>2. ASSUME NEW t \in Thread, NEW s \in Sandbox, NewCall(t, s)
      PROVE  UNCHANGED left \/ Spend("call") \/ Spend("destroy")
  BY <1>2 DEF NewCall, CreateInsert, ExecRead, DestroyRead
<1>3. CASE SweepStep \/ Restart \/ UNCHANGED vars
  BY <1>3 DEF SweepStep, SweepList, SweepDestroy, SweepSkip, Restart, vars
<1>4. ASSUME NEW s \in Sandbox, TimeStep(s) \/ WorldStep(s)
      PROVE  UNCHANGED left \/ Spend("fault")
  BY <1>4 DEF TimeStep, WorldStep, Expire, GraceEnds, ContainerUp, ContainerExits, JobBegins, JobEnds
<1>5. ASSUME NEW e \in Exec, AgentStep(e)
      PROVE  UNCHANGED left
  BY <1>5 DEF AgentStep, AgentTimesOut, AgentEnds, AgentFinishes
<1>6. CASE ReconcileStep
  BY <1>6 DEF ReconcileStep, CheckSandbox, KillRestarted, RecordRestarted, ReleaseRestarted,
     ListManaged, ReconcileDone, Inspect, CheckOrphan, CallFails
<1>7. Crash => Spend("crash")
  BY DEF Crash
<1>. QED  BY <1>1, <1>2, <1>3, <1>4, <1>5, <1>6, <1>7 DEF Next

(* Only a crash uses up a crash, and none comes back; without faults to    *)
(* spend there are none.                                                   *)
LEMMA CrashesLeft ==
  ASSUME TypeOK, [Next]_vars
  PROVE  /\ left'.crash <= left.crash /\ (Crash => left'.crash < left.crash)
         /\ left.fault = 0 => left'.fault = 0
<1>0. left \in [{"call", "destroy", "crash", "fault"} -> Nat]
  BY DEF TypeOK, CpTypeOK
<1>1. CASE UNCHANGED left
  <2>1. ~ Crash
    BY <1>0, <1>1 DEF Crash, Spend
  <2>. QED  BY <1>0, <1>1, <2>1
<1>2. ASSUME NEW what \in {"call", "destroy", "fault"}, Spend(what)
      PROVE  /\ left'.crash <= left.crash /\ (Crash => left'.crash < left.crash)
             /\ left.fault = 0 => left'.fault = 0
  <2>1. left'.crash = left.crash /\ (left.fault = 0 => left'.fault = 0)
    BY <1>0, <1>2 DEF Spend
  <2>2. ~ Crash
    BY <1>0, <2>1 DEF Crash, Spend
  <2>. QED  BY <1>0, <2>1, <2>2
<1>3. CASE Crash
  BY <1>0, <1>3 DEF Crash, Spend
<1>. QED  BY <1>1, <1>2, <1>3, LeftMoves

(* A call lets go of its execution only when that is in the table. *)
LEMMA CallLetsGo ==
  ASSUME TypeOK, InHand, NEW t \in Thread, CallOk(t), call[t].id \in Exec, ThreadStep(t)
  PROVE  call'[t].id = call[t].id \/ execution[call[t].id] # "none"
<1>0. pc[t] \in FollowPcs /\ call[t] \in CallType /\ call \in [Thread -> CallType]
  BY DEF CallOk, TypeOK, ThreadTypeOK
<1>1. CASE StreamStep(t)
  <2>1. CASE StreamTerminal(t)
    BY <1>0, <2>1 DEF StreamTerminal, CallType
  <2>. QED  BY <1>1, <2>1, StreamCall
<1>2. CASE FinishKill(t)
  <2>1. \A x : [call[t] EXCEPT !.result = x].id = call[t].id
    BY <1>0 DEF CallType
  <2>2. \E x : call' = [call EXCEPT ![t] = [call[t] EXCEPT !.result = x]]
    BY <1>2 DEF FinishKill
  <2>. QED  BY <1>0, <2>1, <2>2
<1>3. CASE RecordExecution(t)
  BY <1>3 DEF RecordExecution
<1>4. CASE ReleaseBusy(t) \/ FinishError(t)
  BY <1>4 DEF ReleaseBusy, FinishError, CallOk
<1>5. CASE CreateStep(t) \/ DestroyStep(t) \/ ExecGate(t) \/ ExecAccepted(t) \/ ExecBusy(t) \/ ExecRefused(t)
  BY <1>0, <1>5 DEF FollowPcs, CreateStep, CreateContainer, CreateReady, CreateGivesUp, CreateFailed,
     CreateCommit, CreateUndo, DestroyStep, ArchiveStep, ArchiveBegin, ArchiveEnd, ArchiveFails,
     ArchiveError, StopContainer, RemoveContainer, RemoveFails, RemoveFailed, Destroyed,
     ExecGate, ExecAccepted, ExecBusy, ExecRefused
<1>. QED  BY <1>1, <1>2, <1>3, <1>4, <1>5 DEF ThreadStep, ExecStep

(* The control plane knows of an execution: its row is written, or a call  *)
(* has it in hand.                                                         *)
Known(e) == run[e].phase = "unused" \/ execution[e] # "none" \/ \E t \in Thread : call[t].id = e
AnswerIsLost(t) == ExecAccepted(t) /\ pc'[t] = "release"

LEMMA KnownStays ==
  ASSUME TypeOK, InHand, SlotOk, RunInv, [Next]_vars, NEW e \in Exec, Known(e),
         ~ Crash, \A t \in Thread : ~ AnswerIsLost(t)
  PROVE  Known(e)'
<1>0. RunLife(e) /\ ExecutionMoves
  BY NextAgent, EveryRunLives, NextExecution
<1>1. CASE execution[e] # "none"
  BY <1>0, <1>1, ExecutionLasts DEF Known
<1>2. CASE run[e].phase = "unused"
  <2>1. CASE run'[e] = run[e]
    BY <1>2, <2>1 DEF Known
  <2>2. ASSUME NEW t \in Thread, ExecAccepted(t), Started(t, e)
        PROVE  call'[t].id = e
    <3>1. PICK x \in Exec :
            /\ run' = [run EXCEPT ![x] = [sbx |-> at[t], phase |-> "running", out |-> "none"]]
            /\ \/ call' = [call EXCEPT ![t].id = x, ![t].sse = "connect"]
               \/ Goto(t, "release")
      BY <2>2 DEF ExecAccepted
    <3>2. x = e
      BY <1>2, <2>2, <3>1 DEF Started, TypeOK, WorldTypeOK
    <3>3. ~ Goto(t, "release")
      BY <2>2 DEF AnswerIsLost, Goto, TypeOK, ThreadTypeOK
    <3>. QED  BY <3>1, <3>2, <3>3 DEF TypeOK, ThreadTypeOK, CallType
  <2>. QED  BY <1>0, <1>2, <2>1, <2>2 DEF RunLife, Known
<1>3. ASSUME NEW t \in Thread, call[t].id = e
      PROVE  call'[t].id = e \/ execution[e] # "none"
  BY <1>3, CallLetsGo, NextThread DEF RunInv
<1>. QED  BY <1>1, <1>2, <1>3 DEF Known

(* The control plane loses sight of an execution only when its process     *)
(* dies, or when the answer to the POST /exec that started it is lost; no  *)
(* broken stream, watchdog, failed kill, destroy or reconcile makes it     *)
(* forget one it has not recorded (sandbox-manager.ts:476, 592, 641).      *)
THEOREM OnlyDeathForgets ==
  Spec => [][\A e \in Exec :
               Known(e) /\ ~ Known(e)' => Crash \/ \E t \in Thread : AnswerIsLost(t)]_vars
<1> DEFINE A == \A e \in Exec : Known(e) /\ ~ Known(e)' => Crash \/ \E t \in Thread : AnswerIsLost(t)
<1>1. TypeOK /\ InHand /\ SlotOk /\ RunInv /\ [Next]_vars => A
  BY KnownStays
<1> HIDE DEF A
<1>2. Spec => [][A]_vars
  BY <1>1, TypeCorrect, SlotInductive, RunInvInductive, PTL DEF Spec
<1>. QED  BY <1>2 DEF A

Accounted == left.crash <= MaxCrashes /\ EveryRunIsAccounted

LEMMA AccountedStep ==
  ASSUME ~ LossyReplies, TypeOK, InHand, SlotOk, RunInv, Accounted, [Next]_vars
  PROVE  Accounted'
<1>1. left'.crash <= MaxCrashes /\ (left.crash < MaxCrashes \/ Crash => left'.crash < MaxCrashes)
  <2>1. left' \in [{"call", "destroy", "crash", "fault"} -> Nat]
        /\ left \in [{"call", "destroy", "crash", "fault"} -> Nat]
    BY NextType DEF TypeOK, CpTypeOK
  <2>. QED  BY <2>1, CrashesLeft, BoundAssumption DEF Accounted
<1>2. ASSUME NEW t \in Thread, AnswerIsLost(t)
      PROVE  FALSE
  BY <1>2 DEF AnswerIsLost, ExecAccepted, Goto, TypeOK, ThreadTypeOK
<1>3. ASSUME NEW e \in Exec
      PROVE  Known(e)' \/ left'.crash < MaxCrashes
  <2>1. Known(e) \/ left.crash < MaxCrashes
    BY DEF Accounted, EveryRunIsAccounted, Known
  <2>. QED  BY <1>1, <1>2, <2>1, KnownStays
<1>. QED  BY <1>1, <1>3 DEF Accounted, EveryRunIsAccounted, Known

(* As long as the answer of POST /exec is not lost, every command an agent *)
(* started is in the executions table, is in the hands of a live call, or  *)
(* belonged to a process that has died (execInSandbox, recordExecution).   *)
(* With lost answers this is false: sandbox-manager.ts:688 is a hazard.    *)
THEOREM NoRunIsForgotten == ~ LossyReplies => (Spec => []EveryRunIsAccounted)
<1>. SUFFICES ASSUME ~ LossyReplies PROVE Spec => []EveryRunIsAccounted
  OBVIOUS
<1>1. Init => Accounted
  BY BoundAssumption DEF Init, Accounted, EveryRunIsAccounted, NoRun
<1>2. TypeOK /\ InHand /\ SlotOk /\ RunInv /\ Accounted /\ [Next]_vars => Accounted'
  BY AccountedStep
<1>3. Accounted => EveryRunIsAccounted
  BY DEF Accounted
<1>. QED  BY <1>1, <1>2, <1>3, TypeCorrect, SlotInductive, RunInvInductive, PTL DEF Spec

------------------------------------------------------------------------------
(* A sandbox that is given to the next caller is idle.                     *)

(* Who brings a row back to READY: the call that read the terminal event   *)
(* or was refused, and reconcile for a sandbox it has looked at.           *)
LEMMA GivenBack ==
  ASSUME TypeOK, InHand, GateInv, [Next]_vars, NEW s \in Sandbox,
         row[s].state = "BUSY", row'[s].state = "READY"
  PROVE  \/ \E t \in Thread : pc[t] = "release" /\ at[t] = s
         \/ look.sbx = s /\ look.step = "act" /\ look.what = "idle"
         \/ look.sbx = s /\ look.step = "release"
<1>1. \/ \E t \in Thread : pc[t] = "release" /\ at[t] = s
      \/ cp = "reconcile"
  <2>1. ~ RowStill
    BY DEF RowStill
  <2>2. ASSUME NEW x \in Sandbox, RowInserted(x)
        PROVE  FALSE
    BY <2>2 DEF RowInserted, TypeOK, DbTypeOK
  <2>3. ASSUME NEW x \in Sandbox, NEW new, RowMoved(x, new)
        PROVE  x = s /\ new.state = "READY"
    BY <2>3 DEF RowMoved, TypeOK, DbTypeOK
  <2>. QED  BY <2>1, <2>2, <2>3, NextRow
<1>2. ASSUME cp = "reconcile"
      PROVE  \/ look.sbx = s /\ look.step = "act" /\ look.what = "idle"
             \/ look.sbx = s /\ look.step = "release"
  <2>1. ~ \E t \in Thread : ThreadStep(t)
    BY <1>2, ThreadPc DEF GateInv, ReconcileAlone
  <2>2. ~ \E t \in Thread, x \in Sandbox : NewCall(t, x)
    BY <1>2 DEF NewCall, CreateInsert, ExecRead, DestroyRead, BeginDestroy, CanStart
  <2>3. CASE UNCHANGED row
    BY <2>3
  <2>4. ASSUME NEW x \in Sandbox, TimeStep(x) \/ WorldStep(x)
        PROVE  FALSE
    <3>1. CASE Expire(x)
      BY <3>1 DEF Expire, TypeOK, DbTypeOK, RowType
    <3>. QED  BY <2>4, <3>1 DEF TimeStep, WorldStep, GraceEnds, ContainerUp, ContainerExits,
                 JobBegins, JobEnds, dbVars
  <2>5. CASE CheckSandbox
    <3>1. look.step = "act" /\ look.sbx \in Sandbox
      BY <2>5 DEF CheckSandbox, InHand
    <3>2. ASSUME NEW from, NEW new, Transition(look.sbx, from, new)
          PROVE  look.sbx = s /\ new.state = "READY"
      BY <3>1, <3>2 DEF Transition, TypeOK, DbTypeOK
    <3>3. To(look.sbx, "ERROR").state = "ERROR"
      BY <3>1, ToType DEF TypeOK, States
    <3>. QED  BY <2>5, <3>1, <3>2, <3>3 DEF CheckSandbox
  <2>6. CASE ReleaseRestarted
    <3>1. look.step = "release" /\ look.sbx \in Sandbox
      BY <2>6 DEF ReleaseRestarted, InHand
    <3>. QED  BY <2>6, <3>1 DEF ReleaseRestarted, Transition, TypeOK, DbTypeOK
  <2>. QED
    BY <1>2, <2>1, <2>2, <2>3, <2>4, <2>5, <2>6
       DEF Next, SweepStep, SweepList, SweepDestroy, SweepSkip, BeginDestroy, AgentStep, AgentTimesOut,
           AgentEnds, AgentFinishes, Crash, Restart, ReconcileStep, KillRestarted, RecordRestarted,
           ListManaged, ReconcileDone, Inspect, CheckOrphan, vars, dbVars
<1>. QED  BY <1>1, <1>2

(* What reconcile has in hand: what it had, or what it has just seen.      *)
LEMMA LookMoves ==
  ASSUME TypeOK, InHand, GateInv, [Next]_vars, look'.step # "none"
  PROVE  /\ ~ \E t \in Thread : ThreadStep(t)
         /\ \/ look' = look
            \/ /\ look'.sbx \in Sandbox /\ look'.step = "act" /\ UNCHANGED run
               /\ look'.what = "idle" => slot[look'.sbx] = "free"
               /\ look'.id \in Exec => look'.id = slot[look'.sbx]
            \/ /\ look.step = "act" /\ look.id \in Exec /\ Kill(look.id)
               /\ look'.sbx = look.sbx /\ look'.id = look.id /\ look'.step = "record"
            \/ look.step = "record" /\ look'.sbx = look.sbx /\ look'.step = "release"
<1>0. look \in LookType /\ look' \in LookType /\ cp' = "reconcile"
  BY NextType DEF TypeOK, CpTypeOK, InHand
<1>1. CASE \E t \in Thread : ThreadStep(t)
  BY <1>0, <1>1, ThreadPc DEF GateInv, ReconcileAlone
<1>2. CASE UNCHANGED look
  BY <1>1, <1>2
<1>3. ASSUME NEW s \in Sandbox, Inspect(s), ~ UNCHANGED look
      PROVE  /\ look'.sbx \in Sandbox /\ look'.step = "act" /\ UNCHANGED run
             /\ look'.what = "idle" => slot[look'.sbx] = "free"
             /\ look'.id \in Exec => look'.id = slot[look'.sbx]
  <2>1. /\ look'.sbx = s /\ look'.step = "act"
        /\ look'.id = IF container[s] = "up" /\ slot[s] \in Exec THEN slot[s] ELSE None
    BY <1>3 DEF Inspect, NoLook
  <2>2. look'.what = "idle" => slot[s] = "free"
    BY <1>3 DEF Inspect, NoLook
  <2>. QED  BY <1>3, <2>1, <2>2, Labels DEF Inspect, worldVars
<1>4. CASE KillRestarted
  <2>1. CASE look' = NoLook
    BY <2>1 DEF NoLook
  <2>2. CASE look.id # None /\ Kill(look.id) /\ look' = [look EXCEPT !.step = "record"]
    BY <1>0, <1>1, <1>4, <2>2 DEF KillRestarted, LookType
  <2>. QED  BY <1>4, <2>1, <2>2 DEF KillRestarted, RowDone
<1>5. CASE RecordRestarted
  BY <1>0, <1>1, <1>5 DEF RecordRestarted, LookType
<1>6. CASE CheckSandbox \/ ReleaseRestarted \/ Crash
  <2>1. look' = NoLook
    BY <1>6 DEF CheckSandbox, ReleaseRestarted, Crash, RowDone
  <2>. QED  BY <2>1 DEF NoLook
<1>7. CASE ListManaged \/ ReconcileDone \/ (\E s \in Sandbox : CheckOrphan(s)) \/ Restart \/ SweepStep \/ UNCHANGED vars
  BY <1>2, <1>7 DEF ListManaged, ReconcileDone, CheckOrphan, Restart, SweepStep, SweepList,
     SweepDestroy, SweepSkip, BeginDestroy, vars, cpVars
<1>8. ASSUME NEW s \in Sandbox, TimeStep(s) \/ WorldStep(s) \/ \E t \in Thread : NewCall(t, s)
      PROVE  UNCHANGED look
  BY <1>8 DEF TimeStep, WorldStep, Expire, GraceEnds, ContainerUp, ContainerExits, JobBegins,
     JobEnds, NewCall, CreateInsert, ExecRead, DestroyRead, BeginDestroy, cpVars
<1>9. ASSUME NEW e \in Exec, AgentStep(e)
      PROVE  UNCHANGED look
  BY <1>9 DEF AgentStep, AgentTimesOut, AgentEnds, AgentFinishes, cpVars
<1>. QED  BY <1>1, <1>2, <1>3, <1>4, <1>5, <1>6, <1>7, <1>8, <1>9 DEF Next, ReconcileStep

(* What is known of the agents while a sandbox is not idle: nothing runs   *)
(* behind a call that holds it, or behind what reconcile is about to give  *)
(* back, and nothing ever ran in a sandbox that is not ready yet.          *)
RunningIn(s) == {e \in Exec : run[e].phase = "running" /\ run[e].sbx = s}
UsedAfterReady ==
  \A e \in Exec : run[e].phase # "unused" => row[run[e].sbx].state \notin {"none", "CREATING"}
HolderRuns ==
  \A t \in Thread : pc[t] \in HolderPcs => RunningIn(at[t]) \subseteq {call[t].id}
LookIsFresh ==
  /\ look.step = "act" /\ look.what = "idle" => RunningIn(look.sbx) = {}
  /\ look.step = "act" /\ look.id \in Exec => RunningIn(look.sbx) \subseteq {look.id}
  /\ look.step \in {"record", "release"} => RunningIn(look.sbx) = {}
IdleInv == ReadyMeansIdle /\ UsedAfterReady /\ HolderRuns /\ LookIsFresh

(* A command runs because it did before, or because a call that holds the  *)
(* sandbox has just started it.                                            *)
StartedBy(t, e) ==
  /\ pc[t] = "exec_post" /\ at[t] \in Sandbox /\ slot[at[t]] = "free"
  /\ run[e].phase = "unused" /\ run'[e].sbx = at[t]
  /\ pc'[t] = "stream" /\ at'[t] = at[t] /\ call'[t].id = e /\ UNCHANGED row

LEMMA RunningStep ==
  ASSUME ~ LossyReplies, TypeOK, InHand, NEW e \in Exec, RunLife(e), run'[e].phase # "unused"
  PROVE  \/ run[e].phase # "unused" /\ run'[e].sbx = run[e].sbx
            /\ (run'[e].phase = "running" => run[e].phase = "running")
         \/ \E t \in Thread : ExecAccepted(t) /\ StartedBy(t, e)
<1>1. ASSUME NEW t \in Thread, ExecAccepted(t), Started(t, e), at[t] \in Sandbox, run'[e].sbx = at[t],
             run'[e].phase = "running"
      PROVE  StartedBy(t, e)
  <2>1. PICK x \in Exec :
          /\ run' = [run EXCEPT ![x] = [sbx |-> at[t], phase |-> "running", out |-> "none"]]
          /\ call' = [call EXCEPT ![t].id = x, ![t].sse = "connect"]
          /\ Goto(t, "stream")
    BY <1>1 DEF ExecAccepted
  <2>2. x = e
    BY <1>1, <2>1 DEF Started, TypeOK, WorldTypeOK
  <2>3. call'[t].id = e /\ pc'[t] = "stream"
    BY <2>1, <2>2 DEF TypeOK, ThreadTypeOK, CallType, Goto
  <2>. QED  BY <1>1, <2>3 DEF StartedBy, ExecAccepted, Started, dbVars
<1>. QED  BY <1>1 DEF RunLife

(* How one step changes the state of a row that is in use. *)
LEMMA RowNever ==
  ASSUME TypeOK, InHand, [Next]_vars, NEW s \in Sandbox, row[s].state \notin {"none", "CREATING"}
  PROVE  /\ row'[s].state \notin {"none", "CREATING"}
         /\ row'[s].state = "READY" => row[s].state \in {"READY", "BUSY"}
<1>1. CASE RowStill
  BY <1>1 DEF RowStill
<1>2. ASSUME NEW x \in Sandbox, RowInserted(x)
      PROVE  row'[s] = row[s]
  BY <1>2 DEF RowInserted, TypeOK, DbTypeOK
<1>3. ASSUME NEW x \in Sandbox, NEW new, RowMoved(x, new)
      PROVE  row'[s] = row[s] \/ (row'[s] = new /\ <<row[s].state, new.state>> \in Edges)
  BY <1>3 DEF RowMoved, TypeOK, DbTypeOK
<1>. QED  BY <1>1, <1>2, <1>3, NextRow DEF Edges

LEMMA UsedStep ==
  ASSUME ~ LossyReplies, TypeOK, InHand, GateInv, SlotOk, UsedAfterReady, [Next]_vars
  PROVE  UsedAfterReady'
<1> SUFFICES ASSUME NEW e \in Exec, run'[e].phase # "unused"
             PROVE  row'[run'[e].sbx].state \notin {"none", "CREATING"}
  BY DEF UsedAfterReady
<1>1. RunLife(e)
  BY NextAgent, EveryRunLives
<1>2. CASE run[e].phase # "unused" /\ run'[e].sbx = run[e].sbx
  BY <1>2, RowNever DEF UsedAfterReady, InHand
<1>3. ASSUME NEW t \in Thread, StartedBy(t, e)
      PROVE  row'[run'[e].sbx].state \notin {"none", "CREATING"}
  BY <1>3 DEF StartedBy, GateInv, HolderKeepsRow, HolderPcs, ExecPcs
<1>. QED  BY <1>1, <1>2, <1>3, RunningStep

LEMMA ReadyStep ==
  ASSUME ~ LossyReplies, TypeOK, InHand, GateInv, SlotOk, RunInv, IdleInv, [Next]_vars
  PROVE  ReadyMeansIdle'
<1> SUFFICES ASSUME NEW e \in Exec, run'[e].phase = "running"
             PROVE  row'[run'[e].sbx].state # "READY"
  BY DEF ReadyMeansIdle
<1>1. RunLife(e)
  BY NextAgent, EveryRunLives
<1>2. CASE run[e].phase = "running" /\ run'[e].sbx = run[e].sbx
  <2> DEFINE s == run[e].sbx
  <2>1. s \in Sandbox /\ row[s].state \notin {"READY", "none", "CREATING"}
    BY <1>2 DEF IdleInv, ReadyMeansIdle, UsedAfterReady, InHand
  <2>2. e \in RunningIn(s)
    BY <1>2 DEF RunningIn
  <2> SUFFICES ASSUME row'[s].state = "READY" PROVE FALSE
    BY <1>2
  <2>3. row[s].state = "BUSY"
    BY <2>1, RowNever
  <2>4. ASSUME NEW t \in Thread, pc[t] = "release", at[t] = s
        PROVE  FALSE
    BY <1>2, <2>2, <2>4 DEF IdleInv, HolderRuns, HolderPcs, ExecPcs, RunInv, CallOk
  <2>. QED  BY <2>1, <2>2, <2>3, <2>4, GivenBack DEF IdleInv, LookIsFresh
<1>3. ASSUME NEW t \in Thread, StartedBy(t, e)
      PROVE  row'[run'[e].sbx].state # "READY"
  BY <1>3 DEF StartedBy, GateInv, HolderKeepsRow, HolderPcs, ExecPcs
<1>. QED  BY <1>1, <1>2, <1>3, RunningStep

LEMMA LookStep ==
  ASSUME ~ LossyReplies, TypeOK, InHand, GateInv, SlotOk, LookIsFresh, [Next]_vars
  PROVE  LookIsFresh'
<1> SUFFICES ASSUME look'.step # "none" PROVE LookIsFresh'
  BY DEF LookIsFresh
<1>1. ~ \E t \in Thread : ThreadStep(t)
  BY LookMoves
<1>2. \A e \in Exec : run'[e].phase = "running" => run[e].phase = "running" /\ run'[e].sbx = run[e].sbx
  <2>1. \A e \in Exec : RunLife(e)
    BY NextAgent, EveryRunLives
  <2>2. \A t \in Thread : ~ ExecAccepted(t)
    BY <1>1 DEF ThreadStep, ExecStep
  <2>. QED  BY <2>1, <2>2, RunningStep
<1>3. \A s : RunningIn(s)' \subseteq RunningIn(s)
  BY <1>2 DEF RunningIn
<1>4. CASE look' = look
  BY <1>3, <1>4 DEF LookIsFresh
<1>5. CASE /\ look'.sbx \in Sandbox /\ look'.step = "act" /\ UNCHANGED run
           /\ look'.what = "idle" => slot[look'.sbx] = "free"
           /\ look'.id \in Exec => look'.id = slot[look'.sbx]
  <2>1. \A s : \A e \in RunningIn(s)' : slot[s] = e
    BY <1>3 DEF RunningIn, SlotOk
  <2>2. "free" \notin Exec
    BY ExecAssumption
  <2>. QED  BY <1>5, <2>1, <2>2 DEF LookIsFresh, RunningIn
<1>6. CASE /\ look.step = "act" /\ look.id \in Exec /\ Kill(look.id)
           /\ look'.sbx = look.sbx /\ look'.step = "record"
  <2>1. RunningIn(look.sbx) \subseteq {look.id}
    BY <1>6 DEF LookIsFresh
  <2>2. run'[look.id].phase # "running"
    BY <1>6 DEF Kill, TypeOK, WorldTypeOK, RunType
  <2>. QED  BY <1>3, <1>6, <2>1, <2>2 DEF LookIsFresh, RunningIn
<1>7. CASE look.step = "record" /\ look'.sbx = look.sbx /\ look'.step = "release"
  BY <1>3, <1>7 DEF LookIsFresh
<1>. QED  BY <1>4, <1>5, <1>6, <1>7, LookMoves

(* While a call holds its sandbox it keeps its execution. *)
LEMMA HolderKeepsCall ==
  ASSUME TypeOK, InHand, NEW t \in Thread, ThreadStep(t), pc[t] \in HolderPcs, pc'[t] \in HolderPcs,
         ~ ExecAccepted(t)
  PROVE  call'[t].id = call[t].id
<1>0. call[t] \in CallType /\ call \in [Thread -> CallType] /\ pc'[t] # "idle"
  BY Labels DEF TypeOK, ThreadTypeOK
<1>r. ~ Return(t)
  BY <1>0 DEF Return, TypeOK, ThreadTypeOK
<1>1. CASE StreamTerminal(t)
  BY <1>0, <1>1 DEF StreamTerminal, CallType
<1>2. CASE StreamStep(t) /\ ~ StreamTerminal(t)
  BY <1>2, StreamCall
<1>3. CASE FinishKill(t)
  <2>1. \A x : [call[t] EXCEPT !.result = x].id = call[t].id
    BY <1>0 DEF CallType
  <2>2. \E x : call' = [call EXCEPT ![t] = [call[t] EXCEPT !.result = x]]
    BY <1>3 DEF FinishKill
  <2>. QED  BY <1>0, <2>1, <2>2
<1>4. CASE UNCHANGED call
  BY <1>4
<1>5. CASE CreateStep(t) \/ DestroyStep(t)
  BY <1>4, <1>r, <1>5 DEF CreateStep, CreateContainer, CreateReady, CreateGivesUp, CreateFailed,
     CreateCommit, CreateUndo, DestroyStep, ArchiveStep, ArchiveBegin, ArchiveEnd, ArchiveFails,
     ArchiveError, StopContainer, RemoveContainer, RemoveFails, RemoveFailed, Destroyed
<1>6. CASE ExecGate(t) \/ ExecBusy(t) \/ ExecRefused(t) \/ RecordExecution(t) \/ ReleaseBusy(t) \/ FinishError(t)
  BY <1>4, <1>r, <1>6 DEF ExecGate, ExecBusy, ExecRefused, RecordExecution, ReleaseBusy, FinishError
<1>. QED  BY <1>1, <1>2, <1>3, <1>5, <1>6 DEF ThreadStep, ExecStep

LEMMA HolderStep ==
  ASSUME ~ LossyReplies, TypeOK, InHand, GateInv, SlotOk, ReadyMeansIdle, HolderRuns, [Next]_vars
  PROVE  HolderRuns'
<1> SUFFICES ASSUME NEW t \in Thread, pc'[t] \in HolderPcs,
                    NEW e \in Exec, run'[e].phase = "running", run'[e].sbx = at'[t]
             PROVE  call'[t].id = e
  BY DEF HolderRuns, RunningIn
<1>1. RunLife(e)
  BY NextAgent, EveryRunLives
<1>t. \/ ThreadStep(t) /\ at'[t] = at[t]
         /\ (pc[t] \in HolderPcs \/ row[at[t]].state = "READY")
      \/ pc'[t] = pc[t] /\ at'[t] = at[t] /\ call'[t] = call[t]
  <2>1. ASSUME NEW s \in Sandbox, Begins(t, s)
        PROVE  FALSE
    <3>1. pc'[t] \notin HolderPcs
      BY <2>1 DEF Begins, NewCall, CreateInsert, ExecRead, DestroyRead, BeginDestroy, Goto, TypeOK,
         ThreadTypeOK, HolderPcs, ExecPcs
    <3>. QED  BY <3>1
  <2>2. ~ Crash
    BY Labels DEF Crash
  <2>. QED  BY <2>1, <2>2, NextThread, ThreadPc
<1>2. ASSUME NEW u \in Thread, ExecAccepted(u), StartedBy(u, e)
      PROVE  call'[t].id = e
  <2>1. CASE u = t
    BY <1>2, <2>1 DEF StartedBy
  <2>2. CASE u # t
    <3>1. pc[u] \in HolderPcs /\ pc'[u] \in HolderPcs /\ at'[u] = at'[t]
      BY <1>2 DEF StartedBy, HolderPcs, ExecPcs
    <3>2. GateExclusive'
      BY GateStep DEF GateInv
    <3>. QED  BY <2>2, <3>1, <3>2 DEF GateExclusive
  <2>. QED  BY <2>1, <2>2
<1>3. CASE run[e].phase = "running" /\ run'[e].sbx = run[e].sbx
  <2>1. e \in RunningIn(at[t])
    BY <1>3, <1>t DEF RunningIn
  <2>2. pc[t] \in HolderPcs
    BY <1>3, <1>t DEF ReadyMeansIdle
  <2>3. call[t].id = e
    BY <2>1, <2>2 DEF HolderRuns
  <2>4. ~ ExecAccepted(t)
    <3>1. ExecAccepted(t) => slot[at[t]] = "free"
      BY DEF ExecAccepted
    <3>. QED  BY <1>3, <1>t, <3>1, ExecAssumption DEF SlotOk
  <2>. QED  BY <1>t, <2>2, <2>3, <2>4, HolderKeepsCall
<1>. QED  BY <1>1, <1>2, <1>3, RunningStep

LEMMA IdleInductive == ~ LossyReplies => (Spec => []IdleInv)
<1>. SUFFICES ASSUME ~ LossyReplies PROVE Spec => []IdleInv
  OBVIOUS
<1>1. Init => IdleInv
  BY Labels DEF Init, IdleInv, ReadyMeansIdle, UsedAfterReady, HolderRuns, LookIsFresh, NoRun, NoLook
<1>2. TypeOK /\ InHand /\ GateInv /\ SlotOk /\ RunInv /\ IdleInv /\ [Next]_vars => IdleInv'
  BY UsedStep, ReadyStep, LookStep, HolderStep DEF IdleInv
<1>3. GateInv <=> ReconcileAlone /\ HolderKeepsRow /\ GateExclusive
  BY DEF GateInv
<1>. QED  BY <1>1, <1>2, <1>3, TypeCorrect, Gate, SlotInductive, RunInvInductive, PTL DEF Spec

(* A sandbox in READY runs nothing that nobody has asked to die, so the    *)
(* next caller gets an idle one: behind every way back to READY (release   *)
(* after a terminal event, a rejected POST, reconcile's look or kill) the  *)
(* agent is done (sandbox-manager.ts:607, 665, 690; reconcile.ts:166-237;  *)
(* docs/sandbox.md:260).                                                   *)
(* It needs that the answer of POST /exec is not lost (hazard at line 688).*)
THEOREM ReadyIsIdle == ~ LossyReplies => (Spec => []ReadyMeansIdle)
<1>1. IdleInv => ReadyMeansIdle
  BY DEF IdleInv
<1>. QED  BY <1>1, IdleInductive, PTL

------------------------------------------------------------------------------
(* What a destroy owes to the archive.                                     *)

(* An endpoint that a row has got stays in it: only the INSERT writes a    *)
(* row without one.                                                        *)
KeepsConn(s, new) == new.conn = row[s].conn \/ new.conn = TRUE

LEMMA TransitionConn ==
  ASSUME TypeOK, NEW s \in Sandbox, NEW from, NEW new, KeepsConn(s, new), Transition(s, from, new),
         NEW x \in Sandbox, row[x].conn
  PROVE  row'[x].conn
BY DEF Transition, KeepsConn, TypeOK, DbTypeOK

LEMMA ToConn ==
  ASSUME TypeOK, NEW s \in Sandbox, NEW st
  PROVE  /\ KeepsConn(s, To(s, st)) /\ KeepsConn(s, Refreshed(s, st))
         /\ \A r : KeepsConn(s, [To(s, st) EXCEPT !.reason = r])
         /\ KeepsConn(s, [Refreshed(s, st) EXCEPT !.conn = TRUE])
<1>1. row[s] \in RowType
  BY DEF TypeOK, DbTypeOK
<1>. QED  BY <1>1 DEF To, Refreshed, KeepsConn, RowType

LEMMA ConnStays ==
  ASSUME TypeOK, InHand, [Next]_vars, NEW x \in Sandbox, row[x].conn
  PROVE  row'[x].conn
<1>1. CASE UNCHANGED row
  BY <1>1
<1>2. ASSUME NEW s \in Sandbox, NEW from, NEW new, KeepsConn(s, new), Transition(s, from, new)
      PROVE  row'[x].conn
  BY <1>2, TransitionConn
<1>3. ASSUME NEW t \in Thread, ThreadStep(t)
      PROVE  row'[x].conn
  <2>0. at[t] \in Sandbox
    BY <1>3, ThreadPc DEF InHand
  <2>1. \/ UNCHANGED row
        \/ \E from, st : Transition(at[t], from, To(at[t], st))
        \/ \E from, st : Transition(at[t], from, Refreshed(at[t], st))
        \/ \E from, st, r : Transition(at[t], from, [To(at[t], st) EXCEPT !.reason = r])
        \/ \E from, st : Transition(at[t], from, [Refreshed(at[t], st) EXCEPT !.conn = TRUE])
    <3>1. CASE CreateStep(t)
      BY <3>1 DEF CreateStep, CreateContainer, CreateReady, CreateGivesUp, CreateUndo, CreateFailed,
         CreateCommit, dbVars
    <3>2. CASE ExecStep(t)
      BY <3>2 DEF ExecStep, ExecGate, ExecAccepted, ExecBusy, ExecRefused, FinishKill, ReleaseBusy,
         FinishError, RecordExecution, dbVars
    <3>3. CASE StreamStep(t)
      BY <3>3 DEF StreamStep, StreamEnds, StreamConnects, StreamTerminal, StreamCloses, StreamBreaks,
         StreamWakes, WatchdogFires, KillAnswered, KillWaitExpires, dbVars
    <3>4. CASE DestroyStep(t)
      BY <3>4 DEF DestroyStep, ArchiveStep, ArchiveBegin, ArchiveEnd, ArchiveFails, ArchiveError,
         StopContainer, RemoveContainer, RemoveFails, RemoveFailed, Destroyed, dbVars
    <3>. QED  BY <1>3, <3>1, <3>2, <3>3, <3>4 DEF ThreadStep
  <2>. QED  BY <1>1, <1>2, <2>0, <2>1, ToConn
<1>4. ASSUME NEW t \in Thread, NEW s \in Sandbox, NewCall(t, s)
      PROVE  row'[x].conn
  <2>1. CASE CreateInsert(t, s)
    BY <2>1 DEF CreateInsert, NoRow, TypeOK, DbTypeOK
  <2>. QED  BY <1>1, <1>4, <2>1 DEF NewCall, ExecRead, DestroyRead, BeginDestroy, dbVars
<1>5. ASSUME NEW s \in Sandbox, TimeStep(s) \/ WorldStep(s)
      PROVE  row'[x].conn
  <2>1. CASE Expire(s)
    BY <2>1 DEF Expire, TypeOK, DbTypeOK, RowType
  <2>. QED  BY <1>1, <1>5, <2>1 DEF TimeStep, WorldStep, GraceEnds, ContainerUp, ContainerExits,
               JobBegins, JobEnds, dbVars
<1>6. ASSUME NEW e \in Exec, AgentStep(e)
      PROVE  UNCHANGED row
  BY <1>6 DEF AgentStep, AgentTimesOut, AgentEnds, AgentFinishes, dbVars
<1>7. CASE SweepStep \/ Crash \/ Restart \/ UNCHANGED vars
  BY <1>1, <1>7 DEF SweepStep, SweepList, SweepDestroy, SweepSkip, BeginDestroy, Crash, Restart,
     vars, dbVars
<1>8. CASE CheckSandbox \/ ReleaseRestarted
  <2>1. look.sbx \in Sandbox
    BY <1>8 DEF CheckSandbox, ReleaseRestarted, InHand
  <2>2. UNCHANGED row \/ \E from, st : Transition(look.sbx, from, To(look.sbx, st))
    BY <1>8 DEF CheckSandbox, ReleaseRestarted
  <2>. QED  BY <1>1, <1>2, <2>1, <2>2, ToConn
<1>9. CASE ReconcileStep
  BY <1>1, <1>8, <1>9 DEF ReconcileStep, KillRestarted, RecordRestarted, ListManaged,
     ReconcileDone, Inspect, CheckOrphan, dbVars
<1>. QED  BY <1>1, <1>3, <1>4, <1>5, <1>6, <1>7, <1>9 DEF Next

(* What is in an archive stays there. *)
LEMMA SavedStays ==
  ASSUME TypeOK, InHand, [Next]_vars
  PROVE  saved \subseteq saved'
<1>1. ASSUME NEW t \in Thread, ThreadStep(t)
      PROVE  saved \subseteq saved'
  BY <1>1 DEF ThreadStep, CreateStep, ExecStep, StreamStep, StreamEnds, DestroyStep, ArchiveStep,
     CreateContainer, CreateReady, CreateGivesUp, CreateUndo, CreateFailed, CreateCommit,
     ExecGate, ExecAccepted, ExecBusy, ExecRefused, FinishKill, RecordExecution, ReleaseBusy,
     FinishError, StreamConnects, StreamTerminal, StreamCloses, StreamBreaks, StreamWakes,
     WatchdogFires, KillAnswered, KillWaitExpires, ArchiveBegin, ArchiveEnd, ArchiveFails,
     ArchiveError, StopContainer, RemoveContainer, RemoveFails, RemoveFailed, Destroyed, worldVars
<1>2. ASSUME NEW t \in Thread, NEW s \in Sandbox, NewCall(t, s)
      PROVE  UNCHANGED saved
  BY <1>2 DEF NewCall, CreateInsert, ExecRead, DestroyRead, BeginDestroy, worldVars
<1>3. CASE SweepStep \/ Crash \/ Restart \/ UNCHANGED vars
  BY <1>3 DEF SweepStep, SweepList, SweepDestroy, SweepSkip, BeginDestroy, Crash, Restart, vars, worldVars
<1>4. ASSUME NEW s \in Sandbox, TimeStep(s) \/ WorldStep(s)
      PROVE  UNCHANGED saved
  BY <1>4 DEF TimeStep, WorldStep, Expire, GraceEnds, ContainerUp, ContainerExits, JobBegins,
     JobEnds, worldVars
<1>5. ASSUME NEW e \in Exec, AgentStep(e)
      PROVE  UNCHANGED saved
  BY <1>5 DEF AgentStep, AgentTimesOut, AgentEnds, AgentFinishes
<1>6. CASE ReconcileStep
  BY <1>6 DEF ReconcileStep, CheckSandbox, KillRestarted, RecordRestarted, ReleaseRestarted,
     ListManaged, ReconcileDone, Inspect, CheckOrphan, worldVars
<1>. QED  BY <1>1, <1>2, <1>3, <1>4, <1>5, <1>6 DEF Next

(* The endpoint is there wherever a command may run, so a destroy that     *)
(* skips the archive for want of an endpoint owes nothing; a destroy that  *)
(* archives covers what it owes, and one that goes on without is forced.   *)
GatePcs == HolderPcs \cup {"exec_gate"}
ConnOk ==
  /\ \A e \in Exec : run[e].phase # "unused" => row[run[e].sbx].conn
  /\ \A t \in Thread : pc[t] \in GatePcs => row[at[t]].conn
Owes(t) ==
  /\ pc[t] \in {"archive", "archiving"}
       => \A e \in snap[t].owed : run[e].phase = "over" /\ run[e].sbx = at[t]
  /\ pc[t] = "archiving" => snap[t].owed \subseteq snap[t].covers
  /\ Archiving /\ pc[t] \in {"stop", "remove"} /\ snap[t].state # "DESTROYED"
       => snap[t].owed \subseteq saved \/ snap[t].forced

(* Only ExecGate lets a call in behind the gate, and only a destroy is in  *)
(* the destroying steps.                                                   *)
LEMMA StepKinds ==
  ASSUME TypeOK, InHand, NEW t \in Thread, CallOk(t), ThreadStep(t)
  PROVE  /\ pc'[t] \in GatePcs => pc[t] \in GatePcs /\ at'[t] = at[t]
         /\ DestroyStep(t) \/ pc'[t] \notin DestroyPcs
<1>0. pc \in [Thread -> Pcs] /\ pc[t] \in Pcs
  BY DEF TypeOK, ThreadTypeOK
<1>1. CASE CreateStep(t)
  <2>1. pc'[t] \in CreatePcs \cup {"idle"}
    BY <1>0, <1>1 DEF CreateStep, CreateContainer, CreateReady, CreateGivesUp, CreateUndo,
       CreateFailed, CreateCommit, Goto, Return, CreatePcs
  <2>. QED  BY <2>1 DEF GatePcs, HolderPcs, ExecPcs, CreatePcs, DestroyPcs
<1>2. CASE ExecStep(t)
  <2>1. pc[t] \in ExecPcs /\ pc'[t] \in ExecPcs \cup {"idle"} /\ (pc'[t] # "idle" => UNCHANGED at)
    BY <1>0, <1>2 DEF ExecStep, ExecGate, ExecAccepted, ExecBusy, ExecRefused, FinishKill,
       RecordExecution, ReleaseBusy, FinishError, Goto, Return, ExecPcs
  <2>. QED  BY <2>1 DEF GatePcs, HolderPcs, ExecPcs, DestroyPcs
<1>3. CASE StreamStep(t)
  <2>1. call[t].id \in Exec
    BY <1>3 DEF StreamStep, StreamEnds, StreamConnects, StreamTerminal, StreamCloses, StreamBreaks,
       StreamWakes, WatchdogFires, KillAnswered, KillWaitExpires, InHand
  <2>2. pc[t] \in FollowPcs
    BY <2>1 DEF CallOk
  <2>3. CASE StreamTerminal(t)
    BY <1>0, <2>2, <2>3 DEF StreamTerminal, Goto, FollowPcs, GatePcs, HolderPcs, ExecPcs, DestroyPcs
  <2>4. CASE ~ StreamTerminal(t)
    BY <1>3, <2>2, <2>4, StreamCall DEF FollowPcs, GatePcs, HolderPcs, ExecPcs, DestroyPcs
  <2>. QED  BY <2>3, <2>4
<1>4. CASE DestroyStep(t)
  <2>1. pc'[t] \in DestroyPcs \cup {"idle"}
    BY <1>0, <1>4 DEF DestroyStep, ArchiveStep, ArchiveBegin, ArchiveEnd, ArchiveFails, ArchiveError,
       StopContainer, RemoveContainer, RemoveFails, RemoveFailed, Destroyed, Goto, Return, DestroyPcs
  <2>. QED  BY <1>4, <2>1 DEF GatePcs, HolderPcs, ExecPcs, DestroyPcs
<1>. QED  BY <1>1, <1>2, <1>3, <1>4 DEF ThreadStep

LEMMA ConnStep ==
  ASSUME TypeOK, InHand, SlotOk, RunInv, ConnOk, [Next]_vars
  PROVE  ConnOk'
<1>1. ASSUME NEW e \in Exec, run'[e].phase # "unused"
      PROVE  row'[run'[e].sbx].conn
  <2>1. RunLife(e)
    BY NextAgent, EveryRunLives
  <2>2. CASE run[e].phase # "unused"
    <3>1. run'[e].sbx = run[e].sbx /\ run[e].sbx \in Sandbox
      BY <2>1, <2>2, RunLasts DEF InHand
    <3>. QED  BY <2>2, <3>1, ConnStays DEF ConnOk
  <2>3. CASE run[e].phase = "unused"
    <3>1. PICK t \in Thread : ExecAccepted(t) /\ at[t] \in Sandbox /\ run'[e].sbx = at[t]
      BY <1>1, <2>1, <2>3 DEF RunLife
    <3>2. pc[t] \in GatePcs
      BY <3>1 DEF ExecAccepted, GatePcs, HolderPcs, ExecPcs
    <3>. QED  BY <3>1, <3>2, ConnStays DEF ConnOk
  <2>. QED  BY <2>2, <2>3
<1>2. ASSUME NEW t \in Thread, pc'[t] \in GatePcs
      PROVE  row'[at'[t]].conn
  <2>1. ASSUME pc[t] \in GatePcs, at'[t] = at[t]
        PROVE  row'[at'[t]].conn
    <3>1. at[t] \in Sandbox
      BY <2>1, Labels DEF InHand, GatePcs
    <3>. QED  BY <2>1, <3>1, ConnStays DEF ConnOk
  <2>2. CASE ThreadStep(t)
    BY <1>2, <2>1, <2>2, StepKinds DEF RunInv
  <2>3. ASSUME NEW s \in Sandbox, Begins(t, s)
        PROVE  row'[at'[t]].conn
    <3>1. CASE ExecRead(t, s)
      <4>1. at'[t] = s /\ row[s].conn
        BY <3>1 DEF ExecRead, TypeOK, ThreadTypeOK
      <4>. QED  BY <4>1, ConnStays
    <3>2. CASE CreateInsert(t, s) \/ BeginDestroy(t, s)
      <4>1. pc'[t] \in {"create_start", "archive", "stop"}
        BY <3>2 DEF CreateInsert, BeginDestroy, Goto, TypeOK, ThreadTypeOK
      <4>. QED  BY <1>2, <4>1 DEF GatePcs, HolderPcs, ExecPcs
    <3>. QED  BY <2>3, <3>1, <3>2 DEF Begins, NewCall, DestroyRead
  <2>4. CASE Crash
    BY <1>2, <2>4, Labels DEF Crash, GatePcs
  <2>. QED  BY <1>2, <2>1, <2>2, <2>3, <2>4, NextThread
<1>. QED  BY <1>1, <1>2 DEF ConnOk

(* A destroy begins: it owes what is over and recorded. *)
LEMMA OwesFromStart ==
  ASSUME TypeOK, InHand, ConnOk, NEW t \in Thread, NEW s \in Sandbox, BeginDestroy(t, s)
  PROVE  Owes(t)'
<1> DEFINE archives == Archiving /\ row[s].state # "DESTROYED"
<1>1. /\ at'[t] = s /\ UNCHANGED <<run, saved>>
      /\ pc'[t] = IF archives /\ row[s].conn THEN "archive" ELSE "stop"
  BY DEF BeginDestroy, Goto, TypeOK, ThreadTypeOK, worldVars
<1>2. /\ snap'[t].state = row[s].state
      /\ snap'[t].owed = {e \in Exec : /\ run[e].sbx = s /\ run[e].phase = "over"
                                       /\ execution[e] # "none"}
  BY DEF BeginDestroy, TypeOK, ThreadTypeOK, NoSnap
<1>3. ~ row[s].conn => snap'[t].owed = {}
  BY <1>2 DEF ConnOk
<1>. QED  BY <1>1, <1>2, <1>3 DEF Owes

LEMMA OwesThread ==
  ASSUME TypeOK, InHand, NEW t \in Thread, Owes(t), DestroyStep(t), \A e \in Exec : RunLife(e)
  PROVE  Owes(t)'
<1>0. /\ pc \in [Thread -> Pcs] /\ snap \in [Thread -> SnapType] /\ snap[t] \in SnapType
      /\ snap[t].owed \subseteq Exec
  BY DEF TypeOK, ThreadTypeOK, SnapType
<1>1. CASE ArchiveBegin(t)
  <2>1. /\ UNCHANGED <<at, run>> /\ pc[t] = "archive" /\ pc'[t] = "archiving"
        /\ snap'[t].owed = snap[t].owed
        /\ snap'[t].covers = {e \in Exec : run[e].sbx = at[t] /\ run[e].phase = "over"}
    BY <1>0, <1>1 DEF ArchiveBegin, Goto, SnapType
  <2>. QED  BY <1>0, <2>1 DEF Owes
<1>2. CASE ArchiveEnd(t)
  <2>1. /\ pc[t] = "archiving" /\ pc'[t] = "stop" /\ saved' = saved \cup snap[t].covers /\ UNCHANGED snap
    BY <1>0, <1>2 DEF ArchiveEnd, Goto
  <2>. QED  BY <2>1 DEF Owes
<1>3. CASE ArchiveFails(t)
  <2>1. \/ pc'[t] = "stop" /\ snap'[t].forced
        \/ pc'[t] = "archive_error"
    BY <1>0, <1>3 DEF ArchiveFails, Goto, SnapType
  <2>. QED  BY <2>1 DEF Owes
<1>4. CASE StopContainer(t)
  <2>1. pc[t] = "stop" /\ pc'[t] = "remove" /\ UNCHANGED <<saved, snap>>
    BY <1>0, <1>4 DEF StopContainer, Goto
  <2>. QED  BY <2>1 DEF Owes
<1>5. CASE ArchiveError(t) \/ RemoveContainer(t) \/ RemoveFails(t) \/ RemoveFailed(t) \/ Destroyed(t)
  <2>1. pc'[t] \in {"idle", "destroyed", "remove_failed"}
    BY <1>0, <1>5 DEF ArchiveError, RemoveContainer, RemoveFails, RemoveFailed, Destroyed, Goto, Return
  <2>. QED  BY <2>1 DEF Owes
<1>. QED  BY <1>1, <1>2, <1>3, <1>4, <1>5 DEF DestroyStep, ArchiveStep

LEMMA OwesStep ==
  ASSUME TypeOK, InHand, SlotOk, RunInv, ConnOk, [Next]_vars, NEW t \in Thread, Owes(t)
  PROVE  Owes(t)'
<1>0. \A e \in Exec : RunLife(e)
  BY NextAgent, EveryRunLives
<1>1. ASSUME pc'[t] \notin {"archive", "archiving", "stop", "remove"}
      PROVE  Owes(t)'
  BY <1>1 DEF Owes
<1>2. CASE ThreadStep(t)
  <2>1. DestroyStep(t) \/ pc'[t] \notin DestroyPcs
    BY <1>2, StepKinds DEF RunInv
  <2>. QED  BY <1>0, <1>1, <2>1, OwesThread DEF DestroyPcs
<1>3. CASE pc'[t] = pc[t] /\ at'[t] = at[t] /\ snap'[t] = snap[t]
  <2>1. snap[t].owed \subseteq Exec
    BY DEF TypeOK, ThreadTypeOK, SnapType
  <2>2. \A e \in Exec : run[e].phase = "over" => run'[e] = run[e]
    BY <1>0, RunLasts
  <2>3. saved \subseteq saved'
    BY SavedStays
  <2>. QED  BY <1>3, <2>1, <2>2, <2>3 DEF Owes
<1>4. ASSUME NEW s \in Sandbox, Begins(t, s)
      PROVE  Owes(t)'
  <2>1. CASE BeginDestroy(t, s)
    BY <2>1, OwesFromStart
  <2>2. CASE CreateInsert(t, s) \/ ExecRead(t, s)
    <3>1. pc'[t] \in {"create_start", "exec_gate"}
      BY <2>2 DEF CreateInsert, ExecRead, Goto, TypeOK, ThreadTypeOK
    <3>. QED  BY <1>1, <3>1
  <2>. QED  BY <1>4, <2>1, <2>2 DEF Begins, NewCall, DestroyRead
<1>5. CASE Crash
  <2>1. pc'[t] = "idle"
    BY <1>5 DEF Crash
  <2>. QED  BY <1>1, <2>1
<1>. QED  BY <1>2, <1>3, <1>4, <1>5, NextThread

OwesInv == ConnOk /\ \A t \in Thread : Owes(t)

LEMMA OwesInductive == Spec => []OwesInv
<1>1. Init => OwesInv
  BY Labels DEF Init, OwesInv, ConnOk, Owes, NoRun, GatePcs
<1>2. TypeOK /\ InHand /\ SlotOk /\ RunInv /\ OwesInv /\ [Next]_vars => OwesInv'
  BY ConnStep, OwesStep DEF OwesInv
<1>. QED  BY <1>1, <1>2, TypeCorrect, SlotInductive, RunInvInductive, PTL DEF Spec

(* When an archive is to be kept, a destroy takes the container away only  *)
(* after everything that had been recorded before it began is in an        *)
(* archive, or is about to mark the row archive_failed; whatever commands, *)
(* other destroys, crashes and sweeps come in between                      *)
(* (sandbox-manager.ts:733).                                               *)
THEOREM NoLossUnforced == Spec => LossIsForced
<1> DEFINE A == \A t \in Thread :
       (/\ Archiving /\ pc[t] = "remove" /\ pc'[t] # "remove" /\ snap[t].state # "DESTROYED"
        /\ container[at[t]] # "absent" /\ container'[at[t]] = "absent")
       => snap[t].owed \subseteq saved \/ snap[t].forced
<1>1. OwesInv => A
  BY DEF OwesInv, Owes
<1> HIDE DEF A
<1>2. Spec => [][A]_vars
  BY <1>1, OwesInductive, PTL DEF Spec
<1>. QED  BY <1>2 DEF LossIsForced, A

------------------------------------------------------------------------------
(* After a restart the rows fit the world.                                 *)

(* What a step does to the containers: one is started by its create, one   *)
(* comes up or is being stopped, or one goes with all that runs in it.     *)
Starts(t) ==
  pc[t] = "create_start" /\ container' = [container EXCEPT ![at[t]] = "starting"] /\ UNCHANGED run
Rises(s) ==
  /\ container[s] = "starting" /\ container' = [container EXCEPT ![s] = "up"] /\ UNCHANGED run
Sinks(s) ==
  container[s] \in {"starting", "up"} /\ container' = [container EXCEPT ![s] = "stopping"]
Goes(s) ==
  /\ \E c \in {"absent", "exited"} : container' = [container EXCEPT ![s] = c]
  /\ ExecsDieIn(s)

LEMMA ContainerMoves ==
  ASSUME TypeOK, InHand, [Next]_vars
  PROVE  \/ UNCHANGED container
         \/ \E t \in Thread : Starts(t) /\ at[t] \in Sandbox
         \/ \E s \in Sandbox : Rises(s) \/ Sinks(s) \/ Goes(s)
<1>1. ASSUME NEW t \in Thread, ThreadStep(t)
      PROVE  /\ at[t] \in Sandbox
             /\ UNCHANGED container \/ Starts(t) \/ Sinks(at[t]) \/ Goes(at[t])
  <2>1. at[t] \in Sandbox
    BY <1>1, ThreadPc DEF InHand
  <2>2. CASE CreateStep(t)
    BY <2>1, <2>2 DEF CreateStep, CreateContainer, CreateReady, CreateGivesUp, CreateUndo, CreateFailed,
       CreateCommit, worldVars, Starts, Goes
  <2>3. CASE ExecStep(t)
    BY <2>1, <2>3 DEF ExecStep, ExecGate, ExecAccepted, ExecBusy, ExecRefused, FinishKill, ReleaseBusy,
       FinishError, RecordExecution, worldVars
  <2>4. CASE StreamStep(t)
    BY <2>1, <2>4 DEF StreamStep, StreamEnds, StreamConnects, StreamTerminal, StreamCloses, StreamBreaks,
       StreamWakes, WatchdogFires, KillAnswered, KillWaitExpires, worldVars
  <2>5. CASE DestroyStep(t)
    BY <2>1, <2>5 DEF DestroyStep, ArchiveStep, ArchiveBegin, ArchiveEnd, ArchiveFails, ArchiveError,
       StopContainer, RemoveContainer, RemoveFails, RemoveFailed, Destroyed, worldVars, Sinks, Goes
  <2>. QED  BY <1>1, <2>1, <2>2, <2>3, <2>4, <2>5 DEF ThreadStep
<1>2. ASSUME NEW t \in Thread, NEW s \in Sandbox, NewCall(t, s)
      PROVE  UNCHANGED container
  BY <1>2 DEF NewCall, CreateInsert, ExecRead, DestroyRead, BeginDestroy, worldVars
<1>3. CASE SweepStep \/ Crash \/ Restart \/ UNCHANGED vars
  BY <1>3 DEF SweepStep, SweepList, SweepDestroy, SweepSkip, BeginDestroy, Crash, Restart, vars, worldVars
<1>4. ASSUME NEW s \in Sandbox, TimeStep(s) \/ WorldStep(s)
      PROVE  UNCHANGED container \/ Rises(s) \/ Goes(s)
  BY <1>4 DEF TimeStep, WorldStep, Expire, GraceEnds, ContainerUp, ContainerExits, JobBegins,
     JobEnds, worldVars, Rises, Goes
<1>5. ASSUME NEW e \in Exec, AgentStep(e)
      PROVE  UNCHANGED container
  BY <1>5 DEF AgentStep, AgentTimesOut, AgentEnds, AgentFinishes
<1>6. ASSUME NEW s \in Sandbox, CheckOrphan(s)
      PROVE  UNCHANGED container \/ Goes(s)
  BY <1>6 DEF CheckOrphan, Goes
<1>7. CASE ReconcileStep
  BY <1>6, <1>7 DEF ReconcileStep, CheckSandbox, KillRestarted, RecordRestarted, ReleaseRestarted,
     ListManaged, ReconcileDone, Inspect, worldVars
<1>. QED  BY <1>1, <1>2, <1>3, <1>4, <1>5, <1>7 DEF Next

(* How a thread comes to be creating a sandbox, or behind the gate of one. *)
LEMMA WhereFrom ==
  ASSUME TypeOK, InHand, RunInv, [Next]_vars, NEW t \in Thread
  PROVE  /\ pc'[t] \in GatePcs =>
              \/ pc[t] \in GatePcs /\ at'[t] = at[t]
              \/ \E s \in Sandbox : ExecRead(t, s) /\ at'[t] = s
         /\ pc'[t] \in CreatePcs =>
              \/ pc[t] \in CreatePcs /\ at'[t] = at[t] /\ (CreateCommit(t) => UNCHANGED row)
              \/ \E s \in Sandbox : CreateInsert(t, s) /\ at'[t] = s
<1>0. pc \in [Thread -> Pcs] /\ at \in [Thread -> Sandbox \cup {None}]
  BY DEF TypeOK, ThreadTypeOK
<1>1. CASE CreateStep(t)
  <2>1. pc[t] \in CreatePcs /\ pc'[t] \in CreatePcs \cup {"idle"} /\ (pc'[t] # "idle" => at'[t] = at[t])
    BY <1>0, <1>1 DEF CreateStep, CreateContainer, CreateReady, CreateGivesUp, CreateUndo,
       CreateFailed, CreateCommit, Goto, Return, CreatePcs
  <2>2. CreateCommit(t) /\ pc'[t] # "idle" => UNCHANGED row
    BY <1>0 DEF CreateCommit, Return, Transition, MayMove
  <2>. QED  BY <2>1, <2>2 DEF GatePcs, HolderPcs, ExecPcs, CreatePcs
<1>2. CASE ThreadStep(t) /\ ~ CreateStep(t)
  <2>1. pc'[t] \notin CreatePcs
    <3>1. CASE ExecStep(t)
      BY <1>0, <3>1 DEF ExecStep, ExecGate, ExecAccepted, ExecBusy, ExecRefused, FinishKill,
         RecordExecution, ReleaseBusy, FinishError, Goto, Return, CreatePcs
    <3>2. CASE StreamStep(t)
      <4>1. call[t].id \in Exec
        BY <3>2 DEF StreamStep, StreamEnds, StreamConnects, StreamTerminal, StreamCloses, StreamBreaks,
           StreamWakes, WatchdogFires, KillAnswered, KillWaitExpires, InHand
      <4>2. pc[t] \in FollowPcs
        BY <4>1 DEF CallOk, RunInv
      <4>3. CASE StreamTerminal(t)
        BY <1>0, <4>3 DEF StreamTerminal, Goto, CreatePcs
      <4>. QED  BY <3>2, <4>2, <4>3, StreamCall DEF FollowPcs, CreatePcs
    <3>3. CASE DestroyStep(t)
      BY <1>0, <3>3 DEF DestroyStep, ArchiveStep, ArchiveBegin, ArchiveEnd, ArchiveFails, ArchiveError,
         StopContainer, RemoveContainer, RemoveFails, RemoveFailed, Destroyed, Goto, Return, CreatePcs
    <3>. QED  BY <1>2, <3>1, <3>2, <3>3 DEF ThreadStep
  <2>. QED  BY <1>2, <2>1, StepKinds DEF RunInv
<1>3. ASSUME pc'[t] = pc[t], at'[t] = at[t]
      PROVE  CreateCommit(t) => UNCHANGED row
  BY <1>0, <1>3 DEF CreateCommit, Goto, Return
<1>4. ASSUME NEW s \in Sandbox, Begins(t, s)
      PROVE  \/ pc'[t] = "exec_gate" /\ ExecRead(t, s) /\ at'[t] = s
             \/ pc'[t] = "create_start" /\ CreateInsert(t, s) /\ at'[t] = s
             \/ pc'[t] \in {"archive", "stop"}
  BY <1>0, <1>4 DEF Begins, NewCall, CreateInsert, ExecRead, DestroyRead, BeginDestroy, Goto
<1>5. CASE Crash
  <2>1. pc'[t] = "idle"
    BY <1>5 DEF Crash
  <2>. QED  BY <2>1, Labels DEF GatePcs, CreatePcs
<1>6. "exec_gate" \notin CreatePcs /\ "create_start" \notin GatePcs
      /\ {"archive", "stop"} \cap (CreatePcs \cup GatePcs) = {}
  BY DEF GatePcs, HolderPcs, ExecPcs, CreatePcs
<1>. QED  BY <1>1, <1>2, <1>3, <1>4, <1>5, <1>6, NextThread

(* While a sandbox is being created nobody can have used it. *)
CreateInv ==
  \A t \in Thread : pc[t] \in CreatePcs =>
    /\ row[at[t]].state \notin {"none", "READY", "BUSY"}
    /\ \A u \in Thread : pc[u] \in GatePcs => at[u] # at[t]
    /\ \A u \in Thread \ {t} : pc[u] \in CreatePcs => at[u] # at[t]
    /\ \A e \in Exec : run[e].phase # "unused" => run[e].sbx # at[t]

(* A sandbox under creation becomes READY by its own create alone, as long *)
(* as that runs.                                                           *)
LEMMA ReadyFromCommit ==
  ASSUME TypeOK, InHand, GateInv, [Next]_vars, NEW s \in Sandbox, NEW t \in Thread, pc[t] # "idle",
         row[s].state \notin {"none", "READY", "BUSY"}, row'[s].state \in {"none", "READY", "BUSY"}
  PROVE  \E u \in Thread : CreateCommit(u) /\ at[u] = s
<1>0. row \in [Sandbox -> RowType] /\ cp = "serving"
  BY DEF TypeOK, DbTypeOK, GateInv, ReconcileAlone
<1>1. row[s].state = "CREATING" /\ row'[s].state = "READY"
  <2>1. CASE RowStill
    BY <2>1 DEF RowStill
  <2>2. ASSUME NEW x \in Sandbox, RowInserted(x)
        PROVE  row'[s] = row[s]
    BY <2>2 DEF RowInserted, TypeOK, DbTypeOK
  <2>3. ASSUME NEW x \in Sandbox, NEW new, RowMoved(x, new)
        PROVE  row'[s] = row[s] \/ (row'[s] = new /\ <<row[s].state, new.state>> \in Edges)
    BY <2>3 DEF RowMoved, TypeOK, DbTypeOK
  <2>. QED  BY <2>1, <2>2, <2>3, NextRow DEF Edges
<1>2. ASSUME NEW u \in Thread, ThreadStep(u), ~ CreateCommit(u)
      PROVE  FALSE
  <2>0. at[u] \in Sandbox
    BY <1>2, ThreadPc DEF InHand
  <2>1. ASSUME NEW from, NEW new, Transition(at[u], from, new), new.state # "READY" \/ "CREATING" \notin from
        PROVE  FALSE
    BY <1>0, <1>1, <2>0, <2>1 DEF Transition, MayMove
  <2>2. CASE UNCHANGED row
    BY <1>1, <2>2
  <2>3. \A st \in States : To(at[u], st).state = st /\ Refreshed(at[u], st).state = st
    BY <2>0, ToType DEF TypeOK
  <2>4. \A r : \A st \in States : [To(at[u], st) EXCEPT !.reason = r].state = st
    <3>1. \A st \in States : To(at[u], st) \in RowType /\ To(at[u], st).state = st
      BY <2>0, ToType DEF TypeOK
    <3>. QED  BY <3>1 DEF RowType
  <2>5. {"READY", "BUSY", "ERROR", "DESTROYED"} \subseteq States
    BY DEF States
  <2>6. CASE CreateStep(u)
    <3>1. CASE CreateFailed(u)
      <4>1. "ERROR" \in States
        BY DEF States
      <4>. QED  BY <2>1, <2>3, <3>1, <4>1 DEF CreateFailed
    <3>. QED  BY <1>2, <2>2, <2>6, <3>1 DEF CreateStep, CreateContainer, CreateReady, CreateGivesUp,
                 CreateUndo, dbVars
  <2>7. CASE ExecStep(u)
    BY <2>1, <2>2, <2>3, <2>5, <2>7 DEF ExecStep, ExecGate, ExecAccepted, ExecBusy, ExecRefused, FinishKill,
       ReleaseBusy, FinishError, RecordExecution, dbVars
  <2>8. CASE StreamStep(u)
    BY <2>2, <2>8 DEF StreamStep, StreamEnds, StreamConnects, StreamTerminal, StreamCloses, StreamBreaks,
       StreamWakes, WatchdogFires, KillAnswered, KillWaitExpires, dbVars
  <2>9. CASE DestroyStep(u)
    <3>0. "ERROR" \in States /\ "DESTROYED" \in States
      BY DEF States
    <3>1. CASE ArchiveError(u)
      BY <2>1, <2>4, <3>0, <3>1 DEF ArchiveError
    <3>2. CASE RemoveFailed(u)
      BY <2>1, <2>3, <3>0, <3>2 DEF RemoveFailed
    <3>3. CASE Destroyed(u)
      BY <2>1, <2>2, <2>4, <3>0, <3>3 DEF Destroyed
    <3>. QED  BY <2>2, <2>9, <3>1, <3>2, <3>3 DEF DestroyStep, ArchiveStep, ArchiveBegin, ArchiveEnd,
                 ArchiveFails, StopContainer, RemoveContainer, RemoveFails, dbVars
  <2>. QED  BY <1>2, <2>6, <2>7, <2>8, <2>9 DEF ThreadStep
<1>3. ASSUME NEW u \in Thread, CreateCommit(u), at[u] # s
      PROVE  FALSE
  BY <1>0, <1>1, <1>3 DEF CreateCommit, Transition
<1>4. ASSUME UNCHANGED row
      PROVE  FALSE
  BY <1>1, <1>4
<1>5. ASSUME NEW u \in Thread, NEW x \in Sandbox, NewCall(u, x)
      PROVE  FALSE
  <2>1. CASE CreateInsert(u, x)
    BY <1>0, <1>1, <2>1 DEF CreateInsert, NoRow
  <2>. QED  BY <1>4, <1>5, <2>1 DEF NewCall, ExecRead, DestroyRead, BeginDestroy, dbVars
<1>6. ASSUME NEW x \in Sandbox, TimeStep(x) \/ WorldStep(x)
      PROVE  FALSE
  <2>1. CASE Expire(x)
    BY <1>0, <1>1, <2>1 DEF Expire, RowType
  <2>. QED  BY <1>4, <1>6, <2>1 DEF TimeStep, WorldStep, GraceEnds, ContainerUp, ContainerExits,
               JobBegins, JobEnds, dbVars
<1>7. ~ ReconcileStep
  BY <1>0 DEF ReconcileStep, CheckSandbox, KillRestarted, RecordRestarted, ReleaseRestarted,
     ListManaged, ReconcileDone, Inspect, CheckOrphan, InHand
<1>. QED
  BY <1>2, <1>3, <1>4, <1>5, <1>6, <1>7
     DEF Next, SweepStep, SweepList, SweepDestroy, SweepSkip, BeginDestroy, AgentStep, AgentTimesOut,
         AgentEnds, AgentFinishes, Crash, Restart, vars, dbVars

LEMMA CreateInvStep ==
  ASSUME TypeOK, InHand, GateInv, SlotOk, RunInv, ConnOk, CreateInv, [Next]_vars
  PROVE  CreateInv'
<1> SUFFICES ASSUME NEW t \in Thread, pc'[t] \in CreatePcs
             PROVE  /\ row'[at'[t]].state \notin {"none", "READY", "BUSY"}
                    /\ \A u \in Thread : pc'[u] \in GatePcs => at'[u] # at'[t]
                    /\ \A u \in Thread \ {t} : pc'[u] \in CreatePcs => at'[u] # at'[t]
                    /\ \A e \in Exec : run'[e].phase # "unused" => run'[e].sbx # at'[t]
  BY DEF CreateInv
<1>1. \A e \in Exec : RunLife(e)
  BY NextAgent, EveryRunLives
<1>2. ASSUME pc[t] \in CreatePcs, at'[t] = at[t], CreateCommit(t) => UNCHANGED row
      PROVE  /\ row'[at'[t]].state \notin {"none", "READY", "BUSY"}
             /\ \A u \in Thread : pc'[u] \in GatePcs => at'[u] # at'[t]
             /\ \A u \in Thread \ {t} : pc'[u] \in CreatePcs => at'[u] # at'[t]
             /\ \A e \in Exec : run'[e].phase # "unused" => run'[e].sbx # at'[t]
  <2>0. at[t] \in Sandbox /\ pc[t] # "idle"
    BY <1>2 DEF InHand, CreatePcs
  <2>1. row'[at[t]].state \notin {"none", "READY", "BUSY"}
    <3>1. ASSUME NEW u \in Thread, CreateCommit(u), at[u] = at[t]
          PROVE  UNCHANGED row
      <4>1. pc[u] \in CreatePcs
        BY <3>1 DEF CreateCommit, CreatePcs
      <4>. QED  BY <1>2, <3>1, <4>1 DEF CreateInv
    <3>. QED  BY <1>2, <2>0, <3>1, ReadyFromCommit DEF CreateInv
  <2>2. ASSUME NEW u \in Thread, pc'[u] \in GatePcs
        PROVE  at'[u] # at[t]
    <3>1. ASSUME NEW s \in Sandbox, ExecRead(u, s)
          PROVE  s # at[t]
      BY <1>2, <3>1 DEF ExecRead, CreateInv
    <3>. QED  BY <1>2, <2>2, <3>1, WhereFrom DEF CreateInv
  <2>3. ASSUME NEW u \in Thread \ {t}, pc'[u] \in CreatePcs
        PROVE  at'[u] # at[t]
    <3>1. ASSUME NEW s \in Sandbox, CreateInsert(u, s)
          PROVE  s # at[t]
      BY <1>2, <3>1 DEF CreateInsert, CreateInv, NoRow
    <3>. QED  BY <1>2, <2>3, <3>1, WhereFrom DEF CreateInv
  <2>4. ASSUME NEW e \in Exec, run'[e].phase # "unused"
        PROVE  run'[e].sbx # at[t]
    <3>1. CASE run[e].phase # "unused"
      BY <1>1, <1>2, <3>1, RunLasts DEF CreateInv
    <3>2. ASSUME NEW u \in Thread, ExecAccepted(u), run'[e].sbx = at[u]
          PROVE  run'[e].sbx # at[t]
      <4>1. pc[u] \in GatePcs
        BY <3>2 DEF ExecAccepted, GatePcs, HolderPcs, ExecPcs
      <4>. QED  BY <1>2, <3>2, <4>1 DEF CreateInv
    <3>. QED  BY <1>1, <2>4, <3>1, <3>2 DEF RunLife
  <2>. QED  BY <1>2, <2>1, <2>2, <2>3, <2>4
<1>3. ASSUME NEW s \in Sandbox, CreateInsert(t, s), at'[t] = s
      PROVE  /\ row'[at'[t]].state \notin {"none", "READY", "BUSY"}
             /\ \A u \in Thread : pc'[u] \in GatePcs => at'[u] # at'[t]
             /\ \A u \in Thread \ {t} : pc'[u] \in CreatePcs => at'[u] # at'[t]
             /\ \A e \in Exec : run'[e].phase # "unused" => run'[e].sbx # at'[t]
  <2>0. row[s] = NoRow /\ ~ row[s].conn /\ row[s].state = "none" /\ UNCHANGED run
    BY <1>3 DEF CreateInsert, NoRow, worldVars
  <2>1. row'[s].state = "CREATING"
    BY <1>3 DEF CreateInsert, NoRow, TypeOK, DbTypeOK
  <2>2. \A u \in Thread \ {t} : pc'[u] = pc[u] /\ at'[u] = at[u]
    BY <1>3 DEF CreateInsert, Goto, TypeOK, ThreadTypeOK
  <2>3. pc'[t] \notin GatePcs
    BY <1>3 DEF CreateInsert, Goto, TypeOK, ThreadTypeOK, GatePcs, HolderPcs, ExecPcs
  <2>4. \A u \in Thread : pc'[u] \in GatePcs => at'[u] # s
    BY <2>0, <2>2, <2>3 DEF ConnOk
  <2>5. \A u \in Thread \ {t} : pc'[u] \in CreatePcs => at'[u] # s
    BY <2>0, <2>2 DEF CreateInv
  <2>6. \A e \in Exec : run'[e].phase # "unused" => run'[e].sbx # s
    BY <2>0 DEF ConnOk
  <2>. QED  BY <1>3, <2>1, <2>4, <2>5, <2>6
<1>. QED  BY <1>2, <1>3, WhereFrom

(* A command lives in a container that is up or on its way down. *)
Alive ==
  \A e \in Exec : run[e].phase \in {"running", "dying"} => container[run[e].sbx] \in {"up", "stopping"}

LEMMA AliveStep ==
  ASSUME TypeOK, InHand, SlotOk, CreateInv, Alive, [Next]_vars
  PROVE  Alive'
<1> SUFFICES ASSUME NEW e \in Exec, run'[e].phase \in {"running", "dying"}
             PROVE  container'[run'[e].sbx] \in {"up", "stopping"}
  BY DEF Alive
<1>0. /\ container \in [Sandbox -> Containers] /\ RunLife(e)
      /\ run \in [Exec -> RunType]
  BY NextAgent, EveryRunLives DEF TypeOK, WorldTypeOK
<1>1. ASSUME NEW t \in Thread, ExecAccepted(t), run'[e].sbx = at[t]
      PROVE  container'[run'[e].sbx] \in {"up", "stopping"}
  BY <1>1 DEF ExecAccepted
<1>2. CASE run[e].phase \in {"running", "dying"} /\ run'[e].sbx = run[e].sbx
  <2>0. run[e].sbx \in Sandbox /\ container[run[e].sbx] \in {"up", "stopping"}
    BY <1>2 DEF InHand, Alive
  <2>1. CASE UNCHANGED container
    BY <1>2, <2>0, <2>1
  <2>2. ASSUME NEW t \in Thread, Starts(t), at[t] \in Sandbox
        PROVE  container'[run'[e].sbx] \in {"up", "stopping"}
    BY <1>0, <1>2, <2>0, <2>2 DEF Starts, CreateInv, CreatePcs
  <2>3. ASSUME NEW s \in Sandbox, Rises(s) \/ Sinks(s)
        PROVE  container'[run'[e].sbx] \in {"up", "stopping"}
    BY <1>0, <1>2, <2>0, <2>3 DEF Rises, Sinks
  <2>4. ASSUME NEW s \in Sandbox, Goes(s)
        PROVE  container'[run'[e].sbx] \in {"up", "stopping"}
    <3>1. CASE s = run[e].sbx
      <4>1. run'[e].phase = "lost"
        BY <1>0, <1>2, <2>4, <3>1 DEF Goes, ExecsDieIn, RunType
      <4>. QED  BY <4>1
    <3>2. CASE s # run[e].sbx
      BY <1>0, <1>2, <2>0, <2>4, <3>2 DEF Goes
    <3>. QED  BY <3>1, <3>2
  <2>. QED  BY <2>1, <2>2, <2>3, <2>4, ContainerMoves
<1>3. \/ run[e].phase \in {"running", "dying"} /\ run'[e].sbx = run[e].sbx
      \/ \E t \in Thread : ExecAccepted(t) /\ run'[e].sbx = at[t]
  BY <1>0 DEF RunLife
<1>. QED  BY <1>1, <1>2, <1>3

LEMMA CreateInductive == Spec => []CreateInv
<1>1. Init => CreateInv
  BY DEF Init, CreateInv, CreatePcs
<1>2. TypeOK /\ InHand /\ GateInv /\ SlotOk /\ RunInv /\ OwesInv /\ CreateInv /\ [Next]_vars => CreateInv'
  BY CreateInvStep DEF OwesInv
<1>3. GateInv <=> ReconcileAlone /\ HolderKeepsRow /\ GateExclusive
  BY DEF GateInv
<1>. QED  BY <1>1, <1>2, <1>3, TypeCorrect, Gate, SlotInductive, RunInvInductive, OwesInductive, PTL DEF Spec

(* Whatever creates, destroys and reconciles overlap, a command that has   *)
(* not ended is in a container that runs: none is stopped, removed or      *)
(* created anew without the agent's processes going with it.  For this no  *)
(* create may start a container for a sandbox that has been used           *)
(* (sandbox-manager.ts:375-405, 436-460).                                  *)
THEOREM CommandsHaveContainers == Spec => []Alive
<1>1. Init => Alive
  BY DEF Init, Alive, NoRun
<1>2. TypeOK /\ InHand /\ SlotOk /\ CreateInv /\ Alive /\ [Next]_vars => Alive'
  BY AliveStep
<1>. QED  BY <1>1, <1>2, TypeCorrect, SlotInductive, CreateInductive, PTL DEF Spec

(* What reconcile has made sure of: of every row it is through with, and   *)
(* of the one it has in hand.                                              *)
Fits(s) ==
  /\ row[s].state \in {"READY", "BUSY"} => container[s] # "absent"
  /\ RunningIn(s) # {} => (row[s].state \in {"ERROR", "DESTROYED"} \/ container[s] = "stopping")
Seen ==
  look.step # "none" =>
    /\ look.sbx \in scan
    /\ look.what = "gone" => look.step = "act"
    /\ look.what # "gone" => container[look.sbx] # "absent"
    /\ look.what \in {"idle", "active"} => container[look.sbx] = "up"
    /\ look.what = "unreachable" => (RunningIn(look.sbx) # {} => container[look.sbx] = "stopping")
    /\ look.what = "active" => RunningIn(look.sbx) \subseteq {look.id}
Through ==
  /\ cp \in {"reconcile", "orphans"} => \A s \in Sandbox : (cp = "reconcile" /\ s \in scan) \/ Fits(s)
  /\ cp = "reconcile" => \A s \in scan : row[s].state \in ReconcileStates
  /\ cp = "orphans" => \A s \in Sandbox \ scan :
                          row[s].state \in {"none", "DESTROYED"} => container[s] = "absent"

(* A step of the world while no call is served changes nothing of that.    *)
Calm ==
  /\ UNCHANGED <<look, scan>>
  /\ \A s \in Sandbox :
       /\ row'[s].state = row[s].state
       /\ container[s] = "absent" <=> container'[s] = "absent"
       /\ container[s] = "up" => container'[s] = "up"
       /\ RunningIn(s)' \subseteq RunningIn(s)
       /\ container[s] = "stopping" => container'[s] = "stopping" \/ RunningIn(s)' = {}

LEMMA NobodyRunsIn ==
  ASSUME TypeOK, NEW s \in Sandbox, ExecsDieIn(s)
  PROVE  /\ RunningIn(s)' = {}
         /\ \A x : RunningIn(x)' \subseteq RunningIn(x)
<1>1. \A e \in Exec : run'[e].phase = "running" => run'[e] = run[e] /\ run[e].sbx # s
  BY DEF ExecsDieIn, TypeOK, WorldTypeOK, RunType
<1>. QED  BY <1>1 DEF RunningIn

LEMMA NothingFails ==
  ASSUME TypeOK, UNCHANGED left.fault
  PROVE  ~ Spend("fault")
  BY DEF TypeOK, CpTypeOK, Spend

LEMMA CalmWorld ==
  ASSUME TypeOK, InHand, UNCHANGED left.fault, cp # "serving",
         \/ \E s \in Sandbox : TimeStep(s) \/ WorldStep(s)
         \/ \E e \in Exec : AgentStep(e)
         \/ UNCHANGED vars
  PROVE  Calm /\ UNCHANGED cp
<1>0. /\ container \in [Sandbox -> Containers] /\ run \in [Exec -> RunType]
      /\ row \in [Sandbox -> RowType] /\ ~ Spend("fault")
  BY NothingFails DEF TypeOK, WorldTypeOK, DbTypeOK
<1>1. ASSUME UNCHANGED <<look, scan, row, container, run>>
      PROVE  Calm
  BY <1>1 DEF Calm, RunningIn
<1>2. ASSUME NEW s \in Sandbox, TimeStep(s)
      PROVE  Calm /\ UNCHANGED cp
  <2>1. CASE Expire(s)
    <3>1. UNCHANGED <<look, scan, container, run, cp>> /\ \A x \in Sandbox : row'[x].state = row[x].state
      BY <1>0, <2>1 DEF Expire, worldVars, cpVars, RowType
    <3>. QED  BY <3>1 DEF Calm, RunningIn
  <2>. QED  BY <1>1, <1>2, <2>1 DEF TimeStep, GraceEnds, dbVars, worldVars
<1>3. ASSUME NEW s \in Sandbox, WorldStep(s)
      PROVE  Calm /\ UNCHANGED cp
  <2>1. CASE ContainerUp(s)
    BY <1>0, <2>1 DEF ContainerUp, Calm, RunningIn, dbVars, cpVars
  <2>2. CASE ContainerExits(s)
    <3>1. container[s] = "stopping" /\ container' = [container EXCEPT ![s] = "exited"] /\ ExecsDieIn(s)
          /\ UNCHANGED <<look, scan, row, cp>>
      BY <1>0, <2>2 DEF ContainerExits, dbVars, cpVars
    <3>2. RunningIn(s)' = {} /\ \A x : RunningIn(x)' \subseteq RunningIn(x)
      BY <3>1, NobodyRunsIn
    <3>. QED  BY <1>0, <3>1, <3>2 DEF Calm
  <2>. QED  BY <1>1, <1>3, <2>1, <2>2 DEF WorldStep, JobBegins, JobEnds, dbVars, cpVars
<1>4. ASSUME NEW e \in Exec, AgentStep(e)
      PROVE  Calm /\ UNCHANGED cp
  <2>1. UNCHANGED <<look, scan, row, container, cp>>
    BY <1>4 DEF AgentStep, AgentTimesOut, AgentEnds, AgentFinishes, dbVars, cpVars
  <2>2. \A x \in Exec : run'[x] = run[x] \/ run'[x].phase \in {"dying", "over"}
    BY <1>0, <1>4 DEF AgentStep, AgentTimesOut, AgentEnds, AgentFinishes, RunType
  <2>. QED  BY <2>1, <2>2 DEF Calm, RunningIn
<1>5. CASE UNCHANGED vars
  BY <1>1, <1>5 DEF vars, dbVars, worldVars, cpVars
<1>. QED  BY <1>2, <1>3, <1>4, <1>5

LEMMA CalmKeeps ==
  ASSUME TypeOK, InHand, Seen, Through, Calm, UNCHANGED cp
  PROVE  Seen' /\ Through'
<1>1. Seen'
  <2>1. look.step # "none" => look.sbx \in Sandbox
    BY DEF InHand
  <2>. QED  BY <2>1 DEF Seen, Calm
<1>2. ASSUME NEW s \in Sandbox, Fits(s)
      PROVE  Fits(s)'
  BY <1>2 DEF Fits, Calm
<1>3. scan \subseteq Sandbox
  BY DEF TypeOK, CpTypeOK
<1>. QED  BY <1>1, <1>2, <1>3 DEF Through, Calm

(* Reconcile is done with the row it has in hand. *)
LEMMA DoneWith ==
  ASSUME TypeOK, InHand, Through, cp = "reconcile", RowDone, UNCHANGED <<container, run, cp>>,
         NEW s \in Sandbox, s = look.sbx, Fits(s)',
         \A x \in Sandbox \ {s} : row'[x] = row[x]
  PROVE  Seen' /\ Through'
<1>1. look'.step = "none" /\ scan' = scan \ {s} /\ scan \subseteq Sandbox
  BY DEF RowDone, NoLook, TypeOK, CpTypeOK
<1>2. ASSUME NEW x \in Sandbox \ {s}, Fits(x)
      PROVE  Fits(x)'
  BY <1>2 DEF Fits, RunningIn
<1>. QED  BY <1>1, <1>2 DEF Seen, Through

LEMMA InspectKeeps ==
  ASSUME TypeOK, InHand, SlotOk, Alive, Seen, Through, UNCHANGED left.fault, NEW s \in Sandbox, Inspect(s)
  PROVE  Seen' /\ Through'
<1>1. UNCHANGED <<row, container, run, slot, scan, cp>> /\ s \in scan
  <2>1. ~ Spend("fault")
    BY NothingFails
  <2>. QED  BY <2>1 DEF Inspect, dbVars, worldVars
<1>2. /\ look'.sbx = s /\ look'.step = "act"
      /\ look'.what = IF container[s] \in {"absent", "exited"} THEN "gone"
                      ELSE IF container[s] # "up" THEN "unreachable"
                      ELSE IF slot[s] = "free" THEN "idle" ELSE "active"
      /\ look'.id = IF container[s] = "up" /\ slot[s] \in Exec THEN slot[s] ELSE None
  <2>1. ~ Spend("fault")
    BY NothingFails
  <2>. QED  BY <2>1 DEF Inspect, NoLook
<1>3. ASSUME NEW e \in RunningIn(s)
      PROVE  slot[s] = e /\ e \in Exec /\ container[s] \in {"up", "stopping"}
  BY DEF RunningIn, SlotOk, Alive
<1>4. /\ look'.what = "gone" => look'.step = "act"
      /\ look'.what # "gone" => container[s] # "absent"
      /\ look'.what \in {"idle", "active"} => container[s] = "up"
  BY <1>2
<1>5. look'.what = "unreachable" => (RunningIn(s) # {} => container[s] = "stopping")
  BY <1>2, <1>3
<1>6. look'.what = "active" => RunningIn(s) \subseteq {look'.id}
  <2>1. look'.what = "active" => container[s] = "up"
    BY <1>2
  <2>. QED  BY <1>2, <1>3, <2>1
<1>7. RunningIn(s)' = RunningIn(s)
  BY <1>1 DEF RunningIn
<1>8. Seen'
  <2>1. \A x : RunningIn(x)' = RunningIn(x)
    BY <1>1 DEF RunningIn
  <2>. QED  BY <1>1, <1>2, <1>4, <1>5, <1>6, <2>1 DEF Seen
<1>9. Through'
  BY <1>1 DEF Through, Fits, RunningIn
<1>. QED  BY <1>8, <1>9

LEMMA CheckKeeps ==
  ASSUME TypeOK, InHand, IdleInv, Seen, Through, CheckSandbox
  PROVE  Seen' /\ Through'
<1>0. PICK s \in Sandbox : s = look.sbx
  BY DEF CheckSandbox, InHand
<1>1. /\ s \in scan /\ look.step = "act" /\ cp = "reconcile" /\ RowDone
      /\ UNCHANGED <<container, run, cp>> /\ row \in [Sandbox -> RowType]
  BY <1>0 DEF CheckSandbox, InHand, Seen, worldVars, TypeOK, DbTypeOK
<1>2. row[s].state \in ReconcileStates
  BY <1>1 DEF Through
<1>3. \A x \in Sandbox \ {s} : row'[x] = row[x]
  BY <1>0, <1>1 DEF CheckSandbox, Transition
<1>4. ASSUME NEW from, NEW st \in States, Transition(s, from, To(s, st)),
             row[s].state \in from, <<row[s].state, st>> \in Edges
      PROVE  row'[s].state = st
  <2>1. To(s, st).state = st
    BY ToType DEF TypeOK
  <2>. QED  BY <1>1, <1>4, <2>1 DEF Transition, MayMove
<1>5. row[s].state \in {"CREATING", "READY"} => RunningIn(s) = {}
  BY DEF IdleInv, UsedAfterReady, ReadyMeansIdle, RunningIn
<1>6. ASSUME \/ row'[s].state = "ERROR"
             \/ container[s] # "absent" /\ (RunningIn(s) = {} \/ container[s] = "stopping")
      PROVE  Seen' /\ Through'
  <2>1. Fits(s)'
    BY <1>1, <1>6 DEF Fits, RunningIn
  <2>. QED  BY <1>0, <1>1, <1>3, <2>1, DoneWith
<1>7. CASE look.what = "gone"
  <2>1. Transition(s, ReconcileStates, To(s, "ERROR"))
    BY <1>0, <1>7 DEF CheckSandbox
  <2>2. <<row[s].state, "ERROR">> \in Edges /\ "ERROR" \in States
    BY <1>2 DEF ReconcileStates, Edges, States
  <2>. QED  BY <1>2, <1>4, <1>6, <2>1, <2>2
<1>8. CASE look.what = "active" /\ row[s].state = "BUSY"
  <2>1. Transition(s, {"BUSY"}, To(s, "ERROR"))
    BY <1>0, <1>8 DEF CheckSandbox
  <2>2. <<row[s].state, "ERROR">> \in Edges /\ "ERROR" \in States
    BY <1>8 DEF Edges, States
  <2>. QED  BY <1>4, <1>6, <1>8, <2>1, <2>2
<1>9. CASE look.what = "unreachable"
  BY <1>0, <1>1, <1>6, <1>9 DEF Seen
<1>10. CASE look.what = "idle"
  BY <1>0, <1>1, <1>6, <1>10 DEF Seen, IdleInv, LookIsFresh
<1>11. CASE look.what # "gone" /\ row[s].state \in {"CREATING", "READY"}
  BY <1>0, <1>1, <1>5, <1>6, <1>11 DEF Seen
<1>. QED  BY <1>0, <1>2, <1>7, <1>8, <1>9, <1>10, <1>11 DEF CheckSandbox, ReconcileStates

LEMMA KillKeeps ==
  ASSUME TypeOK, InHand, Seen, Through, UNCHANGED left.fault, KillRestarted
  PROVE  Seen' /\ Through'
<1>0. PICK s \in Sandbox : s = look.sbx
  BY DEF KillRestarted, InHand
<1>1. /\ s \in scan /\ look.step = "act" /\ look.what = "active" /\ cp = "reconcile"
      /\ UNCHANGED <<row, container, cp>> /\ look \in LookType
  BY <1>0 DEF KillRestarted, InHand, Seen, dbVars, TypeOK, CpTypeOK
<1>2. container[s] = "up" /\ RunningIn(s) \subseteq {look.id}
  BY <1>0, <1>1 DEF Seen
<1>3. CASE look.id # None /\ Kill(look.id) /\ look' = [look EXCEPT !.step = "record"] /\ UNCHANGED scan
  <2>1. look'.sbx = s /\ look'.what = "active" /\ look'.id = look.id /\ look'.step = "record"
    BY <1>0, <1>1, <1>3 DEF LookType
  <2>2. \A e \in Exec : run'[e].phase = "running" => run[e].phase = "running" /\ run'[e].sbx = run[e].sbx
    BY <1>3 DEF Kill, TypeOK, WorldTypeOK, RunType
  <2>3. \A x : RunningIn(x)' \subseteq RunningIn(x)
    BY <2>2 DEF RunningIn
  <2>4. Seen'
    BY <1>1, <1>2, <1>3, <2>1, <2>3 DEF Seen
  <2>5. ASSUME NEW x \in Sandbox, Fits(x)
        PROVE  Fits(x)'
    BY <1>1, <2>3, <2>5 DEF Fits
  <2>. QED  BY <1>1, <1>3, <2>4, <2>5 DEF Through
<1>4. CASE RowDone /\ UNCHANGED run /\ look.id = None
  <2>1. RunningIn(s) = {}
    BY <1>2, <1>4, Labels DEF RunningIn
  <2>2. Fits(s)'
    BY <1>1, <1>2, <1>4, <2>1 DEF Fits, RunningIn
  <2>. QED  BY <1>0, <1>1, <1>4, <2>2, DoneWith
<1>5. ~ CallFails(look.sbx)
  BY <1>0, <1>2, NothingFails DEF CallFails, Reachable
<1>. QED  BY <1>3, <1>4, <1>5 DEF KillRestarted

LEMMA ReleaseKeeps ==
  ASSUME TypeOK, InHand, IdleInv, Seen, Through, ReleaseRestarted
  PROVE  Seen' /\ Through'
<1>0. PICK s \in Sandbox : s = look.sbx
  BY DEF ReleaseRestarted, InHand
<1>1. /\ look.step = "release" /\ cp = "reconcile" /\ RowDone /\ UNCHANGED <<container, run, cp>>
      /\ \A x \in Sandbox \ {s} : row'[x] = row[x]
  BY <1>0 DEF ReleaseRestarted, InHand, worldVars, Transition, TypeOK, DbTypeOK
<1>2. container[s] # "absent" /\ RunningIn(s) = {}
  BY <1>0, <1>1 DEF Seen, IdleInv, LookIsFresh
<1>3. Fits(s)'
  BY <1>1, <1>2 DEF Fits, RunningIn
<1>. QED  BY <1>0, <1>1, <1>3, DoneWith

LEMMA OrphansKeep ==
  ASSUME TypeOK, InHand, Seen, Through, UNCHANGED left.fault,
         ListManaged \/ ReconcileDone \/ \E s \in Sandbox : CheckOrphan(s)
  PROVE  Seen' /\ Through'
<1>0. look.step = "none" /\ UNCHANGED <<look, row>>
  <2>1. ReconcileDone \/ (\E s \in Sandbox : CheckOrphan(s)) => cp # "reconcile"
    BY DEF ReconcileDone, CheckOrphan
  <2>. QED  BY <2>1 DEF ListManaged, ReconcileDone, CheckOrphan, InHand, NoLook, dbVars
<1>1. Seen'
  BY <1>0 DEF Seen
<1>2. CASE ListManaged
  <2>1. /\ cp = "reconcile" /\ cp' = "orphans" /\ scan = {} /\ scan' = {s \in Sandbox : container[s] # "absent"}
        /\ UNCHANGED <<container, run>>
    BY <1>2 DEF ListManaged, worldVars
  <2>2. \A s \in Sandbox : Fits(s)'
    BY <1>0, <2>1 DEF Through, Fits, RunningIn
  <2>. QED  BY <1>1, <2>1, <2>2 DEF Through
<1>3. CASE ReconcileDone
  BY <1>1, <1>3 DEF ReconcileDone, Through
<1>4. ASSUME NEW s \in Sandbox, CheckOrphan(s)
      PROVE  Through'
  <2>1. /\ cp = "orphans" /\ cp' = "orphans" /\ s \in scan /\ scan' = scan \ {s}
        /\ \/ /\ row[s].state \in {"none", "DESTROYED"}
              /\ container' = [container EXCEPT ![s] = "absent"] /\ ExecsDieIn(s)
           \/ row[s].state \notin {"none", "DESTROYED"} /\ UNCHANGED <<container, run>>
    <3>1. ~ Spend("fault")
      BY NothingFails
    <3>. QED  BY <1>4, <3>1 DEF CheckOrphan
  <2>2. CASE row[s].state \notin {"none", "DESTROYED"} /\ UNCHANGED <<container, run>>
    BY <1>0, <2>1, <2>2 DEF Through, Fits, RunningIn
  <2>3. CASE /\ row[s].state \in {"none", "DESTROYED"}
             /\ container' = [container EXCEPT ![s] = "absent"] /\ ExecsDieIn(s)
    <3>1. RunningIn(s)' = {} /\ \A x : RunningIn(x)' \subseteq RunningIn(x)
      BY <2>3, NobodyRunsIn
    <3>2. container \in [Sandbox -> Containers]
      BY DEF TypeOK, WorldTypeOK
    <3>3. ASSUME NEW x \in Sandbox, Fits(x)
          PROVE  Fits(x)'
      BY <1>0, <2>3, <3>1, <3>2, <3>3 DEF Fits
    <3>. QED  BY <1>0, <2>1, <2>3, <3>2, <3>3 DEF Through
  <2>. QED  BY <2>1, <2>2, <2>3
<1>. QED  BY <1>1, <1>2, <1>3, <1>4

LEMMA RecordKeeps ==
  ASSUME TypeOK, InHand, Seen, Through, RecordRestarted
  PROVE  Seen' /\ Through'
<1>1. /\ look'.step = "release" /\ look'.sbx = look.sbx /\ look'.what = look.what /\ look'.id = look.id
      /\ look.step = "record" /\ UNCHANGED <<row, container, run, cp, scan>>
  BY DEF RecordRestarted, worldVars, TypeOK, CpTypeOK, LookType
<1>. QED  BY <1>1 DEF Seen, Through, Fits, RunningIn

LEMMA RestartKeeps ==
  ASSUME TypeOK, InHand, IdleInv, Restart
  PROVE  Seen' /\ Through'
<1>1. /\ look'.step = "none" /\ cp' = "reconcile" /\ UNCHANGED <<row, container, run>>
      /\ scan' = {s \in Sandbox : row[s].state \in ReconcileStates}
  BY DEF Restart, InHand, dbVars, worldVars
<1>2. ASSUME NEW s \in Sandbox, row[s].state \notin ReconcileStates
      PROVE  Fits(s)
  <2>1. row[s].state \in States \cup {"none"}
    BY DEF TypeOK, DbTypeOK, RowType
  <2>2. row[s].state \in {"none", "ERROR", "DESTROYED"}
    BY <1>2, <2>1 DEF States, ReconcileStates
  <2>3. row[s].state = "none" => RunningIn(s) = {}
    BY DEF IdleInv, UsedAfterReady, RunningIn
  <2>. QED  BY <2>2, <2>3 DEF Fits
<1>. QED  BY <1>1, <1>2 DEF Seen, Through, Fits, RunningIn

LEMMA WorldLooksAway ==
  ASSUME \/ \E s \in Sandbox : TimeStep(s) \/ WorldStep(s)
         \/ \E e \in Exec : AgentStep(e)
         \/ UNCHANGED vars
  PROVE  UNCHANGED <<cp, look>>
<1>1. ASSUME NEW s \in Sandbox, TimeStep(s) \/ WorldStep(s)
      PROVE  UNCHANGED <<cp, look>>
  BY <1>1 DEF TimeStep, WorldStep, Expire, GraceEnds, ContainerUp, ContainerExits, JobBegins, JobEnds,
     cpVars
<1>2. ASSUME NEW e \in Exec, AgentStep(e)
      PROVE  UNCHANGED <<cp, look>>
  BY <1>2 DEF AgentStep, AgentTimesOut, AgentEnds, AgentFinishes, cpVars
<1>3. CASE UNCHANGED vars
  BY <1>3 DEF vars, cpVars
<1>. QED  BY <1>1, <1>2, <1>3

(* While calls are served reconcile has nothing in hand. *)
LEMMA ServingLooksAtNothing ==
  ASSUME TypeOK, InHand, cp = "serving", [Next]_vars
  PROVE  Crash \/ UNCHANGED <<cp, look>>
<1>1. ASSUME NEW t \in Thread, ThreadStep(t)
      PROVE  UNCHANGED <<cp, look>>
  BY <1>1 DEF ThreadStep, CreateStep, CreateContainer, CreateReady, CreateGivesUp, CreateFailed,
     CreateCommit, CreateUndo, ExecStep, ExecGate, ExecAccepted, ExecBusy, ExecRefused, FinishKill,
     RecordExecution, ReleaseBusy, FinishError, StreamStep, StreamEnds, StreamConnects,
     StreamTerminal, StreamCloses, StreamBreaks, StreamWakes, WatchdogFires, KillAnswered,
     KillWaitExpires, DestroyStep, ArchiveStep, ArchiveBegin, ArchiveEnd, ArchiveFails, ArchiveError,
     StopContainer, RemoveContainer, RemoveFails, RemoveFailed, Destroyed, cpVars
<1>2. ASSUME NEW t \in Thread, NEW s \in Sandbox, NewCall(t, s)
      PROVE  UNCHANGED <<cp, look>>
  BY <1>2 DEF NewCall, CreateInsert, ExecRead, DestroyRead, BeginDestroy, cpVars
<1>3. CASE SweepStep
  BY <1>3 DEF SweepStep, SweepList, SweepDestroy, SweepSkip, BeginDestroy, cpVars
<1>4. ~ ReconcileStep /\ ~ Restart
  BY DEF ReconcileStep, CheckSandbox, KillRestarted, RecordRestarted, ReleaseRestarted, ListManaged,
     ReconcileDone, Inspect, CheckOrphan, Restart, InHand
<1>. QED  BY <1>1, <1>2, <1>3, <1>4, WorldLooksAway DEF Next

RecInv == Seen /\ Through

(* No call fails and no container dies while reconcile works. *)
Quiet == cp \in {"reconcile", "orphans"} => UNCHANGED left.fault

LEMMA RecStep ==
  ASSUME TypeOK, InHand, ReconcileAlone, SlotOk, IdleInv, Alive, RecInv, Quiet, [Next]_vars
  PROVE  RecInv'
<1> SUFFICES Seen' /\ Through'
  BY DEF RecInv
<1>0. Seen /\ Through
  BY DEF RecInv
<1>1. CASE Crash
  <2>1. look'.step = "none" /\ cp' = "down"
    BY <1>1 DEF Crash, NoLook
  <2>. QED  BY <2>1 DEF Seen, Through
<1>2. CASE cp = "serving" /\ UNCHANGED <<cp, look>>
  <2>1. look'.step = "none" /\ cp' = "serving"
    BY <1>2 DEF InHand
  <2>. QED  BY <2>1 DEF Seen, Through
<1>3. CASE cp # "serving" /\ ~ Crash
  <2>1. ASSUME NEW t \in Thread, ThreadStep(t)
        PROVE  FALSE
    BY <1>3, <2>1, ThreadPc DEF ReconcileAlone
  <2>2. ASSUME NEW t \in Thread, NEW s \in Sandbox, NewCall(t, s)
        PROVE  FALSE
    BY <1>3, <2>2 DEF NewCall, CreateInsert, ExecRead, DestroyRead, BeginDestroy, CanStart
  <2>3. ~ SweepStep
    BY <1>3 DEF SweepStep, SweepList, SweepDestroy, SweepSkip, BeginDestroy, CanStart
  <2>4. CASE Restart
    BY <2>4, RestartKeeps
  <2>5. CASE ReconcileStep
    <3>0. UNCHANGED left.fault
      BY <1>3, <2>5 DEF Quiet, TypeOK, CpTypeOK, ReconcileStep, CheckSandbox, KillRestarted,
         RecordRestarted, ReleaseRestarted, ListManaged, ReconcileDone, Inspect, CheckOrphan, InHand
    <3>1. ASSUME NEW s \in Sandbox, Inspect(s)
          PROVE  Seen' /\ Through'
      BY <1>0, <3>0, <3>1, InspectKeeps
    <3>2. CASE CheckSandbox \/ KillRestarted
      BY <1>0, <3>0, <3>2, CheckKeeps, KillKeeps
    <3>3. CASE RecordRestarted \/ ReleaseRestarted
      BY <1>0, <3>3, RecordKeeps, ReleaseKeeps
    <3>4. CASE ListManaged \/ ReconcileDone \/ \E s \in Sandbox : CheckOrphan(s)
      BY <1>0, <3>0, <3>4, OrphansKeep
    <3>. QED  BY <2>5, <3>1, <3>2, <3>3, <3>4 DEF ReconcileStep
  <2>6. CASE \/ \E s \in Sandbox : TimeStep(s) \/ WorldStep(s)
             \/ \E e \in Exec : AgentStep(e)
             \/ UNCHANGED vars
    <3>1. CASE cp = "down"
      <4>1. cp' = "down" /\ look'.step = "none"
        BY <2>6, <3>1, WorldLooksAway DEF InHand
      <4>. QED  BY <4>1 DEF Seen, Through
    <3>2. CASE cp # "down"
      <4>1. UNCHANGED left.fault
        BY <1>3, <3>2 DEF Quiet, TypeOK, CpTypeOK
      <4>2. Calm /\ UNCHANGED cp
        BY <1>3, <2>6, <4>1, CalmWorld
      <4>. QED  BY <1>0, <4>2, CalmKeeps
    <3>. QED  BY <3>1, <3>2
  <2>. QED  BY <1>3, <2>1, <2>2, <2>3, <2>4, <2>5, <2>6 DEF Next
<1>. QED  BY <1>1, <1>2, <1>3, ServingLooksAtNothing

(* Only the end of reconcile opens the service. *)
LEMMA ServiceOpens ==
  ASSUME TypeOK, InHand, [Next]_vars, cp = "orphans", cp' = "serving"
  PROVE  scan = {}
<1>1. UNCHANGED cp \/ Crash \/ Restart \/ ListManaged \/ ReconcileDone
  <2>1. ASSUME NEW t \in Thread, ThreadStep(t)
        PROVE  UNCHANGED cp
    BY <2>1, ThreadPc
  <2>2. ASSUME NEW t \in Thread, NEW s \in Sandbox, NewCall(t, s)
        PROVE  UNCHANGED cp
    BY <2>2 DEF NewCall, CreateInsert, ExecRead, DestroyRead, BeginDestroy, cpVars
  <2>3. CASE SweepStep \/ UNCHANGED vars
    BY <2>3 DEF SweepStep, SweepList, SweepDestroy, SweepSkip, BeginDestroy, cpVars, vars
  <2>4. ASSUME NEW s \in Sandbox, TimeStep(s) \/ WorldStep(s)
        PROVE  UNCHANGED cp
    BY <2>4 DEF TimeStep, WorldStep, Expire, GraceEnds, ContainerUp, ContainerExits, JobBegins,
       JobEnds, cpVars
  <2>5. ASSUME NEW e \in Exec, AgentStep(e)
        PROVE  UNCHANGED cp
    BY <2>5 DEF AgentStep, AgentTimesOut, AgentEnds, AgentFinishes, cpVars
  <2>6. CASE ReconcileStep
    BY <2>6 DEF ReconcileStep, CheckSandbox, KillRestarted, RecordRestarted, ReleaseRestarted,
       Inspect, CheckOrphan
  <2>. QED  BY <2>1, <2>2, <2>3, <2>4, <2>5, <2>6 DEF Next
<1>2. ~ UNCHANGED cp /\ ~ Crash /\ ~ Restart /\ ~ ListManaged
  BY DEF Crash, Restart, ListManaged
<1>. QED  BY <1>1, <1>2 DEF ReconcileDone

LEMMA StillIsQuiet == [Quiet]_vars => Quiet
  BY DEF Quiet, vars, cpVars

(* If nothing fails while it works, and no answer of POST /exec is ever    *)
(* lost, reconcile ends with rows that fit the world: whatever the crash   *)
(* interrupted, whatever had failed before, whatever the agents and the    *)
(* clock do meanwhile (reconcile.ts:92-110, 134-180, 211-237).             *)
THEOREM ReconcileRepairs ==
  ~ LossyReplies => (Spec /\ [][Quiet]_vars => ReconcileAgrees)
<1>. SUFFICES ASSUME ~ LossyReplies PROVE Spec /\ [][Quiet]_vars => ReconcileAgrees
  OBVIOUS
<1>1. Init => RecInv
  BY DEF Init, RecInv, Seen, Through, NoLook
<1>2. TypeOK /\ InHand /\ GateInv /\ SlotOk /\ IdleInv /\ Alive /\ RecInv /\ [Next]_vars /\ [Quiet]_vars => RecInv'
  BY RecStep, StillIsQuiet DEF GateInv
<1> DEFINE A == cp = "orphans" /\ cp' = "serving" =>
       \A s \in Sandbox :
         /\ row[s].state \in {"none", "DESTROYED"} => container[s] = "absent"
         /\ row[s].state \in {"READY", "BUSY"} => container[s] # "absent"
         /\ \A e \in Exec : run[e].sbx = s /\ run[e].phase = "running"
              => row[s].state = "ERROR" \/ container[s] = "stopping"
<1>3. TypeOK /\ InHand /\ Alive /\ RecInv /\ [Next]_vars => A
  <2> SUFFICES ASSUME TypeOK, InHand, Alive, RecInv, [Next]_vars, cp = "orphans", cp' = "serving",
                      NEW s \in Sandbox
               PROVE  /\ row[s].state \in {"none", "DESTROYED"} => container[s] = "absent"
                      /\ row[s].state \in {"READY", "BUSY"} => container[s] # "absent"
                      /\ \A e \in Exec : run[e].sbx = s /\ run[e].phase = "running"
                           => row[s].state = "ERROR" \/ container[s] = "stopping"
    OBVIOUS
  <2>1. Fits(s) /\ (row[s].state \in {"none", "DESTROYED"} => container[s] = "absent")
    BY ServiceOpens DEF RecInv, Through
  <2>2. ASSUME NEW e \in Exec, run[e].sbx = s, run[e].phase = "running"
        PROVE  row[s].state = "ERROR" \/ container[s] = "stopping"
    <3>1. e \in RunningIn(s) /\ container[s] # "absent"
      BY <2>2 DEF RunningIn, Alive
    <3>. QED  BY <2>1, <3>1 DEF Fits
  <2>. QED  BY <2>1, <2>2 DEF Fits
<1> HIDE DEF A
<1>4. Spec /\ [][Quiet]_vars => [][A]_vars
  BY <1>1, <1>2, <1>3, TypeCorrect, Gate, SlotInductive, IdleInductive, CommandsHaveContainers, PTL
     DEF Spec, GateInv
<1>. QED  BY <1>4 DEF ReconcileAgrees, A

(* In particular when nothing fails at all. *)
THEOREM ReconcileRepairsUndisturbed ==
  MaxFaults = 0 /\ ~ LossyReplies => (Spec => ReconcileAgrees)
<1>. SUFFICES ASSUME MaxFaults = 0, ~ LossyReplies PROVE Spec => ReconcileAgrees
  OBVIOUS
<1> DEFINE NoneLeft == left.fault = 0
<1>1. Init => NoneLeft
  BY DEF Init
<1>2. TypeOK /\ NoneLeft /\ [Next]_vars => NoneLeft'
  BY CrashesLeft
<1>3. NoneLeft /\ NoneLeft' => Quiet
  BY DEF Quiet
<1> HIDE DEF NoneLeft
<1>4. Spec => [][Quiet]_vars
  BY <1>1, <1>2, <1>3, TypeCorrect, PTL DEF Spec
<1>. QED  BY <1>4, ReconcileRepairs

------------------------------------------------------------------------------
(* A result is written once.                                               *)

WritingPcs == {"stream", "finish", "record", "finish_record"}
SlotLive ==
  \A s \in Sandbox : slot[s] \in Exec =>
    run[slot[s]].phase \in {"running", "dying"} /\ run[slot[s]].sbx = s
OneCallEach ==
  \A t, u \in Thread : t # u /\ call[t].id \in Exec => call[u].id # call[t].id
OnceInv ==
  /\ SlotLive /\ OneCallEach
  /\ \A t \in Thread : pc[t] \in WritingPcs => execution[call[t].id] = "none"
  /\ \A e \in Exec : run[e].phase = "unused" => execution[e] = "none"
  /\ \A e \in Exec : execution[e] \in {"completed", "timeout"} => run[e].phase = "over"
  /\ look.step \in {"act", "record"} /\ look.id \in Exec
       => run[look.id].phase # "unused" /\ execution[look.id] \notin {"completed", "timeout"}

LEMMA SlotLiveStep ==
  ASSUME TypeOK, InHand, SlotOk, SlotLive, [Next]_vars
  PROVE  SlotLive'
<1> SUFFICES ASSUME NEW s \in Sandbox, slot'[s] \in Exec
             PROVE  run'[slot'[s]].phase \in {"running", "dying"} /\ run'[slot'[s]].sbx = s
  BY DEF SlotLive
<1>0. /\ slot \in [Sandbox -> Exec \cup {"free", "job"}] /\ run \in [Exec -> RunType]
      /\ {"free", "job"} \cap Exec = {}
  BY ExecAssumption DEF TypeOK, WorldTypeOK
<1>1. CASE UNCHANGED <<run, slot>>
  BY <1>1 DEF SlotLive
<1>2. ASSUME NEW x \in Sandbox, ExecsDieIn(x)
      PROVE  run'[slot'[s]].phase \in {"running", "dying"} /\ run'[slot'[s]].sbx = s
  <2>1. s # x /\ slot'[s] = slot[s]
    BY <1>0, <1>2 DEF ExecsDieIn
  <2>2. run[slot[s]].phase \in {"running", "dying"} /\ run[slot[s]].sbx = s
    BY <2>1 DEF SlotLive
  <2>3. run'[slot[s]] = run[slot[s]]
    BY <1>2, <2>1, <2>2 DEF ExecsDieIn
  <2>. QED  BY <2>1, <2>2, <2>3
<1>3. ASSUME UNCHANGED slot, \A e \in Exec : run'[e] = run[e] \/ (run'[e].phase = "dying" /\ run'[e].sbx = run[e].sbx)
      PROVE  run'[slot'[s]].phase \in {"running", "dying"} /\ run'[slot'[s]].sbx = s
  BY <1>3 DEF SlotLive
<1>4. ASSUME NEW x \in Sandbox, Stopped(x)
      PROVE  run'[slot'[s]].phase \in {"running", "dying"} /\ run'[slot'[s]].sbx = s
  BY <1>0, <1>3, <1>4 DEF Stopped, RunType
<1>5. ASSUME NEW e \in Exec, NEW out \in Outcomes, Decided(e, out)
      PROVE  run'[slot'[s]].phase \in {"running", "dying"} /\ run'[slot'[s]].sbx = s
  BY <1>0, <1>3, <1>5 DEF Decided, RunType
<1>6. ASSUME NEW x \in Sandbox, JobTakes(x) \/ JobGives(x)
      PROVE  run'[slot'[s]].phase \in {"running", "dying"} /\ run'[slot'[s]].sbx = s
  BY <1>0, <1>6 DEF JobTakes, JobGives, SlotLive
<1>7. ASSUME NEW e \in Exec, Finished(e)
      PROVE  run'[slot'[s]].phase \in {"running", "dying"} /\ run'[slot'[s]].sbx = s
  <2>1. slot[run[e].sbx] = e
    BY <1>7 DEF Finished, SlotOk
  <2>2. slot'[s] = slot[s] /\ slot[s] # e
    BY <1>0, <1>7, <2>1 DEF Finished, SlotLive
  <2>. QED  BY <1>0, <1>7, <2>2 DEF Finished, SlotLive
<1>8. ASSUME NEW t \in Thread, NEW e \in Exec, at[t] \in Sandbox, Started(t, e)
      PROVE  run'[slot'[s]].phase \in {"running", "dying"} /\ run'[slot'[s]].sbx = s
  <2>1. run'[e].phase = "running" /\ run'[e].sbx = at[t]
    BY <1>0, <1>8 DEF Started
  <2>2. CASE s = at[t]
    BY <1>0, <1>8, <2>1, <2>2 DEF Started
  <2>3. CASE s # at[t]
    <3>1. slot'[s] = slot[s] /\ slot[s] # e
      BY <1>0, <1>8, <2>3 DEF Started, SlotLive
    <3>. QED  BY <1>0, <1>8, <3>1 DEF Started, SlotLive
  <2>. QED  BY <2>2, <2>3
<1>. QED  BY <1>1, <1>2, <1>4, <1>5, <1>6, <1>7, <1>8, NextAgent DEF AgentMoves

(* A call has the execution it had, none, or the new one it has just started.*)
LEMMA CallOfRun ==
  ASSUME TypeOK, InHand, RunInv, [Next]_vars, NEW t \in Thread, call'[t].id \in Exec
  PROVE  \/ call'[t].id = call[t].id
            /\ (pc'[t] \in WritingPcs => pc[t] \in WritingPcs /\ ~ RecordExecution(t))
         \/ ExecAccepted(t) /\ run[call'[t].id].phase = "unused"
<1>0. call \in [Thread -> CallType] /\ pc \in [Thread -> Pcs] /\ call[t] \in CallType
  BY DEF TypeOK, ThreadTypeOK
<1>1. CASE ExecAccepted(t)
  <2>1. PICK x \in Exec :
          /\ run[x].phase = "unused"
          /\ \/ call' = [call EXCEPT ![t].id = x, ![t].sse = "connect"]
             \/ Goto(t, "release") /\ UNCHANGED call
    BY <1>1 DEF ExecAccepted
  <2>2. call'[t].id = x \/ (call'[t] = call[t] /\ pc'[t] = "release")
    BY <1>0, <2>1 DEF Goto, CallType
  <2>. QED  BY <1>1, <2>1, <2>2 DEF WritingPcs
<1>2. CASE StreamStep(t)
  <2>1. call[t].id \in Exec /\ call'[t].id = call[t].id
    <3>1. CASE StreamTerminal(t)
      BY <1>0, <3>1 DEF StreamTerminal, CallType, InHand
    <3>. QED  BY <1>2, <3>1, StreamCall DEF Same
  <2>2. UNCHANGED pc \/ pc[t] = "stream"
    <3>1. CASE StreamTerminal(t)
      BY <3>1 DEF StreamTerminal
    <3>. QED  BY <1>2, <3>1, StreamCall
  <2>3. ~ RecordExecution(t)
    BY <1>0, <2>2 DEF RecordExecution, Goto
  <2>. QED  BY <2>1, <2>2, <2>3 DEF WritingPcs
<1>3. CASE FinishKill(t)
  <2>1. \A x : [call[t] EXCEPT !.result = x].id = call[t].id
    BY <1>0 DEF CallType
  <2>2. \E x : call' = [call EXCEPT ![t] = [call[t] EXCEPT !.result = x]]
    BY <1>3 DEF FinishKill
  <2>3. pc[t] = "finish"
    BY <1>3 DEF FinishKill
  <2>. QED  BY <1>0, <2>1, <2>2, <2>3 DEF WritingPcs, RecordExecution
<1>4. CASE RecordExecution(t)
  <2>1. call'[t] = call[t] /\ pc'[t] \notin WritingPcs
    BY <1>0, <1>4 DEF RecordExecution, Goto, WritingPcs
  <2>. QED  BY <2>1
<1>5. CASE Return(t)
  BY <1>0, <1>5, Labels DEF Return, NoCall
<1>6. CASE ExecGate(t) \/ ExecBusy(t) \/ ExecRefused(t) \/ ReleaseBusy(t) \/ FinishError(t)
  BY <1>0, <1>5, <1>6 DEF ExecGate, ExecBusy, ExecRefused, ReleaseBusy, FinishError, Goto, WritingPcs
<1>7. CASE CreateStep(t)
  BY <1>0, <1>5, <1>7 DEF CreateStep, CreateContainer, CreateReady, CreateGivesUp, CreateFailed, CreateCommit,
     CreateUndo, Goto, WritingPcs
<1>8. CASE DestroyStep(t)
  BY <1>0, <1>5, <1>8 DEF DestroyStep, ArchiveStep, ArchiveBegin, ArchiveEnd, ArchiveFails, ArchiveError,
     StopContainer, RemoveContainer, RemoveFails, RemoveFailed, Destroyed, Goto, WritingPcs
<1>9. CASE Crash
  BY <1>9, Labels DEF Crash, NoCall
<1>10. ASSUME NEW s \in Sandbox, Begins(t, s), call'[t] = call[t]
       PROVE  pc'[t] \notin WritingPcs
  BY <1>0, <1>10 DEF Begins, NewCall, CreateInsert, ExecRead, DestroyRead, BeginDestroy, Goto, WritingPcs
<1>11. CASE pc'[t] = pc[t] /\ call'[t] = call[t]
  <2>1. RecordExecution(t) => pc'[t] \notin WritingPcs
    BY <1>0 DEF RecordExecution, Goto, WritingPcs
  <2>. QED  BY <1>11, <2>1
<1>. QED
  BY <1>1, <1>2, <1>3, <1>4, <1>6, <1>7, <1>8, <1>9, <1>10, <1>11, NextThread DEF ThreadStep, ExecStep

LEMMA OnceStep ==
  ASSUME TypeOK, InHand, GateInv, SlotOk, RunInv, OnceInv, [Next]_vars
  PROVE  OnceInv'
<1>0. /\ \A e \in Exec : RunLife(e)
      /\ ExecutionMoves
      /\ execution \in [Exec -> Outcomes \cup {"none"}] /\ "none" \notin Outcomes
      /\ TypeOK' /\ InHand'
  BY NextAgent, EveryRunLives, NextExecution, NextType DEF TypeOK, DbTypeOK, Outcomes
<1>1. SlotLive'
  BY SlotLiveStep DEF OnceInv
<1>2. OneCallEach'
  <2> SUFFICES ASSUME NEW t \in Thread, NEW u \in Thread, t # u, call'[t].id \in Exec, call'[u].id = call'[t].id
               PROVE  FALSE
    BY DEF OneCallEach
  <2>1. ASSUME NEW v \in Thread, call[v].id \in Exec
        PROVE  run[call[v].id].phase # "unused"
    BY <2>1 DEF RunInv, CallOk
  <2>2. ~ (ExecAccepted(t) /\ ExecAccepted(u))
    <3>0. ExecAccepted(t) => ThreadStep(t)
      BY DEF ThreadStep, ExecStep
    <3>1. ExecAccepted(t) => pc'[u] = pc[u]
      BY <3>0, ThreadOthers
    <3>2. ExecAccepted(u) => pc[u] = "exec_post"
      BY DEF ExecAccepted
    <3>3. ExecAccepted(u) => pc'[u] \in {"stream", "release"}
      BY DEF ExecAccepted, Goto, TypeOK, ThreadTypeOK
    <3>. QED  BY <3>1, <3>2, <3>3
  <2>. QED  BY <2>1, <2>2, CallOfRun DEF OnceInv, OneCallEach
<1>3. ASSUME NEW t \in Thread, pc'[t] \in WritingPcs
      PROVE  execution'[call'[t].id] = "none"
  <2>0. call'[t].id \in Exec
    BY <1>0, <1>3 DEF InHand, WritingPcs
  <2>1. CASE ExecAccepted(t) /\ run[call'[t].id].phase = "unused"
    <3>1. UNCHANGED execution
      BY <2>1 DEF ExecAccepted, dbVars
    <3>. QED  BY <2>0, <2>1, <3>1 DEF OnceInv
  <2>2. CASE call'[t].id = call[t].id /\ pc[t] \in WritingPcs /\ ~ RecordExecution(t)
    <3>1. execution[call[t].id] = "none"
      BY <2>2 DEF OnceInv
    <3>2. ASSUME NEW u \in Thread, RecordExecution(u), call[u].id \in Exec
          PROVE  execution'[call[t].id] = "none"
      <4>1. call[u].id # call[t].id
        BY <2>0, <2>2, <3>2 DEF OnceInv, OneCallEach
      <4>. QED  BY <1>0, <2>0, <2>2, <3>1, <3>2, <4>1 DEF RecordExecution
    <3>3. ~ RecordRestarted
      BY <2>2 DEF RecordRestarted, InHand, GateInv, ReconcileAlone, WritingPcs
    <3>. QED  BY <1>0, <2>2, <3>1, <3>2, <3>3 DEF ExecutionMoves
  <2>. QED  BY <1>3, <2>0, <2>1, <2>2, CallOfRun
<1>4. ASSUME NEW e \in Exec, run'[e].phase = "unused"
      PROVE  execution'[e] = "none"
  <2>1. run[e].phase = "unused" /\ execution[e] = "none"
    BY <1>0, <1>4 DEF RunLife, OnceInv
  <2>2. ASSUME NEW t \in Thread, RecordExecution(t), call[t].id \in Exec
        PROVE  call[t].id # e
    BY <2>1, <2>2 DEF RunInv, CallOk
  <2>3. ASSUME RecordRestarted, look.id \in Exec
        PROVE  look.id # e
    BY <2>1, <2>3 DEF OnceInv, RecordRestarted
  <2>. QED  BY <1>0, <2>1, <2>2, <2>3 DEF ExecutionMoves, RecordExecution, RecordRestarted
<1>5. ASSUME NEW e \in Exec, execution'[e] \in {"completed", "timeout"}
      PROVE  run'[e].phase = "over"
  <2>1. run[e].phase = "over"
    BY <1>0, <1>5, ExecutionLasts DEF OnceInv
  <2>. QED  BY <1>0, <2>1 DEF RunLife
<1>6. ASSUME look'.step \in {"act", "record"}, look'.id \in Exec
      PROVE  run'[look'.id].phase # "unused" /\ execution'[look'.id] \notin {"completed", "timeout"}
  <2>1. ~ (\E t \in Thread : ThreadStep(t)) /\ ~ RecordRestarted
    <3>1. RecordRestarted => look'.step = "release"
      BY DEF RecordRestarted, TypeOK, CpTypeOK, LookType
    <3>. QED  BY <1>6, <3>1, LookMoves
  <2>2. UNCHANGED execution
    BY <1>0, <2>1 DEF ExecutionMoves, ThreadStep, ExecStep
  <2>3. CASE look.step \in {"act", "record"} /\ look'.id = look.id
    BY <1>0, <1>6, <2>2, <2>3, RunLasts DEF OnceInv
  <2>4. ASSUME NEW s \in Sandbox, look'.id = slot[s], UNCHANGED run
        PROVE  run'[look'.id].phase # "unused" /\ execution'[look'.id] \notin {"completed", "timeout"}
    BY <1>6, <2>2, <2>4 DEF OnceInv, SlotLive
  <2>. QED  BY <1>6, <2>1, <2>3, <2>4, LookMoves
<1>. QED  BY <1>1, <1>2, <1>3, <1>4, <1>5, <1>6 DEF OnceInv

(* A row of the executions table is written once.  The one exception is a  *)
(* "failed" nobody knew the end of when the process died, over which       *)
(* reconcile writes the kill it has sent: no call writes over another, or  *)
(* over its own record, and a result an agent reported is never replaced,  *)
(* by an upsert that would allow it all (db/executions.ts:77-100).         *)
THEOREM ResultsAreWrittenOnce ==
  Spec => [][\A e \in Exec :
               execution[e] # "none" /\ execution'[e] # execution[e] =>
                 execution[e] = "failed" /\ execution'[e] = "killed" /\ RecordRestarted]_vars
<1> DEFINE A == \A e \in Exec :
               execution[e] # "none" /\ execution'[e] # execution[e] =>
                 execution[e] = "failed" /\ execution'[e] = "killed" /\ RecordRestarted
<1>1. Init => OnceInv
  <2> SUFFICES ASSUME Init PROVE OnceInv
    OBVIOUS
  <2>1. SlotLive
    BY ExecAssumption DEF Init, SlotLive
  <2>2. \A t \in Thread : call[t].id \notin Exec /\ pc[t] \notin WritingPcs
    BY Labels DEF Init, NoCall, WritingPcs
  <2>3. look.step = "none"
    BY DEF Init, NoLook
  <2>. QED  BY <2>1, <2>2, <2>3 DEF Init, OnceInv, OneCallEach
<1>2. TypeOK /\ InHand /\ GateInv /\ SlotOk /\ RunInv /\ OnceInv /\ [Next]_vars => OnceInv'
  BY OnceStep
<1>3. TypeOK /\ InHand /\ SlotOk /\ RunInv /\ OnceInv /\ [Next]_vars => A
  <2> SUFFICES ASSUME TypeOK, InHand, RunInv, OnceInv, [Next]_vars,
                      NEW e \in Exec, execution[e] # "none", execution'[e] # execution[e]
               PROVE  execution[e] = "failed" /\ execution'[e] = "killed" /\ RecordRestarted
    OBVIOUS
  <2>0. execution \in [Exec -> Outcomes \cup {"none"}]
    BY DEF TypeOK, DbTypeOK
  <2>1. ASSUME NEW t \in Thread, RecordExecution(t), call[t].id \in Exec
        PROVE  FALSE
    <3>1. execution[call[t].id] = "none"
      BY <2>1 DEF RecordExecution, OnceInv, WritingPcs
    <3>. QED  BY <2>0, <2>1, <3>1 DEF RecordExecution
  <2>2. CASE RecordRestarted /\ look.id \in Exec
    <3>1. e = look.id /\ execution'[e] = "killed" /\ look.step = "record"
      BY <2>0, <2>2 DEF RecordRestarted
    <3>2. execution[e] \notin {"completed", "timeout"}
      BY <2>2, <3>1 DEF OnceInv
    <3>. QED  BY <2>0, <2>2, <3>1, <3>2 DEF Outcomes
  <2>. QED  BY <2>1, <2>2, NextExecution DEF ExecutionMoves
<1>4. GateInv <=> ReconcileAlone /\ HolderKeepsRow /\ GateExclusive
  BY DEF GateInv
<1> HIDE DEF A
<1>5. Spec => [][A]_vars
  BY <1>1, <1>2, <1>3, <1>4, TypeCorrect, Gate, SlotInductive, RunInvInductive, PTL DEF Spec
<1>. QED  BY <1>5 DEF A

=============================================================================
