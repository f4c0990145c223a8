---------------------------- MODULE SandboxRow ----------------------------
(***************************************************************************)
(* The state column of a row of the sandboxes table and the edges that     *)
(* sandbox_transition() (db/migrations/004_patch_column_dedup.sql) lets it *)
(* take.  "none" stands for a row that does not exist.                     *)
(***************************************************************************)
EXTENDS Naturals, Sequences

States == {"CREATING", "READY", "BUSY", "ERROR", "DESTROYED"}

Edges ==
  {<<"CREATING", "READY">>, <<"CREATING", "ERROR">>, <<"CREATING", "DESTROYED">>,
   <<"READY", "BUSY">>, <<"READY", "ERROR">>, <<"READY", "DESTROYED">>,
   <<"BUSY", "READY">>, <<"BUSY", "ERROR">>, <<"BUSY", "DESTROYED">>,
   <<"ERROR", "DESTROYED">>}

(* Mutant: only the caller's expectation is checked. *)
MayMove_AnyEdge(current, from, to) == current \in from

(* Both refusals of the function: the state is not one the caller expects, *)
(* or the state machine has no such edge.                                  *)
MayMove(current, from, to) ==
  /\ current \in from
  /\ <<current, to>> \in Edges

(* Mutant: a BUSY row is left to its call, which died with the process. *)
ReconcileStates_NoBusy == {"CREATING", "READY"}
(* Mutant: a failed sandbox is somebody else's business. *)
ExpirableStates_NoError == {"CREATING", "READY", "BUSY"}

(* The rows reconcile scans and the rows the sweeper may destroy.          *)
ReconcileStates == {"CREATING", "READY", "BUSY"}
ExpirableStates == {"CREATING", "READY", "BUSY", "ERROR"}

(* A trail of audit rows is a path of the state machine that starts with   *)
(* the creation and ends in the current state.                             *)
IsTrail(trail, current) ==
  /\ Len(trail) > 0
  /\ trail[1] = <<"none", "CREATING">>
  /\ trail[Len(trail)][2] = current
  /\ \A i \in 2 .. Len(trail) :
       trail[i] \in Edges /\ trail[i - 1][2] = trail[i][1]
=============================================================================
