------------------------- MODULE SandboxLifecycle -------------------------
(***************************************************************************)
(* What the database promises about a sandbox (docs/sandbox.md section D): *)
(* its state moves along the edges of the lifecycle only, one edge at a    *)
(* time, every move leaves one audit row, DESTROYED has no way out and a   *)
(* row never disappears.  SandboxManager is shown to implement this.       *)
(***************************************************************************)
EXTENDS SandboxRow

CONSTANT Sandbox

VARIABLES state,  \* the state column of each row, "none" before the INSERT
          audit   \* sandbox_state_transitions, in order

vars == <<state, audit>>

Init ==
  /\ state = [s \in Sandbox |-> "none"]
  /\ audit = [s \in Sandbox |-> <<>>]

Insert(s) ==
  /\ state[s] = "none"
  /\ state' = [state EXCEPT ![s] = "CREATING"]
  /\ audit' = [audit EXCEPT ![s] = <<<<"none", "CREATING">>>>]

Move(s, to) ==
  /\ <<state[s], to>> \in Edges
  /\ state' = [state EXCEPT ![s] = to]
  /\ audit' = [audit EXCEPT ![s] = Append(@, <<state[s], to>>)]

Next == \E s \in Sandbox : Insert(s) \/ \E to \in States : Move(s, to)

Spec == Init /\ [][Next]_vars

TypeOK ==
  /\ state \in [Sandbox -> States \cup {"none"}]
  /\ audit \in [Sandbox -> Seq((States \cup {"none"}) \X States)]

(* The audit rows of a sandbox form a path of the state machine that ends  *)
(* in its current state: the trail is the basis of every crash recovery.   *)
TrailIsPath ==
  \A s \in Sandbox : IF state[s] = "none" THEN audit[s] = <<>>
                                          ELSE IsTrail(audit[s], state[s])
=============================================================================
