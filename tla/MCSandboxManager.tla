------------------------- MODULE MCSandboxManager -------------------------
(* Small instances of SandboxManager for TLC. *)
EXTENDS SandboxManager, TLC

CallersAndExecs == Permutations(Caller) \cup Permutations(Exec)
=============================================================================
