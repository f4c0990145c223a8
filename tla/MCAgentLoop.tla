---------------------------- MODULE MCAgentLoop ----------------------------
(* A small instance of AgentLoop for TLC. *)
EXTENDS AgentLoop

\* A file without a mark, and one whose first line begins with a mark.
Plain == [start |-> <<0, 4>>, boms |-> {}]
Marked == [start |-> <<0, 5>>, boms |-> {1}]

MCFiles == {Plain, Marked}
=============================================================================
