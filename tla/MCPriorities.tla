---------------------------- MODULE MCPriorities ----------------------------
(* Model values for checking Priorities with TLC. *)
EXTENDS Priorities

MCIds == {1, 3, 5, 7}
MCValues == {"p", "q"}
=============================================================================
