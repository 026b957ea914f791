---------------------------- MODULE MCScheduler ----------------------------
(* Model values for checking Scheduler with TLC. *)
EXTENDS Scheduler

MCIds == {1, 3}
MCFirst == {1}
MCOthers == {0, 3}
MCUrgencies == {0, 1}
MCDefault == [urgency |-> 1, inc |-> FALSE]
MCParams == [urgency : {0, 1}, inc : BOOLEAN]
=============================================================================
