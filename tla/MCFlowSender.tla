---------------------------- MODULE MCFlowSender ----------------------------
(* Model values for checking FlowSender with TLC. *)
EXTENDS FlowSender

MCStreams == {1, 3}
MCIncrements == {1, 3}
MCSizes == {0, 1, 4}
MCReasons == {"closed", "reset"}
MCWants == {2}
=============================================================================
