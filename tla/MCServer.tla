------------------------------ MODULE MCServer ------------------------------
(* Model values for checking Server with TLC. *)
EXTENDS Server

CONSTANTS l1, c1, c2

MCListeners == {l1}
MCConns == {c1, c2}
=============================================================================
