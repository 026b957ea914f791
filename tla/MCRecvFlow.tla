---------------------------- MODULE MCRecvFlow ----------------------------
(* Model values for checking RecvFlow with TLC. *)
EXTENDS RecvFlow

MCStreams == {1, 3}
MCOneStream == {1}
MCLargePayloads == {0, 3}
MCNoPads == {0}
MCPads == {0, 1}
MCNone == {}
MCBuffers == {2}
=============================================================================
