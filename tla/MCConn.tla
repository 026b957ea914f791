------------------------------- MODULE MCConn -------------------------------
(* Frames for checking Conn with TLC. *)
EXTENDS Conn

F(type, arg) == [type |-> type, arg |-> arg]

\* One of each kind a frame's effect on the connection can be.
MCFrames == {F("settings", 0), F("settings", 1), F("settings", 2), F("ack", 0), F("ping", 0),
             F("ignored", 0), F("goaway", 0), F("illegal", 0), F("stream", 1), F("stream", 3),
             F("badStream", 3), F("illegal", 5), F("unparsable", 0), F("badPriority", 1)}
=============================================================================
