--------------------------- MODULE MCFrameWriter ---------------------------
(* Model values for checking FrameWriter with TLC. *)
EXTENDS FrameWriter

F(kind, end, full) == [kind |-> kind, end |-> end, full |-> full]
Ctl == F("control", FALSE, FALSE)

MCLanes == {0, 1, 3}
MCScript == (0 :> <<Ctl, Ctl>>)
         @@ (1 :> <<F("headers", FALSE, FALSE), F("continuation", TRUE, FALSE)>>)
         @@ (3 :> <<F("headers", FALSE, FALSE), F("continuation", TRUE, FALSE),
                 F("data", FALSE, TRUE)>>)
MCCaps == {1, 2}
=============================================================================
