----------------------------- MODULE MCResponse -----------------------------
(* Values for checking Response. *)
EXTENDS Response

F(name, value) == [name |-> name, value |-> value, sensitive |-> FALSE]
Status(a, b, c) == F(pseudoStatus, <<a, b, c>>)
X == F(<<"x">>, <<"v">>)
Secret == [name |-> <<"x">>, value |-> <<"secret">>, sensitive |-> TRUE]

MCLanes == {0, 1, 3}
MCStatic == <<Status("2", "0", "0"), F(<<"y">>, <<>>)>>

\* Header sections, interim and final, with what is indexed, added and kept out; a
\* trailer section; and two that are malformed.
MCSections ==
    {<<Status("1", "0", "3")>>, <<Status("2", "0", "0"), X>>, <<Status("4", "0", "4"), Secret, X>>,
     <<X>>, <<X, Status("2", "0", "0")>>, <<Status("2", "0", "0"), F(<<"UPPER">>, <<>>)>>}

P(id, n) == [id |-> id, n |-> n]
MCSettings == {<<P("table", 3), P("list", 9)>>, <<P("table", 0)>>}
=============================================================================
