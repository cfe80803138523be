--------------------------- MODULE MCPurgeErrored ---------------------------
(* Names for TLC: a.b.c and a.b, and filters of these and a.                *)
EXTENDS PurgeErrored

MCQueue == {<<"a", "b", "c">>, <<"a", "b">>}
MCName == MCQueue \cup {<<"a">>}
=============================================================================
