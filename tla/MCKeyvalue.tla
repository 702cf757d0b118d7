---------------------------- MODULE MCKeyvalue ----------------------------
(* Bounds for keyvalue.cfg: a name between two reads of cin, and a name twice. *)
EXTENDS Keyvalue

McCommandLines == {<<>>, <<"-", "a", "-">>, <<"a", "b">>, <<"b", "b">>}
=============================================================================
