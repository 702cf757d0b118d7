------------------------- MODULE MCKeyvalueHistory -------------------------
(* Bounds for keyvalue_carried.cfg: two operands. *)
EXTENDS KeyvalueHistory

McCommandLines == {<<"a", "b">>}
=============================================================================
