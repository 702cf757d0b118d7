------------------------------ MODULE MCYshell ------------------------------
(* Instances of Yshell for TLC. *)
EXTENDS YshellProperties

McInodes == 1 .. 4
McNames == {"a", "b"}
McEntries == {"a", "b", ".", ".."}
=============================================================================
