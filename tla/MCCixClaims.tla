---------------------------- MODULE MCCixClaims ----------------------------
(* Small instances of Cix in which a claim of the protocol's text fails. *)
EXTENDS CixProperties

CONSTANTS c1, c2

Data == 11
Block == 14

McServerData == Data :> << 14, 15 >>
McNoFiles == << >>
McLocalBlock == Block :> [i \in 1 .. 16 |-> 11]
McLocalEmpty == Data :> << >>
McPutBlock == {<< PUT, Block >>}
McGetPut == {<< GET, Data >>, << PUT, Data >>}
=============================================================================
