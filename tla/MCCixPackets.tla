---------------------------- MODULE MCCixPackets ----------------------------
(* An instance of CixPackets: packets longer than what the kernel holds. *)
EXTENDS CixPackets

McPackets == {<< 1, 2, 3 >>, << 4 >>, << >>}
=============================================================================
