--------------------------- MODULE MCCixListener ---------------------------
(* Instances of CixListener: a daemon and the connections k1, k2, k3. *)
EXTENDS CixListener

CONSTANTS k1, k2, k3
=============================================================================
