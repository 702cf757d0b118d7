----------------------------- MODULE MCCixEmpty -----------------------------
(* Instances of Cix in which a put sends an empty file. *)
EXTENDS CixProperties

CONSTANTS c1, c2

\* File names are single bytes above the command codes.
Data == 11
Mark == 12
Slash == 13
Locked == 14    \* a file of another user's: neither read nor removed

McInitFiles == Data :> << 14, 15 >> @@ Locked :> << 15 >>
McInitLocal == Mark :> << >> @@ Slash :> << >>
McMenu ==
  {<< LS, 0 >>, << GET, Data >>, << PUT, Mark >>, << PUT, Slash >>,
   << RM, Data >>, << RM, Mark >>, << GET, Locked >>, << RM, Locked >>}

\* What the proofs assume of an instance in which InStep and ImplementsService
\* hold.
ASSUME McAssumption == EmptyPuts /\ DiskRoom
=============================================================================
