---------------------------- MODULE MCCixPayload ----------------------------
(* Instances of Cix in which puts have payloads. *)
EXTENDS CixProperties

CONSTANTS c1, c2

\* File names are single bytes above the command codes.
Slash == 12      \* a name with a slash; its payload is one byte
Five == 13       \* five bytes: the low byte of its length is the code of PUT
Block == 14      \* Radix bytes: read short, the rest stays in the stream
Mirror == 15     \* Radix + 1 bytes: a length that reads the same both ways

McInitFiles == Block :> << 11 >>
McInitLocal ==
  Slash :> << 11 >> @@ Five :> [i \in 1 .. 5 |-> 11]
    @@ Block :> [i \in 1 .. 16 |-> 11] @@ Mirror :> [i \in 1 .. 17 |-> 11]
McMenu ==
  {<< GET, Block >>} \cup ({PUT} \X {Slash, Five, Block, Mirror})
=============================================================================
