----------------------------- MODULE CixStream -----------------------------
(***************************************************************************)
(* What one direction of a connection promises to the programs that call   *)
(* send_packet and recv_packet (asg4/code/protocol.cpp): the bytes of a    *)
(* packet are queued at once and leave the queue at once, in order, none   *)
(* lost, doubled or changed, as long as both ends are open.  When the      *)
(* sender ends, the end of what it sent may be lost, never the middle.     *)
(***************************************************************************)
EXTENDS Integers, Sequences

VARIABLES
  stream,    \* the bytes sent and not yet received
  sender,    \* "open" or "closed"
  receiver

vars == << stream, sender, receiver >>

IsStart(s, t) == Len(s) <= Len(t) /\ s = SubSeq(t, 1, Len(s))

Init == stream = << >> /\ sender = "open" /\ receiver = "open"

Send ==
  /\ sender = "open" /\ receiver = "open"
  /\ IsStart(stream, stream')
  /\ UNCHANGED << sender, receiver >>

Receive ==
  /\ receiver = "open"
  /\ \E n \in 1 .. Len(stream) : stream' = SubSeq(stream, n + 1, Len(stream))
  /\ UNCHANGED << sender, receiver >>

\* The sender ends or is gone: what is on the way may lose its end.
Cut ==
  /\ sender' = "closed"
  /\ IsStart(stream', stream)
  /\ UNCHANGED receiver

\* With nobody to receive them, there are no bytes to speak of.
Leave == receiver' = "closed" /\ stream' = << >> /\ UNCHANGED sender

Next == Send \/ Receive \/ Cut \/ Leave

Spec == Init /\ [][Next]_vars
=============================================================================
