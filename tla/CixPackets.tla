----------------------------- MODULE CixPackets -----------------------------
(***************************************************************************)
(* How packets travel (asg4/code/protocol.cpp, sockets.cpp): send_packet   *)
(* and recv_packet are loops over send and recv, which move as many bytes  *)
(* as the kernel's buffer of the connection has room for, or has.  Cix     *)
(* takes a whole packet as one step; this module is why it may.            *)
(*                                                                         *)
(* Each end is one process with one thread, so it is in one call at a      *)
(* time.  A call that throws ends its program, whose sockets the operating *)
(* system closes.                                                          *)
(***************************************************************************)
EXTENDS CixProtocol

CONSTANTS
  Client, Server,   \* the two ends of the connection
  Packets,          \* what send_packet is called with
  Sizes,            \* the sizes recv_packet is called with
  Capacity          \* bytes the kernel holds in each direction

ASSUME EndsAssumption == Client # Server
ASSUME PacketsAssumption == Packets \subseteq Seq(Byte)
ASSUME SizesAssumption == Sizes \subseteq Nat
ASSUME CapacityAssumption == Capacity \in Nat \ {0}

Ends == {Client, Server}
Peer(e) == IF e = Client THEN Server ELSE Client

VARIABLES
  pc,       \* where each end is
  link,     \* whether the kernels have a connection
  unsent,   \* what bufptr and ntosend of send_packet stand for
  wire,     \* bytes sent to each end that it has not received
  buffer,   \* the buffer that recv_packet fills
  fill      \* how far bufptr has got in it

vars == << pc, link, unsent, wire, buffer, fill >>

PC == {"new", "created", "idle", "send", "recv", "closed"}

Init ==
  /\ pc = [e \in Ends |-> "new"]
  /\ link = "down"
  /\ unsent = [e \in Ends |-> << >>]
  /\ wire = [e \in Ends |-> << >>]
  /\ buffer = [e \in Ends |-> << >>]
  /\ fill = [e \in Ends |-> 0]

Open(e) == pc[e] # "closed"

\* The program ends: an exception, the destructor of its socket, a signal.
\* What it has not received is lost, and so is what it has not sent.
close(e) ==
  /\ Open(e)
  /\ pc' = [pc EXCEPT ![e] = "closed"]
  /\ unsent' = [unsent EXCEPT ![e] = << >>]
  /\ wire' = [wire EXCEPT ![e] = << >>]
  /\ buffer' = [buffer EXCEPT ![e] = << >>]
  /\ fill' = [fill EXCEPT ![e] = 0]
  /\ UNCHANGED link

-----------------------------------------------------------------------------
(* The constructors of the sockets *)

\* create and connect of a client_socket; either may throw, which is close.
create ==
  /\ pc[Client] = "new"
  /\ pc' = [pc EXCEPT ![Client] = "created"]
  /\ UNCHANGED << link, unsent, wire, buffer, fill >>

\* The listening kernel queues the connection before the server accepts it.
connect ==
  /\ pc[Client] = "created" /\ Open(Server)
  /\ pc' = [pc EXCEPT ![Client] = "idle"]
  /\ link' = "up"
  /\ UNCHANGED << unsent, wire, buffer, fill >>

\* Also of a connection whose client has come and gone.
accept ==
  /\ pc[Server] = "new" /\ link = "up"
  /\ pc' = [pc EXCEPT ![Server] = "idle"]
  /\ UNCHANGED << link, unsent, wire, buffer, fill >>

-----------------------------------------------------------------------------
(* send_packet *)

send_packet(e, packet) ==
  /\ pc[e] = "idle"
  /\ pc' = [pc EXCEPT ![e] = "send"]
  /\ unsent' = [unsent EXCEPT ![e] = packet]
  /\ UNCHANGED << link, wire, buffer, fill >>

\* Mutant: no loop, as if send always took all it is given.
send_once(e) ==
  /\ pc[e] = "send"
  /\ \E k \in 0 .. Len(unsent[e]) :
       /\ k = 0 => unsent[e] = << >>
       /\ unsent' = [unsent EXCEPT ![e] = << >>]
       /\ Open(Peer(e)) => Len(wire[Peer(e)]) + k <= Capacity
       /\ wire' = IF Open(Peer(e))
                    THEN [wire EXCEPT ![Peer(e)] = @ \o Taken(unsent[e], k)]
                    ELSE wire
  /\ pc' = [pc EXCEPT ![e] = "idle"]
  /\ UNCHANGED << link, buffer, fill >>

\* One turn of the loop.  send returns 0 only when it is given no bytes; what
\* it takes for a peer that is gone is lost.
send(e) ==
  /\ pc[e] = "send"
  /\ \E k \in 0 .. Len(unsent[e]) :
       /\ k = 0 => unsent[e] = << >>
       /\ unsent' = [unsent EXCEPT ![e] = Left(@, k)]
       /\ \/ /\ Open(Peer(e))
             /\ Len(wire[Peer(e)]) + k <= Capacity
             /\ wire' = [wire EXCEPT ![Peer(e)] = @ \o Taken(unsent[e], k)]
          \/ ~ Open(Peer(e)) /\ wire' = wire
       /\ pc' = [pc EXCEPT ![e] = IF k = Len(unsent[e]) THEN "idle" ELSE "send"]
  /\ UNCHANGED << link, buffer, fill >>

\* EPIPE or ECONNRESET, once the peer is known to be gone.
send_throws(e) == pc[e] = "send" /\ ~ Open(Peer(e)) /\ close(e)

-----------------------------------------------------------------------------
(* recv_packet *)

recv_packet(e, size) ==
  /\ pc[e] = "idle"
  /\ pc' = [pc EXCEPT ![e] = "recv"]
  /\ buffer' = [buffer EXCEPT ![e] = Zeros(size)]
  /\ fill' = [fill EXCEPT ![e] = 0]
  /\ UNCHANGED << link, unsent, wire >>

\* Mutant: recv clears the buffer from its start.
Filled_from_start(b, n, bytes) ==
  [i \in 1 .. Len(b) |-> IF i <= n THEN 0
                         ELSE IF i <= n + Len(bytes) THEN bytes[i - n] ELSE 0]
\* The buffer after its first n bytes were kept, and bytes put behind them.
Filled(b, n, bytes) ==
  [i \in 1 .. Len(b) |-> IF i <= n THEN b[i]
                         ELSE IF i <= n + Len(bytes) THEN bytes[i - n] ELSE 0]

\* Mutant: every turn asks for bufsize bytes.
recv_overruns(e) ==
  /\ pc[e] = "recv" /\ fill[e] < Len(buffer[e])
  /\ \E k \in 1 .. Len(wire[e]) :
       /\ k <= Len(buffer[e])
       /\ buffer' = [buffer EXCEPT ![e] = Filled(@, fill[e], Taken(wire[e], k))]
       /\ fill' = [fill EXCEPT ![e] = @ + k]
       /\ wire' = [wire EXCEPT ![e] = Left(@, k)]
  /\ UNCHANGED << pc, link, unsent >>

\* One turn of the loop: recv clears the rest of the buffer and fills some of it.
recv(e) ==
  /\ pc[e] = "recv"
  /\ \E k \in 1 .. Len(wire[e]) :
       /\ fill[e] + k <= Len(buffer[e])
       /\ buffer' = [buffer EXCEPT ![e] = Filled(@, fill[e], Taken(wire[e], k))]
       /\ fill' = [fill EXCEPT ![e] = @ + k]
       /\ wire' = [wire EXCEPT ![e] = Left(@, k)]
  /\ UNCHANGED << pc, link, unsent >>

\* The loop ends and the packet is the caller's.
recv_returns(e) ==
  /\ pc[e] = "recv" /\ fill[e] > 0 /\ fill[e] = Len(buffer[e])
  /\ pc' = [pc EXCEPT ![e] = "idle"]
  /\ buffer' = [buffer EXCEPT ![e] = << >>]
  /\ fill' = [fill EXCEPT ![e] = 0]
  /\ UNCHANGED << link, unsent, wire >>

\* Mutant: 0 bytes are taken for a short read.
recv_closed_missed(e) == Len(buffer[e]) = 0 /\ pc[e] = "recv" /\ close(e)

\* recv returns 0, "is closed": the stream has ended, or no bytes were wanted.
recv_closed(e) ==
  /\ pc[e] = "recv"
  /\ \/ fill[e] < Len(buffer[e]) /\ wire[e] = << >> /\ ~ Open(Peer(e))
     \/ Len(buffer[e]) = 0
  /\ close(e)

\* A peer that ends with bytes it has not read resets the connection, and what
\* it sent before is lost with it; so is what a broken network was carrying.
reset(e) ==
  /\ Open(e) /\ ~ Open(Peer(e)) /\ link = "up"
  /\ \E n \in 0 .. Len(wire[e]) : wire' = [wire EXCEPT ![e] = Taken(@, n)]
  /\ UNCHANGED << pc, link, unsent, buffer, fill >>

-----------------------------------------------------------------------------

Returns(e) == send(e) \/ send_throws(e) \/ recv(e) \/ recv_returns(e) \/ recv_closed(e)

Next ==
  \/ create \/ connect \/ accept
  \/ \E e \in Ends :
       \/ \E packet \in Packets : send_packet(e, packet)
       \/ \E size \in Sizes : recv_packet(e, size)
       \/ Returns(e) \/ reset(e) \/ close(e)

\* A call goes on when the kernel lets it, but for the recv of no bytes, which
\* a kernel may keep waiting.  No program need make a call.
Waits(e) == pc[e] = "recv" /\ buffer[e] = << >>
Fairness == \A e \in Ends : WF_vars(Returns(e) /\ ~ Waits(e))

Spec == Init /\ [][Next]_vars /\ Fairness

-----------------------------------------------------------------------------
(* Properties *)

\* Every variable has its type, the kernel holds no more than it can, and a
\* program holds a part of a packet only inside the call that moves it
\* (protocol.cpp:30, 41).
TypeOK ==
  /\ pc \in [Ends -> PC] /\ link \in {"down", "up"}
  /\ unsent \in [Ends -> Seq(Byte)] /\ wire \in [Ends -> Seq(Byte)]
  /\ buffer \in [Ends -> Seq(Byte)] /\ fill \in [Ends -> Nat]
  /\ \A e \in Ends :
       /\ Len(wire[e]) <= Capacity
       /\ fill[e] <= Len(buffer[e])
       /\ pc[e] # "send" => unsent[e] = << >>
       /\ pc[e] # "recv" => buffer[e] = << >>
       /\ ~ Open(e) => wire[e] = << >>

\* The direction to e: the bytes of the packet being sent count as sent, and
\* those of the packet being received as not yet received.
Bytes(e) == Taken(buffer[e], fill[e]) \o wire[e] \o unsent[Peer(e)]
State(e) == IF Open(e) THEN "open" ELSE "closed"
Unreceived(e) == IF Open(e) THEN Bytes(e) ELSE << >>
Requests == INSTANCE CixStream WITH
  stream <- Unreceived(Server), sender <- State(Client), receiver <- State(Server)
Replies == INSTANCE CixStream WITH
  stream <- Unreceived(Client), sender <- State(Server), receiver <- State(Client)

\* In both directions packets are sent and received whole and in order, in
\* however many pieces they travel (protocol.cpp:27-50).
ImplementsStreams == Requests!Spec /\ Replies!Spec

\* A packet that was sent, or is being sent, is received: a recv_packet that
\* waits for no more than that returns or finds its peer gone.
PacketArrives ==
  \A e \in Ends :
    (pc[e] = "recv" /\ 0 < Len(buffer[e]) /\ Len(buffer[e]) <= Len(Bytes(e)))
      ~> pc[e] # "recv"

\* An end whose peer has gone does not go on receiving for ever
\* (protocol.cpp:45, "is closed").
EndNoticed ==
  \A e \in Ends :
    (<>(~ Open(Peer(e))) /\ []<>(pc[e] = "recv" /\ Len(buffer[e]) > 0))
      => <>(~ Open(e))
=============================================================================
