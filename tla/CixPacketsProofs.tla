-------------------------- MODULE CixPacketsProofs --------------------------
(***************************************************************************)
(* Packets over partial sends and receives implement CixStream, for any    *)
(* packets, any sizes asked for and any capacity of the kernel.            *)
(***************************************************************************)
EXTENDS CixPackets, SequenceTheorems, TLAPS

USE DEF Ends

-----------------------------------------------------------------------------
(* Streams: starts and remainders of sequences of bytes *)

\* What recv_packet takes and what it leaves are the stream it took it from.
LEMMA TakenAndLeft ==
  ASSUME NEW s \in Seq(Byte), NEW n \in 0 .. Len(s)
  PROVE  /\ Taken(s, n) \in Seq(Byte) /\ Len(Taken(s, n)) = n
         /\ Left(s, n) \in Seq(Byte) /\ Len(Left(s, n)) = Len(s) - n
         /\ Taken(s, n) \o Left(s, n) = s
         /\ \A i \in 1 .. n : Taken(s, n)[i] = s[i]
<1> USE DEF Taken, Left
<1>0. Len(s) \in Nat /\ \A i \in 1 .. Len(s) : s[i] \in Byte
  BY LenProperties, ElementOfSeq
<1>1. /\ Taken(s, n) \in Seq(Byte) /\ Len(Taken(s, n)) = n
      /\ \A i \in 1 .. n : Taken(s, n)[i] = s[i]
  BY <1>0, SubSeqProperties
<1>2. Left(s, n) \in Seq(Byte) /\ Len(Left(s, n)) = Len(s) - n
  BY <1>0, SubSeqProperties
<1>. 1 \in 1 .. Len(s) + 1 /\ n \in 1 - 1 .. Len(s) /\ Len(s) \in n .. Len(s)
  BY <1>0
<1>3. SubSeq(s, 1, n) \o SubSeq(s, n + 1, Len(s)) = SubSeq(s, 1, Len(s))
  BY ConcatAdjacentSubSeq, Zenon
<1>4. SubSeq(s, 1, Len(s)) = s
  BY SubSeqFull
<1> QED BY <1>1, <1>2, <1>3, <1>4

LEMMA Associative ==
  \A s, t, u \in Seq(Byte) : (s \o t) \o u = s \o (t \o u)
BY ConcatAssociative

\* A sequence is a start of the sequence with more behind it.
LEMMA StartOfConcat ==
  ASSUME NEW s \in Seq(Byte), NEW t \in Seq(Byte)
  PROVE  /\ Requests!IsStart(s, s \o t) /\ Replies!IsStart(s, s \o t)
         /\ SubSeq(s \o t, Len(s) + 1, Len(s \o t)) = t
<1>0. Len(s) \in Nat /\ Len(t) \in Nat
  BY LenProperties
<1>1. s \o t \in Seq(Byte) /\ Len(s \o t) = Len(s) + Len(t)
  BY ConcatProperties
<1>2. /\ SubSeq(s \o t, 1, Len(s)) \in Seq(Byte)
      /\ Len(SubSeq(s \o t, 1, Len(s))) = Len(s)
      /\ \A i \in 1 .. Len(s) : SubSeq(s \o t, 1, Len(s))[i] = (s \o t)[i]
  BY <1>0, <1>1, TakenAndLeft DEF Taken
<1>3. \A i \in 1 .. Len(s) : (s \o t)[i] = s[i]
  BY <1>0, ConcatProperties
<1>4. SubSeq(s \o t, 1, Len(s)) = s
  BY <1>2, <1>3, SeqEqual
<1>5. Requests!IsStart(s, s \o t) /\ Replies!IsStart(s, s \o t)
  BY <1>0, <1>1, <1>4 DEF Requests!IsStart, Replies!IsStart
<1> DEFINE rest == SubSeq(s \o t, Len(s) + 1, Len(s \o t))
<1>6. rest \in Seq(Byte) /\ s \o rest = s \o t
  BY <1>0, <1>1, <1>4, TakenAndLeft DEF Taken, Left
<1>7. rest = t
  BY <1>6, ConcatSimplifications
<1> QED BY <1>5, <1>7

\* A turn of the loop of recv_packet: the bytes that are put in the buffer are
\* those that leave the stream.
LEMMA FilledTaken ==
  ASSUME NEW b \in Seq(Byte), NEW n \in 0 .. Len(b),
         NEW w \in Seq(Byte), NEW k \in 1 .. Len(w), n + k <= Len(b)
  PROVE  LET c == Filled(b, n, Taken(w, k)) IN
         /\ c \in Seq(Byte) /\ Len(c) = Len(b)
         /\ Taken(c, n + k) = Taken(b, n) \o Taken(w, k)
<1> DEFINE c == Filled(b, n, Taken(w, k))
<1>0. Len(b) \in Nat /\ Len(w) \in Nat /\ 0 \in Byte
  BY LenProperties, RadixAssumption DEF Byte
<1>1. /\ Taken(w, k) \in Seq(Byte) /\ Len(Taken(w, k)) = k
      /\ \A i \in 1 .. k : Taken(w, k)[i] = w[i]
  BY <1>0, TakenAndLeft
<1>2. /\ Taken(b, n) \in Seq(Byte) /\ Len(Taken(b, n)) = n
      /\ \A i \in 1 .. n : Taken(b, n)[i] = b[i]
  BY <1>0, TakenAndLeft
<1>3. \A i \in 1 .. Len(b) : b[i] \in Byte
  BY ElementOfSeq
<1>4. \A i \in 1 .. k : Taken(w, k)[i] \in Byte
  BY <1>1, ElementOfSeq
<1>5. \A i \in 1 .. Len(b) :
        (IF i <= n THEN b[i]
         ELSE IF i <= n + Len(Taken(w, k)) THEN Taken(w, k)[i - n] ELSE 0) \in Byte
  BY <1>0, <1>1, <1>3, <1>4
<1>6. c \in [1 .. Len(b) -> Byte]
  BY <1>5 DEF Filled
<1>7. c \in Seq(Byte) /\ Len(c) = Len(b)
  BY <1>0, <1>6
<1>8. /\ Taken(c, n + k) \in Seq(Byte) /\ Len(Taken(c, n + k)) = n + k
      /\ \A i \in 1 .. n + k : Taken(c, n + k)[i] = c[i]
  BY <1>0, <1>7, TakenAndLeft
<1>9. /\ Taken(b, n) \o Taken(w, k) \in Seq(Byte)
      /\ Len(Taken(b, n) \o Taken(w, k)) = n + k
      /\ \A i \in 1 .. n + k : (Taken(b, n) \o Taken(w, k))[i]
           = IF i <= n THEN Taken(b, n)[i] ELSE Taken(w, k)[i - n]
  <2> HIDE DEF c
  <2> DEFINE s == Taken(b, n)
             t == Taken(w, k)
  <2>1. /\ s \o t \in Seq(Byte)
        /\ Len(s \o t) = Len(s) + Len(t)
        /\ \A i \in 1 .. Len(s) + Len(t) :
             (s \o t)[i] = IF i <= Len(s) THEN s[i] ELSE t[i - Len(s)]
    BY <1>1, <1>2, ConcatProperties
  <2>2. Len(s) = n /\ Len(t) = k
    BY <1>1, <1>2
  <2> HIDE DEF s, t
  <2>3. /\ Len(s \o t) = n + k
        /\ \A i \in 1 .. n + k :
             (s \o t)[i] = IF i <= n THEN s[i] ELSE t[i - n]
    BY <2>1, <2>2
  <2> QED BY <2>1, <2>3 DEF s, t
<1>10. \A i \in 1 .. n + k :
         c[i] = IF i <= n THEN b[i] ELSE Taken(w, k)[i - n]
  BY <1>0, <1>1 DEF Filled
<1>11. \A i \in 1 .. n + k : Taken(c, n + k)[i] = (Taken(b, n) \o Taken(w, k))[i]
  <2> HIDE DEF c
  <2> TAKE i \in 1 .. n + k
  <2>1. /\ (Taken(b, n) \o Taken(w, k))[i]
             = (IF i <= n THEN Taken(b, n)[i] ELSE Taken(w, k)[i - n])
        /\ c[i] = (IF i <= n THEN b[i] ELSE Taken(w, k)[i - n])
        /\ Taken(c, n + k)[i] = c[i]
    BY <1>8, <1>9, <1>10
  <2>2. i <= n => Taken(b, n)[i] = b[i]
    BY <1>2
  <2> QED BY <2>1, <2>2
<1>12. Taken(c, n + k) = Taken(b, n) \o Taken(w, k)
  BY <1>8, <1>9, <1>11, SeqEqual
<1> QED BY <1>7, <1>12
-----------------------------------------------------------------------------
(* Types *)

LEMMA PeerOfPeer ==
  ASSUME NEW e \in Ends
  PROVE  Peer(e) \in Ends /\ Peer(e) # e /\ Peer(Peer(e)) = e
BY EndsAssumption DEF Peer

\* What close does to the end that closes.
LEMMA CloseTypes ==
  ASSUME TypeOK, NEW e \in Ends, close(e)
  PROVE  TypeOK'
BY EmptySeq, CapacityAssumption DEF TypeOK, close, Open, PC

LEMMA TypeInit == Init => TypeOK
BY EmptySeq, CapacityAssumption DEF Init, TypeOK, PC, Open

LEMMA TypeStep == TypeOK /\ [Next]_vars => TypeOK'
<1> SUFFICES ASSUME TypeOK, [Next]_vars PROVE TypeOK'
  OBVIOUS
<1>1. CASE create \/ connect \/ accept
  BY <1>1 DEF create, connect, accept, TypeOK, PC, Open
<1>2. ASSUME NEW e \in Ends, NEW packet \in Packets, send_packet(e, packet)
      PROVE  TypeOK'
  BY <1>2, PacketsAssumption DEF send_packet, TypeOK, PC, Open
<1>3. ASSUME NEW e \in Ends, NEW size \in Sizes, recv_packet(e, size)
      PROVE  TypeOK'
  <2>1. size \in Nat /\ 0 \in Byte
    BY SizesAssumption, RadixAssumption DEF Byte
  <2>2. Zeros(size) \in [1 .. size -> Byte]
    BY <2>1 DEF Zeros
  <2>3. Zeros(size) \in Seq(Byte) /\ Len(Zeros(size)) = size
    BY <2>1, <2>2
  <2> QED BY <1>3, <2>1, <2>3 DEF recv_packet, TypeOK, PC, Open
<1>4. ASSUME NEW e \in Ends, send(e)
      PROVE  TypeOK'
  <2>1. PICK k \in 0 .. Len(unsent[e]) :
          /\ k = 0 => unsent[e] = << >>
          /\ unsent' = [unsent EXCEPT ![e] = Left(@, k)]
          /\ \/ /\ Open(Peer(e))
                /\ Len(wire[Peer(e)]) + k <= Capacity
                /\ wire' = [wire EXCEPT ![Peer(e)] = @ \o Taken(unsent[e], k)]
             \/ ~ Open(Peer(e)) /\ wire' = wire
          /\ pc' = [pc EXCEPT ![e] = IF k = Len(unsent[e]) THEN "idle" ELSE "send"]
    BY <1>4 DEF send
  <2> DEFINE u == unsent[e]
             w == wire[Peer(e)]
  <2>2. u \in Seq(Byte) /\ w \in Seq(Byte) /\ Len(u) \in Nat /\ Len(w) \in Nat
    BY PeerOfPeer, LenProperties DEF TypeOK
  <2>3. /\ Taken(u, k) \in Seq(Byte) /\ Len(Taken(u, k)) = k
        /\ Left(u, k) \in Seq(Byte) /\ Len(Left(u, k)) = Len(u) - k
    BY <2>2, TakenAndLeft
  <2>4. w \o Taken(u, k) \in Seq(Byte) /\ Len(w \o Taken(u, k)) = Len(w) + k
    <3> DEFINE t == Taken(u, k)
    <3>1. t \in Seq(Byte) /\ Len(t) = k
      BY <2>3
    <3> HIDE DEF t, u, w
    <3>2. w \o t \in Seq(Byte) /\ Len(w \o t) = Len(w) + Len(t)
      BY <2>2, <3>1, ConcatProperties
    <3> QED BY <3>1, <3>2 DEF t
  <2>5. k = Len(u) => Left(u, k) = << >>
    BY <2>2, <2>3, EmptySeq
  <2>6. unsent' \in [Ends -> Seq(Byte)] /\ wire' \in [Ends -> Seq(Byte)]
    BY <2>1, <2>3, <2>4 DEF TypeOK
  <2>7. \A d \in Ends : pc'[d] # "send" => unsent'[d] = << >>
    BY <2>1, <2>5 DEF TypeOK
  <2>8. \A d \in Ends : Len(wire'[d]) <= Capacity
    BY <2>1, <2>4 DEF TypeOK
  <2>9. \A d \in Ends : pc'[d] # "recv" => buffer'[d] = << >>
    BY <1>4, <2>1 DEF send, TypeOK
  <2>10. \A d \in Ends : ~ Open(d)' => wire'[d] = << >>
    <3> TAKE d \in Ends
    <3> HAVE ~ Open(d)'
    <3>1. ~ Open(d) /\ d # e
      BY <1>4, <2>1 DEF send, TypeOK, Open
    <3>2. wire[d] = << >>
      BY <3>1 DEF TypeOK
    <3>3. wire' # wire => Open(Peer(e)) /\ wire' = [wire EXCEPT ![Peer(e)] = @ \o Taken(unsent[e], k)]
      BY <2>1
    <3> QED BY <3>1, <3>2, <3>3 DEF TypeOK
  <2> QED BY <1>4, <2>1, <2>6, <2>7, <2>8, <2>9, <2>10 DEF send, TypeOK, PC
<1>5. ASSUME NEW e \in Ends, recv(e)
      PROVE  TypeOK'
  <2>1. PICK k \in 1 .. Len(wire[e]) :
          /\ fill[e] + k <= Len(buffer[e])
          /\ buffer' = [buffer EXCEPT ![e] = Filled(@, fill[e], Taken(wire[e], k))]
          /\ fill' = [fill EXCEPT ![e] = @ + k]
          /\ wire' = [wire EXCEPT ![e] = Left(@, k)]
    BY <1>5 DEF recv
  <2>2. /\ buffer[e] \in Seq(Byte) /\ wire[e] \in Seq(Byte)
        /\ fill[e] \in 0 .. Len(buffer[e])
        /\ Len(buffer[e]) \in Nat /\ Len(wire[e]) \in Nat
    BY LenProperties DEF TypeOK
  <2>3. /\ Filled(buffer[e], fill[e], Taken(wire[e], k)) \in Seq(Byte)
        /\ Len(Filled(buffer[e], fill[e], Taken(wire[e], k))) = Len(buffer[e])
    BY <2>1, <2>2, FilledTaken
  <2>4. Left(wire[e], k) \in Seq(Byte) /\ Len(Left(wire[e], k)) = Len(wire[e]) - k
    <3>1. k \in 0 .. Len(wire[e])
      BY <2>2
    <3> QED BY <2>2, <3>1, TakenAndLeft
  <2>5. buffer' \in [Ends -> Seq(Byte)] /\ wire' \in [Ends -> Seq(Byte)]
    BY <2>1, <2>3, <2>4 DEF TypeOK
  <2>6. \A d \in Ends : /\ Len(wire'[d]) <= Capacity
                        /\ fill'[d] \in Nat /\ fill'[d] <= Len(buffer'[d])
    <3> TAKE d \in Ends
    <3>1. CASE d = e
      <4> HIDE DEF Ends
      <4>1. /\ wire'[e] = Left(wire[e], k) /\ fill'[e] = fill[e] + k
            /\ buffer'[e] = Filled(buffer[e], fill[e], Taken(wire[e], k))
        BY <2>1 DEF TypeOK
      <4>2. Len(wire[e]) <= Capacity
        BY DEF TypeOK
      <4>3. Len(wire'[e]) <= Capacity
        BY <2>2, <2>4, <4>1, <4>2, CapacityAssumption
      <4>4. fill'[e] \in Nat /\ fill'[e] <= Len(buffer'[e])
        BY <2>1, <2>2, <2>3, <4>1
      <4> QED BY <3>1, <4>3, <4>4
    <3>2. CASE d # e
      BY <2>1, <3>2 DEF TypeOK
    <3> QED BY <3>1, <3>2
  <2>7. /\ \A d \in Ends : pc'[d] # "recv" => buffer'[d] = << >>
        /\ \A d \in Ends : ~ Open(d)' => wire'[d] = << >>
    BY <1>5, <2>1 DEF recv, TypeOK, Open
  <2> QED BY <1>5, <2>1, <2>5, <2>6, <2>7 DEF recv, TypeOK
<1>6. ASSUME NEW e \in Ends, recv_returns(e)
      PROVE  TypeOK'
  BY <1>6, EmptySeq DEF recv_returns, TypeOK, PC, Open
<1>7. ASSUME NEW e \in Ends, send_throws(e) \/ recv_closed(e) \/ close(e)
      PROVE  TypeOK'
  BY <1>7, CloseTypes DEF send_throws, recv_closed
<1>8. ASSUME NEW e \in Ends, reset(e)
      PROVE  TypeOK'
  <2>1. PICK n \in 0 .. Len(wire[e]) : wire' = [wire EXCEPT ![e] = Taken(@, n)]
    BY <1>8 DEF reset
  <2>2. wire[e] \in Seq(Byte) /\ Len(wire[e]) \in Nat
    BY LenProperties DEF TypeOK
  <2>3. Taken(wire[e], n) \in Seq(Byte) /\ Len(Taken(wire[e], n)) = n
    BY <2>2, TakenAndLeft
  <2> QED BY <1>8, <2>1, <2>2, <2>3, CapacityAssumption DEF reset, TypeOK, Open
<1>9. CASE UNCHANGED vars
  BY <1>9 DEF vars, TypeOK, Open
<1> QED
  BY <1>1, <1>2, <1>3, <1>4, <1>5, <1>6, <1>7, <1>8, <1>9 DEF Next, Returns

\* The kernel's buffers keep to their capacity and a program holds a part of a
\* packet only in the call that moves it.
THEOREM TypeCorrect == Spec => []TypeOK
BY TypeInit, TypeStep, PTL DEF Spec

-----------------------------------------------------------------------------
(* Refinement *)

\* The steps of CixStream, of the direction to e.
Sent(e) ==
  /\ Open(e) /\ Open(e)' /\ Open(Peer(e)) /\ Open(Peer(e))'
  /\ Requests!IsStart(Unreceived(e), Unreceived(e)')
Received(e) ==
  /\ Open(e) /\ Open(e)' /\ State(Peer(e))' = State(Peer(e))
  /\ \E n \in 1 .. Len(Unreceived(e)) :
       Unreceived(e)' = SubSeq(Unreceived(e), n + 1, Len(Unreceived(e)))
CutShort(e) ==
  /\ State(e)' = State(e) /\ ~ Open(Peer(e))'
  /\ Requests!IsStart(Unreceived(e)', Unreceived(e))
Abandoned(e) ==
  ~ Open(e)' /\ Unreceived(e)' = << >> /\ State(Peer(e))' = State(Peer(e))
Same(e) ==
  /\ Unreceived(e)' = Unreceived(e)
  /\ State(e)' = State(e) /\ State(Peer(e))' = State(Peer(e))
StreamStep(e) == Sent(e) \/ Received(e) \/ CutShort(e) \/ Abandoned(e) \/ Same(e)

\* The parts of Bytes(e) are sequences of bytes.
LEMMA Parts ==
  ASSUME TypeOK, NEW e \in Ends
  PROVE  /\ Taken(buffer[e], fill[e]) \in Seq(Byte)
         /\ Len(Taken(buffer[e], fill[e])) = fill[e]
         /\ wire[e] \in Seq(Byte) /\ unsent[Peer(e)] \in Seq(Byte)
         /\ Taken(buffer[e], fill[e]) \o wire[e] \in Seq(Byte)
         /\ Bytes(e) \in Seq(Byte)
<1>1. buffer[e] \in Seq(Byte) /\ fill[e] \in 0 .. Len(buffer[e])
  BY LenProperties DEF TypeOK
<1>2. /\ Taken(buffer[e], fill[e]) \in Seq(Byte)
      /\ Len(Taken(buffer[e], fill[e])) = fill[e]
  BY <1>1, TakenAndLeft
<1>3. wire[e] \in Seq(Byte) /\ unsent[Peer(e)] \in Seq(Byte)
  BY PeerOfPeer DEF TypeOK
<1>4. Taken(buffer[e], fill[e]) \o wire[e] \in Seq(Byte)
  BY <1>2, <1>3, ConcatProperties
<1>5. (Taken(buffer[e], fill[e]) \o wire[e]) \o unsent[Peer(e)] \in Seq(Byte)
  BY <1>3, <1>4, ConcatProperties
<1> QED BY <1>2, <1>3, <1>4, <1>5 DEF Bytes

\* A turn of send moves bytes from the packet to the wire.
LEMMA SendKeepsBytes ==
  ASSUME TypeOK, NEW e \in Ends, send(Peer(e)), Open(e)
  PROVE  Bytes(e)' = Bytes(e)
<1>1. PICK k \in 0 .. Len(unsent[Peer(e)]) :
        /\ unsent' = [unsent EXCEPT ![Peer(e)] = Left(@, k)]
        /\ wire' = [wire EXCEPT ![e] = @ \o Taken(unsent[Peer(e)], k)]
  BY PeerOfPeer DEF send
<1> DEFINE t == Taken(buffer[e], fill[e])
           w == wire[e]
           u == unsent[Peer(e)]
           gone == Taken(u, k)
           kept == Left(u, k)
<1>2. t \in Seq(Byte) /\ w \in Seq(Byte) /\ u \in Seq(Byte)
  BY Parts
<1>3. /\ gone \in Seq(Byte) /\ kept \in Seq(Byte)
      /\ gone \o kept = u
  BY <1>2, TakenAndLeft
<1>4. /\ wire'[e] = w \o gone /\ unsent'[Peer(e)] = kept
      /\ buffer' = buffer /\ fill' = fill
  BY <1>1, PeerOfPeer DEF send, TypeOK
<1>5. Bytes(e)' = t \o (w \o gone) \o kept
  BY <1>4 DEF Bytes
<1>6. Bytes(e) = t \o w \o u
  BY DEF Bytes
<1> HIDE DEF t, w, u, gone, kept
<1>7. t \o (w \o gone) = (t \o w) \o gone
  <2>1. (t \o w) \o gone = t \o (w \o gone)
    BY <1>2, <1>3, Associative, ZenonT(60)
  <2> QED
    BY <2>1
<1>8. t \o w \in Seq(Byte)
  BY <1>2, ConcatProperties
<1>9. ((t \o w) \o gone) \o kept = (t \o w) \o (gone \o kept)
  BY <1>3, <1>8, Associative
<1> QED BY <1>3, <1>5, <1>6, <1>7, <1>9

\* A turn of recv moves bytes from the wire to the buffer.
LEMMA RecvKeepsBytes ==
  ASSUME TypeOK, NEW e \in Ends, recv(e)
  PROVE  Bytes(e)' = Bytes(e)
<1>1. PICK k \in 1 .. Len(wire[e]) :
        /\ fill[e] + k <= Len(buffer[e])
        /\ buffer' = [buffer EXCEPT ![e] = Filled(@, fill[e], Taken(wire[e], k))]
        /\ fill' = [fill EXCEPT ![e] = @ + k]
        /\ wire' = [wire EXCEPT ![e] = Left(@, k)]
  BY DEF recv
<1> DEFINE t == Taken(buffer[e], fill[e])
           w == wire[e]
           u == unsent[Peer(e)]
           come == Taken(w, k)
           left == Left(w, k)
<1>2. t \in Seq(Byte) /\ w \in Seq(Byte) /\ u \in Seq(Byte)
  BY Parts
<1>3. k \in 0 .. Len(w) /\ buffer[e] \in Seq(Byte) /\ fill[e] \in 0 .. Len(buffer[e])
  BY <1>2, LenProperties DEF TypeOK
<1>4. /\ come \in Seq(Byte) /\ left \in Seq(Byte)
      /\ come \o left = w
  BY <1>2, <1>3, TakenAndLeft
<1>5. Taken(Filled(buffer[e], fill[e], come), fill[e] + k) = t \o come
  BY <1>1, <1>2, <1>3, FilledTaken
<1>6. /\ buffer'[e] = Filled(buffer[e], fill[e], come)
      /\ fill'[e] = fill[e] + k /\ wire'[e] = left /\ unsent' = unsent
  BY <1>1 DEF recv, TypeOK
<1>7. Bytes(e)' = (t \o come) \o left \o u
  BY <1>5, <1>6 DEF Bytes
<1>8. Bytes(e) = t \o w \o u
  BY DEF Bytes
<1> HIDE DEF t, w, u, come, left
<1>9. (t \o come) \o left = t \o (come \o left)
  BY <1>2, <1>4, Associative, ZenonT(60)
<1> QED BY <1>4, <1>7, <1>8, <1>9

\* Every step is a step of CixStream in the direction to e, or changes nothing.
LEMMA EveryStreamStep ==
  ASSUME TypeOK, Next, NEW e \in Ends
  PROVE  StreamStep(e)
<1> DEFINE t == Taken(buffer[e], fill[e])
           w == wire[e]
           u == unsent[Peer(e)]
<1> USE PeerOfPeer
<1>1. /\ t \in Seq(Byte) /\ w \in Seq(Byte) /\ u \in Seq(Byte)
      /\ t \o w \in Seq(Byte) /\ Bytes(e) = (t \o w) \o u /\ Bytes(e) \in Seq(Byte)
  BY Parts DEF Bytes
<1>2. CASE create \/ connect \/ accept
  BY <1>2 DEF create, connect, accept, TypeOK, StreamStep, Same, Unreceived, Bytes, State, Open
<1>3. ASSUME NEW a \in Ends, NEW packet \in Packets, send_packet(a, packet)
      PROVE  StreamStep(e)
  <2>1. Open(a) /\ Open(a)' /\ unsent[a] = << >> /\ packet \in Seq(Byte)
        /\ \A d \in Ends : State(d)' = State(d) /\ Open(d)' = Open(d)
    BY <1>3, PacketsAssumption DEF send_packet, TypeOK, Open, State
  <2>2. CASE a = Peer(e) /\ Open(e)
    <3>1. Bytes(e)' = (t \o w) \o packet
      BY <1>3, <2>2 DEF send_packet, Bytes, TypeOK
    <3>2. Bytes(e) = t \o w
      BY <1>1, <2>1, <2>2, ConcatEmptySeq
    <3> HIDE DEF t, w
    <3>3. Requests!IsStart(t \o w, (t \o w) \o packet)
      BY <1>1, <2>1, StartOfConcat
    <3> QED BY <2>1, <2>2, <3>1, <3>2, <3>3 DEF StreamStep, Sent, Unreceived
  <2>3. CASE a # Peer(e) \/ ~ Open(e)
    BY <1>3, <2>1, <2>3 DEF send_packet, StreamStep, Same, Unreceived, Bytes, TypeOK
  <2> QED BY <2>2, <2>3
<1>4. ASSUME NEW a \in Ends, send(a)
      PROVE  StreamStep(e)
  <2>1. \A d \in Ends : State(d)' = State(d) /\ Open(d)' = Open(d)
    BY <1>4 DEF send, TypeOK, Open, State
  <2>2. CASE a = Peer(e) /\ Open(e)
    BY <1>4, <2>1, <2>2, SendKeepsBytes DEF StreamStep, Same, Unreceived
  <2>3. CASE ~ Open(e)
    BY <2>1, <2>3 DEF StreamStep, Same, Unreceived
  <2>4. CASE a = e
    <3>1. buffer' = buffer /\ fill' = fill /\ wire'[e] = wire[e]
      BY <1>4, <2>4 DEF send, TypeOK
    <3>2. unsent'[Peer(e)] = unsent[Peer(e)]
      BY <1>4, <2>4 DEF send, TypeOK
    <3> QED BY <2>1, <3>1, <3>2 DEF StreamStep, Same, Unreceived, Bytes
  <2> QED BY <2>2, <2>3, <2>4 DEF Peer
<1>5. ASSUME NEW a \in Ends, NEW size \in Sizes, recv_packet(a, size)
      PROVE  StreamStep(e)
  <2>1. \A d \in Ends : State(d)' = State(d) /\ Open(d)' = Open(d)
    BY <1>5 DEF recv_packet, TypeOK, Open, State
  <2>2. CASE a = e
    <3>1. fill[e] = 0 /\ buffer[e] = << >> /\ fill'[e] = 0
      BY <1>5, <2>2, EmptySeq DEF recv_packet, TypeOK
    <3>2. Taken(buffer[e], 0) = << >> /\ Taken(buffer'[e], 0) = << >>
      BY SubSeqEmpty DEF Taken
    <3>3. wire' = wire /\ unsent' = unsent
      BY <1>5 DEF recv_packet
    <3> QED BY <2>1, <3>1, <3>2, <3>3 DEF StreamStep, Same, Unreceived, Bytes
  <2>3. CASE a # e
    BY <1>5, <2>1, <2>3 DEF recv_packet, StreamStep, Same, Unreceived, Bytes, TypeOK
  <2> QED BY <2>2, <2>3
<1>6. ASSUME NEW a \in Ends, recv(a)
      PROVE  StreamStep(e)
  <2>1. \A d \in Ends : State(d)' = State(d) /\ Open(d)' = Open(d)
    BY <1>6 DEF recv, Open, State
  <2>2. CASE a = e
    BY <1>6, <2>1, <2>2, RecvKeepsBytes DEF StreamStep, Same, Unreceived
  <2>3. CASE a # e
    <3>1. /\ buffer'[e] = buffer[e] /\ fill'[e] = fill[e]
          /\ wire'[e] = wire[e] /\ unsent' = unsent
      BY <1>6, <2>3 DEF recv, TypeOK
    <3> QED BY <2>1, <3>1 DEF StreamStep, Same, Unreceived, Bytes
  <2> QED BY <2>2, <2>3
<1>7. ASSUME NEW a \in Ends, recv_returns(a)
      PROVE  StreamStep(e)
  <2>1. \A d \in Ends : State(d)' = State(d) /\ Open(d)' = Open(d)
    BY <1>7 DEF recv_returns, TypeOK, Open, State
  <2>2. CASE a = e
    <3>1. fill[e] > 0 /\ fill[e] = Len(t) /\ fill[e] \in Nat /\ Open(e)
      BY <1>7, <2>2, Parts DEF recv_returns, TypeOK, Open
    <3>2. /\ buffer'[e] = << >> /\ fill'[e] = 0
          /\ wire'[e] = wire[e] /\ unsent' = unsent
      BY <1>7, <2>2 DEF recv_returns, TypeOK
    <3>3. Taken(buffer'[e], fill'[e]) = << >>
      BY <3>2, SubSeqEmpty DEF Taken
    <3>4. Bytes(e)' = w \o u
      BY <1>1, <3>2, <3>3, ConcatEmptySeq DEF Bytes
    <3> HIDE DEF t, w, u
    <3>5. Bytes(e) = t \o (w \o u) /\ w \o u \in Seq(Byte)
      BY <1>1, Associative, ConcatProperties
    <3>6. SubSeq(Bytes(e), Len(t) + 1, Len(Bytes(e))) = w \o u
      BY <1>1, <3>5, StartOfConcat
    <3>7. Len(t) \in 1 .. Len(Bytes(e))
      <4>1. Len(t \o (w \o u)) = Len(t) + Len(w \o u) /\ Len(w \o u) \in Nat
        BY <1>1, <3>5, ConcatProperties, LenProperties
      <4> QED BY <3>1, <3>5, <4>1
    <3>8. Unreceived(e) = Bytes(e) /\ Unreceived(e)' = Bytes(e)'
      BY <2>1, <3>1 DEF Unreceived
    <3> QED BY <2>1, <3>1, <3>4, <3>6, <3>7, <3>8 DEF StreamStep, Received
  <2>3. CASE a # e
    <3>1. /\ buffer'[e] = buffer[e] /\ fill'[e] = fill[e]
          /\ wire'[e] = wire[e] /\ unsent' = unsent
      BY <1>7, <2>3 DEF recv_returns, TypeOK
    <3> QED BY <2>1, <3>1 DEF StreamStep, Same, Unreceived, Bytes
  <2> QED BY <2>2, <2>3
<1>8. ASSUME NEW a \in Ends, close(a)
      PROVE  StreamStep(e)
  <2>1. CASE a = e
    BY <1>8, <2>1 DEF close, StreamStep, Abandoned, Unreceived, State, Open, TypeOK
  <2>2. CASE a = Peer(e)
    <3>1. /\ buffer'[e] = buffer[e] /\ fill'[e] = fill[e]
          /\ wire'[e] = wire[e] /\ unsent'[Peer(e)] = << >>
          /\ State(e)' = State(e) /\ Open(e)' = Open(e) /\ ~ Open(Peer(e))'
      BY <1>8, <2>2 DEF close, TypeOK, State, Open
    <3>2. Bytes(e)' = t \o w
      BY <1>1, <3>1, ConcatEmptySeq DEF Bytes
    <3> HIDE DEF t, w, u
    <3>3. Requests!IsStart(Bytes(e)', Bytes(e))
      BY <1>1, <3>2, StartOfConcat
    <3>4. Requests!IsStart(<< >>, << >>)
      BY SubSeqEmpty, EmptySeq DEF Requests!IsStart
    <3> QED BY <3>1, <3>3, <3>4 DEF StreamStep, CutShort, Unreceived
  <2> QED BY <2>1, <2>2 DEF Peer
<1>9. ASSUME NEW a \in Ends, reset(a)
      PROVE  StreamStep(e)
  <2>1. \A d \in Ends : State(d)' = State(d) /\ Open(d)' = Open(d)
    BY <1>9 DEF reset, Open, State
  <2>2. CASE a = e
    <3>1. PICK n \in 0 .. Len(wire[e]) : wire' = [wire EXCEPT ![e] = Taken(@, n)]
      BY <1>9, <2>2 DEF reset
    <3>2. /\ buffer' = buffer /\ fill' = fill /\ unsent' = unsent
          /\ wire'[e] = Taken(w, n) /\ u = << >> /\ Open(e) /\ ~ Open(Peer(e))
      BY <1>9, <2>2, <3>1 DEF reset, TypeOK, Open
    <3> DEFINE kept == Taken(w, n)
               lost == Left(w, n)
    <3>3. kept \in Seq(Byte) /\ lost \in Seq(Byte) /\ kept \o lost = w
      BY <1>1, TakenAndLeft
    <3> HIDE DEF kept, lost, t, w, u
    <3>4. t \o kept \in Seq(Byte)
      BY <1>1, <3>3, ConcatProperties
    <3>5. Bytes(e)' = t \o kept
      BY <3>2, <3>4, ConcatEmptySeq DEF Bytes, t, u, kept
    <3>6. Bytes(e) = (t \o kept) \o lost
      <4>1. Bytes(e) = t \o w
        BY <1>1, <3>2, ConcatEmptySeq
      <4>2. (t \o kept) \o lost = t \o (kept \o lost)
        <5>1. t \in Seq(Byte) /\ kept \in Seq(Byte) /\ lost \in Seq(Byte)
          BY <1>1, <3>3
        <5> QED BY <5>1, Associative
      <4> QED BY <3>3, <4>1, <4>2
    <3>7. Requests!IsStart(Bytes(e)', Bytes(e))
      BY <3>3, <3>4, <3>5, <3>6, StartOfConcat
    <3> QED BY <2>1, <3>2, <3>7 DEF StreamStep, CutShort, Unreceived
  <2>3. CASE a # e
    <3>1. /\ buffer' = buffer /\ fill' = fill
          /\ wire'[e] = wire[e] /\ unsent' = unsent
      BY <1>9, <2>3 DEF reset, TypeOK
    <3> QED BY <2>1, <3>1 DEF StreamStep, Same, Unreceived, Bytes
  <2> QED BY <2>2, <2>3
<1> QED
  BY <1>2, <1>3, <1>4, <1>5, <1>6, <1>7, <1>8, <1>9
  DEF Next, Returns, send_throws, recv_closed

\* The steps of one direction are those of its instance of CixStream.
LEMMA AreRequests ==
  ASSUME StreamStep(Server)
  PROVE  [Requests!Next]_(Requests!vars)
BY EndsAssumption DEF StreamStep, Sent, Received, CutShort, Abandoned, Same, State, Peer,
   Requests!Next, Requests!Send, Requests!Receive, Requests!Cut, Requests!Leave,
   Requests!vars, Requests!IsStart

LEMMA AreReplies ==
  ASSUME StreamStep(Client)
  PROVE  [Replies!Next]_(Replies!vars)
BY EndsAssumption DEF StreamStep, Sent, Received, CutShort, Abandoned, Same, State, Peer,
   Replies!Next, Replies!Send, Replies!Receive, Replies!Cut, Replies!Leave,
   Replies!vars, Replies!IsStart, Requests!IsStart

LEMMA StreamsInit == Init => Requests!Init /\ Replies!Init
<1> SUFFICES ASSUME Init, NEW e \in Ends PROVE Unreceived(e) = << >> /\ State(e) = "open"
  BY DEF Requests!Init, Replies!Init
<1>1. Taken(<< >>, 0) = << >>
  BY SubSeqEmpty DEF Taken
<1>2. << >> \o << >> \o << >> = << >>
  BY EmptySeq, ConcatEmptySeq
<1> QED BY <1>1, <1>2, PeerOfPeer DEF Init, Unreceived, Bytes, State, Open

\* In both directions packets are sent and received whole and in order, however
\* many bytes the kernel takes or gives at a time.
THEOREM PacketsImplementStreams == Spec => ImplementsStreams
<1>1. TypeOK /\ [Next]_vars => [Requests!Next]_(Requests!vars) /\ [Replies!Next]_(Replies!vars)
  <2> SUFFICES ASSUME TypeOK, [Next]_vars
               PROVE  [Requests!Next]_(Requests!vars) /\ [Replies!Next]_(Replies!vars)
    OBVIOUS
  <2>1. CASE Next
    BY <2>1, EveryStreamStep, AreRequests, AreReplies
  <2>2. CASE UNCHANGED vars
    BY <2>2 DEF vars, Requests!vars, Replies!vars, Unreceived, Bytes, State, Open
  <2> QED BY <2>1, <2>2
<1> QED
  BY <1>1, TypeCorrect, StreamsInit, PTL DEF Spec, ImplementsStreams, Requests!Spec, Replies!Spec
=============================================================================
