------------------------------ MODULE CixProofs ------------------------------
(***************************************************************************)
(* Facts about the sessions of Cix that hold for every radix, any clients, *)
(* any files and any requests.                                             *)
(***************************************************************************)
EXTENDS CixProperties, Induction, SequenceTheorems, TLAPS

-----------------------------------------------------------------------------
(* htonl and ntohl *)

\* A word has one high and one low byte.
LEMMA WordDigits ==
  ASSUME NEW hi \in Byte, NEW lo \in Byte
  PROVE  /\ hi * Radix + lo \in Word
         /\ (hi * Radix + lo) \div Radix = hi
         /\ (hi * Radix + lo) % Radix = lo
<1> USE RadixAssumption DEF Byte, Word
<1> DEFINE n == hi * Radix + lo
<1>0. Radix \in Nat /\ Radix > 0 /\ hi \in Nat /\ lo \in Nat /\ hi < Radix /\ lo < Radix
  OBVIOUS
<1>1. hi * Radix \in Nat /\ Radix * Radix \in Nat
  BY <1>0
<1>2. hi + 1 <= Radix
  BY <1>0
<1>3. (hi + 1) * Radix <= Radix * Radix
  BY <1>0, <1>2, SMTT(30)
<1>4. (hi + 1) * Radix = hi * Radix + Radix
  BY <1>0, SMTT(30)
<1>5. n \in Nat /\ n < Radix * Radix
  BY <1>0, <1>1, <1>3, <1>4
<1>6. n \div Radix = hi /\ n % Radix = lo
  BY <1>0, <1>1, <1>5, SMTT(60)
<1> QED BY <1>5, <1>6, <1>1

\* Every word is written with two bytes, in one way.
LEMMA ByteOfWord ==
  ASSUME NEW n \in Word
  PROVE  /\ n \div Radix \in Byte /\ n % Radix \in Byte
         /\ n = (n \div Radix) * Radix + (n % Radix)
<1> USE RadixAssumption DEF Byte, Word
<1>0. n \in Nat /\ Radix \in Nat /\ Radix > 0 /\ n < Radix * Radix
  BY SMTT(30)
<1>1. n % Radix \in Byte
  BY <1>0
<1>2. n \div Radix \in Nat
  BY <1>0
<1>3. n = Radix * (n \div Radix) + (n % Radix)
  BY <1>0
<1>4. n \div Radix < Radix
  BY <1>0, <1>2, <1>3, SMTT(60)
<1> QED BY <1>0, <1>1, <1>2, <1>3, <1>4

\* ntohl undoes htonl, and stays within a word (protocol.h: the nbytes field is
\* sent in network byte order).
LEMMA NtohlInvertsHtonl ==
  \A n \in Word : Htonl(n) \in Word /\ Ntohl(Htonl(n)) = n
<1> TAKE n \in Word
<1> DEFINE hi == n \div Radix
           lo == n % Radix
<1>1. hi \in Byte /\ lo \in Byte /\ n = hi * Radix + lo
  BY ByteOfWord
<1>2. Htonl(n) = lo * Radix + hi
  BY DEF Htonl
<1>3. Htonl(n) \in Word /\ Htonl(n) \div Radix = lo /\ Htonl(n) % Radix = hi
  BY <1>1, <1>2, WordDigits
<1>4. Ntohl(Htonl(n)) = hi * Radix + lo
  BY <1>3 DEF Htonl, Ntohl
<1> QED BY <1>1, <1>3, <1>4

\* A header is read back as it was sent (protocol.h:18; send_packet and
\* recv_packet of sizeof header bytes).
LEMMA HeaderRoundTrip ==
  \A h \in Header : /\ Encode(h) \in Seq(Byte) /\ Len(Encode(h)) = HeaderSize
                    /\ Decode(Encode(h)) = h
<1> TAKE h \in Header
<1>1. h.nbytes \in Word /\ h.command \in Byte /\ h.filename \in Byte
  BY DEF Header
<1>2. /\ h.nbytes % Radix \in Byte /\ h.nbytes \div Radix \in Byte
      /\ h.nbytes = (h.nbytes \div Radix) * Radix + (h.nbytes % Radix)
  BY <1>1, ByteOfWord
<1>3. h.nbytes = (h.nbytes % Radix) + Radix * (h.nbytes \div Radix)
  BY <1>1, <1>2, RadixAssumption DEF Byte
<1>4. Decode(Encode(h)) = [nbytes |-> h.nbytes, command |-> h.command,
                           filename |-> h.filename]
  BY <1>3 DEF Encode, Decode
<1>5. h = [nbytes |-> h.nbytes, command |-> h.command, filename |-> h.filename]
  BY DEF Header
<1> QED BY <1>1, <1>2, <1>4, <1>5 DEF Encode, HeaderSize

-----------------------------------------------------------------------------
(* Names with a slash *)

\* dir keeps its domain: this is what NoSlashedFile needs to be inductive.
SlashInv == DOMAIN dir = Byte /\ dir = [f \in Byte |-> dir[f]] /\ NoSlashedFile

\* No slash, unless it was there before.
LEMMA SlashInit == Init => SlashInv
  BY CixAssumption DEF Init, SlashInv, NoSlashedFile, NoInode

\* Only put makes names, and it looks for a slash first.
LEMMA SlashStep == SlashInv /\ [Next]_vars => SlashInv'
<1> SUFFICES ASSUME SlashInv, [Next]_vars PROVE SlashInv'
  OBVIOUS
<1> USE DEF SlashInv, NoSlashedFile
<1>1. CASE dir' = dir
  BY <1>1
<1>2. ASSUME NEW c \in Clients, reply_put(c) PROVE SlashInv'
  <2> DEFINE name == Decode(up[c]).filename
  <2>1. dir' = dir \/ \E i : name \notin Slashed /\ dir' = [dir EXCEPT ![name] = i]
    BY <1>2 DEF reply_put, checkValidFileName, fileVars
  <2> HIDE DEF name
  <2> QED BY <2>1, CixAssumption
<1>3. ASSUME NEW c \in Clients, reply_rm(c) PROVE SlashInv'
  BY <1>3 DEF reply_rm, NoInode
<1>4. ASSUME NEW c \in Clients, ClientNext(c) PROVE dir' = dir
  BY <1>4 DEF ClientNext, cix_ls, cix_get, cix_put, cix_rm, Submit,
       put_payload, ClientReceives, recv_reply, recv_payload,
       client_recv_closed, leave, fileVars
<1>5. ASSUME NEW c \in Clients, ServerNext(c)
      PROVE  dir' = dir \/ reply_put(c) \/ reply_rm(c)
  BY <1>5 DEF ServerNext, reply_ls, reply_get, send_file, recv_file,
       flush_file, heap_overflow, invalid_header, server_recv_closed, fileVars
<1>6. ASSUME NEW c \in Clients, lose_end(c) PROVE dir' = dir
  BY <1>6 DEF lose_end, fileVars
<1>7. CASE UNCHANGED vars
  BY <1>1, <1>7 DEF vars, fileVars
<1> QED BY <1>1, <1>2, <1>3, <1>4, <1>5, <1>6, <1>7 DEF Next

\* However garbled the stream, no file appears under a name with a slash.
THEOREM SlashesRefused == Spec => []NoSlashedFile
<1>1. SlashInv => NoSlashedFile
  BY DEF SlashInv
<1> QED BY <1>1, SlashInit, SlashStep, PTL DEF Spec

-----------------------------------------------------------------------------
(* Streams of bytes *)

\* What recv_packet takes from a stream.
LEMMA TakenType ==
  ASSUME NEW S, NEW s \in Seq(S), NEW n \in 0 .. Len(s)
  PROVE  /\ Taken(s, n) \in Seq(S) /\ Len(Taken(s, n)) = n
         /\ \A i \in 1 .. n : Taken(s, n)[i] = s[i]
BY DEF Taken

\* What recv_packet leaves in a stream.
LEMMA LeftType ==
  ASSUME NEW S, NEW s \in Seq(S), NEW n \in 0 .. Len(s)
  PROVE  /\ Left(s, n) \in Seq(S) /\ Len(Left(s, n)) = Len(s) - n
         /\ \A i \in 1 .. Len(s) - n : Left(s, n)[i] = s[i + n]
BY DEF Left

\* A word is wider than a byte by more than the longest listing needs.
LEMMA WordSize ==
  /\ Radix \in Nat /\ Radix * Radix \in Nat /\ Radix + 11 < Radix * Radix
  /\ Byte \subseteq Nat /\ Byte \subseteq Word /\ Word \subseteq Nat
  /\ 0 .. 11 \subseteq Word /\ Radix - 1 \in Byte /\ 0 .. 10 \subseteq Byte
  /\ Radix + 1 \in Word
<1>1. Radix \in Nat /\ Radix >= 11
  BY RadixAssumption
<1>2. Radix * Radix \in Nat
  BY <1>1
<1>3. Radix * Radix >= 11 * Radix
  BY <1>1, SMTT(30)
<1> DEFINE W == Radix * Radix
<1> HIDE DEF W
<1>4. W \in Nat /\ W >= 11 * Radix
  BY <1>2, <1>3 DEF W
<1> QED
  BY <1>1, <1>4 DEF Byte, Word, W

\* Any four bytes are a header.
LEMMA DecodeType ==
  ASSUME NEW s \in Seq(Byte), Len(s) >= HeaderSize
  PROVE  Decode(s) \in Header
<1>1. s[1] \in Byte /\ s[2] \in Byte /\ s[3] \in Byte /\ s[4] \in Byte
  BY DEF HeaderSize
<1>2. s[2] * Radix + s[1] \in Word
  BY <1>1, WordDigits
<1>3. s[1] + Radix * s[2] = s[2] * Radix + s[1]
  <2>1. \A a, b \in Nat : a + Radix * b = b * Radix + a
    BY RadixAssumption
  <2> QED
    BY <1>1, <2>1 DEF Byte
<1> QED
  BY <1>1, <1>2, <1>3 DEF Decode, Header

\* A header is four bytes.
LEMMA EncodeType ==
  ASSUME NEW h \in Header
  PROVE  Encode(h) \in Seq(Byte)
BY HeaderRoundTrip

(* A header followed by any bytes is read as that header, and leaves them. *)
LEMMA FourFirst ==
  ASSUME NEW S, NEW e \in Seq(S), Len(e) = 4, NEW rest \in Seq(S)
  PROVE  LET s == e \o rest
         IN  /\ s \in Seq(S) /\ Len(s) = 4 + Len(rest)
             /\ \A i \in 1 .. 4 : s[i] = e[i]
             /\ Left(s, 4) = rest
<1> DEFINE s == e \o rest
<1>0. Len(rest) \in Nat
  BY LenProperties
<1>1. /\ s \in Seq(S) /\ Len(s) = 4 + Len(rest)
      /\ \A i \in 1 .. Len(s) : s[i] = IF i <= 4 THEN e[i] ELSE rest[i - 4]
  <2>1. /\ s \in Seq(S) /\ Len(s) = Len(e) + Len(rest)
        /\ \A i \in 1 .. Len(e) + Len(rest) : s[i] = IF i <= Len(e) THEN e[i] ELSE rest[i - Len(e)]
    BY ConcatProperties, Zenon
  <2> HIDE DEF s
  <2> QED
    BY <2>1
<1>2. \A i \in 1 .. Len(rest) : s[i + 4] = rest[i]
  <2> HIDE DEF s
  <2> SUFFICES ASSUME NEW i \in 1 .. Len(rest) PROVE s[i + 4] = rest[i]
    OBVIOUS
  <2>1. i + 4 \in 1 .. Len(s) /\ ~(i + 4 <= 4) /\ (i + 4) - 4 = i
    BY <1>0, <1>1
  <2> QED
    BY <1>1, <2>1
<1> HIDE DEF s
<1>3. 4 \in 0 .. Len(s) /\ Len(s) - 4 = Len(rest)
  BY <1>0, <1>1
<1>4. Left(s, 4) \in Seq(S) /\ Len(Left(s, 4)) = Len(rest)
      /\ \A i \in 1 .. Len(rest) : Left(s, 4)[i] = s[i + 4]
  <2>1. Left(s, 4) \in Seq(S) /\ Len(Left(s, 4)) = Len(s) - 4
        /\ \A i \in 1 .. Len(s) - 4 : Left(s, 4)[i] = s[i + 4]
    BY <1>1, <1>3, LeftType, Zenon
  <2> QED
    BY <1>3, <2>1
<1>5. Left(s, 4) = rest
  BY <1>2, <1>4, SeqEqual
<1> QED
  BY <1>0, <1>1, <1>5 DEF s

\* A header is read back from in front of whatever follows it.
LEMMA HeaderFirst ==
  ASSUME NEW h \in Header, NEW rest \in Seq(Byte)
  PROVE  LET s == Encode(h) \o rest
         IN  /\ s \in Seq(Byte) /\ Len(s) = HeaderSize + Len(rest)
             /\ Decode(s) = h /\ Left(s, HeaderSize) = rest
<1> DEFINE e == Encode(h)
           s == e \o rest
<1>1. e \in Seq(Byte) /\ Len(e) = 4 /\ Decode(e) = h
  BY HeaderRoundTrip DEF HeaderSize
<1> HIDE DEF e
<1>2. s \in Seq(Byte) /\ Len(s) = 4 + Len(rest) /\ Left(s, 4) = rest
      /\ \A i \in 1 .. 4 : s[i] = e[i]
  BY <1>1, FourFirst
<1> HIDE DEF s
<1>3. Decode(s) = Decode(e)
  <2>1. s[1] = e[1] /\ s[2] = e[2] /\ s[3] = e[3] /\ s[4] = e[4]
    BY <1>2
  <2> QED
    BY <2>1 DEF Decode
<1> QED
  BY <1>1, <1>2, <1>3 DEF HeaderSize, s, e

(* The same for a header alone. *)
LEMMA HeaderAlone ==
  ASSUME NEW h \in Header
  PROVE  Decode(Encode(h)) = h /\ Len(Encode(h)) = HeaderSize /\ Left(Encode(h), HeaderSize) = << >>
         /\ Encode(h) \in Seq(Byte)
<1> DEFINE e == Encode(h)
<1>1. e \in Seq(Byte) /\ Len(e) = 4 /\ Decode(e) = h
  BY HeaderRoundTrip DEF HeaderSize
<1> HIDE DEF e
<1>2. 4 \in 0 .. Len(e)
  BY <1>1
<1>3. Left(e, 4) \in Seq(Byte) /\ Len(Left(e, 4)) = 0
  <2>1. Left(e, 4) \in Seq(Byte) /\ Len(Left(e, 4)) = Len(e) - 4
    BY <1>1, <1>2, LeftType, Zenon
  <2> QED
    BY <1>1, <2>1
<1>4. Left(e, 4) = << >>
  BY <1>3, EmptySeq
<1> QED
  BY <1>1, <1>4 DEF HeaderSize, e

\* A header with another command in it is a header.
LEMMA AnswerHeader ==
  ASSUME NEW h \in Header, NEW cmd \in 0 .. 10
  PROVE  [h EXCEPT !.command = cmd] \in Header
BY WordSize DEF Header

\* There are at most as many files as names.
LEMMA NamedFiles == {f \in Byte : dir[f] # NoInode} \subseteq Nat
                    /\ IsFiniteSet({f \in Byte : dir[f] # NoInode})
                    /\ Cardinality({f \in Byte : dir[f] # NoInode}) <= Radix
<1>1. IsFiniteSet(Byte) /\ Cardinality(Byte) = Radix
  BY FS_Interval, WordSize DEF Byte
<1>2. {f \in Byte : dir[f] # NoInode} \in SUBSET Byte
  OBVIOUS
<1> QED
  BY <1>1, <1>2, FS_Subset, WordSize

(* A listing has a line for the total and one for each file: its length    *)
(* fits nbytes.                                                            *)
LEMMA ListingType == Listing \in Seq(Byte) /\ Len(Listing) \in Word /\ Len(Listing) > 0
                     /\ Listing # << >>
                     /\ Tail(Listing) = InOrder({f \in Byte : dir[f] # NoInode})
<1> DEFINE S == {f \in Byte : dir[f] # NoInode}
           o == InOrder(S)
<1>1. o \in [1 .. Cardinality(S) -> S] /\ Cardinality(S) \in Nat /\ Cardinality(S) <= Radix
  BY NamedFiles, InOrderLists
<1>2. S \subseteq Byte
  OBVIOUS
<1> HIDE DEF S
<1>3. o \in Seq(Byte) /\ Len(o) = Cardinality(S)
  BY <1>1, <1>2
<1>4. Listing = << Radix - 1 >> \o o
  BY DEF Listing, S
<1> HIDE DEF o
<1>5. Listing \in Seq(Byte) /\ Len(Listing) = 1 + Cardinality(S) /\ Tail(Listing) = o
  <2>1. << Radix - 1 >> \in Seq(Byte)
    BY WordSize
  <2>2. Listing \in Seq(Byte)
    BY <1>3, <1>4, <2>1
  <2>3. Len(Listing) = 1 + Cardinality(S)
    BY <1>3, <1>4, <2>1
  <2>4. Tail(Listing) = o
    BY <1>3, <1>4, <2>1
  <2> QED
    BY <2>2, <2>3, <2>4
<1>6. Len(Listing) \in Word
  BY <1>1, <1>5, WordSize DEF Word
<1> QED
  BY <1>1, <1>5, <1>6 DEF o, S

-----------------------------------------------------------------------------
(* Types *)

\* The types of the variables of one session.
LEMMA Pieces ==
  ASSUME TypeOK, NEW c \in Clients
  PROVE  /\ up[c] \in Seq(Byte) /\ down[c] \in Seq(Byte) /\ buffer[c] \in Seq(Byte)
         /\ request[c] \in Header /\ reply[c] \in Header /\ header[c] \in Header
         /\ cpc[c] \in ClientPC /\ spc[c] \in ServerPC /\ handle[c] \in Inodes \cup {NoInode}
         /\ (handle[c] # NoInode <=> spc[c] \in {"get", "put", "flush", "unwind"})
         /\ buffer[c] \in Content
         /\ \A f \in Byte : local[c][f] \in Content \cup {Nothing}
BY DEF TypeOK, Content

\* NoInode is none of the inodes.
LEMMA NoInodeType == NoInode \notin Inodes
BY CixAssumption DEF NoInode, Inodes

\* A client sends bytes.
LEMMA ClientSendsType ==
  ASSUME TypeOK, NEW c \in Clients, NEW bytes \in Seq(Byte), NEW next \in ClientPC,
         ClientSends(c, bytes, next)
  PROVE  up' \in [Clients -> Seq(Byte)] /\ cpc' \in [Clients -> ClientPC]
<1>1. up[c] \o bytes \in Seq(Byte)
  BY Pieces, ConcatProperties
<1>2. up \in [Clients -> Seq(Byte)] /\ cpc \in [Clients -> ClientPC] /\ "closed" \in ClientPC
  BY DEF TypeOK, ClientPC
<1> DEFINE more == up[c] \o bytes
<1>3. up' = up \/ up' = [up EXCEPT ![c] = more]
  BY DEF ClientSends
<1>4. cpc' = [cpc EXCEPT ![c] = next] \/ cpc' = [cpc EXCEPT ![c] = "closed"]
  BY DEF ClientSends
<1> HIDE DEF more
<1> QED
  BY <1>1, <1>2, <1>3, <1>4 DEF more

\* A server sends bytes; no other server moves.
LEMMA ServerSendsType ==
  ASSUME TypeOK, NEW c \in Clients, NEW bytes \in Seq(Byte), NEW next \in ServerPC,
         ServerSends(c, bytes, next)
  PROVE  /\ down' \in [Clients -> Seq(Byte)] /\ spc' \in [Clients -> ServerPC]
         /\ spc'[c] \in {next, "done"} /\ \A d \in Clients \ {c} : spc'[d] = spc[d]
<1>1. down[c] \o bytes \in Seq(Byte)
  BY Pieces, ConcatProperties
<1> DEFINE more == down[c] \o bytes
<1>2. /\ down \in [Clients -> Seq(Byte)] /\ spc \in [Clients -> ServerPC]
      /\ "done" \in ServerPC
  BY DEF TypeOK, ServerPC
<1>3. down' = down \/ down' = [down EXCEPT ![c] = more]
  BY DEF ServerSends
<1>4. spc' = [spc EXCEPT ![c] = next] \/ spc' = [spc EXCEPT ![c] = "done"]
  BY DEF ServerSends
<1>5. more \in Seq(Byte)
  BY <1>1
<1> HIDE DEF more
<1> QED
  BY <1>2, <1>3, <1>4, <1>5

\* A server receives a header.
LEMMA ReceivedType ==
  ASSUME TypeOK, NEW c \in Clients, NEW cmds, Received(c, cmds)
  PROVE  /\ up' \in [Clients -> Seq(Byte)] /\ Decode(up[c]) \in Header
         /\ spc[c] = "header" /\ handle[c] = NoInode
<1>1. up[c] \in Seq(Byte) /\ HeaderSize \in 0 .. Len(up[c])
  BY Pieces, LenProperties DEF Received, HeaderSize
<1>2. Left(up[c], HeaderSize) \in Seq(Byte)
  BY <1>1, LeftType, Zenon
<1>3. Decode(up[c]) \in Header
  BY <1>1, DecodeType DEF Received
<1> QED
  BY <1>2, <1>3, Pieces DEF Received, TypeOK

\* An answer is bytes.
LEMMA AnswerType ==
  ASSUME NEW h \in Header, NEW cmd \in 0 .. 10
  PROVE  Answer(h, cmd) \in Seq(Byte)
BY AnswerHeader, EncodeType DEF Answer

\* The initial files fit the inodes.
LEMMA TypeInit == Init => TypeOK
<1> SUFFICES ASSUME Init PROVE TypeOK
  OBVIOUS
<1> DEFINE S == DOMAIN InitFiles
<1>1. S \subseteq Nat /\ IsFiniteSet(S)
  <2>1. IsFiniteSet(Byte) /\ S \in SUBSET Byte
    <3>1. IsFiniteSet(Byte)
      BY FS_Interval, WordSize DEF Byte
    <3> QED
      BY <3>1, CixAssumption
  <2> QED
    BY <2>1, FS_Subset, WordSize
<1>2. /\ InodeOf \in [1 .. Cardinality(S) -> S] /\ Cardinality(S) \in Nat
      /\ \A f \in S : \E i \in 1 .. Cardinality(S) : InodeOf[i] = f
      /\ Cardinality(S) <= MaxInodes /\ MaxInodes \in Nat
  <2> HIDE DEF S
  <2>1. InodeOf = InOrder(S)
    BY DEF InodeOf, S
  <2> QED
    BY <1>1, <2>1, InOrderLists, CixAssumption DEF S
<1>3. 1 .. Cardinality(S) \subseteq Inodes
  BY <1>2 DEF Inodes
<1>4. dir \in [Byte -> Inodes \cup {NoInode}]
  <2> SUFFICES ASSUME NEW f \in S
               PROVE  (CHOOSE i \in DOMAIN InodeOf : InodeOf[i] = f) \in Inodes
    BY DEF Init
  <2> QED
    BY <1>2, <1>3
<1>5. << >> \in Content /\ << >> \in Seq(Byte)
  BY WordSize, EmptySeq DEF Content
<1>6. disk \in [Inodes -> Content]
  BY <1>2, <1>5, CixAssumption DEF Init
<1>7. local \in [Clients -> [Byte -> Content \cup {Nothing}]]
  BY CixAssumption DEF Init
<1>8. Blank \in Header
  BY WordSize DEF Blank, Header, ERROR
<1>9. asked \in 0 .. MaxRequests
  BY CixAssumption DEF Init
<1> QED
  BY <1>4, <1>5, <1>6, <1>7, <1>8, <1>9 DEF Init, TypeOK, ClientPC, ServerPC, NoInode

-----------------------------------------------------------------------------
(* The steps of a client keep the types. *)

\* A request is a header.
LEMMA SubmitType ==
  ASSUME TypeOK, NEW c \in Clients, NEW cmd, NEW name, NEW nbytes \in Word,
         NEW next \in ClientPC, Submit(c, cmd, name, nbytes, next)
  PROVE  TypeOK'
<1> DEFINE h == [nbytes |-> nbytes, command |-> cmd, filename |-> name]
<1>1. h \in Header
  <2>1. cmd \in Byte /\ name \in Byte
    BY CixAssumption, WordSize DEF Submit, GET, LS, PUT, RM
  <2> QED
    BY <2>1 DEF Header
<1>2. request' = [request EXCEPT ![c] = h] /\ request' \in [Clients -> Header] /\ request'[c] = h
  BY <1>1 DEF Submit, TypeOK
<1> HIDE DEF h
<1>3. up' \in [Clients -> Seq(Byte)] /\ cpc' \in [Clients -> ClientPC]
  <2>1. ClientSends(c, Encode(h), next)
    BY <1>2 DEF Submit
  <2>2. Encode(h) \in Seq(Byte)
    BY <1>1, EncodeType
  <2> QED
    BY <2>1, <2>2, ClientSendsType
<1>4. asked' \in 0 .. MaxRequests
  BY CixAssumption DEF Submit, TypeOK
<1> QED
  BY <1>2, <1>3, <1>4 DEF Submit, TypeOK, serverVars, fileVars

\* No step of a client leaves the types.
LEMMA ClientType ==
  ASSUME TypeOK, NEW c \in Clients, ClientNext(c)
  PROVE  TypeOK'
<1>1. ASSUME NEW name, cix_ls(c) \/ cix_get(c, name) \/ cix_rm(c, name) PROVE TypeOK'
  <2>1. 0 \in Word /\ "header" \in ClientPC
    BY WordSize DEF ClientPC
  <2> QED
    BY <1>1, <2>1, SubmitType DEF cix_ls, cix_get, cix_rm
<1>2. ASSUME NEW name \in Byte, cix_put(c, name) PROVE TypeOK'
  <2>1. local[c][name] \in Content
    BY <1>2, Pieces DEF cix_put
  <2>2. Htonl(Len(local[c][name])) \in Word
    BY <2>1, NtohlInvertsHtonl DEF Content
  <2>3. "header" \in ClientPC /\ "payload out" \in ClientPC
    BY DEF ClientPC
  <2> DEFINE next == IF Len(local[c][name]) = 0 THEN "header" ELSE "payload out"
  <2>4. next \in ClientPC /\ Submit(c, PUT, name, Htonl(Len(local[c][name])), next)
    BY <1>2, <2>3 DEF cix_put
  <2> HIDE DEF next
  <2> QED
    BY <2>2, <2>4, SubmitType
<1>3. CASE put_payload(c)
  <2> DEFINE n == Ntohl(request[c].nbytes)
  <2>1. n \in Word
    BY Pieces, NtohlInvertsHtonl DEF Header, Ntohl
  <2>2. Zeros(n) \in Seq(Byte)
    <3> HIDE DEF n
    <3> QED
      BY <2>1, WordSize DEF Zeros
  <2>3. up' \in [Clients -> Seq(Byte)] /\ cpc' \in [Clients -> ClientPC]
    BY <1>3, <2>2, ClientSendsType DEF put_payload, ClientPC
  <2> QED
    BY <1>3, <2>3 DEF put_payload, TypeOK, serverVars, fileVars
<1>4. CASE recv_reply(c)
  <2>1. HeaderSize \in 0 .. Len(down[c]) /\ down[c] \in Seq(Byte)
    BY <1>4, Pieces, LenProperties DEF recv_reply, HeaderSize
  <2>2. Decode(down[c]) \in Header
    BY <1>4, <2>1, DecodeType DEF recv_reply
  <2>3. Left(down[c], HeaderSize) \in Seq(Byte)
    BY <2>1, LeftType, Zenon
  <2>4. reply' \in [Clients -> Header]
    BY <1>4, <2>2 DEF recv_reply, TypeOK
  <2>5. cpc' \in [Clients -> ClientPC]
    BY <1>4 DEF recv_reply, TypeOK, ClientPC
  <2>6. down' \in [Clients -> Seq(Byte)]
    BY <1>4, <2>3 DEF recv_reply, TypeOK
  <2> QED
    BY <1>4, <2>4, <2>5, <2>6 DEF recv_reply, TypeOK, serverVars, fileVars
<1>5. CASE recv_payload(c)
  <2> DEFINE n == Ntohl(reply[c].nbytes)
  <2>1. n \in Word
    BY Pieces, NtohlInvertsHtonl DEF Header, Ntohl
  <2>2. n \in 0 .. Len(down[c]) /\ down[c] \in Seq(Byte)
    BY <1>5, <2>1, Pieces, LenProperties, WordSize DEF recv_payload
  <2>3. Left(down[c], n) \in Seq(Byte) /\ Taken(down[c], n) \in Seq(Byte) /\ Len(Taken(down[c], n)) = n
    <3> HIDE DEF n
    <3> QED
      BY <2>2, LeftType, TakenType, Zenon
  <2>4. Taken(down[c], n) \in Content
    BY <2>1, <2>3 DEF Content
  <2>5. local' \in [Clients -> [Byte -> Content \cup {Nothing}]]
    <3>1. local' = local \/ local' = [local EXCEPT ![c][request[c].filename] = Taken(down[c], n)]
      BY <1>5 DEF recv_payload
    <3>2. local \in [Clients -> [Byte -> Content \cup {Nothing}]]
      BY DEF TypeOK
    <3> DEFINE got == Taken(down[c], n)
               f == request[c].filename
    <3> HIDE DEF got, f
    <3> QED
      BY <2>4, <3>1, <3>2 DEF got, f
  <2>6. down' \in [Clients -> Seq(Byte)]
    BY <1>5, <2>3 DEF recv_payload, TypeOK
  <2>7. cpc' \in [Clients -> ClientPC]
    BY <1>5 DEF recv_payload, TypeOK, ClientPC
  <2> QED
    BY <1>5, <2>5, <2>6, <2>7 DEF recv_payload, TypeOK, serverVars, fileVars
<1>6. CASE client_recv_closed(c) \/ leave(c)
  <2>1. cpc' = [cpc EXCEPT ![c] = "closed"] /\ down' = [down EXCEPT ![c] = << >>]
        /\ UNCHANGED << request, reply, asked, local, up, serverVars, fileVars >>
    BY <1>6 DEF client_recv_closed, leave
  <2>2. << >> \in Seq(Byte)
    BY EmptySeq
  <2> QED
    BY <2>1, <2>2 DEF TypeOK, ClientPC, serverVars, fileVars
<1> QED
  BY <1>1, <1>2, <1>3, <1>4, <1>5, <1>6 DEF ClientNext, ClientReceives

-----------------------------------------------------------------------------
(* The steps of a server keep the types. *)

\* What a step of the server leaves alone when it answers and closes.
LEMMA AnswersType ==
  ASSUME TypeOK, NEW c \in Clients, NEW bytes \in Seq(Byte), NEW cmds,
         Received(c, cmds), ServerSends(c, bytes, "header"),
         UNCHANGED << clientVars, header, handle, buffer >>,
         dir' \in [Byte -> Inodes \cup {NoInode}], disk' \in [Inodes -> Content]
  PROVE  TypeOK'
<1>1. up' \in [Clients -> Seq(Byte)] /\ spc[c] = "header" /\ handle[c] = NoInode
  BY ReceivedType
<1>2. "header" \in ServerPC
  BY DEF ServerPC
<1>3. /\ down' \in [Clients -> Seq(Byte)] /\ spc' \in [Clients -> ServerPC]
      /\ spc'[c] \in {"header", "done"} /\ \A d \in Clients \ {c} : spc'[d] = spc[d]
  BY <1>2, ServerSendsType
<1>4. \A d \in Clients : handle[d] # NoInode <=> spc'[d] \in {"get", "put", "flush", "unwind"}
  BY <1>1, <1>3 DEF TypeOK
<1> QED
  BY <1>1, <1>3, <1>4 DEF TypeOK, clientVars

\* A listing is bytes.
LEMMA LsType == ASSUME TypeOK, NEW c \in Clients, reply_ls(c) PROVE TypeOK'
<1> DEFINE h1 == [nbytes |-> Htonl(Len(Listing)), command |-> LSOUT, filename |-> 0]
           h2 == [Decode(up[c]) EXCEPT !.nbytes = Htonl(Errno), !.command = NAK]
<1>0. Received(c, {LS}) /\ Decode(up[c]) \in Header
  BY ReceivedType DEF reply_ls
<1>1. h1 \in Header /\ h2 \in Header
  <2>1. Errno \in Word /\ Len(Listing) \in Word
    BY WordSize, ListingType DEF Errno
  <2>2. Htonl(Len(Listing)) \in Word /\ Htonl(Errno) \in Word
    BY <2>1, NtohlInvertsHtonl
  <2>3. LSOUT \in Byte /\ NAK \in Byte /\ 0 \in Byte
    BY WordSize DEF LSOUT, NAK
  <2> QED
    BY <1>0, <2>2, <2>3 DEF Header
<1>2. Encode(h1) \o Listing \in Seq(Byte) /\ Encode(h2) \in Seq(Byte)
  BY <1>1, HeaderFirst, EncodeType, ListingType
<1>3. PICK bytes \in Seq(Byte) : ServerSends(c, bytes, "header")
  BY <1>2 DEF reply_ls
<1> QED
  BY <1>3, AnswersType DEF reply_ls, fileVars, TypeOK

\* The first half of a get: the header of a file that exists.
LEMMA FileoutType ==
  ASSUME TypeOK, NEW h \in Header, dir[h.filename] # NoInode
  PROVE  LET length == Len(disk[dir[h.filename]])
         IN  /\ length \in Word
             /\ [h EXCEPT !.nbytes = Htonl(length), !.command = FILEOUT] \in Header
<1>1. h.filename \in Byte
  BY DEF Header
<1>2. disk[dir[h.filename]] \in Content
  BY <1>1 DEF TypeOK
<1>3. Len(disk[dir[h.filename]]) \in Word
  BY <1>2 DEF Content
<1>4. Htonl(Len(disk[dir[h.filename]])) \in Word /\ FILEOUT \in Byte
  BY <1>3, NtohlInvertsHtonl, WordSize DEF FILEOUT
<1> QED
  BY <1>3, <1>4 DEF Header

\* A get opens an inode just when it has a payload to send.
LEMMA GetType == ASSUME TypeOK, NEW c \in Clients, reply_get(c) PROVE TypeOK'
<1> DEFINE h == Decode(up[c])
           length == Len(disk[dir[h.filename]])
           fileout == [h EXCEPT !.nbytes = Htonl(length), !.command = FILEOUT]
<1>0. Received(c, {GET}) /\ UNCHANGED << clientVars, buffer, fileVars >>
  BY DEF reply_get
<1>1. /\ up' \in [Clients -> Seq(Byte)] /\ h \in Header
      /\ spc[c] = "header" /\ handle[c] = NoInode
  BY <1>0, ReceivedType
<1>2. dir' \in [Byte -> Inodes \cup {NoInode}] /\ disk' \in [Inodes -> Content]
  BY <1>0 DEF TypeOK, fileVars
<1>3. CASE ServerSends(c, Answer(h, NAK), "header") /\ UNCHANGED << header, handle >>
  <2>1. Answer(h, NAK) \in Seq(Byte)
    BY <1>1, AnswerType DEF NAK
  <2> QED
    BY <1>0, <1>2, <1>3, <2>1, AnswersType
<1>4. CASE /\ dir[h.filename] # NoInode
           /\ ServerSends(c, Encode(fileout), "header") /\ UNCHANGED << header, handle >>
  <2>1. Encode(fileout) \in Seq(Byte)
    BY <1>1, <1>4, FileoutType, EncodeType
  <2> HIDE DEF fileout
  <2> QED
    BY <1>0, <1>2, <1>4, <2>1, AnswersType
<1>5. CASE /\ dir[h.filename] # NoInode
           /\ ServerSends(c, Encode(fileout), "get")
           /\ header' = [header EXCEPT ![c] = fileout]
           /\ handle' = [handle EXCEPT ![c] =
                IF spc'[c] = "get" THEN dir[h.filename] ELSE NoInode]
  <2>1. fileout \in Header /\ Encode(fileout) \in Seq(Byte)
    BY <1>1, <1>5, FileoutType, EncodeType
  <2>2. dir[h.filename] \in Inodes
    BY <1>1, <1>5 DEF TypeOK, Header
  <2> HIDE DEF fileout
  <2>3. /\ down' \in [Clients -> Seq(Byte)] /\ spc' \in [Clients -> ServerPC]
        /\ spc'[c] \in {"get", "done"} /\ \A d \in Clients \ {c} : spc'[d] = spc[d]
    BY <1>5, <2>1, ServerSendsType DEF ServerPC
  <2>4. header' \in [Clients -> Header]
    BY <1>5, <2>1 DEF TypeOK
  <2>5. /\ handle' \in [Clients -> Inodes \cup {NoInode}]
        /\ handle'[c] = (IF spc'[c] = "get" THEN dir[h.filename] ELSE NoInode)
        /\ \A d \in Clients \ {c} : handle'[d] = handle[d]
    BY <1>5, <2>2 DEF TypeOK
  <2>6. \A d \in Clients : handle'[d] # NoInode <=> spc'[d] \in {"get", "put", "flush", "unwind"}
    BY <2>2, <2>3, <2>5, NoInodeType DEF TypeOK
  <2> QED
    BY <1>0, <1>1, <1>2, <2>3, <2>4, <2>5, <2>6 DEF TypeOK, clientVars
<1> QED
  BY <1>3, <1>4, <1>5 DEF reply_get, CanOpenForReading

\* Sending the file closes it.
LEMMA SendFileType == ASSUME TypeOK, NEW c \in Clients, send_file(c) PROVE TypeOK'
<1> DEFINE length == Ntohl(header[c].nbytes)
           content == disk[handle[c]]
           bytes == [i \in 1 .. length |-> IF i <= Len(content) THEN content[i] ELSE 0]
<1>1. length \in Nat
  BY Pieces, NtohlInvertsHtonl, WordSize DEF Header, Ntohl
<1>2. content \in Seq(Byte)
  <2>1. handle[c] \in Inodes
    BY Pieces DEF send_file
  <2> QED
    BY <2>1 DEF TypeOK, Content
<1>3. bytes \in Seq(Byte)
  <2> HIDE DEF length, content
  <2>1. \A i \in 1 .. length : (IF i <= Len(content) THEN content[i] ELSE 0) \in Byte
    BY <1>1, <1>2, LenProperties, WordSize
  <2> QED
    BY <1>1, <2>1
<1>4. ServerSends(c, bytes, "header")
  BY DEF send_file
<1> HIDE DEF bytes
<1>5. /\ down' \in [Clients -> Seq(Byte)] /\ spc' \in [Clients -> ServerPC]
      /\ spc'[c] \in {"header", "done"} /\ \A d \in Clients \ {c} : spc'[d] = spc[d]
  BY <1>3, <1>4, ServerSendsType DEF ServerPC
<1>6. handle' \in [Clients -> Inodes \cup {NoInode}] /\ handle'[c] = NoInode
      /\ \A d \in Clients \ {c} : handle'[d] = handle[d]
  BY DEF send_file, TypeOK
<1>7. \A d \in Clients : handle'[d] # NoInode <=> spc'[d] \in {"get", "put", "flush", "unwind"}
  BY <1>5, <1>6 DEF TypeOK
<1> QED
  BY <1>5, <1>6, <1>7 DEF send_file, TypeOK, clientVars, fileVars

\* Some inode is free where a put takes one.
LEMMA FirstFree ==
  ASSUME FreeInodes # {}
  PROVE  LET i == CHOOSE i \in FreeInodes : \A j \in FreeInodes : i <= j
         IN  i \in FreeInodes /\ i \in Inodes
<1>1. FreeInodes \subseteq Nat /\ FreeInodes \subseteq Inodes
  BY CixAssumption DEF FreeInodes, Inodes
<1>2. \E i \in FreeInodes : \A j \in FreeInodes : i <= j
  BY <1>1, LeastNumber
<1> QED
  BY <1>1, <1>2

PutInode(f) == IF dir[f] # NoInode THEN dir[f]
               ELSE CHOOSE i \in FreeInodes : \A j \in FreeInodes : i <= j

\* A put that may write has an inode to write to.
LEMMA PutInodeType ==
  ASSUME TypeOK, NEW f \in Byte, CanOpenForWriting(f)
  PROVE  /\ PutInode(f) \in Inodes
         /\ dir[f] # NoInode => PutInode(f) = dir[f]
         /\ dir[f] = NoInode => PutInode(f) \in FreeInodes
BY FirstFree DEF PutInode, TypeOK, CanOpenForWriting

\* The empty file is a file.
LEMMA EmptyContent == << >> \in Content /\ << >> \in Seq(Byte)
BY WordSize, EmptySeq DEF Content

\* A put opens an inode just when it waits for a payload.
LEMMA PutType == ASSUME TypeOK, NEW c \in Clients, reply_put(c) PROVE TypeOK'
<1> DEFINE h == Decode(up[c])
           f == h.filename
           inode == PutInode(f)
           writable == checkValidFileName(f) /\ CanOpenForWriting(f)
<1>0. Received(c, {PUT}) /\ UNCHANGED << clientVars, buffer >>
  BY DEF reply_put
<1>1. /\ up' \in [Clients -> Seq(Byte)] /\ h \in Header
      /\ spc[c] = "header" /\ handle[c] = NoInode
  BY <1>0, ReceivedType
<1>2. f \in Byte
  BY <1>1 DEF Header
<1>3. CASE ~ writable
  <2>1. ServerSends(c, Answer(h, NAK), "header") /\ UNCHANGED << header, handle, fileVars >>
    BY <1>3 DEF reply_put
  <2>2. Answer(h, NAK) \in Seq(Byte)
    BY <1>1, AnswerType DEF NAK
  <2>3. dir' \in [Byte -> Inodes \cup {NoInode}] /\ disk' \in [Inodes -> Content]
    BY <2>1 DEF TypeOK, fileVars
  <2> QED
    BY <1>0, <2>1, <2>2, <2>3, AnswersType
<1>4. CASE writable
  <2>1. inode \in Inodes
    BY <1>2, <1>4, PutInodeType
  <2>2. dir' = [dir EXCEPT ![f] = inode] /\ disk' = [disk EXCEPT ![inode] = << >>]
    BY <1>4 DEF reply_put, PutInode
  <2>3. dir' \in [Byte -> Inodes \cup {NoInode}] /\ disk' \in [Inodes -> Content]
    <3> HIDE DEF inode, f
    <3> QED
      BY <2>1, <2>2, EmptyContent DEF TypeOK
  <2>4. CASE h.nbytes = 0
    <3>1. ServerSends(c, Answer(h, ACK), "header") /\ UNCHANGED << header, handle >>
      BY <1>4, <2>4 DEF reply_put
    <3>2. Answer(h, ACK) \in Seq(Byte)
      BY <1>1, AnswerType DEF ACK
    <3> QED
      BY <1>0, <2>3, <3>1, <3>2, AnswersType
  <2>5. CASE h.nbytes # 0
    <3>1. /\ header' = [header EXCEPT ![c] = h]
          /\ handle' = [handle EXCEPT ![c] = inode]
          /\ spc' = [spc EXCEPT ![c] = "put"]
          /\ down' = down
      BY <1>4, <2>5 DEF reply_put, PutInode
    <3> HIDE DEF inode, h
    <3>2. header' \in [Clients -> Header] /\ handle' \in [Clients -> Inodes \cup {NoInode}]
          /\ spc' \in [Clients -> ServerPC]
      BY <1>1, <2>1, <3>1 DEF TypeOK, ServerPC
    <3>3. \A d \in Clients : handle'[d] # NoInode <=> spc'[d] \in {"get", "put", "flush", "unwind"}
      BY <2>1, <3>1, NoInodeType DEF TypeOK
    <3> QED
      BY <1>0, <1>1, <2>3, <3>1, <3>2, <3>3 DEF TypeOK, clientVars
  <2> QED
    BY <2>4, <2>5
<1> QED
  BY <1>3, <1>4

\* What recv clears fits a file, whatever the header says.
LEMMA RecvFileType == ASSUME TypeOK, NEW c \in Clients, recv_file(c) PROVE TypeOK'
<1> DEFINE n == PutNeeds(c)
           m == header[c].nbytes
           s == up[c]
<1>1. m \in Nat /\ m < Radix * Radix /\ Radix * Radix \in Nat
  <2>1. m \in Word
    BY Pieces DEF Header
  <2> QED
    BY <2>1, WordSize DEF Word
<1>2. n = (m + 1) % (Radix * Radix) /\ n > 0 /\ Len(s) >= n /\ spc[c] = "put"
  BY DEF recv_file, PutNeeds
<1>3. s \in Seq(Byte) /\ Len(s) \in Nat /\ buffer[c] \in Seq(Byte) /\ down[c] \in Seq(Byte)
      /\ header[c] \in Header
  BY Pieces, LenProperties
<1>4. n \in 0 .. Len(s) /\ m \in 0 .. Len(s)
  <2> DEFINE W == Radix * Radix
  <2> HIDE DEF m, n, s, W
  <2>1. m \in Nat /\ W \in Nat /\ m < W /\ n = (m + 1) % W
    BY <1>1, <1>2 DEF W
  <2>2. m + 1 = W \/ (m + 1 < W /\ n = m + 1)
    BY <2>1
  <2>3. W % W = 0
    BY <2>1
  <2>4. m + 1 # W
    BY <1>2, <2>1, <2>3
  <2>5. n = m + 1 /\ n <= Len(s)
    BY <1>2, <2>2, <2>4
  <2> QED
    BY <1>3, <2>1, <2>5
<1>5. Left(s, n) \in Seq(Byte) /\ Taken(s, m) \in Seq(Byte)
      /\ Len(Taken(s, m)) = m
  <2> HIDE DEF m, n, s
  <2> QED
    BY <1>3, <1>4, LeftType, TakenType, Zenon
<1>6. down[c] \o Answer(header[c], ACK) \in Seq(Byte)
  <2>1. Answer(header[c], ACK) \in Seq(Byte)
    BY <1>3, AnswerType DEF ACK
  <2> QED
    BY <1>3, <2>1, ConcatProperties
<1>7. up' = [up EXCEPT ![c] = Left(s, n)] /\ buffer' = [buffer EXCEPT ![c] = Taken(s, m)]
  BY DEF recv_file
<1> HIDE DEF n, m, s
<1>8. up' \in [Clients -> Seq(Byte)] /\ buffer' \in [Clients -> Content]
  <2>1. m \in Word
    BY <1>1 DEF Word
  <2>2. Taken(s, m) \in Content
    BY <1>5, <2>1 DEF Content
  <2> QED
    BY <1>5, <1>7, <2>2 DEF TypeOK
<1>9. down' \in [Clients -> Seq(Byte)]
  <2> DEFINE more == down[c] \o Answer(header[c], ACK)
  <2>1. down' = [down EXCEPT ![c] = more] \/ down' = down
    BY DEF recv_file
  <2> HIDE DEF more
  <2> QED
    BY <1>3, <1>6, <2>1 DEF TypeOK, more
<1>10. \E pc \in {"flush", "unwind"} : spc' = [spc EXCEPT ![c] = pc]
  BY DEF recv_file
<1>11. /\ spc' \in [Clients -> ServerPC]
       /\ \A d \in Clients : handle'[d] # NoInode <=> spc'[d] \in {"get", "put", "flush", "unwind"}
  BY <1>2, <1>10 DEF recv_file, TypeOK, ServerPC
<1> QED
  BY <1>8, <1>9, <1>11 DEF recv_file, TypeOK, clientVars, fileVars

\* The flush writes a file and closes it.
LEMMA FlushType ==
  ASSUME TypeOK, NEW c \in Clients, flush_file(c)
  PROVE  TypeOK'
<1> DEFINE old == disk[handle[c]]
           b == buffer[c]
<1>1. handle[c] \in Inodes /\ b \in Seq(Byte) /\ Len(b) \in Word /\ spc[c] \in {"flush", "unwind"}
  BY Pieces DEF flush_file, Content
<1>2. old \in Content
  BY <1>1 DEF TypeOK
<1>3. b \o Left(old, Len(b)) \in Content
  <2> HIDE DEF b, old
  <2>1. old \in Seq(Byte) /\ Len(old) \in Word /\ Len(old) \in Nat /\ Len(b) \in Nat
    BY <1>1, <1>2, LenProperties DEF Content
  <2>2. CASE Len(b) <= Len(old)
    <3>1. Left(old, Len(b)) \in Seq(Byte) /\ Len(Left(old, Len(b))) = Len(old) - Len(b)
      BY <2>1, <2>2, LeftType
    <3>2. b \o Left(old, Len(b)) \in Seq(Byte)
          /\ Len(b \o Left(old, Len(b))) = Len(b) + Len(Left(old, Len(b)))
      BY <1>1, <3>1, ConcatProperties
    <3>3. Len(b \o Left(old, Len(b))) = Len(old)
      BY <2>1, <3>1, <3>2
    <3> QED
      BY <2>1, <3>2, <3>3 DEF Content
  <2>3. CASE Len(b) > Len(old)
    <3>1. Left(old, Len(b)) = << >>
      BY <2>1, <2>3, SubSeqEmpty DEF Left
    <3>2. b \o Left(old, Len(b)) = b
      BY <1>1, <3>1, ConcatEmptySeq
    <3> QED
      BY <1>1, <3>2 DEF Content
  <2> QED
    BY <2>1, <2>2, <2>3
<1>4. disk' \in [Inodes -> Content]
  <2>1. disk' = [disk EXCEPT ![handle[c]] = b \o Left(old, Len(b))]
    BY DEF flush_file
  <2> DEFINE x == b \o Left(old, Len(b))
  <2> HIDE DEF x
  <2> QED
    BY <1>3, <2>1 DEF TypeOK, x
<1>5. buffer' \in [Clients -> Content] /\ handle' \in [Clients -> Inodes \cup {NoInode}]
      /\ spc' \in [Clients -> ServerPC]
  BY EmptyContent DEF flush_file, TypeOK, ServerPC
<1>6. \A d \in Clients : handle'[d] # NoInode <=> spc'[d] \in {"get", "put", "flush", "unwind"}
  BY DEF flush_file, TypeOK
<1> QED
  BY <1>4, <1>5, <1>6 DEF flush_file, TypeOK, clientVars

\* An rm removes a name.
LEMMA RmType == ASSUME TypeOK, NEW c \in Clients, reply_rm(c) PROVE TypeOK'
<1> DEFINE h == Decode(up[c])
           ok == checkValidFileName(h.filename) /\ CanUnlink(h.filename)
<1>0. /\ Received(c, {RM}) /\ UNCHANGED << clientVars, header, handle, buffer, disk >>
      /\ ServerSends(c, Answer(h, IF ok THEN ACK ELSE NAK), "header")
      /\ dir' = IF ok THEN [dir EXCEPT ![h.filename] = NoInode] ELSE dir
  BY DEF reply_rm
<1> HIDE DEF ok
<1>1. h \in Header
  BY <1>0, ReceivedType
<1>2. (IF ok THEN ACK ELSE NAK) \in 0 .. 10
  BY DEF ACK, NAK
<1>3. Answer(h, IF ok THEN ACK ELSE NAK) \in Seq(Byte)
  BY <1>1, <1>2, AnswerType
<1>4. dir' \in [Byte -> Inodes \cup {NoInode}] /\ disk' \in [Inodes -> Content]
  <2> HIDE DEF h
  <2> QED
    BY <1>0 DEF TypeOK
<1> QED
  BY <1>0, <1>3, <1>4, AnswersType

\* A server that ends closes its inode.
LEMMA ServerEndsType ==
  ASSUME TypeOK, NEW c \in Clients, heap_overflow(c) \/ server_recv_closed(c)
  PROVE  TypeOK'
<1>1. /\ spc' = [spc EXCEPT ![c] = "crashed"] \/ spc' = [spc EXCEPT ![c] = "done"]
      /\ handle' = [handle EXCEPT ![c] = NoInode]
      /\ UNCHANGED << clientVars, up, down, header, buffer, fileVars >>
  BY DEF heap_overflow, server_recv_closed
<1>2. spc' \in [Clients -> ServerPC] /\ handle' \in [Clients -> Inodes \cup {NoInode}]
  BY <1>1 DEF TypeOK, ServerPC
<1>3. \A d \in Clients : handle'[d] # NoInode <=> spc'[d] \in {"get", "put", "flush", "unwind"}
  BY <1>1 DEF TypeOK
<1> QED
  BY <1>1, <1>2, <1>3 DEF TypeOK, clientVars, fileVars

\* A header that is no request is dropped.
LEMMA InvalidType == ASSUME TypeOK, NEW c \in Clients, invalid_header(c) PROVE TypeOK'
<1>1. up' \in [Clients -> Seq(Byte)]
  BY ReceivedType DEF invalid_header
<1> QED
  BY <1>1 DEF invalid_header, TypeOK, clientVars, serverVars, fileVars

\* A stream that is cut short is a stream.
LEMMA LoseType == ASSUME TypeOK, NEW c \in Clients, lose_end(c) PROVE TypeOK'
<1>1. ASSUME NEW n \in Cuts, NEW s \in Seq(Byte), n < Len(s) PROVE Taken(s, n) \in Seq(Byte)
  <2>1. n \in 0 .. Len(s)
    BY <1>1, CixAssumption, LenProperties
  <2> QED
    BY <2>1, TakenType, Zenon
<1>2. up' \in [Clients -> Seq(Byte)] /\ down' \in [Clients -> Seq(Byte)]
  <2>1. CASE down' = down /\ \E n \in Cuts : n < Len(up[c]) /\ up' = [up EXCEPT ![c] = Taken(@, n)]
    <3>1. PICK n \in Cuts : n < Len(up[c]) /\ up' = [up EXCEPT ![c] = Taken(up[c], n)]
      BY <2>1
    <3>2. Taken(up[c], n) \in Seq(Byte)
      BY <1>1, <3>1, Pieces
    <3> QED
      BY <2>1, <3>1, <3>2 DEF TypeOK
  <2>2. CASE up' = up /\ \E n \in Cuts : n < Len(down[c]) /\ down' = [down EXCEPT ![c] = Taken(@, n)]
    <3>1. PICK n \in Cuts : n < Len(down[c]) /\ down' = [down EXCEPT ![c] = Taken(down[c], n)]
      BY <2>2
    <3>2. Taken(down[c], n) \in Seq(Byte)
      BY <1>1, <3>1, Pieces
    <3> QED
      BY <2>2, <3>1, <3>2 DEF TypeOK
  <2> QED
    BY <2>1, <2>2 DEF lose_end
<1> QED
  BY <1>2 DEF lose_end, TypeOK, clientVars, serverVars, fileVars

\* The types are inductive: no step needs more.
LEMMA TypeStep == TypeOK /\ [Next]_vars => TypeOK'
<1> SUFFICES ASSUME TypeOK, [Next]_vars PROVE TypeOK'
  OBVIOUS
<1>1. ASSUME NEW c \in Clients, ClientNext(c) PROVE TypeOK'
  BY <1>1, ClientType
<1>2. ASSUME NEW c \in Clients, ServerNext(c) PROVE TypeOK'
  BY <1>2, LsType, GetType, SendFileType, PutType, RecvFileType, FlushType, RmType,
     ServerEndsType, InvalidType DEF ServerNext
<1>3. ASSUME NEW c \in Clients, lose_end(c) PROVE TypeOK'
  BY <1>3, LoseType
<1>4. CASE UNCHANGED vars
  BY <1>4 DEF vars, TypeOK, clientVars, serverVars, fileVars
<1> QED
  BY <1>1, <1>2, <1>3, <1>4 DEF Next

(* Whatever the clients ask for, however the streams are garbled or cut,   *)
(* every header, file and stream keeps its type, and a server holds an     *)
(* inode exactly while it has a file open.                                 *)
THEOREM TypeCorrect == Spec => []TypeOK
BY TypeInit, TypeStep, PTL DEF Spec

-----------------------------------------------------------------------------
(* The sessions in which every put is empty *)

\* What a user typed; what is put is empty.
RealRequest(c) == /\ << request[c].command, request[c].filename >> \in Menu
                  /\ request[c].command = PUT => request[c].nbytes = 0

Fits(cmd, got) == CASE cmd = LS -> got \in {LSOUT, NAK}
                    [] cmd = GET -> got \in {FILEOUT, NAK}
                    [] OTHER -> got \in {ACK, NAK}

\* A payload follows the header h of the reply to r.
Carries(r, h) == \/ r.command = LS /\ h.command = LSOUT
                 \/ r.command = GET /\ h.command = FILEOUT /\ h.nbytes # 0

\* What is still to come of the reply to r whose header is h, with rest behind
\* it, from a server that is at pc and works on hdr.
OwedBy(r, pc, hdr, h, rest) ==
  IF Carries(r, h)
    THEN /\ h.command = FILEOUT => r.filename \notin PutNames
         /\ Ntohl(h.nbytes) > 0
         /\ \/ pc = "header" /\ Len(rest) = Ntohl(h.nbytes)
            \/ pc = "get" /\ rest = << >> /\ hdr.nbytes = h.nbytes /\ h.command = FILEOUT
    ELSE pc = "header" /\ rest = << >>

Owed(c, h, rest) == OwedBy(request[c], spc[c], header[c], h, rest)

Unread(c) == /\ RealRequest(c) /\ up[c] = Encode(request[c]) /\ down[c] = << >>
             /\ spc[c] = "header"

Replied(c) == /\ RealRequest(c) /\ up[c] = << >> /\ Len(down[c]) >= HeaderSize
              /\ Fits(request[c].command, Decode(down[c]).command)
              /\ Owed(c, Decode(down[c]), Left(down[c], HeaderSize))

Receiving(c) == /\ RealRequest(c) /\ up[c] = << >> /\ Carries(request[c], reply[c])
                /\ Owed(c, reply[c], down[c])

\* The server of a client that has left may still read its last request.
Gone(c) == /\ down[c] = << >> /\ spc[c] \in {"header", "get", "done"}
           /\ Len(up[c]) >= HeaderSize => up[c] = Encode(request[c]) /\ RealRequest(c)

Session(c) == /\ cpc[c] = "prompt" => up[c] = << >> /\ down[c] = << >> /\ spc[c] = "header"
              /\ cpc[c] = "header" => Unread(c) \/ Replied(c)
              /\ cpc[c] = "payload" => Receiving(c)
              /\ cpc[c] = "closed" => Gone(c)
              /\ cpc[c] # "payload out"

\* The files that can be put are empty wherever they are; no file that a
\* server has open changes its length.
EmptyFiles ==
  /\ \A f \in PutNames : dir[f] # NoInode => disk[dir[f]] = << >>
  /\ \A c \in Clients, f \in PutNames : local[c][f] \in {<< >>, Nothing}
  /\ \A f \in Byte : dir[f] # NoInode => f \in DOMAIN InitFiles \cup (PutNames \ Slashed)
  /\ \A c \in Clients : spc[c] = "get" => /\ Len(disk[handle[c]]) = Ntohl(header[c].nbytes)
                                          /\ disk[handle[c]] # << >>

SessionInv == EmptyFiles /\ \A c \in Clients : Session(c)

\* What a client and its server have to do with each other.
Line(c) == << cpc[c], request[c], reply[c], up[c], down[c], spc[c], header[c] >>

-----------------------------------------------------------------------------
(* The steps of a client keep its session in step. *)

\* htonl swaps bytes, so zero stays zero.
LEMMA HtonlZero == Htonl(0) = 0 /\ Ntohl(0) = 0
<1>1. 0 % Radix = 0 /\ 0 \div Radix = 0
  BY RadixAssumption
<1> QED
  BY <1>1, WordSize DEF Htonl, Ntohl

\* No other word becomes zero.
LEMMA HtonlPositive ==
  ASSUME NEW n \in Word, n # 0
  PROVE  Htonl(n) # 0 /\ Ntohl(Htonl(n)) = n /\ n > 0 /\ Htonl(n) \in Word
<1>1. Ntohl(Htonl(n)) = n /\ Htonl(n) \in Word
  BY NtohlInvertsHtonl
<1>2. n > 0
  BY WordSize
<1> QED
  BY <1>1, <1>2, HtonlZero

\* A session is a matter of its own variables.
LEMMA SessionSame ==
  ASSUME NEW c \in Clients, Line(c)' = Line(c)
  PROVE  Session(c)' <=> Session(c)
BY DEF Line, Session, Unread, Replied, Receiving, Gone, Owed, OwedBy, RealRequest

\* A step of one session leaves the others alone.
LEMMA Frame ==
  ASSUME TypeOK, NEW c \in Clients, ClientNext(c) \/ ServerNext(c) \/ lose_end(c),
         NEW d \in Clients, d # c
  PROVE  Line(d)' = Line(d) /\ handle'[d] = handle[d] /\ local'[d] = local[d]
<1> USE DEF TypeOK, Line, clientVars, serverVars, fileVars
<1>1. CASE ClientNext(c)
  <2>1. ASSUME NEW cmd, NEW name, NEW n, NEW next, Submit(c, cmd, name, n, next)
        PROVE  Line(d)' = Line(d) /\ handle'[d] = handle[d] /\ local'[d] = local[d]
    BY <2>1 DEF Submit, ClientSends
  <2>2. CASE put_payload(c)
    BY <2>2 DEF put_payload, ClientSends
  <2>3. CASE ClientReceives(c) \/ leave(c)
    BY <2>3 DEF ClientReceives, recv_reply, recv_payload, client_recv_closed, leave
  <2> QED
    BY <1>1, <2>1, <2>2, <2>3 DEF ClientNext, cix_ls, cix_get, cix_rm, cix_put
<1>2. CASE ServerNext(c)
  <2>1. CASE reply_ls(c)
    BY <2>1 DEF reply_ls, Received, ServerSends
  <2>2. CASE reply_get(c)
    BY <2>2 DEF reply_get, Received, ServerSends
  <2>3. CASE send_file(c)
    BY <2>3 DEF send_file, Received, ServerSends
  <2>4. CASE reply_put(c)
    BY <2>4 DEF reply_put, Received, ServerSends
  <2>5. CASE recv_file(c) \/ flush_file(c) \/ heap_overflow(c) \/ invalid_header(c) \/ server_recv_closed(c)
    BY <2>5 DEF recv_file, flush_file, heap_overflow, invalid_header, server_recv_closed, Received
  <2>6. CASE reply_rm(c)
    BY <2>6 DEF reply_rm, Received, ServerSends
  <2> QED
    BY <1>2, <2>1, <2>2, <2>3, <2>4, <2>5, <2>6 DEF ServerNext
<1>3. CASE lose_end(c)
  BY <1>3 DEF lose_end
<1> QED
  BY <1>1, <1>2, <1>3

\* The server of a client that is there is there too.
LEMMA OpenServer ==
  ASSUME NEW c \in Clients, TypeOK, Session(c), ClientOpen(c)
  PROVE  ServerOpen(c) /\ spc[c] \in {"header", "get"}
BY Pieces DEF Session, Unread, Replied, Receiving, Owed, OwedBy, ClientOpen, ServerOpen, ClientPC

\* The initial directory leads from every initial file to its content.
LEMMA InitialFile ==
  ASSUME Init, NEW f \in DOMAIN InitFiles
  PROVE  dir[f] # NoInode /\ disk[dir[f]] = InitFiles[f]
<1>1. f \in Byte /\ TypeOK
  BY CixAssumption, TypeInit
<1>3. (\E i \in DOMAIN InodeOf : InodeOf[i] = f) /\ DOMAIN InodeOf \subseteq Inodes
  <2> DEFINE S == DOMAIN InitFiles
  <2>1. S \subseteq Nat /\ IsFiniteSet(S) /\ Cardinality(S) <= MaxInodes /\ Cardinality(S) \in Nat
    <3>1. IsFiniteSet(Byte)
      BY FS_Interval, WordSize DEF Byte
    <3>2. S \in SUBSET Byte /\ Cardinality(S) <= MaxInodes
      BY CixAssumption
    <3> HIDE DEF S
    <3>3. IsFiniteSet(S)
      BY <3>1, <3>2, FS_Subset
    <3> QED
      BY <3>2, <3>3, WordSize, FS_CardinalityType
  <2>2. f \in S /\ MaxInodes \in Nat
    BY CixAssumption
  <2> HIDE DEF S
  <2>3. /\ InOrder(S) \in [1 .. Cardinality(S) -> S]
        /\ \E i \in 1 .. Cardinality(S) : InOrder(S)[i] = f
    BY <2>1, <2>2, InOrderLists
  <2>4. DOMAIN InOrder(S) \subseteq Inodes
    BY <2>1, <2>2, <2>3 DEF Inodes
  <2> QED
    BY <2>3, <2>4 DEF InodeOf, S
<1>4. dir[f] = CHOOSE i \in DOMAIN InodeOf : InodeOf[i] = f
  BY <1>1 DEF Init
<1>5. dir[f] \in DOMAIN InodeOf /\ InodeOf[dir[f]] = f
  BY <1>3, <1>4
<1>6. dir[f] \in Inodes
  BY <1>3, <1>5
<1> QED
  BY <1>5, <1>6, NoInodeType DEF Init

\* At the start every session is at its prompt, and no file that can be put
\* has bytes in it.
LEMMA SessionInit == EmptyPuts /\ Init => SessionInv
<1> SUFFICES ASSUME EmptyPuts, Init PROVE SessionInv
  OBVIOUS
<1>0. TypeOK
  BY TypeInit
<1>1. \A c \in Clients : Session(c)
  BY DEF Init, Session
<1>2. \A c \in Clients, f \in PutNames : local[c][f] \in {<< >>, Nothing}
  BY DEF EmptyPuts, PutNames, Init
<1>3. \A c \in Clients : spc[c] # "get"
  BY DEF Init
<1>4. \A f \in Byte : dir[f] # NoInode => f \in DOMAIN InitFiles
  BY DEF Init
<1>5. ASSUME NEW f \in PutNames, dir[f] # NoInode PROVE disk[dir[f]] = << >>
  <2>1. f \in DOMAIN InitFiles /\ InitFiles[f] = << >> /\ f \in Byte
    BY <1>4, <1>5 DEF EmptyPuts, PutNames
  <2> QED
    BY <2>1, InitialFile
<1> QED
  BY <1>1, <1>2, <1>3, <1>4, <1>5 DEF SessionInv, EmptyFiles

\* A put finds an empty file to send, so that no payload follows.
LEMMA PutIsEmpty ==
  ASSUME TypeOK, SessionInv, NEW c \in Clients, NEW name \in Byte, cix_put(c, name)
  PROVE  Submit(c, PUT, name, 0, "header")
<1>1. << PUT, name >> \in Menu
  BY DEF cix_put, Submit
<1>2. name \in PutNames
  BY <1>1 DEF PutNames
<1>3. local[c][name] \in {<< >>, Nothing}
  BY <1>2 DEF SessionInv, EmptyFiles
<1>4. local[c][name] = << >>
  BY <1>3 DEF cix_put
<1>5. Len(local[c][name]) = 0 /\ Htonl(0) = 0
  BY <1>4, HtonlZero
<1> QED
  BY <1>5 DEF cix_put

\* A command typed at the prompt is the one unread request.
LEMMA SubmitSession ==
  ASSUME TypeOK, SessionInv, NEW c \in Clients, NEW cmd, NEW name,
         Submit(c, cmd, name, 0, "header")
  PROVE  /\ Session(c)' /\ UNCHANGED << local, spc, header, handle, dir, disk, reply, down >>
         /\ cpc[c] = "prompt" /\ cpc' = [cpc EXCEPT ![c] = "header"]
         /\ up[c] = << >> /\ down[c] = << >> /\ << cmd, name >> \in Menu
         /\ \E h \in Header : /\ h.command = cmd /\ h.filename = name
                              /\ up' = [up EXCEPT ![c] = Encode(h)]
<1> DEFINE h == [nbytes |-> 0, command |-> cmd, filename |-> name]
<1>1. h \in Header
  <2>1. cmd \in Byte /\ name \in Byte
    BY CixAssumption, WordSize DEF Submit, GET, LS, PUT, RM
  <2> QED
    BY <2>1, WordSize DEF Header
<1>2. request' = [request EXCEPT ![c] = h] /\ request'[c] = h
  BY DEF Submit, TypeOK
<1>3. h.command = cmd /\ h.filename = name /\ h.nbytes = 0 /\ << cmd, name >> \in Menu
  BY DEF Submit
<1>4. cpc[c] = "prompt" /\ Session(c)
  BY DEF Submit, SessionInv
<1>5. up[c] = << >> /\ down[c] = << >> /\ spc[c] = "header"
  BY <1>4 DEF Session
<1>6. ServerOpen(c)
  BY <1>5 DEF ServerOpen
<1>7. cpc' = [cpc EXCEPT ![c] = "header"] /\ up' = [up EXCEPT ![c] = up[c] \o Encode(h)]
  BY <1>2, <1>6 DEF Submit, ClientSends
<1>8. up[c] \o Encode(h) = Encode(h)
  BY <1>1, <1>5, EncodeType, ConcatEmptySeq
<1> HIDE DEF h
<1>9. up' = [up EXCEPT ![c] = Encode(h)]
  BY <1>7, <1>8
<1>10. up'[c] = Encode(request'[c]) /\ cpc'[c] = "header"
  BY <1>2, <1>7, <1>9 DEF TypeOK
<1>11. UNCHANGED << local, spc, header, handle, dir, disk, reply, down >>
  BY DEF Submit, serverVars, fileVars
<1>12. RealRequest(c)'
  BY <1>2, <1>3 DEF RealRequest
<1>13. Session(c)'
  BY <1>5, <1>10, <1>11, <1>12 DEF Session, Unread
<1> QED
  BY <1>1, <1>3, <1>4, <1>5, <1>7, <1>9, <1>11, <1>13

\* The reply leaves its payload, or nothing, to be received.
LEMMA RecvReplySession ==
  ASSUME TypeOK, SessionInv, NEW c \in Clients, recv_reply(c)
  PROVE  Session(c)' /\ Replied(c)
<1> DEFINE h == Decode(down[c])
           rest == Left(down[c], HeaderSize)
<1>1. cpc[c] = "header" /\ Len(down[c]) >= HeaderSize /\ Session(c)
  BY DEF recv_reply, SessionInv
<1>2. Replied(c)
  BY <1>1 DEF Session, Unread, HeaderSize
<1>3. /\ cpc' = [cpc EXCEPT ![c] = IF Carries(request[c], h) THEN "payload" ELSE "prompt"]
      /\ reply' = [reply EXCEPT ![c] = h] /\ down' = [down EXCEPT ![c] = rest]
      /\ UNCHANGED << request, up, spc, header >>
  BY DEF recv_reply, Carries, serverVars
<1> HIDE DEF h, rest
<1>4. reply'[c] = h /\ down'[c] = rest
      /\ cpc'[c] = IF Carries(request[c], h) THEN "payload" ELSE "prompt"
  BY <1>3 DEF TypeOK
<1>5. RealRequest(c) /\ up[c] = << >> /\ Owed(c, h, rest)
  BY <1>2 DEF Replied, h, rest
<1>6. RealRequest(c)'
  BY <1>3, <1>5 DEF RealRequest
<1>7. CASE Carries(request[c], h)
  <2>1. Owed(c, reply[c], down[c])'
    BY <1>3, <1>4, <1>5 DEF Owed, OwedBy, Carries
  <2>2. Carries(request[c], reply[c])'
    BY <1>3, <1>4, <1>7 DEF Carries
  <2> QED
    <3>1. cpc'[c] = "payload" /\ up'[c] = << >>
      BY <1>3, <1>4, <1>5, <1>7
    <3>2. Receiving(c)'
      BY <1>6, <2>1, <2>2, <3>1 DEF Receiving
    <3> QED
      BY <1>2, <3>1, <3>2 DEF Session
<1>8. CASE ~ Carries(request[c], h)
  <2>1. cpc'[c] = "prompt" /\ up'[c] = << >> /\ spc'[c] = spc[c] /\ down'[c] = rest
    BY <1>3, <1>4, <1>5, <1>8
  <2>2. spc[c] = "header" /\ rest = << >>
    BY <1>5, <1>8 DEF Owed, OwedBy
  <2> QED
    BY <1>2, <2>1, <2>2 DEF Session
<1> QED
  BY <1>2, <1>7, <1>8

\* The payload ends the exchange, and is stored under no name that can be put.
LEMMA RecvPayloadSession ==
  ASSUME TypeOK, SessionInv, NEW c \in Clients, recv_payload(c)
  PROVE  /\ Session(c)'
         /\ \A f \in PutNames : local'[c][f] = local[c][f]
<1> DEFINE n == Ntohl(reply[c].nbytes)
<1>1. cpc[c] = "payload" /\ n > 0 /\ Len(down[c]) >= n /\ Session(c)
  BY DEF recv_payload, SessionInv
<1>2. RealRequest(c) /\ up[c] = << >> /\ Carries(request[c], reply[c])
      /\ Owed(c, reply[c], down[c])
  BY <1>1 DEF Session, Receiving
<1>3. n \in Nat
  BY Pieces, NtohlInvertsHtonl, WordSize DEF Header, Ntohl
<1>4. down[c] # << >> /\ down[c] \in Seq(Byte) /\ Len(down[c]) \in Nat
  <2>1. Len(<< >>) = 0
    OBVIOUS
  <2> HIDE DEF n
  <2> QED
    BY <1>1, <1>3, <2>1, Pieces, LenProperties
<1>5. spc[c] = "header" /\ Len(down[c]) = n
  BY <1>2, <1>4 DEF Owed, OwedBy
<1>6. Left(down[c], n) = << >>
  <2> HIDE DEF n
  <2> QED
    BY <1>3, <1>5, SubSeqEmpty DEF Left
<1>7. down'[c] = << >> /\ cpc'[c] = "prompt" /\ UNCHANGED << up, spc >>
  BY <1>6 DEF recv_payload, TypeOK, serverVars
<1>8. Session(c)'
  BY <1>2, <1>5, <1>7 DEF Session
<1>9. ASSUME NEW f \in PutNames PROVE local'[c][f] = local[c][f]
  <2>1. CASE request[c].command = GET
    <3>1. request[c].filename \notin PutNames
      BY <1>2, <2>1 DEF Owed, OwedBy, Carries, GET, LS
    <3>2. local' = [local EXCEPT ![c][request[c].filename] = Taken(down[c], n)]
      BY <2>1 DEF recv_payload
    <3> HIDE DEF n
    <3> QED
      BY <3>1, <3>2 DEF TypeOK, PutNames
  <2>2. CASE request[c].command # GET
    BY <2>2 DEF recv_payload
  <2> QED
    BY <2>1, <2>2
<1> QED
  BY <1>8, <1>9

\* A client whose session is in step is not told that its server is gone.
LEMMA NoEndOfStream ==
  ASSUME TypeOK, SessionInv, NEW c \in Clients
  PROVE  ~ client_recv_closed(c) /\ ~ put_payload(c)
<1>1. Session(c)
  BY DEF SessionInv
<1>2. CASE client_recv_closed(c)
  <2>1. cpc[c] \in {"header", "payload"}
    BY <1>2 DEF client_recv_closed
  <2>2. ServerOpen(c)
    BY <1>1, <2>1, OpenServer DEF ClientOpen
  <2>3. cpc[c] = "payload" /\ Ntohl(reply[c].nbytes) = 0
    BY <1>2, <2>2 DEF client_recv_closed
  <2> QED
    BY <1>1, <2>3 DEF Session, Receiving, Owed, OwedBy
<1>3. CASE put_payload(c)
  BY <1>1, <1>3 DEF Session, put_payload
<1> QED
  BY <1>2, <1>3

\* A client may leave anywhere: what it sent is still a request.
LEMMA LeaveSession ==
  ASSUME TypeOK, SessionInv, NEW c \in Clients, leave(c)
  PROVE  Session(c)'
<1>1. Session(c) /\ ClientOpen(c)
  BY DEF SessionInv, leave
<1>2. spc[c] \in {"header", "get"}
  BY <1>1, OpenServer
<1>3. up[c] # << >> => up[c] = Encode(request[c]) /\ RealRequest(c)
  BY <1>1, Pieces DEF Session, ClientOpen, Unread, Replied, Receiving, ClientPC
<1>4. Len(<< >>) = 0
  OBVIOUS
<1>5. cpc'[c] = "closed" /\ down'[c] = << >> /\ UNCHANGED << request, up, spc >>
  BY DEF leave, TypeOK, serverVars
<1>6. RealRequest(c)' <=> RealRequest(c)
  BY <1>5 DEF RealRequest
<1> QED
  BY <1>2, <1>3, <1>4, <1>5, <1>6 DEF Session, Gone, HeaderSize

\* No step of a client puts its session out of step.
LEMMA ClientSession ==
  ASSUME TypeOK, SessionInv, NEW c \in Clients, ClientNext(c)
  PROVE  Session(c)' /\ EmptyFiles'
<1> DEFINE Same == UNCHANGED << spc, header, handle, dir, disk >>
<1>1. ASSUME Same, \A d \in Clients, f \in PutNames : local'[d][f] = local[d][f]
      PROVE  EmptyFiles'
  BY <1>1 DEF SessionInv, EmptyFiles
<1>2. Same
  <2>1. ASSUME NEW cmd, NEW name, NEW n, NEW next, Submit(c, cmd, name, n, next)
        PROVE  Same
    BY <2>1 DEF Submit, serverVars, fileVars
  <2> QED
    BY <2>1 DEF ClientNext, cix_ls, cix_get, cix_put, cix_rm, put_payload, ClientReceives,
       recv_reply, recv_payload, client_recv_closed, leave, serverVars, fileVars
<1>3. ASSUME NEW cmd, NEW name, Submit(c, cmd, name, 0, "header")
      PROVE  Session(c)' /\ EmptyFiles'
  <2>1. Session(c)' /\ local' = local
    BY <1>3, SubmitSession
  <2> QED
    BY <1>1, <1>2, <2>1
<1>4. CASE cix_ls(c) \/ (\E name \in Byte : cix_get(c, name) \/ cix_rm(c, name))
  BY <1>3, <1>4 DEF cix_ls, cix_get, cix_rm
<1>5. CASE \E name \in Byte : cix_put(c, name)
  BY <1>3, <1>5, PutIsEmpty
<1>6. CASE recv_reply(c)
  <2>1. Session(c)' /\ local' = local
    BY <1>6, RecvReplySession DEF recv_reply
  <2> QED
    BY <1>1, <1>2, <2>1
<1>7. CASE recv_payload(c)
  <2>1. Session(c)' /\ \A f \in PutNames : local'[c][f] = local[c][f]
    BY <1>7, RecvPayloadSession
  <2>2. \A d \in Clients \ {c} : local'[d] = local[d]
    BY Frame
  <2> QED
    BY <1>1, <1>2, <2>1, <2>2
<1>8. CASE leave(c)
  <2>1. Session(c)' /\ local' = local
    BY <1>8, LeaveSession DEF leave
  <2> QED
    BY <1>1, <1>2, <2>1
<1> QED
  BY <1>4, <1>5, <1>6, <1>7, <1>8, NoEndOfStream DEF ClientNext, ClientReceives

-----------------------------------------------------------------------------
(* The steps of a server do. *)

\* The header that a server reads is the request of its client, and nothing
\* is behind it.
LEMMA ReceivedRequest ==
  ASSUME TypeOK, SessionInv, NEW c \in Clients, NEW cmds, Received(c, cmds)
  PROVE  /\ Decode(up[c]) = request[c] /\ request[c].command \in cmds
         /\ RealRequest(c) /\ up' = [up EXCEPT ![c] = << >>]
         /\ down[c] = << >> /\ spc[c] = "header" /\ handle[c] = NoInode
         /\ cpc[c] \in {"header", "closed"} /\ up[c] # << >>
<1>1. Session(c) /\ Len(up[c]) >= HeaderSize /\ spc[c] = "header" /\ up[c] # << >>
  <2>1. Len(<< >>) = 0
    OBVIOUS
  <2> QED
    BY <2>1 DEF SessionInv, Received, HeaderSize
<1>2. /\ up[c] = Encode(request[c]) /\ RealRequest(c) /\ down[c] = << >>
      /\ cpc[c] \in {"header", "closed"}
  BY <1>1, Pieces DEF Session, Unread, Replied, Receiving, Gone, ClientPC
<1>3. Decode(up[c]) = request[c] /\ Left(up[c], HeaderSize) = << >>
  BY <1>2, HeaderAlone, Pieces
<1>4. handle[c] = NoInode
  BY <1>1, Pieces
<1> QED
  BY <1>1, <1>2, <1>3, <1>4 DEF Received

\* A server that answers what it was asked stays in step.
LEMMA AnswerSession ==
  ASSUME TypeOK, SessionInv, NEW c \in Clients, NEW cmds, Received(c, cmds),
         NEW h \in Header, NEW rest \in Seq(Byte), NEW next \in {"header", "get"},
         ServerSends(c, Encode(h) \o rest, next), UNCHANGED clientVars,
         Fits(request[c].command, h.command),
         spc'[c] = next => OwedBy(request[c], next, header'[c], h, rest)
  PROVE  /\ Session(c)' /\ up'[c] = << >> /\ spc'[c] \in {next, "done"}
         /\ ClientOpen(c) => /\ cpc[c] = "header" /\ down' = [down EXCEPT ![c] = Encode(h) \o rest]
                             /\ Decode(down'[c]) = h /\ Left(down'[c], HeaderSize) = rest
                             /\ Len(down'[c]) >= HeaderSize /\ spc'[c] = next
         /\ ~ ClientOpen(c) => down' = down /\ down[c] = << >>
<1>1. /\ RealRequest(c) /\ up' = [up EXCEPT ![c] = << >>] /\ down[c] = << >>
      /\ cpc[c] \in {"header", "closed"}
  BY ReceivedRequest
<1>2. up'[c] = << >> /\ cpc' = cpc /\ request' = request
  BY <1>1 DEF TypeOK, clientVars
<1> DEFINE s == Encode(h) \o rest
<1>3. s \in Seq(Byte) /\ Len(s) >= HeaderSize /\ Decode(s) = h /\ Left(s, HeaderSize) = rest
  <2>1. /\ s \in Seq(Byte) /\ Len(s) = HeaderSize + Len(rest)
        /\ Decode(s) = h /\ Left(s, HeaderSize) = rest
    BY HeaderFirst
  <2>2. Len(rest) \in Nat
    BY LenProperties
  <2> HIDE DEF s
  <2> QED
    BY <2>1, <2>2 DEF HeaderSize
<1>4. << >> \o s = s
  <2> HIDE DEF s
  <2> QED
    BY <1>3, ConcatEmptySeq
<1>5. ServerSends(c, s, next)
  OBVIOUS
<1> HIDE DEF s
<1>6. RealRequest(c)'
  BY <1>1, <1>2 DEF RealRequest
<1>7. CASE ClientOpen(c)
  <2>1. cpc[c] = "header"
    BY <1>1, <1>7 DEF ClientOpen
  <2>2. down' = [down EXCEPT ![c] = s] /\ spc' = [spc EXCEPT ![c] = next]
    BY <1>1, <1>4, <1>5, <1>7 DEF ServerSends
  <2>3. down'[c] = s /\ spc'[c] = next
    BY <2>2 DEF TypeOK
  <2>4. Owed(c, Decode(down[c]), Left(down[c], HeaderSize))'
    BY <1>2, <1>3, <2>3 DEF Owed
  <2>5. Replied(c)'
    BY <1>2, <1>3, <1>6, <2>3, <2>4 DEF Replied
  <2>6. Session(c)'
    BY <1>2, <2>1, <2>5 DEF Session
  <2> QED
    BY <1>2, <1>3, <1>7, <2>1, <2>2, <2>3, <2>6 DEF s
<1>8. CASE ~ ClientOpen(c)
  <2>1. cpc[c] = "closed"
    BY <1>8 DEF ClientOpen
  <2>2. down' = down /\ spc'[c] \in {next, "done"}
    BY <1>5, <1>8 DEF ServerSends, TypeOK
  <2>3. Gone(c)'
    <3>1. Len(<< >>) = 0
      OBVIOUS
    <3> QED
      BY <1>1, <1>2, <2>2, <3>1 DEF Gone, HeaderSize
  <2>4. Session(c)'
    BY <1>2, <2>1, <2>3 DEF Session
  <2> QED
    BY <1>1, <1>2, <1>8, <2>2, <2>4
<1> QED
  BY <1>7, <1>8

\* The same for a reply that is a header only.
LEMMA ShortAnswerSession ==
  ASSUME TypeOK, SessionInv, NEW c \in Clients, NEW cmds, Received(c, cmds),
         NEW h \in Header, ServerSends(c, Encode(h), "header"), UNCHANGED clientVars,
         Fits(request[c].command, h.command), ~ Carries(request[c], h)
  PROVE  /\ Session(c)' /\ up'[c] = << >> /\ spc'[c] \in {"header", "done"}
         /\ ClientOpen(c) => /\ cpc[c] = "header" /\ down' = [down EXCEPT ![c] = Encode(h)]
                             /\ Decode(down'[c]) = h /\ Left(down'[c], HeaderSize) = << >>
                             /\ Len(down'[c]) >= HeaderSize /\ spc'[c] = "header"
         /\ ~ ClientOpen(c) => down' = down /\ down[c] = << >>
<1>1. << >> \in Seq(Byte) /\ Encode(h) \o << >> = Encode(h)
  BY EncodeType, EmptySeq, ConcatEmptySeq
<1>2. ServerSends(c, Encode(h) \o << >>, "header")
  BY <1>1
<1>3. OwedBy(request[c], "header", header'[c], h, << >>)
  BY DEF OwedBy
<1>4. "header" \in {"header", "get"}
  OBVIOUS
<1> QED
  BY <1>1, <1>2, <1>3, <1>4, AnswerSession

\* How the answer looks to the service: it is complete once its header is sent.
LEMMA AnswerMapped ==
  ASSUME TypeOK, SessionInv, NEW c \in Clients, NEW h \in Header, NEW rest,
         cpc' = cpc, up[c] # << >>,
         ClientOpen(c) => /\ cpc[c] = "header" /\ Decode(down'[c]) = h
                          /\ Left(down'[c], HeaderSize) = rest /\ Len(down'[c]) >= HeaderSize,
         ~ ClientOpen(c) => down' = down
  PROVE  LET data == IF spc'[c] = "get" THEN disk'[handle'[c]] ELSE rest
         IN  Answers'[c] = IF ClientOpen(c)
                             THEN << h.command, IF h.command = LSOUT THEN Tail(data) ELSE data >>
                             ELSE Nothing
<1>1. CASE ClientOpen(c)
  <2>1. cpc'[c] = "header" /\ Len(down'[c]) >= HeaderSize
    BY <1>1
  <2>2. Answers'[c] = Answered(c)'
    BY <2>1 DEF Answers
  <2> QED
    BY <1>1, <2>1, <2>2 DEF Answered
<1>2. CASE ~ ClientOpen(c)
  <2>1. cpc'[c] = "closed"
    BY <1>2 DEF ClientOpen
  <2> QED
    BY <1>2, <2>1 DEF Answers
<1> QED
  BY <1>1, <1>2

\* The files are as before when the server has no file open afterwards.
LEMMA SameFiles ==
  ASSUME TypeOK, SessionInv, NEW c \in Clients, UNCHANGED << local, dir, disk >>,
         ClientNext(c) \/ ServerNext(c) \/ lose_end(c), spc'[c] # "get"
  PROVE  EmptyFiles'
<1>1. \A d \in Clients \ {c} : spc'[d] = spc[d] /\ handle'[d] = handle[d] /\ header'[d] = header[d]
  BY Frame DEF Line
<1> QED
  BY <1>1 DEF SessionInv, EmptyFiles

\* An ls is answered with the directory, or with a NAK.
LEMMA LsSession ==
  ASSUME TypeOK, SessionInv, NEW c \in Clients, reply_ls(c)
  PROVE  /\ Session(c)' /\ EmptyFiles' /\ up'[c] = << >> /\ request[c].command = LS
         /\ \/ Answers'[c] = IF ClientOpen(c)
                 THEN << LSOUT, InOrder({f \in Byte : dir[f] # NoInode}) >> ELSE Nothing
            \/ Answers'[c] = IF ClientOpen(c) THEN << NAK, << >> >> ELSE Nothing
<1> DEFINE h1 == [nbytes |-> Htonl(Len(Listing)), command |-> LSOUT, filename |-> 0]
           h2 == [Decode(up[c]) EXCEPT !.nbytes = Htonl(Errno), !.command = NAK]
<1>0. /\ Received(c, {LS}) /\ UNCHANGED << clientVars, header, handle, buffer, fileVars >>
      /\ \/ ServerSends(c, Encode(h1) \o Listing, "header")
         \/ ServerSends(c, Encode(h2), "header")
  BY DEF reply_ls
<1>1. h1 \in Header /\ h2 \in Header /\ Ntohl(h1.nbytes) = Len(Listing) /\ Len(Listing) > 0
  <2>1. Errno \in Word /\ Len(Listing) \in Word /\ Len(Listing) > 0
    BY WordSize, ListingType DEF Errno
  <2>2. /\ Htonl(Len(Listing)) \in Word /\ Htonl(Errno) \in Word
        /\ Ntohl(Htonl(Len(Listing))) = Len(Listing)
    BY <2>1, NtohlInvertsHtonl
  <2>3. LSOUT \in Byte /\ NAK \in Byte /\ 0 \in Byte
    BY WordSize DEF LSOUT, NAK
  <2>4. Decode(up[c]) \in Header
    BY <1>0, ReceivedType
  <2> QED
    BY <2>1, <2>2, <2>3, <2>4 DEF Header
<1>2. h1.command = LSOUT /\ h2.command = NAK
  BY <1>0, ReceivedType DEF Header
<1> HIDE DEF h1, h2
<1>3. request[c].command = LS /\ up[c] # << >> /\ UNCHANGED << cpc, local, dir, disk >>
  BY <1>0, ReceivedRequest DEF clientVars, fileVars
<1>4. ServerNext(c)
  BY DEF ServerNext
<1>5. CASE ServerSends(c, Encode(h1) \o Listing, "header")
  <2>1. Fits(request[c].command, h1.command) /\ Carries(request[c], h1)
    BY <1>2, <1>3 DEF Fits, Carries, LS, GET
  <2>2. OwedBy(request[c], "header", header'[c], h1, Listing)
    BY <1>1, <1>2, <2>1 DEF OwedBy, LSOUT, FILEOUT
  <2>3. Listing \in Seq(Byte) /\ "header" \in {"header", "get"} /\ UNCHANGED clientVars
    BY <1>0, ListingType
  <2>4. /\ Session(c)' /\ up'[c] = << >> /\ spc'[c] \in {"header", "done"}
        /\ ClientOpen(c) => /\ cpc[c] = "header" /\ Decode(down'[c]) = h1
                            /\ Left(down'[c], HeaderSize) = Listing /\ Len(down'[c]) >= HeaderSize
        /\ ~ ClientOpen(c) => down' = down
    BY <1>0, <1>1, <1>5, <2>1, <2>2, <2>3, AnswerSession
  <2>5. Answers'[c] = IF ClientOpen(c) THEN << LSOUT, Tail(Listing) >> ELSE Nothing
    BY <1>1, <1>2, <1>3, <2>4, AnswerMapped
  <2> QED
    BY <1>3, <1>4, <2>4, <2>5, SameFiles, ListingType
<1>6. CASE ServerSends(c, Encode(h2), "header")
  <2>1. Fits(request[c].command, h2.command) /\ ~ Carries(request[c], h2)
    BY <1>2, <1>3 DEF Fits, Carries, LS, GET, LSOUT, NAK
  <2>4. /\ Session(c)' /\ up'[c] = << >> /\ spc'[c] \in {"header", "done"}
        /\ ClientOpen(c) => /\ cpc[c] = "header" /\ Decode(down'[c]) = h2
                            /\ Left(down'[c], HeaderSize) = << >> /\ Len(down'[c]) >= HeaderSize
        /\ ~ ClientOpen(c) => down' = down
    BY <1>0, <1>1, <1>6, <2>1, ShortAnswerSession
  <2>5. Answers'[c] = IF ClientOpen(c) THEN << NAK, << >> >> ELSE Nothing
    BY <1>1, <1>2, <1>3, <2>4, AnswerMapped DEF NAK, LSOUT
  <2> QED
    BY <1>3, <1>4, <2>4, <2>5, SameFiles
<1> QED
  BY <1>0, <1>5, <1>6

\* A server that answers a request for a name with the name's own header.
LEMMA OwnAnswer ==
  ASSUME TypeOK, SessionInv, NEW c \in Clients, NEW cmds, Received(c, cmds),
         NEW cmd \in {ACK, NAK}, ServerSends(c, Answer(Decode(up[c]), cmd), "header"),
         UNCHANGED clientVars, Fits(request[c].command, cmd)
  PROVE  /\ Session(c)' /\ up'[c] = << >> /\ spc'[c] \in {"header", "done"}
         /\ Answers'[c] = IF ClientOpen(c) THEN << cmd, << >> >> ELSE Nothing
<1> DEFINE h == [request[c] EXCEPT !.command = cmd]
<1>1. Decode(up[c]) = request[c] /\ up[c] # << >> /\ request[c] \in Header
  BY ReceivedRequest, Pieces
<1>2. h \in Header /\ h.command = cmd
  <2>1. cmd \in 0 .. 10
    BY DEF ACK, NAK
  <2> QED
    BY <1>1, <2>1, AnswerHeader DEF Header
<1>3. Answer(Decode(up[c]), cmd) = Encode(h)
  BY <1>1 DEF Answer
<1> HIDE DEF h
<1>4. ~ Carries(request[c], h)
  BY <1>2 DEF Carries, ACK, NAK, LSOUT, FILEOUT
<1>5. /\ Session(c)' /\ up'[c] = << >> /\ spc'[c] \in {"header", "done"}
      /\ ClientOpen(c) => /\ cpc[c] = "header" /\ Decode(down'[c]) = h
                          /\ Left(down'[c], HeaderSize) = << >> /\ Len(down'[c]) >= HeaderSize
      /\ ~ ClientOpen(c) => down' = down
  BY <1>2, <1>3, <1>4, ShortAnswerSession
<1>6. cpc' = cpc
  BY DEF clientVars
<1>7. cmd # LSOUT
  BY DEF ACK, NAK, LSOUT
<1> QED
  BY <1>1, <1>2, <1>5, <1>6, <1>7, AnswerMapped

\* A file that a get can read, and one that an rm can remove.
Readable(f) == checkValidFileName(f) /\ CanOpenForReading(f)
Removable(f) == checkValidFileName(f) /\ CanUnlink(f)

\* A get is answered with the file as it is when the header is sent.
LEMMA GetSession ==
  ASSUME TypeOK, SessionInv, NEW c \in Clients, reply_get(c)
  PROVE  /\ Session(c)' /\ EmptyFiles' /\ up'[c] = << >> /\ request[c].command = GET
         /\ Answers'[c] = IF ClientOpen(c)
              THEN IF Readable(request[c].filename)
                     THEN << FILEOUT, disk[dir[request[c].filename]] >>
                     ELSE << NAK, << >> >>
              ELSE Nothing
<1> DEFINE r == request[c]
           f == r.filename
           content == disk[dir[f]]
           h == [r EXCEPT !.nbytes = Htonl(Len(content)), !.command = FILEOUT]
<1>0. Received(c, {GET}) /\ UNCHANGED << clientVars, buffer, fileVars >>
  BY DEF reply_get
<1>1. /\ Decode(up[c]) = r /\ up[c] # << >> /\ r.command = GET /\ r \in Header /\ f \in Byte
      /\ spc[c] = "header" /\ handle[c] = NoInode
      /\ UNCHANGED << cpc, local, dir, disk >>
  BY <1>0, ReceivedRequest, Pieces DEF clientVars, fileVars, Header
<1>2. ServerNext(c)
  BY DEF ServerNext
<1>3. CASE ~ Readable(f)
  <2>1. ServerSends(c, Answer(Decode(up[c]), NAK), "header")
    BY <1>1, <1>3 DEF reply_get, Readable
  <2>2. Fits(r.command, NAK)
    BY <1>1 DEF Fits, GET, LS
  <2>3. /\ Session(c)' /\ up'[c] = << >> /\ spc'[c] \in {"header", "done"}
        /\ Answers'[c] = IF ClientOpen(c) THEN << NAK, << >> >> ELSE Nothing
    BY <1>0, <2>1, <2>2, OwnAnswer
  <2> QED
    BY <1>1, <1>2, <1>3, <2>3, SameFiles
<1>4. CASE Readable(f)
  <2>1. Len(content) \in Word /\ h \in Header /\ content \in Seq(Byte)
    <3>1. dir[f] # NoInode
      BY <1>4 DEF Readable, CanOpenForReading
    <3>2. disk[dir[f]] \in Content
      BY <1>1, <3>1 DEF TypeOK
    <3> QED
      BY <1>1, <3>1, <3>2, FileoutType DEF Content
  <2>2. h.command = FILEOUT /\ h.nbytes = Htonl(Len(content)) /\ h.filename = f
    BY <1>1 DEF Header
  <2>3. Fits(r.command, h.command)
    BY <1>1, <2>2 DEF Fits, GET, LS
  <2>4. FILEOUT # LSOUT
    BY DEF FILEOUT, LSOUT
  <2>5. CASE Len(content) = 0
    <3>1. ServerSends(c, Encode(h), "header") /\ UNCHANGED << header, handle >>
      BY <1>1, <1>4, <2>5 DEF reply_get, Readable
    <3>2. content = << >>
      BY <2>1, <2>5, EmptySeq
    <3> HIDE DEF h, content
    <3>3. ~ Carries(r, h)
      BY <1>1, <2>2, <2>5, HtonlZero DEF Carries, GET, LS
    <3>4. /\ Session(c)' /\ up'[c] = << >> /\ spc'[c] \in {"header", "done"}
          /\ ClientOpen(c) => /\ cpc[c] = "header" /\ Decode(down'[c]) = h
                              /\ Left(down'[c], HeaderSize) = << >> /\ Len(down'[c]) >= HeaderSize
          /\ ~ ClientOpen(c) => down' = down
      BY <1>0, <2>1, <2>3, <3>1, <3>3, ShortAnswerSession
    <3>5. Answers'[c] = IF ClientOpen(c) THEN << FILEOUT, << >> >> ELSE Nothing
      BY <1>1, <2>1, <2>2, <2>4, <3>4, AnswerMapped
    <3> QED
      BY <1>1, <1>2, <1>4, <3>2, <3>4, <3>5, SameFiles DEF content
  <2>6. CASE Len(content) # 0
    <3>1. /\ ServerSends(c, Encode(h), "get") /\ header' = [header EXCEPT ![c] = h]
          /\ handle' = [handle EXCEPT ![c] = IF spc'[c] = "get" THEN dir[f] ELSE NoInode]
      BY <1>1, <1>4, <2>6 DEF reply_get, Readable
    <3>2. content # << >>
      BY <2>6
    <3>3. f \notin PutNames
      BY <1>1, <1>4, <3>2 DEF SessionInv, EmptyFiles, Readable, CanOpenForReading
    <3> HIDE DEF h, content
    <3>4. h.nbytes # 0 /\ Ntohl(h.nbytes) = Len(content) /\ Len(content) > 0
      BY <2>1, <2>2, <2>6, HtonlPositive
    <3>5. header'[c] = h /\ handle'[c] = IF spc'[c] = "get" THEN dir[f] ELSE NoInode
      BY <3>1 DEF TypeOK
    <3>6. OwedBy(r, "get", header'[c], h, << >>)
      BY <1>1, <2>2, <3>3, <3>4, <3>5 DEF OwedBy, Carries
    <3>7. << >> \in Seq(Byte) /\ ServerSends(c, Encode(h) \o << >>, "get") /\ "get" \in {"header", "get"}
      BY <2>1, <3>1, EncodeType, EmptySeq, ConcatEmptySeq
    <3>8. /\ Session(c)' /\ up'[c] = << >> /\ spc'[c] \in {"get", "done"}
          /\ ClientOpen(c) => /\ cpc[c] = "header" /\ Decode(down'[c]) = h /\ spc'[c] = "get"
                              /\ Left(down'[c], HeaderSize) = << >> /\ Len(down'[c]) >= HeaderSize
          /\ ~ ClientOpen(c) => down' = down
      BY <1>0, <2>1, <2>3, <3>6, <3>7, AnswerSession
    <3>9. Answers'[c] = IF ClientOpen(c) THEN << FILEOUT, content >> ELSE Nothing
      <4> DEFINE data == IF spc'[c] = "get" THEN disk'[handle'[c]] ELSE << >>
      <4>1. Answers'[c] = IF ClientOpen(c)
                            THEN << h.command, IF h.command = LSOUT THEN Tail(data) ELSE data >>
                            ELSE Nothing
        BY <1>1, <2>1, <3>8, AnswerMapped
      <4>2. spc'[c] = "get" => data = content
        BY <1>1, <3>5 DEF content
      <4> HIDE DEF data
      <4> QED
        BY <2>2, <2>4, <3>8, <4>1, <4>2
    <3>10. EmptyFiles'
      <4>1. \A d \in Clients \ {c} : spc'[d] = spc[d] /\ handle'[d] = handle[d] /\ header'[d] = header[d]
        BY <1>2, Frame DEF Line
      <4>2. spc'[c] = "get" => Len(disk'[handle'[c]]) = Ntohl(header'[c].nbytes) /\ disk'[handle'[c]] # << >>
        BY <1>1, <3>2, <3>4, <3>5 DEF content
      <4> QED
        BY <1>1, <4>1, <4>2 DEF SessionInv, EmptyFiles
    <3> QED
      BY <1>1, <1>4, <3>8, <3>9, <3>10 DEF content
  <2> QED
    BY <2>5, <2>6
<1> QED
  BY <1>3, <1>4

\* The payload follows its header; to the service nothing happens.
LEMMA SendFileSession ==
  ASSUME TypeOK, SessionInv, NEW c \in Clients, send_file(c)
  PROVE  /\ Session(c)' /\ EmptyFiles' /\ Answers'[c] = Answers[c] /\ up'[c] = up[c]
<1> DEFINE n == Ntohl(header[c].nbytes)
           content == disk[handle[c]]
           bytes == [i \in 1 .. n |-> IF i <= Len(content) THEN content[i] ELSE 0]
<1>1. spc[c] = "get" /\ UNCHANGED << clientVars, up, header, buffer, fileVars >>
      /\ ServerSends(c, bytes, "header")
  BY DEF send_file
<1>2. Len(content) = n /\ content # << >> /\ Session(c)
  BY <1>1 DEF SessionInv, EmptyFiles
<1>3. content \in Seq(Byte)
  <2>1. handle[c] \in Inodes
    BY <1>1, Pieces
  <2> QED
    BY <2>1 DEF TypeOK, Content
<1>4. bytes = content
  <2> HIDE DEF content, n
  <2>1. content = [i \in 1 .. Len(content) |-> content[i]]
    BY <1>3, LenProperties
  <2> QED
    BY <1>2, <2>1
<1>5. ServerSends(c, content, "header")
  BY <1>1, <1>4
<1> HIDE DEF bytes
<1>6. UNCHANGED << cpc, request, reply, up, local, dir, disk, header >> /\ ServerNext(c)
  BY <1>1 DEF clientVars, fileVars, ServerNext
<1>7. spc'[c] \in {"header", "done"} /\ (ClientOpen(c) => spc'[c] = "header")
  BY <1>5 DEF ServerSends, TypeOK
<1>8. EmptyFiles'
  BY <1>6, <1>7, SameFiles
<1>9. RealRequest(c)' <=> RealRequest(c)
  BY <1>6 DEF RealRequest
<1>10. CASE cpc[c] = "closed"
  <2>1. down' = down
    BY <1>5, <1>10 DEF ServerSends, ClientOpen
  <2>2. Session(c)'
    BY <1>2, <1>6, <1>7, <1>9, <1>10, <2>1 DEF Session, Gone
  <2> QED
    BY <1>6, <1>8, <1>10, <2>2 DEF Answers
<1>11. CASE cpc[c] = "header"
  <2>1. Replied(c)
    BY <1>1, <1>2, <1>11 DEF Session, Unread
  <2> DEFINE h == Decode(down[c])
  <2>2. /\ Left(down[c], HeaderSize) = << >> /\ header[c].nbytes = h.nbytes /\ h.command = FILEOUT
        /\ Carries(request[c], h) /\ (h.command = FILEOUT => request[c].filename \notin PutNames)
        /\ Ntohl(h.nbytes) > 0 /\ Len(down[c]) >= HeaderSize /\ down[c] \in Seq(Byte)
    BY <1>1, <2>1, Pieces DEF Replied, Owed, OwedBy
  <2>3. Len(down[c]) = 4
    <3>1. Len(down[c]) \in Nat /\ 4 \in 0 .. Len(down[c])
      BY <2>2, LenProperties DEF HeaderSize
    <3>2. Len(Left(down[c], 4)) = Len(down[c]) - 4
      BY <2>2, <3>1, LeftType, Zenon
    <3>3. Left(down[c], 4) = << >>
      BY <2>2 DEF HeaderSize
    <3>4. Len(Left(down[c], 4)) = 0
      BY <3>3
    <3> DEFINE u == Len(down[c])
    <3>5. u \in Nat /\ 0 = u - 4
      BY <3>1, <3>2, <3>4
    <3> HIDE DEF u
    <3>6. u = 4
      BY <3>5
    <3> QED
      BY <3>6 DEF u
  <2>4. down'[c] = down[c] \o content /\ spc'[c] = "header"
    BY <1>5, <1>7, <1>11 DEF ServerSends, ClientOpen, TypeOK
  <2> HIDE DEF content
  <2>5. /\ Len(down[c] \o content) = 4 + Len(content) /\ Left(down[c] \o content, 4) = content
        /\ \A i \in 1 .. 4 : (down[c] \o content)[i] = down[c][i]
    BY <1>3, <2>2, <2>3, FourFirst
  <2>6. Decode(down'[c]) = h /\ Left(down'[c], HeaderSize) = content /\ Len(down'[c]) >= HeaderSize
    <3>1. Decode(down[c] \o content) = h
      BY <2>5 DEF Decode
    <3>2. Len(content) \in Nat
      BY <1>3, LenProperties
    <3> QED
      BY <2>4, <2>5, <3>1, <3>2 DEF HeaderSize
  <2>7. OwedBy(request[c], "header", header[c], h, content)
    BY <1>2, <2>2 DEF OwedBy
  <2> HIDE DEF h
  <2>8. Replied(c)'
    BY <1>6, <1>9, <2>1, <2>4, <2>6, <2>7 DEF Replied, Owed, h
  <2>9. Session(c)'
    BY <1>6, <1>11, <2>8 DEF Session
  <2>10. Answers'[c] = Answers[c]
    <3>1. Answers[c] = << h.command, content >>
      BY <1>1, <1>11, <2>2 DEF Answers, Answered, h, content, FILEOUT, LSOUT
    <3>2. Answers'[c] = << h.command, content >>
      <4>1. cpc'[c] = "header" /\ spc'[c] = "header"
        BY <1>6, <1>11, <2>4
      <4>2. Answers'[c] = Answered(c)'
        BY <2>6, <4>1 DEF Answers
      <4>3. h.command # LSOUT
        BY <2>2 DEF FILEOUT, LSOUT
      <4> QED
        BY <2>6, <4>1, <4>2, <4>3 DEF Answered
    <3> QED
      BY <3>1, <3>2
  <2> QED
    BY <1>6, <1>8, <2>9, <2>10
<1>12. CASE cpc[c] = "payload"
  <2>1. Receiving(c)
    BY <1>2, <1>12 DEF Session
  <2>2. /\ down[c] = << >> /\ header[c].nbytes = reply[c].nbytes /\ reply[c].command = FILEOUT
        /\ Carries(request[c], reply[c]) /\ Owed(c, reply[c], << >>)
    BY <1>1, <2>1 DEF Receiving, Owed, OwedBy
  <2>3. down'[c] = << >> \o content /\ spc'[c] = "header"
    BY <1>5, <1>7, <1>12, <2>2 DEF ServerSends, ClientOpen, TypeOK
  <2> HIDE DEF content
  <2>4. down'[c] = content
    BY <1>3, <2>3, ConcatEmptySeq
  <2>5. Owed(c, reply[c], down[c])'
    BY <1>2, <1>6, <2>2, <2>3, <2>4 DEF Owed, OwedBy
  <2>6. Receiving(c)'
    BY <1>6, <1>9, <2>1, <2>2, <2>5 DEF Receiving
  <2>7. Session(c)'
    BY <1>6, <1>12, <2>6 DEF Session
  <2>8. Answers'[c] = Answers[c]
    <3>1. Answers[c] = << FILEOUT, content >>
      BY <1>1, <1>12, <2>2 DEF Answers, Answered, content, FILEOUT, LSOUT
    <3>2. Answers'[c] = << FILEOUT, content >>
      BY <1>6, <1>12, <2>2, <2>3, <2>4 DEF Answers, Answered, FILEOUT, LSOUT
    <3> QED
      BY <3>1, <3>2
  <2> QED
    BY <1>6, <1>8, <2>7, <2>8
<1> QED
  BY <1>1, <1>2, <1>10, <1>11, <1>12, Pieces DEF Session, ClientPC

FileNames == DOMAIN InitFiles \cup (PutNames \ Slashed)

\* A function reaches at most as many values as it has arguments.
LEMMA Reached ==
  ASSUME NEW S, IsFiniteSet(S), NEW T, NEW f, \A x \in S : f[x] \in T, \A y \in T : \E x \in S : f[x] = y
  PROVE  IsFiniteSet(T) /\ Cardinality(T) \in Nat /\ Cardinality(T) <= Cardinality(S)
<1> DEFINE g == [x \in S |-> f[x]]
<1>1. g \in Surjection(S, T)
  BY DEF Surjection
<1> HIDE DEF g
<1>2. IsFiniteSet(T) /\ Cardinality(T) <= Cardinality(S)
  BY <1>1, FS_Surjection
<1> QED
  BY <1>2, FS_CardinalityType

\* With room on the disk a put finds an inode.
LEMMA RoomToPut ==
  ASSUME TypeOK, SessionInv, DiskRoom, NEW c \in Clients, handle[c] = NoInode,
         NEW f \in PutNames \ Slashed, dir[f] = NoInode
  PROVE  FreeInodes # {}
<1> SUFFICES ASSUME FreeInodes = {} PROVE FALSE
  OBVIOUS
<1> DEFINE F == FileNames
           G == {g \in F : dir[g] # NoInode}
           D == {d \in Clients : handle[d] # NoInode}
           A == {i \in Inodes : \E g \in G : dir[g] = i}
           B == {i \in Inodes : \E d \in D : handle[d] = i}
<1>1. IsFiniteSet(F) /\ F \subseteq Byte /\ f \in F
  <2>1. IsFiniteSet(Byte)
    BY FS_Interval, WordSize DEF Byte
  <2>2. F \in SUBSET Byte
    BY CixAssumption DEF FileNames, PutNames
  <2> QED
    BY <2>1, <2>2, FS_Subset DEF FileNames
<1>2. IsFiniteSet(Clients) /\ Cardinality(F) + Cardinality(Clients) <= MaxInodes
  BY DEF DiskRoom, FileNames
<1>3. Inodes \subseteq A \cup B
  <2> SUFFICES ASSUME NEW i \in Inodes, i \notin A, i \notin B PROVE FALSE
    OBVIOUS
  <2>1. \A g \in Byte : dir[g] = i => g \in G
    BY NoInodeType DEF SessionInv, EmptyFiles, FileNames
  <2>2. \A d \in Clients : handle[d] = i => d \in D
    BY NoInodeType
  <2>3. i \in FreeInodes
    BY <2>1, <2>2 DEF FreeInodes
  <2> QED
    BY <2>3
<1>4. IsFiniteSet(F \ {f}) /\ Cardinality(F \ {f}) = Cardinality(F) - 1
      /\ IsFiniteSet(Clients \ {c}) /\ Cardinality(Clients \ {c}) = Cardinality(Clients) - 1
  <2>1. IsFiniteSet(F \ {f}) /\ Cardinality(F \ {f}) = Cardinality(F) - 1
    <3> HIDE DEF F
    <3> QED
      BY <1>1, FS_RemoveElement
  <2>2. IsFiniteSet(Clients \ {c}) /\ Cardinality(Clients \ {c}) = Cardinality(Clients) - 1
    BY <1>2, FS_RemoveElement
  <2> QED
    BY <2>1, <2>2
<1>5. /\ IsFiniteSet(G) /\ Cardinality(G) \in Nat /\ Cardinality(G) <= Cardinality(F \ {f})
      /\ IsFiniteSet(D) /\ Cardinality(D) \in Nat /\ Cardinality(D) <= Cardinality(Clients \ {c})
  <2>1. G \in SUBSET (F \ {f}) /\ D \in SUBSET (Clients \ {c})
    OBVIOUS
  <2> HIDE DEF G, D, F
  <2> QED
    BY <1>4, <2>1, FS_Subset, FS_CardinalityType
<1>6. /\ \A g \in G : dir[g] \in A
      /\ \A d \in D : handle[d] \in B
  BY <1>1 DEF TypeOK
<1>7. IsFiniteSet(A) /\ Cardinality(A) \in Nat /\ Cardinality(A) <= Cardinality(G)
  <2>1. \A i \in A : \E g \in G : dir[g] = i
    OBVIOUS
  <2> HIDE DEF A, G
  <2> QED
    BY <1>5, <1>6, <2>1, Reached
<1>8. IsFiniteSet(B) /\ Cardinality(B) \in Nat /\ Cardinality(B) <= Cardinality(D)
  <2>1. \A i \in B : \E d \in D : handle[d] = i
    OBVIOUS
  <2> HIDE DEF B, D
  <2> QED
    BY <1>5, <1>6, <2>1, Reached
<1>9. Cardinality(Inodes) = MaxInodes /\ MaxInodes \in Nat
  BY FS_Interval, CixAssumption DEF Inodes
<1> HIDE DEF A, B, G, D, F
<1>10. /\ IsFiniteSet(A \cup B)
       /\ Cardinality(A \cup B) = Cardinality(A) + Cardinality(B) - Cardinality(A \cap B)
  BY <1>7, <1>8, FS_Union
<1>11. Cardinality(A \cap B) \in Nat
  <2>1. A \cap B \in SUBSET A
    OBVIOUS
  <2> QED
    BY <1>7, <2>1, FS_Subset, FS_CardinalityType
<1>12. Cardinality(Inodes) <= Cardinality(A \cup B)
  BY <1>3, <1>10, FS_Subset
<1>13. Cardinality(F) \in Nat /\ Cardinality(Clients) \in Nat
  BY <1>1, <1>2, FS_CardinalityType
<1> QED
  BY <1>2, <1>4, <1>5, <1>7, <1>8, <1>9, <1>10, <1>11, <1>12, <1>13

\* An empty put truncates the file or is refused.
LEMMA PutSession ==
  ASSUME TypeOK, SessionInv, NEW c \in Clients, reply_put(c)
  PROVE  LET f == request[c].filename IN
         /\ Session(c)' /\ EmptyFiles' /\ up'[c] = << >> /\ request[c].command = PUT
         /\ \A d \in Clients \ {c} : spc[d] = "get" => disk'[handle[d]] = disk[handle[d]]
         /\ \/ /\ f \notin Slashed \cup Unwritable \cup {0}
               /\ Contents' = [Contents EXCEPT ![f] = << >>]
               /\ Answers'[c] = IF ClientOpen(c) THEN << ACK, << >> >> ELSE Nothing
            \/ /\ DiskRoom => f \in Slashed \cup Unwritable \cup {0}
               /\ Contents' = Contents
               /\ Answers'[c] = IF ClientOpen(c) THEN << NAK, << >> >> ELSE Nothing
<1> DEFINE f == request[c].filename
           i == PutInode(f)
           writable == checkValidFileName(f) /\ CanOpenForWriting(f)
<1>0. Received(c, {PUT}) /\ UNCHANGED << clientVars, buffer >>
  BY DEF reply_put
<1>1. /\ Decode(up[c]) = request[c] /\ request[c].command = PUT /\ RealRequest(c)
      /\ spc[c] = "header" /\ handle[c] = NoInode /\ UNCHANGED << cpc, local >>
      /\ request[c] \in Header
  BY <1>0, ReceivedRequest, Pieces DEF clientVars
<1>2. request[c].nbytes = 0 /\ f \in PutNames /\ f \in Byte
  BY <1>1 DEF RealRequest, PutNames, Header
<1>3. Fits(request[c].command, ACK) /\ Fits(request[c].command, NAK)
  BY <1>1 DEF Fits, PUT, LS, GET
<1>4. ServerNext(c)
  BY DEF ServerNext
<1>5. CASE ~ writable
  <2>1. ServerSends(c, Answer(Decode(up[c]), NAK), "header")
        /\ UNCHANGED << header, handle, fileVars >>
    BY <1>1, <1>5 DEF reply_put
  <2>2. /\ Session(c)' /\ up'[c] = << >> /\ spc'[c] \in {"header", "done"}
        /\ Answers'[c] = IF ClientOpen(c) THEN << NAK, << >> >> ELSE Nothing
    BY <1>0, <1>3, <2>1, OwnAnswer
  <2>3. UNCHANGED << dir, disk >> /\ Contents' = Contents
    BY <2>1 DEF fileVars, Contents
  <2>4. EmptyFiles'
    BY <1>1, <1>4, <2>2, <2>3, SameFiles
  <2>5. DiskRoom => f \in Slashed \cup Unwritable \cup {0}
    BY <1>1, <1>2, <1>5, RoomToPut DEF CanOpenForWriting, checkValidFileName
  <2> QED
    BY <1>1, <2>2, <2>3, <2>4, <2>5
<1>6. CASE writable
  <2>1. i \in Inodes /\ (dir[f] # NoInode => i = dir[f]) /\ (dir[f] = NoInode => i \in FreeInodes)
    BY <1>2, <1>6, PutInodeType
  <2>2. /\ dir' = [dir EXCEPT ![f] = i] /\ disk' = [disk EXCEPT ![i] = << >>]
        /\ ServerSends(c, Answer(Decode(up[c]), ACK), "header") /\ UNCHANGED << header, handle >>
    BY <1>1, <1>2, <1>6 DEF reply_put, PutInode
  <2>3. /\ Session(c)' /\ up'[c] = << >> /\ spc'[c] \in {"header", "done"}
        /\ Answers'[c] = IF ClientOpen(c) THEN << ACK, << >> >> ELSE Nothing
    BY <1>0, <1>3, <2>2, OwnAnswer
  <2>4. f \notin Slashed \cup Unwritable \cup {0}
    BY <1>6 DEF CanOpenForWriting, checkValidFileName
  <2> HIDE DEF i, f
  <2>5. /\ dir'[f] = i /\ \A g \in Byte \ {f} : dir'[g] = dir[g]
        /\ disk'[i] = << >> /\ \A j \in Inodes \ {i} : disk'[j] = disk[j]
    BY <1>2, <2>1, <2>2 DEF TypeOK
  <2>6. dir[f] # NoInode => disk[i] = << >>
    BY <1>2, <2>1 DEF SessionInv, EmptyFiles
  <2>7. /\ \A g \in Byte : dir[g] # NoInode => disk'[dir[g]] = disk[dir[g]]
        /\ \A d \in Clients : handle[d] # NoInode => disk'[handle[d]] = disk[handle[d]]
    <3>1. CASE dir[f] # NoInode
      BY <2>1, <2>5, <2>6, <3>1 DEF TypeOK
    <3>2. CASE dir[f] = NoInode
      BY <2>1, <2>5, <3>2 DEF FreeInodes, TypeOK
    <3> QED
      BY <3>1, <3>2
  <2>8. Contents' = [Contents EXCEPT ![f] = << >>]
    <3>1. i # NoInode
      BY <2>1, NoInodeType
    <3>2. \A g \in Byte : Contents'[g] = IF g = f THEN << >> ELSE Contents[g]
      BY <2>5, <2>7, <3>1 DEF Contents
    <3>3. Contents' = [g \in Byte |-> Contents'[g]]
      BY DEF Contents
    <3>4. Contents = [g \in Byte |-> Contents[g]]
      BY DEF Contents
    <3> HIDE DEF Contents
    <3> QED
      BY <3>2, <3>3, <3>4
  <2>9. \A d \in Clients \ {c} : spc'[d] = spc[d] /\ handle'[d] = handle[d] /\ header'[d] = header[d]
    BY <1>4, Frame DEF Line
  <2>10. \A d \in Clients : spc[d] = "get" => handle[d] # NoInode
    BY Pieces
  <2>11. EmptyFiles'
    <3>1. ASSUME NEW g \in PutNames, dir'[g] # NoInode PROVE disk'[dir'[g]] = << >>
      BY <2>5, <2>7, <3>1 DEF SessionInv, EmptyFiles, PutNames
    <3>2. ASSUME NEW g \in Byte, dir'[g] # NoInode
          PROVE  g \in DOMAIN InitFiles \cup (PutNames \ Slashed)
      BY <1>2, <2>4, <2>5, <3>2 DEF SessionInv, EmptyFiles
    <3>3. ASSUME NEW d \in Clients, spc'[d] = "get"
          PROVE  Len(disk'[handle'[d]]) = Ntohl(header'[d].nbytes) /\ disk'[handle'[d]] # << >>
      <4>1. d # c
        BY <2>3, <3>3
      <4> QED
        BY <2>7, <2>9, <2>10, <3>3, <4>1 DEF SessionInv, EmptyFiles
    <3>4. \A d \in Clients, g \in PutNames : local'[d][g] \in {<< >>, Nothing}
      BY <1>1 DEF SessionInv, EmptyFiles
    <3> QED
      BY <3>1, <3>2, <3>3, <3>4 DEF EmptyFiles
  <2> QED
    BY <1>1, <2>3, <2>4, <2>7, <2>8, <2>10, <2>11 DEF f
<1> QED
  BY <1>5, <1>6

\* An rm removes the file or is refused.
LEMMA RmSession ==
  ASSUME TypeOK, SessionInv, NEW c \in Clients, reply_rm(c)
  PROVE  LET f == request[c].filename IN
         /\ Session(c)' /\ EmptyFiles' /\ up'[c] = << >> /\ request[c].command = RM
         /\ disk' = disk
         /\ \/ /\ Removable(f) /\ Contents' = [Contents EXCEPT ![f] = Nothing]
               /\ Answers'[c] = IF ClientOpen(c) THEN << ACK, << >> >> ELSE Nothing
            \/ /\ ~ Removable(f) /\ Contents' = Contents
               /\ Answers'[c] = IF ClientOpen(c) THEN << NAK, << >> >> ELSE Nothing
<1> DEFINE f == request[c].filename
           cmd == IF Removable(f) THEN ACK ELSE NAK
<1>0. Received(c, {RM}) /\ UNCHANGED << clientVars, header, handle, buffer, disk >>
  BY DEF reply_rm
<1>1. /\ Decode(up[c]) = request[c] /\ request[c].command = RM
      /\ UNCHANGED << cpc, local >> /\ request[c] \in Header /\ f \in Byte
  BY <1>0, ReceivedRequest, Pieces DEF clientVars, Header
<1>2. Fits(request[c].command, ACK) /\ Fits(request[c].command, NAK)
  BY <1>1 DEF Fits, RM, LS, GET
<1>3. ServerNext(c)
  BY DEF ServerNext
<1>4. /\ dir' = IF Removable(f) THEN [dir EXCEPT ![f] = NoInode] ELSE dir
      /\ ServerSends(c, Answer(Decode(up[c]), cmd), "header")
  BY <1>1 DEF reply_rm, Removable
<1>5. /\ Session(c)' /\ up'[c] = << >> /\ spc'[c] \in {"header", "done"}
      /\ Answers'[c] = IF ClientOpen(c) THEN << cmd, << >> >> ELSE Nothing
  BY <1>0, <1>2, <1>4, OwnAnswer
<1> HIDE DEF f
<1>6. CASE Removable(f)
  <2>1. dir'[f] = NoInode /\ \A g \in Byte \ {f} : dir'[g] = dir[g]
    BY <1>1, <1>4, <1>6 DEF TypeOK
  <2>2. Contents' = [Contents EXCEPT ![f] = Nothing]
    <3>1. \A g \in Byte : Contents'[g] = IF g = f THEN Nothing ELSE Contents[g]
      BY <1>0, <2>1 DEF Contents
    <3>2. Contents' = [g \in Byte |-> Contents'[g]]
      BY DEF Contents
    <3>3. Contents = [g \in Byte |-> Contents[g]]
      BY DEF Contents
    <3> HIDE DEF Contents
    <3> QED
      BY <3>1, <3>2, <3>3
  <2>3. \A d \in Clients \ {c} : spc'[d] = spc[d]
    BY <1>3, Frame DEF Line
  <2>4. \A g \in Byte : dir'[g] # NoInode => dir'[g] = dir[g]
    BY <2>1
  <2>5. EmptyFiles'
    <3>1. \A g \in PutNames : dir'[g] # NoInode => disk'[dir'[g]] = << >>
      BY <1>0, <2>4 DEF SessionInv, EmptyFiles, PutNames
    <3>2. \A g \in Byte : dir'[g] # NoInode => g \in DOMAIN InitFiles \cup (PutNames \ Slashed)
      BY <2>4 DEF SessionInv, EmptyFiles
    <3>3. \A d \in Clients : spc'[d] = "get" => /\ Len(disk'[handle'[d]]) = Ntohl(header'[d].nbytes)
                                                /\ disk'[handle'[d]] # << >>
      BY <1>0, <1>5, <2>3 DEF SessionInv, EmptyFiles
    <3>4. \A d \in Clients, g \in PutNames : local'[d][g] \in {<< >>, Nothing}
      BY <1>1 DEF SessionInv, EmptyFiles
    <3> QED
      BY <3>1, <3>2, <3>3, <3>4 DEF EmptyFiles
  <2> QED
    BY <1>0, <1>1, <1>5, <1>6, <2>2, <2>5 DEF f
<1>7. CASE ~ Removable(f)
  <2>1. dir' = dir /\ disk' = disk
    BY <1>0, <1>4, <1>7
  <2>2. EmptyFiles'
    BY <1>1, <1>3, <1>5, <2>1, SameFiles
  <2>3. Contents' = Contents
    BY <2>1 DEF Contents
  <2> QED
    BY <1>1, <1>5, <1>7, <2>1, <2>2, <2>3 DEF f
<1> QED
  BY <1>6, <1>7

\* Without payloads and garbled headers a server takes none of these steps.
LEMMA NoOtherSteps ==
  ASSUME TypeOK, SessionInv, NEW c \in Clients
  PROVE  ~ recv_file(c) /\ ~ flush_file(c) /\ ~ heap_overflow(c) /\ ~ invalid_header(c)
<1>1. spc[c] \in {"header", "get", "done"}
  <2>1. Session(c)
    BY DEF SessionInv
  <2> QED
    BY <2>1, OpenServer DEF Session, Gone, ClientOpen
<1>2. ~ recv_file(c) /\ ~ flush_file(c) /\ ~ heap_overflow(c)
  BY <1>1 DEF recv_file, flush_file, heap_overflow
<1>3. CASE invalid_header(c)
  <2>1. request[c].command \in Byte \ {LS, GET, PUT, RM} /\ RealRequest(c)
    BY <1>3, ReceivedRequest DEF invalid_header
  <2> QED
    BY <2>1, CixAssumption DEF RealRequest
<1> QED
  BY <1>2, <1>3

\* Only the server of a client that has left ends.
LEMMA EndSession ==
  ASSUME TypeOK, SessionInv, NEW c \in Clients, server_recv_closed(c)
  PROVE  /\ Session(c)' /\ EmptyFiles' /\ cpc[c] = "closed" /\ Len(up[c]) < HeaderSize
         /\ UNCHANGED << cpc, up, down, dir, disk >>
<1>1. Session(c) /\ spc[c] \in {"header", "get", "done"}
  <2>1. Session(c)
    BY DEF SessionInv
  <2> QED
    BY <2>1, OpenServer DEF Session, Gone, ClientOpen
<1>2. spc[c] = "header" /\ ~ ClientOpen(c) /\ Len(up[c]) < HeaderSize
  BY <1>1 DEF server_recv_closed
<1>3. /\ spc'[c] = "done" /\ UNCHANGED << cpc, request, up, down, local, dir, disk >>
      /\ ServerNext(c)
  BY DEF server_recv_closed, TypeOK, clientVars, fileVars, ServerNext
<1>4. RealRequest(c)' <=> RealRequest(c)
  BY <1>3 DEF RealRequest
<1>5. Session(c)'
  BY <1>1, <1>2, <1>3, <1>4 DEF Session, Gone, ClientOpen
<1>6. EmptyFiles'
  BY <1>3, SameFiles
<1> QED
  BY <1>2, <1>3, <1>5, <1>6 DEF ClientOpen

\* Only what a client that has left had sent is lost.
LEMMA LoseSession ==
  ASSUME TypeOK, SessionInv, NEW c \in Clients, lose_end(c)
  PROVE  /\ Session(c)' /\ EmptyFiles' /\ cpc[c] = "closed" /\ Len(up'[c]) < HeaderSize
         /\ UNCHANGED << cpc, reply, down, spc, handle, dir, disk >>
<1>0. UNCHANGED << cpc, request, reply, local, spc, header, handle, dir, disk >>
  BY DEF lose_end, clientVars, serverVars, fileVars
<1>1. Session(c)
  BY DEF SessionInv
<1>2. cpc[c] = "closed" /\ Gone(c)
  <2>1. CASE ~ ClientOpen(c)
    BY <1>1, <2>1 DEF ClientOpen, Session
  <2>2. CASE ~ ServerOpen(c)
    BY <1>1, <2>2, OpenServer DEF ClientOpen, Session
  <2> QED
    BY <2>1, <2>2 DEF lose_end
<1>3. Len(<< >>) = 0 /\ \A n \in Cuts : n \in Nat
  BY CixAssumption
<1>4. down' = down
  <2>1. ~ \E n \in Cuts : n < Len(down[c])
    BY <1>2, <1>3 DEF Gone
  <2> QED
    BY <2>1 DEF lose_end
<1>5. PICK n \in Cuts : n < Len(up[c]) /\ up' = [up EXCEPT ![c] = Taken(up[c], n)]
  <2>1. ~ \E n \in Cuts : n < Len(down[c])
    BY <1>2, <1>3 DEF Gone
  <2> QED
    BY <2>1 DEF lose_end
<1>6. up[c] \in Seq(Byte) /\ Len(up[c]) \in Nat
  BY Pieces, LenProperties
<1>7. Len(up[c]) >= HeaderSize => Len(up[c]) = HeaderSize
  BY <1>2, HeaderAlone, Pieces DEF Gone
<1>8. Len(Taken(up[c], n)) = n /\ n \in Nat
  <2>1. n \in 0 .. Len(up[c])
    BY <1>3, <1>5, <1>6
  <2> QED
    BY <1>6, <2>1, TakenType, Zenon, <1>3
<1>9. up'[c] = Taken(up[c], n)
  BY <1>5 DEF TypeOK
<1>10. Len(up'[c]) < HeaderSize /\ ~(Len(up'[c]) >= HeaderSize)
  <2> DEFINE u == Len(up[c])
             v == Len(up'[c])
  <2>1. v = n /\ n \in Nat /\ u \in Nat /\ n < u /\ (u >= 4 => u = 4)
    BY <1>5, <1>6, <1>7, <1>8, <1>9 DEF HeaderSize
  <2> HIDE DEF u, v
  <2>2. v < 4 /\ ~(v >= 4)
    BY <2>1
  <2> QED
    BY <2>2 DEF v, HeaderSize
<1>11. Session(c)'
  BY <1>0, <1>2, <1>4, <1>10 DEF Session, Gone
<1>12. EmptyFiles'
  BY <1>0 DEF SessionInv, EmptyFiles
<1> QED
  BY <1>0, <1>2, <1>4, <1>10, <1>11, <1>12

\* SessionInv is inductive relative to the types.
LEMMA SessionStep == EmptyPuts /\ TypeOK /\ SessionInv /\ [Next]_vars => SessionInv'
<1> SUFFICES ASSUME TypeOK, SessionInv, [Next]_vars PROVE SessionInv'
  OBVIOUS
<1>1. ASSUME NEW c \in Clients, ClientNext(c) \/ ServerNext(c) \/ lose_end(c),
             Session(c)', EmptyFiles'
      PROVE  SessionInv'
  <2>1. ASSUME NEW d \in Clients, d # c PROVE Session(d)'
    <3>1. Line(d)' = Line(d)
      BY <1>1, <2>1, Frame
    <3>2. Session(d)
      BY DEF SessionInv
    <3> QED
      BY <3>1, <3>2, SessionSame
  <2> QED
    BY <1>1, <2>1 DEF SessionInv
<1>2. ASSUME NEW c \in Clients, ClientNext(c) PROVE SessionInv'
  BY <1>1, <1>2, ClientSession
<1>3. ASSUME NEW c \in Clients, ServerNext(c) PROVE SessionInv'
  <2>1. Session(c)' /\ EmptyFiles'
    BY <1>3, LsSession, GetSession, SendFileSession, PutSession, RmSession, EndSession,
       NoOtherSteps DEF ServerNext
  <2> QED
    BY <1>1, <1>3, <2>1
<1>4. ASSUME NEW c \in Clients, lose_end(c) PROVE SessionInv'
  BY <1>1, <1>4, LoseSession
<1>5. CASE UNCHANGED vars
  <2>1. UNCHANGED << dir, disk, local, spc, handle, header >> /\ \A c \in Clients : Line(c)' = Line(c)
    BY <1>5 DEF vars, Line, clientVars, serverVars, fileVars
  <2>2. \A c \in Clients : Session(c)'
    BY <2>1, SessionSame DEF SessionInv
  <2>3. EmptyFiles'
    BY <2>1 DEF SessionInv, EmptyFiles
  <2> QED
    BY <2>2, <2>3 DEF SessionInv
<1> QED
  BY <1>2, <1>3, <1>4, <1>5 DEF Next

\* What a session is, as its two ends see it.
LEMMA SessionInStep == TypeOK /\ SessionInv => InStep
<1> SUFFICES ASSUME TypeOK, SessionInv, NEW c \in Clients, ClientOpen(c)
    PROVE  /\ spc[c] \in {"header", "get"}
           /\ cpc[c] = "prompt" => up[c] = << >> /\ down[c] = << >> /\ spc[c] = "header"
           /\ cpc[c] = "header" =>
                \/ up[c] = Encode(request[c]) /\ down[c] = << >> /\ spc[c] = "header"
                \/ up[c] = << >> /\ Len(down[c]) >= HeaderSize
  BY DEF InStep
<1>1. Session(c)
  BY DEF SessionInv
<1> QED
  BY <1>1, OpenServer DEF Session, Unread, Replied

\* An answer that has come is the one the request is owed.
LEMMA SessionAnswers == SessionInv => AnswersItsRequest
<1> SUFFICES ASSUME SessionInv, NEW c \in Clients, cpc[c] = "header", Len(down[c]) >= HeaderSize
    PROVE  Fits(request[c].command, Decode(down[c]).command)
  BY DEF AnswersItsRequest, Fits
<1>1. Session(c) /\ Len(<< >>) = 0
  BY DEF SessionInv
<1> QED
  BY <1>1 DEF Session, Unread, Replied, HeaderSize

\* All of it holds in every state.
LEMMA SessionsKept ==
  ASSUME EmptyPuts
  PROVE  Spec => [](TypeOK /\ SessionInv)
<1>1. Init => TypeOK /\ SessionInv
  BY TypeInit, SessionInit
<1>2. (TypeOK /\ SessionInv) /\ [Next]_vars => (TypeOK /\ SessionInv)'
  BY TypeStep, SessionStep
<1> QED
  BY <1>1, <1>2, PTL DEF Spec

\* When every put is empty, no session is ever out of step, whatever the
\* other servers do in the directory (cixd.cpp:181): a client at its prompt has
\* no byte in flight, and one that waits is owed exactly one answer.
THEOREM SessionsInStep ==
  ASSUME EmptyPuts
  PROVE  Spec => []InStep
<1>1. TypeOK /\ SessionInv => InStep
  BY SessionInStep
<1> QED
  BY <1>1, SessionsKept, PTL

\* When every put is empty, the answer that reaches a client is one to the
\* command it sent (cix.cpp:54, 76, 123, 150).
THEOREM RequestsMatched ==
  ASSUME EmptyPuts
  PROVE  Spec => []AnswersItsRequest
<1>1. TypeOK /\ SessionInv => AnswersItsRequest
  BY SessionAnswers
<1> QED
  BY <1>1, SessionsKept, PTL

-----------------------------------------------------------------------------
(* What a step of the sessions is to the service *)

Present == [c \in Clients |-> ClientOpen(c)]

\* A request or an answer is not mistaken for none.
LEMMA PairIsSomething ==
  ASSUME NEW a, NEW b
  PROVE  << a, b >> # Nothing
<1>1. Len(<< a, b >>) = 2 /\ Len(Nothing) = 1
  BY DEF Nothing
<1> QED
  BY <1>1

\* The service sees a file where the directory has a name.
LEMMA FileExists ==
  ASSUME TypeOK, NEW f \in Byte
  PROVE  Contents[f] # Nothing <=> dir[f] # NoInode
<1>1. dir[f] # NoInode => disk[dir[f]] \in Seq(Byte)
  BY DEF TypeOK, Content
<1>2. Nothing \notin Seq(Byte)
  <2>1. Nothing[1] = -1 /\ Len(Nothing) = 1
    BY DEF Nothing
  <2>2. -1 \notin Byte
    BY WordSize
  <2> QED
    BY <2>1, <2>2
<1> QED
  BY <1>1, <1>2 DEF Contents

\* The service sees nothing of a step of another session.
LEMMA OthersMapped ==
  ASSUME TypeOK, SessionInv, NEW c \in Clients, ClientNext(c) \/ ServerNext(c) \/ lose_end(c),
         \A d \in Clients \ {c} : spc[d] = "get" => disk'[handle[d]] = disk[handle[d]]
  PROVE  /\ Pending' = [Pending EXCEPT ![c] = Pending'[c]]
         /\ Answers' = [Answers EXCEPT ![c] = Answers'[c]]
         /\ Present' = [Present EXCEPT ![c] = ClientOpen(c)']
<1>1. ASSUME NEW d \in Clients, d # c
      PROVE  Pending'[d] = Pending[d] /\ Answers'[d] = Answers[d] /\ Present'[d] = Present[d]
  <2>1. Line(d)' = Line(d) /\ handle'[d] = handle[d]
    BY <1>1, Frame
  <2>2. spc[d] = "get" => disk'[handle'[d]] = disk[handle[d]]
    BY <1>1, <2>1
  <2>3. Answered(d)' = Answered(d)
    BY <2>1, <2>2 DEF Answered, Line
  <2> QED
    BY <2>1, <2>3 DEF Pending, Answers, Present, Line, ClientOpen
<1>2. /\ Pending = [d \in Clients |-> Pending[d]] /\ Pending' = [d \in Clients |-> Pending'[d]]
      /\ Answers = [d \in Clients |-> Answers[d]] /\ Answers' = [d \in Clients |-> Answers'[d]]
  BY DEF Pending, Answers
<1>3. Present' = [Present EXCEPT ![c] = ClientOpen(c)']
  BY <1>1 DEF Present
<1> QED
  BY <1>1, <1>2, <1>3

\* Clients are present as long as their programs run.
LEMMA SamePresence ==
  ASSUME cpc' = cpc
  PROVE  Present' = Present
BY DEF Present, ClientOpen

\* A request that lies in the stream is pending, in no other state is one.
LEMMA PendingRequest ==
  ASSUME TypeOK, NEW c \in Clients, NEW h \in Header
  PROVE  /\ up[c] = Encode(h) => Pending[c] = << h.command, h.filename >>
         /\ Len(up[c]) < HeaderSize => Pending[c] = Nothing
         /\ up[c] = << >> => Pending[c] = Nothing
<1>1. Len(Encode(h)) = HeaderSize /\ Decode(Encode(h)) = h /\ Len(<< >>) = 0
  BY HeaderAlone
<1> QED
  BY <1>1 DEF Pending, HeaderSize

\* A command typed at the prompt is asked.
LEMMA SubmitMapped ==
  ASSUME TypeOK, SessionInv, NEW c \in Clients, NEW cmd, NEW name,
         Submit(c, cmd, name, 0, "header"), ClientNext(c)
  PROVE  Service!Ask(c)
<1>1. /\ UNCHANGED << local, spc, handle, dir, disk, down >>
      /\ cpc[c] = "prompt" /\ cpc' = [cpc EXCEPT ![c] = "header"]
      /\ up[c] = << >> /\ down[c] = << >> /\ << cmd, name >> \in Menu
      /\ \E h \in Header : /\ h.command = cmd /\ h.filename = name
                           /\ up' = [up EXCEPT ![c] = Encode(h)]
  BY SubmitSession
<1>2. PICK h \in Header : /\ h.command = cmd /\ h.filename = name
                          /\ up' = [up EXCEPT ![c] = Encode(h)]
  BY <1>1
<1>3. cpc'[c] = "header" /\ up'[c] = Encode(h)
  BY <1>1, <1>2 DEF TypeOK
<1>4. Present[c] /\ Pending[c] = Nothing /\ Answers[c] = Nothing
  BY <1>1, <1>2, PendingRequest DEF Present, ClientOpen, Answers
<1>5. Pending'[c] = << cmd, name >>
  <2>1. Len(Encode(h)) = HeaderSize /\ Decode(Encode(h)) = h
    BY HeaderAlone
  <2>2. Decode(up'[c]) = h /\ ~(Len(up'[c]) < HeaderSize)
    BY <1>3, <2>1 DEF HeaderSize
  <2> QED
    BY <1>2, <2>2 DEF Pending
<1>6. Answers'[c] = Nothing
  <2>1. Len(<< >>) = 0
    OBVIOUS
  <2> QED
    BY <1>1, <1>3, <2>1 DEF Answers, HeaderSize
<1>7. Pending' = [Pending EXCEPT ![c] = << cmd, name >>] /\ Answers' = [Answers EXCEPT ![c] = Answers[c]]
      /\ Present' = [Present EXCEPT ![c] = Present[c]]
  BY <1>1, <1>3, <1>4, <1>5, <1>6, OthersMapped DEF Present, ClientOpen
<1>8. Answers' = Answers /\ Present' = Present /\ Contents' = Contents
  <2>1. Answers = [d \in Clients |-> Answers[d]] /\ Present = [d \in Clients |-> Present[d]]
    BY DEF Answers, Present
  <2> QED
    BY <1>1, <1>7, <2>1 DEF Contents
<1>9. cmd \in {GET, LS, PUT, RM} /\ name \in Byte
  BY <1>1, CixAssumption
<1> QED
  BY <1>4, <1>7, <1>8, <1>9 DEF Service!Ask, Present

\* An answer is heard when its last byte is received.
LEMMA HearMapped ==
  ASSUME TypeOK, SessionInv, NEW c \in Clients, ClientNext(c), UNCHANGED << up, dir, disk >>,
         Answers[c] # Nothing, Answers'[c] = Nothing, ClientOpen(c)' = ClientOpen(c)
  PROVE  Service!Hear(c)
<1>1. Pending'[c] = Pending[c] /\ Contents' = Contents
  BY DEF Pending, Contents
<1>2. /\ Pending' = [Pending EXCEPT ![c] = Pending[c]] /\ Answers' = [Answers EXCEPT ![c] = Nothing]
      /\ Present' = [Present EXCEPT ![c] = Present[c]]
  BY <1>1, OthersMapped DEF Present
<1>3. Pending' = Pending /\ Present' = Present
  <2>1. Pending = [d \in Clients |-> Pending[d]] /\ Present = [d \in Clients |-> Present[d]]
    BY DEF Pending, Present
  <2> QED
    BY <1>2, <2>1
<1> QED
  BY <1>1, <1>2, <1>3 DEF Service!Hear, Present

\* A reply header is the end of the answer, or a payload is still to come.
LEMMA RecvReplyMapped ==
  ASSUME TypeOK, SessionInv, NEW c \in Clients, recv_reply(c)
  PROVE  Service!Hear(c) \/ UNCHANGED Service!vars
<1> DEFINE h == Decode(down[c])
           rest == Left(down[c], HeaderSize)
<1>1. cpc[c] = "header" /\ Len(down[c]) >= HeaderSize
  BY DEF recv_reply
<1>2. /\ cpc' = [cpc EXCEPT ![c] = IF Carries(request[c], h) THEN "payload" ELSE "prompt"]
      /\ reply' = [reply EXCEPT ![c] = h] /\ down' = [down EXCEPT ![c] = rest]
      /\ UNCHANGED << request, up, spc, handle, dir, disk >>
  BY DEF recv_reply, Carries, serverVars, fileVars
<1>3. ClientNext(c)
  BY DEF ClientNext, ClientReceives
<1>4. reply'[c] = h /\ down'[c] = rest
      /\ cpc'[c] = IF Carries(request[c], h) THEN "payload" ELSE "prompt"
  <2> HIDE DEF h, rest
  <2> QED
    BY <1>2 DEF TypeOK
<1>5. Answers[c] = Answered(c) /\ Answered(c) # Nothing
  BY <1>1, PairIsSomething DEF Answers, Answered
<1>6. ClientOpen(c)' = ClientOpen(c) /\ Present'[c] = Present[c]
  BY <1>1, <1>4 DEF ClientOpen, Present
<1>7. CASE Carries(request[c], h)
  <2>1. cpc'[c] = "payload"
    BY <1>4, <1>7
  <2>2. Answered(c)' = Answered(c)
    BY <1>1, <1>2, <1>4, <2>1 DEF Answered
  <2>3. Answers'[c] = Answers[c] /\ Pending'[c] = Pending[c]
    BY <1>2, <1>5, <2>1, <2>2 DEF Answers, Pending
  <2>4. Contents' = Contents
    BY <1>2 DEF Contents
  <2>5. /\ Pending' = [Pending EXCEPT ![c] = Pending[c]] /\ Answers' = [Answers EXCEPT ![c] = Answers[c]]
        /\ Present' = [Present EXCEPT ![c] = Present[c]]
    BY <1>2, <1>3, <1>6, <2>3, OthersMapped DEF Present
  <2>6. /\ Pending = [d \in Clients |-> Pending[d]] /\ Present = [d \in Clients |-> Present[d]]
        /\ Answers = [d \in Clients |-> Answers[d]]
    BY DEF Pending, Present, Answers
  <2>7. UNCHANGED << Contents, Pending, Answers, Present >>
    BY <2>4, <2>5, <2>6
  <2> QED
    BY <2>7 DEF Service!vars, Present
<1>8. CASE ~ Carries(request[c], h)
  <2>1. Answers'[c] = Nothing
    BY <1>4, <1>8 DEF Answers
  <2> QED
    BY <1>2, <1>3, <1>5, <1>6, <2>1, HearMapped
<1> QED
  BY <1>7, <1>8

\* A payload is the end of the answer.
LEMMA RecvPayloadMapped ==
  ASSUME TypeOK, SessionInv, NEW c \in Clients, recv_payload(c)
  PROVE  Service!Hear(c)
<1>1. cpc[c] = "payload" /\ cpc' = [cpc EXCEPT ![c] = "prompt"] /\ UNCHANGED << up, dir, disk >>
  BY DEF recv_payload, fileVars
<1>2. ClientNext(c)
  BY DEF ClientNext, ClientReceives
<1>3. cpc'[c] = "prompt"
  BY <1>1 DEF TypeOK
<1>4. Answers[c] # Nothing /\ Answers'[c] = Nothing
  BY <1>1, <1>3, PairIsSomething DEF Answers, Answered
<1> QED
  BY <1>1, <1>2, <1>3, <1>4, HearMapped DEF ClientOpen

\* A program that ends is a client that leaves.
LEMMA LeaveMapped ==
  ASSUME TypeOK, SessionInv, NEW c \in Clients, leave(c)
  PROVE  Service!Leave(c)
<1>1. cpc' = [cpc EXCEPT ![c] = "closed"] /\ UNCHANGED << up, dir, disk >>
  BY DEF leave, fileVars
<1>2. ClientNext(c)
  BY DEF ClientNext
<1>3. cpc'[c] = "closed"
  BY <1>1 DEF TypeOK
<1>4. Answers'[c] = Nothing /\ ClientOpen(c)' = FALSE /\ Pending'[c] = Pending[c] /\ Contents' = Contents
  BY <1>1, <1>3 DEF Answers, ClientOpen, Pending, Contents
<1>5. /\ Pending' = [Pending EXCEPT ![c] = Pending[c]] /\ Answers' = [Answers EXCEPT ![c] = Nothing]
      /\ Present' = [Present EXCEPT ![c] = FALSE]
  BY <1>1, <1>2, <1>4, OthersMapped
<1>6. Pending' = Pending
  <2>1. Pending = [d \in Clients |-> Pending[d]]
    BY DEF Pending
  <2> QED
    BY <1>5, <2>1
<1> QED
  BY <1>4, <1>5, <1>6 DEF Service!Leave, Present

\* A reply to a request that was read is the request taking effect.
LEMMA TakeEffectMapped ==
  ASSUME TypeOK, SessionInv, NEW c \in Clients, NEW cmds, Received(c, cmds),
         ServerNext(c), cpc' = cpc, up'[c] = << >>,
         \A d \in Clients \ {c} : spc[d] = "get" => disk'[handle[d]] = disk[handle[d]],
         NEW fs, NEW cmd, NEW data,
         Contents' = fs, Answers'[c] = IF ClientOpen(c) THEN << cmd, data >> ELSE Nothing,
         Service!Result(c, fs, cmd, data) =>
           Service!Perform(c, request[c].command, request[c].filename)
  PROVE  Service!TakeEffect(c)
<1>1. /\ Decode(up[c]) = request[c] /\ Len(up[c]) >= HeaderSize
  BY ReceivedRequest DEF Received
<1>2. Pending[c] = << request[c].command, request[c].filename >> /\ Pending[c] # Nothing
  <2>1. ~(Len(up[c]) < HeaderSize)
    BY <1>1, Pieces, LenProperties DEF HeaderSize
  <2> QED
    BY <1>1, <2>1, PairIsSomething DEF Pending
<1>3. Pending'[c] = Nothing
  <2>1. Len(<< >>) = 0
    OBVIOUS
  <2> QED
    BY <2>1 DEF Pending, HeaderSize
<1>4. /\ Pending' = [Pending EXCEPT ![c] = Nothing] /\ Present' = Present
      /\ Answers' = [Answers EXCEPT ![c] = IF Present[c] THEN << cmd, data >> ELSE Nothing]
  <2>1. Present' = Present
    BY SamePresence
  <2>2. Present[c] = ClientOpen(c)
    BY DEF Present
  <2> QED
    BY <1>3, <2>1, <2>2, OthersMapped
<1>5. Service!Result(c, fs, cmd, data)
  BY <1>4 DEF Service!Result, Present
<1>6. Service!Perform(c, Pending[c][1], Pending[c][2])
  BY <1>2, <1>5
<1> QED
  BY <1>2, <1>4, <1>6 DEF Service!TakeEffect, Present

\* The service can reach a file when the server can.
LEMMA ServiceReaches ==
  ASSUME TypeOK, NEW f \in Byte
  PROVE  /\ f \in Service!Reachable(Unreadable) <=> Readable(f)
         /\ f \in Service!Reachable(Unremovable) <=> Removable(f)
BY FileExists DEF Service!Reachable, Readable, Removable, CanOpenForReading, CanUnlink, checkValidFileName

\* Each reply of the server is the request taking effect.
LEMMA LsMapped ==
  ASSUME TypeOK, SessionInv, NEW c \in Clients, reply_ls(c)
  PROVE  Service!TakeEffect(c)
<1>1. Received(c, {LS}) /\ cpc' = cpc /\ dir' = dir /\ disk' = disk /\ ServerNext(c)
  BY DEF reply_ls, clientVars, fileVars, ServerNext
<1>2. Contents' = Contents
  BY <1>1 DEF Contents
<1>3. InOrder({f \in Byte : dir[f] # NoInode}) = Service!InOrder({f \in Byte : Contents[f] # Nothing})
  <2>1. {f \in Byte : dir[f] # NoInode} = {f \in Byte : Contents[f] # Nothing}
    BY FileExists
  <2>2. \A S : InOrder(S) = Service!InOrder(S)
    <3>1. \A S : Cardinality(S) = Service!Cardinality(S)
      BY DEF Cardinality, Service!Cardinality
    <3> QED
      BY <3>1 DEF InOrder, Service!InOrder
  <2> QED
    BY <2>1, <2>2
<1>4. request[c].command = LS /\ up'[c] = << >>
  BY LsSession
<1>5. CASE Answers'[c] = IF ClientOpen(c)
                 THEN << LSOUT, InOrder({f \in Byte : dir[f] # NoInode}) >> ELSE Nothing
  <2>1. Service!Result(c, Contents, LSOUT, Service!InOrder({f \in Byte : Contents[f] # Nothing})) =>
          Service!Perform(c, LS, request[c].filename)
    BY DEF Service!Perform
  <2> QED
    BY <1>1, <1>2, <1>3, <1>4, <1>5, <2>1, TakeEffectMapped
<1>6. CASE Answers'[c] = IF ClientOpen(c) THEN << NAK, << >> >> ELSE Nothing
  <2>1. Service!Result(c, Contents, NAK, << >>) => Service!Perform(c, LS, request[c].filename)
    BY DEF Service!Perform
  <2> QED
    BY <1>1, <1>2, <1>4, <1>6, <2>1, TakeEffectMapped
<1> QED
  BY <1>5, <1>6, LsSession

\* The header of a get takes effect; the file that follows is what it found.
LEMMA GetMapped ==
  ASSUME TypeOK, SessionInv, NEW c \in Clients, reply_get(c)
  PROVE  Service!TakeEffect(c)
<1> DEFINE f == request[c].filename
<1>1. Received(c, {GET}) /\ cpc' = cpc /\ dir' = dir /\ disk' = disk /\ ServerNext(c)
  BY DEF reply_get, clientVars, fileVars, ServerNext
<1>2. Contents' = Contents
  BY <1>1 DEF Contents
<1>3. request[c].command = GET /\ up'[c] = << >> /\ f \in Byte
  BY GetSession, Pieces DEF Header
<1>4. CASE Readable(f)
  <2>1. f \in Service!Reachable(Unreadable) /\ Contents[f] = disk[dir[f]]
    BY <1>3, <1>4, ServiceReaches DEF Contents, Readable, CanOpenForReading
  <2>2. Answers'[c] = IF ClientOpen(c) THEN << FILEOUT, Contents[f] >> ELSE Nothing
    BY <1>4, <2>1, GetSession
  <2>3. Service!Result(c, Contents, FILEOUT, Contents[f]) => Service!Perform(c, GET, f)
    BY <2>1 DEF Service!Perform
  <2> QED
    BY <1>1, <1>2, <1>3, <2>2, <2>3, TakeEffectMapped
<1>5. CASE ~ Readable(f)
  <2>1. Answers'[c] = IF ClientOpen(c) THEN << NAK, << >> >> ELSE Nothing
    BY <1>5, GetSession
  <2>2. Service!Result(c, Contents, NAK, << >>) => Service!Perform(c, GET, f)
    BY <1>3, <1>5, ServiceReaches DEF Service!Perform
  <2> QED
    BY <1>1, <1>2, <1>3, <2>1, <2>2, TakeEffectMapped
<1> QED
  BY <1>4, <1>5

\* An empty put takes effect when it truncates.
LEMMA PutMapped ==
  ASSUME TypeOK, SessionInv, DiskRoom, NEW c \in Clients, reply_put(c)
  PROVE  Service!TakeEffect(c)
<1> DEFINE f == request[c].filename
<1>1. Received(c, {PUT}) /\ cpc' = cpc /\ ServerNext(c)
  BY DEF reply_put, clientVars, ServerNext
<1>2. /\ request[c].command = PUT /\ up'[c] = << >>
      /\ \A d \in Clients \ {c} : spc[d] = "get" => disk'[handle[d]] = disk[handle[d]]
  BY PutSession
<1>3. CASE /\ f \notin Slashed \cup Unwritable \cup {0}
           /\ Contents' = [Contents EXCEPT ![f] = << >>]
           /\ Answers'[c] = IF ClientOpen(c) THEN << ACK, << >> >> ELSE Nothing
  <2>1. Service!Result(c, [Contents EXCEPT ![f] = << >>], ACK, << >>) => Service!Perform(c, PUT, f)
    BY <1>3 DEF Service!Perform
  <2> QED
    <3> DEFINE fs == [Contents EXCEPT ![f] = << >>]
    <3>1. /\ Contents' = fs /\ Answers'[c] = IF ClientOpen(c) THEN << ACK, << >> >> ELSE Nothing
          /\ Service!Result(c, fs, ACK, << >>) =>
               Service!Perform(c, request[c].command, request[c].filename)
      BY <1>2, <1>3, <2>1
    <3> HIDE DEF fs
    <3> QED
      BY <1>1, <1>2, <3>1, TakeEffectMapped
<1>4. CASE /\ f \in Slashed \cup Unwritable \cup {0}
           /\ Contents' = Contents
           /\ Answers'[c] = IF ClientOpen(c) THEN << NAK, << >> >> ELSE Nothing
  <2>1. Service!Result(c, Contents, NAK, << >>) => Service!Perform(c, PUT, f)
    BY <1>4 DEF Service!Perform
  <2> QED
    BY <1>1, <1>2, <1>4, <2>1, TakeEffectMapped
<1>5. \/ /\ f \notin Slashed \cup Unwritable \cup {0}
         /\ Contents' = [Contents EXCEPT ![f] = << >>]
         /\ Answers'[c] = IF ClientOpen(c) THEN << ACK, << >> >> ELSE Nothing
      \/ /\ DiskRoom => f \in Slashed \cup Unwritable \cup {0}
         /\ Contents' = Contents
         /\ Answers'[c] = IF ClientOpen(c) THEN << NAK, << >> >> ELSE Nothing
  BY PutSession
<1> QED
  BY <1>3, <1>4, <1>5

\* An rm takes effect when it unlinks.
LEMMA RmMapped ==
  ASSUME TypeOK, SessionInv, NEW c \in Clients, reply_rm(c)
  PROVE  Service!TakeEffect(c)
<1> DEFINE f == request[c].filename
<1>1. Received(c, {RM}) /\ cpc' = cpc /\ ServerNext(c) /\ f \in Byte
  BY Pieces DEF reply_rm, clientVars, ServerNext, Header
<1>2. request[c].command = RM /\ up'[c] = << >> /\ disk' = disk
  BY RmSession
<1>3. CASE /\ Removable(f) /\ Contents' = [Contents EXCEPT ![f] = Nothing]
           /\ Answers'[c] = IF ClientOpen(c) THEN << ACK, << >> >> ELSE Nothing
  <2>1. Service!Result(c, [Contents EXCEPT ![f] = Nothing], ACK, << >>) => Service!Perform(c, RM, f)
    BY <1>1, <1>3, ServiceReaches DEF Service!Perform
  <2> QED
    BY <1>1, <1>2, <1>3, <2>1, TakeEffectMapped
<1>4. CASE /\ ~ Removable(f) /\ Contents' = Contents
           /\ Answers'[c] = IF ClientOpen(c) THEN << NAK, << >> >> ELSE Nothing
  <2>1. Service!Result(c, Contents, NAK, << >>) => Service!Perform(c, RM, f)
    BY <1>1, <1>4, ServiceReaches DEF Service!Perform
  <2> QED
    BY <1>1, <1>2, <1>4, <2>1, TakeEffectMapped
<1> QED
  BY <1>3, <1>4, RmSession

\* What the service does not see.
LEMMA StutterMapped ==
  ASSUME TypeOK, SessionInv, NEW c \in Clients, ServerNext(c) \/ lose_end(c),
         UNCHANGED << cpc, dir, disk >>, Answers'[c] = Answers[c], Pending'[c] = Pending[c]
  PROVE  UNCHANGED Service!vars
<1>1. Contents' = Contents /\ Present' = Present
  BY SamePresence DEF Contents
<1>2. Pending' = [Pending EXCEPT ![c] = Pending[c]] /\ Answers' = [Answers EXCEPT ![c] = Answers[c]]
  BY OthersMapped
<1>3. Pending = [d \in Clients |-> Pending[d]] /\ Answers = [d \in Clients |-> Answers[d]]
  BY DEF Pending, Answers
<1>4. UNCHANGED << Contents, Pending, Answers, Present >>
  BY <1>1, <1>2, <1>3
<1> QED
  BY <1>4 DEF Service!vars, Present

\* A request that is cut short is forgotten.
LEMMA LoseMapped ==
  ASSUME TypeOK, SessionInv, NEW c \in Clients, lose_end(c)
  PROVE  Service!Forget(c)
<1>1. /\ cpc[c] = "closed" /\ Len(up'[c]) < HeaderSize
      /\ UNCHANGED << cpc, reply, down, spc, handle, dir, disk >>
  BY LoseSession
<1>2. Present' = Present /\ ~ Present[c] /\ Contents' = Contents
  BY <1>1, SamePresence DEF Present, ClientOpen, Contents
<1>3. Pending'[c] = Nothing /\ Answers'[c] = Nothing /\ Answers[c] = Nothing
  BY <1>1 DEF Pending, Answers
<1>4. Pending' = [Pending EXCEPT ![c] = Nothing] /\ Answers' = [Answers EXCEPT ![c] = Answers[c]]
  BY <1>1, <1>3, OthersMapped
<1>5. Answers' = Answers
  <2>1. Answers = [d \in Clients |-> Answers[d]]
    BY DEF Answers
  <2> QED
    BY <1>4, <2>1
<1> QED
  BY <1>2, <1>4, <1>5 DEF Service!Forget, Present

\* The service starts with the same files.
LEMMA ServiceInit == Init => Service!Init
<1> SUFFICES ASSUME Init PROVE Service!Init
  OBVIOUS
<1>1. TypeOK
  BY TypeInit
<1>2. Pending = [c \in Clients |-> Nothing]
  <2>1. Len(<< >>) = 0
    OBVIOUS
  <2> QED
    BY <2>1 DEF Init, Pending, HeaderSize
<1>3. Answers = [c \in Clients |-> Nothing] /\ Present = [c \in Clients |-> TRUE]
  BY DEF Init, Answers, Present, ClientOpen
<1>4. Contents = [f \in Byte |-> IF f \in DOMAIN InitFiles THEN InitFiles[f] ELSE Nothing]
  BY <1>1, InitialFile DEF Init, Contents
<1> QED
  BY <1>2, <1>3, <1>4 DEF Service!Init, Present

\* Every step of the sessions is a step of the service, or none.
LEMMA ServiceStep ==
  ASSUME DiskRoom, TypeOK, SessionInv, [Next]_vars
  PROVE  [Service!Next]_(Service!vars)
<1>1. ASSUME NEW c \in Clients, ClientNext(c) PROVE Service!Next \/ UNCHANGED Service!vars
  <2>1. ASSUME NEW cmd, NEW name, Submit(c, cmd, name, 0, "header") PROVE Service!Next
    BY <1>1, <2>1, SubmitMapped DEF Service!Next
  <2>2. CASE cix_ls(c) \/ (\E name \in Byte : cix_get(c, name) \/ cix_rm(c, name))
    BY <2>1, <2>2 DEF cix_ls, cix_get, cix_rm
  <2>3. CASE \E name \in Byte : cix_put(c, name)
    BY <2>1, <2>3, PutIsEmpty
  <2>4. CASE recv_reply(c)
    BY <2>4, RecvReplyMapped DEF Service!Next
  <2>5. CASE recv_payload(c)
    BY <2>5, RecvPayloadMapped DEF Service!Next
  <2>6. CASE leave(c)
    BY <2>6, LeaveMapped DEF Service!Next
  <2> QED
    BY <1>1, <2>2, <2>3, <2>4, <2>5, <2>6, NoEndOfStream DEF ClientNext, ClientReceives
<1>2. ASSUME NEW c \in Clients, ServerNext(c) PROVE Service!Next \/ UNCHANGED Service!vars
  <2>1. CASE reply_ls(c) \/ reply_get(c) \/ reply_put(c) \/ reply_rm(c)
    BY <2>1, LsMapped, GetMapped, PutMapped, RmMapped DEF Service!Next
  <2>2. CASE send_file(c)
    <3>1. Answers'[c] = Answers[c] /\ up'[c] = up[c] /\ UNCHANGED << cpc, dir, disk >>
      BY <2>2, SendFileSession DEF send_file, clientVars, fileVars
    <3> QED
      BY <1>2, <3>1, StutterMapped DEF Pending
  <2>3. CASE server_recv_closed(c)
    <3>1. UNCHANGED << cpc, up, down, dir, disk >> /\ cpc[c] = "closed"
      BY <2>3, EndSession
    <3>2. Answers'[c] = Answers[c] /\ Pending'[c] = Pending[c]
      BY <3>1 DEF Answers, Pending
    <3> QED
      BY <1>2, <3>1, <3>2, StutterMapped
  <2> QED
    BY <1>2, <2>1, <2>2, <2>3, NoOtherSteps DEF ServerNext
<1>3. ASSUME NEW c \in Clients, lose_end(c) PROVE Service!Next
  BY <1>3, LoseMapped DEF Service!Next
<1>4. CASE UNCHANGED vars
  <2>1. UNCHANGED << cpc, reply, up, down, spc, handle, dir, disk >>
    BY <1>4 DEF vars, clientVars, serverVars, fileVars
  <2>2. UNCHANGED << Contents, Pending, Answers, Present >>
    BY <2>1 DEF Contents, Pending, Answers, Answered, Present, ClientOpen
  <2> QED
    BY <2>2 DEF Service!vars, Present
<1> QED
  BY <1>1, <1>2, <1>3, <1>4 DEF Next

\* When every put is empty and the disk does not fill up, the sessions
\* implement CixFileService: every request takes effect once, at one instant,
\* and is answered with what that instant found.
THEOREM ServiceImplemented ==
  ASSUME EmptyPuts, DiskRoom
  PROVE  Spec => ImplementsService
<1>1. Init => Service!Init
  BY ServiceInit
<1>2. (TypeOK /\ SessionInv) /\ [Next]_vars => [Service!Next]_(Service!vars)
  BY ServiceStep
<1> QED
  BY <1>1, <1>2, SessionsKept, PTL DEF Spec, ImplementsService, Service!Spec

=============================================================================
