---------------------------- MODULE CixProtocol ----------------------------
(***************************************************************************)
(* The wire format of the cix protocol (asg4/code/protocol.h): a header    *)
(* holding a count of payload bytes, a command and a file name, and the    *)
(* byte stream it travels on.                                              *)
(*                                                                         *)
(* The 64 bytes of a real header (4 of nbytes, 1 of command, 59 of         *)
(* filename) are scaled down to HeaderSize = 4: two bytes of nbytes, one   *)
(* of command, one of filename.  What the properties depend on is kept:    *)
(* nbytes comes first and is wider than a byte, so it has a byte order;    *)
(* the command is one byte; bytes 0..10 are the command codes, whatever    *)
(* field they come from; a file name is printable, so never a code.        *)
(***************************************************************************)
EXTENDS Integers, Sequences

CONSTANT Radix          \* number of values of a byte (256 in the code)

ASSUME RadixAssumption == Radix \in Nat /\ Radix > 10

Byte == 0 .. Radix - 1
Word == 0 .. Radix * Radix - 1     \* uint32_t, here two bytes

\* enum class cix_command: the codes are the declaration order.
ERROR == 0
GET == 2
LS == 4
PUT == 5
RM == 6
FILEOUT == 7
LSOUT == 8
ACK == 9
NAK == 10

HeaderSize == 4

Header == [nbytes : Word, command : Byte, filename : Byte]

\* htonl and ntohl on a little-endian host are the same byte swap.
Htonl(n) == (n % Radix) * Radix + n \div Radix
Ntohl(n) == Htonl(n)

\* The bytes of a header in memory: nbytes lies there least byte first.
Encode(h) == << h.nbytes % Radix, h.nbytes \div Radix, h.command, h.filename >>

\* The header that HeaderSize received bytes are read as.
Decode(bytes) ==
  [nbytes |-> bytes[1] + Radix * bytes[2],
   command |-> bytes[3], filename |-> bytes[4]]

\* recv_packet of n bytes from a stream: what it returns and what it leaves.
Taken(stream, n) == SubSeq(stream, 1, n)
Left(stream, n) == SubSeq(stream, n + 1, Len(stream))

\* A buffer of n zeros: new char[n] of make_unique, and memset.
Zeros(n) == [i \in 1 .. n |-> 0]

=============================================================================
