--------------------------- MODULE CixProperties ---------------------------
(***************************************************************************)
(* What the sessions of Cix should satisfy.                                *)
(***************************************************************************)
EXTENDS Cix

\* Every variable has its type; a server holds an inode exactly while it is
\* in the middle of a reply that has a file open (cixd.cpp:84, 130).
TypeOK ==
  /\ cpc \in [Clients -> ClientPC]
  /\ request \in [Clients -> Header] /\ reply \in [Clients -> Header]
  /\ asked \in 0 .. MaxRequests
  /\ local \in [Clients -> [Byte -> Content \cup {Nothing}]]
  /\ up \in [Clients -> Seq(Byte)] /\ down \in [Clients -> Seq(Byte)]
  /\ spc \in [Clients -> ServerPC] /\ header \in [Clients -> Header]
  /\ handle \in [Clients -> Inodes \cup {NoInode}]
  /\ \A c \in Clients : handle[c] # NoInode <=> spc[c] \in {"get", "put", "flush", "unwind"}
  /\ buffer \in [Clients -> Content]
  /\ dir \in [Byte -> Inodes \cup {NoInode}]
  /\ disk \in [Inodes -> Content]

\* The session stays in step: at the prompt no byte of an earlier exchange is
\* left in either direction, and a client that waits is owed exactly one
\* answer, which is unread in its request, being made, or on its way
\* (cixd.cpp:181, "a receive followed by a send").
InStep ==
  \A c \in Clients : ClientOpen(c) =>
    /\ spc[c] \in {"header", "get"}
    /\ cpc[c] = "prompt" =>
         up[c] = << >> /\ down[c] = << >> /\ spc[c] = "header"
    /\ cpc[c] = "header" =>
         \/ up[c] = Encode(request[c]) /\ down[c] = << >> /\ spc[c] = "header"
         \/ up[c] = << >> /\ Len(down[c]) >= HeaderSize

\* The header that reaches a waiting client is an answer to the command it
\* sent, not to another one (cix.cpp:54, 76, 123, 150).
AnswersItsRequest ==
  \A c \in Clients :
    cpc[c] = "header" /\ Len(down[c]) >= HeaderSize =>
      LET got == Decode(down[c]).command IN
      CASE request[c].command = LS -> got \in {LSOUT, NAK}
        [] request[c].command = GET -> got \in {FILEOUT, NAK}
        [] OTHER -> got \in {ACK, NAK}

\* No request, however garbled the stream it is read from, makes a file under
\* a name with a slash in it (checkValidFileName, cixd.cpp:22).
NoSlashedFile ==
  \A f \in Slashed : dir[f] # NoInode => f \in DOMAIN InitFiles

\* The server sends a header only in answer to a request of its client: even
\* when the stream is out of step, a client that waits for nothing is not sent
\* an answer.
OnlyAnswers ==
  [][\A c \in Clients :
       Len(down'[c]) > Len(down[c]) /\ spc[c] # "get"
         => cpc[c] \in {"header", "payload out"}]_vars

\* Every request is answered: a client that waits for the server gets on.
RequestsAnswered ==
  \A c \in Clients :
    cpc[c] \in {"header", "payload"} ~> cpc[c] \in {"prompt", "closed"}

\* When the client has gone its server ends too, wherever it is
\* (asg4-client-server.mm:70, "It exits when the client closes the socket").
ServerFollowsClient ==
  \A c \in Clients : ~ ClientOpen(c) ~> ~ ServerOpen(c)

\* A client whose server has died is not left waiting for it.
ClientNoticesDeath ==
  \A c \in Clients :
    ~ ServerOpen(c) /\ cpc[c] \in {"header", "payload"}
      ~> cpc[c] \in {"prompt", "closed"}

-----------------------------------------------------------------------------
(* Claims of asg4-client-server.mm that the code does not meet. *)

Contents == [f \in Byte |-> IF dir[f] = NoInode THEN Nothing ELSE disk[dir[f]]]

\* The client is back from a put that was acknowledged, and the server is done
\* with it.
PutAcknowledged(c) ==
  /\ cpc[c] = "prompt" /\ spc[c] = "header"
  /\ request[c].command = PUT /\ reply[c].command = ACK

\* With one client: an acknowledged put has stored the local file's bytes
\* ("indicating that the request was successfully completed", :229).
AckedPutStored ==
  \A c \in Clients : PutAcknowledged(c) =>
    Contents[request[c].filename] = local[c][request[c].filename]

\* What get stores is the file, if all that is ever put over it is empty ("The
\* payload consists of the bytes of the file", :216).
GotWholeFile ==
  \A c \in Clients, f \in DOMAIN InitFiles :
    local[c][f] \in {Nothing, InitFiles[f]}
      \cup {InitLocal[g] : g \in {f} \cap DOMAIN InitLocal}

-----------------------------------------------------------------------------
(* The sessions implement CixFileService, when no put has a payload and no *)
(* file that has one is ever overwritten.                                  *)

PutNames == {f \in Byte : << PUT, f >> \in Menu}

\* What users put is empty on both sides.
EmptyPuts ==
  \A f \in PutNames : /\ f \in DOMAIN InitLocal => InitLocal[f] = << >>
                      /\ f \in DOMAIN InitFiles => InitFiles[f] = << >>

\* The inodes suffice for every file there can be and one that each server
\* has open: the disk of the model is never full.
DiskRoom ==
  /\ IsFiniteSet(Clients)
  /\ Cardinality(DOMAIN InitFiles \cup (PutNames \ Slashed))
       + Cardinality(Clients) <= MaxInodes

Pending ==
  [c \in Clients |->
    IF Len(up[c]) < HeaderSize THEN Nothing
    ELSE << Decode(up[c]).command, Decode(up[c]).filename >>]

\* The answer is fixed when its header is sent; a file still to be read is the
\* rest of it.
Answered(c) ==
  LET arrived == IF cpc[c] = "payload" THEN reply[c] ELSE Decode(down[c])
      payload == IF spc[c] = "get" THEN disk[handle[c]]
                 ELSE IF cpc[c] = "payload" THEN down[c]
                 ELSE Left(down[c], HeaderSize)
  IN << arrived.command,
        IF arrived.command = LSOUT THEN Tail(payload) ELSE payload >>

Answers ==
  [c \in Clients |->
    IF cpc[c] = "payload" \/ (cpc[c] = "header" /\ Len(down[c]) >= HeaderSize)
      THEN Answered(c) ELSE Nothing]

Service == INSTANCE CixFileService WITH
  Names <- Byte, Refused <- Slashed, ReadOnly <- Unwritable \cup {0},
  Hidden <- Unreadable, Kept <- Unremovable,
  Missing <- Nothing, None <- Nothing,
  InitContents <- [f \in Byte |-> IF f \in DOMAIN InitFiles
                                    THEN InitFiles[f] ELSE Nothing],
  files <- Contents, pending <- Pending, answer <- Answers,
  present <- [c \in Clients |-> ClientOpen(c)]

\* Every request takes effect at one instant, once, and is answered with what
\* that instant found, whatever the other servers do in the directory.
ImplementsService == Service!Spec
=============================================================================
