-------------------------------- MODULE Cix --------------------------------
(***************************************************************************)
(* The sessions of the cix file service (asg4/code/cix.cpp and cixd.cpp).  *)
(* Each client program talks over one TCP connection to a child server     *)
(* forked for it by the daemon (that part is CixListener); all the child   *)
(* servers work in one directory, without locks.                           *)
(*                                                                         *)
(* A connection is two byte streams.  A client is at its prompt, sending   *)
(* the payload of a put, or blocked in recv_packet; a server is blocked in *)
(* recv_packet for a header, in the middle of a reply, or gone.            *)
(*                                                                         *)
(* The directory maps a name to an inode, because an open file outlives    *)
(* its name: rm unlinks it and a get that has it open still reads it.      *)
(***************************************************************************)
EXTENDS CixProtocol, Order, SequencesExt

CONSTANTS
  Clients,        \* connections; each has a client program and a server
  Menu,           \* the <<command, name>> pairs users type
  Slashed,        \* names that hold a slash
  Unwritable,     \* names that cannot be opened for writing in the server
  Unreadable,     \* names that cannot be opened for reading in the server
  Unremovable,    \* names that unlink refuses in the server
  InitFiles,      \* name -> content, in the server's directory
  InitLocal,      \* name -> content, in each client's directory
  MaxInodes,      \* bound on the inodes in use
  MaxRequests,    \* bound on the requests of all clients together
  Cuts            \* bound: the lengths to which a stream may be cut short

NoInode == 0
Inodes == 1 .. MaxInodes
Nothing == << -1 >>          \* the content of a file that does not exist

\* A file whose length fits an int: in a longer one file_length overflows.
Content == {s \in Seq(Byte) : Len(s) \in Word}

ASSUME CixAssumption ==
  /\ MaxInodes \in Nat /\ MaxRequests \in Nat /\ Cuts \subseteq Nat
  /\ Menu \subseteq {GET, LS, PUT, RM} \X Byte
  /\ Slashed \subseteq Byte /\ Unwritable \subseteq Byte
  /\ Unreadable \subseteq Byte /\ Unremovable \subseteq Byte
  /\ DOMAIN InitFiles \subseteq Byte /\ DOMAIN InitLocal \subseteq Byte
  /\ \A f \in DOMAIN InitFiles : InitFiles[f] \in Content
  /\ \A f \in DOMAIN InitLocal : InitLocal[f] \in Content
  /\ Cardinality(DOMAIN InitFiles) <= MaxInodes

VARIABLES
  cpc,      \* where each client program is
  request,  \* the header the client last sent
  reply,    \* the header the client last received
  asked,    \* requests made so far (bounded by MaxRequests)
  local,    \* the files of each client's own directory
  up,       \* bytes in flight from client to server
  down,     \* bytes in flight from server to client
  spc,      \* where each child server is
  header,   \* the cix_header each server is working on
  handle,   \* the inode each server has open
  buffer,   \* bytes written to an ofstream and not yet to its file
  dir,      \* the server's directory
  disk      \* the content of each inode

clientVars == << cpc, request, reply, asked, local >>
serverVars == << spc, header, handle, buffer >>
fileVars == << dir, disk >>
vars == << clientVars, up, down, serverVars, fileVars >>

ClientPC == {"prompt", "payload out", "header", "payload", "closed"}
ServerPC == {"header", "get", "put", "flush", "unwind", "done", "crashed"}

Blank == [nbytes |-> 0, command |-> ERROR, filename |-> 0]

InodeOf == InOrder(DOMAIN InitFiles)

Init ==
  /\ cpc = [c \in Clients |-> "prompt"]
  /\ request = [c \in Clients |-> Blank]
  /\ reply = [c \in Clients |-> Blank]
  /\ asked = 0
  /\ local = [c \in Clients |->
               [f \in Byte |-> IF f \in DOMAIN InitLocal
                                 THEN InitLocal[f] ELSE Nothing]]
  /\ up = [c \in Clients |-> << >>]
  /\ down = [c \in Clients |-> << >>]
  /\ spc = [c \in Clients |-> "header"]
  /\ header = [c \in Clients |-> Blank]
  /\ handle = [c \in Clients |-> NoInode]
  /\ buffer = [c \in Clients |-> << >>]
  /\ dir = [f \in Byte |-> IF f \in DOMAIN InitFiles
                             THEN CHOOSE i \in DOMAIN InodeOf : InodeOf[i] = f
                             ELSE NoInode]
  /\ disk = [i \in Inodes |-> IF i \in DOMAIN InodeOf
                                THEN InitFiles[InodeOf[i]] ELSE << >>]

ClientOpen(c) == cpc[c] # "closed"
ServerOpen(c) == spc[c] \notin {"done", "crashed"}

-----------------------------------------------------------------------------
(* The client program. *)

\* A send to a server that is gone is either lost or throws.
ClientSends(c, bytes, next) ==
  \/ /\ ServerOpen(c)
     /\ up' = [up EXCEPT ![c] = @ \o bytes]
     /\ cpc' = [cpc EXCEPT ![c] = next]
  \/ /\ ~ ServerOpen(c)
     /\ up' = up
     /\ cpc' \in {[cpc EXCEPT ![c] = next], [cpc EXCEPT ![c] = "closed"]}

\* The head of a request: the user types a command and its header is sent.
Submit(c, cmd, name, nbytes, next) ==
  /\ cpc[c] = "prompt"
  /\ asked < MaxRequests
  /\ << cmd, name >> \in Menu
  /\ asked' = asked + 1
  /\ request' = [request EXCEPT ![c] =
                   [nbytes |-> nbytes, command |-> cmd, filename |-> name]]
  /\ ClientSends(c, Encode(request'[c]), next)
  /\ UNCHANGED << reply, local, down, serverVars, fileVars >>

cix_ls(c) == Submit(c, LS, 0, 0, "header")
cix_get(c, name) == Submit(c, GET, name, 0, "header")
cix_rm(c, name) == Submit(c, RM, name, 0, "header")

\* A put of a local file that does not exist sends nothing and changes nothing.
cix_put(c, name) ==
  LET length == Len(local[c][name]) IN
  /\ local[c][name] # Nothing
  /\ Submit(c, PUT, name, Htonl(length),
            IF length = 0 THEN "header" ELSE "payload out")

\* The file was left positioned at its end, so read() returns nothing and the
\* payload is the zeroed buffer.
put_payload(c) ==
  /\ cpc[c] = "payload out"
  /\ ClientSends(c, Zeros(Ntohl(request[c].nbytes)), "header")
  /\ UNCHANGED << request, reply, asked, local, down, serverVars, fileVars >>

\* recv_packet of the reply header; LSOUT and FILEOUT may bring a payload.
recv_reply(c) ==
  /\ cpc[c] = "header"
  /\ Len(down[c]) >= HeaderSize
  /\ LET h == Decode(down[c])
         hasPayload == \/ request[c].command = LS /\ h.command = LSOUT
                       \/ request[c].command = GET /\ h.command = FILEOUT
                                                   /\ h.nbytes # 0
     IN  /\ reply' = [reply EXCEPT ![c] = h]
         /\ cpc' = [cpc EXCEPT ![c] =
                      IF hasPayload THEN "payload" ELSE "prompt"]
  /\ down' = [down EXCEPT ![c] = Left(@, HeaderSize)]
  /\ UNCHANGED << request, asked, local, up, serverVars, fileVars >>

\* recv_packet of the payload: ls prints it, get stores it in a local file.
recv_payload(c) ==
  LET length == Ntohl(reply[c].nbytes) IN
  /\ cpc[c] = "payload"
  /\ length > 0
  /\ Len(down[c]) >= length
  /\ local' = IF request[c].command = GET
                THEN [local EXCEPT ![c][request[c].filename] =
                        Taken(down[c], length)]
                ELSE local
  /\ down' = [down EXCEPT ![c] = Left(@, length)]
  /\ cpc' = [cpc EXCEPT ![c] = "prompt"]
  /\ UNCHANGED << request, reply, asked, up, serverVars, fileVars >>

\* Mutant: recv_packet does not look for the end of the stream.
client_recv_closed_never(c) == c \notin Clients /\ UNCHANGED vars

\* recv returns 0, "is closed": at the end of the stream, and for the empty
\* payload of an LSOUT.  A reset connection ends here too.
client_recv_closed(c) ==
  /\ \/ cpc[c] = "header" /\ ~ ServerOpen(c) /\ Len(down[c]) < HeaderSize
     \/ /\ cpc[c] = "payload"
        /\ LET length == Ntohl(reply[c].nbytes)
           IN  length = 0 \/ (~ ServerOpen(c) /\ Len(down[c]) < length)
  /\ cpc' = [cpc EXCEPT ![c] = "closed"]
  /\ down' = [down EXCEPT ![c] = << >>]
  /\ UNCHANGED << request, reply, asked, local, up, serverVars, fileVars >>

\* The user ends the program: exit or end of input at the prompt, a signal
\* anywhere else.  What the server still sends is lost.
leave(c) ==
  /\ ClientOpen(c)
  /\ cpc' = [cpc EXCEPT ![c] = "closed"]
  /\ down' = [down EXCEPT ![c] = << >>]
  /\ UNCHANGED << request, reply, asked, local, up, serverVars, fileVars >>

-----------------------------------------------------------------------------
(* The child server. *)

\* Mutant: no check.
checkValidFileName_always(name) == name \in Byte

checkValidFileName(name) == name \notin Slashed

\* recv_packet has a whole header, the switch selects its command.
Received(c, cmds) ==
  /\ spc[c] = "header"
  /\ Len(up[c]) >= HeaderSize
  /\ Decode(up[c]).command \in cmds
  /\ up' = [up EXCEPT ![c] = Left(@, HeaderSize)]

\* A send to a client that is gone is either lost or throws socket_sys_error,
\* which ends the server.
ServerSends(c, bytes, next) ==
  \/ /\ ClientOpen(c)
     /\ down' = [down EXCEPT ![c] = @ \o bytes]
     /\ spc' = [spc EXCEPT ![c] = next]
  \/ /\ ~ ClientOpen(c)
     /\ down' = down
     /\ spc' \in {[spc EXCEPT ![c] = next], [spc EXCEPT ![c] = "done"]}

\* Mutant: header.command is not set.
Answer_unset(h, cmd) == Encode([h EXCEPT !.command = IF cmd = 0 THEN cmd ELSE @])

\* The reply is the request's own header with another command in it.
Answer(h, cmd) == Encode([h EXCEPT !.command = cmd])

\* What ls -l prints: a total, then one entry for each file in order.
Listing ==
  << Radix - 1 >> \o InOrder({f \in Byte : dir[f] # NoInode})

\* EAGAIN, when popen cannot fork.
Errno == 11

\* The listing's header and its payload are two sends and one step here: no
\* other program can tell, since the listing is already read.  A NAK keeps the
\* name in the request.
reply_ls(c) ==
  /\ Received(c, {LS})
  /\ \/ ServerSends(c, Encode([nbytes |-> Htonl(Len(Listing)),
                              command |-> LSOUT, filename |-> 0]) \o Listing,
                   "header")
     \/ ServerSends(c, Encode([Decode(up[c]) EXCEPT !.nbytes = Htonl(Errno),
                                                    !.command = NAK]),
                   "header")
  /\ UNCHANGED << clientVars, header, handle, buffer, fileVars >>

CanOpenForReading(name) == dir[name] # NoInode /\ name \notin Unreadable

\* The first half of reply_get: open the file, take its length, send FILEOUT.
reply_get(c) ==
  LET h == Decode(up[c]) IN
  /\ Received(c, {GET})
  /\ \/ /\ ~ checkValidFileName(h.filename) \/ ~ CanOpenForReading(h.filename)
        /\ ServerSends(c, Answer(h, NAK), "header")
        /\ UNCHANGED << header, handle >>
     \/ /\ checkValidFileName(h.filename) /\ CanOpenForReading(h.filename)
        /\ LET length == Len(disk[dir[h.filename]])
               fileout == [h EXCEPT !.nbytes = Htonl(length), !.command = FILEOUT]
           IN  IF length = 0
                 THEN /\ ServerSends(c, Encode(fileout), "header")
                      /\ UNCHANGED << header, handle >>
                 ELSE /\ ServerSends(c, Encode(fileout), "get")
                      /\ header' = [header EXCEPT ![c] = fileout]
                      /\ handle' = [handle EXCEPT ![c] =
                           IF spc'[c] = "get" THEN dir[h.filename] ELSE NoInode]
  /\ UNCHANGED << clientVars, buffer, fileVars >>

\* Mutant: the file is not closed.
send_file_leaks(c) ==
  LET length == Ntohl(header[c].nbytes)
      content == disk[handle[c]]
  IN
  /\ spc[c] = "get"
  /\ ServerSends(c, [i \in 1 .. length |->
                       IF i <= Len(content) THEN content[i] ELSE 0], "header")
  /\ UNCHANGED << clientVars, up, header, handle, buffer, fileVars >>

\* The second half: read that many bytes and send them.  What the file has
\* lost since then stays zero in the buffer.
send_file(c) ==
  LET length == Ntohl(header[c].nbytes)
      content == disk[handle[c]]
  IN
  /\ spc[c] = "get"
  /\ ServerSends(c, [i \in 1 .. length |->
                       IF i <= Len(content) THEN content[i] ELSE 0], "header")
  /\ handle' = [handle EXCEPT ![c] = NoInode]
  /\ UNCHANGED << clientVars, up, header, buffer, fileVars >>

FreeInodes ==
  {i \in Inodes : /\ \A f \in Byte : dir[f] # i
                  /\ \A c \in Clients : handle[c] # i}

CanOpenForWriting(name) ==
  /\ name # 0 /\ name \notin Unwritable
  /\ dir[name] # NoInode \/ FreeInodes # {}

\* Mutant: no return after the NAK of an invalid name.
reply_put_falls_through(c) ==
  LET h == Decode(up[c])
      writable == checkValidFileName(h.filename) /\ CanOpenForWriting(h.filename)
      inode == IF dir[h.filename] # NoInode THEN dir[h.filename]
               ELSE CHOOSE i \in FreeInodes : \A j \in FreeInodes : i <= j
  IN
  /\ Received(c, {PUT})
  /\ \/ /\ ~ writable
        /\ ServerSends(c, Answer(h, NAK) \o Answer(h, NAK), "header")
        /\ UNCHANGED << header, handle, fileVars >>
     \/ /\ writable
        /\ dir' = [dir EXCEPT ![h.filename] = inode]
        /\ disk' = [disk EXCEPT ![inode] = << >>]
        /\ ServerSends(c, Answer(h, ACK), "header")
        /\ UNCHANGED << header, handle >>
  /\ UNCHANGED << clientVars, buffer >>

\* The first part of reply_put: an ofstream creates or truncates the file.  A
\* NAK leaves the payload in the stream.
reply_put(c) ==
  LET h == Decode(up[c])
      writable == checkValidFileName(h.filename) /\ CanOpenForWriting(h.filename)
      inode == IF dir[h.filename] # NoInode THEN dir[h.filename]
               ELSE CHOOSE i \in FreeInodes : \A j \in FreeInodes : i <= j
  IN
  /\ Received(c, {PUT})
  /\ \/ /\ ~ writable
        /\ ServerSends(c, Answer(h, NAK), "header")
        /\ UNCHANGED << header, handle, fileVars >>
     \/ /\ writable
        /\ dir' = [dir EXCEPT ![h.filename] = inode]
        /\ disk' = [disk EXCEPT ![inode] = << >>]
        /\ IF h.nbytes = 0
             THEN /\ ServerSends(c, Answer(h, ACK), "header")
                  /\ UNCHANGED << header, handle >>
             ELSE /\ header' = [header EXCEPT ![c] = h]
                  /\ handle' = [handle EXCEPT ![c] = inode]
                  /\ spc' = [spc EXCEPT ![c] = "put"]
                  /\ down' = down
  /\ UNCHANGED << clientVars, buffer >>

\* recv_packet is given header.nbytes + 1, in network order and 32 bits wide.
PutNeeds(c) == (header[c].nbytes + 1) % (Radix * Radix)

\* The payload is in the buffer and in the ofstream, and ACK is sent; when the
\* client has gone the send may throw, out of reply_put.
recv_file(c) ==
  /\ spc[c] = "put"
  /\ PutNeeds(c) > 0
  /\ Len(up[c]) >= PutNeeds(c)
  /\ up' = [up EXCEPT ![c] = Left(@, PutNeeds(c))]
  /\ buffer' = [buffer EXCEPT ![c] = Taken(up[c], header[c].nbytes)]
  /\ \/ /\ ClientOpen(c)
        /\ down' = [down EXCEPT ![c] = @ \o Answer(header[c], ACK)]
        /\ spc' = [spc EXCEPT ![c] = "flush"]
     \/ /\ ~ ClientOpen(c)
        /\ down' = down
        /\ spc' \in {[spc EXCEPT ![c] = "flush"], [spc EXCEPT ![c] = "unwind"]}
  /\ UNCHANGED << clientVars, header, handle, fileVars >>

\* The ofstream is destroyed as reply_put ends, by its return or by the
\* exception of its send, and only then writes its bytes, at the start of the
\* file.
flush_file(c) ==
  LET old == disk[handle[c]] IN
  /\ spc[c] \in {"flush", "unwind"}
  /\ disk' = [disk EXCEPT ![handle[c]] =
                buffer[c] \o Left(old, Len(buffer[c]))]
  /\ buffer' = [buffer EXCEPT ![c] = << >>]
  /\ handle' = [handle EXCEPT ![c] = NoInode]
  /\ spc' = [spc EXCEPT ![c] = IF @ = "flush" THEN "header" ELSE "done"]
  /\ UNCHANGED << clientVars, up, down, header, dir >>

\* recv clears header.nbytes + 1 bytes of a buffer of ntohl(header.nbytes) + 1:
\* undefined behaviour when the first is larger, and one outcome is a crash.
heap_overflow(c) ==
  /\ spc[c] = "put"
  /\ PutNeeds(c) > Ntohl(header[c].nbytes) + 1
  /\ spc' = [spc EXCEPT ![c] = "crashed"]
  /\ handle' = [handle EXCEPT ![c] = NoInode]
  /\ UNCHANGED << clientVars, up, down, header, buffer, fileVars >>

\* Mutant: an invalid header is answered with a NAK.
invalid_header_nak(c) ==
  /\ Received(c, Byte \ {LS, GET, PUT, RM})
  /\ ServerSends(c, Answer(Decode(up[c]), NAK), "header")
  /\ UNCHANGED << clientVars, header, handle, buffer, fileVars >>

\* A header whose command is no request: logged, and the loop goes on.
invalid_header(c) ==
  /\ Received(c, Byte \ {LS, GET, PUT, RM})
  /\ UNCHANGED << clientVars, down, serverVars, fileVars >>

CanUnlink(name) == dir[name] # NoInode /\ name \notin Unremovable

\* Mutant: a failed unlink is not answered.
reply_rm_silent(c) ==
  LET h == Decode(up[c])
      ok == checkValidFileName(h.filename) /\ CanUnlink(h.filename)
  IN
  /\ Received(c, {RM})
  /\ dir' = IF ok THEN [dir EXCEPT ![h.filename] = NoInode] ELSE dir
  /\ ServerSends(c, IF ok THEN Answer(h, ACK) ELSE << >>, "header")
  /\ UNCHANGED << clientVars, header, handle, buffer, disk >>

\* Mutant: the result of unlink is not looked at.
reply_rm_unchecked(c) ==
  LET h == Decode(up[c]) IN
  /\ Received(c, {RM})
  /\ dir' = [dir EXCEPT ![h.filename] = NoInode]
  /\ ServerSends(c, Answer(h, ACK), "header")
  /\ UNCHANGED << clientVars, header, handle, buffer, disk >>

reply_rm(c) ==
  LET h == Decode(up[c])
      ok == checkValidFileName(h.filename) /\ CanUnlink(h.filename)
  IN
  /\ Received(c, {RM})
  /\ dir' = IF ok THEN [dir EXCEPT ![h.filename] = NoInode] ELSE dir
  /\ ServerSends(c, Answer(h, IF ok THEN ACK ELSE NAK), "header")
  /\ UNCHANGED << clientVars, header, handle, buffer, disk >>

\* Mutant: the end of the stream is noticed only between requests.
server_recv_closed_header(c) ==
  /\ spc[c] = "header" /\ ~ ClientOpen(c) /\ Len(up[c]) < HeaderSize
  /\ spc' = [spc EXCEPT ![c] = "done"]
  /\ UNCHANGED << clientVars, up, down, header, handle, buffer, fileVars >>

\* recv returns 0: run_server catches the socket_error and the child exits.
server_recv_closed(c) ==
  /\ \/ spc[c] = "header" /\ ~ ClientOpen(c) /\ Len(up[c]) < HeaderSize
     \/ /\ spc[c] = "put"
        /\ \/ PutNeeds(c) = 0
           \/ ~ ClientOpen(c) /\ Len(up[c]) < PutNeeds(c)
  /\ spc' = [spc EXCEPT ![c] = "done"]
  /\ handle' = [handle EXCEPT ![c] = NoInode]
  /\ UNCHANGED << clientVars, up, down, header, buffer, fileVars >>

-----------------------------------------------------------------------------

\* The end of what a program sent may not reach its peer once the program has
\* gone: it died inside send_packet, or its end reset the connection
\* (CixPackets!reset).
lose_end(c) ==
  /\ \/ /\ ~ ClientOpen(c) /\ down' = down
        /\ \E n \in Cuts : n < Len(up[c]) /\ up' = [up EXCEPT ![c] = Taken(@, n)]
     \/ /\ ~ ServerOpen(c) /\ up' = up
        /\ \E n \in Cuts : n < Len(down[c]) /\ down' = [down EXCEPT ![c] = Taken(@, n)]
  /\ UNCHANGED << clientVars, serverVars, fileVars >>

ClientReceives(c) == recv_reply(c) \/ recv_payload(c) \/ client_recv_closed(c)

ClientNext(c) ==
  \/ cix_ls(c)
  \/ \E name \in Byte : cix_get(c, name)
  \/ \E name \in Byte : cix_put(c, name)
  \/ \E name \in Byte : cix_rm(c, name)
  \/ put_payload(c)
  \/ ClientReceives(c)
  \/ leave(c)

ServerNext(c) ==
  \/ reply_ls(c) \/ reply_get(c) \/ send_file(c)
  \/ reply_put(c) \/ recv_file(c) \/ flush_file(c) \/ heap_overflow(c)
  \/ reply_rm(c) \/ invalid_header(c) \/ server_recv_closed(c)

Next == \E c \in Clients : ClientNext(c) \/ ServerNext(c) \/ lose_end(c)

\* The operating system runs every process that can run, and a program that
\* can go on does; nothing makes a user type a command or leave.
Fairness ==
  \A c \in Clients : /\ WF_vars(ServerNext(c))
                     /\ WF_vars(put_payload(c) \/ ClientReceives(c))

Spec == Init /\ [][Next]_vars /\ Fairness
=============================================================================
