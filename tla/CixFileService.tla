--------------------------- MODULE CixFileService ---------------------------
(***************************************************************************)
(* What the cix service promises a set of clients that share one directory *)
(* (asg4-client-server.mm, "Protocol"): every request takes effect once,   *)
(* at one instant between the moment it is made and the moment its answer  *)
(* arrives, and the answer tells what that instant found.                  *)
(***************************************************************************)
EXTENDS Order, Sequences

CONSTANTS
  Clients, Names,
  GET, LS, PUT, RM, FILEOUT, LSOUT, ACK, NAK,   \* commands
  Refused,       \* names no request may use
  ReadOnly,      \* names a put may not write
  Hidden,        \* names a get may not read
  Kept,          \* names an rm may not remove
  Missing,       \* content of a file that does not exist
  None,          \* no request, no answer
  InitContents   \* name -> content or Missing

VARIABLES
  files,    \* name -> content or Missing
  pending,  \* client -> the request that has not taken effect, or None
  answer,   \* client -> the answer on its way, or None
  present   \* client -> is it still there to hear

vars == << files, pending, answer, present >>

Init ==
  /\ files = InitContents
  /\ pending = [c \in Clients |-> None]
  /\ answer = [c \in Clients |-> None]
  /\ present = [c \in Clients |-> TRUE]

Ask(c) ==
  /\ present[c] /\ pending[c] = None /\ answer[c] = None
  /\ \E cmd \in {GET, LS, PUT, RM}, name \in Names :
       pending' = [pending EXCEPT ![c] = << cmd, name >>]
  /\ UNCHANGED << files, answer, present >>

\* The request leaves the directory as fs and is answered with cmd and data.
Result(c, fs, cmd, data) ==
  /\ files' = fs
  /\ answer' = [answer EXCEPT ![c] =
                  IF present[c] THEN << cmd, data >> ELSE None]

\* The files a request can reach when the names in barred are closed to it.
Reachable(barred) == {f \in Names \ (Refused \cup barred) : files[f] # Missing}

\* A put stores an empty file: the other sizes are outside this promise.
Perform(c, cmd, name) ==
  \/ /\ cmd = LS
     /\ Result(c, files, LSOUT,
               InOrder({f \in Names : files[f] # Missing}))
  \/ cmd = LS /\ Result(c, files, NAK, << >>)
  \/ /\ cmd = GET /\ name \in Reachable(Hidden)
     /\ Result(c, files, FILEOUT, files[name])
  \/ /\ cmd = GET /\ name \notin Reachable(Hidden)
     /\ Result(c, files, NAK, << >>)
  \/ /\ cmd = PUT /\ name \notin Refused \cup ReadOnly
     /\ Result(c, [files EXCEPT ![name] = << >>], ACK, << >>)
  \/ /\ cmd = PUT /\ name \in Refused \cup ReadOnly
     /\ Result(c, files, NAK, << >>)
  \/ /\ cmd = RM /\ name \in Reachable(Kept)
     /\ Result(c, [files EXCEPT ![name] = Missing], ACK, << >>)
  \/ /\ cmd = RM /\ name \notin Reachable(Kept)
     /\ Result(c, files, NAK, << >>)

TakeEffect(c) ==
  /\ pending[c] # None
  /\ Perform(c, pending[c][1], pending[c][2])
  /\ pending' = [pending EXCEPT ![c] = None]
  /\ UNCHANGED present

Hear(c) ==
  /\ answer[c] # None
  /\ answer' = [answer EXCEPT ![c] = None]
  /\ UNCHANGED << files, pending, present >>

Leave(c) ==
  /\ present' = [present EXCEPT ![c] = FALSE]
  /\ answer' = [answer EXCEPT ![c] = None]
  /\ UNCHANGED << files, pending >>

\* A request whose client has gone may be lost before it takes effect.
Forget(c) ==
  /\ ~ present[c]
  /\ pending' = [pending EXCEPT ![c] = None]
  /\ UNCHANGED << files, answer, present >>

Next ==
  \E c \in Clients : Ask(c) \/ TakeEffect(c) \/ Hear(c) \/ Leave(c) \/ Forget(c)

Spec == Init /\ [][Next]_vars
=============================================================================
