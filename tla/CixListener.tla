---------------------------- MODULE CixListener ----------------------------
(***************************************************************************)
(* The cix daemon (asg4/code/cixd.cpp, main): it accepts connections,      *)
(* forks a child server for each, and reaps the children from a SIGCHLD    *)
(* handler.  What a child says to its client is Cix.                       *)
(*                                                                         *)
(* A forked child goes on in the same code as its parent, so one set of    *)
(* actions, indexed by the process, is the text of main for all of them.   *)
(* The child forked for connection c is named c.                           *)
(***************************************************************************)
EXTENDS Integers, FiniteSets

CONSTANTS
  Conns,           \* connections that clients may make
  Daemon,          \* the first process
  LookupMayFail,   \* may the resolver fail to name a host
  ForkMayFail,     \* may fork fail
  AcceptErrors     \* what else accept may fail with

ASSUME ListenerAssumption ==
  /\ Daemon \notin Conns
  /\ LookupMayFail \in BOOLEAN /\ ForkMayFail \in BOOLEAN
  /\ AcceptErrors \subseteq {"ECONNABORTED", "EMFILE"}

Procs == {Daemon} \cup Conns
Listener == "listener"
NoSock == "closed"            \* CLOSED_FD
NoParent == "init"

ASSUME NamesAssumption == {Listener, NoSock, NoParent} \cap Procs = {}

VARIABLES
  conn,       \* is the connection new, queued in the kernel, or accepted
  pc,         \* the line of main each process is at
  sock,       \* the client_sock of each process
  fds,        \* the open sockets of each process
  errno,      \* of each process
  parent,     \* the process that forked it
  sigchld,    \* is a SIGCHLD pending; further ones are merged with it
  handling    \* is the process inside signal_handler

vars == << conn, pc, sock, fds, errno, parent, sigchld, handling >>

PC == {"unborn", "lookup", "accept", "interrupted", "caught", "accepted",
       "fork", "parent", "child", "announce", "serve", "reap",
       "exited", "reaped"}
Errno == {"none", "EINTR", "EBADF", "ECHILD", "ECONNABORTED", "EMFILE"}

Alive(p) == pc[p] \notin {"unborn", "exited", "reaped"}
Children(p) == {c \in Conns : parent[c] = p}
Zombies(p) == {c \in Children(p) : pc[c] = "exited"}

\* The handler blocks every signal and main does not run under it.
InMain(p, line) == pc[p] = line /\ ~ handling[p]

Init ==
  /\ conn = [c \in Conns |-> "new"]
  /\ pc = [p \in Procs |-> IF p = Daemon THEN "lookup" ELSE "unborn"]
  /\ sock = [p \in Procs |-> NoSock]
  /\ fds = [p \in Procs |-> IF p = Daemon THEN {Listener} ELSE {}]
  /\ errno = [p \in Procs |-> "none"]
  /\ parent = [p \in Procs |-> NoParent]
  /\ sigchld = [p \in Procs |-> FALSE]
  /\ handling = [p \in Procs |-> FALSE]

-----------------------------------------------------------------------------
(* Shared pieces of the actions. *)

Goto(p, line) == pc' = [pc EXCEPT ![p] = line]

\* The process ends: its sockets close and its parent gets a SIGCHLD.
Exit(p) ==
  /\ Goto(p, "exited")
  /\ fds' = [fds EXCEPT ![p] = {}]
  /\ sock' = [sock EXCEPT ![p] = NoSock]
  /\ sigchld' = [q \in Procs |->
                   sigchld[q] \/ (q = parent[p] /\ Alive(q))]
  /\ UNCHANGED << conn, errno, parent, handling >>

\* Mutant: close() does not set socket_fd to CLOSED_FD.
CloseSock_keeps_fd(p) ==
  /\ fds' = [fds EXCEPT ![p] = @ \ {sock[p]}]
  /\ sock' = sock

\* client_sock.close(), and its destructor when it is still open.
CloseSock(p) ==
  /\ fds' = [fds EXCEPT ![p] = @ \ {sock[p]}]
  /\ sock' = [sock EXCEPT ![p] = NoSock]

\* Mutant: waitpid without WNOHANG waits for a child that still runs.
waitpidNone_waits(p) ==
  /\ \A c \in Children(p) : ~ Alive(c) /\ c \notin Zombies(p)
  /\ errno' = [errno EXCEPT ![p] = "ECHILD"]

\* Mutant: the loop of reap_zombies stops before the last zombie.
waitpidNone_early(p) == p \in Procs /\ errno' = errno

\* One turn of the loop in reap_zombies: waitpid (-1, &status, WNOHANG)
\* returns a zombie, 0 when the children all run, or -1 when there are none.
waitpid(p) == \E z \in Zombies(p) : Goto(z, "reaped") /\ errno' = errno
waitpidNone(p) ==
  /\ Zombies(p) = {}
  /\ errno' = [errno EXCEPT ![p] =
       IF \E c \in Children(p) : Alive(c) THEN @ ELSE "ECHILD"]

-----------------------------------------------------------------------------
(* main *)

\* A client connects: the kernel completes it and queues it on the listener.
Connect(c) ==
  /\ conn[c] = "new"
  /\ \E p \in Procs : Listener \in fds[p]
  /\ conn' = [conn EXCEPT ![c] = "queued"]
  /\ UNCHANGED << pc, sock, fds, errno, parent, sigchld, handling >>

\* The log line that names this host, at the head of the loop.
Lookup(p) ==
  /\ InMain(p, "lookup")
  /\ \/ /\ Goto(p, "accept")
        /\ UNCHANGED << conn, sock, fds, errno, parent, sigchld, handling >>
     \/ LookupMayFail /\ Exit(p)

Accept(p) ==
  /\ InMain(p, "accept")
  /\ Listener \in fds[p]
  /\ \E c \in Conns :
       /\ conn[c] = "queued"
       /\ conn' = [conn EXCEPT ![c] = "accepted"]
       /\ sock' = [sock EXCEPT ![p] = c]
       /\ fds' = [fds EXCEPT ![p] = @ \cup {c}]
  /\ Goto(p, "accepted")
  /\ UNCHANGED << errno, parent, sigchld, handling >>

\* accept is called with a listener that this process has closed.
AcceptBadFd(p) ==
  /\ InMain(p, "accept")
  /\ Listener \notin fds[p]
  /\ errno' = [errno EXCEPT ![p] = "EBADF"]
  /\ Goto(p, "caught")
  /\ UNCHANGED << conn, sock, fds, parent, sigchld, handling >>

\* accept fails because a peer has gone again or no descriptor is left.
AcceptFails(p) ==
  /\ InMain(p, "accept")
  /\ Listener \in fds[p]
  /\ \E error \in AcceptErrors : errno' = [errno EXCEPT ![p] = error]
  /\ Goto(p, "caught")
  /\ UNCHANGED << conn, sock, fds, parent, sigchld, handling >>

\* accept has no connection to return and a signal wakes it; sa_flags is 0, so
\* it is not restarted once the handler has run.
AcceptInterrupted(p) ==
  /\ InMain(p, "accept")
  /\ Listener \in fds[p]
  /\ \A c \in Conns : conn[c] # "queued"
  /\ sigchld[p]
  /\ sigchld' = [sigchld EXCEPT ![p] = FALSE]
  /\ handling' = [handling EXCEPT ![p] = TRUE]
  /\ Goto(p, "interrupted")
  /\ UNCHANGED << conn, sock, fds, errno, parent >>

\* It returns -1 with errno set, and base_socket::accept throws.
AcceptReturns(p) ==
  /\ InMain(p, "interrupted")
  /\ errno' = [errno EXCEPT ![p] = "EINTR"]
  /\ Goto(p, "caught")
  /\ UNCHANGED << conn, sock, fds, parent, sigchld, handling >>

\* socket_sys_error copies errno now; anything but EINTR is thrown again and
\* leaves the loop.
Caught(p) ==
  /\ InMain(p, "caught")
  /\ \/ /\ errno[p] = "EINTR"
        /\ Goto(p, "accept")
        /\ UNCHANGED << conn, sock, fds, errno, parent, sigchld, handling >>
     \/ errno[p] # "EINTR" /\ Exit(p)

\* The log line that names the peer, outside of the inner try.
Announce(p) ==
  /\ InMain(p, "accepted")
  /\ \/ /\ Goto(p, "fork")
        /\ UNCHANGED << conn, sock, fds, errno, parent, sigchld, handling >>
     \/ LookupMayFail /\ Exit(p)

\* fork: the child has the parent's sockets and no pending signal.
Fork(p) ==
  /\ InMain(p, "fork")
  /\ \E c \in Conns :
       /\ sock[p] = c /\ pc[c] = "unborn"
       /\ pc' = [pc EXCEPT ![p] = "parent", ![c] = "child"]
       /\ sock' = [sock EXCEPT ![c] = c]
       /\ fds' = [fds EXCEPT ![c] = fds[p]]
       /\ errno' = [errno EXCEPT ![c] = errno[p]]
       /\ parent' = [parent EXCEPT ![c] = p]
  /\ UNCHANGED << conn, sigchld, handling >>

\* Mutant: a failed fork is tried again at once, for ever.
ForkFails_retries(p) ==
  /\ InMain(p, "fork")
  /\ ForkMayFail
  /\ errno' = [errno EXCEPT ![p] = IF @ = "none" THEN "EINTR" ELSE "none"]
  /\ UNCHANGED << conn, pc, sock, fds, parent, sigchld, handling >>

ForkFails(p) ==
  /\ InMain(p, "fork")
  /\ ForkMayFail
  /\ Goto(p, "parent")
  /\ UNCHANGED << conn, sock, fds, errno, parent, sigchld, handling >>

\* Mutant: the parent leaves the close to the destructor.
ParentCloses_late(p) ==
  /\ InMain(p, "parent")
  /\ Goto(p, "reap")
  /\ UNCHANGED << conn, sock, fds, errno, parent, sigchld, handling >>

\* The parent closes its copy of the connection, fork failed or not.
ParentCloses(p) ==
  /\ InMain(p, "parent")
  /\ CloseSock(p)
  /\ Goto(p, "reap")
  /\ UNCHANGED << conn, errno, parent, sigchld, handling >>

\* reap_zombies in main, until its loop breaks; the iteration of main's loop
\* ends and destroys client_sock.
ReapZombies(p) ==
  /\ InMain(p, "reap")
  /\ \/ waitpid(p) /\ UNCHANGED << sock, fds >>
     \/ waitpidNone(p) /\ CloseSock(p) /\ Goto(p, "lookup")
  /\ UNCHANGED << conn, parent, sigchld, handling >>

\* Mutant: the child keeps the listener.
ChildCloses_not(p) ==
  /\ InMain(p, "child")
  /\ Goto(p, "announce")
  /\ UNCHANGED << conn, sock, fds, errno, parent, sigchld, handling >>

\* server.close() in the child.
ChildCloses(p) ==
  /\ InMain(p, "child")
  /\ fds' = [fds EXCEPT ![p] = @ \ {Listener}]
  /\ Goto(p, "announce")
  /\ UNCHANGED << conn, sock, errno, parent, sigchld, handling >>

\* run_server logs the name of the peer outside of its try: a failure is caught
\* by the try in main, and the child is then in main's loop.
RunServer(p) ==
  /\ InMain(p, "announce")
  /\ \/ /\ Goto(p, "serve")
        /\ UNCHANGED << sock, fds >>
     \/ /\ LookupMayFail
        /\ CloseSock(p)
        /\ Goto(p, "lookup")
  /\ UNCHANGED << conn, errno, parent, sigchld, handling >>

\* The session is over: cix_exit is thrown up to main.
ServeEnds(p) == InMain(p, "serve") /\ Exit(p)

-----------------------------------------------------------------------------
(* signal_handler *)

\* Mutant: the SIGCHLD is taken and reap_zombies not called.
TakeSignal_ignored(p) ==
  /\ Alive(p) /\ ~ handling[p]
  /\ sigchld[p]
  /\ sigchld' = [sigchld EXCEPT ![p] = FALSE]
  /\ UNCHANGED << conn, pc, sock, fds, errno, parent, handling >>

\* A pending signal is delivered to a process that runs.
TakeSignal(p) ==
  /\ Alive(p) /\ ~ handling[p]
  /\ sigchld[p]
  /\ sigchld' = [sigchld EXCEPT ![p] = FALSE]
  /\ handling' = [handling EXCEPT ![p] = TRUE]
  /\ UNCHANGED << conn, pc, sock, fds, errno, parent >>

HandlerReaps(p) ==
  /\ handling[p]
  /\ waitpid(p)
  /\ UNCHANGED << conn, sock, fds, parent, sigchld, handling >>

\* The loop breaks and the handler returns; it does not restore errno.  A signal
\* that came meanwhile was blocked, and is delivered before main runs again.
HandlerReturns(p) ==
  /\ handling[p]
  /\ waitpidNone(p)
  /\ handling' = [handling EXCEPT ![p] = sigchld[p]]
  /\ sigchld' = [sigchld EXCEPT ![p] = FALSE]
  /\ UNCHANGED << conn, pc, sock, fds, parent >>

-----------------------------------------------------------------------------

Main(p) ==
  \/ Lookup(p) \/ Accept(p) \/ AcceptBadFd(p) \/ AcceptReturns(p) \/ Caught(p)
  \/ Announce(p) \/ Fork(p) \/ ForkFails(p) \/ ParentCloses(p)
  \/ ReapZombies(p) \/ ChildCloses(p) \/ RunServer(p)

Signals(p) ==
  AcceptInterrupted(p) \/ TakeSignal(p) \/ HandlerReaps(p) \/ HandlerReturns(p)

Next ==
  \/ \E c \in Conns : Connect(c)
  \/ \E p \in Procs : Main(p) \/ AcceptFails(p) \/ ServeEnds(p) \/ Signals(p)

\* Every process that can run does, and pending signals are delivered; no
\* client need connect, no session need end, and accept, which waits for a
\* connection, need not fail.
Fairness == \A p \in Procs : WF_vars(Main(p)) /\ WF_vars(Signals(p))

Spec == Init /\ [][Next]_vars /\ Fairness

-----------------------------------------------------------------------------
(* Properties *)

\* Every variable has its type, and client_sock is open exactly from accept to
\* close: it is not closed twice (sockets.cpp:19-28).
TypeOK ==
  /\ conn \in [Conns -> {"new", "queued", "accepted"}]
  /\ pc \in [Procs -> PC]
  /\ sock \in [Procs -> Conns \cup {NoSock}]
  /\ fds \in [Procs -> SUBSET (Conns \cup {Listener})]
  /\ errno \in [Procs -> Errno]
  /\ parent \in [Procs -> Procs \cup {NoParent}]
  /\ sigchld \in [Procs -> BOOLEAN]
  /\ handling \in [Procs -> BOOLEAN]
  /\ \A p \in Procs : sock[p] # NoSock <=>
       pc[p] \in {"accepted", "fork", "parent", "child", "announce", "serve"}

\* No zombie is forgotten: while a process has one, a SIGCHLD is on its way to
\* it or its handler is still in the loop of reap_zombies, although signals are
\* merged and waitpid is also called from main (cixd.cpp:233-248, 291).
ZombieWatched ==
  \A p \in Procs : Alive(p) /\ Zombies(p) # {} => sigchld[p] \/ handling[p]

\* A connection is open in its own child, and in a process that is between
\* accept and close; so when the child exits its client sees the end of the
\* stream (cixd.cpp:216-230).
SockDiscipline ==
  \A p \in Procs, c \in Conns :
    c \in fds[p] => \/ p = c
                    \/ sock[p] = c /\ pc[p] \in {"accepted", "fork", "parent"}

\* Only the daemon accepts and forks, also when a child falls back into main's
\* loop after its lookup failed: no child lives on as a second daemon
\* (cixd.cpp:219, 292).
OnlyDaemonForks == \A c \in Conns : parent[c] \in {NoParent, Daemon}

\* Every zombie of a living daemon is reaped.
ZombiesReaped ==
  \A c \in Conns : pc[c] = "exited" ~> pc[c] = "reaped" \/ ~ Alive(Daemon)

\* Every connection that is queued is accepted, unless the daemon ends.
ConnectionsAccepted ==
  \A c \in Conns : conn[c] = "queued" ~> conn[c] = "accepted" \/ ~ Alive(Daemon)

\* An accepted connection gets a server or is closed everywhere: no client is
\* left on a connection that nobody will ever answer.
ServedOrClosed ==
  \A c \in Conns :
    conn[c] = "accepted" ~> pc[c] = "serve" \/ \A p \in Procs : c \notin fds[p]

\* The daemon runs in an infinite loop listening (asg4-client-server.mm:27).
DaemonKeepsListening == pc[Daemon] # "exited"
=============================================================================
