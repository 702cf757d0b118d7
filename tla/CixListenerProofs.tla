------------------------- MODULE CixListenerProofs -------------------------
(***************************************************************************)
(* The safety properties of CixListener, for any set of connections.       *)
(*                                                                         *)
(* None of them is inductive alone.  Two facts carry the induction: the    *)
(* sockets a process holds are fixed by the line it is at (DaemonInv,      *)
(* ChildInv), and from this no child ever gets past accept, so that the    *)
(* daemon is the parent of every child (OnlyDaemonForks).                  *)
(***************************************************************************)
EXTENDS CixListener, TLAPS

Serving == {"child", "announce", "serve"}
Holding == {"accepted", "fork", "parent"}

\* The daemon never runs the child's lines and holds its listener and, between
\* accept and close, one connection.
DaemonInv ==
  /\ pc[Daemon] \notin Serving \cup {"unborn", "reaped"}
  /\ fds[Daemon] \subseteq {Listener} \cup
       (IF pc[Daemon] \in Holding THEN {sock[Daemon]} ELSE {})

\* A child holds its own connection while it serves, the listener until it has
\* closed it, and nothing when it has fallen back into main's loop.
ChildInv ==
  \A c \in Conns :
    /\ pc[c] \in Serving \cup
         {"unborn", "lookup", "accept", "caught", "exited", "reaped"}
    /\ pc[c] \in Serving => sock[c] = c
    /\ fds[c] \subseteq
         (IF pc[c] \in Serving THEN {c} ELSE {})
           \cup (IF pc[c] = "child" THEN {Listener} ELSE {})

IInv == TypeOK /\ ZombieWatched /\ OnlyDaemonForks /\ DaemonInv /\ ChildInv

USE ListenerAssumption, NamesAssumption DEF Procs, Listener, NoSock, NoParent

-----------------------------------------------------------------------------
(* The initial states *)

LEMMA InitInv == Init => IInv
  BY DEF Init, IInv, TypeOK, ZombieWatched, OnlyDaemonForks, DaemonInv,
         ChildInv, PC, Errno, Alive, Zombies, Children, Serving, Holding

-----------------------------------------------------------------------------
(* One lemma for each part of the invariant *)

LEMMA TypeStep == IInv /\ [Next]_vars => TypeOK'
<1> SUFFICES ASSUME IInv, [Next]_vars PROVE TypeOK'
  OBVIOUS
<1> USE DEF IInv, TypeOK, PC, Errno, InMain, Goto
<1>1. ASSUME NEW c \in Conns, Connect(c) PROVE TypeOK'
  BY <1>1 DEF Connect
<1>2. ASSUME NEW p \in Procs, Exit(p), pc[p] # "exited" PROVE TypeOK'
  BY <1>2 DEF Exit
<1>3. ASSUME NEW p \in Procs, Main(p) PROVE TypeOK'
  <2>1. CASE Lookup(p)       BY <2>1, <1>2 DEF Lookup
  <2>2. CASE Accept(p)       BY <2>2 DEF Accept
  <2>3. CASE AcceptBadFd(p)  BY <2>3 DEF AcceptBadFd
  <2>4. CASE AcceptReturns(p) BY <2>4 DEF AcceptReturns
  <2>5. CASE Caught(p)       BY <2>5, <1>2 DEF Caught
  <2>6. CASE Announce(p)     BY <2>6, <1>2 DEF Announce
  <2>7. CASE Fork(p)         BY <2>7 DEF Fork
  <2>8. CASE ForkFails(p)    BY <2>8 DEF ForkFails
  <2>9. CASE ParentCloses(p) BY <2>9 DEF ParentCloses, CloseSock
  <2>10. CASE ReapZombies(p)
    BY <2>10 DEF ReapZombies, waitpid, waitpidNone, CloseSock, Zombies, Children
  <2>11. CASE ChildCloses(p) BY <2>11 DEF ChildCloses
  <2>12. CASE RunServer(p)   BY <2>12 DEF RunServer, CloseSock
  <2> QED BY <1>3, <2>1, <2>2, <2>3, <2>4, <2>5, <2>6, <2>7, <2>8, <2>9,
             <2>10, <2>11, <2>12 DEF Main
<1>4. ASSUME NEW p \in Procs, AcceptFails(p) \/ ServeEnds(p) PROVE TypeOK'
  BY <1>4, <1>2 DEF AcceptFails, ServeEnds
<1>5. ASSUME NEW p \in Procs, Signals(p) PROVE TypeOK'
  <2>1. CASE AcceptInterrupted(p) BY <2>1 DEF AcceptInterrupted
  <2>2. CASE TakeSignal(p)        BY <2>2 DEF TakeSignal
  <2>3. CASE HandlerReaps(p)
    BY <2>3 DEF HandlerReaps, waitpid, Zombies, Children
  <2>4. CASE HandlerReturns(p)
    BY <2>4 DEF HandlerReturns, waitpidNone
  <2> QED BY <1>5, <2>1, <2>2, <2>3, <2>4 DEF Signals
<1>6. CASE UNCHANGED vars
  BY <1>6 DEF vars
<1> QED BY <1>1, <1>3, <1>4, <1>5, <1>6 DEF Next

LEMMA DaemonStep == IInv /\ [Next]_vars => DaemonInv'
<1> SUFFICES ASSUME IInv, [Next]_vars PROVE DaemonInv'
  OBVIOUS
<1> USE DEF IInv, TypeOK, PC, DaemonInv, Serving, Holding, InMain, Goto
<1>1. ASSUME NEW c \in Conns, Connect(c) PROVE DaemonInv'
  BY <1>1 DEF Connect
<1>2. ASSUME NEW p \in Procs, Main(p) PROVE DaemonInv'
  <2>1. CASE Lookup(p)
    BY <2>1 DEF Lookup, Exit
  <2>2. CASE Accept(p)
    BY <2>2 DEF Accept
  <2>3. CASE AcceptBadFd(p)
    BY <2>3 DEF AcceptBadFd
  <2>4. CASE AcceptReturns(p)
    BY <2>4 DEF AcceptReturns
  <2>5. CASE Caught(p)
    BY <2>5 DEF Caught, Exit
  <2>6. CASE Announce(p)
    BY <2>6 DEF Announce, Exit
  <2>7. CASE Fork(p)
    BY <2>7 DEF Fork
  <2>8. CASE ForkFails(p)
    BY <2>8 DEF ForkFails
  <2>9. CASE ParentCloses(p)
    BY <2>9 DEF ParentCloses, CloseSock
  <2>10. CASE ReapZombies(p)
    BY <2>10 DEF ReapZombies, waitpid, waitpidNone, CloseSock, Zombies, Children
  <2>11. CASE ChildCloses(p)
    BY <2>11 DEF ChildCloses
  <2>12. CASE RunServer(p)
    BY <2>12 DEF RunServer, CloseSock
  <2> QED BY <1>2, <2>1, <2>2, <2>3, <2>4, <2>5, <2>6, <2>7, <2>8, <2>9,
             <2>10, <2>11, <2>12 DEF Main
<1>3. ASSUME NEW p \in Procs, AcceptFails(p) \/ ServeEnds(p) PROVE DaemonInv'
  BY <1>3 DEF AcceptFails, ServeEnds, Exit
<1>4. ASSUME NEW p \in Procs, Signals(p) PROVE DaemonInv'
  <2>1. CASE AcceptInterrupted(p)
    BY <2>1 DEF AcceptInterrupted
  <2>2. CASE TakeSignal(p)
    BY <2>2 DEF TakeSignal
  <2>3. CASE HandlerReaps(p)
    BY <2>3 DEF HandlerReaps, waitpid, Zombies, Children
  <2>4. CASE HandlerReturns(p)
    BY <2>4 DEF HandlerReturns, waitpidNone
  <2> QED BY <1>4, <2>1, <2>2, <2>3, <2>4 DEF Signals
<1>5. CASE UNCHANGED vars
  BY <1>5 DEF vars
<1> QED BY <1>1, <1>2, <1>3, <1>4, <1>5 DEF Next

LEMMA ChildStep == IInv /\ [Next]_vars => ChildInv'
<1> SUFFICES ASSUME IInv, [Next]_vars PROVE ChildInv'
  OBVIOUS
<1> USE DEF IInv, TypeOK, PC, DaemonInv, ChildInv, Serving, Holding, InMain, Goto
<1>1. ASSUME NEW c \in Conns, Connect(c) PROVE ChildInv'
  BY <1>1 DEF Connect
<1>2. ASSUME NEW p \in Procs, Main(p) PROVE ChildInv'
  <2>1. CASE Lookup(p)
    BY <2>1 DEF Lookup, Exit
  <2>2. CASE Accept(p)
    BY <2>2 DEF Accept
  <2>3. CASE AcceptBadFd(p)
    BY <2>3 DEF AcceptBadFd
  <2>4. CASE AcceptReturns(p)
    BY <2>4 DEF AcceptReturns
  <2>5. CASE Caught(p)
    BY <2>5 DEF Caught, Exit
  <2>6. CASE Announce(p)
    BY <2>6 DEF Announce, Exit
  <2>7. CASE Fork(p)
    BY <2>7 DEF Fork
  <2>8. CASE ForkFails(p)
    BY <2>8 DEF ForkFails
  <2>9. CASE ParentCloses(p)
    BY <2>9 DEF ParentCloses, CloseSock
  <2>10. CASE ReapZombies(p)
    BY <2>10 DEF ReapZombies, waitpid, waitpidNone, CloseSock, Zombies, Children
  <2>11. CASE ChildCloses(p)
    BY <2>11 DEF ChildCloses
  <2>12. CASE RunServer(p)
    BY <2>12 DEF RunServer, CloseSock
  <2> QED BY <1>2, <2>1, <2>2, <2>3, <2>4, <2>5, <2>6, <2>7, <2>8, <2>9,
             <2>10, <2>11, <2>12 DEF Main
<1>3. ASSUME NEW p \in Procs, AcceptFails(p) \/ ServeEnds(p) PROVE ChildInv'
  BY <1>3 DEF AcceptFails, ServeEnds, Exit
<1>4. ASSUME NEW p \in Procs, Signals(p) PROVE ChildInv'
  <2>1. CASE AcceptInterrupted(p)
    BY <2>1 DEF AcceptInterrupted
  <2>2. CASE TakeSignal(p)
    BY <2>2 DEF TakeSignal
  <2>3. CASE HandlerReaps(p)
    BY <2>3 DEF HandlerReaps, waitpid, Zombies, Children
  <2>4. CASE HandlerReturns(p)
    BY <2>4 DEF HandlerReturns, waitpidNone
  <2> QED BY <1>4, <2>1, <2>2, <2>3, <2>4 DEF Signals
<1>5. CASE UNCHANGED vars
  BY <1>5 DEF vars
<1> QED BY <1>1, <1>2, <1>3, <1>4, <1>5 DEF Next

LEMMA ParentStep == IInv /\ [Next]_vars => OnlyDaemonForks'
<1> SUFFICES ASSUME IInv, [Next]_vars PROVE OnlyDaemonForks'
  OBVIOUS
<1> USE DEF IInv, TypeOK, PC, OnlyDaemonForks, ChildInv, Serving, InMain, Goto
<1>1. ASSUME NEW c \in Conns, Connect(c) PROVE OnlyDaemonForks'
  BY <1>1 DEF Connect
<1>2. ASSUME NEW p \in Procs, Main(p) PROVE OnlyDaemonForks'
  <2>1. CASE Lookup(p)
    BY <2>1 DEF Lookup, Exit
  <2>2. CASE Accept(p)
    BY <2>2 DEF Accept
  <2>3. CASE AcceptBadFd(p)
    BY <2>3 DEF AcceptBadFd
  <2>4. CASE AcceptReturns(p)
    BY <2>4 DEF AcceptReturns
  <2>5. CASE Caught(p)
    BY <2>5 DEF Caught, Exit
  <2>6. CASE Announce(p)
    BY <2>6 DEF Announce, Exit
  <2>7. CASE Fork(p)
    BY <2>7 DEF Fork
  <2>8. CASE ForkFails(p)
    BY <2>8 DEF ForkFails
  <2>9. CASE ParentCloses(p)
    BY <2>9 DEF ParentCloses, CloseSock
  <2>10. CASE ReapZombies(p)
    BY <2>10 DEF ReapZombies, waitpid, waitpidNone, CloseSock, Zombies, Children
  <2>11. CASE ChildCloses(p)
    BY <2>11 DEF ChildCloses
  <2>12. CASE RunServer(p)
    BY <2>12 DEF RunServer, CloseSock
  <2> QED BY <1>2, <2>1, <2>2, <2>3, <2>4, <2>5, <2>6, <2>7, <2>8, <2>9,
             <2>10, <2>11, <2>12 DEF Main
<1>3. ASSUME NEW p \in Procs, AcceptFails(p) \/ ServeEnds(p) PROVE OnlyDaemonForks'
  BY <1>3 DEF AcceptFails, ServeEnds, Exit
<1>4. ASSUME NEW p \in Procs, Signals(p) PROVE OnlyDaemonForks'
  <2>1. CASE AcceptInterrupted(p)
    BY <2>1 DEF AcceptInterrupted
  <2>2. CASE TakeSignal(p)
    BY <2>2 DEF TakeSignal
  <2>3. CASE HandlerReaps(p)
    BY <2>3 DEF HandlerReaps, waitpid, Zombies, Children
  <2>4. CASE HandlerReturns(p)
    BY <2>4 DEF HandlerReturns, waitpidNone
  <2> QED BY <1>4, <2>1, <2>2, <2>3, <2>4 DEF Signals
<1>5. CASE UNCHANGED vars
  BY <1>5 DEF vars
<1> QED BY <1>1, <1>2, <1>3, <1>4, <1>5 DEF Next

LEMMA ExitWatched ==
  ASSUME IInv, NEW p \in Procs, Exit(p)
  PROVE  ZombieWatched'
<1> SUFFICES ASSUME NEW q \in Procs, Alive(q)', NEW z \in Zombies(q)'
             PROVE  sigchld'[q] \/ handling'[q]
  BY DEF ZombieWatched
<1> USE DEF IInv, TypeOK, Exit, Goto
<1>1. /\ q # p /\ Alive(q) /\ z \in Conns /\ parent[z] = q
      /\ z = p \/ pc[z] = "exited"
  BY DEF Alive, Zombies, Children
<1>2. sigchld'[q] <=> sigchld[q] \/ q = parent[p]
  BY <1>1
<1>3. CASE z = p
  BY <1>1, <1>2, <1>3
<1>4. CASE z # p
  <2>1. z \in Zombies(q)
    BY <1>1, <1>4 DEF Zombies, Children
  <2>2. sigchld[q] \/ handling[q]
    BY <1>1, <2>1 DEF ZombieWatched
  <2> QED BY <1>2, <2>2
<1> QED BY <1>3, <1>4

LEMMA ZombieStep == IInv /\ [Next]_vars => ZombieWatched'
<1> SUFFICES ASSUME IInv, [Next]_vars PROVE ZombieWatched'
  OBVIOUS
<1> USE DEF IInv, TypeOK, PC, ZombieWatched, OnlyDaemonForks, DaemonInv, ChildInv, Serving, Alive, Zombies, Children, InMain, Goto
<1>1. ASSUME NEW c \in Conns, Connect(c) PROVE ZombieWatched'
  BY <1>1 DEF Connect
<1>2. ASSUME NEW p \in Procs, Main(p) PROVE ZombieWatched'
  <2>1. CASE Lookup(p)
    BY <2>1, ExitWatched DEF Lookup
  <2>2. CASE Accept(p)
    BY <2>2 DEF Accept
  <2>3. CASE AcceptBadFd(p)
    BY <2>3 DEF AcceptBadFd
  <2>4. CASE AcceptReturns(p)
    BY <2>4 DEF AcceptReturns
  <2>5. CASE Caught(p)
    BY <2>5, ExitWatched DEF Caught
  <2>6. CASE Announce(p)
    BY <2>6, ExitWatched DEF Announce
  <2>7. CASE Fork(p)
    BY <2>7 DEF Fork
  <2>8. CASE ForkFails(p)
    BY <2>8 DEF ForkFails
  <2>9. CASE ParentCloses(p)
    BY <2>9 DEF ParentCloses, CloseSock
  <2>10. CASE ReapZombies(p)
    BY <2>10 DEF ReapZombies, waitpid, waitpidNone, CloseSock, Zombies, Children
  <2>11. CASE ChildCloses(p)
    BY <2>11 DEF ChildCloses
  <2>12. CASE RunServer(p)
    BY <2>12 DEF RunServer, CloseSock
  <2> QED BY <1>2, <2>1, <2>2, <2>3, <2>4, <2>5, <2>6, <2>7, <2>8, <2>9,
             <2>10, <2>11, <2>12 DEF Main
<1>3. ASSUME NEW p \in Procs, AcceptFails(p) \/ ServeEnds(p) PROVE ZombieWatched'
  BY <1>3, ExitWatched DEF AcceptFails, ServeEnds
<1>4. ASSUME NEW p \in Procs, Signals(p) PROVE ZombieWatched'
  <2>1. CASE AcceptInterrupted(p)
    BY <2>1 DEF AcceptInterrupted
  <2>2. CASE TakeSignal(p)
    BY <2>2 DEF TakeSignal
  <2>3. CASE HandlerReaps(p)
    BY <2>3 DEF HandlerReaps, waitpid, Zombies, Children
  <2>4. CASE HandlerReturns(p)
    BY <2>4 DEF HandlerReturns, waitpidNone
  <2> QED BY <1>4, <2>1, <2>2, <2>3, <2>4 DEF Signals
<1>5. CASE UNCHANGED vars
  BY <1>5 DEF vars
<1> QED BY <1>1, <1>2, <1>3, <1>4, <1>5 DEF Next

-----------------------------------------------------------------------------
(* The theorems *)

LEMMA NextInv == IInv /\ [Next]_vars => IInv'
  BY TypeStep, DaemonStep, ChildStep, ParentStep, ZombieStep DEF IInv

\* Every reachable state satisfies the inductive invariant.
THEOREM Invariance == Spec => []IInv
  BY InitInv, NextInv, PTL DEF Spec

\* The variables keep their types, and client_sock is never closed twice.
THEOREM TypeCorrect == Spec => []TypeOK
<1>1. IInv => TypeOK
  BY DEF IInv
<1> QED BY <1>1, Invariance, PTL

\* reap_zombies, called from the handler and from main, forgets no zombie.
THEOREM NoZombieForgotten == Spec => []ZombieWatched
<1>1. IInv => ZombieWatched
  BY DEF IInv
<1> QED BY <1>1, Invariance, PTL

\* No child, also one that falls back into main's loop, becomes a daemon.
THEOREM OneDaemon == Spec => []OnlyDaemonForks
<1>1. IInv => OnlyDaemonForks
  BY DEF IInv
<1> QED BY <1>1, Invariance, PTL

\* A connection is open only in its own child and, from accept to close, in
\* the process that accepted it.
THEOREM NoSockLeaks == Spec => []SockDiscipline
<1>1. IInv => SockDiscipline
  BY DEF IInv, SockDiscipline, DaemonInv, ChildInv, Holding, Serving
<1> QED BY <1>1, Invariance, PTL

=============================================================================
