\* Three connections; lookups, forks and accept may fail.
CONSTANTS
  k1 = k1
  k2 = k2
  k3 = k3
  Conns = {k1, k2, k3}
  Daemon = Daemon
  LookupMayFail = TRUE
  ForkMayFail = TRUE
  AcceptErrors = {"EMFILE"}
SPECIFICATION Spec
CHECK_DEADLOCK FALSE
INVARIANTS
  TypeOK
  ZombieWatched
  SockDiscipline
  OnlyDaemonForks
PROPERTIES
  ZombiesReaped
  ConnectionsAccepted
  ServedOrClosed
