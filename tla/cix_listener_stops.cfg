\* Nothing fails but the daemon's own handling of errno.
CONSTANTS
  k1 = k1
  k2 = k2
  k3 = k3
  Conns = {k1, k2}
  Daemon = Daemon
  LookupMayFail = FALSE
  ForkMayFail = FALSE
  AcceptErrors = {}
SPECIFICATION Spec
CHECK_DEADLOCK FALSE
INVARIANT DaemonKeepsListening
