\* Two native processes, one started by a user; one thing goes wrong, at any
\* time.
CONSTANTS
  Proc = {n1, n2, m1}
  Native = {n1, n2}
  Sock = {s1, s2}
  NoProc = NoProc
  Old = Old
  NoSock = NoSock
  MaxFaults = 1
SPECIFICATION Spec
INVARIANTS TypeOK OneChain PortsOwned PortKeptUntilTimer PortBehindLockfile
PROPERTIES Recovers ProcessEnds
\* A link to a bridge with nothing left to do may stay as it is.
CHECK_DEADLOCK FALSE
