\* Nothing goes wrong.
CONSTANTS
  Proc = {n1, m1}
  Native = {n1}
  Sock = {s1}
  NoProc = NoProc
  Old = Old
  NoSock = NoSock
  MaxFaults = 0
SPECIFICATION Spec
INVARIANTS PortOpenWhileConnected
\* A link to a bridge with nothing left to do may stay as it is.
CHECK_DEADLOCK FALSE
