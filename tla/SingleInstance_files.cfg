\* Three processes in any mode, with two system calls that fail or processes
\* that are killed.
CONSTANTS
  Proc = {p1, p2, p3}
  Inode = {i1, i2, i3}
  MaxFaults = 2
  NoProc = NoProc
  NoInode = NoInode
SYMMETRY Symmetric
VIEW Matters
SPECIFICATION Spec
INVARIANTS TypeOK AtMostOneUnlessRaced DiscoveryFindsBridge LoneStartServes LeftoversExplained
CHECK_DEADLOCK FALSE
