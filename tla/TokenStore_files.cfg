\* Two clients issue and revoke three tokens; the process dies once.
CONSTANTS
  Task = {t1, t2}
  Token = {k1, k2, k3}
  Inode = {i1, i2, i3, i4}
  MaxCrash = 1
  NoInode = NoInode
SYMMETRY Symmetric
SPECIFICATION Spec
INVARIANTS TypeOK QuiescentFileCurrent RevokedStaysRevoked TornOnlyWhileOpen
CHECK_DEADLOCK FALSE
