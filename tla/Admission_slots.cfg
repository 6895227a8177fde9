\* Three connections for two slots and two admissions a second.
CONSTANTS
  Peer = {p1, p2, p3}
  MaxUnauth = 2
  MaxPerSecond = 2
  Second = 2
  MaxClock = 3
SPECIFICATION FairSpec
INVARIANTS TypeOK SlotsAccounted WindowRespected
PROPERTY FirstMessageDecided
CHECK_DEADLOCK FALSE
