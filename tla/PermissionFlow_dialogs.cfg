\* Two requests at a time, any number of them after each other, on two tabs.
CONSTANTS
  Req = {r1, r2}
  Tab = {t1, t2}
  NoTab = NoTab
SYMMETRY Symmetry
SPECIFICATION Spec
INVARIANTS TypeOK DialogsTracked AskedBeforeRun BusyHasRequest
