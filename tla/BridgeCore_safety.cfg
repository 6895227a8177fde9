\* Two clients race over one browser that may reconnect, lose its socket or
\* stop reading it; the first client sends two requests.
CONSTANTS
  c1 = c1
  c2 = c2
  click = click
  eval = eval
  bogus = bogus
  Client = {c1, c2}
  Conn = {e1, e2}
  Browser = {b1}
  Method = {click}
  Allowed = {click}
  DefaultCaps = {click}
  Gated = {}
  MaxReq <- TwoAndOne
  MayStall = TRUE
  NoConn = NoConn
  NoMsg = NoMsg
  NoBrowser = NoBrowser
  AnyBrowser = AnyBrowser
SYMMETRY Symmetric
SPECIFICATION Spec
INVARIANTS TypeOK PendingTracked ReplyMatches SenderLive PendingHasReader
PROPERTIES ImplementsBroker RunsOnce
CHECK_DEADLOCK FALSE
