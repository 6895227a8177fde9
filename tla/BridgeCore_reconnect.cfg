\* A browser reconnects before the bridge has noticed the end of its old socket.
CONSTANTS
  c1 = c1
  c2 = c2
  click = click
  eval = eval
  bogus = bogus
  Client = {c1, c2}
  Conn = {e1, e2}
  Browser = {b1}
  Method = {click, eval}
  Allowed = {click, eval}
  DefaultCaps = {click, eval}
  Gated = {}
  MaxReq <- OneEach
  MayStall = FALSE
  NoConn = NoConn
  NoMsg = NoMsg
  NoBrowser = NoBrowser
  AnyBrowser = AnyBrowser
SPECIFICATION FairSpec
PROPERTY NoExtensionMeansNone
CHECK_DEADLOCK FALSE
