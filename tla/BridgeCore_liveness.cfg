\* Two clients, two browsers, every gate of the router; the tokio tasks are
\* fair, clients and browsers are not.
CONSTANTS
  c1 = c1
  c2 = c2
  click = click
  eval = eval
  bogus = bogus
  Client = {c1, c2}
  Conn = {e1, e2}
  Browser = {b1, b2}
  Method = {click, eval, bogus}
  Allowed = {click, eval}
  DefaultCaps = {click, eval}
  Gated = {eval}
  MaxReq <- OneEach
  MayStall = FALSE
  NoConn = NoConn
  NoMsg = NoMsg
  NoBrowser = NoBrowser
  AnyBrowser = AnyBrowser
SPECIFICATION FairSpec
PROPERTY EveryRequestAnswered
CHECK_DEADLOCK FALSE
