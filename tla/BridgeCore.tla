----------------------------- MODULE BridgeCore -----------------------------
(***************************************************************************)
(* The running bridge: the shared BridgeState of bridge/src/router.rs and  *)
(* the tasks of bridge/src/ws_server.rs that work on it concurrently.      *)
(*                                                                         *)
(*  - one task per client (a WebSocket client or the stdin loop): it takes *)
(*    one request at a time, runs handle_request and writes the response;  *)
(*  - one task per extension connection: it registers, reads replies, and  *)
(*    cleans up when the socket ends;                                      *)
(*  - the extensions at the far end, one per browser, which own the        *)
(*    current socket and answer in any order, late or never.               *)
(*                                                                         *)
(* Every critical section of the RwLock<BridgeState> contains no await, so *)
(* it is one action; a task may be preempted between any two of them.      *)
(***************************************************************************)
EXTENDS Integers

CONSTANTS
  Client,       \* request sources
  Conn,         \* extension sockets; each one is opened at most once
  Browser,      \* browserId values
  Method,       \* method names a client may send
  Allowed,      \* ALLOWED_METHODS of auth.rs
  DefaultCaps,  \* Capabilities::bridge_default, wildcards expanded
  Gated,        \* methods refused by the URL-scheme or script.execute gate
  MaxReq,       \* bound: how many requests each client sends
  MayStall,     \* whether a connected extension may stop reading its socket
  NoConn, NoMsg, NoBrowser, AnyBrowser

Msg == [id: Nat, client: Client, n: Nat, bid: Browser]

ASSUME ConstAssumption ==
  /\ Allowed \subseteq Method /\ DefaultCaps \subseteq Allowed
  /\ MaxReq \in [Client -> Nat] /\ MayStall \in BOOLEAN
  /\ NoConn \notin Conn /\ NoMsg \notin Msg
  /\ NoBrowser \notin Browser /\ AnyBrowser \notin Browser

VARIABLES
  sess,        \* session.state (Authenticating never outlives the lock; Busy is never set)
  caps,        \* the methods session.capabilities.actions admits
  extensions,  \* [Browser -> Conn or NoConn]: whose sender is registered
  pending,     \* set of Msg: requests forwarded and not yet resolved
  nextExtId,   \* next id for a forwarded request (counted from 0, not 10000)
  pc,          \* where each client task is in handle_request
  num,         \* how many requests each client has sent
  req,         \* the request being handled: method and params.browserId
  out,         \* the forwarded request, NoMsg before allocation
  via,         \* the connection whose sender the task cloned
  resp,        \* the oneshot channel, then the response to write
  conn,        \* the bridge's side of each extension socket
  owner,       \* the browser that opened the socket
  wire,        \* replies written by the extension and not read yet
  ws,          \* the extension's current socket (background.ts global `ws`)
  stalled,     \* sockets whose far end has stopped reading
  inbox,       \* requests an extension has received and not executed
  granted,     \* history: the capabilities `initialize` last returned to a client
  dispatched,  \* history: <<client, n>> of the requests that reached an extension
  executed     \* history: <<client, n>> of the requests an extension executed

session == <<sess, caps, granted>>
task    == <<pc, num, req, out, via, resp>>
link    == <<conn, owner, wire, ws, stalled>>
browser == <<inbox, dispatched, executed>>
vars == <<session, extensions, pending, nextExtId, task, link, browser>>

Rejections == {"unknown", "unsupported", "blocked", "uninitialized", "noext", "toolarge"}
Kinds == Rejections \cup
         {"local", "result", "closed", "disconnected", "sendfailed", "timedout"}
Giveups == {"toolarge", "sendfailed", "timedout"}
Waiting == {"send", "await"} \cup Giveups

Labels == {"idle", "checked", "ready", "respond", "gone"} \cup Waiting
Request == [method: Method \cup {"none"}, target: Browser \cup {NoBrowser, AnyBrowser}]
Response == [kind: Kinds \cup {"none"}, msg: Msg \cup {NoMsg}]

NoResp == [kind |-> "none", msg |-> NoMsg]
Answer(k) == [kind |-> k, msg |-> NoMsg]
NoReq == [method |-> "none", target |-> NoBrowser]

TypeOK ==
  /\ sess \in {"Disconnected", "Ready", "Closing", "Closed"}
  /\ caps \in SUBSET Method
  /\ extensions \in [Browser -> Conn \cup {NoConn}]
  /\ pending \in SUBSET Msg
  /\ nextExtId \in Nat
  /\ pc \in [Client -> Labels]
  /\ num \in [Client -> Nat]
  /\ req \in [Client -> Request]
  /\ out \in [Client -> Msg \cup {NoMsg}]
  /\ via \in [Client -> Conn \cup {NoConn}]
  /\ resp \in [Client -> Response]
  /\ conn \in [Conn -> {"unused", "registering", "open", "closed"}]
  /\ owner \in [Conn -> Browser \cup {NoBrowser}]
  /\ wire \in [Conn -> SUBSET Msg]
  /\ ws \in [Browser -> Conn \cup {NoConn}]
  /\ stalled \in SUBSET Conn
  /\ inbox \in [Browser -> SUBSET Msg]
  /\ granted \in [Client -> SUBSET Method]
  /\ dispatched \in SUBSET (Client \X Nat)
  /\ executed \in SUBSET (Client \X Nat)

Init ==
  /\ sess = "Disconnected" /\ caps = DefaultCaps
  /\ extensions = [b \in Browser |-> NoConn]
  /\ pending = {} /\ nextExtId = 0
  /\ pc = [c \in Client |-> "idle"]
  /\ num = [c \in Client |-> 0]
  /\ req = [c \in Client |-> NoReq]
  /\ out = [c \in Client |-> NoMsg]
  /\ via = [c \in Client |-> NoConn]
  /\ resp = [c \in Client |-> NoResp]
  /\ conn = [e \in Conn |-> "unused"]
  /\ owner = [e \in Conn |-> NoBrowser]
  /\ wire = [e \in Conn |-> {}]
  /\ ws = [b \in Browser |-> NoConn]
  /\ stalled = {}
  /\ inbox = [b \in Browser |-> {}]
  /\ granted = [c \in Client |-> {}]
  /\ dispatched = {} /\ executed = {}

-----------------------------------------------------------------------------
(* Client tasks.  A step of client c leaves every other task alone.        *)

Goto(c, l) == pc' = [pc EXCEPT ![c] = l]

Finish(c, k) == /\ Goto(c, "respond")
                /\ resp' = [resp EXCEPT ![c] = Answer(k)]

IsReady == sess = "Ready"

\* Capabilities::negotiate: the intersection, or all of the current
\* actions when the intersection is empty or the client sent none.
Negotiate(want) == IF want \cap caps = {} THEN caps ELSE want \cap caps

\* One more request from client c, answered inside handle_request without
\* forwarding.
Local(c) == /\ pc[c] = "idle" /\ num[c] < MaxReq[c]
            /\ num' = [num EXCEPT ![c] = @ + 1]
            /\ Finish(c, "local")
            /\ UNCHANGED <<extensions, pending, nextExtId, req, out, via, link, browser>>

Initialize(c, want) ==
  /\ Local(c)
  /\ sess' = "Ready"
  /\ caps' = Negotiate(want)
  /\ granted' = [granted EXCEPT ![c] = Negotiate(want)]

Shutdown(c) == Local(c) /\ sess' = "Closing" /\ UNCHANGED <<caps, granted>>

Exit(c) == Local(c) /\ sess' = "Closed" /\ UNCHANGED <<caps, granted>>

\* browser.list only reads the state.
BrowserList(c) == Local(c) /\ UNCHANGED session

\* A request to forward: the ALLOWED_METHODS check, then the capability
\* check, which looks at the capabilities only while the session is ready.
ReceiveRequest(c, m, t) ==
  /\ pc[c] = "idle" /\ num[c] < MaxReq[c]
  /\ num' = [num EXCEPT ![c] = @ + 1]
  /\ req' = [req EXCEPT ![c] = [method |-> m, target |-> t]]
  /\ \/ m \notin Allowed /\ Finish(c, "unknown")
     \/ m \in Allowed /\ IsReady /\ m \notin caps /\ Finish(c, "unsupported")
     \/ /\ m \in Allowed /\ (IsReady => m \in caps)
        /\ Goto(c, "checked") /\ UNCHANGED resp
  /\ UNCHANGED <<session, extensions, pending, nextExtId, out, via, link, browser>>

\* Mutant of CheckSession: a request that comes before initialize waits for it.
CheckSessionWaits(c) ==
  /\ pc[c] = "checked"
  /\ \/ req[c].method \in Gated /\ Finish(c, "blocked")
     \/ req[c].method \notin Gated /\ IsReady /\ Goto(c, "ready") /\ UNCHANGED resp
  /\ UNCHANGED <<session, extensions, pending, nextExtId, num, req, out, via, link, browser>>

\* The URL-scheme and script.execute gates, then the session state, read
\* under a second lock.
CheckSession(c) ==
  /\ pc[c] = "checked"
  /\ \/ req[c].method \in Gated /\ Finish(c, "blocked")
     \/ req[c].method \notin Gated /\ ~IsReady /\ Finish(c, "uninitialized")
     \/ /\ req[c].method \notin Gated /\ IsReady
        /\ Goto(c, "ready") /\ UNCHANGED resp
  /\ UNCHANGED <<session, extensions, pending, nextExtId, num, req, out, via, link, browser>>

\* The browsers get_sender may answer with: the one asked for, or any.
GetSender(t) ==
  {b \in Browser : extensions[b] # NoConn /\ t \in {b, AnyBrowser}}

\* Mutants of NextExtRequestId: the counter is not advanced, or counts down.
NextExtRequestIdReused == nextExtId
NextExtRequestIdDown == nextExtId - 1

NextExtRequestId == nextExtId + 1

\* First critical section of forward_to_extension: clone a sender, take an
\* id and record the request as pending.  The task then finds out, without
\* another lock, whether the re-serialised request fits MAX_MESSAGE_SIZE.
Forward(c) ==
  /\ pc[c] = "ready"
  /\ \/ /\ GetSender(req[c].target) = {}
        /\ Finish(c, "noext")
        /\ UNCHANGED <<pending, nextExtId, out, via>>
     \/ \E b \in GetSender(req[c].target) :
          LET m == [id |-> nextExtId, client |-> c, n |-> num[c], bid |-> b] IN
          /\ out' = [out EXCEPT ![c] = m]
          /\ pending' = pending \cup {m}
          /\ nextExtId' = NextExtRequestId
          /\ via' = [via EXCEPT ![c] = extensions[b]]
          /\ Goto(c, "send") \/ Goto(c, "toolarge")
          /\ UNCHANGED resp
  /\ UNCHANGED <<session, extensions, num, req, link, browser>>

\* The extension at the far end of e still holds e as its socket.
FarOpen(e) == \E b \in Browser : ws[b] = e

\* Mutant of SendToExtension: a write that has worked may be tried again.
SendToExtensionAgain(c) ==
  /\ pc[c] = "send" /\ FarOpen(via[c]) /\ via[c] \notin stalled
  /\ inbox' = [inbox EXCEPT ![out[c].bid] = @ \cup {out[c]}]
  /\ dispatched' = dispatched \cup {<<c, num[c]>>}
  /\ Goto(c, "await") \/ Goto(c, "send")
  /\ UNCHANGED <<session, extensions, pending, nextExtId,
                 num, req, out, via, resp, link, executed>>

\* The send through the shared sink: it reaches the extension while the
\* socket is up, and blocks while the far end has stopped reading.
SendToExtension(c) ==
  /\ pc[c] = "send" /\ FarOpen(via[c]) /\ via[c] \notin stalled
  /\ inbox' = [inbox EXCEPT ![out[c].bid] = @ \cup {out[c]}]
  /\ dispatched' = dispatched \cup {<<c, num[c]>>}
  /\ Goto(c, "await")
  /\ UNCHANGED <<session, extensions, pending, nextExtId,
                 num, req, out, via, resp, link, executed>>

\* On a socket whose far end is gone the write fails, or succeeds into a
\* buffer nobody reads.
SendToDead(c) ==
  /\ pc[c] = "send" /\ ~FarOpen(via[c])
  /\ Goto(c, "await") \/ Goto(c, "sendfailed")
  /\ UNCHANGED <<session, extensions, pending, nextExtId,
                 num, req, out, via, resp, link, browser>>

\* The oneshot resolved: a reply, a disconnect error, or a dropped sender.
TakeReply(c) ==
  /\ pc[c] = "await" /\ resp[c] # NoResp
  /\ Goto(c, "respond")
  /\ UNCHANGED <<session, extensions, pending, nextExtId,
                 num, req, out, via, resp, link, browser>>

\* tokio::time::timeout polls the channel before the timer.
TimeOut(c) ==
  /\ pc[c] = "await" /\ resp[c] = NoResp
  /\ Goto(c, "timedout")
  /\ UNCHANGED <<session, extensions, pending, nextExtId,
                 num, req, out, via, resp, link, browser>>

\* Mutant of GiveUp: the error path returns without pending.remove.
GiveUpLeaks(c) ==
  /\ pc[c] \in Giveups
  /\ Finish(c, pc[c])
  /\ UNCHANGED <<session, extensions, pending, nextExtId, num, req, out, via, link, browser>>

\* The error paths of forward_to_extension take the lock again, drop the
\* pending entry and answer with an error, whatever the channel holds.
GiveUp(c) ==
  /\ pc[c] \in Giveups
  /\ pending' = {p \in pending : p.id # out[c].id}
  /\ Finish(c, pc[c])
  /\ UNCHANGED <<session, extensions, nextExtId, num, req, out, via, link, browser>>

\* The response is written to the client; a failed write ends its loop.
Respond(c) ==
  /\ pc[c] = "respond"
  /\ Goto(c, "idle") \/ Goto(c, "gone")
  /\ req' = [req EXCEPT ![c] = NoReq]
  /\ out' = [out EXCEPT ![c] = NoMsg]
  /\ via' = [via EXCEPT ![c] = NoConn]
  /\ resp' = [resp EXCEPT ![c] = NoResp]
  /\ UNCHANGED <<session, extensions, pending, nextExtId, num, link, browser>>

\* The client closes its connection between two requests.
ClientLeaves(c) ==
  /\ pc[c] = "idle"
  /\ Goto(c, "gone")
  /\ UNCHANGED <<session, extensions, pending, nextExtId,
                 num, req, out, via, resp, link, browser>>

-----------------------------------------------------------------------------
(* Extension connections, the bridge's side.                               *)

\* A registered extension replaces whatever sender its browserId had.
AddExtension(e) ==
  /\ conn[e] = "registering"
  /\ conn' = [conn EXCEPT ![e] = "open"]
  /\ extensions' = [extensions EXCEPT ![owner[e]] = e]
  /\ UNCHANGED <<session, pending, nextExtId, task, owner, wire, ws, stalled, browser>>

\* No register message in ten seconds, an unreadable one, a token that is not
\* valid, or a socket closed before it is read: the task returns.
RegistrationFails(e) ==
  /\ conn[e] = "registering"
  /\ conn' = [conn EXCEPT ![e] = "closed"]
  /\ UNCHANGED <<session, extensions, pending, nextExtId, task,
                 owner, wire, ws, stalled, browser>>

\* The request a reply's id names, if it is still pending.
Resolves(r) == {p \in pending : p.id = r.id}

\* The task of p still holds the receiving end of its oneshot channel.
Listening(p) == pc[p.client] \in {"send", "await"} /\ num[p.client] = p.n

Deliver(P, a) ==
  resp' = [c \in Client |->
             IF \E p \in P : p.client = c /\ Listening(p) THEN a ELSE resp[c]]

\* handle_ext_messages: take the pending entry and hand over the reply; the
\* entry's browser is not compared with the connection's.  A reply that
\* does not parse as a Response drops the channel instead.
ReadReply(e, r) ==
  /\ conn[e] = "open" /\ r \in wire[e]
  /\ wire' = [wire EXCEPT ![e] = @ \ {r}]
  /\ pending' = pending \ Resolves(r)
  /\ \/ Deliver(Resolves(r), [kind |-> "result", msg |-> r])
     \/ Deliver(Resolves(r), Answer("closed"))
  /\ UNCHANGED <<session, extensions, nextExtId, pc, num, req, out, via,
                 conn, owner, ws, stalled, browser>>

\* The end of connection e: `exts` becomes the sender map, the requests
\* `failed` leave the pending map and their tasks get an error.
EndOfConnection(e, exts, failed, kind) ==
  /\ conn[e] = "open" /\ ~FarOpen(e)
  /\ conn' = [conn EXCEPT ![e] = "closed"]
  /\ wire' = [wire EXCEPT ![e] = {}]
  /\ extensions' = exts
  /\ pending' = pending \ failed
  /\ Deliver(failed, Answer(kind))
  /\ UNCHANGED <<session, nextExtId, pc, num, req, out, via, owner, ws, stalled, browser>>

RemoveExtension(b) == [extensions EXCEPT ![b] = NoConn]
PendingOn(b) == {p \in pending : p.bid = b}

\* Mutants of Disconnect: the sender stays in the map; the pending requests
\* are forgotten; they are told the same as if they had never been sent.
DisconnectKeepsSender(e) ==
  EndOfConnection(e, extensions, PendingOn(owner[e]), "disconnected")
DisconnectForgetsPending(e) ==
  EndOfConnection(e, RemoveExtension(owner[e]), {}, "disconnected")
DisconnectSaysNoExtension(e) ==
  EndOfConnection(e, RemoveExtension(owner[e]), PendingOn(owner[e]), "noext")

\* The read loop ends (close frame, or an error that loses unread frames):
\* remove the browser's sender and fail every request pending on it.
Disconnect(e) ==
  EndOfConnection(e, RemoveExtension(owner[e]), PendingOn(owner[e]), "disconnected")

-----------------------------------------------------------------------------
(* The extensions (background.ts): environment of the bridge.              *)

\* connect(): a new socket is opened only when there is no current one.
Connect(b, e) ==
  /\ ws[b] = NoConn /\ conn[e] = "unused"
  /\ conn' = [conn EXCEPT ![e] = "registering"]
  /\ owner' = [owner EXCEPT ![e] = b]
  /\ ws' = [ws EXCEPT ![b] = e]
  /\ UNCHANGED <<session, extensions, pending, nextExtId, task, wire, stalled, browser>>

\* The socket is lost or closed at the far end.
Drop(b) ==
  /\ ws[b] # NoConn
  /\ ws' = [ws EXCEPT ![b] = NoConn]
  /\ UNCHANGED <<session, extensions, pending, nextExtId, task,
                 conn, owner, wire, stalled, browser>>

\* The browser hangs: its socket buffer fills up.
Stall(b) ==
  /\ MayStall /\ ws[b] # NoConn
  /\ stalled' = stalled \cup {ws[b]}
  /\ UNCHANGED <<session, extensions, pending, nextExtId, task,
                 conn, owner, wire, ws, browser>>

\* handleRequest runs the action in the page, then sendToBridge writes the
\* reply to the current socket, which need not be the one the request came
\* on; with no socket the reply is dropped.
Execute(b, r) ==
  /\ r \in inbox[b]
  /\ inbox' = [inbox EXCEPT ![b] = @ \ {r}]
  /\ executed' = executed \cup {<<r.client, r.n>>}
  /\ IF ws[b] = NoConn THEN UNCHANGED wire
                       ELSE wire' = [wire EXCEPT ![ws[b]] = @ \cup {r}]
  /\ UNCHANGED <<session, extensions, pending, nextExtId, task,
                 conn, owner, ws, stalled, dispatched>>

-----------------------------------------------------------------------------
TaskStep(c) ==
  \/ CheckSession(c) \/ Forward(c)
  \/ SendToExtension(c) \/ SendToDead(c)
  \/ TakeReply(c) \/ TimeOut(c) \/ GiveUp(c) \/ Respond(c)

ClientStep(c) ==
  \/ \E want \in SUBSET Allowed : Initialize(c, want)
  \/ Shutdown(c) \/ Exit(c) \/ BrowserList(c)
  \/ \E m \in Method, t \in Browser \cup {AnyBrowser} : ReceiveRequest(c, m, t)
  \/ ClientLeaves(c)

ConnStep(e) ==
  \/ AddExtension(e) \/ RegistrationFails(e)
  \/ \E r \in wire[e] : ReadReply(e, r)
  \/ Disconnect(e)

ExtensionStep(b) ==
  \/ \E e \in Conn : Connect(b, e)
  \/ Drop(b) \/ Stall(b)
  \/ \E r \in inbox[b] : Execute(b, r)

Next ==
  \/ \E c \in Client : TaskStep(c) \/ ClientStep(c)
  \/ \E e \in Conn : ConnStep(e)
  \/ \E b \in Browser : ExtensionStep(b)

Spec == Init /\ [][Next]_vars

\* The tokio tasks of the bridge run; clients and browsers need not.
FairSpec == /\ Spec
            /\ \A c \in Client : WF_vars(TaskStep(c))
            /\ \A e \in Conn : WF_vars(ConnStep(e))
-----------------------------------------------------------------------------
(* What the bridge must keep.                                              *)

\* A pending entry belongs to exactly the request its client's task is still
\* working on, and nothing has been put in that task's channel; conversely a
\* task that waits on an empty channel has its entry in the map.  No path of
\* forward_to_extension (reply, disconnect, failed send, timeout) leaks an
\* entry or leaves a task waiting for something nobody will send.
PendingTracked ==
  /\ \A p \in pending : /\ pc[p.client] \in Waiting
                        /\ out[p.client] = p
                        /\ pc[p.client] \in {"send", "await"} => resp[p.client] = NoResp
  /\ \A c \in Client : pc[c] \in {"send", "await"} /\ resp[c] = NoResp
                         => out[c] \in pending

\* A success response is the reply to the very request the client is waiting
\* for, run by the browser it was forwarded to, although replies are matched
\* by a number, arrive in any order and late, and may come on a newer socket.
ReplyMatches ==
  \A c \in Client : resp[c].kind = "result" =>
    /\ resp[c].msg = out[c]
    /\ out[c].n = num[c] /\ out[c].bid # NoBrowser
    /\ req[c].target \in {out[c].bid, AnyBrowser}
    /\ <<c, num[c]>> \in executed

\* get_sender never returns the sender of a socket whose reader has ended:
\* the map names only open connections of that very browser.
SenderLive ==
  \A b \in Browser : extensions[b] # NoConn =>
    conn[extensions[b]] = "open" /\ owner[extensions[b]] = b

\* Whatever is pending on a browser has a reader task of that browser that
\* will either deliver a reply or fail it: after the last socket of a browser
\* has been cleaned up no request is left to run into its 30 s timeout.
PendingHasReader ==
  \A p \in pending : \E e \in Conn : conn[e] = "open" /\ owner[e] = p.bid

\* A browser that takes a request up runs it for the first time: whatever is
\* sent again, answered late or read by another connection's task meanwhile,
\* no request is handed to the browsers twice.
RunsOnce ==
  [][\A b \in Browser : \A r \in inbox[b] \ inbox'[b] :
       <<r.client, r.n>> \in dispatched \ executed]_vars

\* Every request a client sends is answered (RFC 0001 section 9.2), whatever
\* the extensions do, as long as its socket accepts writes.
EveryRequestAnswered ==
  \A c \in Client : (pc[c] \notin {"idle", "gone"}) ~> (pc[c] \in {"idle", "gone"})

-----------------------------------------------------------------------------
(* What the documentation promises and the code does not keep.             *)

\* API.md: after initialize the bridge enforces the negotiated capabilities
\* on every method it forwards.
CapabilityEnforced ==
  [][\A c \in Client : pc[c] = "ready" /\ pc'[c] = "send" => req[c].method \in caps]_vars

\* RFC 0001: the capabilities returned by initialize are the contract of the
\* session, so a method a client was granted is not refused as unsupported.
GrantHonoured ==
  \A c \in Client : resp[c].kind = "unsupported" => req[c].method \notin granted[c]

\* "Extension disconnected during request" is said only of a request whose
\* connection is gone.
DisconnectedMeansGone ==
  \A c \in Client : resp[c].kind = "disconnected" =>
    ~(conn[via[c]] = "open" /\ FarOpen(via[c]))

\* "No extension connected" is said only when no extension that could take
\* the request has a registered, live connection.
NoExtensionMeansNone ==
  [][\A c \in Client : pc[c] = "ready" /\ resp'[c].kind = "noext" =>
       \A b \in Browser : req[c].target \in {b, AnyBrowser} /\ ws[b] # NoConn
                           => conn[ws[b]] # "open"]_vars

-----------------------------------------------------------------------------
(* The abstract service: see RequestBroker.                                *)
Phase(c) == IF pc[c] \in {"idle", "gone"} THEN "idle" ELSE "busy"

Verdict(c) == IF pc[c] # "respond" THEN "none"
              ELSE IF resp[c].kind \in Rejections THEN "rejected"
              ELSE IF resp[c].kind = "result" THEN "result" ELSE "uncertain"

Broker == INSTANCE RequestBroker WITH
  phase <- [c \in Client |-> Phase(c)], verdict <- [c \in Client |-> Verdict(c)]

\* The bridge implements the broker: a result only after the action ran, a
\* rejection only if it never runs.
ImplementsBroker == Broker!Spec
=============================================================================
