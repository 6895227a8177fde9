------------------------------- MODULE Adapter ------------------------------
(***************************************************************************)
(* The MCP adapter (brp_mcp_adapter.py): every tool call makes sure that   *)
(* there is a bridge (ensure_bridge: a connection, a child process, else   *)
(* discovery by the lockfile, else a new child), that the session is       *)
(* initialized, and sends its request.  The calls are coroutines that      *)
(* share globals without a lock: an action is what runs between two        *)
(* awaits.  What bridges do is nondeterministic here, except that they     *)
(* send whole JSON messages.                                               *)
(*                                                                         *)
(* A message on a child's stdout is a header and a payload.  Each is       *)
(* awaited on the stdout of what _bridge_proc is by then, and a second     *)
(* task that comes to a stdout on which another waits either fails or,     *)
(* when enough bytes are there, takes them from the other.                 *)
(***************************************************************************)
EXTENDS FiniteSets

CONSTANTS
  Call,     \* slots for tool calls
  Conn,     \* slots for WebSocket connections
  Child,    \* slots for child processes
  None

ASSUME AdapterAssumption == None \notin Conn \cup Child /\ Conn \cap Child = {}

VARIABLES
  call,         \* [Call -> [st, link]]: where the call is, and the link it uses; the
                \* futures in _pending are those of the calls in a stage of Waiting
  ws,           \* _ws_conn
  proc,         \* _bridge_proc
  initialized,  \* _initialized
  open,         \* the connections that are open and the children that live
  created,      \* reader tasks that have not run yet, by the call that created them
  reading,      \* the links on which a reader task waits
  payload,      \* the uncrossed children of them whose header it has read
  crossed,      \* history: children from whose stdout a task has taken bytes that
                \* were not the ones it should read next, or another's
  abandoned     \* history: links whose call ended before it created a reader

vars == <<call, ws, proc, initialized, open, created, reading, payload, crossed, abandoned>>

Link == Conn \cup Child
Idle == [st |-> "idle", link |-> None]
Waiting == {"initialize", "request"}
Stages == {"idle", "discover", "connect", "register", "spawn", "port", "payload", "sleep", "initialized"} \cup Waiting

TypeOK ==
  /\ call \in [Call -> [st : Stages, link : Link \cup {None}]]
  /\ ws \in Conn \cup {None} /\ proc \in Child \cup {None}
  /\ initialized \in BOOLEAN
  /\ open \subseteq Link /\ reading \subseteq Link
  /\ created \subseteq Call \X {"ws", "stdout"}
  /\ payload \subseteq (reading \cap Child) \ crossed
  /\ crossed \subseteq Child /\ abandoned \subseteq Link

Init ==
  /\ call = [c \in Call |-> Idle]
  /\ ws = None /\ proc = None /\ initialized = FALSE
  /\ open = {} /\ created = {} /\ reading = {}
  /\ payload = {} /\ crossed = {} /\ abandoned = {}

Is(c, s) == call[c].st = s
Goto(c, s, l) == call' = [call EXCEPT ![c] = [st |-> s, link |-> l]]
ProcRuns == proc \in open

\* A slot can be used again when nothing names the link any more.
InUse == reading \cup {ws, proc} \cup {call[c].link : c \in Call}
Take(l) == /\ open' = open \cup {l}
           /\ crossed' = crossed \ {l} /\ abandoned' = abandoned \ {l}

stdout == <<reading, payload, crossed>>
links == <<open, created, stdout, abandoned>>
-----------------------------------------------------------------------------
(* ensure_bridge.                                                          *)

\* A tool is called.  With a connection or a living child it goes on to the
\* half second of _ready; the exit of a child may not have been noticed yet.
EnsureBridge(c) ==
  /\ Is(c, "idle") /\ \A k \in {"ws", "stdout"} : <<c, k>> \notin created
  /\ \/ (ws # None \/ proc # None) /\ Goto(c, "sleep", None)
     \/ ws = None /\ ~ProcRuns /\ Goto(c, "discover", None)
  /\ UNCHANGED <<ws, proc, initialized, links>>

\* _try_discover_bridge: the lockfile names a living bridge that can be
\* reached, or a child is spawned.
TryDiscoverBridge(c) ==
  /\ Is(c, "discover")
  /\ Goto(c, "connect", None) \/ Goto(c, "spawn", None)
  /\ UNCHANGED <<ws, proc, initialized, links>>

\* _connect_ws: whatever _ws_conn is by now, it becomes the new connection,
\* on which the registration is then sent.
ConnectWs(c) ==
  /\ Is(c, "connect")
  /\ \E l \in Conn \ InUse : Goto(c, "register", l) /\ ws' = l /\ Take(l)
  /\ UNCHANGED <<proc, initialized, created, reading, payload>>

ConnectFails(c) ==
  /\ Is(c, "connect") /\ Goto(c, "spawn", None)
  /\ UNCHANGED <<ws, proc, initialized, links>>

\* Mutant of Registered: a reader task that runs is taken to be enough.
RegisteredSharesReader(c) ==
  /\ Is(c, "register")
  /\ Goto(c, "sleep", None) /\ initialized' = FALSE
  /\ created' = IF reading \cap Conn = {} THEN created \cup {<<c, "ws">>} ELSE created
  /\ UNCHANGED <<ws, proc, open, stdout, abandoned>>

\* The registration is sent; a reader task is created, the session reset.
Registered(c) ==
  /\ Is(c, "register")
  /\ Goto(c, "sleep", None) /\ initialized' = FALSE
  /\ created' = created \cup {<<c, "ws">>}
  /\ UNCHANGED <<ws, proc, open, stdout, abandoned>>

\* The call ends before it has created a reader for its link.
Abandon(c) ==
  /\ call' = [call EXCEPT ![c] = Idle]
  /\ abandoned' = abandoned \cup {call[c].link}

\* The send raises: _ws_conn keeps the dead connection and has no reader that
\* would ever reset it.
RegistrationFails(c) ==
  /\ Is(c, "register") /\ call[c].link \notin open
  /\ Abandon(c)
  /\ UNCHANGED <<ws, proc, initialized, open, created, stdout>>

\* _spawn_bridge: whatever _bridge_proc is by now, it becomes the new child.
SpawnBridge(c) ==
  /\ Is(c, "spawn")
  /\ \E p \in Child \ InUse : Goto(c, "port", p) /\ proc' = p /\ Take(p)
  /\ initialized' = FALSE
  /\ UNCHANGED <<ws, created, reading, payload>>

SpawnFails(c) ==
  /\ Is(c, "spawn") /\ call' = [call EXCEPT ![c] = Idle]
  /\ UNCHANGED <<ws, proc, initialized, links>>

AwaitsFirst(c) == call[c].st \in {"port", "payload"}

\* A reader, or one of some calls, waits on the stdout of q.
Taken(q, rs, cs) == q \in rs \/ \E c \in cs : AwaitsFirst(c) /\ call[c].link = q

\* The first message has been read, or given up: the reader is created.
FirstRead(c) ==
  /\ Goto(c, "sleep", None) /\ created' = created \cup {<<c, "stdout">>}
  /\ UNCHANGED abandoned

\* The first header is there; its payload is awaited on the stdout of what is
\* the child by now.  On that of another the bytes are not those of the
\* payload; where another task waits the call fails, or takes its bytes.
FirstHeader(c) ==
  /\ Is(c, "port")
  /\ IF Taken(proc, reading, Call \ {c})
     THEN \/ Abandon(c) /\ UNCHANGED <<created, crossed>>
          \/ /\ (Abandon(c) /\ UNCHANGED created) \/ FirstRead(c)
             /\ crossed' = crossed \cup {proc}
     ELSE /\ Goto(c, "payload", proc)
          /\ crossed' = crossed \cup ({proc} \ {call[c].link})
          /\ UNCHANGED <<created, abandoned>>
  /\ payload' = payload \ crossed'
  /\ UNCHANGED <<ws, proc, initialized, open, reading>>

\* No header in 5 s, or the end of stdout.
NoHeader(c) ==
  /\ Is(c, "port") /\ FirstRead(c)
  /\ UNCHANGED <<ws, proc, initialized, open, stdout>>

\* The payload has no timeout: only what the child sends, or its end, wakes
\* the call.
FirstPayload(c) ==
  /\ Is(c, "payload") /\ FirstRead(c)
  /\ UNCHANGED <<ws, proc, initialized, open, stdout>>

NoPayload(c) == call[c].link \notin open /\ FirstPayload(c)

\* What is read where bytes have been crossed need not be a message, and the
\* wait for it may meet another: neither exception is caught.
FirstFails(c) ==
  /\ AwaitsFirst(c) /\ call[c].link \in crossed /\ Abandon(c)
  /\ UNCHANGED <<ws, proc, initialized, open, created, stdout>>
-----------------------------------------------------------------------------
(* brp_request.                                                            *)

Fail(c) == call' = [call EXCEPT ![c] = Idle]

\* brp_request up to its wait.  The connection is preferred to the child.  If
\* the send raises, the call fails, but a send to what has just ended may also
\* seem to succeed.  The entry that a failed send leaves in _pending is not
\* told apart from none, for its number is not used again.
BrpRequest(c, s) ==
  LET l == IF ws # None THEN ws ELSE proc
  IN \/ l \notin open /\ Fail(c)
     \/ l # None /\ Goto(c, s, l)

\* After the half second, in which a reader it created has begun to run,
\* ensure_initialized sends initialize unless somebody has.
EnsureInitialized(c) ==
  /\ Is(c, "sleep") /\ \A k \in {"ws", "stdout"} : <<c, k>> \notin created
  /\ BrpRequest(c, IF initialized THEN "request" ELSE "initialize")
  /\ UNCHANGED <<ws, proc, initialized, links>>

\* The reply to initialize has woken the call: it may be an error.
Initialized(c) ==
  /\ Is(c, "initialized")
  /\ \/ Fail(c) /\ UNCHANGED initialized
     \/ initialized' = TRUE /\ BrpRequest(c, "request")
  /\ UNCHANGED <<ws, proc, links>>

\* Mutant of TimeOut: initialize is awaited without a timeout.
TimeOutRequestOnly(c) ==
  /\ Is(c, "request") /\ Fail(c)
  /\ UNCHANGED <<ws, proc, initialized, links>>

\* 30 s without a reply.
TimeOut(c) ==
  /\ call[c].st \in Waiting /\ Fail(c)
  /\ UNCHANGED <<ws, proc, initialized, links>>

\* The MCP client cancels the tool call, wherever it waits.
Cancel(c) ==
  /\ ~Is(c, "idle")
  /\ IF Is(c, "register") \/ AwaitsFirst(c) THEN Abandon(c) ELSE Fail(c) /\ UNCHANGED abandoned
  /\ UNCHANGED <<ws, proc, initialized, open, created, stdout>>
-----------------------------------------------------------------------------
(* The reader tasks.                                                       *)

\* Mutant of StartWsReader: a connection that is gone again is not noticed.
StartWsReaderOfNone(c) ==
  /\ <<c, "ws">> \in created /\ created' = created \ {<<c, "ws">>}
  /\ IF ws \in reading THEN ws' = None /\ UNCHANGED reading
                       ELSE reading' = reading \cup {ws} /\ UNCHANGED ws
  /\ UNCHANGED <<call, proc, initialized, open, payload, crossed, abandoned>>

\* _read_ws_messages evaluates _ws_conn when it first runs; when there is
\* none, or another task reads it already, it ends, and whenever it ends it
\* clears _ws_conn.
StartWsReader(c) ==
  /\ <<c, "ws">> \in created /\ created' = created \ {<<c, "ws">>}
  /\ IF ws \in reading \cup {None} THEN ws' = None /\ UNCHANGED reading
                                   ELSE reading' = reading \cup {ws} /\ UNCHANGED ws
  /\ UNCHANGED <<call, proc, initialized, open, payload, crossed, abandoned>>

\* The connection has ended; by now _ws_conn may be another one.
WsReaderEnds(l) ==
  /\ l \in (Conn \cap reading) \ open
  /\ reading' = reading \ {l} /\ ws' = None
  /\ UNCHANGED <<call, proc, initialized, open, created, payload, crossed, abandoned>>

\* A reader of children comes to the stdout of q; rs is where other readers
\* wait, and h the child whose header it has read, or None when that is next.
\* Where another task waits it ends by an exception, or it takes the other's
\* bytes and is the one that waits, or ends, later.
Await(q, rs, h) ==
  IF Taken(q, rs, Call)
  THEN \/ reading' = rs /\ payload' = payload \cap rs /\ UNCHANGED crossed
       \/ /\ reading' \in {rs, rs \cup {q}}
          /\ crossed' = crossed \cup {q} /\ payload' = (payload \cap rs) \ {q}
  ELSE /\ reading' = rs \cup {q}
       /\ crossed' = crossed \cup (IF h \in {None, q} THEN {} ELSE {q})
       /\ payload' = (payload \cap rs) \cup ({h} \cap ({q} \ crossed))

\* _read_bridge_stdout evaluates _bridge_proc for each header and again for
\* each payload; only before a header it looks whether that runs.
NextMessage(rs) ==
  \/ ProcRuns /\ Await(proc, rs, None)
  \/ ~ProcRuns /\ reading' = rs /\ payload' = payload \cap rs /\ UNCHANGED crossed

StartStdoutReader(c) ==
  /\ <<c, "stdout">> \in created /\ created' = created \ {<<c, "stdout">>}
  /\ NextMessage(reading)
  /\ UNCHANGED <<call, ws, proc, initialized, open, abandoned>>

\* Where readers wait when the one of p has gone on: where bytes have been
\* crossed, a second one may be left there.
Others(p) == {reading \ {p}} \cup (IF p \in crossed THEN {reading} ELSE {})

\* After a header the payload is awaited, ...
StdoutHeader(p) ==
  /\ p \in (Child \cap reading) \ payload
  /\ \E rs \in Others(p) : Await(proc, rs, p)
  /\ UNCHANGED <<call, ws, proc, initialized, open, created, abandoned>>

\* ... after the payload, that of a notification or a late reply, the next
\* header.
StdoutPayload(p) ==
  /\ p \in Child \cap reading \cap (payload \cup crossed)
  /\ \E rs \in Others(p) : NextMessage(rs)

StdoutMessage(p) ==
  /\ StdoutPayload(p)
  /\ UNCHANGED <<call, ws, proc, initialized, open, created, abandoned>>

\* The end of stdout; and any exception of what is no message or of a wait
\* that meets another ends the reader too, although the child lives.
StdoutEnds(p) ==
  /\ p \in Child \cap reading
  /\ p \notin open \/ p \in crossed \cup abandoned
  /\ reading' = reading \ {p} /\ payload' = payload \ {p}
  /\ UNCHANGED <<call, ws, proc, initialized, open, created, crossed, abandoned>>

\* A reply is read on the link the request was sent on.
Reply(c) ==
  /\ call[c].st \in Waiting
  /\ IF Is(c, "initialize") THEN Goto(c, "initialized", None) ELSE Fail(c)
  /\ \/ call[c].link \in Conn \cap reading /\ UNCHANGED stdout
     \/ StdoutPayload(call[c].link)
  /\ UNCHANGED <<ws, proc, initialized, open, created, abandoned>>
-----------------------------------------------------------------------------
(* Bridges.                                                                *)

\* A connection ends or a child exits.
Ends(l) ==
  /\ l \in open /\ open' = open \ {l}
  /\ UNCHANGED <<call, ws, proc, initialized, created, stdout, abandoned>>

CallStep(c) ==
  \/ TryDiscoverBridge(c) \/ ConnectWs(c) \/ ConnectFails(c) \/ Registered(c) \/ RegistrationFails(c)
  \/ SpawnBridge(c) \/ SpawnFails(c) \/ FirstHeader(c) \/ NoHeader(c) \/ NoPayload(c)
  \/ EnsureInitialized(c) \/ Initialized(c) \/ TimeOut(c)

Next ==
  \/ \E c \in Call : \/ EnsureBridge(c) \/ CallStep(c) \/ FirstPayload(c) \/ FirstFails(c)
                     \/ Cancel(c) \/ Reply(c) \/ StartWsReader(c) \/ StartStdoutReader(c)
  \/ \E l \in Conn : WsReaderEnds(l)
  \/ \E p \in Child : StdoutHeader(p) \/ StdoutMessage(p) \/ StdoutEnds(p)
  \/ \E l \in Link : Ends(l)

\* The event loop runs every task that can run, the first header, the requests
\* and discovery have timeouts, and the system answers sends and spawns; the
\* first payload has none and is left to the child, which owes nothing.
Fairness ==
  \A c \in Call : WF_vars(CallStep(c) \/ StartWsReader(c) \/ StartStdoutReader(c))

Spec == Init /\ [][Next]_vars /\ Fairness
-----------------------------------------------------------------------------
\* The adapter takes no link for usable that nobody reads: _ws_conn and a
\* living _bridge_proc have a reader, or one is about to start, or the call
\* that made them is still to create it, however the calls overtake each
\* other.  Two things only can leave one deaf: that call failed or was
\* cancelled first, or two tasks have met on the child's stdout.
LinkIsRead ==
  /\ ws # None =>
       \/ ws \in reading \cup abandoned
       \/ \E c \in Call : <<c, "ws">> \in created \/ (Is(c, "register") /\ call[c].link = ws)
  /\ ProcRuns =>
       \/ proc \in reading \cup crossed \cup abandoned
       \/ \E c \in Call : <<c, "stdout">> \in created \/ (AwaitsFirst(c) /\ call[c].link = proc)

\* Every tool call returns or raises, whatever the bridges and the other calls
\* do, unless it waits for the first payload of a child that lives on.
EveryCallEnds ==
  \A c \in Call : ~Is(c, "idle") ~> Is(c, "idle") \/ (Is(c, "payload") /\ call[c].link \in open)
=============================================================================
