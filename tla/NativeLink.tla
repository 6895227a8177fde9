----------------------------- MODULE NativeLink -----------------------------
(***************************************************************************)
(* How the extension gets a bridge and keeps its link to it (native.ts,    *)
(* connect to scheduleReconnect in background.ts), composed with the life  *)
(* of the bridge processes: it starts one through native messaging, reads  *)
(* port and token from it, opens a WebSocket and registers; if that fails  *)
(* it tries the fixed port of a bridge the user has started; when the      *)
(* socket closes it gives up the process and tries again after a while.    *)
(*                                                                         *)
(* Callbacks and the code after an await run to the next await, so each    *)
(* such piece is one action.  How long the reconnection waits is left out. *)
(***************************************************************************)
EXTENDS BridgeProcess

CONSTANTS
  Native,  \* the slots of processes the extension starts; users start the others
  Sock,    \* slots for WebSockets
  NoSock,
  MaxFaults  \* bound: how many things go wrong

ASSUME NativeLinkAssumption ==
  Native \subseteq Proc /\ Sock # {} /\ NoSock \notin Sock /\ MaxFaults \in Nat

VARIABLES
  call,        \* where the running connect() is, or "none"
  attempt,     \* the process whose port startBridge has opened, NoProc if none appeared
  target,      \* the process whose port and token its first message gives
  activePort,  \* the process whose port is kept in activePort, or NoProc
  timers,      \* attempts whose 3 s timer has not fired
  sock,        \* [Sock -> [st, native, setup, peer]]: the WebSockets; setup: setupConnection has run
  ws,          \* the background script's ws
  reconnect,   \* whether the reconnection timer is set
  stored,      \* the process whose token is in browser.storage.local
  faults       \* history: how many things have gone wrong

conn == <<call, attempt, target>>
ports == <<activePort, timers>>
link == <<sock, ws, reconnect>>
linkVars == <<conn, ports, link, stored, faults>>
vars == <<procVars, linkVars>>

Manual == Proc \ Native
Free == [st |-> "free", native |-> FALSE, setup |-> FALSE, peer |-> NoProc]
Opened == {"open", "linked", "rejected"}

TypeOK ==
  /\ ProcTypeOK
  /\ call \in {"none", "start", "token", "store", "open"}
  /\ attempt \in Native \cup {NoProc} /\ target \in Owner
  /\ activePort \in Native \cup {NoProc} /\ timers \in SUBSET (Native \cup {NoProc})
  /\ sock \in [Sock -> [st : {"free", "connecting"} \cup Opened,
                        native : BOOLEAN, setup : BOOLEAN, peer : Owner]]
  /\ ws \in Sock \cup {NoSock} /\ reconnect \in BOOLEAN
  /\ stored \in Owner /\ faults \in 0..MaxFaults

\* connect() is called when the background script is loaded.
Init ==
  /\ ProcInit
  /\ call = "start" /\ attempt = NoProc /\ target = NoProc
  /\ activePort = NoProc /\ timers = {}
  /\ sock = [s \in Sock |-> Free] /\ ws = NoSock /\ reconnect = FALSE
  /\ stored = NoProc /\ faults = 0

\* The processes whose ports a disconnectAndClearPort would close.
ActivePorts == {activePort} \ {NoProc}

\* Something goes wrong.
Fault == faults < MaxFaults /\ faults' = faults + 1
FaultIf(c) == IF c THEN Fault ELSE UNCHANGED faults

\* The slots are interchangeable: a new socket takes some free one.
NewSocket(socks) == CHOOSE s \in Sock : socks[s].st = "free"

RetirePeers(p, f) == [s \in Sock |-> [f[s] EXCEPT !.peer = Retire(p, @)]]
-----------------------------------------------------------------------------
(* connect() and startBridge().                                            *)

\* The catch of connect(): a socket to the fixed port, set up at once.
FallBack(socks) ==
  /\ call' = "none" /\ attempt' = NoProc /\ target' = NoProc
  /\ LET s == NewSocket(socks)
     IN /\ sock' = [socks EXCEPT ![s] = [Free EXCEPT !.st = "connecting", !.setup = TRUE]]
        /\ ws' = s
  /\ UNCHANGED <<reconnect, stored>>

\* Any previous port is disconnected and connectNative starts a process.
StartBridge ==
  LET idle == {q \in Native : ~Alive(q) /\ q \notin timers}
      p == CHOOSE q \in idle : TRUE
  IN /\ call = "start" /\ idle # {}
     /\ Launch(p, <<"manifest", "extension">>, "bridge", ActivePorts)
     /\ call' = "token" /\ attempt' = p /\ target' = NoProc
     /\ activePort' = NoProc /\ timers' = timers \cup {p}
     /\ sock' = RetirePeers(p, sock) /\ stored' = Retire(p, stored)
     /\ UNCHANGED <<ws, reconnect, faults>>

\* Without a (working) native application the port never says anything.
StartNothing ==
  /\ call = "start" /\ NoProc \notin timers /\ Fault
  /\ eof' = eof \cup ActivePorts
  /\ call' = "token" /\ attempt' = NoProc /\ target' = NoProc
  /\ activePort' = NoProc /\ timers' = timers \cup {NoProc}
  /\ UNCHANGED <<windows, mode, pc, locks, tokenFile, sockets, reading, out, link, stored>>

\* connectNative throws, or the first message is not {port, token}.
StartFails ==
  /\ call = "start" /\ Fault
  /\ eof' = eof \cup ActivePorts /\ activePort' = NoProc
  /\ FallBack(sock)
  /\ UNCHANGED <<windows, mode, pc, locks, tokenFile, sockets, reading, out, timers>>

\* The message arrives before the timer.
ReadToken ==
  /\ call = "token" /\ attempt # NoProc /\ out[attempt] # NoProc
  /\ call' = "store" /\ target' = out[attempt]
  /\ UNCHANGED <<procVars, attempt, ports, link, stored, faults>>

\* Mutants of TokenTimer: the promise is not rejected; the port stays open.
TokenTimerSilent(p) ==
  /\ timers' = timers \ {p}
  /\ IF p = NoProc THEN UNCHANGED procVars ELSE CloseStdin(p)
  /\ UNCHANGED <<conn, link, stored, activePort>>
TokenTimerKeepsPort(p) ==
  /\ timers' = timers \ {p}
  /\ IF call = "token" /\ attempt = p THEN FallBack(sock)
                                      ELSE UNCHANGED <<conn, link, stored>>
  /\ UNCHANGED <<activePort, procVars>>

\* After 3 s, whatever has happened meanwhile, the timer disconnects its
\* port; it matters to the race only while that waits for the message.
TokenTimer(p) ==
  /\ timers' = timers \ {p}
  /\ IF p = NoProc THEN UNCHANGED procVars ELSE CloseStdin(p)
  /\ IF call = "token" /\ attempt = p THEN FallBack(sock)
                                      ELSE UNCHANGED <<conn, link, stored>>
  /\ UNCHANGED activePort

\* No message will come.
Speechless(p) == IF p = NoProc THEN TRUE ELSE ~Alive(p) /\ out[p] = NoProc

\* The timer's time has come.  Unless something goes wrong, a process that is
\* going to hand over its token has done so, and the extension registered.
TimerFires(p) ==
  /\ p \in timers /\ TokenTimer(p)
  /\ FaultIf(\/ call # "none" /\ attempt = p /\ ~Speechless(p)
             \/ activePort = p /\ \E s \in Sock : sock[s].st = "open")

\* Mutants of StoreToken: the port is not needed after the token; or it is
\* taken to be that of the process the message names.
StoreTokenConfusesPorts ==
  /\ call = "store" /\ call' = "open"
  /\ stored' = target /\ activePort' = target /\ UNCHANGED faults
  /\ sock' = [sock EXCEPT ![NewSocket(sock)] =
                [st |-> "connecting", native |-> TRUE, setup |-> FALSE, peer |-> target]]
  /\ UNCHANGED <<procVars, attempt, target, timers, ws, reconnect>>
StoreTokenClosesPort ==
  /\ call = "store" /\ call' = "open"
  /\ \/ stored' = target /\ UNCHANGED faults
     \/ stored' = stored /\ stored # target /\ Fault
  /\ activePort' = attempt /\ CloseStdin(attempt)
  /\ sock' = [sock EXCEPT ![NewSocket(sock)] =
                [st |-> "connecting", native |-> TRUE, setup |-> FALSE, peer |-> target]]
  /\ UNCHANGED <<attempt, target, timers, ws, reconnect>>

\* The token is stored, or a warning is logged; then the port is kept and
\* the socket created.
StoreToken ==
  /\ call = "store" /\ call' = "open"
  /\ \/ stored' = target /\ UNCHANGED faults
     \/ stored' = stored /\ stored # target /\ Fault
  /\ activePort' = attempt
  /\ sock' = [sock EXCEPT ![NewSocket(sock)] =
                [st |-> "connecting", native |-> TRUE, setup |-> FALSE, peer |-> target]]
  /\ UNCHANGED <<procVars, attempt, target, timers, ws, reconnect>>

Listens(p) == p \in Proc /\ server[p] = "listening"

\* The peer has accepted the socket.
Reaches(p) ==
  /\ Listens(p)
  /\ accepted' = IF mode[p] = "bootstrap" THEN accepted \cup {p} ELSE accepted
  /\ UNCHANGED <<windows, mode, pc, locks, tokenFile, server, stdio>>

\* onopen resolves startBridge: connect() stores the socket and sets it up.
SocketOpens(s) ==
  /\ call = "open" /\ sock[s].st = "connecting" /\ sock[s].native /\ ~sock[s].setup
  /\ Reaches(sock[s].peer)
  /\ sock' = [sock EXCEPT ![s].st = "open", ![s].setup = TRUE]
  /\ ws' = s /\ call' = "none" /\ attempt' = NoProc /\ target' = NoProc
  /\ UNCHANGED <<ports, reconnect, stored, faults>>

\* Mutant of SocketFails: the failed attempt also schedules the next one.
SocketFailsReconnects(s) ==
  /\ call = "open" /\ sock[s].st = "connecting" /\ ~sock[s].setup
  /\ FaultIf(Listens(sock[s].peer))
  /\ eof' = eof \cup ActivePorts /\ activePort' = NoProc
  /\ call' = "none" /\ attempt' = NoProc /\ target' = NoProc
  /\ sock' = [sock EXCEPT ![s] = [Free EXCEPT !.st = "connecting", !.setup = TRUE]]
  /\ ws' = s /\ reconnect' = TRUE
  /\ UNCHANGED <<windows, mode, pc, locks, tokenFile, sockets, reading, out, timers, stored>>

\* onerror, or no answer in 10 s: the active port is given up.
SocketFails(s) ==
  /\ call = "open" /\ sock[s].st = "connecting" /\ ~sock[s].setup
  /\ FaultIf(Listens(sock[s].peer))
  /\ eof' = eof \cup ActivePorts /\ activePort' = NoProc
  /\ FallBack([sock EXCEPT ![s] = Free])
  /\ UNCHANGED <<windows, mode, pc, locks, tokenFile, sockets, reading, out, timers>>
-----------------------------------------------------------------------------
(* The socket's handlers and the reconnection.                             *)

\* The fallback's socket opens: some process listens on the fixed port.
ManualOpens(s) ==
  /\ sock[s].st = "connecting" /\ sock[s].setup
  /\ \E p \in Proc :
       /\ mode[p] \in Fixed /\ Reaches(p)
       /\ sock' = [sock EXCEPT ![s].st = "open", ![s].peer = p]
  /\ UNCHANGED <<conn, ports, ws, reconnect, stored, faults>>

\* registerExtension sends whatever token is stored by then, and the bridge
\* accepts its own.
Register(s) ==
  /\ sock[s].st = "open" /\ Listens(sock[s].peer)
  /\ sock' = [sock EXCEPT ![s].st = IF stored = sock[s].peer THEN "linked" ELSE "rejected"]
  /\ UNCHANGED <<procVars, conn, ports, ws, reconnect, stored, faults>>

\* onclose: releaseBridge, forget the socket, scheduleReconnect.
OnClose(s) ==
  /\ sock[s].setup
  /\ eof' = eof \cup ActivePorts /\ activePort' = NoProc
  /\ sock' = [sock EXCEPT ![s] = Free]
  /\ ws' = NoSock /\ reconnect' = TRUE
  /\ UNCHANGED <<windows, mode, pc, locks, tokenFile, sockets, reading, out, conn, timers, stored>>

\* What makes a socket close: nobody listens, the peer is gone or has
\* rejected the registration; or any other failure.
Lost(s) ==
  CASE sock[s].st = "connecting" -> \A p \in Proc : mode[p] \in Fixed => ~Listens(p)
    [] sock[s].st = "rejected"   -> TRUE
    [] OTHER                     -> ~Listens(sock[s].peer)

SocketCloses(s) == Lost(s) /\ OnClose(s) /\ UNCHANGED faults
ConnectionBreaks(s) == ~Lost(s) /\ OnClose(s) /\ Fault

\* The timer's callback; connect() returns at once if there is a socket.
Reconnect ==
  /\ reconnect /\ call = "none" /\ reconnect' = FALSE
  /\ call' = IF ws = NoSock THEN "start" ELSE "none"
  /\ UNCHANGED <<procVars, attempt, target, ports, sock, ws, stored, faults>>
-----------------------------------------------------------------------------
(* The surroundings.                                                       *)

\* The user or the MCP adapter starts a bridge.
StartManually(p) ==
  /\ \E args \in {<<>>, <<"--mode=bootstrap", "--echo">>}, env \in Fixed \cup {"random"} :
       Launch(p, args, env, {})
  /\ target' = Retire(p, target) /\ stored' = Retire(p, stored)
  /\ sock' = RetirePeers(p, sock)
  /\ UNCHANGED <<call, attempt, ports, ws, reconnect>>

\* The extension is reloaded: its ports close, its sockets and timers go.
Reload ==
  /\ call' = "start" /\ attempt' = NoProc /\ target' = NoProc
  /\ activePort' = NoProc /\ timers' = {} /\ eof' = eof \cup Native
  /\ sock' = [s \in Sock |-> Free] /\ ws' = NoSock /\ reconnect' = FALSE
  /\ UNCHANGED <<windows, mode, pc, locks, tokenFile, sockets, reading, out, stored>>

\* The user copies the token file's token to the options page.
ConfigureToken ==
  /\ tokenFile # NoProc /\ stored' = tokenFile
  /\ UNCHANGED <<procVars, conn, ports, link>>

ProcFault(p) ==
  /\ BindPortFails(p) \/ Kill(p) \/ Interrupt(p) \/ ExitRequest(p)
  /\ UNCHANGED <<conn, ports, link, stored>>

\* Somebody else connects to a bridge, or the client of one leaves.
Others(p) ==
  /\ Accept(p) \/ (p \in Manual \ eof /\ CloseStdin(p))
  /\ UNCHANGED linkVars

Environment ==
  \/ /\ Fault
     /\ \/ Reload \/ ConfigureToken
        \/ \E p \in Manual : StartManually(p)
        \/ \E p \in Proc : ProcFault(p)
  \/ \E p \in Proc : Others(p)
-----------------------------------------------------------------------------
ProcessRuns(p) == ProcStep(p) /\ UNCHANGED linkVars

\* The extension connects well within 30 s, unless something goes wrong.
WaitIsOver(p) ==
  /\ WaitTimesOut(p) /\ FaultIf(call # "none" /\ attempt = p)
  /\ UNCHANGED <<conn, ports, link, stored>>

Next ==
  \/ \E p \in Proc : ProcessRuns(p) \/ WaitIsOver(p)
  \/ \E p \in Native \cup {NoProc} : TimerFires(p)
  \/ \E s \in Sock : \/ SocketOpens(s) \/ SocketFails(s) \/ ManualOpens(s) \/ Register(s)
                     \/ SocketCloses(s) \/ ConnectionBreaks(s)
  \/ StartBridge \/ StartNothing \/ StartFails \/ ReadToken \/ StoreToken \/ Reconnect
  \/ Environment

\* Processes run, timers fire and sockets report what has become of them; the
\* surroundings owe nothing.
Fairness ==
  /\ \A p \in Proc : WF_vars(ProcessRuns(p)) /\ WF_vars(WaitIsOver(p))
  /\ WF_vars(StartBridge)
  /\ \A p \in Native \cup {NoProc} : WF_vars(TimerFires(p))
  /\ WF_vars(ReadToken) /\ WF_vars(StoreToken) /\ WF_vars(Reconnect)
  /\ \A s \in Sock : /\ WF_vars(SocketOpens(s) \/ SocketFails(s))
                     /\ WF_vars(ManualOpens(s)) /\ WF_vars(Register(s)) /\ WF_vars(SocketCloses(s))

Spec == Init /\ [][Next]_vars /\ Fairness
-----------------------------------------------------------------------------
\* The extension neither stops trying nor tries twice at a time: there is
\* either a connect() running, or one socket with handlers, which is ws, or
\* the reconnection timer.
OneChain ==
  LET live == {s \in Sock : sock[s].setup}
  IN /\ live = {ws} \ {NoSock}
     /\ (IF call = "none" THEN 0 ELSE 1) + (IF reconnect THEN 1 ELSE 0) + (IF ws = NoSock THEN 0 ELSE 1) = 1

\* Every process whose stdin the extension holds open can still be told to
\* end: its port is the active one or that of the running attempt.
PortsOwned ==
  \A p \in Native : Alive(p) /\ p \notin eof =>
    p = activePort \/ (p = attempt /\ call \in {"token", "store"})

\* While the socket that startBridge opened is in use, its process's port is
\* closed by nothing but that attempt's own timer.
PortKeptUntilTimer ==
  \A s \in Sock : sock[s].setup /\ sock[s].native =>
    /\ activePort # NoProc
    /\ Alive(activePort) /\ activePort \in eof => activePort \notin timers

\* "The native port must stay open while the WebSocket is connected"
\* (native.ts).
PortOpenWhileConnected ==
  \A s \in Sock : sock[s].st = "linked" /\ sock[s].peer = activePort /\ Alive(activePort)
    => activePort \notin eof

\* When only finitely many things go wrong and the user's own bridges come to
\* an end, the extension is linked again and again.
Recovers ==
  <>[](\A p \in Manual : ~Alive(p)) => []<>(\E s \in Sock : sock[s].st = "linked")

\* A process whose port the extension has closed comes to an end.
ProcessEnds == \A p \in Native : p \in eof ~> ~Alive(p)
=============================================================================
