---------------------------- MODULE BridgeProcess ----------------------------
(***************************************************************************)
(* The life of brp-bridge processes (main.rs): started by the extension    *)
(* through native messaging (bootstrap mode) or by a user or the MCP       *)
(* adapter (bridge mode, on the fixed or on a random port, with a client   *)
(* on stdin or standalone), each takes the single-instance locks, listens, *)
(* hands its token and port over, serves and takes everything away again.  *)
(* The locks are atomic here: SingleInstance models how they are taken.    *)
(*                                                                         *)
(* A process is known by its slot.  A slot is used again once its process  *)
(* has ended; what still names the old process then names Old.  A token    *)
(* and a random port are known by their process.                           *)
(***************************************************************************)
EXTENDS Integers, Sequences, SequencesExt

CONSTANTS
  Proc,    \* slots for processes
  NoProc,
  Old      \* a process that has ended and whose slot is used again

ASSUME BridgeProcessAssumption == NoProc \notin Proc /\ Old \notin Proc /\ NoProc # Old

VARIABLES
  windows,    \* whether this is Windows (pipe lock, discovery) or Unix (socket lock)
  mode,       \* [Proc -> Modes]
  pc,         \* [Proc -> Stages]: where each process is
  ipc,        \* the process that holds the socket or pipe lock, or NoProc
  lockfile,   \* the process the lockfile names (pid, port and token), NoProc without one
  tokenFile,  \* the process whose token the token file holds
  server,     \* [Proc -> Servers]: its WebSocket listener
  accepted,   \* processes whose listener has accepted a connection
  eof,        \* processes whose stdin has ended
  reading,    \* processes with a thread that reads stdin
  out         \* [Proc -> Proc, Old or NoProc]: whose port and token it has written to stdout

locks == <<ipc, lockfile>>
sockets == <<server, accepted>>
stdio == <<eof, reading, out>>
procVars == <<windows, mode, pc, locks, tokenFile, sockets, stdio>>

Fixed == {"bridge", "standalone"}
Modes == {"bootstrap", "random", "echo"} \cup Fixed
Stages == {"gone", "config", "ipc", "discover", "port", "lock", "send", "wait",
           "keepalive", "serve", "echo", "return", "shutdown", "lingering"}
Servers == {"none", "starting", "listening", "failed"}
Owner == Proc \cup {NoProc, Old}

Alive(q) == q \in Proc /\ pc[q] # "gone"
Is(p, s) == pc[p] = s
Goto(p, s) == pc' = [pc EXCEPT ![p] = s]

ProcTypeOK ==
  /\ windows \in BOOLEAN
  /\ mode \in [Proc -> Modes] /\ pc \in [Proc -> Stages]
  /\ ipc \in Proc \cup {NoProc} /\ lockfile \in Owner /\ tokenFile \in Owner
  /\ server \in [Proc -> Servers] /\ accepted \in SUBSET Proc
  /\ eof \in SUBSET Proc /\ reading \in SUBSET Proc
  /\ out \in [Proc -> Owner]

ProcInit ==
  /\ windows \in BOOLEAN
  /\ mode = [p \in Proc |-> "bridge"] /\ pc = [p \in Proc |-> "gone"]
  /\ ipc = NoProc /\ lockfile = NoProc /\ tokenFile = NoProc
  /\ server = [p \in Proc |-> "none"] /\ accepted = {}
  /\ eof = Proc /\ reading = {}
  /\ out = [p \in Proc |-> NoProc]
-----------------------------------------------------------------------------
(* Starting.                                                               *)

\* mode::parse_mode: echo mode wins over everything; else the last argument
\* decides, and a positional one, which Firefox passes, means bootstrap mode.
ParseMode(args) ==
  CASE "--echo" \in ToSet(args) -> "echo"
    [] args = <<>> \/ args[Len(args)] = "--mode=bridge" -> "bridge"
    [] OTHER -> "bootstrap"

\* What named the process that used the slot names an ended one.
Retire(p, x) == IF x = p THEN Old ELSE x

\* A process starts; env is what bridge mode reads from the environment
\* (BRP_WS_ADDR, BRP_STANDALONE).  The processes closed lose their stdin.
Launch(p, args, env, closed) ==
  LET m == IF ParseMode(args) = "bridge" THEN env ELSE ParseMode(args)
  IN /\ Is(p, "gone") /\ p # ipc
     /\ mode' = [mode EXCEPT ![p] = m]
     /\ Goto(p, CASE m = "echo" -> "echo" [] m = "bootstrap" -> "config" [] OTHER -> "ipc")
     /\ eof' = (eof \cup closed) \ {p}
     /\ lockfile' = Retire(p, lockfile) /\ tokenFile' = Retire(p, tokenFile)
     /\ out' = [q \in Proc |-> IF q = p THEN NoProc ELSE Retire(p, out[q])]
     /\ UNCHANGED <<windows, ipc, sockets, reading>>

\* BridgeConfig::load generates a token and overwrites the token file, or
\* warns.  Bootstrap mode does so before it has any lock.
LoadConfig(p) ==
  /\ Is(p, "config")
  /\ tokenFile' \in {p, tokenFile}
  /\ Goto(p, CASE mode[p] = "bootstrap" -> "ipc" [] mode[p] = "random" -> "port" [] OTHER -> "lock")
  /\ UNCHANGED <<windows, mode, locks, sockets, stdio>>

\* The socket or pipe lock is free.
AcquireIpc(p) ==
  /\ Is(p, "ipc") /\ ipc = NoProc /\ ipc' = p
  /\ Goto(p, IF mode[p] = "bootstrap" THEN "port" ELSE "config")
  /\ UNCHANGED <<windows, mode, lockfile, tokenFile, sockets, stdio>>

\* It is held.  Bridge mode goes on without it; bootstrap mode returns on Unix
\* and looks for the running bridge on Windows.
IpcHeld(p) ==
  /\ Is(p, "ipc") /\ ipc # NoProc
  /\ Goto(p, CASE mode[p] # "bootstrap" -> "config" [] windows -> "discover" [] OTHER -> "return")
  /\ UNCHANGED <<windows, mode, locks, tokenFile, sockets, stdio>>

\* A message on stdout gives the port and token of x; once the other end is
\* closed the write fails.
Write(p, x) == out' = IF p \in eof THEN out ELSE [out EXCEPT ![p] = x]

\* The discovery fallback forwards the lockfile's port and token if its pid
\* is alive, and exits either way.
Discover(p) ==
  /\ Is(p, "discover") /\ Goto(p, "return")
  /\ IF Alive(lockfile) THEN Write(p, lockfile) ELSE UNCHANGED out
  /\ UNCHANGED <<windows, mode, locks, tokenFile, sockets, eof, reading>>

\* Bootstrap and random-port mode bind before they take the lockfile.
BindPort(p) ==
  /\ Is(p, "port")
  /\ Goto(p, "lock") /\ server' = [server EXCEPT ![p] = "listening"]
  /\ UNCHANGED <<windows, mode, locks, tokenFile, accepted, stdio>>

BindPortFails(p) ==
  /\ Is(p, "port") /\ Goto(p, "return")
  /\ UNCHANGED <<windows, mode, locks, tokenFile, sockets, stdio>>

\* lockfile::acquire refuses while the pid in the lockfile is alive.  The
\* fixed-port server is only spawned after it.
AcquireLockfile(p) ==
  /\ Is(p, "lock")
  /\ IF Alive(lockfile)
     THEN Goto(p, "return") /\ UNCHANGED <<lockfile, server, reading>>
     ELSE /\ lockfile' = p
          /\ IF mode[p] \in Fixed
             THEN /\ Goto(p, "serve") /\ server' = [server EXCEPT ![p] = "starting"]
                  /\ reading' = IF mode[p] = "bridge" THEN reading \cup {p} ELSE reading
             ELSE Goto(p, "send") /\ UNCHANGED <<server, reading>>
  /\ UNCHANGED <<windows, mode, ipc, tokenFile, accepted, eof, out>>

\* run_ws_server binds the fixed port in its own task: a failure is logged
\* and the process goes on without a server.
BindFixed(p) ==
  /\ server[p] = "starting"
  /\ LET taken == \E q \in Proc : mode[q] \in Fixed /\ server[q] = "listening"
     IN server' = [server EXCEPT ![p] = IF taken THEN "failed" ELSE "listening"]
  /\ UNCHANGED <<windows, mode, pc, locks, tokenFile, accepted, stdio>>

\* Bootstrap mode gives up if its port and token cannot be written.
SendToken(p) ==
  /\ Is(p, "send") /\ mode[p] = "bootstrap" /\ Write(p, p)
  /\ IF p \in eof THEN Goto(p, "return") /\ lockfile' = NoProc
                  ELSE Goto(p, "wait") /\ UNCHANGED lockfile
  /\ UNCHANGED <<windows, mode, ipc, tokenFile, sockets, eof, reading>>

\* Bridge mode on a random port goes on.
SendPort(p) ==
  /\ Is(p, "send") /\ mode[p] = "random" /\ Write(p, p)
  /\ Goto(p, "serve") /\ reading' = reading \cup {p}
  /\ UNCHANGED <<windows, mode, locks, tokenFile, sockets, eof>>
-----------------------------------------------------------------------------
(* Serving and ending.                                                     *)

\* The accept loop reports the first TCP connection, whoever makes it.
Accept(p) ==
  /\ server[p] = "listening" /\ mode[p] = "bootstrap" /\ p \notin accepted
  /\ accepted' = accepted \cup {p}
  /\ UNCHANGED <<windows, mode, pc, locks, tokenFile, server, stdio>>

\* ws_connected_rx: from now on a thread reads stdin.
Connected(p) ==
  /\ Is(p, "wait") /\ p \in accepted
  /\ Goto(p, "keepalive") /\ reading' = reading \cup {p}
  /\ UNCHANGED <<windows, mode, locks, tokenFile, sockets, eof, out>>

\* Mutant of Leave: a way out that does not release the lockfile.
LeaveKeepsLockfile(p) ==
  /\ Goto(p, "return")
  /\ UNCHANGED <<windows, mode, locks, tokenFile, sockets, eof, out>>

\* lockfile::release and return.
Leave(p) ==
  /\ lockfile' = NoProc /\ Goto(p, "return")
  /\ UNCHANGED <<windows, mode, ipc, tokenFile, sockets, eof, out>>

\* Nobody has connected in 30 s.  The end of stdin is not noticed here.
WaitTimesOut(p) ==
  /\ Is(p, "wait") /\ p \notin accepted
  /\ Leave(p) /\ UNCHANGED reading

\* read_native_message returns None at the end of stdin, and an error for what
\* is no message.
StdinOver(p) == p \in reading \cap eof

\* Mutant of StdinEnds: the keepalive does not wait for stdin.
StdinEndsServing(p) ==
  /\ Is(p, "serve") /\ StdinOver(p)
  /\ Leave(p) /\ reading' = reading \ {p}

\* Stdin ends and its reader with it: the bootstrap keepalive or the request
\* loop is over.
StdinEnds(p) ==
  /\ pc[p] \in {"keepalive", "serve"} /\ StdinOver(p)
  /\ Leave(p) /\ reading' = reading \ {p}

\* Ctrl+C where it is waited for: in bootstrap and in standalone mode.
Interrupt(p) ==
  /\ pc[p] \in {"wait", "keepalive"} \/ (Is(p, "serve") /\ mode[p] = "standalone")
  /\ Leave(p) /\ UNCHANGED reading

\* An exit request on stdin closes the session, which ends the request loop.
ExitRequest(p) ==
  /\ Is(p, "serve") /\ p \in reading
  /\ Leave(p) /\ UNCHANGED reading

\* The function returns and drops its socket or pipe lock ...
Return(p) ==
  /\ Is(p, "return") /\ Goto(p, "shutdown")
  /\ ipc' = IF ipc = p THEN NoProc ELSE ipc
  /\ UNCHANGED <<windows, mode, lockfile, tokenFile, sockets, stdio>>

\* ... then the runtime is shut down: the server task goes, but a thread that
\* reads stdin keeps the process until its read returns.
ShutDown(p) ==
  /\ Is(p, "shutdown")
  /\ Goto(p, IF p \in reading THEN "lingering" ELSE "gone")
  /\ server' = [server EXCEPT ![p] = "none"] /\ accepted' = accepted \ {p}
  /\ eof' = IF p \in reading THEN eof ELSE eof \cup {p}
  /\ UNCHANGED <<windows, mode, locks, tokenFile, reading, out>>

\* The read returns; in echo mode that is all there is.
Finish(p) ==
  /\ pc[p] \in {"lingering", "echo"} /\ p \in eof
  /\ Goto(p, "gone") /\ reading' = reading \ {p}
  /\ UNCHANGED <<windows, mode, locks, tokenFile, sockets, eof, out>>

\* The process is killed; bridge mode has no handler for Ctrl+C, and Firefox
\* kills a native application that outlives its port.  Its files stay.
Kill(p) ==
  /\ Alive(p) /\ Goto(p, "gone")
  /\ ipc' = IF ipc = p THEN NoProc ELSE ipc
  /\ server' = [server EXCEPT ![p] = "none"]
  /\ accepted' = accepted \ {p} /\ reading' = reading \ {p} /\ eof' = eof \cup {p}
  /\ UNCHANGED <<windows, mode, lockfile, tokenFile, out>>

\* The other end closes stdin and stdout.
CloseStdin(p) ==
  /\ eof' = eof \cup {p}
  /\ UNCHANGED <<windows, mode, pc, locks, tokenFile, sockets, reading, out>>

\* What a process does by itself, but for its 30 s timeout.
ProcStep(p) ==
  \/ LoadConfig(p) \/ AcquireIpc(p) \/ IpcHeld(p) \/ Discover(p) \/ BindPort(p) \/ AcquireLockfile(p)
  \/ BindFixed(p) \/ SendToken(p) \/ SendPort(p) \/ Connected(p) \/ StdinEnds(p)
  \/ Return(p) \/ ShutDown(p) \/ Finish(p)
-----------------------------------------------------------------------------
\* Discovery by the lockfile (the adapter, a bootstrap process on Windows)
\* finds an open port behind it: binding comes before the lockfile and its
\* release before the end of the server.  Not so on the fixed port, which is
\* bound afterwards and may be taken.
PortBehindLockfile ==
  Alive(lockfile) /\ mode[lockfile] \notin Fixed => server[lockfile] = "listening"
=============================================================================
