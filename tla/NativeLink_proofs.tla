-------------------------- MODULE NativeLink_proofs --------------------------
(***************************************************************************)
(* Theorems of NativeLink and of the processes it is composed with, for    *)
(* any slots and any number of faults: first what every bridge process     *)
(* keeps up, whoever starts and kills it; then the extension's chain of    *)
(* attempts, sockets and timers; then whose stdin it holds open.           *)
(***************************************************************************)
EXTENDS NativeLink, TLAPS

Serving == {"send", "wait", "keepalive", "serve"}

\* A process that still runs is named by the lockfile only while it serves.
LockfileServes == lockfile \in Proc => pc[lockfile] \in Serving \cup {"gone"}

\* Modes with a port of their own have it bound before they take the lockfile.
PortBound == \A p \in Proc :
  mode[p] \notin Fixed /\ pc[p] \in Serving \cup {"lock"} => server[p] = "listening"

EchoOnly == \A p \in Proc : mode[p] = "echo" => pc[p] \in {"echo", "gone"}

ProcInv == ProcTypeOK /\ LockfileServes /\ PortBound /\ EchoOnly

\* What processes do without the extension: nobody comes to life, and none of
\* those alive loses its stdin.
Quiet == eof \subseteq eof' /\ \A q \in Proc : Alive(q)' => Alive(q) /\ (q \in eof' => q \in eof)

ProcAct(p) == ProcStep(p) \/ WaitTimesOut(p) \/ BindPortFails(p) \/ Kill(p) \/ Interrupt(p)
              \/ ExitRequest(p) \/ Accept(p)
-----------------------------------------------------------------------------

\* The types of the processes.
LEMMA ProcTypes ==
  ASSUME ProcInv, NEW p \in Proc, ProcAct(p)
  PROVE  ProcTypeOK'
<1> USE BridgeProcessAssumption DEF ProcInv, ProcTypeOK, Goto, Is, Alive, locks, sockets, stdio, Owner, Stages, Servers
<1>1. CASE LoadConfig(p)
  BY <1>1 DEF LoadConfig
<1>2. CASE AcquireIpc(p)
  BY <1>2 DEF AcquireIpc
<1>3. CASE IpcHeld(p)
  BY <1>3 DEF IpcHeld
<1>4. CASE Discover(p)
  BY <1>4 DEF Discover, Write
<1>5. CASE BindPort(p)
  BY <1>5 DEF BindPort
<1>6. CASE AcquireLockfile(p)
  BY <1>6 DEF AcquireLockfile
<1>7. CASE BindFixed(p)
  BY <1>7 DEF BindFixed
<1>8. CASE SendToken(p)
  BY <1>8 DEF SendToken, Write
<1>9. CASE SendPort(p)
  BY <1>9 DEF SendPort, Write
<1>10. CASE Connected(p)
  BY <1>10 DEF Connected
<1>11. CASE StdinEnds(p)
  BY <1>11 DEF StdinEnds, Leave
<1>12. CASE Return(p)
  BY <1>12 DEF Return
<1>13. CASE ShutDown(p)
  BY <1>13 DEF ShutDown
<1>14. CASE Finish(p)
  BY <1>14 DEF Finish
<1>15. CASE WaitTimesOut(p)
  BY <1>15 DEF WaitTimesOut, Leave
<1>16. CASE BindPortFails(p)
  BY <1>16 DEF BindPortFails
<1>17. CASE Kill(p)
  BY <1>17 DEF Kill
<1>18. CASE Interrupt(p)
  BY <1>18 DEF Interrupt, Leave
<1>19. CASE ExitRequest(p)
  BY <1>19 DEF ExitRequest, Leave
<1>20. CASE Accept(p)
  BY <1>20 DEF Accept
<1>21. QED
  BY <1>1, <1>2, <1>3, <1>4, <1>5, <1>6, <1>7, <1>8, <1>9, <1>10, <1>11, <1>12, <1>13, <1>14, <1>15, <1>16, <1>17, <1>18, <1>19, <1>20
  DEF ProcAct, ProcStep

\* Ports, lockfile and modes.
LEMMA ProcPorts ==
  ASSUME ProcInv, NEW p \in Proc, ProcAct(p)
  PROVE  LockfileServes' /\ PortBound' /\ EchoOnly'
<1> USE BridgeProcessAssumption DEF ProcInv, ProcTypeOK, Goto, Is, Alive, locks, sockets, stdio, Modes, Fixed, Serving, LockfileServes, PortBound, EchoOnly
<1>1. CASE LoadConfig(p)
  BY <1>1 DEF LoadConfig
<1>2. CASE AcquireIpc(p)
  BY <1>2 DEF AcquireIpc
<1>3. CASE IpcHeld(p)
  BY <1>3 DEF IpcHeld
<1>4. CASE Discover(p)
  BY <1>4 DEF Discover, Write
<1>5. CASE BindPort(p)
  BY <1>5 DEF BindPort
<1>6. CASE AcquireLockfile(p)
  BY <1>6 DEF AcquireLockfile
<1>7. CASE BindFixed(p)
  BY <1>7 DEF BindFixed
<1>8. CASE SendToken(p)
  BY <1>8 DEF SendToken, Write
<1>9. CASE SendPort(p)
  BY <1>9 DEF SendPort, Write
<1>10. CASE Connected(p)
  BY <1>10 DEF Connected
<1>11. CASE StdinEnds(p)
  BY <1>11 DEF StdinEnds, Leave
<1>12. CASE Return(p)
  BY <1>12 DEF Return
<1>13. CASE ShutDown(p)
  BY <1>13 DEF ShutDown
<1>14. CASE Finish(p)
  BY <1>14 DEF Finish
<1>15. CASE WaitTimesOut(p)
  BY <1>15 DEF WaitTimesOut, Leave
<1>16. CASE BindPortFails(p)
  BY <1>16 DEF BindPortFails
<1>17. CASE Kill(p)
  BY <1>17 DEF Kill
<1>18. CASE Interrupt(p)
  BY <1>18 DEF Interrupt, Leave
<1>19. CASE ExitRequest(p)
  BY <1>19 DEF ExitRequest, Leave
<1>20. CASE Accept(p)
  BY <1>20 DEF Accept
<1>21. QED
  BY <1>1, <1>2, <1>3, <1>4, <1>5, <1>6, <1>7, <1>8, <1>9, <1>10, <1>11, <1>12, <1>13, <1>14, <1>15, <1>16, <1>17, <1>18, <1>19, <1>20
  DEF ProcAct, ProcStep

\* Life and stdin.
LEMMA ProcQuiet ==
  ASSUME ProcInv, NEW p \in Proc, ProcAct(p)
  PROVE  Quiet
<1> USE BridgeProcessAssumption DEF ProcInv, ProcTypeOK, Goto, Is, Alive, locks, sockets, stdio, Quiet
<1>1. CASE LoadConfig(p)
  BY <1>1 DEF LoadConfig
<1>2. CASE AcquireIpc(p)
  BY <1>2 DEF AcquireIpc
<1>3. CASE IpcHeld(p)
  BY <1>3 DEF IpcHeld
<1>4. CASE Discover(p)
  BY <1>4 DEF Discover, Write
<1>5. CASE BindPort(p)
  BY <1>5 DEF BindPort
<1>6. CASE AcquireLockfile(p)
  BY <1>6 DEF AcquireLockfile
<1>7. CASE BindFixed(p)
  BY <1>7 DEF BindFixed
<1>8. CASE SendToken(p)
  BY <1>8 DEF SendToken, Write
<1>9. CASE SendPort(p)
  BY <1>9 DEF SendPort, Write
<1>10. CASE Connected(p)
  BY <1>10 DEF Connected
<1>11. CASE StdinEnds(p)
  BY <1>11 DEF StdinEnds, Leave
<1>12. CASE Return(p)
  BY <1>12 DEF Return
<1>13. CASE ShutDown(p)
  BY <1>13 DEF ShutDown
<1>14. CASE Finish(p)
  BY <1>14 DEF Finish
<1>15. CASE WaitTimesOut(p)
  BY <1>15 DEF WaitTimesOut, Leave
<1>16. CASE BindPortFails(p)
  BY <1>16 DEF BindPortFails
<1>17. CASE Kill(p)
  BY <1>17 DEF Kill
<1>18. CASE Interrupt(p)
  BY <1>18 DEF Interrupt, Leave
<1>19. CASE ExitRequest(p)
  BY <1>19 DEF ExitRequest, Leave
<1>20. CASE Accept(p)
  BY <1>20 DEF Accept
<1>21. QED
  BY <1>1, <1>2, <1>3, <1>4, <1>5, <1>6, <1>7, <1>8, <1>9, <1>10, <1>11, <1>12, <1>13, <1>14, <1>15, <1>16, <1>17, <1>18, <1>19, <1>20
  DEF ProcAct, ProcStep

LEMMA ProcSteps ==
  ASSUME ProcInv, NEW p \in Proc, ProcAct(p)
  PROVE  ProcInv' /\ Quiet
BY ProcTypes, ProcPorts, ProcQuiet DEF ProcInv

\* A process is started, with a mode of parse_mode or of the environment.
LEMMA Launches ==
  ASSUME ProcInv, NEW p \in Proc, NEW args, NEW env \in Fixed \cup {"random"},
         NEW closed \in SUBSET Proc, Launch(p, args, env, closed)
  PROVE  /\ ProcInv' /\ eof' = (eof \cup closed) \ {p}
         /\ \A q \in Proc : q # p /\ Alive(q)' => Alive(q)
<1> DEFINE m == IF ParseMode(args) = "bridge" THEN env ELSE ParseMode(args)
           stage == CASE m = "echo" -> "echo" [] m = "bootstrap" -> "config" [] OTHER -> "ipc"
<1>1. m \in Modes
  BY DEF ParseMode, Modes, Fixed
<1>2. /\ Is(p, "gone") /\ mode' = [mode EXCEPT ![p] = m] /\ pc' = [pc EXCEPT ![p] = stage]
      /\ eof' = (eof \cup closed) \ {p}
      /\ lockfile' = Retire(p, lockfile) /\ tokenFile' = Retire(p, tokenFile)
      /\ out' = [q \in Proc |-> IF q = p THEN NoProc ELSE Retire(p, out[q])]
      /\ UNCHANGED <<windows, ipc, sockets, reading>>
  BY DEF Launch, Goto
<1>3. stage \in {"echo", "config", "ipc"} /\ (m = "echo" => stage = "echo")
  OBVIOUS
<1> HIDE DEF m, stage
<1>4. ProcTypeOK'
  BY <1>1, <1>2, <1>3 DEF ProcInv, ProcTypeOK, Retire, Owner, sockets, Stages
<1>5. LockfileServes' /\ PortBound' /\ EchoOnly'
  BY <1>2, <1>3, BridgeProcessAssumption
  DEF ProcInv, ProcTypeOK, LockfileServes, PortBound, EchoOnly, Retire, Owner, Serving, Fixed, sockets
<1>6. \A q \in Proc : q # p /\ Alive(q)' => Alive(q)
  BY <1>2 DEF ProcInv, ProcTypeOK, Alive
<1>7. QED
  BY <1>2, <1>4, <1>5, <1>6 DEF ProcInv

\* Stdins are closed, connections accepted: the processes go on.
LEMMA Closes ==
  ASSUME ProcInv, eof' \in SUBSET Proc, accepted' \in SUBSET Proc,
         UNCHANGED <<windows, mode, pc, locks, tokenFile, server, reading, out>>
  PROVE  ProcInv' /\ \A q : Alive(q)' <=> Alive(q)
BY DEF ProcInv, ProcTypeOK, LockfileServes, PortBound, EchoOnly, Alive, locks
-----------------------------------------------------------------------------
SockType == [st : {"free", "connecting"} \cup Opened, native : BOOLEAN, setup : BOOLEAN, peer : Owner]
Busy(s) == sock[s].st # "free"

\* There is one socket at most: with handlers, or that of a running attempt.
Sockets ==
  /\ \A s \in Sock : /\ sock[s].setup => Busy(s)
                     /\ Busy(s) /\ ~sock[s].setup => sock[s].st = "connecting" /\ call = "open"
  /\ \A s, t \in Sock : Busy(s) /\ Busy(t) => s = t

\* One thing goes on: a connect(), a socket with handlers, or the timer.
Chain ==
  /\ \A s \in Sock : sock[s].setup <=> s = ws
  /\ call # "none" => ~reconnect /\ ws = NoSock
  /\ reconnect => ws = NoSock
  /\ call = "none" /\ ~reconnect => ws # NoSock

\* The active port is that of the attempt that got a token; a new attempt has
\* given the old one up.
Attempt ==
  /\ call \in {"token", "store"} => activePort = NoProc
  /\ call = "store" => attempt # NoProc
  /\ call = "open" \/ (\E s \in Sock : sock[s].setup /\ sock[s].native) => activePort # NoProc

\* Of the ports the extension still needs none has been closed but by its timer.
ClosedByTimer == \A p \in Native :
  /\ p = activePort \/ (p = attempt /\ call \in {"token", "store"})
  /\ Alive(p) /\ p \in eof
  => p \notin timers

LinkTypeOK ==
  /\ call \in {"none", "start", "token", "store", "open"}
  /\ attempt \in Native \cup {NoProc} /\ target \in Owner
  /\ activePort \in Native \cup {NoProc} /\ timers \in SUBSET (Native \cup {NoProc})
  /\ sock \in [Sock -> SockType]
  /\ ws \in Sock \cup {NoSock} /\ reconnect \in BOOLEAN
  /\ stored \in Owner /\ faults \in 0..MaxFaults

LinkInv == LinkTypeOK /\ Sockets /\ Chain /\ Attempt
PortInv == PortsOwned /\ ClosedByTimer
IInv == ProcInv /\ LinkInv /\ PortInv

LEMMA InitInv == Init => IInv
<1> SUFFICES ASSUME Init PROVE IInv
  OBVIOUS
<1>1. ProcTypeOK
  <2>1. mode \in [Proc -> Modes] /\ pc \in [Proc -> Stages] /\ server \in [Proc -> Servers]
    BY DEF Init, ProcInit, Modes, Stages, Servers, Fixed
  <2>2. out \in [Proc -> Owner]
    BY DEF Init, ProcInit, Owner
  <2>3. QED
    BY <2>1, <2>2 DEF Init, ProcInit, ProcTypeOK, Owner
<1>2. ProcInv
  BY <1>1, BridgeProcessAssumption
  DEF Init, ProcInit, ProcInv, LockfileServes, PortBound, EchoOnly, Serving, Fixed
<1>3. Free \in SockType
  BY DEF Free, SockType, Owner
<1>4. LinkTypeOK
  <2>1. sock \in [Sock -> SockType]
    BY <1>3 DEF Init
  <2>2. faults \in 0..MaxFaults
    BY NativeLinkAssumption DEF Init
  <2>3. QED
    BY <2>1, <2>2 DEF Init, LinkTypeOK, Owner
<1>5. Sockets /\ Chain /\ Attempt
  BY NativeLinkAssumption DEF Init, Free, Sockets, Busy, Chain, Attempt
<1>6. PortInv
  BY NativeLinkAssumption DEF Init, ProcInit, PortInv, PortsOwned, ClosedByTimer, Alive
<1>7. QED
  BY <1>2, <1>4, <1>5, <1>6 DEF IInv, LinkInv

LEMMA FaultTypes ==
  ASSUME faults \in 0..MaxFaults, Fault \/ (\E c \in BOOLEAN : FaultIf(c)) \/ UNCHANGED faults
  PROVE  faults' \in 0..MaxFaults
BY NativeLinkAssumption DEF Fault, FaultIf

\* Before an attempt has its socket there is none.
LEMMA AllFree ==
  ASSUME IInv, call \in {"start", "token", "store"}
  PROVE  /\ \A s \in Sock : sock[s].st = "free" /\ ~sock[s].setup
         /\ ws = NoSock /\ ~reconnect
BY NativeLinkAssumption DEF IInv, LinkInv, Sockets, Busy, Chain

LEMMA NewIsFree ==
  ASSUME NEW socks, \E s \in Sock : socks[s].st = "free"
  PROVE  NewSocket(socks) \in Sock /\ socks[NewSocket(socks)].st = "free"
BY DEF NewSocket

\* The fallback: one socket, with handlers, that no process belongs to.
LEMMA Falls ==
  ASSUME IInv, NEW socks \in [Sock -> SockType], FallBack(socks), ~reconnect,
         \A s \in Sock : socks[s].st = "free" /\ ~socks[s].setup,
         activePort' \in Native \cup {NoProc}, timers' \in SUBSET (Native \cup {NoProc}),
         faults' \in 0..MaxFaults
  PROVE  LinkInv' /\ call' = "none" /\ attempt' = NoProc
<1> DEFINE s == NewSocket(socks)
           f == [Free EXCEPT !.st = "connecting", !.setup = TRUE]
<1>1. s \in Sock
  BY NewIsFree, NativeLinkAssumption
<1>2. f \in SockType /\ f.setup /\ ~f.native /\ f.st # "free"
  BY DEF Free, SockType, Owner
<1>3. /\ call' = "none" /\ attempt' = NoProc /\ target' = NoProc
      /\ sock' = [socks EXCEPT ![s] = f] /\ ws' = s /\ UNCHANGED <<reconnect, stored>>
  BY DEF FallBack
<1> HIDE DEF s, f
<1>4. \A t \in Sock : sock'[t] = IF t = s THEN f ELSE socks[t]
  BY <1>3
<1>5. sock' \in [Sock -> SockType]
  BY <1>1, <1>2, <1>3
<1>6. LinkTypeOK'
  BY <1>1, <1>3, <1>5 DEF IInv, LinkInv, LinkTypeOK, Owner
<1>7. Sockets' /\ Chain' /\ Attempt'
  BY <1>1, <1>2, <1>3, <1>4, NativeLinkAssumption
  DEF Sockets, Busy, Chain, Attempt
<1>8. QED
  BY <1>3, <1>6, <1>7 DEF LinkInv

\* The processes go on without the extension.
LEMMA QuietStep ==
  ASSUME IInv, ProcInv', Quiet, UNCHANGED <<conn, ports, link, stored>>, faults' \in 0..MaxFaults
  PROVE  IInv'
<1> USE DEF conn, ports, link
<1>1. LinkInv'
  BY DEF IInv, LinkInv, LinkTypeOK, Sockets, Busy, Chain, Attempt
<1>2. PortInv'
  BY NativeLinkAssumption DEF IInv, PortInv, PortsOwned, ClosedByTimer, Quiet
<1>3. QED
  BY <1>1, <1>2 DEF IInv

\* A manual process loses its client.
LEMMA ManualCloses ==
  ASSUME IInv, NEW p \in Manual, CloseStdin(p), UNCHANGED linkVars
  PROVE  IInv'
<1> USE DEF linkVars, conn, ports, link
<1>1. ProcInv' /\ \A q : Alive(q)' <=> Alive(q)
  BY Closes DEF IInv, ProcInv, ProcTypeOK, CloseStdin, sockets, Manual
<1>2. LinkInv'
  BY DEF IInv, LinkInv, LinkTypeOK, Sockets, Busy, Chain, Attempt
<1>3. PortInv'
  BY <1>1, NativeLinkAssumption
  DEF IInv, PortInv, PortsOwned, ClosedByTimer, CloseStdin, Manual
<1>4. QED
  BY <1>1, <1>2, <1>3 DEF IInv
-----------------------------------------------------------------------------
\* A process is started through native messaging: the one whose stdin is open.
LEMMA StartBridgeStep ==
  ASSUME IInv, StartBridge
  PROVE  IInv'
<1>1. PICK p \in Native :
        /\ ~Alive(p) /\ p \notin timers
        /\ Launch(p, <<"manifest", "extension">>, "bridge", ActivePorts)
        /\ call = "start" /\ call' = "token" /\ attempt' = p /\ target' = NoProc
        /\ activePort' = NoProc /\ timers' = timers \cup {p}
        /\ sock' = RetirePeers(p, sock) /\ stored' = Retire(p, stored)
        /\ UNCHANGED <<ws, reconnect, faults>>
  BY DEF StartBridge
<1>2. p \in Proc /\ ActivePorts \in SUBSET Proc
  BY NativeLinkAssumption DEF IInv, LinkInv, LinkTypeOK, ActivePorts
<1>3. /\ ProcInv' /\ eof' = (eof \cup ActivePorts) \ {p}
      /\ \A q \in Proc : q # p /\ Alive(q)' => Alive(q)
  BY <1>1, <1>2, Launches DEF IInv, Fixed
<1>4. /\ sock' \in [Sock -> SockType]
      /\ \A s \in Sock : sock'[s].st = "free" /\ ~sock'[s].setup
  BY <1>1, AllFree DEF IInv, LinkInv, LinkTypeOK, RetirePeers, Retire, SockType, Owner
<1>5. LinkTypeOK'
  BY <1>1, <1>4 DEF IInv, LinkInv, LinkTypeOK, Retire, Owner
<1>6. Sockets' /\ Chain' /\ Attempt'
  BY <1>1, <1>4, AllFree, NativeLinkAssumption DEF Sockets, Busy, Chain, Attempt
<1>7. PortsOwned'
  BY <1>1, <1>3, NativeLinkAssumption
  DEF IInv, LinkInv, LinkTypeOK, PortInv, PortsOwned, ActivePorts
<1>8. ClosedByTimer'
  BY <1>1, <1>3, NativeLinkAssumption, BridgeProcessAssumption
  DEF ClosedByTimer
<1>9. QED
  BY <1>3, <1>5, <1>6, <1>7, <1>8 DEF IInv, LinkInv, PortInv

LEMMA StartNothingStep ==
  ASSUME IInv, StartNothing
  PROVE  IInv'
<1> USE DEF StartNothing, link
<1>1. ProcInv' /\ \A q : Alive(q)' <=> Alive(q)
  BY Closes, NativeLinkAssumption
  DEF IInv, ProcInv, ProcTypeOK, LinkInv, LinkTypeOK, ActivePorts, sockets
<1>2. faults' \in 0..MaxFaults
  BY FaultTypes DEF IInv, LinkInv, LinkTypeOK
<1>3. LinkTypeOK'
  BY <1>2 DEF IInv, LinkInv, LinkTypeOK, Owner
<1>4. Sockets' /\ Chain' /\ Attempt'
  BY AllFree, NativeLinkAssumption DEF Sockets, Busy, Chain, Attempt
<1>5. PortsOwned' /\ ClosedByTimer'
  BY <1>1, NativeLinkAssumption, BridgeProcessAssumption
  DEF IInv, LinkInv, LinkTypeOK, PortInv, PortsOwned, ClosedByTimer, ActivePorts
<1>6. QED
  BY <1>1, <1>3, <1>4, <1>5 DEF IInv, LinkInv, PortInv

LEMMA StartFailsStep ==
  ASSUME IInv, StartFails
  PROVE  IInv'
<1>1. /\ call = "start" /\ Fault /\ eof' = eof \cup ActivePorts /\ activePort' = NoProc /\ FallBack(sock)
      /\ UNCHANGED <<windows, mode, pc, locks, tokenFile, sockets, reading, out, timers>>
  BY DEF StartFails
<1>2. ProcInv' /\ \A q : Alive(q)' <=> Alive(q)
  BY <1>1, Closes, NativeLinkAssumption
  DEF IInv, ProcInv, ProcTypeOK, LinkInv, LinkTypeOK, ActivePorts, sockets
<1>3. LinkInv' /\ call' = "none" /\ attempt' = NoProc
  BY <1>1, AllFree, FaultTypes, Falls DEF IInv, LinkInv, LinkTypeOK
<1>4. PortInv'
  BY <1>1, <1>2, <1>3, NativeLinkAssumption, BridgeProcessAssumption
  DEF IInv, PortInv, PortsOwned, ClosedByTimer, ActivePorts
<1>5. QED
  BY <1>2, <1>3, <1>4 DEF IInv

\* Steps that leave the processes alone.
LEMMA ProcSame ==
  ASSUME ProcInv, UNCHANGED procVars
  PROVE  ProcInv' /\ (\A q : Alive(q)' <=> Alive(q)) /\ eof' = eof
BY Closes DEF procVars, sockets, stdio, ProcInv, ProcTypeOK

LEMMA ReadTokenStep ==
  ASSUME IInv, ReadToken
  PROVE  IInv'
<1> USE DEF ReadToken, ports, link
<1>1. ProcInv' /\ (\A q : Alive(q)' <=> Alive(q)) /\ eof' = eof
  BY ProcSame DEF IInv
<1>2. LinkTypeOK'
  BY NativeLinkAssumption DEF IInv, ProcInv, ProcTypeOK, LinkInv, LinkTypeOK
<1>3. Sockets' /\ Chain' /\ Attempt'
  BY DEF IInv, LinkInv, Sockets, Busy, Chain, Attempt
<1>4. PortInv'
  BY <1>1 DEF IInv, PortInv, PortsOwned, ClosedByTimer
<1>5. QED
  BY <1>1, <1>2, <1>3, <1>4 DEF IInv, LinkInv

\* An attempt's timer closes its port, which nobody else needs then.
LEMMA TimerStep ==
  ASSUME IInv, NEW p \in Native \cup {NoProc}, TimerFires(p)
  PROVE  IInv'
<1>1. /\ p \in timers /\ timers' = timers \ {p} /\ UNCHANGED activePort
      /\ IF p = NoProc THEN UNCHANGED procVars ELSE CloseStdin(p)
      /\ IF call = "token" /\ attempt = p THEN FallBack(sock)
                                          ELSE UNCHANGED <<conn, link, stored>>
  BY DEF TimerFires, TokenTimer
<1>2. /\ ProcInv' /\ (\A q : Alive(q)' <=> Alive(q))
      /\ eof' = IF p = NoProc THEN eof ELSE eof \cup {p}
  <2>1. CASE p = NoProc
    BY <1>1, <2>1, ProcSame DEF IInv
  <2>2. CASE p # NoProc
    BY <1>1, <2>2, Closes, NativeLinkAssumption
    DEF IInv, ProcInv, ProcTypeOK, CloseStdin, sockets
  <2>3. QED
    BY <2>1, <2>2
<1>3. faults' \in 0..MaxFaults
  <2>1. \E c \in BOOLEAN : FaultIf(c)
    <3> DEFINE c == \/ call # "none" /\ attempt = p /\ ~Speechless(p)
                    \/ activePort = p /\ \E s \in Sock : sock[s].st = "open"
    <3>1. c \in BOOLEAN /\ FaultIf(c)
      BY DEF TimerFires
    <3>2. QED
      BY <3>1
  <2>2. QED
    BY <2>1, FaultTypes DEF IInv, LinkInv, LinkTypeOK
<1>4. CASE call = "token" /\ attempt = p
  <2>1. LinkInv' /\ call' = "none" /\ attempt' = NoProc
    BY <1>1, <1>3, <1>4, AllFree, Falls DEF IInv, LinkInv, LinkTypeOK
  <2>2. PortsOwned'
    BY <1>1, <1>2, <1>4, <2>1, BridgeProcessAssumption, NativeLinkAssumption
    DEF IInv, PortInv, PortsOwned
  <2>3. ClosedByTimer'
    BY <1>1, <1>2, <2>1 DEF IInv, PortInv, ClosedByTimer
  <2>4. QED
    BY <1>2, <2>1, <2>2, <2>3 DEF IInv, PortInv
<1>5. CASE ~(call = "token" /\ attempt = p)
  <2>1. UNCHANGED <<call, attempt, target, activePort, sock, ws, reconnect, stored>>
    BY <1>1, <1>5 DEF conn, link
  <2>2. LinkInv'
    BY <1>1, <1>3, <2>1 DEF IInv, LinkInv, LinkTypeOK, Sockets, Busy, Chain, Attempt
  <2>3. PortInv'
    BY <1>1, <1>2, <2>1 DEF IInv, PortInv, PortsOwned, ClosedByTimer
  <2>4. QED
    BY <1>2, <2>2, <2>3 DEF IInv
<1>6. QED
  BY <1>4, <1>5

\* The attempt's port becomes the active one.
LEMMA StoreTokenStep ==
  ASSUME IInv, StoreToken
  PROVE  IInv'
<1> DEFINE s == NewSocket(sock)
           f == [st |-> "connecting", native |-> TRUE, setup |-> FALSE, peer |-> target]
<1>1. /\ call = "store" /\ call' = "open" /\ stored' \in {stored, target}
      /\ activePort' = attempt /\ sock' = [sock EXCEPT ![s] = f]
      /\ UNCHANGED <<procVars, attempt, target, timers, ws, reconnect>>
  BY DEF StoreToken
<1>2. faults' \in 0..MaxFaults
  BY FaultTypes DEF StoreToken, IInv, LinkInv, LinkTypeOK
<1>3. ProcInv' /\ (\A q : Alive(q)' <=> Alive(q)) /\ eof' = eof
  BY <1>1, ProcSame DEF IInv
<1>4. s \in Sock
  BY <1>1, AllFree, NewIsFree, NativeLinkAssumption
<1>5. f \in SockType /\ f.st = "connecting" /\ ~f.setup
  BY DEF IInv, LinkInv, LinkTypeOK, SockType
<1> HIDE DEF s, f
<1>6. \A t \in Sock : sock'[t] = IF t = s THEN f ELSE sock[t]
  BY <1>1 DEF IInv, LinkInv, LinkTypeOK
<1>7. LinkTypeOK'
  BY <1>1, <1>2, <1>4, <1>5 DEF IInv, LinkInv, LinkTypeOK
<1>8. Sockets' /\ Chain' /\ Attempt'
  BY <1>1, <1>4, <1>5, <1>6, AllFree, NativeLinkAssumption
  DEF IInv, LinkInv, Sockets, Busy, Chain, Attempt
<1>9. PortInv'
  BY <1>1, <1>3, BridgeProcessAssumption, NativeLinkAssumption
  DEF IInv, LinkInv, Attempt, PortInv, PortsOwned, ClosedByTimer
<1>10. QED
  BY <1>3, <1>7, <1>8, <1>9 DEF IInv, LinkInv

\* Being connected to changes nothing for a process that matters here.
LEMMA ReachesStep ==
  ASSUME ProcInv, NEW p, Reaches(p)
  PROVE  ProcInv' /\ (\A q : Alive(q)' <=> Alive(q)) /\ eof' = eof
BY Closes DEF Reaches, Listens, stdio, ProcInv, ProcTypeOK

LEMMA SocketOpensStep ==
  ASSUME IInv, NEW s \in Sock, SocketOpens(s)
  PROVE  IInv'
<1> USE DEF SocketOpens, ports
<1>1. ProcInv' /\ (\A q : Alive(q)' <=> Alive(q)) /\ eof' = eof
  BY ReachesStep DEF IInv
<1>2. /\ sock' \in [Sock -> SockType] /\ sock'[s].st = "open" /\ sock'[s].setup
      /\ \A t \in Sock : t # s => sock'[t] = sock[t]
  BY DEF IInv, LinkInv, LinkTypeOK, SockType, Opened
<1>3. LinkTypeOK'
  BY <1>2 DEF IInv, LinkInv, LinkTypeOK, Owner
<1>4. ~reconnect /\ \A t \in Sock : t # s => sock[t].st = "free" /\ ~sock[t].setup
  BY DEF IInv, LinkInv, Sockets, Busy, Chain
<1>5. Sockets' /\ Chain' /\ Attempt'
  BY <1>2, <1>4, NativeLinkAssumption DEF IInv, LinkInv, Sockets, Busy, Chain, Attempt
<1>6. PortInv'
  BY <1>1 DEF IInv, PortInv, PortsOwned, ClosedByTimer
<1>7. QED
  BY <1>1, <1>3, <1>5, <1>6 DEF IInv, LinkInv

LEMMA SocketFailsStep ==
  ASSUME IInv, NEW s \in Sock, SocketFails(s)
  PROVE  IInv'
<1> DEFINE socks == [sock EXCEPT ![s] = Free]
<1>1. /\ call = "open" /\ sock[s].st = "connecting" /\ ~sock[s].setup
      /\ eof' = eof \cup ActivePorts /\ activePort' = NoProc /\ FallBack(socks)
      /\ UNCHANGED <<windows, mode, pc, locks, tokenFile, sockets, reading, out, timers>>
  BY DEF SocketFails
<1>2. faults' \in 0..MaxFaults
  <2>1. Listens(sock[s].peer) \in BOOLEAN /\ FaultIf(Listens(sock[s].peer))
    BY DEF SocketFails, Listens
  <2>2. QED
    BY <2>1, FaultTypes DEF IInv, LinkInv, LinkTypeOK
<1>3. ProcInv' /\ \A q : Alive(q)' <=> Alive(q)
  BY <1>1, Closes, NativeLinkAssumption
  DEF IInv, ProcInv, ProcTypeOK, LinkInv, LinkTypeOK, ActivePorts, sockets
<1>4. ~reconnect /\ \A t \in Sock : t # s => sock[t].st = "free" /\ ~sock[t].setup
  BY <1>1 DEF IInv, LinkInv, Sockets, Busy, Chain
<1>5. socks \in [Sock -> SockType] /\ \A t \in Sock : socks[t].st = "free" /\ ~socks[t].setup
  BY <1>4 DEF IInv, LinkInv, LinkTypeOK, Free, SockType, Owner
<1> HIDE DEF socks
<1>6. LinkInv' /\ call' = "none" /\ attempt' = NoProc
  BY <1>1, <1>2, <1>4, <1>5, Falls DEF IInv, LinkInv, LinkTypeOK
<1>7. PortInv'
  BY <1>1, <1>3, <1>6, NativeLinkAssumption, BridgeProcessAssumption
  DEF IInv, PortInv, PortsOwned, ClosedByTimer, ActivePorts
<1>8. QED
  BY <1>3, <1>6, <1>7 DEF IInv
-----------------------------------------------------------------------------
\* A socket with handlers opens or is answered.
LEMMA SocketGoesOn ==
  ASSUME IInv, NEW s \in Sock, sock[s].setup, NEW st \in Opened, NEW peer \in Owner,
         sock' = [sock EXCEPT ![s].st = st, ![s].peer = peer],
         ProcInv', \A q : Alive(q)' <=> Alive(q), eof' = eof,
         UNCHANGED <<conn, ports, ws, reconnect, stored, faults>>
  PROVE  IInv'
<1> USE DEF conn, ports
<1>1. /\ sock' \in [Sock -> SockType] /\ sock'[s].st = st /\ st # "free" /\ sock'[s].setup
      /\ sock'[s].native = sock[s].native
      /\ \A t \in Sock : t # s => sock'[t] = sock[t]
  BY DEF IInv, LinkInv, LinkTypeOK, SockType, Opened
<1>2. LinkTypeOK'
  BY <1>1 DEF IInv, LinkInv, LinkTypeOK
<1>3. \A t \in Sock : t # s => sock[t].st = "free" /\ ~sock[t].setup
  BY DEF IInv, LinkInv, Sockets, Busy
<1>4. Sockets' /\ Chain' /\ Attempt'
  BY <1>1, <1>3 DEF IInv, LinkInv, Sockets, Busy, Chain, Attempt
<1>5. PortInv'
  BY DEF IInv, PortInv, PortsOwned, ClosedByTimer
<1>6. QED
  BY <1>2, <1>4, <1>5 DEF IInv, LinkInv

LEMMA ManualOpensStep ==
  ASSUME IInv, NEW s \in Sock, ManualOpens(s)
  PROVE  IInv'
<1>1. PICK p \in Proc : Reaches(p) /\ sock' = [sock EXCEPT ![s].st = "open", ![s].peer = p]
  BY DEF ManualOpens
<1>2. ProcInv' /\ (\A q : Alive(q)' <=> Alive(q)) /\ eof' = eof
  BY <1>1, ReachesStep DEF IInv
<1>3. "open" \in Opened /\ p \in Owner
  BY DEF Opened, Owner
<1>4. QED
  BY <1>1, <1>2, <1>3, SocketGoesOn DEF ManualOpens

LEMMA RegisterStep ==
  ASSUME IInv, NEW s \in Sock, Register(s)
  PROVE  IInv'
<1> DEFINE st == IF stored = sock[s].peer THEN "linked" ELSE "rejected"
<1>1. sock[s].setup
  BY DEF Register, IInv, LinkInv, Sockets, Busy
<1>2. st \in Opened /\ sock[s].peer \in Owner
  BY DEF Opened, IInv, LinkInv, LinkTypeOK, SockType
<1>3. sock' = [sock EXCEPT ![s].st = st, ![s].peer = sock[s].peer]
  BY DEF Register, IInv, LinkInv, LinkTypeOK, SockType
<1>4. ProcInv' /\ (\A q : Alive(q)' <=> Alive(q)) /\ eof' = eof
  BY ProcSame DEF Register, IInv
<1> HIDE DEF st
<1>5. QED
  BY <1>1, <1>2, <1>3, <1>4, SocketGoesOn DEF Register

\* The socket closes: nothing is left but the reconnection timer.
LEMMA CloseStep ==
  ASSUME IInv, NEW s \in Sock, SocketCloses(s) \/ ConnectionBreaks(s)
  PROVE  IInv'
<1>1. /\ sock[s].setup /\ eof' = eof \cup ActivePorts /\ activePort' = NoProc
      /\ sock' = [sock EXCEPT ![s] = Free] /\ ws' = NoSock /\ reconnect' = TRUE
      /\ UNCHANGED <<windows, mode, pc, locks, tokenFile, sockets, reading, out>>
      /\ UNCHANGED <<conn, timers, stored>> /\ (Fault \/ UNCHANGED faults)
  BY DEF SocketCloses, ConnectionBreaks, OnClose
<1>2. faults' \in 0..MaxFaults
  BY <1>1, FaultTypes DEF IInv, LinkInv, LinkTypeOK
<1>3. ProcInv' /\ \A q : Alive(q)' <=> Alive(q)
  BY <1>1, Closes, NativeLinkAssumption
  DEF IInv, ProcInv, ProcTypeOK, LinkInv, LinkTypeOK, ActivePorts, sockets
<1>4. s = ws /\ call = "none" /\ \A t \in Sock : t # s => sock[t].st = "free" /\ ~sock[t].setup
  BY <1>1, NativeLinkAssumption DEF IInv, LinkInv, Sockets, Busy, Chain
<1>5. sock' \in [Sock -> SockType] /\ \A t \in Sock : sock'[t].st = "free" /\ ~sock'[t].setup
  BY <1>1, <1>4 DEF IInv, LinkInv, LinkTypeOK, Free, SockType, Owner
<1>6. LinkTypeOK'
  BY <1>1, <1>2, <1>5 DEF IInv, LinkInv, LinkTypeOK, conn
<1>7. Sockets' /\ Chain' /\ Attempt'
  BY <1>1, <1>4, <1>5, NativeLinkAssumption DEF Sockets, Busy, Chain, Attempt, conn
<1>8. PortInv'
  BY <1>1, <1>3, <1>4, NativeLinkAssumption, BridgeProcessAssumption
  DEF IInv, PortInv, PortsOwned, ClosedByTimer, ActivePorts, conn
<1>9. QED
  BY <1>3, <1>6, <1>7, <1>8 DEF IInv, LinkInv

LEMMA ReconnectStep ==
  ASSUME IInv, Reconnect
  PROVE  IInv'
<1> USE DEF Reconnect, ports
<1>1. ProcInv' /\ (\A q : Alive(q)' <=> Alive(q)) /\ eof' = eof
  BY ProcSame DEF IInv
<1>2. call' = "start" /\ ws = NoSock
  BY DEF IInv, LinkInv, Chain
<1>3. LinkInv'
  BY <1>2 DEF IInv, LinkInv, LinkTypeOK, Sockets, Busy, Chain, Attempt
<1>4. PortInv'
  BY <1>1, <1>2 DEF IInv, PortInv, PortsOwned, ClosedByTimer
<1>5. QED
  BY <1>1, <1>3, <1>4 DEF IInv
-----------------------------------------------------------------------------
LEMMA StartManuallyStep ==
  ASSUME IInv, NEW p \in Manual, StartManually(p), Fault
  PROVE  IInv'
<1>1. PICK args \in {<<>>, <<"--mode=bootstrap", "--echo">>}, env \in Fixed \cup {"random"} :
        Launch(p, args, env, {})
  BY DEF StartManually
<1>2. p \in Proc /\ p \notin Native
  BY DEF Manual
<1>3. /\ ProcInv' /\ eof' = eof \ {p}
      /\ \A q \in Proc : q # p /\ Alive(q)' => Alive(q)
  <2>1. {} \in SUBSET Proc /\ eof \cup {} = eof
    OBVIOUS
  <2>2. ProcInv' /\ eof' = (eof \cup {}) \ {p} /\ \A q \in Proc : q # p /\ Alive(q)' => Alive(q)
    BY <1>1, <1>2, <2>1, Launches DEF IInv
  <2>3. QED
    BY <2>1, <2>2
<1>4. /\ target' = Retire(p, target) /\ stored' = Retire(p, stored) /\ sock' = RetirePeers(p, sock)
      /\ UNCHANGED <<call, attempt, activePort, timers, ws, reconnect>>
  BY DEF StartManually, ports
<1>5. /\ sock' \in [Sock -> SockType]
      /\ \A s \in Sock : /\ sock'[s].st = sock[s].st /\ sock'[s].setup = sock[s].setup
                         /\ sock'[s].native = sock[s].native
  BY <1>4 DEF IInv, LinkInv, LinkTypeOK, RetirePeers, Retire, SockType, Owner
<1>6. LinkTypeOK'
  BY <1>4, <1>5, FaultTypes DEF IInv, LinkInv, LinkTypeOK, Retire, Owner
<1>7. Sockets' /\ Chain' /\ Attempt'
  BY <1>4, <1>5 DEF IInv, LinkInv, Sockets, Busy, Chain, Attempt
<1>8. PortInv'
  BY <1>2, <1>3, <1>4, NativeLinkAssumption DEF IInv, PortInv, PortsOwned, ClosedByTimer
<1>9. QED
  BY <1>3, <1>6, <1>7, <1>8 DEF IInv, LinkInv

LEMMA ReloadStep ==
  ASSUME IInv, Reload, Fault
  PROVE  IInv'
<1> USE DEF Reload
<1>1. ProcInv' /\ \A q : Alive(q)' <=> Alive(q)
  BY Closes, NativeLinkAssumption DEF IInv, ProcInv, ProcTypeOK, sockets
<1>2. Free \in SockType /\ Free.st = "free" /\ ~Free.setup
  BY DEF Free, SockType, Owner
<1>3. LinkTypeOK'
  BY <1>2, FaultTypes DEF IInv, LinkInv, LinkTypeOK, Owner
<1>4. Sockets' /\ Chain' /\ Attempt'
  BY <1>2, NativeLinkAssumption DEF Sockets, Busy, Chain, Attempt
<1>5. PortInv'
  BY DEF PortInv, PortsOwned, ClosedByTimer
<1>6. QED
  BY <1>1, <1>3, <1>4, <1>5 DEF IInv, LinkInv

LEMMA ConfigureTokenStep ==
  ASSUME IInv, ConfigureToken, Fault
  PROVE  IInv'
<1> USE DEF ConfigureToken, conn, ports, link
<1>1. ProcInv' /\ (\A q : Alive(q)' <=> Alive(q)) /\ eof' = eof
  BY ProcSame DEF IInv
<1>2. LinkInv'
  BY FaultTypes
  DEF IInv, ProcInv, ProcTypeOK, LinkInv, LinkTypeOK, Sockets, Busy, Chain, Attempt
<1>3. PortInv'
  BY <1>1 DEF IInv, PortInv, PortsOwned, ClosedByTimer
<1>4. QED
  BY <1>1, <1>2, <1>3 DEF IInv

LEMMA EnvironmentStep ==
  ASSUME IInv, Environment
  PROVE  IInv'
<1> USE DEF linkVars
<1>1. CASE Fault /\ Reload
  BY <1>1, ReloadStep
<1>2. CASE Fault /\ ConfigureToken
  BY <1>2, ConfigureTokenStep
<1>3. ASSUME NEW p \in Manual, StartManually(p), Fault PROVE IInv'
  BY <1>3, StartManuallyStep
<1>4. ASSUME NEW p \in Proc, ProcFault(p), Fault PROVE IInv'
  <2>1. ProcAct(p) /\ faults' \in 0..MaxFaults
    BY <1>4, FaultTypes DEF ProcFault, ProcAct, IInv, LinkInv, LinkTypeOK
  <2>2. QED
    BY <1>4, <2>1, ProcSteps, QuietStep DEF ProcFault, IInv
<1>5. ASSUME NEW p \in Proc, Accept(p), UNCHANGED linkVars PROVE IInv'
  <2>1. ProcAct(p) /\ faults' \in 0..MaxFaults
    BY <1>5 DEF ProcAct, IInv, LinkInv, LinkTypeOK
  <2>2. QED
    BY <1>5, <2>1, ProcSteps, QuietStep DEF IInv
<1>6. ASSUME NEW p \in Proc, p \in Manual \ eof /\ CloseStdin(p), UNCHANGED linkVars PROVE IInv'
  BY <1>6, ManualCloses
<1>7. QED
  BY <1>1, <1>2, <1>3, <1>4, <1>5, <1>6 DEF Environment, Others

LEMMA ProcessStep ==
  ASSUME IInv, NEW p \in Proc, ProcessRuns(p) \/ WaitIsOver(p)
  PROVE  IInv'
<1>1. faults' \in 0..MaxFaults
  <2>1. CASE ProcessRuns(p)
    BY <2>1 DEF ProcessRuns, linkVars, IInv, LinkInv, LinkTypeOK
  <2>2. CASE WaitIsOver(p)
    <3>1. (call # "none" /\ attempt = p) \in BOOLEAN /\ FaultIf(call # "none" /\ attempt = p)
      BY <2>2 DEF WaitIsOver
    <3>2. QED
      BY <3>1, FaultTypes DEF IInv, LinkInv, LinkTypeOK
  <2>3. QED
    BY <2>1, <2>2
<1>2. ProcAct(p) /\ UNCHANGED <<conn, ports, link, stored>>
  BY DEF ProcAct, ProcessRuns, WaitIsOver, linkVars
<1>3. QED
  BY <1>1, <1>2, ProcSteps, QuietStep DEF IInv

LEMMA Invariance == Spec => []IInv
<1>1. IInv /\ [Next]_vars => IInv'
  <2> SUFFICES ASSUME IInv, [Next]_vars PROVE IInv'
    OBVIOUS
  <2>1. CASE UNCHANGED vars
    <3>1. ProcInv' /\ Quiet
      BY <2>1, ProcSame DEF vars, IInv, Quiet
    <3>2. QED
      BY <2>1, <3>1, QuietStep DEF vars, linkVars, IInv, LinkInv, LinkTypeOK
  <2>2. CASE Next
    BY <2>2, ProcessStep, TimerStep, SocketOpensStep, SocketFailsStep, ManualOpensStep, RegisterStep,
       CloseStep, StartBridgeStep, StartNothingStep, StartFailsStep, ReadTokenStep, StoreTokenStep,
       ReconnectStep, EnvironmentStep DEF Next
  <2>3. QED
    BY <2>1, <2>2
<1>2. QED
  BY InitInv, <1>1, PTL DEF Spec
-----------------------------------------------------------------------------
\* Every variable of the processes and of the extension's link has its type.
THEOREM TypeCorrect == Spec => []TypeOK
<1>1. IInv => TypeOK
  BY DEF IInv, ProcInv, LinkInv, LinkTypeOK, SockType, TypeOK
<1>2. QED
  BY Invariance, <1>1, PTL

\* Whatever fails and whenever: the extension neither gives up reconnecting
\* nor ever runs two attempts, or an attempt beside a socket.
THEOREM NeverTwoNeverNone == Spec => []OneChain
<1>1. IInv => OneChain
  <2> SUFFICES ASSUME IInv PROVE OneChain
    OBVIOUS
  <2>1. {s \in Sock : sock[s].setup} = {ws} \ {NoSock}
    BY NativeLinkAssumption DEF IInv, LinkInv, LinkTypeOK, Chain
  <2>2. (IF call = "none" THEN 0 ELSE 1) + (IF reconnect THEN 1 ELSE 0)
          + (IF ws = NoSock THEN 0 ELSE 1) = 1
    BY DEF IInv, LinkInv, LinkTypeOK, Chain
  <2>3. QED
    BY <2>1, <2>2 DEF OneChain
<1>2. QED
  BY Invariance, <1>1, PTL

\* No process started through native messaging is left with its stdin open and
\* nobody to close it.
THEOREM NoOrphanPort == Spec => []PortsOwned
<1>1. IInv => PortsOwned
  BY DEF IInv, PortInv
<1>2. QED
  BY Invariance, <1>1, PTL

\* The port of the socket in use is closed by nothing but the timer of the
\* attempt that opened it.
THEOREM ClosedByTimerOnly == Spec => []PortKeptUntilTimer
<1>1. IInv => PortKeptUntilTimer
  BY DEF IInv, LinkInv, LinkTypeOK, Attempt, PortInv, ClosedByTimer, PortKeptUntilTimer
<1>2. QED
  BY Invariance, <1>1, PTL

\* Who follows a lockfile to a port of its own finds that port open, whichever
\* processes start, end and are killed around it.
THEOREM DiscoveredPortIsOpen == Spec => []PortBehindLockfile
<1>1. IInv => PortBehindLockfile
  BY DEF IInv, ProcInv, LockfileServes, PortBound, PortBehindLockfile, Alive
<1>2. QED
  BY Invariance, <1>1, PTL
=============================================================================
