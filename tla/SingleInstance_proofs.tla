------------------------ MODULE SingleInstance_proofs ------------------------
(***************************************************************************)
(* Theorems of SingleInstance, for any processes, files and faults: as     *)
(* long as no two processes start at the same time and none misreads the   *)
(* lockfile, at most one serves and the lockfile is its own; a process     *)
(* that starts alone is refused only by failures that end a start; and     *)
(* what is left behind is left by who failed to write or remove it.        *)
(***************************************************************************)
EXTENDS SingleInstance, TLAPS

\* Only one process is starting.
OneStarts == \A p, q \in Proc : pc[p] \in Starting /\ pc[q] \in Starting => p = q

\* A process that serves has its own pid in the lockfile.
OwnLock == \A p \in Proc : pc[p] \in Serving => lock # NoInode /\ data[lock] = p

\* A process that has decided to write the lockfile decided so because nobody
\* serves, and one that is about to decide has seen who does.
Decided == \A p, q \in Proc : pc[q] \in Serving =>
  /\ pc[p] \notin {"clean", "open", "write", "rename"}
  /\ pc[p] = "kill" => seen[p] = q

\* The temporary file belongs to the process that writes it, and is never
\* the lockfile as well.
OwnTmp ==
  /\ tmp # NoInode => tmp # lock
  /\ \A p \in Proc : pc[p] = "write" => tmp # NoInode /\ fd[p] = tmp
  /\ \A p \in Proc : pc[p] = "rename" => tmp # NoInode /\ data[tmp] = p

Alone == OneStarts /\ OwnLock /\ Decided /\ OwnTmp

\* A process that removes its socket's path has closed its listener.
Closed == \A p \in Proc : pc[p] = "unlink" => p \notin listening

IInv == TypeOK /\ Closed /\ (~raced /\ ~Misread => Alone)
-----------------------------------------------------------------------------
\* Nothing runs at first, and there are no files.
LEMMA InitInv == Init => IInv
<1> SUFFICES ASSUME Init PROVE IInv
  OBVIOUS
<1> USE DEF Init, Stages, Starting, Serving
<1>1. TypeOK
  <2>1. listening \in SUBSET {p \in Proc : Alive(p)}
    OBVIOUS
  <2>2. mode \in [Proc -> {"bootstrap", "bridge"}] /\ pc \in [Proc -> Stages]
    OBVIOUS
  <2>3. QED
    BY <2>1, <2>2 DEF TypeOK
<1>2. Closed /\ Alone
  BY DEF Closed, Alone, OneStarts, OwnLock, Decided, OwnTmp
<1>3. QED
  BY <1>1, <1>2 DEF IInv

\* A fault is remembered, and nothing else of the history changes.
LEMMA FaultStep ==
  ASSUME TypeOK, NEW p \in Proc, NEW what \in Faults, Fault(p, what)
  PROVE  /\ failed' \in SUBSET (Proc \X Faults)
         /\ failed \subseteq failed' /\ <<p, what>> \in failed'
         /\ raced' = raced /\ accompanied' = accompanied
BY DEF TypeOK, Fault

\* Nothing that has gone wrong is forgotten.
LEMMA FailedStep ==
  ASSUME TypeOK, [Next]_vars
  PROVE  failed' \in SUBSET (Proc \X Faults) /\ failed \subseteq failed'
<1>1. CASE UNCHANGED vars
  BY <1>1 DEF TypeOK, vars, history
<1>2. ASSUME NEW p \in Proc, ProcStep(p)
      PROVE  failed' \in SUBSET (Proc \X Faults) /\ failed \subseteq failed'
  <2>1. failed' = failed \/ \E what \in Faults : Fault(p, what)
    BY <1>2 DEF TypeOK, ProcStep, history, Fails, Faults,
      Start, BindSocket, ProbeSocket, UnlinkStale, RebindSocket, ListenSocket, BindPort,
      CheckLock, ReadLock, CheckPid, CleanLock, OpenTmp, WriteTmp, RenameTmp,
      Stop, ReleaseLock, DropListener, UnlinkSocket, Crash
  <2>2. QED
    BY <2>1, FaultStep DEF TypeOK
<1>3. QED
  BY <1>1, <1>2 DEF Next

\* Types, and that listeners belong to live processes.
LEMMA TypeStep ==
  ASSUME TypeOK, Closed, [Next]_vars
  PROVE  TypeOK' /\ Closed'
<1> USE SingleInstanceAssumption
    DEF TypeOK, Closed, Alive, Faults, Stages, Starting, Serving,
        At, Goto, SocketFails, Bound, Fails, socket, files, history
<1>0. failed' \in SUBSET (Proc \X Faults)
  BY FailedStep
<1>1. CASE UNCHANGED vars
  BY <1>0, <1>1 DEF vars
<1>2. ASSUME NEW p \in Proc, ProcStep(p)
      PROVE  TypeOK' /\ Closed'
  <2>0. \A what \in Faults : Fault(p, what) => raced' = raced /\ accompanied' = accompanied
    BY FaultStep
  <2>1. CASE Start(p)
    BY <1>0, <2>0, <2>1 DEF Start
  <2>2. CASE BindSocket(p)
    BY <1>0, <2>0, <2>2 DEF BindSocket
  <2>3. CASE ProbeSocket(p)
    BY <1>0, <2>0, <2>3 DEF ProbeSocket
  <2>4. CASE UnlinkStale(p)
    BY <1>0, <2>0, <2>4 DEF UnlinkStale
  <2>5. CASE RebindSocket(p)
    BY <1>0, <2>0, <2>5 DEF RebindSocket
  <2>6. CASE ListenSocket(p)
    BY <1>0, <2>0, <2>6 DEF ListenSocket
  <2>7. CASE CheckLock(p)
    BY <1>0, <2>0, <2>7 DEF CheckLock
  <2>8. CASE ReadLock(p)
    BY <1>0, <2>0, <2>8 DEF ReadLock
  <2>9. CASE CheckPid(p)
    BY <1>0, <2>0, <2>9 DEF CheckPid
  <2>10. CASE CleanLock(p)
    BY <1>0, <2>0, <2>10 DEF CleanLock
  <2>11. CASE OpenTmp(p)
    BY <1>0, <2>0, <2>11 DEF OpenTmp, Unused
  <2>12. CASE WriteTmp(p)
    BY <1>0, <2>0, <2>12 DEF WriteTmp
  <2>13. CASE RenameTmp(p)
    BY <1>0, <2>0, <2>13 DEF RenameTmp
  <2>14. CASE Stop(p)
    BY <1>0, <2>0, <2>14 DEF Stop
  <2>15. CASE ReleaseLock(p)
    BY <1>0, <2>0, <2>15 DEF ReleaseLock
  <2>16. CASE DropListener(p)
    BY <1>0, <2>0, <2>16 DEF DropListener
  <2>17. CASE UnlinkSocket(p)
    BY <1>0, <2>0, <2>17 DEF UnlinkSocket
  <2>18. CASE BindPort(p)
    BY <1>0, <2>0, <2>18 DEF BindPort
  <2>19. CASE Crash(p)
    BY <1>0, <2>0, <2>19 DEF Crash
  <2>20. QED
    BY <1>2, <2>1, <2>2, <2>3, <2>4, <2>5, <2>6, <2>7, <2>8, <2>9, <2>10, <2>11, <2>12,
       <2>13, <2>14, <2>15, <2>16, <2>17, <2>18, <2>19 DEF ProcStep
<1>3. QED
  BY <1>1, <1>2 DEF Next

\* A step that is not the race itself keeps the four facts.
LEMMA AloneStep ==
  ASSUME IInv, [Next]_vars, ~raced', ~Misread'
  PROVE  Alone'
<1> USE SingleInstanceAssumption
    DEF At, Goto, SocketFails, Bound, Fails, Fault, socket, files, history
<1>1. TypeOK /\ TypeOK'
  BY TypeStep DEF IInv
<1>2. CASE UNCHANGED vars
  BY <1>2 DEF IInv, vars, history, Misread, Alone, OneStarts, OwnLock, Decided, OwnTmp
<1>3. ASSUME NEW p \in Proc, ProcStep(p)
      PROVE  Alone'
  <2>0. ~raced /\ ~Misread /\ Alone
    <3>1. ~Misread
      BY FailedStep DEF IInv, Misread
    <3>2. ~raced
      BY <1>3 DEF IInv, TypeOK, ProcStep, Fails, Fault,
        Start, BindSocket, ProbeSocket, UnlinkStale, RebindSocket, ListenSocket, BindPort,
        CheckLock, ReadLock, CheckPid, CleanLock, OpenTmp, WriteTmp, RenameTmp,
        Stop, ReleaseLock, DropListener, UnlinkSocket, Crash
    <3>3. QED
      BY <3>1, <3>2 DEF IInv
  <2> USE DEF TypeOK, Stages, Starting, Serving, Alive,
              Alone, OneStarts, OwnLock, Decided, OwnTmp
  <2>1. CASE Start(p)
    <3>1. {q \in Proc : pc[q] \in Starting} = {}
      BY <2>1 DEF Start
    <3>2. QED
      BY <1>1, <2>0, <2>1, <3>1 DEF Start
  <2>2. CASE BindSocket(p)
    BY <1>1, <2>0, <2>2 DEF BindSocket
  <2>3. CASE ProbeSocket(p)
    BY <1>1, <2>0, <2>3 DEF ProbeSocket
  <2>4. CASE UnlinkStale(p)
    BY <1>1, <2>0, <2>4 DEF UnlinkStale
  <2>5. CASE RebindSocket(p)
    BY <1>1, <2>0, <2>5 DEF RebindSocket
  <2>6. CASE ListenSocket(p)
    BY <1>1, <2>0, <2>6 DEF ListenSocket
  <2>7. CASE CheckLock(p)
    <3>1. ~Fails(p)
      BY <1>1, <2>7, FaultStep DEF CheckLock, Misread, Fails, Faults
    <3>2. QED
      BY <1>1, <2>0, <2>7, <3>1 DEF CheckLock
  <2>8. CASE ReadLock(p)
    <3>1. ~Fails(p)
      BY <1>1, <2>8, FaultStep DEF ReadLock, Misread, Fails, Faults
    <3>2. QED
      BY <1>1, <2>0, <2>8, <3>1 DEF ReadLock
  <2>9. CASE CheckPid(p)
    BY <1>1, <2>0, <2>9 DEF CheckPid
  <2>10. CASE CleanLock(p)
    BY <1>1, <2>0, <2>10 DEF CleanLock
  <2>11. CASE OpenTmp(p)
    BY <1>1, <2>0, <2>11 DEF OpenTmp, Unused
  <2>12. CASE WriteTmp(p)
    BY <1>1, <2>0, <2>12 DEF WriteTmp
  <2>13. CASE RenameTmp(p)
    BY <1>1, <2>0, <2>13 DEF RenameTmp
  <2>14. CASE Stop(p)
    BY <1>1, <2>0, <2>14 DEF Stop
  <2>15. CASE ReleaseLock(p)
    BY <1>1, <2>0, <2>15 DEF ReleaseLock
  <2>16. CASE DropListener(p)
    BY <1>1, <2>0, <2>16 DEF DropListener
  <2>17. CASE UnlinkSocket(p)
    BY <1>1, <2>0, <2>17 DEF UnlinkSocket
  <2>18. CASE BindPort(p)
    BY <1>1, <2>0, <2>18 DEF BindPort
  <2>19. CASE Crash(p)
    BY <1>1, <2>0, <2>19 DEF Crash
  <2>20. QED
    BY <1>3, <2>1, <2>2, <2>3, <2>4, <2>5, <2>6, <2>7, <2>8, <2>9, <2>10, <2>11, <2>12,
       <2>13, <2>14, <2>15, <2>16, <2>17, <2>18, <2>19 DEF ProcStep
<1>4. QED
  BY <1>2, <1>3 DEF Next

\* The invariant is inductive.
LEMMA StepInv == IInv /\ [Next]_vars => IInv'
  BY TypeStep, AloneStep DEF IInv

\* It holds in every behaviour.
LEMMA Invariance == Spec => []IInv
  BY InitInv, StepInv, PTL DEF Spec

\* Type correctness; in particular only live processes listen.
THEOREM TypeCorrect == Spec => []TypeOK
<1>1. IInv => TypeOK
  BY DEF IInv
<1>2. QED
  BY Invariance, <1>1, PTL

\* Discovery reads the pid and port of the process that serves: no release or
\* cleanup of another process takes its lockfile away (lockfile.rs).
THEOREM DiscoveryFindsTheBridge == Spec => []DiscoveryFindsBridge
<1>1. IInv => DiscoveryFindsBridge
  BY DEF IInv, Alone, OwnLock, DiscoveryFindsBridge
<1>2. QED
  BY Invariance, <1>1, PTL

\* Single-instance enforcement: without two processes starting at the same
\* time at most one of them serves, since the lockfile names just one.
THEOREM OneServes == Spec => []AtMostOneUnlessRaced
<1>1. IInv => AtMostOneUnlessRaced
  BY DEF IInv, Alone, OwnLock, AtMostOneUnlessRaced, AtMostOneBridge
<1>2. QED
  BY Invariance, <1>1, PTL
-----------------------------------------------------------------------------
(* A process that starts alone.                                            *)

BeforeListening == {"new", "bind", "probe", "unlink_stale", "rebind", "listen"}
BeforeWriting == BeforeListening \cup {"port", "check", "read", "kill", "clean", "open", "write"}

\* A process has no listener and no lockfile before it gets there.
NotYet == \A p \in Proc :
  /\ pc[p] \in BeforeListening => p \notin listening
  /\ pc[p] \in BeforeWriting => \A i \in Inode : data[i] # p

\* While a process that is not accompanied starts it is alone, and what it
\* has found stays as it was.
Solo == \A p \in Proc : pc[p] \in Starting /\ p \notin accompanied =>
  /\ \A q \in Proc : q # p => ~Alive(q)
  /\ pc[p] \in {"probe", "unlink_stale"} => sock # NoProc
  /\ pc[p] = "rebind" => sock = NoProc
  /\ pc[p] = "kill" => seen[p] \in Proc \ {p}
  /\ pc[p] \in {"write", "rename"} => tmp # NoInode

SoloInv == NotYet /\ Solo /\ LoneStartServes

\* What will be removed, by a process that serves, one that is about to
\* rename its temporary file, and one with a listener, or has its culprit.
LockCleaner == lock # NoInode =>
  (\E p \in Proc : pc[p] \in Serving) \/ Culprit({"killed", "release"})
TmpCleaner == tmp # NoInode =>
  (\E p \in Proc : pc[p] \in {"write", "rename"}) \/ Culprit({"killed", "write", "rename"})
SockCleaner == sock # NoProc =>
  (\E p \in Proc : pc[p] \in {"listen", "unlink"} \/ p \in listening)
    \/ Culprit({"killed", "listen", "unlink"})
Cleaner == LockCleaner /\ TmpCleaner /\ SockCleaner

LEMMA SoloInit == Init => SoloInv /\ Cleaner
  BY SingleInstanceAssumption
  DEF Init, SoloInv, NotYet, Solo, LoneStartServes, Starting, BeforeWriting, BeforeListening,
      Cleaner, LockCleaner, TmpCleaner, SockCleaner

\* What a process has not done yet it has not done.
LEMMA NotYetStep ==
  ASSUME TypeOK, NotYet, [Next]_vars
  PROVE  NotYet'
<1> USE SingleInstanceAssumption
    DEF TypeOK, NotYet, BeforeWriting, BeforeListening, Stages, Starting, Serving,
        At, Goto, SocketFails, Bound, Fails, Fault, socket, files, history
<1>1. CASE UNCHANGED vars
  BY <1>1 DEF vars
<1>2. ASSUME NEW p \in Proc, ProcStep(p)
      PROVE  NotYet'
  <2>1. CASE Start(p)
    BY <2>1 DEF Start
  <2>2. CASE BindSocket(p)
    BY <2>2 DEF BindSocket
  <2>3. CASE ProbeSocket(p)
    BY <2>3 DEF ProbeSocket
  <2>4. CASE UnlinkStale(p)
    BY <2>4 DEF UnlinkStale
  <2>5. CASE RebindSocket(p)
    BY <2>5 DEF RebindSocket
  <2>6. CASE ListenSocket(p)
    BY <2>6 DEF ListenSocket
  <2>7. CASE CheckLock(p)
    BY <2>7 DEF CheckLock
  <2>8. CASE ReadLock(p)
    BY <2>8 DEF ReadLock
  <2>9. CASE CheckPid(p)
    BY <2>9 DEF CheckPid
  <2>10. CASE CleanLock(p)
    BY <2>10 DEF CleanLock
  <2>11. CASE OpenTmp(p)
    BY <2>11 DEF OpenTmp, Unused
  <2>12. CASE WriteTmp(p)
    BY <2>12 DEF WriteTmp
  <2>13. CASE RenameTmp(p)
    BY <2>13 DEF RenameTmp
  <2>14. CASE Stop(p)
    BY <2>14 DEF Stop
  <2>15. CASE ReleaseLock(p)
    BY <2>15 DEF ReleaseLock
  <2>16. CASE DropListener(p)
    BY <2>16 DEF DropListener
  <2>17. CASE UnlinkSocket(p)
    BY <2>17 DEF UnlinkSocket
  <2>18. CASE BindPort(p)
    BY <2>18 DEF BindPort
  <2>19. CASE Crash(p)
    BY <2>19 DEF Crash
  <2>20. QED
    BY <1>2, <2>1, <2>2, <2>3, <2>4, <2>5, <2>6, <2>7, <2>8, <2>9, <2>10, <2>11, <2>12,
       <2>13, <2>14, <2>15, <2>16, <2>17, <2>18, <2>19 DEF ProcStep
<1>3. QED
  BY <1>1, <1>2 DEF Next

\* What fails at no stage that ends a start refuses nothing to a process
\* that has started alone.
LEMMA SoloStep ==
  ASSUME TypeOK, SoloInv, [Next]_vars
  PROVE  Solo' /\ LoneStartServes'
<1> USE SingleInstanceAssumption
    DEF TypeOK, SoloInv, NotYet, Solo, LoneStartServes, Ending, BeforeWriting, BeforeListening,
        Alive, Stages, Starting, Serving,
        At, Goto, SocketFails, Bound, Fails, Fault, socket, files, history
<1>1. CASE UNCHANGED vars
  BY <1>1 DEF vars
<1>2. ASSUME NEW p \in Proc, ProcStep(p)
      PROVE  Solo' /\ LoneStartServes'
  <2>1. CASE Start(p)
    BY <2>1 DEF Start
  <2>2. CASE BindSocket(p)
    BY <2>2 DEF BindSocket
  <2>3. CASE ProbeSocket(p)
    BY <2>3 DEF ProbeSocket
  <2>4. CASE UnlinkStale(p)
    BY <2>4 DEF UnlinkStale
  <2>5. CASE RebindSocket(p)
    BY <2>5 DEF RebindSocket
  <2>6. CASE ListenSocket(p)
    BY <2>6 DEF ListenSocket
  <2>7. CASE CheckLock(p)
    BY <2>7 DEF CheckLock
  <2>8. CASE ReadLock(p)
    BY <2>8 DEF ReadLock
  <2>9. CASE CheckPid(p)
    BY <2>9 DEF CheckPid
  <2>10. CASE CleanLock(p)
    BY <2>10 DEF CleanLock
  <2>11. CASE OpenTmp(p)
    <3>1. CASE Fails(p) /\ Goto(p, "refused") /\ UNCHANGED <<tmp, data, fd>>
      BY <2>11, <3>1 DEF OpenTmp
    <3>2. CASE \E i \in Inode : tmp' = i /\ pc' = [pc EXCEPT ![p] = "write"]
                              /\ failed' = failed /\ accompanied' = accompanied
      BY <2>11, <3>2 DEF OpenTmp
    <3>3. QED
      BY <2>11, <3>1, <3>2 DEF OpenTmp, Unused
  <2>12. CASE WriteTmp(p)
    BY <2>12 DEF WriteTmp
  <2>13. CASE RenameTmp(p)
    BY <2>13 DEF RenameTmp
  <2>14. CASE Stop(p)
    BY <2>14 DEF Stop
  <2>15. CASE ReleaseLock(p)
    BY <2>15 DEF ReleaseLock
  <2>16. CASE DropListener(p)
    BY <2>16 DEF DropListener
  <2>17. CASE UnlinkSocket(p)
    BY <2>17 DEF UnlinkSocket
  <2>18. CASE BindPort(p)
    BY <2>18 DEF BindPort
  <2>19. CASE Crash(p)
    BY <2>19 DEF Crash
  <2>20. QED
    BY <1>2, <2>1, <2>2, <2>3, <2>4, <2>5, <2>6, <2>7, <2>8, <2>9, <2>10, <2>11, <2>12,
       <2>13, <2>14, <2>15, <2>16, <2>17, <2>18, <2>19 DEF ProcStep
<1>3. QED
  BY <1>1, <1>2 DEF Next

\* Every file keeps its cleaner or its culprit.
LEMMA CleanerStep ==
  ASSUME TypeOK, Cleaner, [Next]_vars
  PROVE  Cleaner'
<1> USE SingleInstanceAssumption
    DEF TypeOK, Cleaner, LockCleaner, TmpCleaner, SockCleaner,
        Stages, Starting, Serving, At, Goto, SocketFails, Bound, socket, files, history
<1>0. \A S : Culprit(S) => Culprit(S)'
  BY FailedStep DEF Culprit
<1>1. CASE UNCHANGED vars
  BY <1>0, <1>1 DEF vars
<1>2. ASSUME NEW p \in Proc, ProcStep(p)
      PROVE  Cleaner'
  <2>0. ASSUME NEW what \in Faults, Fault(p, what), NEW S, what \in S
        PROVE  Culprit(S)'
    BY <2>0, FaultStep DEF Culprit
  <2>a. /\ Fails(p) /\ pc[p] = "release" => Culprit({"killed", "release"})'
        /\ Fails(p) /\ pc[p] \in {"write", "rename"} => Culprit({"killed", "write", "rename"})'
        /\ Fails(p) /\ pc[p] \in {"listen", "unlink"} => Culprit({"killed", "listen", "unlink"})'
    BY <2>0 DEF Fails, Faults
  <2>1. CASE Start(p)
    BY <1>0, <2>a, <2>1 DEF Start
  <2>2. CASE BindSocket(p)
    BY <1>0, <2>a, <2>2 DEF BindSocket
  <2>3. CASE ProbeSocket(p)
    BY <1>0, <2>a, <2>3 DEF ProbeSocket
  <2>4. CASE UnlinkStale(p)
    BY <1>0, <2>a, <2>4 DEF UnlinkStale
  <2>5. CASE RebindSocket(p)
    BY <1>0, <2>a, <2>5 DEF RebindSocket
  <2>6. CASE ListenSocket(p)
    BY <1>0, <2>a, <2>6 DEF ListenSocket
  <2>7. CASE CheckLock(p)
    BY <1>0, <2>a, <2>7 DEF CheckLock
  <2>8. CASE ReadLock(p)
    BY <1>0, <2>a, <2>8 DEF ReadLock
  <2>9. CASE CheckPid(p)
    BY <1>0, <2>a, <2>9 DEF CheckPid
  <2>10. CASE CleanLock(p)
    BY <1>0, <2>a, <2>10 DEF CleanLock
  <2>11. CASE OpenTmp(p)
    BY <1>0, <2>a, <2>11 DEF OpenTmp, Unused
  <2>12. CASE WriteTmp(p)
    BY <1>0, <2>a, <2>12 DEF WriteTmp
  <2>13. CASE RenameTmp(p)
    BY <1>0, <2>a, <2>13 DEF RenameTmp
  <2>14. CASE Stop(p)
    BY <1>0, <2>a, <2>14 DEF Stop
  <2>15. CASE ReleaseLock(p)
    BY <1>0, <2>a, <2>15 DEF ReleaseLock
  <2>16. CASE DropListener(p)
    BY <1>0, <2>a, <2>16 DEF DropListener
  <2>17. CASE UnlinkSocket(p)
    BY <1>0, <2>a, <2>17 DEF UnlinkSocket
  <2>18. CASE BindPort(p)
    BY <1>0, <2>a, <2>18 DEF BindPort
  <2>19. CASE Crash(p)
    <3>1. /\ Culprit({"killed", "release"})' /\ Culprit({"killed", "write", "rename"})'
          /\ Culprit({"killed", "listen", "unlink"})'
      BY <2>0, <2>19 DEF Crash, Faults
    <3>2. QED
      BY <2>19, <3>1 DEF Crash
  <2>20. QED
    BY <1>2, <2>1, <2>2, <2>3, <2>4, <2>5, <2>6, <2>7, <2>8, <2>9, <2>10, <2>11, <2>12,
       <2>13, <2>14, <2>15, <2>16, <2>17, <2>18, <2>19 DEF ProcStep
<1>3. QED
  BY <1>1, <1>2 DEF Next

LEMMA MoreInvariance == Spec => []SoloInv /\ []Cleaner
<1>1. TypeOK /\ SoloInv /\ [Next]_vars => SoloInv'
  BY NotYetStep, SoloStep DEF SoloInv
<1>2. QED
  BY SoloInit, <1>1, CleanerStep, TypeCorrect, PTL DEF Spec

\* A process that starts alone is refused only by a failing call of its own
\* that it cannot do without or by a pid in use again; what others have left,
\* whatever it is and whoever left it, and any other failure do not stop it.
THEOREM LoneStartIsServed == Spec => []LoneStartServes
<1>1. SoloInv => LoneStartServes
  BY DEF SoloInv
<1>2. QED
  BY MoreInvariance, <1>1, PTL

\* When all processes have ended, a lockfile, temporary file or socket is left
\* only if a process was killed or failed in writing or removing it, whoever
\* removed or renamed whose.
THEOREM LeftoversHaveCulprits == Spec => []LeftoversExplained
<1>1. TypeOK /\ Cleaner => LeftoversExplained
  <2> SUFFICES ASSUME TypeOK, Cleaner, \A p \in Proc : ~Alive(p)
               PROVE  /\ lock # NoInode => Culprit({"killed", "release"})
                      /\ tmp # NoInode => Culprit({"killed", "write", "rename"})
                      /\ sock # NoProc => Culprit({"killed", "listen", "unlink"})
    BY DEF LeftoversExplained
  <2>1. \A p \in Proc : pc[p] \in {"new", "gone"} /\ p \notin listening
    BY DEF TypeOK, Alive
  <2>2. QED
    BY <2>1 DEF Cleaner, LockCleaner, TmpCleaner, SockCleaner, Serving
<1>2. QED
  BY MoreInvariance, TypeCorrect, <1>1, PTL
=============================================================================
