--------------------------- MODULE Adapter_proofs ---------------------------
(***************************************************************************)
(* Theorems of Adapter, for any calls, connections and children.  A link   *)
(* that gets the name _ws_conn or _bridge_proc is in the hands of the call *)
(* that gave it until that call creates a reader or ends; and a reader     *)
(* that comes to what has the name by then waits on it, or meets the task  *)
(* that does.                                                              *)
(***************************************************************************)
EXTENDS Adapter, TLAPS

\* There has been a child where one is waited for, and calls that register or
\* wait for a first message have a link to do so on.
Named ==
  /\ proc = None => reading \cap Child = {} /\ \A c \in Call : ~AwaitsFirst(c)
  /\ \A c \in Call : Is(c, "register") \/ AwaitsFirst(c) => call[c].link \in Link

\* The two halves of LinkIsRead.
WsIsRead == ws # None =>
  \/ ws \in reading \cup abandoned
  \/ \E c \in Call : <<c, "ws">> \in created \/ (Is(c, "register") /\ call[c].link = ws)
ProcIsRead == ProcRuns =>
  \/ proc \in reading \cup crossed \cup abandoned
  \/ \E c \in Call : <<c, "stdout">> \in created \/ (AwaitsFirst(c) /\ call[c].link = proc)

IInv == TypeOK /\ Named /\ WsIsRead /\ ProcIsRead
-----------------------------------------------------------------------------
LEMMA InitInv == Init => IInv
<1> SUFFICES ASSUME Init PROVE IInv
  OBVIOUS
<1>1. call \in [Call -> [st : Stages, link : Link \cup {None}]]
  BY DEF Init, Idle, Stages, Link
<1>2. TypeOK
  BY <1>1 DEF Init, TypeOK
<1>3. Named /\ WsIsRead /\ ProcIsRead
  BY DEF Init, Named, WsIsRead, ProcIsRead, ProcRuns, Is, AwaitsFirst, Idle
<1>4. QED
  BY <1>2, <1>3 DEF IInv

\* When a reader of children moves, no other reader does, and the living child
\* it may have come to is waited for by it or by whom it has met.
Moved ==
  /\ reading' \subseteq reading \cup Child /\ reading \ Child \subseteq reading'
  /\ crossed \subseteq crossed' /\ crossed' \subseteq Child
  /\ payload' \subseteq (reading' \cap Child) \ crossed'
  /\ proc = None => reading' \cap Child = {}
  /\ ProcRuns => \/ proc \in reading' \cup crossed'
                 \/ \E c \in Call : AwaitsFirst(c) /\ call[c].link = proc

LEMMA AwaitMoves ==
  ASSUME TypeOK, NEW rs \in SUBSET reading, reading \ Child \subseteq rs, proc # None,
         NEW h \in Child \cup {None}, Await(proc, rs, h)
  PROVE  Moved
<1> USE AdapterAssumption DEF TypeOK, Link
<1>1. CASE Taken(proc, rs, Call)
  BY <1>1 DEF Await, Taken, Moved
<1>2. CASE ~Taken(proc, rs, Call)
  BY <1>2 DEF Await, Moved, Taken
<1>3. QED
  BY <1>1, <1>2

LEMMA Moves ==
  ASSUME IInv
  PROVE  /\ \A p \in Child : StdoutHeader(p) \/ StdoutPayload(p) => Moved
         /\ NextMessage(reading) => Moved
<1>1. ASSUME NEW rs \in SUBSET reading, reading \ Child \subseteq rs, NextMessage(rs)
      PROVE  Moved
  <2>1. CASE ProcRuns /\ Await(proc, rs, None)
    <3>1. proc # None
      BY <2>1, AdapterAssumption DEF IInv, TypeOK, ProcRuns, Link
    <3>2. QED
      BY <1>1, <2>1, <3>1, AwaitMoves DEF IInv
  <2>2. CASE ~ProcRuns /\ reading' = rs /\ payload' = payload \cap rs /\ UNCHANGED crossed
    BY <1>1, <2>2 DEF Moved, IInv, TypeOK, Named
  <2>3. QED
    BY <1>1, <2>1, <2>2 DEF NextMessage
<1>2. ASSUME NEW p \in Child, NEW rs \in Others(p)
      PROVE  rs \in SUBSET reading /\ reading \ Child \subseteq rs
  BY <1>2 DEF Others
<1>3. ASSUME NEW p \in Child, StdoutHeader(p) PROVE Moved
  <2>1. PICK rs \in Others(p) : Await(proc, rs, p)
    BY <1>3 DEF StdoutHeader
  <2>2. proc # None
    BY <1>3 DEF StdoutHeader, IInv, Named
  <2>3. QED
    BY <1>2, <2>1, <2>2, AwaitMoves DEF IInv
<1>4. ASSUME NEW p \in Child, StdoutPayload(p) PROVE Moved
  BY <1>1, <1>2, <1>4 DEF StdoutPayload
<1>5. QED
  BY <1>1, <1>3, <1>4

\* The types.
LEMMA TypeStep ==
  ASSUME IInv, [Next]_vars
  PROVE  TypeOK'
<1> USE AdapterAssumption DEF IInv, TypeOK, links, stdout, Is, Goto, Fail, Idle, Link, Waiting, Stages, Named, AwaitsFirst
<1>1. CASE UNCHANGED vars
  BY <1>1 DEF vars, AwaitsFirst
<1>2. ASSUME NEW c \in Call, EnsureBridge(c) PROVE TypeOK'
  BY <1>2 DEF EnsureBridge
<1>3. ASSUME NEW c \in Call, TryDiscoverBridge(c) PROVE TypeOK'
  BY <1>3 DEF TryDiscoverBridge
<1>4. ASSUME NEW c \in Call, ConnectWs(c) PROVE TypeOK'
  BY <1>4 DEF ConnectWs, Take, InUse
<1>5. ASSUME NEW c \in Call, ConnectFails(c) PROVE TypeOK'
  BY <1>5 DEF ConnectFails
<1>6. ASSUME NEW c \in Call, Registered(c) PROVE TypeOK'
  <2>1. call' \in [Call -> [st : Stages, link : Link \cup {None}]]
    BY <1>6 DEF Registered
  <2>3. created' \subseteq Call \X {"ws", "stdout"}
    BY <1>6 DEF Registered
  <2>2. QED
    BY <1>6, <2>1, <2>3 DEF Registered
<1>7. ASSUME NEW c \in Call, RegistrationFails(c) PROVE TypeOK'
  <2>1. call' \in [Call -> [st : Stages, link : Link \cup {None}]]
    BY <1>7 DEF RegistrationFails, Abandon
  <2>3. abandoned' \subseteq Link
    BY <1>7 DEF RegistrationFails, Abandon
  <2>2. QED
    BY <1>7, <2>1, <2>3 DEF RegistrationFails, Abandon
<1>8. ASSUME NEW c \in Call, SpawnBridge(c) PROVE TypeOK'
  <2>1. call' \in [Call -> [st : Stages, link : Link \cup {None}]]
    BY <1>8 DEF SpawnBridge, Take, InUse
  <2>2. QED
    BY <1>8, <2>1 DEF SpawnBridge, Take, InUse
<1>9. ASSUME NEW c \in Call, SpawnFails(c) PROVE TypeOK'
  BY <1>9 DEF SpawnFails
<1>10. ASSUME NEW c \in Call, FirstHeader(c) PROVE TypeOK'
  <2>1. call' \in [Call -> [st : Stages, link : Link \cup {None}]]
    BY <1>10 DEF FirstHeader, Abandon, FirstRead, Taken, AwaitsFirst
  <2>3. created' \subseteq Call \X {"ws", "stdout"}
    BY <1>10 DEF FirstHeader, Abandon, FirstRead, Taken, AwaitsFirst
  <2>4. abandoned' \subseteq Link
    BY <1>10 DEF FirstHeader, Abandon, FirstRead, Taken, AwaitsFirst
  <2>2. QED
    BY <1>10, <2>1, <2>3, <2>4 DEF FirstHeader, Abandon, FirstRead, Taken, AwaitsFirst
<1>11. ASSUME NEW c \in Call, NoHeader(c) PROVE TypeOK'
  BY <1>11 DEF NoHeader, FirstRead, AwaitsFirst
<1>12. ASSUME NEW c \in Call, FirstPayload(c) PROVE TypeOK'
  BY <1>12 DEF FirstPayload, FirstRead, AwaitsFirst
<1>13. ASSUME NEW c \in Call, FirstFails(c) PROVE TypeOK'
  BY <1>13 DEF FirstFails, Abandon, AwaitsFirst
<1>14. ASSUME NEW c \in Call, EnsureInitialized(c) PROVE TypeOK'
  BY <1>14 DEF EnsureInitialized, BrpRequest
<1>15. ASSUME NEW c \in Call, Initialized(c) PROVE TypeOK'
  <2>1. CASE Fail(c) /\ UNCHANGED initialized
    BY <1>15, <2>1 DEF Initialized
  <2>2. CASE initialized' = TRUE /\ BrpRequest(c, "request")
    BY <1>15, <2>2 DEF Initialized, BrpRequest
  <2>3. QED
    BY <1>15, <2>1, <2>2 DEF Initialized
<1>16. ASSUME NEW c \in Call, TimeOut(c) PROVE TypeOK'
  BY <1>16 DEF TimeOut
<1>17. ASSUME NEW c \in Call, Cancel(c) PROVE TypeOK'
  <2>1. call' \in [Call -> [st : Stages, link : Link \cup {None}]]
    BY <1>17 DEF Cancel, Abandon, AwaitsFirst
  <2>3. abandoned' \subseteq Link
    BY <1>17 DEF Cancel, Abandon, AwaitsFirst
  <2>2. QED
    BY <1>17, <2>1, <2>3 DEF Cancel, Abandon, AwaitsFirst
<1>18. ASSUME NEW c \in Call, Reply(c) PROVE TypeOK'
  <2>1. CASE call[c].link \in Conn \cap reading /\ UNCHANGED stdout
    BY <1>18, <2>1 DEF Reply, stdout
  <2>2. CASE StdoutPayload(call[c].link)
    <3>1. call[c].link \in Child /\ Moved
      BY <2>2, Moves DEF StdoutPayload
    <3>2. QED
      BY <1>18, <3>1 DEF Reply, Moved
  <2>3. QED
    BY <1>18, <2>1, <2>2 DEF Reply
<1>19. ASSUME NEW c \in Call, StartWsReader(c) PROVE TypeOK'
  BY <1>19 DEF StartWsReader
<1>20. ASSUME NEW c \in Call, StartStdoutReader(c) PROVE TypeOK'
  <2>1. Moved
    BY <1>20, Moves DEF StartStdoutReader
  <2>2. QED
    BY <1>20, <2>1 DEF StartStdoutReader, Moved
<1>21. ASSUME NEW l \in Conn, WsReaderEnds(l) PROVE TypeOK'
  BY <1>21 DEF WsReaderEnds
<1>22. ASSUME NEW p \in Child, StdoutHeader(p) PROVE TypeOK'
  <2>1. Moved
    BY <1>22, Moves DEF StdoutHeader
  <2>2. QED
    BY <1>22, <2>1 DEF StdoutHeader, Moved
<1>23. ASSUME NEW p \in Child, StdoutMessage(p) PROVE TypeOK'
  <2>1. Moved
    BY <1>23, Moves DEF StdoutMessage
  <2>2. QED
    BY <1>23, <2>1 DEF StdoutMessage, Moved
<1>24. ASSUME NEW p \in Child, StdoutEnds(p) PROVE TypeOK'
  BY <1>24 DEF StdoutEnds
<1>25. ASSUME NEW l \in Link, Ends(l) PROVE TypeOK'
  BY <1>25 DEF Ends
<1>26. QED
  BY <1>1, <1>2, <1>3, <1>4, <1>5, <1>6, <1>7, <1>8, <1>9, <1>10, <1>11, <1>12,
     <1>13, <1>14, <1>15, <1>16, <1>17, <1>18, <1>19, <1>20, <1>21, <1>22, <1>23, <1>24, <1>25
  DEF Next, CallStep, NoPayload

\* The adapter never forgets that it has had a child.
LEMMA NamedStep ==
  ASSUME IInv, [Next]_vars
  PROVE  Named'
<1> USE AdapterAssumption DEF IInv, TypeOK, links, stdout, Is, Goto, Fail, Idle, Link, Waiting, Named, AwaitsFirst
<1>1. CASE UNCHANGED vars
  BY <1>1 DEF vars, AwaitsFirst
<1>2. ASSUME NEW c \in Call, EnsureBridge(c) PROVE Named'
  BY <1>2 DEF EnsureBridge
<1>3. ASSUME NEW c \in Call, TryDiscoverBridge(c) PROVE Named'
  BY <1>3 DEF TryDiscoverBridge
<1>4. ASSUME NEW c \in Call, ConnectWs(c) PROVE Named'
  BY <1>4 DEF ConnectWs, Take, InUse
<1>5. ASSUME NEW c \in Call, ConnectFails(c) PROVE Named'
  BY <1>5 DEF ConnectFails
<1>6. ASSUME NEW c \in Call, Registered(c) PROVE Named'
  BY <1>6 DEF Registered
<1>7. ASSUME NEW c \in Call, RegistrationFails(c) PROVE Named'
  BY <1>7 DEF RegistrationFails, Abandon
<1>8. ASSUME NEW c \in Call, SpawnBridge(c) PROVE Named'
  BY <1>8 DEF SpawnBridge, Take, InUse
<1>9. ASSUME NEW c \in Call, SpawnFails(c) PROVE Named'
  BY <1>9 DEF SpawnFails
<1>10. ASSUME NEW c \in Call, FirstHeader(c) PROVE Named'
  BY <1>10 DEF FirstHeader, Abandon, FirstRead, Taken, AwaitsFirst
<1>11. ASSUME NEW c \in Call, NoHeader(c) PROVE Named'
  BY <1>11 DEF NoHeader, FirstRead, AwaitsFirst
<1>12. ASSUME NEW c \in Call, FirstPayload(c) PROVE Named'
  BY <1>12 DEF FirstPayload, FirstRead, AwaitsFirst
<1>13. ASSUME NEW c \in Call, FirstFails(c) PROVE Named'
  BY <1>13 DEF FirstFails, Abandon, AwaitsFirst
<1>14. ASSUME NEW c \in Call, EnsureInitialized(c) PROVE Named'
  BY <1>14 DEF EnsureInitialized, BrpRequest
<1>15. ASSUME NEW c \in Call, Initialized(c) PROVE Named'
  BY <1>15 DEF Initialized, BrpRequest
<1>16. ASSUME NEW c \in Call, TimeOut(c) PROVE Named'
  BY <1>16 DEF TimeOut
<1>17. ASSUME NEW c \in Call, Cancel(c) PROVE Named'
  BY <1>17 DEF Cancel, Abandon, AwaitsFirst
<1>18. ASSUME NEW c \in Call, Reply(c) PROVE Named'
  <2>1. CASE call[c].link \in Conn \cap reading /\ UNCHANGED stdout
    BY <1>18, <2>1 DEF Reply, stdout
  <2>2. CASE StdoutPayload(call[c].link)
    <3>1. call[c].link \in Child /\ Moved
      BY <2>2, Moves DEF StdoutPayload
    <3>2. QED
      BY <1>18, <3>1 DEF Reply, Moved
  <2>3. QED
    BY <1>18, <2>1, <2>2 DEF Reply
<1>19. ASSUME NEW c \in Call, StartWsReader(c) PROVE Named'
  BY <1>19 DEF StartWsReader
<1>20. ASSUME NEW c \in Call, StartStdoutReader(c) PROVE Named'
  <2>1. Moved
    BY <1>20, Moves DEF StartStdoutReader
  <2>2. QED
    BY <1>20, <2>1 DEF StartStdoutReader, Moved
<1>21. ASSUME NEW l \in Conn, WsReaderEnds(l) PROVE Named'
  BY <1>21 DEF WsReaderEnds
<1>22. ASSUME NEW p \in Child, StdoutHeader(p) PROVE Named'
  <2>1. Moved
    BY <1>22, Moves DEF StdoutHeader
  <2>2. QED
    BY <1>22, <2>1 DEF StdoutHeader, Moved
<1>23. ASSUME NEW p \in Child, StdoutMessage(p) PROVE Named'
  <2>1. Moved
    BY <1>23, Moves DEF StdoutMessage
  <2>2. QED
    BY <1>23, <2>1 DEF StdoutMessage, Moved
<1>24. ASSUME NEW p \in Child, StdoutEnds(p) PROVE Named'
  BY <1>24 DEF StdoutEnds
<1>25. ASSUME NEW l \in Link, Ends(l) PROVE Named'
  BY <1>25 DEF Ends
<1>26. QED
  BY <1>1, <1>2, <1>3, <1>4, <1>5, <1>6, <1>7, <1>8, <1>9, <1>10, <1>11, <1>12,
     <1>13, <1>14, <1>15, <1>16, <1>17, <1>18, <1>19, <1>20, <1>21, <1>22, <1>23, <1>24, <1>25
  DEF Next, CallStep, NoPayload

\* The connection is not left without a reader.
LEMMA WsStep ==
  ASSUME IInv, [Next]_vars
  PROVE  WsIsRead'
<1> USE AdapterAssumption DEF IInv, TypeOK, links, stdout, Is, Goto, Fail, Idle, Link, Waiting, WsIsRead
<1>1. CASE UNCHANGED vars
  BY <1>1 DEF vars, AwaitsFirst
<1>2. ASSUME NEW c \in Call, EnsureBridge(c) PROVE WsIsRead'
  BY <1>2 DEF EnsureBridge
<1>3. ASSUME NEW c \in Call, TryDiscoverBridge(c) PROVE WsIsRead'
  BY <1>3 DEF TryDiscoverBridge
<1>4. ASSUME NEW c \in Call, ConnectWs(c) PROVE WsIsRead'
  BY <1>4 DEF ConnectWs, Take, InUse
<1>5. ASSUME NEW c \in Call, ConnectFails(c) PROVE WsIsRead'
  BY <1>5 DEF ConnectFails
<1>6. ASSUME NEW c \in Call, Registered(c) PROVE WsIsRead'
  BY <1>6 DEF Registered
<1>7. ASSUME NEW c \in Call, RegistrationFails(c) PROVE WsIsRead'
  BY <1>7 DEF RegistrationFails, Abandon
<1>8. ASSUME NEW c \in Call, SpawnBridge(c) PROVE WsIsRead'
  BY <1>8 DEF SpawnBridge, Take, InUse
<1>9. ASSUME NEW c \in Call, SpawnFails(c) PROVE WsIsRead'
  BY <1>9 DEF SpawnFails
<1>10. ASSUME NEW c \in Call, FirstHeader(c) PROVE WsIsRead'
  BY <1>10 DEF FirstHeader, Abandon, FirstRead, Taken, AwaitsFirst
<1>11. ASSUME NEW c \in Call, NoHeader(c) PROVE WsIsRead'
  BY <1>11 DEF NoHeader, FirstRead, AwaitsFirst
<1>12. ASSUME NEW c \in Call, FirstPayload(c) PROVE WsIsRead'
  BY <1>12 DEF FirstPayload, FirstRead, AwaitsFirst
<1>13. ASSUME NEW c \in Call, FirstFails(c) PROVE WsIsRead'
  BY <1>13 DEF FirstFails, Abandon, AwaitsFirst
<1>14. ASSUME NEW c \in Call, EnsureInitialized(c) PROVE WsIsRead'
  BY <1>14 DEF EnsureInitialized, BrpRequest
<1>15. ASSUME NEW c \in Call, Initialized(c) PROVE WsIsRead'
  BY <1>15 DEF Initialized, BrpRequest
<1>16. ASSUME NEW c \in Call, TimeOut(c) PROVE WsIsRead'
  BY <1>16 DEF TimeOut
<1>17. ASSUME NEW c \in Call, Cancel(c) PROVE WsIsRead'
  BY <1>17 DEF Cancel, Abandon, AwaitsFirst
<1>18. ASSUME NEW c \in Call, Reply(c) PROVE WsIsRead'
  <2>1. CASE call[c].link \in Conn \cap reading /\ UNCHANGED stdout
    BY <1>18, <2>1 DEF Reply, stdout
  <2>2. CASE StdoutPayload(call[c].link)
    <3>1. call[c].link \in Child /\ Moved
      BY <2>2, Moves DEF StdoutPayload
    <3>2. QED
      BY <1>18, <3>1 DEF Reply, Moved
  <2>3. QED
    BY <1>18, <2>1, <2>2 DEF Reply
<1>19. ASSUME NEW c \in Call, StartWsReader(c) PROVE WsIsRead'
  BY <1>19 DEF StartWsReader
<1>20. ASSUME NEW c \in Call, StartStdoutReader(c) PROVE WsIsRead'
  <2>1. Moved
    BY <1>20, Moves DEF StartStdoutReader
  <2>2. QED
    BY <1>20, <2>1 DEF StartStdoutReader, Moved
<1>21. ASSUME NEW l \in Conn, WsReaderEnds(l) PROVE WsIsRead'
  BY <1>21 DEF WsReaderEnds
<1>22. ASSUME NEW p \in Child, StdoutHeader(p) PROVE WsIsRead'
  <2>1. Moved
    BY <1>22, Moves DEF StdoutHeader
  <2>2. QED
    BY <1>22, <2>1 DEF StdoutHeader, Moved
<1>23. ASSUME NEW p \in Child, StdoutMessage(p) PROVE WsIsRead'
  <2>1. Moved
    BY <1>23, Moves DEF StdoutMessage
  <2>2. QED
    BY <1>23, <2>1 DEF StdoutMessage, Moved
<1>24. ASSUME NEW p \in Child, StdoutEnds(p) PROVE WsIsRead'
  BY <1>24 DEF StdoutEnds
<1>25. ASSUME NEW l \in Link, Ends(l) PROVE WsIsRead'
  BY <1>25 DEF Ends
<1>26. QED
  BY <1>1, <1>2, <1>3, <1>4, <1>5, <1>6, <1>7, <1>8, <1>9, <1>10, <1>11, <1>12,
     <1>13, <1>14, <1>15, <1>16, <1>17, <1>18, <1>19, <1>20, <1>21, <1>22, <1>23, <1>24, <1>25
  DEF Next, CallStep, NoPayload

\* Nor is the child.
LEMMA ProcStep ==
  ASSUME IInv, [Next]_vars
  PROVE  ProcIsRead'
<1> USE AdapterAssumption DEF IInv, TypeOK, links, stdout, Is, Goto, Fail, Idle, Link, Waiting, ProcIsRead, ProcRuns, AwaitsFirst
<1>1. CASE UNCHANGED vars
  BY <1>1 DEF vars, AwaitsFirst
<1>2. ASSUME NEW c \in Call, EnsureBridge(c) PROVE ProcIsRead'
  BY <1>2 DEF EnsureBridge
<1>3. ASSUME NEW c \in Call, TryDiscoverBridge(c) PROVE ProcIsRead'
  BY <1>3 DEF TryDiscoverBridge
<1>4. ASSUME NEW c \in Call, ConnectWs(c) PROVE ProcIsRead'
  BY <1>4 DEF ConnectWs, Take, InUse
<1>5. ASSUME NEW c \in Call, ConnectFails(c) PROVE ProcIsRead'
  BY <1>5 DEF ConnectFails
<1>6. ASSUME NEW c \in Call, Registered(c) PROVE ProcIsRead'
  BY <1>6 DEF Registered
<1>7. ASSUME NEW c \in Call, RegistrationFails(c) PROVE ProcIsRead'
  BY <1>7 DEF RegistrationFails, Abandon
<1>8. ASSUME NEW c \in Call, SpawnBridge(c) PROVE ProcIsRead'
  BY <1>8 DEF SpawnBridge, Take, InUse
<1>9. ASSUME NEW c \in Call, SpawnFails(c) PROVE ProcIsRead'
  BY <1>9 DEF SpawnFails
<1>10. ASSUME NEW c \in Call, FirstHeader(c) PROVE ProcIsRead'
  BY <1>10 DEF FirstHeader, Abandon, FirstRead, Taken, AwaitsFirst
<1>11. ASSUME NEW c \in Call, NoHeader(c) PROVE ProcIsRead'
  BY <1>11 DEF NoHeader, FirstRead, AwaitsFirst
<1>12. ASSUME NEW c \in Call, FirstPayload(c) PROVE ProcIsRead'
  BY <1>12 DEF FirstPayload, FirstRead, AwaitsFirst
<1>13. ASSUME NEW c \in Call, FirstFails(c) PROVE ProcIsRead'
  BY <1>13 DEF FirstFails, Abandon, AwaitsFirst
<1>14. ASSUME NEW c \in Call, EnsureInitialized(c) PROVE ProcIsRead'
  BY <1>14 DEF EnsureInitialized, BrpRequest
<1>15. ASSUME NEW c \in Call, Initialized(c) PROVE ProcIsRead'
  BY <1>15 DEF Initialized, BrpRequest
<1>16. ASSUME NEW c \in Call, TimeOut(c) PROVE ProcIsRead'
  BY <1>16 DEF TimeOut
<1>17. ASSUME NEW c \in Call, Cancel(c) PROVE ProcIsRead'
  BY <1>17 DEF Cancel, Abandon, AwaitsFirst
<1>18. ASSUME NEW c \in Call, Reply(c) PROVE ProcIsRead'
  <2>1. CASE call[c].link \in Conn \cap reading /\ UNCHANGED stdout
    BY <1>18, <2>1 DEF Reply, stdout
  <2>2. CASE StdoutPayload(call[c].link)
    <3>1. call[c].link \in Child /\ Moved
      BY <2>2, Moves DEF StdoutPayload
    <3>2. QED
      BY <1>18, <3>1 DEF Reply, Moved
  <2>3. QED
    BY <1>18, <2>1, <2>2 DEF Reply
<1>19. ASSUME NEW c \in Call, StartWsReader(c) PROVE ProcIsRead'
  BY <1>19 DEF StartWsReader
<1>20. ASSUME NEW c \in Call, StartStdoutReader(c) PROVE ProcIsRead'
  <2>1. Moved
    BY <1>20, Moves DEF StartStdoutReader
  <2>2. QED
    BY <1>20, <2>1 DEF StartStdoutReader, Moved
<1>21. ASSUME NEW l \in Conn, WsReaderEnds(l) PROVE ProcIsRead'
  BY <1>21 DEF WsReaderEnds
<1>22. ASSUME NEW p \in Child, StdoutHeader(p) PROVE ProcIsRead'
  <2>1. Moved
    BY <1>22, Moves DEF StdoutHeader
  <2>2. QED
    BY <1>22, <2>1 DEF StdoutHeader, Moved
<1>23. ASSUME NEW p \in Child, StdoutMessage(p) PROVE ProcIsRead'
  <2>1. Moved
    BY <1>23, Moves DEF StdoutMessage
  <2>2. QED
    BY <1>23, <2>1 DEF StdoutMessage, Moved
<1>24. ASSUME NEW p \in Child, StdoutEnds(p) PROVE ProcIsRead'
  BY <1>24 DEF StdoutEnds
<1>25. ASSUME NEW l \in Link, Ends(l) PROVE ProcIsRead'
  BY <1>25 DEF Ends
<1>26. QED
  BY <1>1, <1>2, <1>3, <1>4, <1>5, <1>6, <1>7, <1>8, <1>9, <1>10, <1>11, <1>12,
     <1>13, <1>14, <1>15, <1>16, <1>17, <1>18, <1>19, <1>20, <1>21, <1>22, <1>23, <1>24, <1>25
  DEF Next, CallStep, NoPayload

LEMMA Invariance == Spec => []IInv
<1>1. IInv /\ [Next]_vars => IInv'
  BY TypeStep, NamedStep, WsStep, ProcStep DEF IInv
<1>2. QED
  BY InitInv, <1>1, PTL DEF Spec
-----------------------------------------------------------------------------
\* Every variable of the adapter has its type.
THEOREM TypeCorrect == Spec => []TypeOK
<1>1. IInv => TypeOK
  BY DEF IInv
<1>2. QED
  BY Invariance, <1>1, PTL

\* However the calls overtake each other in discovery, registration and
\* spawning, the link that the adapter takes for usable is read by a task or
\* is going to be, unless the call that made it ended before it created a
\* reader or tasks have met on the child's stdout.
THEOREM NoDeafLink == Spec => []LinkIsRead
<1>1. IInv => LinkIsRead
  BY DEF IInv, WsIsRead, ProcIsRead, LinkIsRead
<1>2. QED
  BY Invariance, <1>1, PTL
=============================================================================
