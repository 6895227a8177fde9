-------------------------- MODULE BridgeCore_proofs --------------------------
(***************************************************************************)
(* The safety invariants of BridgeCore for any number of clients, sockets, *)
(* browsers and requests.  The inductive invariant IInv adds to them what  *)
(* the routing by numeric id rests on: a forwarded request keeps its id to *)
(* itself in the map, on the wires and in the browsers.  The second part   *)
(* shows that the bridge implements RequestBroker; Once adds that what a   *)
(* browser holds has been handed out once and has not run.                 *)
(***************************************************************************)
EXTENDS BridgeCore, TLAPS

\* Every copy of a forwarded request outside the pending map.
Travels(m) == \/ \E b \in Browser : m \in inbox[b]
              \/ \E e \in Conn : m \in wire[e]

\* A task that has not allocated an id holds no request and no reply.
Fresh ==
  \A c \in Client : pc[c] \in {"idle", "gone", "checked", "ready"} =>
    out[c] = NoMsg /\ resp[c] = NoResp

\* The request a task has forwarded is its current one, for a browser the
\* client asked for.
OutIsCurrent ==
  \A c \in Client :
    /\ pc[c] \in Waiting => out[c] # NoMsg
    /\ out[c] # NoMsg =>
         /\ out[c].client = c /\ out[c].n = num[c]
         /\ req[c].target \in {out[c].bid, AnyBrowser}

\* Ids are below the counter, and name one request.
IdsBelow ==
  /\ \A c \in Client : out[c] # NoMsg => out[c].id < nextExtId
  /\ \A m \in Msg : Travels(m) => m.id < nextExtId

IdsUnique ==
  /\ \A c, d \in Client :
       out[c] # NoMsg /\ out[d] # NoMsg /\ out[c].id = out[d].id => c = d
  /\ \A c \in Client, m \in Msg :
       out[c] # NoMsg /\ Travels(m) /\ m.id = out[c].id => m = out[c]

\* A reply on a wire has been executed.
WireExecuted ==
  \A e \in Conn : \A m \in wire[e] : <<m.client, m.n>> \in executed

\* Sockets in use have an owner.
Owned == \A e \in Conn : conn[e] # "unused" => owner[e] \in Browser

IInv == /\ TypeOK /\ PendingTracked /\ ReplyMatches /\ SenderLive /\ PendingHasReader
        /\ Fresh /\ OutIsCurrent /\ IdsBelow /\ IdsUnique /\ WireExecuted /\ Owned

-----------------------------------------------------------------------------
(* What the helpers shared by the actions do.                              *)

\* The labels and answers the actions write are of the declared kinds.
LEMMA Constants ==
  /\ Rejections \subseteq Kinds /\ Giveups \subseteq Kinds
  /\ {"local", "result", "closed", "disconnected"} \subseteq Kinds
  /\ Waiting \cup {"idle", "checked", "ready", "respond", "gone"} \subseteq Labels
  /\ {"send", "await"} \cup Giveups \subseteq Waiting
  /\ NoResp \in Response /\ NoReq \in Request
  /\ \A k \in Kinds : Answer(k) \in Response
  BY DEF Kinds, Rejections, Giveups, Waiting, Labels, NoResp, NoReq, Answer, Response, Request

\* A task moves itself to a label and leaves the other tasks where they are.
LEMMA GotoLabel ==
  ASSUME TypeOK, NEW c \in Client, NEW l \in Labels, Goto(c, l)
  PROVE  /\ pc' \in [Client -> Labels] /\ pc'[c] = l
         /\ \A d \in Client : d # c => pc'[d] = pc[d]
  BY DEF TypeOK, Goto

\* A task that finishes holds an answer that is not a result.
LEMMA FinishAnswer ==
  ASSUME TypeOK, NEW c \in Client, NEW k \in Kinds, Finish(c, k)
  PROVE  /\ pc' \in [Client -> Labels] /\ resp' \in [Client -> Response]
         /\ pc'[c] = "respond" /\ resp'[c] = Answer(k)
         /\ \A d \in Client : d # c => pc'[d] = pc[d] /\ resp'[d] = resp[d]
<1>1. Goto(c, "respond") /\ resp' = [resp EXCEPT ![c] = Answer(k)]
  BY DEF Finish
<1>2. "respond" \in Labels /\ Answer(k) \in Response
  BY Constants
<1>3. QED
  BY <1>1, <1>2, GotoLabel DEF TypeOK
-----------------------------------------------------------------------------
(* The inductive invariant holds initially and each action preserves it.   *)

\* A fresh bridge has nothing pending and no connection.
LEMMA InitInv == Init => IInv
<1> SUFFICES ASSUME Init PROVE IInv
  OBVIOUS
<1>1. TypeOK
  BY ConstAssumption, Constants DEF Init, TypeOK
<1>2. PendingTracked /\ Fresh /\ OutIsCurrent
  BY DEF Init, PendingTracked, Fresh, OutIsCurrent, Waiting, Giveups
<1>3. ReplyMatches
  BY DEF Init, ReplyMatches, NoResp
<1>4. SenderLive /\ PendingHasReader /\ Owned /\ WireExecuted
  BY DEF Init, SenderLive, PendingHasReader, Owned, WireExecuted
<1>5. IdsBelow /\ IdsUnique
  BY DEF Init, IdsBelow, IdsUnique, Travels
<1>6. QED
  BY <1>1, <1>2, <1>3, <1>4, <1>5 DEF IInv

\* Requests answered without forwarding: initialize, shutdown, exit, browser.list.
LEMMA LocalInv ==
  ASSUME IInv, NEW c \in Client,
         \/ \E want \in SUBSET Allowed : Initialize(c, want)
         \/ Shutdown(c) \/ Exit(c) \/ BrowserList(c)
  PROVE  IInv'
<1>1. Local(c) /\ TypeOK
  BY DEF Initialize, Shutdown, Exit, BrowserList, IInv
<1>2. /\ pc' \in [Client -> Labels] /\ resp' \in [Client -> Response]
      /\ pc'[c] = "respond" /\ resp'[c] = Answer("local")
      /\ \A d \in Client : d # c => pc'[d] = pc[d] /\ resp'[d] = resp[d]
  BY <1>1, Constants, FinishAnswer DEF Local
<1>3. /\ num' \in [Client -> Nat] /\ \A d \in Client : d # c => num'[d] = num[d]
      /\ pc[c] = "idle"
      /\ UNCHANGED <<extensions, pending, nextExtId, req, out, via, link, browser>>
  BY <1>1 DEF Local, TypeOK
<1> USE DEF link, browser
<1>4. TypeOK'
  <2>1. sess' \in {"Disconnected", "Ready", "Closing", "Closed"}
    BY <1>1 DEF Initialize, Shutdown, Exit, BrowserList, session, TypeOK
  <2>2. caps' \in SUBSET Method /\ granted' \in [Client -> SUBSET Method]
    BY <1>1, ConstAssumption
    DEF Initialize, Shutdown, Exit, BrowserList, session, TypeOK, Negotiate
  <2>3. QED
    BY <1>1, <1>2, <1>3, <2>1, <2>2 DEF TypeOK
<1>5. out[c] = NoMsg /\ resp[c] = NoResp /\ pc[c] \notin Waiting
  BY <1>3 DEF IInv, Fresh, Waiting, Giveups
<1>6. PendingTracked'
  BY <1>2, <1>3, <1>5 DEF IInv, PendingTracked, TypeOK, Msg
<1>7. ReplyMatches'
  BY <1>2, <1>3 DEF IInv, ReplyMatches, Answer
<1>8. Fresh' /\ OutIsCurrent'
  BY <1>2, <1>3, <1>5 DEF IInv, Fresh, OutIsCurrent, Waiting, Giveups
<1>9. SenderLive' /\ PendingHasReader' /\ Owned' /\ WireExecuted'
  BY <1>3 DEF IInv, SenderLive, PendingHasReader, Owned, WireExecuted
<1>10. IdsBelow' /\ IdsUnique'
  BY <1>3 DEF IInv, IdsBelow, IdsUnique, Travels
<1>11. QED
  BY <1>4, <1>6, <1>7, <1>8, <1>9, <1>10 DEF IInv

\* A request to forward passes the method and capability checks, or not.
LEMMA ReceiveRequestInv ==
  ASSUME IInv, NEW c \in Client, NEW m \in Method, NEW t \in Browser \cup {AnyBrowser},
         ReceiveRequest(c, m, t)
  PROVE  IInv'
<1> USE DEF link, browser, session
<1>1. TypeOK /\ pc[c] = "idle"
  BY DEF ReceiveRequest, IInv
<1>2. /\ num' \in [Client -> Nat] /\ \A d \in Client : d # c => num'[d] = num[d]
      /\ req' \in [Client -> Request] /\ \A d \in Client : d # c => req'[d] = req[d]
      /\ UNCHANGED <<sess, caps, granted, extensions, pending, nextExtId, out, via,
                     conn, owner, wire, ws, stalled, inbox, dispatched, executed>>
  BY <1>1 DEF ReceiveRequest, TypeOK, Request
<1>3. out[c] = NoMsg /\ resp[c] = NoResp /\ pc[c] \notin Waiting
  BY <1>1 DEF IInv, Fresh, Waiting, Giveups
<1>4. /\ pc' \in [Client -> Labels] /\ resp' \in [Client -> Response]
      /\ pc'[c] \in {"checked", "respond"} /\ resp'[c].kind # "result"
      /\ pc'[c] = "checked" => resp'[c] = NoResp
      /\ \A d \in Client : d # c => pc'[d] = pc[d] /\ resp'[d] = resp[d]
  <2>1. "checked" \in Labels /\ {"unknown", "unsupported"} \subseteq Kinds
    BY Constants DEF Rejections
  <2>2. CASE \E k \in {"unknown", "unsupported"} : Finish(c, k)
    <3>1. PICK k \in {"unknown", "unsupported"} : Finish(c, k)
      BY <2>2
    <3>2. k \in Kinds /\ Answer(k).kind = k
      BY <3>1, <2>1 DEF Answer
    <3>3. QED
      BY <1>1, <3>1, <3>2, FinishAnswer
  <2>3. CASE Goto(c, "checked") /\ UNCHANGED resp
    BY <1>1, <1>3, <2>1, <2>3, GotoLabel DEF TypeOK, NoResp
  <2>4. QED
    BY <2>2, <2>3 DEF ReceiveRequest
<1>5. TypeOK'
  BY <1>1, <1>2, <1>4 DEF TypeOK
<1>6. PendingTracked'
  BY <1>2, <1>3, <1>4 DEF IInv, PendingTracked, TypeOK, Msg
<1>7. ReplyMatches'
  BY <1>2, <1>4 DEF IInv, ReplyMatches
<1>8. Fresh' /\ OutIsCurrent'
  BY <1>2, <1>3, <1>4 DEF IInv, Fresh, OutIsCurrent, Waiting, Giveups
<1>9. SenderLive' /\ PendingHasReader' /\ Owned' /\ WireExecuted'
  BY <1>2 DEF IInv, SenderLive, PendingHasReader, Owned, WireExecuted
<1>10. IdsBelow' /\ IdsUnique'
  BY <1>2 DEF IInv, IdsBelow, IdsUnique, Travels
<1>11. QED
  BY <1>5, <1>6, <1>7, <1>8, <1>9, <1>10 DEF IInv

\* The gates and the session check: only the task's own position changes.
LEMMA CheckSessionInv ==
  ASSUME IInv, NEW c \in Client, CheckSession(c)
  PROVE  IInv'
<1> USE DEF link, browser, session
<1>1. TypeOK /\ pc[c] = "checked"
  BY DEF CheckSession, IInv
<1>2. UNCHANGED <<sess, caps, granted, extensions, pending, nextExtId, num, req, out, via,
                  conn, owner, wire, ws, stalled, inbox, dispatched, executed>>
  BY DEF CheckSession
<1>3. out[c] = NoMsg /\ resp[c] = NoResp /\ pc[c] \notin Waiting
  BY <1>1 DEF IInv, Fresh, Waiting, Giveups
<1>4. /\ pc' \in [Client -> Labels] /\ resp' \in [Client -> Response]
      /\ pc'[c] \in {"ready", "respond"} /\ resp'[c].kind # "result"
      /\ pc'[c] = "ready" => resp'[c] = NoResp
      /\ \A d \in Client : d # c => pc'[d] = pc[d] /\ resp'[d] = resp[d]
  <2>1. "ready" \in Labels /\ {"blocked", "uninitialized"} \subseteq Kinds
    BY Constants DEF Rejections
  <2>2. CASE \E k \in {"blocked", "uninitialized"} : Finish(c, k)
    <3>1. PICK k \in {"blocked", "uninitialized"} : Finish(c, k)
      BY <2>2
    <3>2. k \in Kinds /\ Answer(k).kind = k
      BY <3>1, <2>1 DEF Answer
    <3>3. QED
      BY <1>1, <3>1, <3>2, FinishAnswer
  <2>3. CASE Goto(c, "ready") /\ UNCHANGED resp
    BY <1>1, <1>3, <2>1, <2>3, GotoLabel DEF TypeOK, NoResp
  <2>4. QED
    BY <2>2, <2>3 DEF CheckSession
<1>5. TypeOK'
  BY <1>1, <1>2, <1>4 DEF TypeOK
<1>6. PendingTracked'
  BY <1>2, <1>3, <1>4 DEF IInv, PendingTracked, TypeOK, Msg
<1>7. ReplyMatches'
  BY <1>2, <1>4 DEF IInv, ReplyMatches
<1>8. Fresh' /\ OutIsCurrent'
  BY <1>2, <1>3, <1>4 DEF IInv, Fresh, OutIsCurrent, Waiting, Giveups
<1>9. SenderLive' /\ PendingHasReader' /\ Owned' /\ WireExecuted'
  BY <1>2 DEF IInv, SenderLive, PendingHasReader, Owned, WireExecuted
<1>10. IdsBelow' /\ IdsUnique'
  BY <1>2 DEF IInv, IdsBelow, IdsUnique, Travels
<1>11. QED
  BY <1>5, <1>6, <1>7, <1>8, <1>9, <1>10 DEF IInv

\* A request is registered as pending under a fresh id, for a browser whose
\* sender is in the map, hence (SenderLive) whose reader is running.
LEMMA ForwardInv ==
  ASSUME IInv, NEW c \in Client, Forward(c)
  PROVE  IInv'
<1> USE DEF link, browser, session
<1>1. /\ TypeOK /\ pc[c] = "ready"
      /\ UNCHANGED <<sess, caps, granted, extensions, num, req,
                     conn, owner, wire, ws, stalled, inbox, dispatched, executed>>
  BY DEF Forward, IInv
<1>2. out[c] = NoMsg /\ resp[c] = NoResp /\ pc[c] \notin Waiting
  BY <1>1 DEF IInv, Fresh, Waiting, Giveups
<1>3. SenderLive' /\ Owned' /\ WireExecuted'
  BY <1>1 DEF IInv, SenderLive, Owned, WireExecuted
<1>4. CASE Finish(c, "noext") /\ UNCHANGED <<pending, nextExtId, out, via>>
  <2>1. /\ pc' \in [Client -> Labels] /\ resp' \in [Client -> Response]
        /\ pc'[c] = "respond" /\ resp'[c].kind # "result"
        /\ \A d \in Client : d # c => pc'[d] = pc[d] /\ resp'[d] = resp[d]
    <3>1. "noext" \in Kinds /\ Answer("noext").kind # "result"
      BY Constants DEF Rejections, Answer
    <3>2. QED
      BY <1>1, <1>4, <3>1, FinishAnswer
  <2>2. TypeOK'
    BY <1>1, <1>4, <2>1 DEF TypeOK
  <2>3. PendingTracked'
    BY <1>2, <1>4, <2>1 DEF IInv, PendingTracked, TypeOK, Msg
  <2>4. ReplyMatches' /\ PendingHasReader'
    BY <1>1, <1>4, <2>1 DEF IInv, ReplyMatches, PendingHasReader
  <2>5. Fresh' /\ OutIsCurrent'
    BY <1>1, <1>2, <1>4, <2>1 DEF IInv, Fresh, OutIsCurrent, Waiting, Giveups
  <2>6. IdsBelow' /\ IdsUnique'
    BY <1>1, <1>4 DEF IInv, IdsBelow, IdsUnique, Travels
  <2>7. QED
    BY <1>3, <2>2, <2>3, <2>4, <2>5, <2>6 DEF IInv
<1>5. ASSUME NEW b \in GetSender(req[c].target), NEW m,
             m = [id |-> nextExtId, client |-> c, n |-> num[c], bid |-> b],
             out' = [out EXCEPT ![c] = m], pending' = pending \cup {m},
             nextExtId' = NextExtRequestId, via' = [via EXCEPT ![c] = extensions[b]],
             Goto(c, "send") \/ Goto(c, "toolarge"), UNCHANGED resp
      PROVE  IInv'
  <2>1. /\ b \in Browser /\ extensions[b] \in Conn /\ conn[extensions[b]] = "open"
        /\ owner[extensions[b]] = b /\ req[c].target \in {b, AnyBrowser}
    BY <1>1, <1>5 DEF GetSender, IInv, SenderLive, TypeOK
  <2>2. m \in Msg /\ m.id = nextExtId /\ m.client = c /\ m.n = num[c] /\ m.bid = b
    BY <1>1, <1>5, <2>1 DEF TypeOK, Msg
  <2>3. nextExtId \in Nat /\ nextExtId' = nextExtId + 1
    BY <1>1, <1>5 DEF TypeOK, NextExtRequestId
  <2>4. m # NoMsg
    BY <2>2, ConstAssumption
  <2>5. /\ pc' \in [Client -> Labels] /\ pc'[c] \in {"send", "toolarge"}
        /\ \A d \in Client : d # c => pc'[d] = pc[d]
    <3>1. {"send", "toolarge"} \subseteq Labels
      BY DEF Labels, Waiting, Giveups
    <3>2. QED
      BY <1>1, <1>5, <3>1, GotoLabel
  <2>6. /\ out' \in [Client -> Msg \cup {NoMsg}] /\ out'[c] = m
        /\ \A d \in Client : d # c => out'[d] = out[d]
    BY <1>1, <1>5, <2>2 DEF TypeOK
  <2>7. TypeOK'
    <3>1. pending' \in SUBSET Msg
      BY <1>1, <1>5, <2>2 DEF TypeOK
    <3>2. via' \in [Client -> Conn \cup {NoConn}]
      BY <1>1, <1>5, <2>1 DEF TypeOK
    <3>3. QED
      BY <1>1, <1>5, <2>3, <2>5, <2>6, <3>1, <3>2 DEF TypeOK
  <2>8. PendingTracked'
    <3>1. ASSUME NEW p \in pending
          PROVE  p.client # c /\ p.client \in Client
      BY <1>1, <1>2 DEF IInv, PendingTracked, TypeOK, Msg
    <3>2. pc'[c] \in Waiting
      BY <2>5 DEF Waiting, Giveups
    <3>3. QED
      BY <1>2, <1>5, <2>2, <2>5, <2>6, <3>1, <3>2 DEF IInv, PendingTracked
  <2>9. ReplyMatches'
    BY <1>1, <1>2, <1>5, <2>6 DEF IInv, ReplyMatches, NoResp
  <2>10. PendingHasReader'
    BY <1>1, <1>5, <2>1, <2>2 DEF IInv, PendingHasReader
  <2>11. Fresh' /\ OutIsCurrent'
    <3>1. Fresh'
      BY <1>5, <2>5, <2>6 DEF IInv, Fresh
    <3>2. OutIsCurrent'
      BY <1>1, <2>1, <2>2, <2>4, <2>5, <2>6 DEF IInv, OutIsCurrent
    <3>3. QED
      BY <3>1, <3>2
  <2>12. IdsBelow' /\ IdsUnique'
    <3>1. \A x \in Msg : Travels(x)' <=> Travels(x)
      BY <1>1 DEF Travels
    <3>2. \A x \in Msg : x.id \in Nat
      BY DEF Msg
    <3>3. \A d \in Client : out[d] # NoMsg => out[d] \in Msg
      BY <1>1 DEF TypeOK
    <3>4. IdsBelow'
      BY <2>2, <2>3, <2>6, <3>1, <3>2, <3>3 DEF IInv, IdsBelow
    <3>5. IdsUnique'
      BY <2>2, <2>3, <2>6, <3>1, <3>2, <3>3 DEF IInv, IdsBelow, IdsUnique
    <3>6. QED
      BY <3>4, <3>5
  <2>13. QED
    BY <1>3, <2>7, <2>8, <2>9, <2>10, <2>11, <2>12 DEF IInv
<1>6. QED
  BY <1>4, <1>5 DEF Forward

\* The request reaches the extension.
LEMMA SendToExtensionInv ==
  ASSUME IInv, NEW c \in Client, SendToExtension(c)
  PROVE  IInv'
<1> USE DEF link, browser, session
<1>1. /\ TypeOK /\ pc[c] = "send" /\ Goto(c, "await")
      /\ inbox' = [inbox EXCEPT ![out[c].bid] = @ \cup {out[c]}]
      /\ UNCHANGED <<sess, caps, granted, extensions, pending, nextExtId, num, req, out, via,
                     resp, conn, owner, wire, ws, stalled, executed>>
  BY DEF SendToExtension, IInv
<1>2. out[c] \in Msg /\ out[c] # NoMsg
  BY <1>1 DEF IInv, OutIsCurrent, Waiting, TypeOK
<1>3. /\ pc' \in [Client -> Labels] /\ pc'[c] = "await"
      /\ \A d \in Client : d # c => pc'[d] = pc[d]
  <2>1. "await" \in Labels
    BY DEF Labels, Waiting
  <2>2. QED
    BY <1>1, <2>1, GotoLabel
<1>4. TypeOK'
  <2>1. out[c].bid \in Browser
    BY <1>2 DEF Msg
  <2>2. inbox' \in [Browser -> SUBSET Msg]
    BY <1>1, <1>2, <2>1 DEF TypeOK
  <2>3. dispatched' \in SUBSET (Client \X Nat)
    BY <1>1 DEF SendToExtension, TypeOK
  <2>4. QED
    BY <1>1, <1>3, <2>2, <2>3 DEF TypeOK
<1>5. PendingTracked'
  <2>1. pc'[c] \in Waiting
    BY <1>3 DEF Waiting
  <2>2. \A p \in pending : p.client \in Client
    BY <1>1 DEF TypeOK, Msg
  <2>3. QED
    BY <1>1, <1>3, <2>1, <2>2 DEF IInv, PendingTracked
<1>6. Fresh' /\ OutIsCurrent'
  BY <1>1, <1>2, <1>3 DEF IInv, Fresh, OutIsCurrent
<1>7. ReplyMatches' /\ SenderLive' /\ PendingHasReader' /\ Owned' /\ WireExecuted'
  BY <1>1 DEF IInv, ReplyMatches, SenderLive, PendingHasReader, Owned, WireExecuted
<1>8. IdsBelow' /\ IdsUnique'
  <2>1. \A m \in Msg : Travels(m)' => Travels(m) \/ m = out[c]
    BY <1>1, <1>2 DEF Travels, TypeOK
  <2>2. IdsBelow'
    BY <1>1, <1>2, <2>1 DEF IInv, IdsBelow
  <2>3. IdsUnique'
    BY <1>1, <1>2, <2>1 DEF IInv, IdsUnique
  <2>4. QED
    BY <2>2, <2>3
<1>9. QED
  BY <1>4, <1>5, <1>6, <1>7, <1>8 DEF IInv

\* Steps that only move the task on among the places where it waits or responds.
LEMMA MoveInv ==
  ASSUME IInv, NEW c \in Client,
         SendToDead(c) \/ TakeReply(c) \/ TimeOut(c) \/ ClientLeaves(c)
  PROVE  IInv'
<1> USE DEF link, browser, session
<1>1. /\ TypeOK
      /\ UNCHANGED <<sess, caps, granted, extensions, pending, nextExtId, num, req, out, via,
                     resp, conn, owner, wire, ws, stalled, inbox, dispatched, executed>>
  BY DEF SendToDead, TakeReply, TimeOut, ClientLeaves, IInv
<1>2. \/ pc[c] = "send" /\ (Goto(c, "await") \/ Goto(c, "sendfailed"))
      \/ pc[c] = "await" /\ resp[c] # NoResp /\ Goto(c, "respond")
      \/ pc[c] = "await" /\ Goto(c, "timedout")
      \/ pc[c] = "idle" /\ Goto(c, "gone")
  BY DEF SendToDead, TakeReply, TimeOut, ClientLeaves
<1>3. /\ pc' \in [Client -> Labels]
      /\ \A d \in Client : d # c => pc'[d] = pc[d]
      /\ \/ pc[c] = "send" /\ pc'[c] \in {"await", "sendfailed"}
         \/ pc[c] = "await" /\ resp[c] # NoResp /\ pc'[c] = "respond"
         \/ pc[c] = "await" /\ pc'[c] = "timedout"
         \/ pc[c] = "idle" /\ pc'[c] = "gone"
  <2>1. {"await", "sendfailed", "respond", "timedout", "gone"} \subseteq Labels
    BY DEF Labels, Waiting, Giveups
  <2>2. QED
    BY <1>1, <1>2, <2>1, GotoLabel
<1>4. TypeOK'
  BY <1>1, <1>3 DEF TypeOK
<1>5. PendingTracked'
  <2>1. ASSUME NEW p \in pending, p.client = c
        PROVE  pc'[c] \in Waiting /\ (pc'[c] \in {"send", "await"} => pc[c] \in {"send", "await"})
    BY <1>3, <2>1 DEF IInv, PendingTracked, Waiting, Giveups
  <2>2. \A p \in pending : p.client \in Client
    BY <1>1 DEF TypeOK, Msg
  <2>3. QED
    BY <1>1, <1>3, <2>1, <2>2 DEF IInv, PendingTracked
<1>6. Fresh'
  BY <1>1, <1>3 DEF IInv, Fresh
<1>7. OutIsCurrent'
  BY <1>1, <1>3 DEF IInv, OutIsCurrent, Waiting, Giveups
<1>8. ReplyMatches' /\ SenderLive' /\ PendingHasReader' /\ Owned' /\ WireExecuted'
  BY <1>1 DEF IInv, ReplyMatches, SenderLive, PendingHasReader, Owned, WireExecuted
<1>9. IdsBelow' /\ IdsUnique'
  BY <1>1 DEF IInv, IdsBelow, IdsUnique, Travels
<1>10. QED
  BY <1>4, <1>5, <1>6, <1>7, <1>8, <1>9 DEF IInv

\* An error path takes the request out of the map under its own id, which no
\* other task's request has, and answers.
LEMMA GiveUpInv ==
  ASSUME IInv, NEW c \in Client, GiveUp(c)
  PROVE  IInv'
<1> USE DEF link, browser, session
<1>1. /\ TypeOK /\ pc[c] \in Giveups /\ Finish(c, pc[c])
      /\ pending' = {p \in pending : p.id # out[c].id}
      /\ UNCHANGED <<sess, caps, granted, extensions, nextExtId, num, req, out, via,
                     conn, owner, wire, ws, stalled, inbox, dispatched, executed>>
  BY DEF GiveUp, IInv
<1>2. /\ pc' \in [Client -> Labels] /\ resp' \in [Client -> Response]
      /\ pc'[c] = "respond" /\ resp'[c].kind # "result"
      /\ \A d \in Client : d # c => pc'[d] = pc[d] /\ resp'[d] = resp[d]
  <2>1. pc[c] \in Kinds /\ Answer(pc[c]).kind = pc[c] /\ pc[c] # "result"
    BY <1>1, Constants DEF Giveups, Answer
  <2>2. QED
    BY <1>1, <2>1, FinishAnswer
<1>3. TypeOK'
  BY <1>1, <1>2 DEF TypeOK
<1>4. \A p \in pending : p.client \in Client /\ out[p.client] = p /\ p # NoMsg
  BY <1>1, ConstAssumption DEF TypeOK, Msg, IInv, PendingTracked
<1>5. pc[c] \in Waiting /\ out[c] # NoMsg
  BY <1>1, Constants DEF IInv, OutIsCurrent
<1>6. PendingTracked'
  <2>1. \A p \in pending' : p \in pending /\ p.client # c
    BY <1>1, <1>4
  <2>2. \A d \in Client : d # c /\ out[d] \in pending => out[d] \in pending'
    BY <1>1, <1>4, <1>5 DEF IInv, IdsUnique
  <2>3. QED
    BY <1>1, <1>2, <1>4, <2>1, <2>2 DEF IInv, PendingTracked
<1>7. ReplyMatches'
  BY <1>1, <1>2 DEF IInv, ReplyMatches
<1>8. Fresh' /\ OutIsCurrent'
  BY <1>1, <1>2 DEF IInv, Fresh, OutIsCurrent, Waiting, Giveups
<1>9. SenderLive' /\ PendingHasReader' /\ Owned' /\ WireExecuted'
  BY <1>1 DEF IInv, SenderLive, PendingHasReader, Owned, WireExecuted
<1>10. IdsBelow' /\ IdsUnique'
  BY <1>1 DEF IInv, IdsBelow, IdsUnique, Travels
<1>11. QED
  BY <1>3, <1>6, <1>7, <1>8, <1>9, <1>10 DEF IInv

\* After the response is written the task is as new.
LEMMA RespondInv ==
  ASSUME IInv, NEW c \in Client, Respond(c)
  PROVE  IInv'
<1> USE DEF link, browser, session
<1>1. /\ TypeOK /\ pc[c] = "respond" /\ (Goto(c, "idle") \/ Goto(c, "gone"))
      /\ out' = [out EXCEPT ![c] = NoMsg] /\ via' = [via EXCEPT ![c] = NoConn]
      /\ req' = [req EXCEPT ![c] = NoReq] /\ resp' = [resp EXCEPT ![c] = NoResp]
      /\ UNCHANGED <<sess, caps, granted, extensions, pending, nextExtId, num,
                     conn, owner, wire, ws, stalled, inbox, dispatched, executed>>
  BY DEF Respond, IInv
<1>2. /\ pc' \in [Client -> Labels] /\ pc'[c] \in {"idle", "gone"}
      /\ \A d \in Client : d # c => pc'[d] = pc[d]
  <2>1. {"idle", "gone"} \subseteq Labels
    BY DEF Labels
  <2>2. QED
    BY <1>1, <2>1, GotoLabel
<1>3. /\ out'[c] = NoMsg /\ resp'[c] = NoResp
      /\ \A d \in Client : d # c => out'[d] = out[d] /\ req'[d] = req[d] /\ resp'[d] = resp[d]
  BY <1>1 DEF TypeOK
<1>4. TypeOK'
  BY <1>1, <1>2, Constants DEF TypeOK
<1>5. PendingTracked'
  <2>1. \A p \in pending : p.client \in Client /\ p.client # c
    BY <1>1 DEF TypeOK, Msg, IInv, PendingTracked, Waiting, Giveups
  <2>2. QED
    BY <1>1, <1>2, <1>3, <2>1 DEF IInv, PendingTracked
<1>6. ReplyMatches'
  BY <1>1, <1>3 DEF IInv, ReplyMatches, NoResp
<1>7. Fresh' /\ OutIsCurrent'
  BY <1>1, <1>2, <1>3 DEF IInv, Fresh, OutIsCurrent, Waiting, Giveups
<1>8. SenderLive' /\ PendingHasReader' /\ Owned' /\ WireExecuted'
  BY <1>1 DEF IInv, SenderLive, PendingHasReader, Owned, WireExecuted
<1>9. IdsBelow' /\ IdsUnique'
  BY <1>1, <1>3 DEF IInv, IdsBelow, IdsUnique, Travels
<1>10. QED
  BY <1>4, <1>5, <1>6, <1>7, <1>8, <1>9 DEF IInv

\* Handing an answer to the tasks of a set of pending requests and taking
\* those requests out of the map keeps the two in step.
LEMMA DeliverInv ==
  ASSUME IInv, NEW P \in SUBSET pending, NEW a \in Response, a # NoResp, Deliver(P, a),
         pending' = pending \ P, UNCHANGED <<pc, num, req, out, executed>>,
         a.kind = "result" => \A p \in P : a.msg = p /\ <<p.client, p.n>> \in executed
  PROVE  resp' \in [Client -> Response] /\ PendingTracked' /\ ReplyMatches' /\ Fresh'
<1>1. /\ TypeOK /\ \A p \in pending : p \in Msg /\ p.client \in Client
      /\ \A p \in pending : pc[p.client] \in Waiting /\ out[p.client] = p
  BY DEF IInv, TypeOK, Msg, PendingTracked
<1>2. /\ resp' \in [Client -> Response]
      /\ \A c \in Client : \/ resp'[c] = resp[c] /\ ~\E p \in P : p.client = c /\ Listening(p)
                           \/ resp'[c] = a /\ \E p \in P : p.client = c /\ Listening(p)
  BY <1>1 DEF Deliver, TypeOK
<1>3. PendingTracked'
  <2>1. ASSUME NEW p \in pending'
        PROVE  /\ pc'[p.client] \in Waiting /\ out'[p.client] = p
               /\ pc'[p.client] \in {"send", "await"} => resp'[p.client] = NoResp
    <3>1. p \in pending /\ p \notin P /\ p.client \in Client
      BY <1>1
    <3>2. ~\E q \in P : q.client = p.client
      BY <1>1, <3>1
    <3>3. resp'[p.client] = resp[p.client]
      BY <1>2, <3>1, <3>2
    <3>4. QED
      BY <3>1, <3>3 DEF IInv, PendingTracked
  <2>2. ASSUME NEW c \in Client, pc'[c] \in {"send", "await"}, resp'[c] = NoResp
        PROVE  out'[c] \in pending'
    <3>1. resp[c] = NoResp /\ ~\E p \in P : p.client = c /\ Listening(p)
      BY <1>2, <2>2
    <3>2. out[c] \in pending /\ out[c].client = c /\ out[c].n = num[c]
      BY <1>1, <2>2, <3>1, ConstAssumption DEF IInv, PendingTracked, OutIsCurrent
    <3>3. Listening(out[c])
      BY <2>2, <3>2 DEF Listening
    <3>4. QED
      BY <3>1, <3>2, <3>3
  <2>3. QED
    BY <2>1, <2>2 DEF PendingTracked
<1>4. ReplyMatches'
  <2> SUFFICES ASSUME NEW c \in Client, resp'[c].kind = "result"
               PROVE  /\ resp'[c].msg = out[c]
                      /\ out[c].n = num[c] /\ out[c].bid # NoBrowser
                      /\ req[c].target \in {out[c].bid, AnyBrowser}
                      /\ <<c, num[c]>> \in executed
    BY DEF ReplyMatches
  <2>1. CASE resp'[c] = resp[c]
    BY <2>1 DEF IInv, ReplyMatches
  <2>2. CASE resp'[c] = a /\ \E p \in P : p.client = c /\ Listening(p)
    <3>1. PICK p \in P : p.client = c /\ Listening(p)
      BY <2>2
    <3>2. out[c] = p /\ p \in Msg /\ p # NoMsg /\ p.n = num[c]
      BY <1>1, <3>1, ConstAssumption DEF Listening
    <3>3. p.bid # NoBrowser
      BY <3>2, ConstAssumption DEF Msg
    <3>4. req[c].target \in {p.bid, AnyBrowser}
      BY <3>2 DEF IInv, OutIsCurrent
    <3>5. a.msg = p /\ <<p.client, p.n>> \in executed
      BY <2>2, <3>1
    <3>6. QED
      BY <2>2, <3>1, <3>2, <3>3, <3>4, <3>5
  <2>3. QED
    BY <1>2, <2>1, <2>2
<1>5. Fresh'
  BY <1>2 DEF IInv, Fresh, Listening
<1>6. QED
  BY <1>2, <1>3, <1>4, <1>5

\* A reply resolves at most the request it answers: its id is that request's.
LEMMA ReadReplyInv ==
  ASSUME IInv, NEW e \in Conn, NEW r \in wire[e], ReadReply(e, r)
  PROVE  IInv'
<1> USE DEF session
<1>1. /\ TypeOK /\ r \in Msg /\ wire' = [wire EXCEPT ![e] = @ \ {r}]
      /\ pending' = pending \ Resolves(r)
      /\ UNCHANGED <<sess, caps, granted, extensions, nextExtId, pc, num, req, out, via,
                     conn, owner, ws, stalled, browser>>
  BY DEF ReadReply, IInv, TypeOK
<1>2. Resolves(r) \in SUBSET pending /\ Resolves(r) \subseteq {r}
  <2>1. \A p \in pending : p.client \in Client /\ out[p.client] = p /\ p # NoMsg
    BY <1>1, ConstAssumption DEF IInv, TypeOK, Msg, PendingTracked
  <2>2. Travels(r)
    BY DEF Travels
  <2>3. \A p \in pending : p.id = r.id => p = r
    BY <1>1, <2>1, <2>2 DEF IInv, IdsUnique
  <2>4. QED
    BY <2>3 DEF Resolves
<1>3. <<r.client, r.n>> \in executed
  BY <1>1 DEF IInv, WireExecuted
<1>4. PICK a \in {[kind |-> "result", msg |-> r], Answer("closed")} : Deliver(Resolves(r), a)
  BY DEF ReadReply
<1>5. /\ a \in Response /\ a # NoResp
      /\ a.kind = "result" => \A p \in Resolves(r) : a.msg = p /\ <<p.client, p.n>> \in executed
  <2>1. {"result", "closed"} \subseteq Kinds
    BY DEF Kinds
  <2>2. CASE a = [kind |-> "result", msg |-> r]
    BY <1>1, <1>2, <1>3, <2>1, <2>2 DEF Response, NoResp
  <2>3. CASE a = Answer("closed")
    BY <2>1, <2>3 DEF Response, NoResp, Answer
  <2>4. QED
    BY <1>4, <2>2, <2>3
<1>6. resp' \in [Client -> Response] /\ PendingTracked' /\ ReplyMatches' /\ Fresh'
  BY <1>1, <1>2, <1>4, <1>5, DeliverInv DEF browser
<1>7. TypeOK'
  BY <1>1, <1>6 DEF TypeOK, browser
<1>8. OutIsCurrent' /\ SenderLive' /\ Owned'
  BY <1>1 DEF IInv, OutIsCurrent, SenderLive, Owned
<1>9. PendingHasReader'
  BY <1>1 DEF IInv, PendingHasReader
<1>10. WireExecuted'
  BY <1>1 DEF IInv, WireExecuted, TypeOK, browser
<1>11. IdsBelow' /\ IdsUnique'
  <2>1. \A m \in Msg : Travels(m)' => Travels(m)
    BY <1>1 DEF Travels, TypeOK, browser
  <2>2. QED
    BY <1>1, <2>1 DEF IInv, IdsBelow, IdsUnique
<1>12. QED
  BY <1>6, <1>7, <1>8, <1>9, <1>10, <1>11 DEF IInv

\* The end of a connection fails the requests of its browser; those of other
\* browsers keep their readers.
LEMMA DisconnectInv ==
  ASSUME IInv, NEW e \in Conn, Disconnect(e)
  PROVE  IInv'
<1> USE DEF session
<1>1. /\ TypeOK /\ conn[e] = "open" /\ conn' = [conn EXCEPT ![e] = "closed"]
      /\ wire' = [wire EXCEPT ![e] = {}]
      /\ extensions' = [extensions EXCEPT ![owner[e]] = NoConn]
      /\ pending' = pending \ PendingOn(owner[e])
      /\ Deliver(PendingOn(owner[e]), Answer("disconnected"))
      /\ UNCHANGED <<sess, caps, granted, nextExtId, pc, num, req, out, via,
                     owner, ws, stalled, browser>>
  BY DEF Disconnect, EndOfConnection, RemoveExtension, IInv
<1>2. owner[e] \in Browser
  BY <1>1 DEF IInv, Owned
<1>3. resp' \in [Client -> Response] /\ PendingTracked' /\ ReplyMatches' /\ Fresh'
  <2>1. /\ Answer("disconnected") \in Response /\ Answer("disconnected") # NoResp
        /\ Answer("disconnected").kind # "result"
    BY Constants DEF Answer, NoResp
  <2>2. PendingOn(owner[e]) \in SUBSET pending
    BY DEF PendingOn
  <2>3. UNCHANGED <<pc, num, req, out, executed>>
    BY <1>1 DEF browser
  <2>4. QED
    BY <1>1, <2>1, <2>2, <2>3, DeliverInv
<1>4. TypeOK'
  <2>1. /\ conn' \in [Conn -> {"unused", "registering", "open", "closed"}]
        /\ wire' \in [Conn -> SUBSET Msg]
        /\ extensions' \in [Browser -> Conn \cup {NoConn}] /\ pending' \in SUBSET Msg
    BY <1>1 DEF TypeOK
  <2>2. QED
    BY <1>1, <1>3, <2>1 DEF TypeOK, browser
<1>5. OutIsCurrent' /\ Owned'
  BY <1>1 DEF IInv, OutIsCurrent, Owned, TypeOK
<1>6. SenderLive'
  <2> SUFFICES ASSUME NEW b \in Browser, extensions'[b] # NoConn
               PROVE  conn'[extensions'[b]] = "open" /\ owner'[extensions'[b]] = b
    BY DEF SenderLive
  <2>1. b # owner[e] /\ extensions'[b] = extensions[b]
    BY <1>1, <1>2 DEF TypeOK
  <2>2. conn[extensions[b]] = "open" /\ owner[extensions[b]] = b /\ extensions[b] \in Conn
    BY <1>1, <2>1 DEF IInv, SenderLive, TypeOK
  <2>3. QED
    BY <1>1, <2>1, <2>2 DEF TypeOK
<1>7. PendingHasReader'
  <2> SUFFICES ASSUME NEW p \in pending'
               PROVE  \E f \in Conn : conn'[f] = "open" /\ owner'[f] = p.bid
    BY DEF PendingHasReader
  <2>1. p \in pending /\ p.bid # owner[e]
    BY <1>1 DEF PendingOn
  <2>2. PICK f \in Conn : conn[f] = "open" /\ owner[f] = p.bid
    BY <2>1 DEF IInv, PendingHasReader
  <2>3. QED
    BY <1>1, <2>1, <2>2 DEF TypeOK
<1>8. WireExecuted'
  BY <1>1 DEF IInv, WireExecuted, TypeOK, browser
<1>9. IdsBelow' /\ IdsUnique'
  <2>1. \A m \in Msg : Travels(m)' => Travels(m)
    BY <1>1 DEF Travels, TypeOK, browser
  <2>2. QED
    BY <1>1, <2>1 DEF IInv, IdsBelow, IdsUnique
<1>10. QED
  BY <1>3, <1>4, <1>5, <1>6, <1>7, <1>8, <1>9 DEF IInv

\* A new sender is the one of an open connection of its browser.
LEMMA RegisterInv ==
  ASSUME IInv, NEW e \in Conn, AddExtension(e) \/ RegistrationFails(e)
  PROVE  IInv'
<1> USE DEF session, task, browser
<1>1. /\ TypeOK /\ conn[e] = "registering" /\ owner[e] \in Browser
      /\ UNCHANGED <<sess, caps, granted, pending, nextExtId, pc, num, req, out, via, resp,
                     owner, wire, ws, stalled, inbox, dispatched, executed>>
  BY DEF AddExtension, RegistrationFails, IInv, Owned
<1>2. \/ /\ conn' = [conn EXCEPT ![e] = "open"]
         /\ extensions' = [extensions EXCEPT ![owner[e]] = e]
      \/ conn' = [conn EXCEPT ![e] = "closed"] /\ UNCHANGED extensions
  BY DEF AddExtension, RegistrationFails
<1>3. TypeOK'
  <2>1. /\ conn' \in [Conn -> {"unused", "registering", "open", "closed"}]
        /\ extensions' \in [Browser -> Conn \cup {NoConn}]
    BY <1>1, <1>2 DEF TypeOK
  <2>2. QED
    BY <1>1, <2>1 DEF TypeOK
<1>4. \A f \in Conn : conn[f] = "open" => f # e /\ conn'[f] = "open"
  BY <1>1, <1>2 DEF TypeOK
<1>5. SenderLive'
  <2> SUFFICES ASSUME NEW b \in Browser, extensions'[b] # NoConn
               PROVE  conn'[extensions'[b]] = "open" /\ owner[extensions'[b]] = b
    BY <1>1 DEF SenderLive
  <2>1. CASE extensions'[b] = extensions[b]
    BY <1>1, <1>4, <2>1 DEF IInv, SenderLive, TypeOK
  <2>2. CASE extensions'[b] # extensions[b]
    BY <1>1, <1>2, <2>2 DEF TypeOK
  <2>3. QED
    BY <2>1, <2>2
<1>6. PendingHasReader'
  BY <1>1, <1>4 DEF IInv, PendingHasReader
<1>7. Owned'
  BY <1>1, <1>2 DEF IInv, Owned, TypeOK
<1>8. PendingTracked' /\ ReplyMatches' /\ Fresh' /\ OutIsCurrent' /\ WireExecuted'
  BY <1>1 DEF IInv, PendingTracked, ReplyMatches, Fresh, OutIsCurrent, WireExecuted
<1>9. IdsBelow' /\ IdsUnique'
  BY <1>1 DEF IInv, IdsBelow, IdsUnique, Travels
<1>10. QED
  BY <1>3, <1>5, <1>6, <1>7, <1>8, <1>9 DEF IInv

\* The extensions open, lose and stall sockets without touching the bridge.
LEMMA SocketInv ==
  ASSUME IInv, NEW b \in Browser,
         (\E e \in Conn : Connect(b, e)) \/ Drop(b) \/ Stall(b)
  PROVE  IInv'
<1> USE DEF session, task, browser
<1>1. /\ TypeOK
      /\ UNCHANGED <<sess, caps, granted, extensions, pending, nextExtId, pc, num, req, out,
                     via, resp, wire, inbox, dispatched, executed>>
  BY DEF Connect, Drop, Stall, IInv
<1>2. /\ conn' \in [Conn -> {"unused", "registering", "open", "closed"}]
      /\ owner' \in [Conn -> Browser \cup {NoBrowser}]
      /\ ws' \in [Browser -> Conn \cup {NoConn}] /\ stalled' \in SUBSET Conn
      /\ \A f \in Conn : conn[f] = "open" => conn'[f] = "open" /\ owner'[f] = owner[f]
      /\ Owned'
  <2>1. CASE \E e \in Conn : Connect(b, e)
    <3>1. PICK e \in Conn : Connect(b, e)
      BY <2>1
    <3>2. QED
      BY <1>1, <3>1 DEF Connect, TypeOK, IInv, Owned
  <2>2. CASE Drop(b)
    BY <1>1, <2>2 DEF Drop, TypeOK, IInv, Owned
  <2>3. CASE Stall(b)
    BY <1>1, <2>3 DEF Stall, TypeOK, IInv, Owned
  <2>4. QED
    BY <2>1, <2>2, <2>3
<1>3. TypeOK'
  BY <1>1, <1>2 DEF TypeOK
<1>4. SenderLive' /\ PendingHasReader'
  BY <1>1, <1>2 DEF IInv, SenderLive, PendingHasReader, TypeOK
<1>5. PendingTracked' /\ ReplyMatches' /\ Fresh' /\ OutIsCurrent' /\ WireExecuted'
  BY <1>1 DEF IInv, PendingTracked, ReplyMatches, Fresh, OutIsCurrent, WireExecuted
<1>6. IdsBelow' /\ IdsUnique'
  BY <1>1 DEF IInv, IdsBelow, IdsUnique, Travels
<1>7. QED
  BY <1>2, <1>3, <1>4, <1>5, <1>6 DEF IInv

\* A reply goes on a wire only together with its execution.
LEMMA ExecuteInv ==
  ASSUME IInv, NEW b \in Browser, NEW r \in inbox[b], Execute(b, r)
  PROVE  IInv'
<1> USE DEF session, task
<1>1. /\ TypeOK /\ r \in Msg /\ inbox' = [inbox EXCEPT ![b] = @ \ {r}]
      /\ executed' = executed \cup {<<r.client, r.n>>}
      /\ \/ UNCHANGED wire
         \/ ws[b] \in Conn /\ wire' = [wire EXCEPT ![ws[b]] = @ \cup {r}]
      /\ UNCHANGED <<sess, caps, granted, extensions, pending, nextExtId, pc, num, req, out,
                     via, resp, conn, owner, ws, stalled, dispatched>>
  BY DEF Execute, IInv, TypeOK
<1>2. TypeOK'
  <2>1. <<r.client, r.n>> \in Client \X Nat
    BY <1>1 DEF Msg
  <2>2. executed' \in SUBSET (Client \X Nat)
    BY <1>1, <2>1 DEF TypeOK
  <2>3. inbox' \in [Browser -> SUBSET Msg] /\ wire' \in [Conn -> SUBSET Msg]
    BY <1>1 DEF TypeOK
  <2>4. QED
    BY <1>1, <2>2, <2>3 DEF TypeOK
<1>3. ReplyMatches'
  BY <1>1 DEF IInv, ReplyMatches
<1>4. WireExecuted'
  <2>1. \A e \in Conn : wire'[e] \subseteq wire[e] \cup {r}
    BY <1>1 DEF TypeOK
  <2>2. ASSUME NEW e \in Conn, NEW m \in wire'[e]
        PROVE  <<m.client, m.n>> \in executed'
    BY <1>1, <2>1, <2>2 DEF IInv, WireExecuted
  <2>3. QED
    BY <2>2 DEF WireExecuted
<1>5. PendingTracked' /\ SenderLive' /\ PendingHasReader' /\ Fresh' /\ OutIsCurrent' /\ Owned'
  BY <1>1 DEF IInv, PendingTracked, SenderLive, PendingHasReader, Fresh, OutIsCurrent, Owned
<1>6. IdsBelow' /\ IdsUnique'
  <2>1. \A m \in Msg : Travels(m)' => Travels(m)
    BY <1>1 DEF Travels, TypeOK
  <2>2. QED
    BY <1>1, <2>1 DEF IInv, IdsBelow, IdsUnique
<1>7. QED
  BY <1>2, <1>3, <1>4, <1>5, <1>6 DEF IInv

-----------------------------------------------------------------------------
\* Every step of the bridge, its clients and the browsers preserves IInv.
LEMMA NextInv == IInv /\ [Next]_vars => IInv'
<1> SUFFICES ASSUME IInv, [Next]_vars PROVE IInv'
  OBVIOUS
<1>1. ASSUME NEW c \in Client, TaskStep(c)
      PROVE  IInv'
  <2>1. CASE CheckSession(c) \/ Forward(c)
    BY <2>1, CheckSessionInv, ForwardInv
  <2>2. CASE SendToExtension(c)
    BY <2>2, SendToExtensionInv
  <2>3. CASE SendToDead(c) \/ TakeReply(c) \/ TimeOut(c)
    BY <2>3, MoveInv
  <2>4. CASE GiveUp(c) \/ Respond(c)
    BY <2>4, GiveUpInv, RespondInv
  <2>5. QED
    BY <1>1, <2>1, <2>2, <2>3, <2>4 DEF TaskStep
<1>2. ASSUME NEW c \in Client, ClientStep(c)
      PROVE  IInv'
  BY <1>2, LocalInv, ReceiveRequestInv, MoveInv DEF ClientStep
<1>3. ASSUME NEW e \in Conn, ConnStep(e)
      PROVE  IInv'
  BY <1>3, RegisterInv, ReadReplyInv, DisconnectInv DEF ConnStep
<1>4. ASSUME NEW b \in Browser, ExtensionStep(b)
      PROVE  IInv'
  BY <1>4, SocketInv, ExecuteInv DEF ExtensionStep
<1>5. CASE UNCHANGED vars
  <2>1. UNCHANGED <<sess, caps, granted, extensions, pending, nextExtId, pc, num, req, out,
                    via, resp, conn, owner, wire, ws, stalled, inbox, dispatched, executed>>
    BY <1>5 DEF vars, session, task, link, browser
  <2>2. TypeOK'
    BY <2>1 DEF IInv, TypeOK
  <2>3. PendingTracked' /\ ReplyMatches' /\ SenderLive' /\ PendingHasReader'
    BY <2>1 DEF IInv, PendingTracked, ReplyMatches, SenderLive, PendingHasReader
  <2>4. Fresh' /\ OutIsCurrent' /\ WireExecuted' /\ Owned'
    BY <2>1 DEF IInv, Fresh, OutIsCurrent, WireExecuted, Owned
  <2>5. IdsBelow' /\ IdsUnique'
    BY <2>1 DEF IInv, IdsBelow, IdsUnique, Travels
  <2>6. QED
    BY <2>2, <2>3, <2>4, <2>5 DEF IInv
<1>6. QED
  BY <1>1, <1>2, <1>3, <1>4, <1>5 DEF Next

\* The inductive invariant holds in every behaviour of the bridge.
LEMMA Invariance == Spec => []IInv
  BY InitInv, NextInv, PTL DEF Spec

\* The shared state of router.rs and of its tasks keeps its shape.
THEOREM TypeCorrect == Spec => []TypeOK
<1>1. IInv => TypeOK
  BY DEF IInv
<1>2. QED
  BY <1>1, Invariance, PTL

\* No path of forward_to_extension leaks a pending entry, and no task waits
\* for an answer nobody will send.
THEOREM PendingIsTracked == Spec => []PendingTracked
<1>1. IInv => PendingTracked
  BY DEF IInv
<1>2. QED
  BY <1>1, Invariance, PTL

\* A success response is the executed reply to the client's own request.
THEOREM RepliesMatch == Spec => []ReplyMatches
<1>1. IInv => ReplyMatches
  BY DEF IInv
<1>2. QED
  BY <1>1, Invariance, PTL

\* The sender map of BridgeState names only live connections.
THEOREM SendersAreLive == Spec => []SenderLive
<1>1. IInv => SenderLive
  BY DEF IInv
<1>2. QED
  BY <1>1, Invariance, PTL

\* Whatever is pending has a reader that will deliver or fail it.
THEOREM PendingIsRead == Spec => []PendingHasReader
<1>1. IInv => PendingHasReader
  BY DEF IInv
<1>2. QED
  BY <1>1, Invariance, PTL
-----------------------------------------------------------------------------
(* The bridge implements the broker.                                       *)

\* What has been handed to a browser: a request of the client's that has been
\* sent, and not the one a task has yet to send or has found too large.
OnceSent ==
  /\ \A c \in Client, n \in Nat : <<c, n>> \in dispatched => n <= num[c]
  /\ \A c \in Client : pc[c] \in {"checked", "ready", "send", "toolarge"} => <<c, num[c]>> \notin dispatched

\* What waits in a browser has been handed out, has not run, and waits in
\* that browser only.
OnceInbox ==
  /\ \A b \in Browser : \A m \in inbox[b] : <<m.client, m.n>> \in dispatched \ executed
  /\ \A a, b \in Browser : \A l \in inbox[a], m \in inbox[b] :
       l.client = m.client /\ l.n = m.n => a = b /\ l = m

\* The channel of a task that has not taken its answer holds none, or what a
\* reader task has put there.
Replied == \A c \in Client :
  pc[c] # "respond" => resp[c].kind \in {"none", "result", "closed", "disconnected"}

Once == OnceSent /\ OnceInbox /\ Replied /\ executed \subseteq dispatched

LEMMA OnceInit == Init => Once
  BY DEF Init, Once, OnceSent, OnceInbox, Replied, NoResp

\* A request that is sent now has not been sent before.
LEMMA OnceSendToExtension ==
  ASSUME IInv, Once, NEW c \in Client, SendToExtension(c)
  PROVE  Once'
<1> DEFINE m == out[c]
           b == m.bid
<1>1. TypeOK /\ pc[c] = "send" /\ <<c, num[c]>> \notin dispatched
  BY DEF IInv, Once, OnceSent, SendToExtension
<1>2. m \in Msg /\ m.client = c /\ m.n = num[c] /\ b \in Browser
  BY <1>1 DEF IInv, OutIsCurrent, TypeOK, Msg, Waiting
<1>3. /\ dispatched' = dispatched \cup {<<c, num[c]>>} /\ executed' = executed /\ num' = num
      /\ inbox' = [inbox EXCEPT ![b] = @ \cup {m}]
      /\ pc'[c] = "await" /\ resp' = resp /\ \A d \in Client : d # c => pc'[d] = pc[d]
  BY <1>1 DEF SendToExtension, Goto, TypeOK
<1>4. \A a \in Browser : inbox'[a] \subseteq inbox[a] \cup {m} /\ (a # b => inbox'[a] = inbox[a])
  BY <1>1, <1>2, <1>3 DEF TypeOK
<1>5. OnceSent'
  BY <1>1, <1>3 DEF Once, OnceSent, TypeOK
<1>6. OnceInbox'
  <2>1. \A a \in Browser : \A l \in inbox[a] : ~(l.client = c /\ l.n = num[c])
    BY <1>1 DEF Once, OnceInbox
  <2>2. <<c, num[c]>> \notin executed
    BY <1>1 DEF Once
  <2>3. QED
    BY <1>2, <1>3, <1>4, <2>1, <2>2 DEF Once, OnceInbox
<1>7. Replied'
  BY <1>1, <1>3 DEF Once, Replied
<1>8. QED
  BY <1>3, <1>5, <1>6, <1>7 DEF Once

\* A browser runs what it has been handed, and then has it no more.
LEMMA OnceExecute ==
  ASSUME IInv, Once, NEW b \in Browser, NEW r \in inbox[b], Execute(b, r)
  PROVE  Once'
<1>1. TypeOK /\ <<r.client, r.n>> \in dispatched
  BY DEF IInv, Once, OnceInbox
<1>2. /\ executed' = executed \cup {<<r.client, r.n>>}
      /\ inbox' = [inbox EXCEPT ![b] = @ \ {r}]
      /\ UNCHANGED <<pc, num, resp, dispatched>>
  BY DEF Execute, task
<1>3. \A a \in Browser : \A m \in inbox'[a] : m \in inbox[a] /\ ~(a = b /\ m = r)
  BY <1>1, <1>2 DEF TypeOK
<1>4. OnceInbox'
  BY <1>2, <1>3 DEF Once, OnceInbox
<1>5. QED
  BY <1>1, <1>2, <1>4 DEF Once, OnceSent, Replied

\* Every other step leaves the browsers alone, and a request is new, or goes
\* on to where it has not been sent.
LEMMA OnceOther ==
  ASSUME IInv, Once, UNCHANGED browser, Replied',
         \A c \in Client :
           \/ pc'[c] \in {"checked", "respond"} /\ pc[c] = "idle" /\ num'[c] = num[c] + 1
           \/ num'[c] = num[c] /\ (pc'[c] = pc[c] \/ pc'[c] \notin {"checked", "ready", "send", "toolarge"})
           \/ num'[c] = num[c] /\ pc[c] \in {"checked", "ready"}
  PROVE  Once'
<1>1. num \in [Client -> Nat] /\ UNCHANGED <<inbox, dispatched, executed>>
  BY DEF IInv, TypeOK, browser
<1>2. OnceSent'
  BY <1>1 DEF Once, OnceSent
<1>3. QED
  BY <1>1, <1>2 DEF Once, OnceInbox

-----------------------------------------------------------------------------
(* What the broker sees of a step.                                         *)

Others(c) == \A d \in Client : d # c => pc'[d] = pc[d] /\ resp'[d] = resp[d]

\* The broker's functions change at c only.
LEMMA ViewOf ==
  ASSUME NEW c \in Client, Others(c)
  PROVE  /\ [d \in Client |-> Phase(d)]' = [[d \in Client |-> Phase(d)] EXCEPT ![c] = Phase(c)']
         /\ [d \in Client |-> Verdict(d)]' = [[d \in Client |-> Verdict(d)] EXCEPT ![c] = Verdict(c)']
  BY DEF Others, Phase, Verdict

LEMMA SubmitStep ==
  ASSUME NEW c \in Client, Others(c), Phase(c) = "idle", Phase(c)' = "busy",
         Verdict(c)' \in {"none", "rejected", "uncertain"},
         num' = [num EXCEPT ![c] = @ + 1], UNCHANGED <<dispatched, executed>>
  PROVE  Broker!Next
<1>1. Broker!Submit(c)
  BY ViewOf DEF Broker!Submit
<1>2. QED
  BY <1>1 DEF Broker!Next

LEMMA DecideStep ==
  ASSUME NEW c \in Client, Others(c), Phase(c) = "busy", Phase(c)' = "busy",
         Verdict(c) = "none", Verdict(c)' # "none",
         Verdict(c)' = "result" => <<c, num[c]>> \in executed,
         Verdict(c)' = "rejected" => <<c, num[c]>> \notin dispatched,
         UNCHANGED <<num, dispatched, executed>>
  PROVE  Broker!Next
<1>1. Verdict(c)' \in Broker!Verdicts
  BY DEF Verdict, Broker!Verdicts
<1>2. [d \in Client |-> Phase(d)]' = [d \in Client |-> Phase(d)]
  BY ViewOf
<1>3. Broker!Decide(c, Verdict(c)')
  BY <1>1, <1>2, ViewOf DEF Broker!Decide, Broker!Current
<1>4. QED
  BY <1>1, <1>3 DEF Broker!Next

LEMMA CloseStep ==
  ASSUME NEW c \in Client, Others(c), Phase(c) = "busy", Phase(c)' = "idle",
         Verdict(c) # "none", Verdict(c)' = "none", UNCHANGED <<num, dispatched, executed>>
  PROVE  Broker!Next
<1>1. Broker!Close(c)
  BY ViewOf DEF Broker!Close
<1>2. QED
  BY <1>1 DEF Broker!Next

\* No client's phase or verdict changes.
Unseen == \A c \in Client : Phase(c)' = Phase(c) /\ Verdict(c)' = Verdict(c)

LEMMA UnseenView ==
  ASSUME Unseen
  PROVE  /\ [d \in Client |-> Phase(d)]' = [d \in Client |-> Phase(d)]
         /\ [d \in Client |-> Verdict(d)]' = [d \in Client |-> Verdict(d)]
  BY DEF Unseen

LEMMA StutterStep ==
  ASSUME Unseen, UNCHANGED <<num, dispatched, executed>>
  PROVE  UNCHANGED Broker!vars
  BY UnseenView DEF Broker!vars

-----------------------------------------------------------------------------
(* The steps of the bridge.  Each lemma also gives what OnceOther needs.   *)

\* A task that has not been answered stays so while it moves.
LEMMA TaskMoves ==
  ASSUME TypeOK, NEW c \in Client, NEW l \in Labels, Goto(c, l), UNCHANGED resp
  PROVE  Others(c) /\ pc'[c] = l /\ resp'[c] = resp[c]
  BY GotoLabel DEF Others

LEMMA TaskFinishes ==
  ASSUME TypeOK, NEW c \in Client, NEW k \in Kinds, Finish(c, k)
  PROVE  /\ Others(c) /\ pc'[c] = "respond" /\ resp'[c] = Answer(k) /\ Phase(c)' = "busy"
         /\ Verdict(c)' = IF k \in Rejections THEN "rejected"
                          ELSE IF k = "result" THEN "result" ELSE "uncertain"
<1>1. Others(c) /\ pc'[c] = "respond" /\ resp'[c] = Answer(k)
  BY FinishAnswer DEF Others
<1>2. QED
  BY <1>1 DEF Phase, Verdict, Answer

\* A task's own step puts nothing in its channel that it does not take at once.
LEMMA OthersReplied ==
  ASSUME Once, NEW c \in Client, Others(c),
         \/ pc'[c] = "respond"
         \/ resp'[c].kind = "none"
         \/ pc[c] # "respond" /\ resp'[c] = resp[c]
  PROVE  Replied'
  BY DEF Once, Replied, Others

\* A new request is a Submit, also when it is answered at once.
LEMMA NewRequestRefines ==
  ASSUME IInv, Once, NEW c \in Client,
         \/ \E want \in SUBSET Allowed : Initialize(c, want)
         \/ Shutdown(c) \/ Exit(c) \/ BrowserList(c)
         \/ \E m \in Method, t \in Browser \cup {AnyBrowser} : ReceiveRequest(c, m, t)
  PROVE  Once' /\ Broker!Next
<1>1. TypeOK
  BY DEF IInv
<1>2. /\ pc[c] = "idle" /\ num' = [num EXCEPT ![c] = @ + 1] /\ UNCHANGED browser
      /\ \/ \E k \in {"local", "unknown", "unsupported"} : Finish(c, k)
         \/ Goto(c, "checked") /\ UNCHANGED resp
  BY DEF Initialize, Shutdown, Exit, BrowserList, Local, ReceiveRequest
<1>3. /\ Others(c) /\ pc'[c] \in {"checked", "respond"} /\ Phase(c)' = "busy"
      /\ Verdict(c)' \in {"none", "rejected", "uncertain"}
      /\ pc'[c] = "checked" => resp'[c] = resp[c]
  <2>1. ASSUME NEW k \in {"local", "unknown", "unsupported"}, Finish(c, k)
        PROVE  <1>3!:
    BY <1>1, <2>1, TaskFinishes, Constants DEF Rejections
  <2>2. CASE Goto(c, "checked") /\ UNCHANGED resp
    BY <1>1, <2>2, TaskMoves, Constants DEF Phase, Verdict
  <2>3. QED
    BY <1>2, <2>1, <2>2
<1>4. num'[c] = num[c] + 1 /\ \A d \in Client : d # c => num'[d] = num[d]
  BY <1>1, <1>2 DEF TypeOK
<1>5. Once'
  BY <1>2, <1>3, <1>4, OnceOther, OthersReplied DEF Others
<1>6. Broker!Next
  BY <1>2, <1>3, SubmitStep DEF Phase, browser
<1>7. QED
  BY <1>5, <1>6

\* A request is rejected only where it has not been sent.
LEMMA RefusalRefines ==
  ASSUME IInv, Once, NEW c \in Client, NEW k \in Kinds \ {"result"},
         pc[c] \in {"checked", "ready"} \cup Giveups,
         k \in Rejections => pc[c] \in {"checked", "ready", "toolarge"},
         Finish(c, k), UNCHANGED <<num, browser>>
  PROVE  Once' /\ Broker!Next
<1>1. TypeOK /\ UNCHANGED <<dispatched, executed>>
  BY DEF IInv, browser
<1>2. /\ Others(c) /\ pc'[c] = "respond" /\ Phase(c)' = "busy"
      /\ Verdict(c)' = IF k \in Rejections THEN "rejected" ELSE "uncertain"
  BY <1>1, TaskFinishes
<1>3. Phase(c) = "busy" /\ Verdict(c) = "none"
  BY DEF Phase, Verdict, Giveups
<1>4. k \in Rejections => <<c, num[c]>> \notin dispatched
  BY DEF Once, OnceSent
<1>5. Once'
  BY <1>2, OnceOther, OthersReplied DEF Others
<1>6. Broker!Next
  BY <1>1, <1>2, <1>3, <1>4, DecideStep
<1>7. QED
  BY <1>5, <1>6

\* A task that moves before it has an answer to give, or leaves.
LEMMA MoveRefines ==
  ASSUME IInv, Once, NEW c \in Client, NEW l \in Labels \ {"idle", "respond"}, Goto(c, l),
         pc[c] \notin {"gone", "respond"}, l = "gone" <=> pc[c] = "idle",
         l \in {"send", "toolarge"} => pc[c] = "ready",
         l = "ready" => pc[c] = "checked", l # "checked",
         UNCHANGED <<resp, num, browser>>
  PROVE  Once' /\ UNCHANGED Broker!vars
<1>1. Others(c) /\ pc'[c] = l /\ UNCHANGED <<dispatched, executed>>
  BY TaskMoves DEF IInv, browser
<1>2. Once'
  BY <1>1, OnceOther, OthersReplied DEF Others
<1>3. Unseen
  BY <1>1 DEF Unseen, Others, Phase, Verdict
<1>4. QED
  BY <1>1, <1>2, <1>3, StutterStep

LEMMA TaskRefines ==
  ASSUME IInv, Once, NEW c \in Client, TaskStep(c)
  PROVE  Once' /\ (Broker!Next \/ UNCHANGED Broker!vars)
<1> USE Constants
<1>1. CASE CheckSession(c)
  <2>1. pc[c] = "checked" /\ UNCHANGED <<num, browser>>
    BY <1>1 DEF CheckSession
  <2>2. \/ Finish(c, "blocked") \/ Finish(c, "uninitialized")
        \/ Goto(c, "ready") /\ UNCHANGED resp
    BY <1>1 DEF CheckSession
  <2>3. {"blocked", "uninitialized"} \subseteq Kinds \ {"result"}
    BY DEF Kinds, Rejections
  <2>4. QED
    BY <2>1, <2>2, <2>3, RefusalRefines, MoveRefines
<1>2. CASE Forward(c)
  <2>1. pc[c] = "ready" /\ UNCHANGED <<num, browser>>
    BY <1>2 DEF Forward
  <2>2. Finish(c, "noext") \/ (Goto(c, "send") /\ UNCHANGED resp) \/ (Goto(c, "toolarge") /\ UNCHANGED resp)
    BY <1>2 DEF Forward
  <2>3. "noext" \in Kinds \ {"result"} /\ {"send", "toolarge"} \subseteq Labels
    BY DEF Kinds, Rejections, Labels, Waiting, Giveups
  <2>4. QED
    BY <2>1, <2>2, <2>3, RefusalRefines, MoveRefines
<1>3. CASE SendToExtension(c)
  <2>1. /\ pc[c] = "send" /\ Goto(c, "await") /\ UNCHANGED <<num, resp, executed>>
        /\ dispatched' = dispatched \cup {<<c, num[c]>>}
    BY <1>3 DEF SendToExtension
  <2>2. Others(c) /\ pc'[c] = "await"
    BY <2>1, TaskMoves DEF IInv, Labels, Waiting
  <2>3. Unseen /\ Phase(c) = "busy" /\ Verdict(c) = "none" /\ <<c, num[c]>> \notin dispatched
    BY <2>1, <2>2 DEF Unseen, Others, Phase, Verdict, Once, OnceSent
  <2>4. Broker!Dispatch(c)
    BY <2>1, <2>3, UnseenView DEF Broker!Dispatch, Broker!Current
  <2>5. QED
    BY <1>3, <2>4, OnceSendToExtension DEF Broker!Next
<1>4. CASE SendToDead(c)
  <2>1. pc[c] = "send" /\ UNCHANGED <<num, resp, browser>> /\ (Goto(c, "await") \/ Goto(c, "sendfailed"))
    BY <1>4 DEF SendToDead
  <2>2. QED
    BY <2>1, MoveRefines DEF Labels, Waiting, Giveups
<1>5. CASE TimeOut(c)
  <2>1. pc[c] = "await" /\ UNCHANGED <<num, resp, browser>> /\ Goto(c, "timedout")
    BY <1>5 DEF TimeOut
  <2>2. QED
    BY <2>1, MoveRefines DEF Labels, Waiting, Giveups
<1>6. CASE GiveUp(c)
  <2>1. pc[c] \in Giveups /\ UNCHANGED <<num, browser>> /\ Finish(c, pc[c])
    BY <1>6 DEF GiveUp
  <2>2. pc[c] \in Kinds \ {"result"} /\ (pc[c] \in Rejections => pc[c] = "toolarge")
    BY <2>1 DEF Giveups, Rejections, Kinds
  <2>3. QED
    BY <2>1, <2>2, RefusalRefines
<1>7. CASE TakeReply(c)
  <2>1. pc[c] = "await" /\ resp[c] # NoResp /\ UNCHANGED <<num, resp, browser>> /\ Goto(c, "respond")
    BY <1>7 DEF TakeReply
  <2>2. Others(c) /\ pc'[c] = "respond" /\ resp'[c] = resp[c]
    BY <2>1, TaskMoves DEF IInv
  <2>3. resp[c].kind \notin Rejections
    BY <2>1 DEF Once, Replied, Rejections
  <2>4. resp[c].kind = "result" => <<c, num[c]>> \in executed
    BY DEF IInv, ReplyMatches
  <2>5. Broker!Next
    BY <2>1, <2>2, <2>3, <2>4, DecideStep DEF Phase, Verdict, browser
  <2>6. QED
    BY <2>1, <2>2, <2>5, OnceOther, OthersReplied DEF Others
<1>8. CASE Respond(c)
  <2>1. pc[c] = "respond" /\ UNCHANGED <<num, browser>>
    BY <1>8 DEF Respond
  <2>2. Others(c) /\ pc'[c] \in {"idle", "gone"} /\ resp'[c] = NoResp
    BY <1>8 DEF Respond, Goto, Others, IInv, TypeOK
  <2>3. Broker!Next
    BY <2>1, <2>2, CloseStep DEF Phase, Verdict, browser
  <2>4. QED
    BY <2>1, <2>2, <2>3, OnceOther, OthersReplied DEF Others, NoResp
<1>9. QED
  BY <1>1, <1>2, <1>3, <1>4, <1>5, <1>6, <1>7, <1>8 DEF TaskStep

\* A step that touches no task and no browser.
LEMMA QuietRefines ==
  ASSUME IInv, Once, UNCHANGED <<pc, num, resp, browser>>
  PROVE  Once' /\ UNCHANGED Broker!vars
<1>1. Replied' /\ Unseen
  BY DEF Once, Replied, Unseen, Phase, Verdict
<1>2. QED
  BY <1>1, OnceOther, StutterStep DEF browser

\* The readers fill the channels of tasks that still wait; the broker sees
\* nothing of it.
LEMMA DeliverRefines ==
  ASSUME IInv, Once, NEW P \in SUBSET Msg, NEW a \in Response, Deliver(P, a),
         a.kind \in {"result", "closed", "disconnected"}, UNCHANGED <<pc, num, browser>>
  PROVE  Once' /\ UNCHANGED Broker!vars
<1>1. \A c \in Client : resp'[c] = resp[c] \/ (resp'[c] = a /\ pc[c] # "respond")
  BY DEF Deliver, Listening
<1>2. Replied' /\ Unseen
  BY <1>1 DEF Once, Replied, Unseen, Phase, Verdict
<1>3. QED
  BY <1>2, OnceOther, StutterStep DEF browser

LEMMA ConnRefines ==
  ASSUME IInv, Once, NEW e \in Conn, ConnStep(e)
  PROVE  Once' /\ UNCHANGED Broker!vars
<1>1. TypeOK
  BY DEF IInv
<1>2. CASE AddExtension(e) \/ RegistrationFails(e)
  BY <1>2, QuietRefines DEF AddExtension, RegistrationFails, task
<1>3. ASSUME NEW r \in wire[e], ReadReply(e, r)
      PROVE  Once' /\ UNCHANGED Broker!vars
  <2>1. r \in Msg /\ Resolves(r) \in SUBSET Msg
    BY <1>1 DEF TypeOK, Resolves
  <2>2. [kind |-> "result", msg |-> r] \in Response /\ Answer("closed") \in Response
    BY <2>1, Constants DEF Response, Kinds
  <2>3. Answer("closed").kind = "closed"
    BY DEF Answer
  <2>4. QED
    BY <1>3, <2>1, <2>2, <2>3, DeliverRefines DEF ReadReply
<1>4. CASE Disconnect(e)
  <2>1. PendingOn(owner[e]) \in SUBSET Msg
    BY <1>1 DEF TypeOK, PendingOn
  <2>2. Answer("disconnected") \in Response /\ Answer("disconnected").kind = "disconnected"
    BY Constants DEF Answer
  <2>3. QED
    BY <1>4, <2>1, <2>2, DeliverRefines DEF Disconnect, EndOfConnection
<1>5. QED
  BY <1>2, <1>3, <1>4 DEF ConnStep

\* Running a request is the broker's Run: it has been handed out, and for the
\* first time.
LEMMA BrowserRefines ==
  ASSUME IInv, Once, NEW b \in Browser, ExtensionStep(b)
  PROVE  Once' /\ (Broker!Next \/ UNCHANGED Broker!vars)
<1>1. CASE (\E e \in Conn : Connect(b, e)) \/ Drop(b) \/ Stall(b)
  BY <1>1, QuietRefines DEF Connect, Drop, Stall, task
<1>2. ASSUME NEW r \in inbox[b], Execute(b, r)
      PROVE  Once' /\ Broker!Next
  <2>1. <<r.client, r.n>> \in dispatched \ executed
    BY DEF Once, OnceInbox
  <2>2. executed' = executed \cup {<<r.client, r.n>>} /\ UNCHANGED <<pc, num, resp, dispatched>>
    BY <1>2 DEF Execute, task
  <2>3. Unseen
    BY <2>2 DEF Unseen, Phase, Verdict
  <2>4. Broker!Run(<<r.client, r.n>>)
    BY <2>1, <2>2, <2>3, UnseenView DEF Broker!Run
  <2>5. QED
    BY <1>2, <2>1, <2>4, OnceExecute DEF Broker!Next
<1>3. QED
  BY <1>1, <1>2 DEF ExtensionStep

LEMMA StepRefines == IInv /\ Once /\ [Next]_vars => Once' /\ [Broker!Next]_Broker!vars
<1> SUFFICES ASSUME IInv, Once, [Next]_vars
             PROVE  Once' /\ (Broker!Next \/ UNCHANGED Broker!vars)
  OBVIOUS
<1>1. ASSUME NEW c \in Client, ClientStep(c)
      PROVE  Once' /\ (Broker!Next \/ UNCHANGED Broker!vars)
  <2>1. CASE ClientLeaves(c)
    <3>1. pc[c] = "idle" /\ Goto(c, "gone") /\ UNCHANGED <<resp, num, browser>>
      BY <2>1 DEF ClientLeaves
    <3>2. QED
      BY <3>1, Constants, MoveRefines
  <2>2. QED
    BY <1>1, <2>1, NewRequestRefines DEF ClientStep
<1>2. CASE UNCHANGED vars
  BY <1>2, QuietRefines DEF vars, task
<1>3. QED
  BY <1>1, <1>2, TaskRefines, ConnRefines, BrowserRefines DEF Next

LEMMA InitRefines == Init => Broker!Init
  BY DEF Init, Phase, Verdict, Broker!Init

LEMMA OnceInvariance == Spec => []Once
  BY OnceInit, Invariance, StepRefines, PTL DEF Spec

\* A client that gets a result, a rejection or an error may conclude from it
\* what RequestBroker says, for any clients, browsers and sockets.
THEOREM BridgeImplementsBroker == Spec => ImplementsBroker
  BY InitRefines, OnceInvariance, Invariance, StepRefines, PTL
  DEF Spec, ImplementsBroker, Broker!Spec

\* No request runs twice.
THEOREM RequestsRunOnce == Spec => RunsOnce
<1>1. Once => \A b \in Browser : \A r \in inbox[b] \ inbox'[b] : <<r.client, r.n>> \in dispatched \ executed
  BY DEF Once, OnceInbox
<1>2. QED
  BY <1>1, OnceInvariance, PTL DEF RunsOnce
=============================================================================
