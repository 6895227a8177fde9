------------------------ MODULE PermissionFlow_proofs ------------------------
(***************************************************************************)
(* The permission gates of PermissionFlow, for any number of requests and  *)
(* tabs.  One fact is added to make AskedBeforeRun inductive: a request    *)
(* that is still at the lists has not been asked about.                    *)
(***************************************************************************)
EXTENDS PermissionFlow, TLAPS

\* A request that is still at the lists has not been asked about.
GateFresh == \A r \in Req : Is(r, "lists") => request[r].gate = "none"

Stages == Working \cup {"free", "stuck"}
Record == [st : Stages, method : Methods, tab : Tab \cup {NoTab},
           gate : {"none", "ask"}, pressed : {"none", "allow", "deny"}]

\* A dialog that has been sent has a tab.
DialogRecord ==
  {d \in [st : {"none", "query", "sent", "open", "lost", "answered", "resolved"}, tab : Tab \cup {NoTab}] :
     d.st \in {"none", "query"} \/ d.tab \in Tab}

\* The type invariant but for what the requests wait with.
SharedOK ==
  /\ controllableTabs \subseteq Tab /\ active \in Tab \cup {NoTab}
  /\ dialog \in [Req -> DialogRecord]
  /\ responses \subseteq Req /\ closing \subseteq Tab /\ busy \in BOOLEAN

Facts == /\ SharedOK /\ request \in [Req -> Record]
         /\ pendingPermissions \subseteq Req /\ timers \subseteq Req

IInv == Facts /\ DialogsTracked /\ AskedBeforeRun /\ GateFresh /\ BusyHasRequest
-----------------------------------------------------------------------------
\* Only r is touched, and it becomes x.
Becomes(r, x) == request' = [request EXCEPT ![r] = x]

\* What a request may become without harm to the others: out of the dialog
\* with its entry and timer, into it with both.
LEMMA BecomesInv ==
  ASSUME IInv, NEW r \in Req, NEW x \in Record, Becomes(r, x),
         x.st = "dialog" => pendingPermissions' = pendingPermissions \cup {r} /\ timers' = timers \cup {r},
         x.st # "dialog" => pendingPermissions' = pendingPermissions \ {r} /\ timers' = timers \ {r},
         x.st = "run" /\ x.gate = "ask" => x.pressed = "allow",
         x.st = "lists" => x.gate = "none",
         busy' => x.st # "free", SharedOK'
  PROVE  IInv'
<1>1. request \in [Req -> Record] /\ pendingPermissions \subseteq Req /\ timers \subseteq Req
  BY DEF IInv, Facts
<1>2. request' \in [Req -> Record] /\ request'[r] = x /\ \A q \in Req : q # r => request'[q] = request[q]
  BY <1>1 DEF Becomes
<1>3. DialogsTracked'
  BY <1>1, <1>2 DEF IInv, DialogsTracked, Is
<1>4. AskedBeforeRun' /\ GateFresh'
  BY <1>1, <1>2 DEF IInv, AskedBeforeRun, GateFresh, Is
<1>5. BusyHasRequest'
  BY <1>2 DEF BusyHasRequest, Is
<1>6. pendingPermissions' \subseteq Req /\ timers' \subseteq Req
  BY <1>1, <1>2 DEF Record
<1>7. QED
  BY <1>2, <1>3, <1>4, <1>5, <1>6 DEF IInv, Facts

\* A step that touches neither the requests nor their entries and timers, and
\* does not switch the icon to "active".
LEMMA OthersInv ==
  ASSUME IInv, UNCHANGED <<request, pendingPermissions, timers>>, busy' => busy, SharedOK'
  PROVE  IInv'
<1>1. DialogsTracked' /\ AskedBeforeRun' /\ GateFresh' /\ BusyHasRequest'
  BY DEF IInv, DialogsTracked, AskedBeforeRun, GateFresh, BusyHasRequest, Is
<1>2. QED
  BY <1>1 DEF IInv, Facts

\* Without leaves a dialog a dialog.
LEMMA WithoutType ==
  ASSUME NEW ts, dialog \in [Req -> DialogRecord]
  PROVE  Without(dialog, ts) \in [Req -> DialogRecord]
  BY DEF Without, DialogRecord, NoDialog

\* Left, too.
LEMMA LeftType ==
  ASSUME NEW d \in DialogRecord
  PROVE  Left(d) \in DialogRecord
  BY DEF Left, DialogRecord, NoDialog

LEMMA FreeType ==
  /\ Free \in Record /\ Free.st = "free" /\ Free.gate = "none"
  /\ \A s \in Stages, m \in Methods, t \in Tab \cup {NoTab} :
       /\ [Free EXCEPT !.st = s] \in Record
       /\ [Free EXCEPT !.st = s, !.method = m] \in Record
       /\ [Free EXCEPT !.st = s, !.method = m, !.tab = t] \in Record
  BY DEF Free, Record, Stages, Methods, Scoped

LEMMA InitInv == Init => IInv
<1> SUFFICES ASSUME Init PROVE IInv
  OBVIOUS
<1>1. Free \in Record /\ NoDialog \in DialogRecord
  BY FreeType DEF NoDialog, DialogRecord
<1>2. Facts
  BY <1>1 DEF Init, Facts, SharedOK
<1>3. DialogsTracked /\ AskedBeforeRun /\ GateFresh /\ BusyHasRequest
  BY DEF Init, DialogsTracked, AskedBeforeRun, GateFresh, BusyHasRequest, Is, Free
<1>4. QED
  BY <1>2, <1>3 DEF IInv

\* The type invariant follows.
LEMMA FactsType == Facts => TypeOK
  BY DEF Facts, SharedOK, TypeOK, Record, Stages, DialogRecord

-----------------------------------------------------------------------------
(* The steps of a request.                                                 *)

\* A request that does not wait and ends.
LEMMA EndInv ==
  ASSUME IInv, NEW r \in Req, End(r),
         pendingPermissions' = pendingPermissions \ {r}, timers' = timers \ {r},
         SharedOK'
  PROVE  IInv'
<1>1. Becomes(r, Free) /\ Free \in Record /\ Free.st = "free" /\ Free.gate = "none" /\ ~busy'
  BY FreeType DEF End, Becomes
<1>2. QED
  BY <1>1, BecomesInv

\* A request that does not wait, or no longer, is refused.
LEMMA RefuseInv ==
  ASSUME IInv, NEW r \in Req, Refuse(r), ~Is(r, "free"),
         pendingPermissions' = pendingPermissions \ {r}, timers' = timers \ {r},
         active' \in Tab \cup {NoTab}, dialog' \in [Req -> DialogRecord],
         responses' \subseteq Req, closing' \subseteq Tab
  PROVE  IInv'
<1>1. Facts
  BY DEF IInv
<1>2. CASE Explicit(r)
  <2>1. controllableTabs' \subseteq Tab /\ End(r) /\ busy' = FALSE
    BY <1>1, <1>2 DEF Refuse, Facts, SharedOK, End
  <2>2. QED
    BY <2>1, EndInv DEF SharedOK
<1>3. CASE ~Explicit(r)
  <2> DEFINE x == [Free EXCEPT !.st = "demote"]
  <2>1. x \in Record /\ x.st = "demote"
    BY FreeType DEF Stages, Working, Methods, Free
  <2>2. Becomes(r, x) /\ UNCHANGED <<controllableTabs, busy>>
    BY <1>3 DEF Refuse, Becomes
  <2>3. QED
    BY <1>1, <2>1, <2>2, BecomesInv DEF Facts, SharedOK
<1>4. QED
  BY <1>2, <1>3

\* Settle ends the wait with a run, if allowed, or a refusal.
LEMMA SettleInv ==
  ASSUME IInv, NEW r \in pendingPermissions, NEW allowed \in BOOLEAN, Settle(r, allowed),
         allowed => request[r].pressed = "allow",
         active' \in Tab \cup {NoTab}, dialog' \in [Req -> DialogRecord],
         responses' \subseteq Req, closing' \subseteq Tab
  PROVE  IInv'
<1>1. Facts /\ r \in Req /\ Is(r, "dialog")
  BY DEF IInv, Facts, DialogsTracked
<1>2. pendingPermissions' = pendingPermissions \ {r} /\ timers' = timers \ {r}
  BY DEF Settle
<1>3. CASE allowed
  <2> DEFINE x == [request[r] EXCEPT !.st = "run"]
  <2>1. x \in Record /\ x.st = "run" /\ x.pressed = "allow"
    BY <1>1, <1>3 DEF Facts, Record, Stages, Working
  <2>2. Becomes(r, x) /\ UNCHANGED <<controllableTabs, busy>>
    BY <1>3 DEF Settle, Goto, Becomes
  <2>3. QED
    BY <1>1, <1>2, <2>1, <2>2, BecomesInv DEF Facts, SharedOK
<1>4. CASE ~allowed
  BY <1>1, <1>2, <1>4, RefuseInv DEF Settle, Is
<1>5. QED
  BY <1>3, <1>4
-----------------------------------------------------------------------------
(* The actions.                                                            *)

LEMMA TabCheckInv ==
  ASSUME IInv, NEW r \in Req, ~Is(r, "dialog"), NEW m \in Methods,
         NEW t, NEW g \in Tab \cup {NoTab}, TabCheck(r, m, t, g),
         UNCHANGED <<controllableTabs, active, dialogVars>>
  PROVE  IInv'
<1>1. Facts /\ r \notin pendingPermissions /\ r \notin timers
  BY DEF IInv, DialogsTracked
<1>2. pendingPermissions' = pendingPermissions \ {r} /\ timers' = timers \ {r}
  BY <1>1 DEF dialogVars
<1>3. CASE m \in Scoped /\ t \notin controllableTabs
  <2>1. End(r) /\ SharedOK'
    BY <1>1, <1>3 DEF TabCheck, End, Facts, SharedOK, dialogVars
  <2>2. QED
    BY <1>2, <2>1, EndInv
<1>4. CASE ~(m \in Scoped /\ t \notin controllableTabs)
  <2> DEFINE x == [Free EXCEPT !.st = "lists", !.method = m, !.tab = g]
  <2>1. x \in Record /\ x.st = "lists" /\ x.gate = "none"
    BY FreeType DEF Stages, Working, Free
  <2>2. Becomes(r, x) /\ SharedOK'
    BY <1>1, <1>4 DEF TabCheck, Becomes, Facts, SharedOK, dialogVars
  <2>3. QED
    BY <1>2, <2>1, <2>2, BecomesInv
<1>5. QED
  BY <1>3, <1>4

LEMMA HandleRequestInv ==
  ASSUME IInv, NEW r \in Req, HandleRequest(r)
  PROVE  IInv'
<1>1. PICK m \in Methods, t \in Tab \cup {NoTab} :
        IF t # NoTab THEN TabCheck(r, m, t, IF m \in Gated THEN t ELSE NoTab)
        ELSE /\ busy' = TRUE
             /\ request' = [request EXCEPT ![r] = [Free EXCEPT !.st = "lookup", !.method = m]]
  BY DEF HandleRequest
<1>2. Is(r, "free") /\ ~Is(r, "dialog") /\ UNCHANGED <<controllableTabs, active, dialogVars>>
  BY DEF HandleRequest, Is
<1>3. CASE t # NoTab
  BY <1>1, <1>2, <1>3, TabCheckInv
<1>4. CASE t = NoTab
  <2> DEFINE x == [Free EXCEPT !.st = "lookup", !.method = m]
  <2>1. x \in Record /\ x.st = "lookup"
    BY FreeType DEF Stages, Working, Free
  <2>2. Becomes(r, x) /\ busy'
    BY <1>1, <1>4 DEF Becomes
  <2>3. SharedOK' /\ pendingPermissions' = pendingPermissions \ {r} /\ timers' = timers \ {r}
    BY <1>1, <1>2, <1>4 DEF Facts, SharedOK, dialogVars, IInv, DialogsTracked
  <2>4. QED
    BY <2>1, <2>2, <2>3, BecomesInv
<1>5. QED
  BY <1>3, <1>4

\* A request that neither waits nor has been asked about goes to the stage s.
LEMMA GotoInv ==
  ASSUME IInv, NEW r \in Req, ~Is(r, "dialog"), NEW s \in Stages \ {"free", "dialog", "lists"}, Goto(r, s),
         request[r].gate = "none" \/ s # "run", SharedOK',
         UNCHANGED <<pendingPermissions, timers>>
  PROVE  IInv'
<1> DEFINE x == [request[r] EXCEPT !.st = s]
<1>1. Facts /\ r \notin pendingPermissions /\ r \notin timers
  BY DEF IInv, DialogsTracked
<1>2. x \in Record /\ x.st = s /\ x.gate = request[r].gate
  BY <1>1 DEF Facts, Record
<1>3. Becomes(r, x)
  BY DEF Goto, Becomes
<1>4. QED
  BY <1>1, <1>2, <1>3, BecomesInv

LEMMA LookUpTabInv ==
  ASSUME IInv, NEW r \in Req, LookUpTab(r)
  PROVE  IInv'
<1>1. Facts /\ Is(r, "lookup") /\ ~Is(r, "dialog") /\ request[r].method \in Methods
      /\ UNCHANGED <<controllableTabs, active, dialogVars>>
  BY DEF IInv, LookUpTab, Is, Facts, Record
<1>2. CASE active = NoTab
  <2>1. Goto(r, "stuck") /\ SharedOK' /\ UNCHANGED <<pendingPermissions, timers>>
    BY <1>1, <1>2 DEF LookUpTab, Facts, SharedOK, dialogVars
  <2>2. QED
    BY <1>1, <2>1, GotoInv DEF Stages
<1>3. CASE active # NoTab
  BY <1>1, <1>3, TabCheckInv DEF LookUpTab
<1>4. QED
  BY <1>2, <1>3

LEMMA CheckPermissionInv ==
  ASSUME IInv, NEW r \in Req, CheckPermission(r)
  PROVE  IInv'
<1>1. Facts /\ Is(r, "lists") /\ ~Is(r, "dialog") /\ ~Is(r, "free") /\ request[r].gate = "none"
      /\ active' = active /\ r \notin pendingPermissions /\ r \notin timers
  BY DEF CheckPermission, Is, IInv, GateFresh, DialogsTracked
<1>2. CASE Goto(r, "run") /\ UNCHANGED <<controllableTabs, dialogVars, busy>>
  <2>1. SharedOK' /\ UNCHANGED <<pendingPermissions, timers>>
    BY <1>1, <1>2 DEF Facts, SharedOK, dialogVars
  <2>2. QED
    BY <1>1, <1>2, <2>1, GotoInv DEF Stages, Working
<1>3. CASE End(r) /\ UNCHANGED <<controllableTabs, dialogVars>>
  <2>1. SharedOK' /\ pendingPermissions' = pendingPermissions \ {r} /\ timers' = timers \ {r}
    BY <1>1, <1>3 DEF Facts, SharedOK, dialogVars, End
  <2>2. QED
    BY <1>3, <2>1, EndInv
<1>4. CASE Refuse(r) /\ UNCHANGED dialogVars
  <2>1. pendingPermissions' = pendingPermissions \ {r} /\ timers' = timers \ {r}
    BY <1>1, <1>4 DEF dialogVars
  <2>2. /\ active' \in Tab \cup {NoTab} /\ dialog' \in [Req -> DialogRecord]
        /\ responses' \subseteq Req /\ closing' \subseteq Tab
    BY <1>1, <1>4 DEF Facts, SharedOK, dialogVars
  <2>3. QED
    BY <1>1, <1>4, <2>1, <2>2, RefuseInv
<1>5. CASE RequestUserPermission(r)
  <2> DEFINE x == [request[r] EXCEPT !.st = "dialog", !.gate = "ask"]
  <2>1. x \in Record /\ x.st = "dialog"
    BY <1>1 DEF Facts, Record, Stages, Working
  <2>2. Becomes(r, x) /\ pendingPermissions' = pendingPermissions \cup {r} /\ timers' = timers \cup {r}
    BY <1>5 DEF RequestUserPermission, Becomes
  <2>3. SharedOK'
    BY <1>1, <1>5 DEF RequestUserPermission, Facts, SharedOK, DialogRecord
  <2>4. QED
    BY <2>1, <2>2, <2>3, BecomesInv
<1>6. QED
  BY <1>2, <1>3, <1>4, <1>5 DEF CheckPermission

\* What happens to a dialog before and after its answer.
LEMMA DialogMovesInv ==
  ASSUME IInv, NEW r \in Req,
         SendDialogToActiveTab(r) \/ ShowPermissionDialog(r) \/ DialogAnswered(r)
  PROVE  IInv'
<1>1. Facts
  BY DEF IInv
<1>2. UNCHANGED <<Shared, request, pendingPermissions, timers, responses, closing>>
  BY DEF SendDialogToActiveTab, ShowPermissionDialog, DialogAnswered
<1>3. dialog' \in [Req -> DialogRecord]
  <2>1. CASE SendDialogToActiveTab(r)
    <3>1. Targets \subseteq Tab
      BY <1>1 DEF Targets, Facts, SharedOK
    <3>2. PICK t \in Tab : dialog' = [dialog EXCEPT ![r] = [st |-> "sent", tab |-> t]]
      BY <2>1, <3>1 DEF SendDialogToActiveTab
    <3>3. QED
      BY <1>1, <3>2 DEF Facts, SharedOK, DialogRecord
  <2>2. CASE ShowPermissionDialog(r)
    <3> DEFINE w == Without(dialog, {dialog[r].tab})
    <3>1. w \in [Req -> DialogRecord]
      BY <1>1, WithoutType DEF Facts, SharedOK
    <3>2. dialog' = [w EXCEPT ![r].st = "open"]
      BY <2>2 DEF ShowPermissionDialog
    <3>3. w[r] = dialog[r] /\ dialog[r].tab \in Tab /\ [w[r] EXCEPT !.st = "open"] \in DialogRecord
      BY <1>1, <2>2 DEF ShowPermissionDialog, Without, Facts, SharedOK, DialogRecord
    <3>4. QED
      BY <3>1, <3>2, <3>3
  <2>3. CASE DialogAnswered(r)
    BY <1>1, <2>3 DEF DialogAnswered, Facts, SharedOK, DialogRecord, NoDialog
  <2>4. QED
    BY <2>1, <2>2, <2>3
<1>4. SharedOK'
  BY <1>1, <1>2, <1>3 DEF Facts, SharedOK, Shared
<1>5. QED
  BY <1>2, <1>4, OthersInv DEF Shared

LEMMA DialogFailsInv ==
  ASSUME IInv, NEW r \in Req, DialogFails(r)
  PROVE  IInv'
<1>1. Facts
  BY DEF IInv
<1>2. /\ active' \in Tab \cup {NoTab} /\ dialog' \in [Req -> DialogRecord]
      /\ responses' \subseteq Req /\ closing' \subseteq Tab
  BY <1>1 DEF DialogFails, Facts, SharedOK, DialogRecord, NoDialog
<1>3. CASE r \in pendingPermissions
  BY <1>2, <1>3, SettleInv DEF DialogFails
<1>4. CASE r \notin pendingPermissions
  <2>1. UNCHANGED <<controllableTabs, busy, request, pendingPermissions, timers>>
    BY <1>4 DEF DialogFails
  <2>2. SharedOK'
    BY <1>1, <1>2, <2>1 DEF Facts, SharedOK
  <2>3. QED
    BY <2>1, <2>2, OthersInv
<1>5. QED
  BY <1>3, <1>4

\* A pressed button changes nothing but the history of a request that waits.
LEMMA PressedType ==
  ASSUME request \in [Req -> Record], NEW q \in Req, NEW answered \in Pressed(q)
  PROVE  /\ answered \in [Req -> Record]
         /\ \A r \in Req : /\ answered[r].st = request[r].st /\ answered[r].gate = request[r].gate
                           /\ request[r].st # "dialog" => answered[r] = request[r]
<1>1. CASE Is(q, "dialog")
  <2>1. PICK d \in {"allow", "deny"} : answered = [request EXCEPT ![q].pressed = d]
    BY <1>1 DEF Pressed
  <2>2. [request[q] EXCEPT !.pressed = d] \in Record
    BY DEF Record
  <2>3. QED
    BY <1>1, <2>1, <2>2 DEF Record, Is
<1>2. CASE ~Is(q, "dialog")
  BY <1>2 DEF Pressed
<1>3. QED
  BY <1>1, <1>2

\* The answer is written down only for a request that waits, and none that
\* waits runs.
LEMMA AnswerDialogInv ==
  ASSUME IInv, NEW r \in Req, AnswerDialog(r)
  PROVE  IInv'
<1>1. Facts
  BY DEF IInv
<1>2. SharedOK' /\ UNCHANGED <<pendingPermissions, timers, busy>>
  BY <1>1 DEF AnswerDialog, Press, Shared, Facts, SharedOK, DialogRecord
<1>3. CASE Is(r, "dialog")
  <2>1. PICK d \in {"allow", "deny"} : request' = [request EXCEPT ![r].pressed = d]
    BY <1>3 DEF AnswerDialog, Pressed
  <2> DEFINE x == [request[r] EXCEPT !.pressed = d]
  <2>2. x \in Record /\ x.st = "dialog" /\ Becomes(r, x)
    BY <1>1, <1>3, <2>1 DEF Facts, Record, Is, Becomes
  <2>3. pendingPermissions' = pendingPermissions \cup {r} /\ timers' = timers \cup {r}
    BY <1>2, <1>3 DEF IInv, DialogsTracked
  <2>4. QED
    BY <1>2, <2>2, <2>3, BecomesInv
<1>4. CASE ~Is(r, "dialog")
  BY <1>2, <1>4, OthersInv DEF AnswerDialog, Pressed
<1>5. QED
  BY <1>3, <1>4

\* A click of one request that answers the dialog of another: the one ends,
\* the other goes on waiting.
LEMMA RunClickInv ==
  ASSUME IInv, NEW r \in Req, RunClick(r)
  PROVE  IInv'
<1>1. Facts /\ Is(r, "run") /\ ~busy' /\ busy' \in BOOLEAN
      /\ UNCHANGED <<controllableTabs, active, pendingPermissions, timers, closing>>
  BY DEF IInv, RunClick
<1>2. PICK q \in Req : /\ Press(q)
                      /\ \E answered \in Pressed(q) : request' = [answered EXCEPT ![r] = Free]
  BY DEF RunClick
<1>3. PICK answered \in Pressed(q) : request' = [answered EXCEPT ![r] = Free]
  BY <1>2
<1>4. /\ answered \in [Req -> Record]
      /\ \A p \in Req : /\ answered[p].st = request[p].st /\ answered[p].gate = request[p].gate
                        /\ request[p].st # "dialog" => answered[p] = request[p]
  BY <1>1, PressedType DEF Facts
<1>5. /\ request' \in [Req -> Record] /\ request'[r] = Free
      /\ \A p \in Req : p # r => request'[p] = answered[p]
  BY <1>3, <1>4, FreeType
<1>6. SharedOK'
  <2>1. dialog[q] \in DialogRecord /\ dialog[q].st = "open"
    BY <1>1, <1>2 DEF Press, Facts, SharedOK
  <2>2. [dialog[q] EXCEPT !.st = "answered"] \in DialogRecord
    BY <2>1 DEF DialogRecord
  <2>3. dialog' = [dialog EXCEPT ![q].st = "answered"] /\ responses' = responses \cup {q}
    BY <1>2 DEF Press
  <2>4. dialog' \in [Req -> DialogRecord]
    BY <1>1, <2>2, <2>3 DEF Facts, SharedOK
  <2>5. responses' \subseteq Req
    BY <1>1, <2>3 DEF Facts, SharedOK
  <2>6. QED
    BY <1>1, <2>4, <2>5 DEF Facts, SharedOK
<1>7. Facts' /\ BusyHasRequest'
  BY <1>1, <1>5, <1>6 DEF Facts, BusyHasRequest
<1>8. ASSUME NEW p \in Req
      PROVE  /\ (request'[p].st = "dialog") <=> (request[p].st = "dialog")
             /\ request'[p].st = "run" /\ request'[p].gate = "ask" => request'[p].pressed = "allow"
             /\ request'[p].st = "lists" => request'[p].gate = "none"
  <2>1. CASE p = r
    BY <1>1, <1>5, <2>1, FreeType DEF Is
  <2>2. CASE p # r
    <3>1. request'[p] = answered[p]
      BY <1>5, <2>2
    <3>2. /\ answered[p].st = request[p].st /\ answered[p].gate = request[p].gate
          /\ request[p].st # "dialog" => answered[p] = request[p]
      BY <1>4
    <3>3. /\ request[p].st = "run" /\ request[p].gate = "ask" => request[p].pressed = "allow"
          /\ request[p].st = "lists" => request[p].gate = "none"
      BY DEF IInv, AskedBeforeRun, GateFresh, Is
    <3>4. QED
      BY <3>1, <3>2, <3>3
  <2>3. QED
    BY <2>1, <2>2
<1>9. DialogsTracked'
  BY <1>1, <1>8 DEF IInv, DialogsTracked, Is
<1>10. AskedBeforeRun' /\ GateFresh'
  BY <1>8 DEF AskedBeforeRun, GateFresh, Is
<1>11. QED
  BY <1>7, <1>9, <1>10 DEF IInv

LEMMA ResolvePermissionInv ==
  ASSUME IInv, NEW r \in Req, ResolvePermission(r)
  PROVE  IInv'
<1>1. Facts /\ dialog[r] \in DialogRecord
  BY DEF IInv, Facts, SharedOK
<1>2. /\ active' \in Tab \cup {NoTab} /\ dialog' \in [Req -> DialogRecord]
      /\ responses' \subseteq Req /\ closing' \subseteq Tab
  BY <1>1, LeftType DEF ResolvePermission, Facts, SharedOK
<1>3. CASE r \in pendingPermissions
  <2> DEFINE allowed == request[r].pressed = "allow"
  <2>1. Settle(r, allowed) /\ allowed \in BOOLEAN
    BY <1>3 DEF ResolvePermission
  <2>2. QED
    BY <1>2, <1>3, <2>1, SettleInv
<1>4. CASE r \notin pendingPermissions
  <2>1. UNCHANGED <<controllableTabs, busy, request, pendingPermissions, timers>>
    BY <1>4 DEF ResolvePermission
  <2>2. SharedOK'
    BY <1>1, <1>2, <2>1 DEF Facts, SharedOK
  <2>3. QED
    BY <2>1, <2>2, OthersInv
<1>5. QED
  BY <1>3, <1>4

\* A timer is set only while its request waits, so that a timeout never
\* revives or refuses another.
LEMMA PermissionTimeoutInv ==
  ASSUME IInv, NEW r \in Req, PermissionTimeout(r)
  PROVE  IInv'
<1>1. Facts /\ dialog[r] \in DialogRecord /\ r \in pendingPermissions
  BY DEF PermissionTimeout, Facts, SharedOK, IInv, DialogsTracked
<1>2. closing' \subseteq Tab
  <2>1. CASE dialog[r].st = "resolved"
    BY <1>1, <2>1 DEF PermissionTimeout, Facts, SharedOK, DialogRecord
  <2>2. QED
    BY <1>1, <2>1 DEF PermissionTimeout, Facts, SharedOK
<1>3. QED
  BY <1>1, <1>2, LeftType, SettleInv DEF PermissionTimeout, Facts, SharedOK

LEMMA RemoveExistingDialogInv ==
  ASSUME IInv, NEW t \in Tab, RemoveExistingDialog(t)
  PROVE  IInv'
<1>1. SharedOK'
  BY WithoutType DEF RemoveExistingDialog, IInv, Facts, SharedOK, Shared
<1>2. QED
  BY <1>1, OthersInv DEF RemoveExistingDialog, Shared

LEMMA DemoteInv ==
  ASSUME IInv, NEW r \in Req, Demote(r)
  PROVE  IInv'
<1>1. Facts /\ ~Is(r, "dialog") /\ r \notin pendingPermissions /\ r \notin timers
      /\ UNCHANGED <<active, dialogVars>>
  BY DEF IInv, DialogsTracked, Demote, Is
<1>2. CASE active = NoTab
  <2>1. Goto(r, "stuck") /\ SharedOK' /\ UNCHANGED <<pendingPermissions, timers>>
    BY <1>1, <1>2 DEF Demote, Facts, SharedOK, dialogVars
  <2>2. QED
    BY <1>1, <2>1, GotoInv DEF Stages
<1>3. CASE active # NoTab
  <2>1. End(r) /\ pendingPermissions' = pendingPermissions \ {r} /\ timers' = timers \ {r}
    BY <1>1, <1>3 DEF Demote, dialogVars
  <2>2. SharedOK'
    BY <1>1, <1>3 DEF Demote, End, Facts, SharedOK, dialogVars
  <2>3. QED
    BY <2>1, <2>2, EndInv
<1>4. QED
  BY <1>2, <1>3

\* What a handler does to tabs and dialogs leaves them tabs and dialogs.
LEMMA EffectType ==
  ASSUME SharedOK, NEW m \in Methods, NEW t \in Tab \cup {NoTab}, Effect(m, t)
  PROVE  /\ controllableTabs' \subseteq Tab /\ active' \in Tab \cup {NoTab}
         /\ dialog' \in [Req -> DialogRecord]
  BY WithoutType DEF Effect, SharedOK

LEMMA RunInv ==
  ASSUME IInv, NEW r \in Req, Run(r)
  PROVE  IInv'
<1>1. Facts /\ r \notin pendingPermissions /\ r \notin timers
  BY DEF IInv, DialogsTracked, Run, Is
<1>2. request[r].method \in Methods /\ Target(r) \in Tab \cup {NoTab}
  BY <1>1 DEF Facts, SharedOK, Record, Target, Explicit
<1>3. SharedOK'
  BY <1>1, <1>2, EffectType DEF Run, End, Facts, SharedOK
<1>4. QED
  BY <1>1, <1>3, EndInv DEF Run

LEMMA UserActsInv ==
  ASSUME IInv, UserActs
  PROVE  IInv'
<1>1. /\ controllableTabs' \subseteq Tab /\ active' \in Tab \cup {NoTab}
      /\ dialog' \in [Req -> DialogRecord]
  BY WithoutType DEF UserActs, User, IInv, Facts, SharedOK
<1>2. SharedOK'
  BY <1>1 DEF UserActs, IInv, Facts, SharedOK
<1>3. QED
  BY <1>2, OthersInv DEF UserActs

\* IInv is inductive: one step per action of Next.
LEMMA NextInv == IInv /\ [Next]_vars => IInv'
<1> SUFFICES ASSUME IInv, [Next]_vars PROVE IInv'
  OBVIOUS
<1>1. ASSUME NEW r \in Req, HandleRequest(r) PROVE IInv'
  BY <1>1, HandleRequestInv
<1>2. ASSUME NEW r \in Req, Progress(r) PROVE IInv'
  BY <1>2, LookUpTabInv, CheckPermissionInv, DemoteInv, RunInv, RunClickInv DEF Progress
<1>3. ASSUME NEW r \in Req, SendDialogToActiveTab(r) \/ ShowPermissionDialog(r) \/ DialogAnswered(r) PROVE IInv'
  BY <1>3, DialogMovesInv
<1>4. ASSUME NEW r \in Req, DialogFails(r) PROVE IInv'
  BY <1>4, DialogFailsInv
<1>5. ASSUME NEW r \in Req, AnswerDialog(r) PROVE IInv'
  BY <1>5, AnswerDialogInv
<1>6. ASSUME NEW r \in Req, ResolvePermission(r) PROVE IInv'
  BY <1>6, ResolvePermissionInv
<1>7. ASSUME NEW r \in Req, PermissionTimeout(r) PROVE IInv'
  BY <1>7, PermissionTimeoutInv
<1>8. ASSUME NEW t \in Tab, RemoveExistingDialog(t) PROVE IInv'
  BY <1>8, RemoveExistingDialogInv
<1>9. CASE UserActs
  BY <1>9, UserActsInv
<1>10. CASE ConnectionChanges
  <2>1. SharedOK' /\ UNCHANGED <<request, pendingPermissions, timers>> /\ ~busy'
    BY <1>10 DEF ConnectionChanges, dialogVars, IInv, Facts, SharedOK
  <2>2. QED
    BY <2>1, OthersInv
<1>11. CASE UNCHANGED vars
  <2>1. SharedOK' /\ UNCHANGED <<request, pendingPermissions, timers, busy>>
    BY <1>11 DEF vars, dialogVars, IInv, Facts, SharedOK
  <2>2. QED
    BY <2>1, OthersInv
<1>12. QED
  BY <1>1, <1>2, <1>3, <1>4, <1>5, <1>6, <1>7, <1>8, <1>9, <1>10, <1>11 DEF Next
-----------------------------------------------------------------------------
\* Every reachable state is well-typed.
THEOREM TypeCorrect == Spec => []TypeOK
<1>1. IInv => TypeOK
  BY FactsType DEF IInv
<1>2. QED
  BY InitInv, NextInv, <1>1, PTL DEF Spec

\* requestUserPermission: a request waits for an answer exactly as long as it
\* has an entry in pendingPermissions and a timer, so that every wait has an
\* end and no entry outlives it.
THEOREM DialogsAreTracked == Spec => []DialogsTracked
<1>1. IInv => DialogsTracked
  BY DEF IInv
<1>2. QED
  BY InitInv, NextInv, <1>1, PTL DEF Spec

\* handleRequest runs what has to be asked for only if Allow has been pressed
\* in the dialog of this very request while it waited.
THEOREM AskedBeforeRunning == Spec => []AskedBeforeRun
<1>1. IInv => AskedBeforeRun
  BY DEF IInv
<1>2. QED
  BY InitInv, NextInv, <1>1, PTL DEF Spec

\* The status icon says "active" only while some request is being handled.
THEOREM BusyHasARequest == Spec => []BusyHasRequest
<1>1. IInv => BusyHasRequest
  BY DEF IInv
<1>2. QED
  BY InitInv, NextInv, <1>1, PTL DEF Spec
=============================================================================
