--------------------------- MODULE PermissionFlow ---------------------------
(***************************************************************************)
(* The extension's handling of requests (background.ts, handleRequest) and *)
(* the permission gates on the way (permissions/flow.ts): the tab check,   *)
(* the lists, the dialog on some page, its 60 s timer and the answer, the  *)
(* demotion of the tab after a refusal, and the busy indicator             *)
(* (status-indicator.ts).  JavaScript runs one handler at a time: an       *)
(* action here is what runs between two awaits.                            *)
(*                                                                         *)
(* content.ts answers the message that opens a dialog only after a button  *)
(* of the dialog was pressed, and a page shows one dialog at a time.  The  *)
(* buttons are elements of the page and take any click: the user's, one of *)
(* the page's own scripts, or that of another request (RunClick).          *)
(***************************************************************************)
EXTENDS FiniteSets

CONSTANTS
  Req,    \* slots for requests
  Tab,    \* tabs
  NoTab

ASSUME PermissionFlowAssumption == NoTab \notin Tab

VARIABLES
  controllableTabs,    \* the tabs requests may act on
  active,              \* the active tab of the current window, NoTab if it has none
  request,             \* [Req -> [st, method, tab, gate, pressed]]: tab: its tabId, or NoTab
  pendingPermissions,  \* requests with an entry in the map of that name
  timers,              \* requests whose 60 s timer is set
  dialog,              \* [Req -> [st, tab]]: the dialog and the tab it is sent to; it is
                       \* "resolved" when sendMessage is and dialogTabId is set
  responses,           \* requests whose __brp_permission_response__ is under way
  closing,             \* tabs to which __brp_permission_dialog_close__ is under way
  busy                 \* whether the status icon says "active"

dialogVars == <<pendingPermissions, timers, dialog, responses, closing>>
vars == <<controllableTabs, active, request, dialogVars, busy>>

\* What the flow tells apart: what is done on a tab (element.*, script.execute,
\* tab.select, tab.close); page.navigate; the methods that go to the active tab
\* whatever their tabId (page.goBack, goForward, reload); and what is not bound
\* to a tab (tab.open, tab.setControllable and the rest).
Scoped == {"act", "navigate", "back"}
Methods == Scoped \cup {"unbound"}
Gated == {"act", "navigate"}
Working == {"lookup", "lists", "dialog", "run", "demote"}
Free == [st |-> "free", method |-> "unbound", tab |-> NoTab, gate |-> "none", pressed |-> "none"]
NoDialog == [st |-> "none", tab |-> NoTab]

TypeOK ==
  /\ controllableTabs \subseteq Tab /\ active \in Tab \cup {NoTab}
  /\ request \in [Req -> [st : Working \cup {"free", "stuck"}, method : Methods, tab : Tab \cup {NoTab},
                          gate : {"none", "ask"}, pressed : {"none", "allow", "deny"}]]
  /\ pendingPermissions \subseteq Req /\ timers \subseteq Req
  /\ dialog \in [Req -> [st : {"none", "query", "sent", "open", "lost", "answered", "resolved"},
                         tab : Tab \cup {NoTab}]]
  /\ responses \subseteq Req /\ closing \subseteq Tab /\ busy \in BOOLEAN

Init ==
  /\ controllableTabs \in SUBSET Tab /\ active \in Tab \cup {NoTab}
  /\ request = [r \in Req |-> Free]
  /\ pendingPermissions = {} /\ timers = {}
  /\ dialog = [r \in Req |-> NoDialog] /\ responses = {} /\ closing = {}
  /\ busy = FALSE

Is(r, s) == request[r].st = s
Goto(r, s) == request' = [request EXCEPT ![r].st = s]
Explicit(r) == request[r].tab # NoTab

\* The dialogs open on the tabs of ts go.  Whatever becomes of the dialog of
\* a request that no longer waits is of no consequence.
Without(dlg, ts) ==
  [q \in Req |-> IF dlg[q].st = "open" /\ dlg[q].tab \in ts
                 THEN IF q \in pendingPermissions THEN [dlg[q] EXCEPT !.st = "lost"] ELSE NoDialog
                 ELSE dlg[q]]
-----------------------------------------------------------------------------
(* handleRequest up to the gates.                                          *)

\* Mutant of End: an early return that forgets onRequestEnd.
EndSilently(r) == request' = [request EXCEPT ![r] = Free] /\ UNCHANGED busy

\* The reply is sent, or dropped when there is no connection; onRequestEnd
\* sets the one icon to idle (or to error), whatever else is running.
End(r) == request' = [request EXCEPT ![r] = Free] /\ busy' = FALSE

\* checkTabControllable on the tab t.
TabCheck(r, m, t, g) ==
  IF m \in Scoped /\ t \notin controllableTabs
  THEN End(r)
  ELSE /\ busy' = TRUE
       /\ request' = [request EXCEPT ![r] = [Free EXCEPT !.st = "lists", !.method = m, !.tab = g]]

\* A request arrives.  With a tabId it is checked at once, without one the
\* active tab is looked up first.
HandleRequest(r) ==
  /\ Is(r, "free") /\ dialog[r] = NoDialog /\ r \notin responses
  /\ \E m \in Methods, t \in Tab \cup {NoTab} :
       IF t # NoTab THEN TabCheck(r, m, t, IF m \in Gated THEN t ELSE NoTab)
       ELSE /\ busy' = TRUE
            /\ request' = [request EXCEPT ![r] = [Free EXCEPT !.st = "lookup", !.method = m]]
  /\ UNCHANGED <<controllableTabs, active, dialogVars>>

\* getActiveTabId answers.  It is awaited outside the try block: without an
\* active tab handleRequest ends there, and nothing is sent or reset.
LookUpTab(r) ==
  /\ Is(r, "lookup")
  /\ IF active = NoTab THEN Goto(r, "stuck") /\ UNCHANGED busy
                       ELSE TabCheck(r, request[r].method, active, NoTab)
  /\ UNCHANGED <<controllableTabs, active, dialogVars>>

\* The error response is sent and the tab demoted: the one named at once, the
\* active one after its look-up (Demote).
Refuse(r) ==
  IF Explicit(r)
  THEN controllableTabs' = controllableTabs \ {request[r].tab} /\ End(r)
  ELSE /\ request' = [request EXCEPT ![r] = [Free EXCEPT !.st = "demote"]]
       /\ UNCHANGED <<controllableTabs, busy>>

\* requestUserPermission: the timer is set, the entry made and the dialog
\* on its way.
RequestUserPermission(r) ==
  /\ request' = [request EXCEPT ![r].st = "dialog", ![r].gate = "ask"]
  /\ pendingPermissions' = pendingPermissions \cup {r} /\ timers' = timers \cup {r}
  /\ dialog' = [dialog EXCEPT ![r] = [st |-> "query", tab |-> NoTab]]
  /\ UNCHANGED <<controllableTabs, responses, closing, busy>>

\* checkAllowlist, checkBlacklist and shouldGate decide, each on the
\* configuration stored at that moment.  Only page.navigate is on the lists;
\* a refusal by policy goes the same way as one by the user.
CheckPermission(r) ==
  /\ Is(r, "lists")
  /\ \/ Goto(r, "run") /\ UNCHANGED <<controllableTabs, dialogVars, busy>>
     \/ request[r].method = "navigate" /\ End(r) /\ UNCHANGED <<controllableTabs, dialogVars>>
     \/ request[r].method \in Gated /\ Refuse(r) /\ UNCHANGED dialogVars
     \/ request[r].method \in Gated /\ RequestUserPermission(r)
  /\ UNCHANGED active
-----------------------------------------------------------------------------
(* The dialog.                                                             *)

Shared == <<controllableTabs, active, busy>>

\* The entry and its timer go and the promise is resolved.
Settle(r, allowed) ==
  /\ pendingPermissions' = pendingPermissions \ {r} /\ timers' = timers \ {r}
  /\ IF allowed THEN Goto(r, "run") /\ UNCHANGED <<controllableTabs, busy>> ELSE Refuse(r)

\* What is left of the dialog of a request that no longer waits.
Left(d) == IF d.st \in {"lost", "resolved"} THEN NoDialog ELSE d

\* sendDialogToActiveTab: the active tab if it is controllable, else some
\* controllable tab, else the active tab.
Targets == IF active \in controllableTabs \/ controllableTabs = {}
           THEN {active} \ {NoTab} ELSE controllableTabs

SendDialogToActiveTab(r) ==
  /\ dialog[r].st = "query"
  /\ \E t \in Targets : dialog' = [dialog EXCEPT ![r] = [st |-> "sent", tab |-> t]]
  /\ UNCHANGED <<Shared, request, pendingPermissions, timers, responses, closing>>

\* showPermissionDialog removes the dialog the page shows already.
ShowPermissionDialog(r) ==
  /\ dialog[r].st = "sent"
  /\ dialog' = [Without(dialog, {dialog[r].tab}) EXCEPT ![r].st = "open"]
  /\ UNCHANGED <<Shared, request, pendingPermissions, timers, responses, closing>>

\* There is no tab to ask on, the tab does not answer, or the dialog is gone
\* without an answer: the catch refuses, if the request still waits.
DialogFails(r) ==
  /\ dialog[r].st \in {"sent", "lost"} \/ (dialog[r].st = "query" /\ Targets = {})
  /\ dialog' = [dialog EXCEPT ![r] = NoDialog]
  /\ IF r \in pendingPermissions THEN Settle(r, FALSE)
                               ELSE UNCHANGED <<controllableTabs, busy, request, pendingPermissions, timers>>
  /\ UNCHANGED <<active, responses, closing>>

\* A button of r's dialog is pressed: the dialog goes and its answer is sent.
Press(r) ==
  /\ dialog[r].st = "open"
  /\ dialog' = [dialog EXCEPT ![r].st = "answered"]
  /\ responses' = responses \cup {r}

\* History: the requests with the button that was pressed, if it was in time.
Pressed(r) ==
  IF Is(r, "dialog") THEN {[request EXCEPT ![r].pressed = d] : d \in {"allow", "deny"}} ELSE {request}

\* The user, or a script of the page, presses one of the buttons.
AnswerDialog(r) ==
  /\ Press(r) /\ request' \in Pressed(r)
  /\ UNCHANGED <<Shared, pendingPermissions, timers, closing>>

\* Mutant of DialogAnswered: the entry is written though it may be gone.
DialogAnsweredRevives(r) ==
  /\ dialog[r].st = "answered"
  /\ dialog' = [dialog EXCEPT ![r].st = "resolved"]
  /\ pendingPermissions' = pendingPermissions \cup {r}
  /\ UNCHANGED <<Shared, request, timers, responses, closing>>

\* Only now does sendMessage resolve and dialogTabId get its value.
DialogAnswered(r) ==
  /\ dialog[r].st = "answered"
  /\ dialog' = [dialog EXCEPT ![r] = IF r \in pendingPermissions THEN [@ EXCEPT !.st = "resolved"] ELSE NoDialog]
  /\ UNCHANGED <<Shared, request, pendingPermissions, timers, responses, closing>>

\* Mutant of ResolvePermission: an answer counts for whoever waits.
ResolvePermissionOfAnyone(r) ==
  /\ r \in responses /\ responses' = responses \ {r}
  /\ \E q \in pendingPermissions :
       /\ Settle(q, request[r].pressed = "allow")
       /\ dialog' = [dialog EXCEPT ![q] = Left(@)]
  /\ UNCHANGED <<active, closing>>

\* resolvePermission: an answer without an entry is ignored.
ResolvePermission(r) ==
  /\ r \in responses /\ responses' = responses \ {r}
  /\ IF r \in pendingPermissions
     THEN Settle(r, request[r].pressed = "allow") /\ dialog' = [dialog EXCEPT ![r] = Left(@)]
     ELSE UNCHANGED <<controllableTabs, busy, request, pendingPermissions, timers, dialog>>
  /\ UNCHANGED <<active, closing>>

\* 60 s without an answer.  The dialog is told to close only if dialogTabId
\* is set, which it is not before a button was pressed.
PermissionTimeout(r) ==
  /\ r \in timers
  /\ closing' = IF dialog[r].st = "resolved" THEN closing \cup {dialog[r].tab} ELSE closing
  /\ dialog' = [dialog EXCEPT ![r] = Left(@)]
  /\ Settle(r, FALSE)
  /\ UNCHANGED <<active, responses>>

\* The page removes whatever dialog it shows.
RemoveExistingDialog(t) ==
  /\ t \in closing /\ closing' = closing \ {t}
  /\ dialog' = Without(dialog, {t})
  /\ UNCHANGED <<Shared, request, pendingPermissions, timers, responses>>
-----------------------------------------------------------------------------
(* After the gates.                                                        *)

\* Auto-demotion without a tabId: of the tab that is active by now.  Its
\* look-up, too, is outside the try block.
Demote(r) ==
  /\ Is(r, "demote")
  /\ IF active = NoTab THEN Goto(r, "stuck") /\ UNCHANGED <<controllableTabs, busy>>
                       ELSE controllableTabs' = controllableTabs \ {active} /\ End(r)
  /\ UNCHANGED <<active, dialogVars>>

\* The tab a handler acts on: without a tabId it looks up the active one anew,
\* and page.goBack, goForward and reload do so in any case.
Target(r) == IF Explicit(r) THEN request[r].tab ELSE active

\* Mutant of Effect: page.navigate does not see that there is no active tab.
EffectWithoutTab(m, t) ==
  \/ /\ m = "navigate" /\ controllableTabs' = controllableTabs \cup {t}
     /\ dialog' = Without(dialog, {t}) /\ UNCHANGED active
  \/ m # "navigate" /\ UNCHANGED <<controllableTabs, dialog, active>>

\* What a handler does to the tab t.  page.navigate makes it controllable,
\* before the page goes; a page that goes takes its dialog along.
Effect(m, t) ==
  \/ /\ m = "navigate" /\ controllableTabs' = controllableTabs \cup ({t} \ {NoTab})
     /\ dialog' = Without(dialog, {t}) /\ UNCHANGED active
  \/ /\ m \in {"back", "act"} /\ dialog' = Without(dialog, {t}) /\ UNCHANGED <<controllableTabs, active>>
  \/ /\ m = "act" /\ active' \in {active, t} /\ UNCHANGED <<controllableTabs, dialog>>
  \/ /\ m = "unbound" /\ UNCHANGED <<active, dialog>>
     /\ \E u \in Tab : controllableTabs' \in {controllableTabs, controllableTabs \cup {u}, controllableTabs \ {u}}

\* The handler runs, to its reply.
Run(r) ==
  /\ Is(r, "run")
  /\ Effect(request[r].method, Target(r)) /\ End(r)
  /\ UNCHANGED <<pendingPermissions, timers, responses, closing>>

\* element.click presses a button of the dialog that is open on its tab, as
\* it clicks any element that can be seen.
RunClick(r) ==
  /\ Is(r, "run") /\ request[r].method = "act"
  /\ \E q \in Req : /\ dialog[q].tab = Target(r) /\ Press(q)
                    /\ \E answered \in Pressed(q) : request' = [answered EXCEPT ![r] = Free]
  /\ busy' = FALSE
  /\ UNCHANGED <<controllableTabs, active, pendingPermissions, timers, closing>>

\* The user goes to another tab or window, closes a tab (onRemoved), toggles
\* whether a tab is controllable; a page goes and its dialog with it.
User ==
  \/ /\ active' \in Tab \cup {NoTab} /\ UNCHANGED <<controllableTabs, dialog>>
  \/ \E t \in Tab : /\ controllableTabs' = controllableTabs \ {t}
                    /\ dialog' = Without(dialog, {t})
                    /\ active' \in {active, NoTab} \cup (Tab \ {t})
  \/ \E t \in Tab : /\ controllableTabs' \in {controllableTabs \cup {t}, controllableTabs \ {t}}
                    /\ UNCHANGED <<active, dialog>>
  \/ \E t \in Tab : dialog' = Without(dialog, {t}) /\ UNCHANGED <<controllableTabs, active>>

UserActs == User /\ UNCHANGED <<request, pendingPermissions, timers, responses, closing, busy>>

\* onBridgeConnect and onBridgeDisconnect overwrite the icon, too.
ConnectionChanges == busy' = FALSE /\ UNCHANGED <<controllableTabs, active, request, dialogVars>>

Progress(r) == LookUpTab(r) \/ CheckPermission(r) \/ Demote(r) \/ Run(r) \/ RunClick(r)

Next ==
  \/ \E r \in Req : \/ HandleRequest(r) \/ Progress(r) \/ SendDialogToActiveTab(r)
                    \/ ShowPermissionDialog(r) \/ DialogFails(r) \/ AnswerDialog(r)
                    \/ DialogAnswered(r) \/ ResolvePermission(r) \/ PermissionTimeout(r)
  \/ \E t \in Tab : RemoveExistingDialog(t)
  \/ UserActs \/ ConnectionChanges

Spec == Init /\ [][Next]_vars
-----------------------------------------------------------------------------
\* A request waits exactly as long as it has an entry in pendingPermissions
\* and a timer that will end the wait, whatever becomes of its dialog: none
\* waits for ever and none leaves an entry.
DialogsTracked ==
  LET waiting == {r \in Req : Is(r, "dialog")}
  IN pendingPermissions = waiting /\ timers = waiting

\* What has to be asked for runs only when Allow has been pressed, by whomever,
\* in the dialog of this very request while it waited: no timeout, failed
\* dialog, late answer or answer to another dialog will do.
AskedBeforeRun == \A r \in Req : Is(r, "run") /\ request[r].gate = "ask" => request[r].pressed = "allow"

\* The icon says "active" only while some request is being handled or has
\* been left without an end: every way out of handleRequest resets it.
BusyHasRequest == busy => \E r \in Req : ~Is(r, "free")
=============================================================================
