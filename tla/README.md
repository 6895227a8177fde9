# Verification of the BRP bridge

The Browser Runtime Protocol lets an AI client drive a browser: an MCP adapter (or any
JSON-RPC client) talks to the **bridge**, a Rust daemon, which forwards requests over a
WebSocket to the **extension** in each browser and passes replies and notifications
back. This directory holds TLA+ models of the parts of that system where steps of
several actors meet, TLC configurations that check them, and TLAPS proofs.

    tlc -workers 2 -config BridgeCore_safety.cfg MCBridgeCore     # any row of "Runs"
    for m in *_proofs.tla; do tlapm $m; done                      # the theorems, some minutes

## 1. The system

| Component | State it keeps | Operations | Hard because |
|---|---|---|---|
| Router and sessions (`bridge/src/router.rs`, `protocol/session.rs`, `auth.rs`) | `BridgeState` behind one `RwLock`: the session (state, negotiated capabilities, sequence), `extensions` (browserId to sender), `pending` (id to oneshot, browserId), `next_ext_id` | `initialize`, `shutdown`, `exit`, `browser.list`, `forward_to_extension` | the lock is released between the capability check, the session check, the allocation of an id, the send and the wait; one session serves all clients |
| Connections (`ws_server.rs`) | one task per connection | register, read replies, read notifications, clean up | the cleanup of an old socket meets the registration of a new one; replies arrive late, on another socket or never |
| Notification path (`ws_server.rs`, `native_msg.rs`) | `session.sequence`, the bounded channel `notify_tx` | number, send, write to stdout | the number is taken under the lock, the send happens after it; a full channel blocks the reader |
| Token manager (`token_manager.rs`) | the set of client tokens, `tokens.json`, `tokens.tmp` | issue, revoke, save, load | saves run concurrently under a *read* guard, through one temporary file; errors are ignored; the process may die in between |
| Admission (`ratelimit.rs`, `ws_server.rs`) | `unauthenticated_count`, `recent_connections` | check a connection, release its slot | eight exits of the task must each release exactly one slot; `saturating_sub` hides a mistake |
| Single instance and lifecycle (`main.rs`, `lockfile.rs`, `ipc_unix.rs`, `ipc_windows.rs`, `mode.rs`) | the lockfile, the socket or pipe, the token file, stdin and stdout, the mode | acquire, release, bind, hand the token over, wait, serve | check, remove and write are separate steps of separate processes; each mode ends in other ways |
| Extension link (`background.ts`, `native.ts`) | `ws`, `activePort`, the running `connect()`, timers | connect, fall back, reconnect, release the bridge | module globals read before an `await` and used after it; a timer that is never cleared |
| Permission flow (`permissions/*.ts`) | `pendingPermissions`, `controllableTabs` | ask, resolve, time out, demote a tab | a dialog outlives its request; the active tab changes meanwhile |
| Request handlers (`background.ts`, `handlers.ts`) | none of their own | one browser API call each | the tab is looked up more than once |
| Content scripts (`content.ts`, `itree.ts`, ...) | the node ids of the last interaction tree, the dialog shown | DOM queries and events, the permission dialog | one dialog replaces another; node ids go stale |
| User interface (`status-indicator.ts`, `page-indicator.ts`, `tab-groups.ts`, `screenshot-blur.ts`, options, popup) | badge, colours | presentation | concurrent requests share one status |
| MCP adapter (`adapter/brp_mcp_adapter.py`) | `_ws_conn`, `_bridge_proc`, `_pending`, `_initialized` | discover, connect, spawn, initialize, request | coroutines share globals without a lock |

How they interact. A client task (one per WebSocket client, plus the stdin loop) runs one
request at a time: `handle_request` reads and writes `BridgeState` in short critical
sections, sends through the sink of the chosen extension, and waits on a oneshot channel
with a timer. The reader task of an extension connection takes the oneshot out of
`pending` and completes it; when the connection ends it removes the browser's sender and
fails whatever is pending on that browser. The same reader numbers notifications and
sends them into `notify_tx`, which the stdout writer drains.

Before any of this there must be a bridge. The extension starts one through native messaging
(`connectNative`), reads port and token from the first message on its stdout, and holds the
native port: when that is closed the process reads the end of its stdin and exits. A user or
the adapter may start one too; the lockfile and a socket or pipe decide who stays, and the
lockfile tells others where the bridge listens. In the extension each request passes the tab
check, the domain lists and perhaps a dialog on some page before its handler runs.

What makes each part correct is listed in section 4; the hazards behind each property are
in `PROJECT.json` ("hazards"), each at the line where it bites.

## 2. Modules

| Module | Models | State and actions in the code |
|---|---|---|
| `BridgeCore` | `BridgeState` and the tasks that work on it | `sess`, `caps`, `extensions`, `pending`, `nextExtId` are the fields of `BridgeState`; `pc`, `req`, `out`, `via`, `resp` are the locals of a client's task in `handle_request` / `forward_to_extension`; `conn`, `owner`, `wire` the extension sockets, `ws`, `inbox` the extension's side. One action per critical section or await point: `ReceiveRequest`, `CheckSession`, `Forward`, `SendToExtension`/`SendToDead`, `TakeReply`, `TimeOut`, `GiveUp`, `Respond`; `AddExtension`, `ReadReply`, `Disconnect` for the reader task |
| `RequestBroker` | the abstract service: what a client may conclude from an answer | no sockets, ids, locks or timers: `Submit`, `Dispatch`, `Run`, `Decide`, `Close` |
| `Notifications` | numbering, channel, stdout writer, end of a connection | `held` is the notification a reader has numbered and not yet sent; `SendNote` waits for room as `notify_tx.send().await` does |
| `TokenStore` | `TokenManager` over a file system of inodes and two names | one action per file operation of `save_to_file`, each with its failing variant; `Restart` is a crash and `TokenManager::new` |
| `Admission` | `RateLimiter` and the authentication path | `stage` is where a connection's task is; `Fail` is any exit through `on_auth_failed` |
| `SingleInstance` | several bridge processes around one Unix socket and one lockfile | `pc` is where a process is in `run_bootstrap` / `run_bridge`; one action per system call of `SocketLock::acquire_with_path`, `lockfile::acquire`, `write_lockfile`, `lockfile::release` and the drop of `SocketLock`, and for the TCP bind between them; each may fail, and `Crash` anywhere |
| `BridgeProcess` | the whole life of bridge processes in every mode, with atomic locks | `pc` is where a process is in `run_bootstrap` / `run_bridge` / `run_echo`; `server` its listener, `eof` and `reading` its stdin, `out` what it has written; `ParseMode`, `LoadConfig`, `AcquireIpc`, `Discover`, `AcquireLockfile`, `SendToken`, `Connected`, `StdinEnds`, `Leave`, ... |
| `NativeLink` | `connect`, `startBridge`, `setupConnection`, `scheduleReconnect`, over `BridgeProcess` | `call`, `attempt`, `target` are the locals of the running `connect()`; `activePort`, `ws` the globals of those names, `reconnect` the timer, `timers` those of `startBridge`; one action per piece of code between two awaits, and per callback |
| `PermissionFlow` | `handleRequest`, the permission gates, the dialog and the icon | `request` is where each `handleRequest` is; `pendingPermissions`, `controllableTabs` the globals; `dialog` is the message to the page, the dialog on it and the promise of `sendMessage`; `AnswerDialog` and `RunClick` press its buttons |
| `Adapter` | tool calls of the MCP adapter and its readers | `ws`, `proc`, `initialized` are the globals; `call` the coroutines, `created` and `reading` the reader tasks; one action per await, the header and the payload of a message apart |
| `<module>_proofs`, one for each but `RequestBroker` and `BridgeProcess`, whose theorems are in `BridgeCore_proofs` and `NativeLink_proofs` | theorems | |
| `MC*` | instances for TLC | constants' values that a .cfg cannot write, symmetry; `MCNativeLink` also compares `ParseMode` with the loop of `mode.rs` |

`BridgeCore` composes the router, the connections and the extensions' sockets, because they
share `BridgeState`; `NativeLink` composes the extension's link with the bridge processes it
starts and ends, because each waits for the other. `Notifications`, `TokenStore`, `Admission`
and `SingleInstance` touch the core only through a counter (`session.sequence`)
or not at all, and stand alone; where one of them needs a fact of another, a comment
names the action (`Notifications!ReadReply` is `BridgeCore!ReadReply`).

What the modules abstract from, and what they assume:

* a method is one of `click` (may be forwarded), `eval` (refused by the script or
  URL gate), `bogus` (not in `ALLOWED_METHODS`); capability wildcards are expanded into sets;
* a forwarded message is a record of its id, client, request number and browser;
  whether it exceeds the size limit is a choice;
* timers are a choice that is always enabled while waiting. `TimeOut` is disabled once
  the oneshot holds a value, as `tokio::time::timeout` polls the future first;
* a socket whose far end is gone accepts a write or fails it; a reader whose socket is
  gone may lose what it has not read;
* extension ids count from 0, not 10000; `SessionState::Authenticating` never outlives
  the lock that sets it and `Busy` is never set;
* the token text of a file is a set of tokens; an empty file is the empty set because
  the loader skips what does not parse;
* in `SingleInstance` a lockfile is the pid in it or does not parse; a test for existence before a removal, and
  opening, syncing and restricting the temporary file before the rename, count as part of the call that follows. Any
  system call may fail with the file still there, and a pid that was left behind may be in use again by any program: each is
  one of the `MaxFaults` things that go wrong, as a death is. That `kill(pid, 0)` fails for a living process of another user is left out, and
  so is the Windows pipe lock. `failed`, `raced` and `accompanied` are history variables for the
  properties: what has gone wrong, that two processes have been starting at the same time, and which
  processes were not alone while they started;
* in `BridgeProcess` the locks are taken in one step, for `SingleInstance` has their steps, and the Windows
  pipe's security descriptor is left out. A token and a random port are known by the process they
  belong to; what names a process whose slot is used again names `Old`. `BRP_AUTH_TOKEN` is not
  set. A request on stdin is told apart only if it is `exit`;
* in `NativeLink` nothing measures time. A timer is a step; that it came too early for
  a step that has long been possible (the token has been written, the registration is on its way) counts as
  one of the `MaxFaults` things that go wrong, and so do failures, deaths, reloads and manual starts;
* in `PermissionFlow` the methods are the four kinds its tests tell apart, and the answers of
  the lists and the gate are choices, as the user may change the configuration at any moment.
  The history field `pressed` holds which button of a request's dialog was pressed while it waited, not by whom;
* in `Adapter` what a bridge answers is a choice and each child sends whole messages. Once a task has taken bytes from a
  child's stdout out of turn (`crossed`), what is read there may be anything: a message, no message, an exception. Two tasks
  that meet on one stdout are what `asyncio.StreamReader` makes of them: the second raises, or takes bytes the first waits for.
  Slots of links that nothing names any more are used again. `crossed` and `abandoned` are history variables.

## 3. The abstract specification

`RequestBroker` says what the three kinds of answer mean: *result* only after the browser
has run the request; *rejected* (unknown method, not supported, blocked, not initialized,
no extension, too large) only if no browser has received it or ever will; *uncertain*
(timeout, disconnect, failed send) otherwise; and no request runs twice. `BridgeCore`
implements it (`ImplementsBroker`, which TLC checks and TLAPS proves): the mapping is the
`Broker` instance of that module, where `Phase` and `Verdict` say which stage and which answer of the broker
a task's label and response stand for. A client that retries only after a rejection
cannot cause an action to be run twice.

## 4. Runs

The runs of `BridgeCore`, `Notifications`, `TokenStore`, `Admission` and `SingleInstance` set
`CHECK_DEADLOCK FALSE`: the environments are bounded (`MaxReq` requests per
client, each socket opened once, `MaxNotes` notifications, `MaxClock` ticks), so every
finite behaviour ends in a state where the environment has nothing left to do; in
`SingleInstance` every process ends. The runs of `NativeLink` set it too, for the extension may rest linked to a
standalone bridge once nothing more may go wrong. `PermissionFlow` and `Adapter` never stop, and
their runs check it.

| Run | Question | Expected |
|---|---|---|
| `BridgeCore_safety` | do the pending map, the sender map and the waiting tasks stay in step, and does the bridge implement the broker, in every order of requests, replies, timeouts, disconnects and reconnects? does a request ever run twice? | pass |
| `BridgeCore_liveness` | is every request answered? | pass |
| `BridgeCore_reconnect` | is "No extension connected" said only when none is? | violated |
| `Notifications_drained` | are sequence numbers complete and unique, is a connection's order kept, does everything get read and written? | pass |
| `TokenStore_files` | are the files current when nothing runs, do revoked tokens stay revoked, is a newer file ever replaced by older text? | pass |
| `Admission_slots` | is every slot returned exactly once, does the window hold, is a silent connection dropped? | pass |
| `SingleInstance_files` | is there one bridge, does discovery find it, what stops a process that starts alone, and who leaves which file behind? | pass |
| `NativeLink_recovery` | does the extension ever stop trying, or try twice at once? does it lose a process it has started, or close the port it needs? does the lockfile lead to a listening bridge? once nothing goes wrong any more, is the extension linked again and again, and does every process whose port it closed end? | pass |
| `NativeLink_timer` | does the native port stay open while the socket is connected? | violated |
| `PermissionFlow_dialogs` | does every waiting request have what will end its wait? does what is asked about run only after Allow was pressed in its own dialog in time? | pass |
| `Adapter_links` | is the link in use always read by someone, and what are the exceptions? | pass |
| `Adapter_calls` | does every tool call end, and where may it wait for ever? | pass |

The properties, by the hazard they watch:

* `PendingTracked`: an entry of `pending` belongs to the request its client's task is
  working on, and a task waiting on an empty channel has its entry; five error exits, the
  reader and the cleanup all remove entries.
* `ReplyMatches`: a success is the executed reply to the client's current request.
* `SenderLive`, `PendingHasReader`: the sender map names open connections only, and
  whatever is pending has a running reader of its browser, although the cleanup of an
  old socket and the registration of a new one come in either order.
* `RunsOnce`: a browser takes up only requests that have been sent and have not run, whoever reads
  their replies and however often it reconnects.
* `SequenceAccounted`, `PerConnectionOrder`: numbers are neither skipped nor given twice,
  and one connection's notifications stay in order. Across connections, those of one browser
  before and after a reconnect included, they may overtake each other, since the number is taken before the send.
* `EverythingRead`, `EveryNoteSettled`: no reader is stuck, and the end of a connection is noticed.
* `QuiescentFileCurrent`, `TornOnlyWhileOpen`, `RevokedStaysRevoked`: two saves at once
  may truncate each other's file, but never put older text over newer text; what is
  missing is missing only while a save has that very file open.
* `SlotsAccounted`, `WindowRespected`, `FirstMessageDecided`: see `Admission`.
* `AtMostOneUnlessRaced`, `DiscoveryFindsBridge`: as long as no two processes start at the same
  time and none takes the lockfile for missing or corrupt because of an error, one serves and the lockfile is its own, although
  others are refused, fail, end or die at any moment and removals do not look at whose file they remove.
* `LoneStartServes`: what can refuse a process that starts alone is a call of its own that fails (the TCP bind, the writing of the
  lockfile, in bootstrap mode the socket) or a leftover pid that is in use again, and nothing else: no
  socket, lockfile or temporary file left behind whole or in part, no failed removal or probe.
* `LeftoversExplained`: a file that is left when all have ended was left by a process that was killed, or failed in
  writing or removing that very file; neither the removals of each other's files nor failures elsewhere leave any.
* `OneChain`: a running `connect()`, one socket with handlers which is `ws`, or the reconnection timer: always
  exactly one of the three, although failed attempts, closed sockets, rejections and the fallback
  all hand over to one another.
* `PortsOwned`: a living process of the extension's with an open stdin is that of the active port or of the
  running attempt, so that none is forgotten; `ProcessEnds`: once its port is closed it ends.
* `PortKeptUntilTimer`: while the socket of an attempt is in use its process's port is closed by nothing but the
  attempt's own timer (which does close it: section 5).
* `PortBehindLockfile`: what discovery reads from the lockfile is being listened on, since binding comes
  before the lockfile and its removal before the end of the server; the fixed port is excepted.
* `Recovers`: if from some time on nothing goes wrong and the user's own bridges have ended, the extension is linked again and
  again. Not "for ever": the timer ends each bridge after three seconds.
* `DialogsTracked`: waiting, having an entry in `pendingPermissions` and having a timer are the same, whatever
  becomes of the dialog (replaced, closed, gone with its page, answered late). This is the safety side of
  "every dialog is settled".
* `AskedBeforeRun`: a request that was asked about runs only if Allow was pressed in the dialog of that very request
  while it waited; an answer to another dialog, a late one, a timeout or a failed dialog does not let it run. It does not say
  who pressed: the buttons take any click (section 5).
* `BusyHasRequest`: the icon stays on "active" only while a request is in work or has been dropped by a
  rejected `getActiveTabId`.
* `LinkIsRead`: `_ws_conn` and a living `_bridge_proc` have a reader or one is about to start, though readers look
  the globals up late and clear `_ws_conn` whoever's it is. Two things only can leave one deaf, and TLC finds each of them when it is
  not excepted: the call that was to create the reader failed or was cancelled (`abandoned`), or two tasks have met on the
  child's stdout (`crossed`).
* `EveryCallEnds`: every tool call returns or raises, unless it waits for the first payload of a child that lives on: the one
  wait without a timeout (section 5).

`TypeOK` is the type invariant of each module; in `Notifications` it includes the channel's
capacity, in `Admission` the limit on the counter.

Every property of a passing run has a mutant in `PROJECT.json`: an alternative definition,
kept beside the one it replaces, with a plausible mistake (a missing `pending.remove`, an id
used twice, a cleanup that forgets the sender, a `try_send`, a guard released early), under
which TLC finds the property violated.

### Bounds

* `BridgeCore_safety`: two clients with two and one requests, one browser, two sockets. Two
  requests of one client are needed for a late reply to meet a newer request, two sockets
  for a reconnect, two clients for a preemption between two locks. About a million states.
* `BridgeCore_liveness`: one request for each of two clients, two browsers with one socket each
  or one with two, every gate. No symmetry, as required for liveness.
* `Notifications_*`: two connections, a channel of one. What matters is that it can be full
  while a reader holds the next notification, as 64 can in a long run.
* `TokenStore_*`: two tasks (the race needs two saves), as many inodes as the
  two names and two open files need, one crash.
* `Admission_slots`: three connections for two slots and two admissions per window, and a
  clock of one and a half windows: enough for an admission to leave the window and for another to follow it.
* `SingleInstance_files`: three processes (one serves, one ends, one starts), two failures or deaths (one that leaves a file, one
  in getting past it), and three files: the two names and one that was renamed while open; TLC never lacks a fourth. The view
  `Matters` takes states for one that differ only in what nobody can reach or look at any more, in which inode a file is or in which of the
  processes that have ended left it. About 1.8 million states.
* `NativeLink_recovery`: two slots for processes of the extension (the old one ends while the new one
  starts), one for a manual bridge that meets them at the locks, two sockets (one is closing), and one fault at any time.
  Slots are used again without bound. 76 000 states, without symmetry. The start of a manual bridge is the one fault, so that nothing else
  goes wrong around it here; the theorems about the five invariants hold for any number of faults. `NativeLink_timer` needs none.
* `PermissionFlow_dialogs`: two requests on two tabs, each slot used again for ever. Two dialogs meet on one page, or one is answered
  while the other's tab is demoted or closed. 650 000 states up to symmetry.
* `Adapter_links`: two calls (each race is between two), two connections and two children: one in use, one that replaces it.
  Each slot is used again once nothing names it. 1.25 million states up to symmetry.
* `Adapter_calls`: the same without connections (every attempt to connect fails) and without symmetry: the first payload, what
  readers do to each other's messages and all stages of a request are there with children alone, and a call that connects waits only
  where it has a timeout of its own or sends.

### Fairness

The tokio tasks of the bridge are weakly fair (`FairSpec`): a task that is not waiting for
anything is run by the scheduler, its timer fires, and a critical section ends, since none
contains an await. Clients, browsers and the file system get no fairness. A socket whose
far end stops reading (`Stall`) disables the send, so that fairness promises nothing about
it; `MayStall` is false in `BridgeCore_liveness` and true in `BridgeCore_safety`. In `Notifications` the stdout writer is fair when it exists
(`Drained`). In `Admission` the ten-second timer makes `PeekFails` fair; nothing
makes a peer finish its handshake, so `FirstMessageDecided` starts after it.

In `NativeLink` the processes' own steps, the timers, and the callbacks of sockets (opened, failed, closed, registered) are
weakly fair; users, faults, and other clients are not. In `Adapter` each coroutine and each new reader task
is weakly fair, as the event loop runs what can run, and these waits have timeouts: two seconds for
the probe, five for the connection and for the first header of a child, thirty for a reply. The first payload has none
(`brp_mcp_adapter.py:273`), so nothing is assumed of it while the child lives (`FirstPayload` is not fair). Bridges owe the adapter nothing. The
sends and the spawn are taken to return, which the code does not bound. `PermissionFlow` states no fairness: users need
not answer, and its properties are safety properties.

## 5. What the runs found

1. `BridgeCore_reconnect`: the cleanup of an ended connection removes the sender by browserId
   (`ws_server.rs:230`), also when the browser has registered a newer connection in the meantime.
   The newer connection stays open but is no longer in the map. A sender compared before it is
   removed, or a connection number, would repair it. `SenderLive` and `PendingHasReader`
   hold nevertheless: the mistake makes the map too small, never wrong.
2. `NativeLink_timer`: the three-second timer of `startBridge` (`native.ts:86`) is never cleared, so the native port of a
   bridge that works is disconnected three seconds after its start, and the bridge exits. `clearTimeout` after the
   race would repair it.

Also seen, outside the runs. The first group are formulas of the modules that TLC refutes with the configuration named:

* `GrantHonoured` (`BridgeCore`, two clients): there is one session for all clients and `initialize` narrows it in place
  (`session.rs:298`), so a second client's `initialize` takes away what the first was granted.
* `EveryRequestAnswered` with `MayStall = TRUE`: the send to the extension is outside the timeout (`router.rs:394`).
* `EverythingRead` with `Drained = FALSE`: in bootstrap and standalone mode nobody reads the notification
  channel (`main.rs:188`, `main.rs:448-457`); once it is full, extension readers block for ever.
* `IssuedSurvives` (`TokenStore`): concurrent saves share `tokens.tmp` (`token_manager.rs:61-66`); a crash at the
  wrong moment leaves an empty `tokens.json`.
* `AtMostOneBridge` (`SingleInstance`, two processes): two that start at the same time, one of them in bridge mode,
  both find no lockfile (`lockfile.rs:171`), both write one and both serve. Creating the lockfile with
  `create_new`, or refusing in bridge mode too when the socket is taken, would repair it.
* `CapabilityEnforced` and `DisconnectedMeansGone` (`BridgeCore`): capabilities can change between the
  check and the forward, and a request sent on the new socket is failed by the cleanup of the old one.

The second group came up while modelling, and the modules show them as behaviours:

* a permission dialog that has timed out stays on its page: the page answers the message that opens it only after the
  decision, so `dialogTabId` is unset when it is needed (`flow.ts:89`, `flow.ts:105`). A late answer is ignored;
* the buttons of a dialog are elements of the page and take any click (`dialog.ts:93-100`), that of an `element.click` on the same
  tab included (`content.ts:140`): an answer is one of the dialog, not known to be one of the user;
* `flow.ts:286` says a tab is demoted only on the user's denial; a timeout, a failed dialog and a refusal by policy demote it too,
  and without a `tabId` it is the tab that is active by then (`background.ts:364`);
* the tab check is made on the active tab and the handler looks the active tab up again (`background.ts:330`, `596-688`), and
  `page.goBack`, `goForward` and `reload` do so even if the request names another tab;
* `page.navigate` makes its tab controllable, also when it was demoted while the request waited (`background.ts:606`);
* a rejected `getActiveTabId` leaves a request without a reply (`background.ts:329`, `364`);
* an adapter whose registration send fails, or whose call is cancelled there, keeps a connection nobody reads (`brp_mcp_adapter.py:169`);
* a reader of children awaits header and payload each on the child of the moment (`brp_mcp_adapter.py:215`, `217`). When a second
  call spawns a child between the two, the payload is taken from the new child; the reader, or the one that meets it there, ends by an
  exception, and the new child may be left alive, in use and unread. A call cancelled while it reads the first message leaves its child so, too;
* of two calls that spawn at once, the one whose header comes after the other has spawned awaits its payload on the other's child
  (`brp_mcp_adapter.py:271-273`): it can fail with an exception that `_spawn_bridge` does not catch;
* a child that stalls between the header and the payload of its first message holds the call up without bound (`brp_mcp_adapter.py:273`);
* a lockfile left behind whose pid is in use again, by any program of the user or by the new bridge itself, refuses a start although no
  bridge runs (`lockfile.rs:58`, `174`); RFC-B1 section 2.6 names pid reuse;
* a failed write, sync or rename leaves `brp-bridge.tmp` (`lockfile.rs:98-112`), and a failed removal is only logged (`lockfile.rs:157`);
* the draft RFC-B1 (section 7.5) stops reconnecting after ten attempts; `scheduleReconnect` has no such limit, and `Recovers` relies on that;
* bootstrap mode overwrites the token file before it has a lock (`main.rs:109`), so that the file may hold
  the token of a process that has been refused; a bridge on the fixed port keeps the lockfile when the port is taken (`ws_server.rs:40`);
* after Ctrl+C or `exit` a process with a reader on stdin lingers until that read returns.

## 6. Proofs

Every invariant and every action property of the passing runs is proved, and so is the refinement, for every value
of the constants that meets their assumptions: any clients, browsers, sockets and methods; any connections
and any channel capacity, drained or not; any tasks, tokens and files; any processes, slots, numbers of
deaths and faults; any requests and tabs; any calls and links. Where TLC needs the bounds of section 4, the
theorems need none: the bounds are constants like the others.

| Module | Theorem | Statement |
|---|---|---|
| `BridgeCore_proofs` | `TypeCorrect` | `Spec => []TypeOK` |
| | `PendingIsTracked` | `Spec => []PendingTracked` |
| | `RepliesMatch` | `Spec => []ReplyMatches` |
| | `SendersAreLive` | `Spec => []SenderLive` |
| | `PendingIsRead` | `Spec => []PendingHasReader` |
| | `BridgeImplementsBroker` | `Spec => ImplementsBroker`, the refinement of `RequestBroker` |
| | `RequestsRunOnce` | `Spec => RunsOnce`, an action property |
| `Notifications_proofs` | `TypeCorrect` | `Spec => []TypeOK`, which bounds the channel |
| | `NoNumberLost` | `Spec => []SequenceAccounted` |
| | `InOrder` | `Spec => []PerConnectionOrder` |
| `TokenStore_proofs` | `TypeCorrect` | `Spec => []TypeOK` |
| | `FileIsCurrent` | `Spec => []QuiescentFileCurrent` |
| | `RevokedIsGone` | `Spec => []RevokedStaysRevoked` |
| | `NoStaleRename` | `Spec => []TornOnlyWhileOpen` |
| `Admission_proofs` | `LimitIsRespected` | `Spec => []TypeOK`, which bounds the counter |
| | `SlotsAreAccounted` | `Spec => []SlotsAccounted` |
| | `WindowIsRespected` | `Spec => []WindowRespected` |
| `SingleInstance_proofs` | `TypeCorrect` | `Spec => []TypeOK` |
| | `DiscoveryFindsTheBridge` | `Spec => []DiscoveryFindsBridge` |
| | `OneServes` | `Spec => []AtMostOneUnlessRaced` |
| | `LoneStartIsServed` | `Spec => []LoneStartServes` |
| | `LeftoversHaveCulprits` | `Spec => []LeftoversExplained` |
| `NativeLink_proofs` | `TypeCorrect` | `Spec => []TypeOK`, of the link and of the processes |
| | `NeverTwoNeverNone` | `Spec => []OneChain` |
| | `NoOrphanPort` | `Spec => []PortsOwned` |
| | `ClosedByTimerOnly` | `Spec => []PortKeptUntilTimer` |
| | `DiscoveredPortIsOpen` | `Spec => []PortBehindLockfile`, a property of `BridgeProcess` |
| `PermissionFlow_proofs` | `TypeCorrect` | `Spec => []TypeOK` |
| | `DialogsAreTracked` | `Spec => []DialogsTracked` |
| | `AskedBeforeRunning` | `Spec => []AskedBeforeRun` |
| | `BusyHasARequest` | `Spec => []BusyHasRequest` |
| `Adapter_proofs` | `TypeCorrect` | `Spec => []TypeOK` |
| | `NoDeafLink` | `Spec => []LinkIsRead` |

Assumptions, each a named `ASSUME` of the module that declares the constants and evaluated by TLC on every run of it:
`ConstAssumption` (the allowed methods are methods, the model values for "none" are not elements of the sets they stand
beside), `NotificationsAssumption` (natural bounds, a channel with room for one), `TokenStoreAssumption`,
`SingleInstanceAssumption` and `BridgeProcessAssumption` (natural bounds, "none" is none of the others),
`AdmissionAssumption` (finitely many connections, natural limits), `NativeLinkAssumption` (the same, the
extension's processes are processes, and there is a slot for a WebSocket, since `new WebSocket` always makes
one; one slot is enough because the invariant leaves it free when it is needed), `PermissionFlowAssumption` (`NoTab` is no tab) and
`AdapterAssumption` (connections and children are different things).

Each proof module defines its inductive invariant `IInv`, shows that it holds initially and is kept by every step, and takes
the theorems from it. What it adds to the properties, and why:

`BridgeCore`. The five invariants are not inductive: a reply is matched by its
number, so one must know that numbers identify requests. `IInv` adds
that every message anywhere (pending, sent, in an inbox, on a wire) has a number below the
counter and that two messages with the same number are the same message (`IdsBelow`,
`IdsUnique`), that a task between requests holds no message (`Fresh`), that the message a
task holds is that of its current request and of the browser it asked for (`OutIsCurrent`), that
a reply on a wire has been executed (`WireExecuted`), and that a socket in use has an owner
(`Owned`). Each action has a lemma; `DeliverInv` is shared by replies and disconnects: handing
an answer to the tasks of a set of entries while taking these entries out of the map keeps
`PendingTracked`.

`BridgeCore` implements `RequestBroker`. The initial states map to initial states and each action to an action of
the broker or to a stutter. Three of the broker's guards need more than `IInv`, and `Once` supplies it: a request
that a task has yet to send, or has found too large, has not been handed out (`OnceSent`), so that a rejection is
true and a dispatch is the first; what waits in a browser has been handed out, has not run and waits there only
(`OnceInbox`), so that a run is the first, which is also `RequestsRunOnce`; and what a reader task puts into a oneshot is never a
rejection (`Replied`). That a result follows its run is `ReplyMatches`.

`Notifications`. What is written and what is in the channel form one line: a reader appends to it, and the
writer moves the border or takes one notification out of the middle (a failed write). `Drops` says what taking one out leaves
unchanged; the lemmas about `\o`, `Append` and `Tail` behind it come first in the module. A notification is in one
place only (`Places`, `HeldOne`); the unread messages of a socket come after everything of that connection which has
been numbered (`Unread`), and what a reader holds after everything of that connection in the line (`Order`), with a
greater sequence number too: this is why the numbers of one connection grow although those of two need not.

`TokenStore`. The lock of the token set is why the shared temporary file does no harm: a save runs under the read guard, so nobody
changes the set meanwhile, and all saves that run at the same time write the same text (`SameText`). It does
not matter then whose text ends up under which name; a file that has been truncated will be written again by the
save that has it open (`Good`). `Current` follows the saves past their renames, and holds unless an operation has failed
or the process has died (`faulty`). For revoked tokens nothing may be assumed about failures: they are in no
file that can still become `tokens.json` (`NothingStale`, `NotBack`), and new tokens have never been anywhere (`Tokens`).

`Admission`. The slots need no strengthening beyond types: a step that leaves
the unauthenticated stages removes one connection from a finite set and decrements the counter, which
is then positive, so `saturating_sub` never saturates. The window needs two facts: admissions lie in the past, and the limiter's list still
holds every admission younger than a second (`RecentComplete`). The windows that a new admission
falls into then contain only connections of the pruned list, which is shorter than the limit.

`SingleInstance`. While `raced` is false only one process is starting (`OneStarts`). Unless one has misread the lockfile, a
process that has read the lockfile has read the pid of whoever serves, so it can come to write
the file only when nobody does (`Decided`); and the temporary file it renames is the one it
has written, which is not the lockfile (`OwnTmp`). Together with the claim itself
(`OwnLock`: a serving process has its own pid in the lockfile) this is inductive, and since a
lockfile holds one pid, at most one process serves. `LoneStartServes` rests on `Solo`: while a process that nobody
accompanies starts, all others are dead and what it has found stays as it was, and the lockfile it has read names
another process, for it has not written one (`NotYet`); what refuses it then is in its own failures. `LeftoversExplained` rests on
`Cleaner`: each of the three files has a process on its way to remove it (the lockfile whoever serves, the socket whoever listens, the temporary
file whoever writes it), or one that was to do so has failed or was killed, which `failed` never forgets.

`NativeLink`. `ProcInv` is what the processes keep up, whoever starts and kills them: a living process is in the lockfile only while it
serves (`LockfileServes`), and with a port of its own it has bound it before (`PortBound`); an echo process takes no lock (`EchoOnly`).
Each process action keeps it, and none closes another's stdin or wakes the dead (`Quiet`), which is all that the extension's
invariants need of the processes. `OneChain` needs to know the sockets: at most one is not free, and one without handlers is
being opened by the running attempt (`Sockets`). The ports need `Attempt`: the active port is given up before a new
process is started, and is set before the attempt opens its socket. `ClosedByTimer` then says of each port
that is still needed and already closed that its own timer has fired.

`PermissionFlow`. `BecomesInv` says once what a request may become: it enters the
wait with its entry and its timer and leaves it with both, and every action but those of the page
and the user is shown to be of that form; a click that answers another request's dialog touches two (`RunClickInv`).
`AskedBeforeRun` needs two more facts: a request that is still at the lists
has not been asked about (`GateFresh`), so that the way past the gate is open only to those that need no answer; and an answer is
written down only while its request waits (`PressedType`), which `DialogsTracked` turns into: only
for a request with an entry. The dialogs need one fact for their type: one that has been sent has a tab (`DialogRecord`).

`Adapter`. A link that has just got the name `_ws_conn` or `_bridge_proc` has no reader yet: it is in the hands of the
call that named it, until that call creates one or ends (`WsIsRead`, `ProcIsRead`). A reader that comes to a stdout waits there, or
meets the task that waits, and then the child is in `crossed` (`AwaitMoves`); one that starts comes to what has the name by
then, which may be another call's link. `Named` adds that where a reader or a call waits there has been a child.

Only model-checked, because the provers cannot do it: the liveness properties (`EveryRequestAnswered`, `EverythingRead`, `EveryNoteSettled`,
`FirstMessageDecided`, `Recovers`, `ProcessEnds`, `EveryCallEnds`), which need fairness and ENABLED; and that
`ParseMode` is the loop over the arguments of `mode.rs` (`ParseModeIsLoop` in `MCNativeLink`, for up to four arguments): what a fold
computes is an induction over its data. `ParseMode` itself says what the loop amounts to, so that `EchoOnly` can be proved from it.


## 7. Not modelled yet, and the plan

In order of importance:

1. That `BridgeProcess` with its atomic locks is implemented by `SingleInstance` where no two processes start at once:
   the two are modelled apart and each is proved for itself.
2. The session behind the adapter's `_initialized` flag (the composition of `Adapter` with `BridgeCore`), and the WebSocket
   handshake, which has no timeout (`ws_server.rs:161`).

Left out for good: the individual browser actions and content scripts but for the dialog (calls into the DOM and the browser's
API, no protocol state), presentation (badge, colours, blur, options, popup), the matching of URLs and texts against
the permission lists, wire formats, log sanitising, the security descriptor of the Windows pipe, the adapter's token command
line, installers, tests and spikes.
