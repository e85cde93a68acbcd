# QuickVPS in TLA+

TLA+ modules, TLC model checks and TLAPS proofs about QuickVPS: a Go daemon that
samples a server's metrics, pushes them to browsers, scans directories with
ncdu, watches the CPU for alerts, and lists and stops the processes behind open
ports, with users who sign in and a React front end. All paths below are relative to the repository's
`src/` (`internal/...` is `src/internal/...`).

1. [The system](#1-the-system): components, state, interactions, what is hard
2. [The modules](#2-the-modules): which module models what, and how it corresponds to the code
3. [The runs](#3-the-runs): what each checks and shows, bounds
4. [Fairness](#4-fairness)
5. [The proofs](#5-the-proofs)
6. [Disagreements between code and documentation](#6-disagreements-between-code-and-documentation)
7. [What is not modelled](#7-what-is-not-modelled)
8. [Plan](#8-plan)

To repeat a run: `tlc -config ScanRunner.cfg ScanRunner` in this directory; to
repeat a proof: `tlapm ScanRunnerProofs.tla`. `PROJECT.json` lists the runs, the
mutants (a plausible bug for each property, which makes it fail), the source
lines of every definition, the hazards and the theorems.

## 1. The system

### Components

| Component | Source | State | Operations | Modelled by |
| --- | --- | --- | --- | --- |
| Storage analyzer runner | `internal/ncdu/runner.go` | one result (status, path, tree, time), a cancel function, the cache TTL; per scan a goroutine, a context and an ncdu process | `Start`, `Cancel`, `GetResult`, `IsReady`, `SetCacheTTL`, the steps of `run` | ScanRunner, ScanService |
| ncdu output parser | `internal/ncdu/parser.go` | none | `ParseNcduOutput` | planned |
| Scan UI | `frontend/src/hooks/useNcduScan.ts`, `useWebSocket.ts`, `lib/ncduReady.ts` | spinner, result, two refs with the last flags seen, requests under way | `startScan`, `cancelScan`, `fetchStatus`, `onmessage`, reconnecting | ScanUI |
| CPU alert evaluator | `internal/alerts/evaluator.go` | three windows, the level, three cooldowns | `Evaluate` | AlertEvaluator, AlertCycle |
| Alert notifier | `internal/alerts/notifier.go` | none of its own; attempts and results of one dispatch | `Notify`, `retry`, Telegram and SMTP senders | AlertNotifier |
| Alert service | `internal/alerts/service.go` | configuration, secrets, mute window, mutex | `NewService`, `Run`, `UpdateConfig`, `SetSilence`, `ClearSilence`, `TriggerTest`, `ListHistory` | AlertSettings; parts in AlertNotifier and AlertEvaluator |
| Alert store and secrets | `internal/alerts/store.go`, `crypto.go` | SQLite tables for settings, secrets, silence, events | save, load, seal, open, list, clean up | AlertSettings (listing and clean-up planned) |
| WebSocket hub and clients | `internal/ws/hub.go`, `client.go` | set of clients, three channels, a send buffer per client | `Run`, `Broadcast`, `NewClient`, `readPump`, `writePump` | WsHub |
| Metrics collector | `internal/metrics/collector.go` | interval, ticker, previous counters, subscribers | `Run`, `SetInterval`, `Subscribe`, `Unsubscribe`, `Latest` | Collector |
| Metric samplers | `internal/metrics/{cpu,memory,disk,network}.go` | none | reads of the operating system, rate arithmetic | planned (arithmetic) |
| Process wiring | `main.go` | root context, bridge goroutine | start, bridge, shutdown | WsHub (bridge, shutdown), AlertSettings (restart) |
| Users and sessions | `internal/auth/` | users and sessions in SQLite, a session cache in memory | create, login, update, delete, purge | UserAccounts (requests of administrators), SessionCache (the map over the table), TabSession (signing in and out) |
| HTTP handlers | `internal/server/` | none | routes and middleware | as steps and inputs of the modules that use them |
| Port scanner | `internal/ports/scanner.go` | none; the processes of the machine | `ListListeners`, `KillByPort` | Ports |
| Firewall audit | `internal/firewall/` | none | run ufw/iptables/nft, parse, judge exposure | planned (the exposure rule) |
| Package audit | `internal/packages/audit.go` | none | run the package manager, parse | not modelled |
| Session of a tab, its WebSocket | `frontend/src/App.tsx`, `hooks/useAuthSession.ts`, `hooks/useWebSocket.ts`, `pages/LoginPage.tsx`, `components/layout/Sidebar.tsx` | signed-in user, view, socket and timer of every mount, freeze flag, chart history | page load, login, logout, mount, unmount, reconnect, freeze | TabSession |
| Administration page | `frontend/src/pages/AdminPage.tsx`, `components/ui/Dialog.tsx` | list of users, editors, dialog, busy flag | create, save, delete, reload | AdminPage over UserAccounts |
| Alerts, firewall, packages pages | `frontend/src/pages/{Alerts,Firewall,Packages}Page.tsx` | the parts on display, loading flags | load, refresh, test, mute, clear mute | DataPages |
| Ports page | `frontend/src/pages/PortsPage.tsx` | list, disabled button, error flag | poll, refresh, kill | PortsPage |
| Settings page | `frontend/src/pages/SettingsPage.tsx`, `hooks/useServerInfo.ts`, `lib/alerts.ts` | numbers in the store, the alerts form | save with rollback, edit, load, mute | SettingsPage, AlertsForm, MuteCard |
| Store, toasts, metric components | `frontend/src/store/index.ts`, `hooks/useToast.ts`, `components/{metrics,charts,storage,ui}` | chart history, preferences, toasts | setters, rendering | the fields other modules name |
| Build and deployment | `Makefile`, scripts | none | none | not modelled |

### Interactions

```
          ticker                      subscriptions (4 slots, drop when full)
   Collector.Run ──► collect ──► fan-out ──┬──► Alert service.Run ──► Evaluate ──► Notify ──► history
        ▲                                  │            ▲   (synchronous)
        │ intervalCh (1 slot)              │            │ s.mu
   SetInterval (HTTP)                      │     UpdateConfig / SetSilence (HTTP)
                                           └──► bridge of main.go, adds Runner.IsReady
                                                      │ broadcast (64 slots, drop when full)
   HTTP /api/ncdu ──► Runner ◄── run goroutines       ▼
        ▲                                         Hub.Run ──► send (64 slots) ──► writePump ──► browser
        │                                             ▲
   useNcduScan (browser) ◄── useWebSocket ◄───────────┴── readPump (register, unregister)

   pages (browser) ──► HTTP /api/{alerts,ports,firewall,packages,interval,users} ──► services
   login, logout ────► sessions ◄── every request and every WebSocket upgrade
```

Almost every hand-over in the server is a buffered channel written with
`select ... default`: producers never wait and consumers may miss messages. What
has to be right is what follows from dropping: that a newer value wins (the
interval), that order is kept (snapshots), that a missed message is made up for
by a later one (the ready flag), and that nobody waits for a goroutine that has
gone.

### What is hard, and what makes each component correct

* **Runner.** Cancelling a context does not end a scan; it asks ncdu to end.
  Goroutines of replaced and cancelled scans live on beside the current one and
  all of them write one shared result at their end, in any order. Correct means:
  a living scan that nobody cancelled can still be cancelled; "running" means
  that somebody is running; the tree on display belongs to the path on display; a
  cancelled scan ends; a running status is resolved.
* **Scan UI.** The browser asks for the result only on a flag in the metrics
  stream, whose messages may be skipped (frozen or throttled tab), dropped
  (full buffers), or stale (sent before the request). Answers to status requests
  overtake each other. Correct means that no tab waits for ever for a result that
  is there.
* **Evaluator.** Seven timers, three thresholds, irregular samples, silence, and
  thresholds that change in the middle of a window. Correct means: no alert
  before its full window, cooldowns kept, no overload missed, a level cleared only
  by a recovery.
* **Notifier.** A lost answer looks like a refused request, a retry repeats the
  chats already reached, and the context is looked at between attempts only.
  Correct means that the history tells the truth, copies are bounded, and every
  dispatch ends.
* **Settings.** Two stores (memory and SQLite), two writes without a transaction,
  a lock held over both, a mute window written without it, and a key that may be
  another one after a restart. Correct means: patches are merged, memory and
  disk agree when nothing is under way, secrets are what their record seals.
* **Hub.** Send on a closed channel and double close are panics; unbuffered
  register and unregister block for ever once the hub has returned. Correct means
  that neither panic happens, order is kept, a slow browser stalls nobody, and a
  dead connection is forgotten.
* **Collector.** The field is set under a mutex and the value handed over
  outside it; a one-slot channel is drained and refilled by several goroutines.
  Correct means that the newest interval wins, that rates are never divided by
  zero, and that subscribers get snapshots in order and cannot block sampling.
* **Port scanner.** The processes change between the two runs of lsof and the
  signals, and one process of several may refuse its signal. Correct means that
  a listing is exactly what lsof saw and that a process which was there all the
  time is not missed.

* **Tab session.** React unmounts `useWebSocket`, but a socket it closed still calls
  `onclose`, which starts a timer that nobody clears: hooks of earlier logins
  live beside the present one and write the same store. Logout requests may be
  answered late, twice or never. Correct means that the charts are in order,
  the connection dot tells the truth, a tab is sent to the login page only when the
  server would refuse it, and a socket is got back after every failure.
* **Accounts and sessions.** A request of an administrator is several statements without
  a transaction, next to those of another administrator; sessions carry a copy of
  the role, and live in a map over a table that is read and written outside its mutex.
  Correct means that an administrator remains, that an ended session stays out, and
  that a session in its time is found, also after a restart.
* **Pages.** Every page starts requests that overlap (polls, refreshes, commands,
  optimistic saves) and writes their answers into one state as they come. Correct
  means that what is shown is not older than what was asked for last, that no button
  stays disabled, that a save which fails leaves browser and server agreed, and that
  a form changes nothing the user left alone.

The complete list of hazards, each at its line, is in `PROJECT.json`. Of several the
code is not safe: two requests that overlap do remove the last administrator, for
example. Where that is so, no property is claimed for it, or the note at the hazard
names the exception that the property makes. Such an exception is an observer, a variable
no step of the program depends on, which becomes true in the very steps in which
the hazard strikes: `unnoticed`, `silent`, `crossed`, `torn`, `overlapped`, `apart`,
`crowded`, `overtaken`, `lost`, `strays`. A property with an observer does not say that the
hazard does no harm. It says that what the property promises is broken in this way
and no other; [section 6](#6-disagreements-between-code-and-documentation) says what
happens when it is.

## 2. The modules

| Module | Models | Composed with |
| --- | --- | --- |
| `ScanService` | abstract: the result a client sees, scans at work, one write at each scan's end | implemented by ScanRunner, used by ScanUI |
| `ScanRunner` | `runner.go` in detail | refines ScanService |
| `ScanRunnerProofs` | theorems about ScanRunner | |
| `ScanUI` | one tab, the HTTP requests, the message stream | EXTENDS ScanService |
| `AlertCycle` | abstract: a level that is raised, escalated, cleared, announced | implemented by AlertEvaluator |
| `AlertEvaluator`, `MCAlertEvaluator` | `Evaluate` branch by branch, configuration changes | refines AlertCycle |
| `AlertEvaluatorProofs` | theorems about AlertEvaluator | |
| `AlertNotifier` | one dispatch after another, both channels | |
| `AlertSettings`, `MCAlertSettings` | settings, secrets, silence, restarts | |
| `AlertProofs` | theorems about AlertSettings and AlertNotifier | |
| `WsHub` | hub, client goroutines, bridge, shutdown | |
| `Collector`, `MCCollector` | ticker, `SetInterval`, fan-out | |
| `StreamProofs` | theorems about WsHub and Collector | |
| `Ports`, `MCPorts` | lsof, the parser, `KillByPort`, changing processes | |
| `PortsProofs` | theorems about Ports: the parser, the sort and the request | |
| `TabSession` | signing in and out, mounts of `useWebSocket`, freezing, chart history | |
| `TabProofs` | theorems about TabSession and ScanUI | |
| `UserAccounts` | the user table, sessions and roles, requests of administrators | used by AdminPage |
| `SessionCache`, `MCSessionCache` | the sessions in memory over those in SQLite, with restarts | |
| `SessionProofs` | theorems about SessionCache | |
| `AdminPage` | the administration page, one rival administrator | EXTENDS UserAccounts |
| `DataPages` | alerts, firewall and packages pages: loads of several parts, commands | |
| `PortsPage` | polling and killing on the ports page | |
| `SettingsPage`, `AlertsForm`, `MuteCard` | numbers saved with rollback; the alert form; its commands | |
| `Pages` | one page mounted, the others at rest | EXTENDS the five above and AdminPage |
| `PageProofs` | theorems about the pages, UserAccounts, and their composition in Pages | |

### Correspondence with the code

**ScanRunner.** `status`, `path`, `root`, `age` are the fields of `r.result`;
the tree is represented by the path it was read from and `ScannedAt` by its age
in ticks. `cancel` is `r.cancel`, `cancelled` the set of contexts that are done.
A member of `Scans` is a goroutine slot; it is reused when its goroutine has
returned, so behaviours contain any number of scans and only those alive at
once are bounded. A critical section of `r.mu` is one action (`StartCached`,
`StartJoined`, `StartNew`, `Cancel`, `SetCacheTTL`). The goroutine is cut where
it leaves the lock or the process: `Install` (the look for ncdu, which may start a
package manager), `InstallerEnds` (if it does), `Spawn`, `NcduExits` or
`NcduKilled`, `Collect` (the tests after `Wait`, outside the mutex) and the last
write (`WriteIdle`, `SetError`, `WriteDone`). Between `Collect` and the write
other requests come in, which is where the interesting behaviours are.

**ScanService** is what the rest of the program sees of it: `Begin`, `Cancel`,
and `Complete` (with a tree, an error, or idle). `ScanRunner` implements it under
`work[s] <- the directory of goroutine s while it lives`; installing, spawning
and killing are stuttering. Freshness of the cache is a question of time and
left out of the abstract specification.

**ScanUI** composes a tab with ScanService, as justified by that refinement.
`isScanning` and `scanResult` are the store's fields; `post`, `del`, `fetch` are
requests, each split into being sent, being served and being answered; `wire`
holds the ready flags of messages under way; `prevReady` and `prevScanning` are
the refs of `useWebSocket`. `Message` is `onmessage` from beginning to end,
`MessageSkipped` its early returns for frozen or throttled tabs, `Push` the
path from `Runner.IsReady` in `main.go` to the client's buffer. A scan ends at any moment
(`ScanEnds` is `Complete` of the service), also between two messages of the stream or
before the first one is processed; `unnoticed` is an observer of results that come while
the tab still holds the flag of the result before (`HoldsOldFlag`). `ServePost`
takes a finished scan of the same path for cached, i.e. the TTL is not modelled
here: its effects are those of ScanRunner.

**AlertEvaluator** has one operator per branch of `Evaluate`, in its order, and
`UpdateConfig` guarded by the cross-field tests of `validateConfig`. `lastSent`
holds `last{Warning,Critical,Recovery}At`. `run` is an observer, independent of
the windows: the time at which the present unbroken series of samples on one
side of a threshold began. `AlertCycle` knows neither windows nor thresholds.

**AlertNotifier** follows one goroutine through `Notify`: `StartNotify` (with
the configuration copied under the mutex), per channel the attempts of `retry`,
per Telegram attempt one step per chat (`TelegramSends`, `TelegramRefused`,
`TelegramAnswerLost`), `EmailSends`/`EmailFails`, `GiveUp`/`Sleep`/`Wake`, and
the event that `dispatch` stores or fails to store. `reached` and `mails`
count copies at the addressee, which the program does not know, and `late` the
attempts begun under a cancelled context: all three are bounded in
`RetriesAreBounded`. `MailUnderWay` is a call of `smtp.SendMail`, which has no deadline.

**AlertSettings.** `dbConfig`, `dbRecord`, `dbMuted` are the rows in SQLite,
`cfg`, `record`, `secret`, `muted` their copies in memory. `UpdateConfig` takes
`s.mu`, copies and patches; `SaveConfig` and `SaveRecord` are its two database
writes; `ApplyUpdate` is the assignment and the unlock; `SaveFails` the return
from either write. `Silence`, `SetMutedUntil`, `MuteInMemory` are the mute
requests, which lock for the last step only. `Stop` may happen between any two
steps; `NewService` loads what is on disk under any key. `asked`, `torn` and
`crossed` are observers: what the accepted updates asked for, whether an update
stopped halfway, and whether mute requests overlapped.

**WsHub** has one action per case of the hub's `select` (`HubRegisters`,
`HubUnregisters`, `HubDelivers`, `HubReturns`), a rendezvous with the client's
goroutine where the channel is unbuffered; `reader` and `writer` are the two
goroutines of a connection. `Connect` to `HubRegisters` is `NewClient`.
Buffer overflow drops the message (`Offer`). Messages are numbered by the bridge.

**Collector.** `SetInterval` is cut at its channel operations (`OfferInterval`,
`DrainInterval`, `RetryInterval`), `Run` at `ApplyInterval`, `TakeTick`,
`Collect`, `Publish`. `Advance` is the clock with the ticker of Go 1.23 and
later (`go.mod` asks for 1.24), whose `Reset` discards a tick not yet received. `overlapped` is an
observer: the latest change began while another was being handed over.

**Ports.** `Accept`, `ListTCP`, `ListUDP`, `Signal`, `Answer`, `LsofFails` are
one `DELETE /api/ports/:port`. `parseLsofOutput` goes over lsof's field lines and
carries process and protocol along, as the loop in the code does; `Sortings` is any
order that `sort.Slice`, which is not stable, may leave. A socket has an address, which is
part of what makes two entries different and no part of the order, so that a process
that holds a port at two addresses is listed twice, in either order. `runLsof` returns
what was parsed, or nothing when lsof exits with an error and no message; an lsof that is
missing or has a message is `LsofFails`. `Open`, `Close`, `Exit`,
`Reuse` are other processes, and `Lsof` is the external tool, modelled from the
arguments and the output format the code relies on. `steady` and `silent` are observers: who
listened on the port throughout the request, and for which protocol lsof failed without a
message.

**TabSession.** `live` is the server's session table, `cookie` the browser's. A
member of `Hooks` is one mount of `useWebSocket` with its refs; `hook` says
whether React has it mounted, has left it (`"left"`: its socket or timer can
still call back) or whether it is free, `conn` is its socket or timer. `View` is
the choice `App.tsx` makes from `authLoading` and `authUser`; `SetAuthUser` is
what React does on a change, mounting or unmounting the hook in the same step.
`MeAnswers`/`MeFails` are `useAuthSession`; `Submit`, `LoginSucceeds`,
`LoginRefused`, `LoginFails` the login form; `ClickLogout`, `LogoutServed`,
`LogoutReturns`, `LogoutFails` the button, `handleAuthLogout`, and its handler; `Closes`
and `OnClose` are every reason for `onclose` and the handler, `Drop` and `Show` the
two ways through `onmessage`. `lost` and `strays` are observers: a request
without an answer (or a logout answered after the next login), and a snapshot
that an unmounted hook has shown.

**UserAccounts** cuts a request at its statements: `Authorise` (middleware and the
handler's own checks), `ReadUser`, `CountAdmins`, `WriteUser`, and `Finish`, which
is the password and `DeleteByUserID`. The latter ends any of the sessions of the user: one
that was read from its row between the two halves, or whose row could not be deleted,
goes on with the role it had, and may send further requests. How that comes about, step by
step, is in SessionCache. `crowded` (two requests at work at one time) is an observer. An
update that names neither role nor password is answered, but ends no session.
`AccountsSpec` has clients that ask for anything (`Asks`); the browsers of AdminPage
are clients that ask for less.
**SessionCache** has `SessionManager` step by step: `cache` is `m.sessions`, `db` the table,
and a member of `Requests` is a request the server works on. `Arrive` is
`sessionAuthMiddleware`, which takes `now`; `Lookup`, `Purge`, `Load`, `Fill` are `Get`;
`Uncache` and `Unstore` the two halves of `Delete` and `DeleteByUserID` (`Doomed` says of
which tokens); `Authenticate` and `Create` the login. The handler behind `Get` may be that
of logout or any other. Every database call may fail, and `Restart` may come between any
two steps. `ended` and `crossed` are observers: sessions whose deletion is complete, and
those whose deletion met a `Get` or a login on its way since the process began.
`UserAccounts` and `TabSession` see this as one table, and the roles are the subject of
the former.
**AdminPage** sends these requests for one browser: `loads` holds the load of the
mount and the reload a handler waits for, `SetUsers` is `setUsers` with
`resetEditors`, and `RivalSends` are the requests of another administrator.

**DataPages** has `load()` of three pages in one form: `Start` sends a request for each
part, `Serve` answers one, `Unsupported` or `SetParts` is the test of the answers,
`ShowPart` one `set...` after its body, `LoadFails` the catch. A value is the number
of changes before it, and `due` an observer: the data the page owes.
**PortsPage** has the three ways to `fetchPorts` and `handleKillPort` with its
`finally`. **SettingsPage** is `handleSaveInterval` and `handleSaveCacheTtl` cut at
their awaits, with the request of `useServerInfo`. The setters of the store have a least
value and no greatest (`AtLeast`), a value that is not positive is passed over
(`InfoArrives`), and other tabs, other clients and restarts with another `-interval` give
the server any number (`OthersSet`, `ServerValues`); a handler whose page is
reloaded leaves an `"orphan"` that the server may still get. **AlertsForm** has the controls
and the save of the alert card; fields that are sent as they stand are one field.
**MuteCard** has its three commands. **Pages** mounts one of them: a page that is
left gives up its state, so a behaviour is that of one page, and `Unmounted` keeps
the others at one initial state.

Definitions headed "Faulty forms" or "Mutant" are never used by a specification:
each is the form a helper would have after a plausible mistake, and replacing the
helper by it makes the property named with it in `PROJECT.json` fail.

## 3. The runs

State counts are of distinct states, times of two workers.

| Run | Instance | States | Shows |
| --- | --- | --- | --- |
| `scan_runner` | 2 paths, 2 slots, TTL 1..2 | 127 k, 12 s | `NoOrphanScan`, `ServiceSpec` (refinement), `CancelledScanEnds`, `RunningResolves` |
| `scan_ui` | 1 path, 2 scan slots, 2 status requests, wire of 1, all faults | 1.12 M, 79 s | `WakeUpNotLost`, `FinishedScanIsShown` |
| `ui_error` | the same, 1 request, no faults | violated | `FailedScanIsShown` fails, see section 6 |
| `alert_eval` | 4 loads (one per band), gaps of 1 and 2, 4 configurations (one refused), time to 12 | 77 k, 7 s | `SentAfterFullWindow`, `CooldownRespected`, `OverloadDetected`, `CycleSpec` (refinement) |
| `alert_notify` | 2 chats, up to 3 attempts, every configuration of channels | 243 k, 22 s | `ResultsAreTrue`, `RetriesAreBounded`, `DeliveryEnds` |
| `alert_settings` | 2 requests, 2 fields of 2 values, 1 secret, 2 keys, 1 mute window | 287 k, 64 s | `NoLostUpdate`, `SettingsOnDisk`, `SecretIsOpened`, `SilenceOnDisk`, `RequestsEnd` |
| `ws_hub` | 2 connections, hub buffer 2, send buffer 1, 3 messages | 109 k, 26 s | `KnownClientsOpen`, `SlowClientsDoNotStall`, `DeadConnectionsLeave`, `WritersEndOnShutdown` |
| `collector` | 2 requests, 1 subscriber with 2 slots, intervals 1..3, time to 4 | 246 k, 38 s | `IntervalInForce`, `IntervalTakesEffect` |
| `ports` | 2 processes (one protected), 2 ports, 2 addresses, 2 sockets each of 6 kinds, 2 changes | 1.06 M, 18 s | `ListingIsExact`, `NobodyIsMissed` |
| `tab_session` | 2 hooks, 2 tokens, 2 logout requests, 2 snapshots, 2 points | 1.27 M, 90 s | `HistoryInOrder`, `ConnectionShown`, `SignedOutIsOut`, `Reconnects` |
| `pages` | 2 loads, 2 changes; 2 ports, 1 fetch, 2 kills; 2 saves of 2 values, 3 more on the server; 2 secrets; 2 commands; 2 users, 2 administrators' browsers, 3 acts, 1 rival request | 1.72 M, 80 s | `ShownIsFresh`, `DisabledIsPending`, `ListCatchesUp`, `StoreIsServer`, `OnlyTouchedChanges`, `ToldIsTrue`, `LastAdminKept`, `ListIsTrue` |
| `session_cache` | 3 requests, 2 tokens, 2 users, symmetric | 2.25 M, 90 s | `EndedStaysOut`, `LiveIsServed` |

A type invariant stands in the modules where a proof needs one and is proved
there; the runs are spent on properties that could fail.

### Why the bounds are enough

* *Scan runner.* Two goroutines are the least that can be in each other's way: a
  current scan and a late one. More late ones only repeat what one can do, for a
  late goroutine does nothing but its one write; the theorems hold for any
  number. Two paths distinguish "same directory" from "another one". A TTL of 1 or
  2 ticks has results that are fresh under one lifetime and stale under the other.
* *Scan UI.* Two status requests are needed for answers out of order. A wire
  of one message already makes messages stale and drops others; longer wires
  delay further without adding a kind of staleness. One path is enough because
  the tab cannot tell paths apart while it waits. Two scan slots let a scan begin, and end,
  while the one it replaced has not ended.
* *Evaluator.* One load per band, windows of two and three samples, gaps of one
  or two, so that windows end both on and after their limit; `MaxTime` 12 allows
  a warning, an escalation, a recovery and a second round with its cooldown.
  Configurations that lower the thresholds while a window runs are included, with
  one that `validateConfig` must refuse.
* *Notifier.* Two chats have "reached, then failed"; three attempts have a first, a
  middle and a last. Every mix of channels off, incomplete and on is an initial
  configuration.
* *Settings.* Two requests overlap in every way; two fields make a lost
  update visible; two keys and no key cover the restarts.
* *Hub.* One full buffer next to one that is read, a hub buffer that holds more
  than one message, and slots that are reused for reconnections.
* *Collector.* Two overlapping `SetInterval` calls (each up to three channel
  operations), one longer and one shorter than the first interval, and
  one argument that is refused; two subscriber slots fill within the time bound.
* *Ports.* Two processes on one port are the least for one to fail and the other
  to be signalled; two descriptors make the parser carry its state from
  line to line, and let one process listen at both addresses of a port; two changes let a
  process exit and its id be used again.

* *Tab session.* Two mounts are the present one and one that React has left; two
  logout requests let one be answered after the next login, which needs a second
  token; two snapshots on two points are the least that can be out of order.
* *Pages.* Two loads, kills, saves or commands overlap in every way; a third does
  nothing to the first that a second could not. One fetch beside those of two kills
  lets three answers arrive in any order. Two secrets show that one is left
  alone while the other changes. Two users and two administrators can each take the
  other away; three acts are an edit, a save and another request.
  `MaxRival = 1` allows a rival's request beside every one of the page. Of the numbers of
  others (0, 1 and 4, where the page lets 2 and 3 through) one is no whole millisecond, one
  is below what the store lets through, and one above what the page does.

* *Session cache.* Two requests are the least that can cross, and a third uses what the
  two have left in the map. Two tokens let one session of a user go on while another is
  deleted, and two users let the deletion of one leave the sessions of the other. Tokens
  are random and never handed out twice, so behaviours with more logins repeat these
  with other tokens.

Deadlock is checked except in `ws_hub`, `collector`, `ports` and `pages`: there the
process is over after shutdown, time stops at `MaxTime`, a request that has been
answered does nothing more, and a page at rest waits for its user.

## 4. Fairness

A process owes only what the code or its platform gives it; users and other
machines owe nothing unless stated.

* `ScanRunner!FairSpec`: the Go scheduler runs goroutines, a kill is delivered.
  Neither ncdu nor the package manager is assumed to end: that they do is the antecedent
  of `RunningResolves` (`NcduTerminates`, `InstallerTerminates`). `CancelledScanEnds` holds
  although ncdu might run for ever, and excepts a scan whose package manager is at work,
  for that one is given no context (`runner.go:71`, `installer.go:51-70`).
* `ScanUI!FairSpec`: requests are served and answered (or fail), the tab
  reconnects (`useWebSocket` retries for ever), messages are sent and processed
  again and again. Strong fairness of `Push` and `Message` says that a tab is
  neither throttled at every message nor disconnected before every one: a
  frozen tab owes nothing until it thaws. Scans may run for ever, or end at once.
* `AlertNotifier!NotifyFairSpec`: sleeps end, and so do requests to Telegram, whose HTTP
  client has a timeout of ten seconds (`notifier.go:28`). The SMTP dialogue has none and
  nothing is assumed of it, but that a mail which lacks an address or a password fails at
  once. `DeliveryEnds` says that a dispatch ends or comes to a mail under way, and that it
  ends if the mail server returns (`SmtpReturns`, an antecedent).
* `AlertSettings!FairSpec`: database calls return; `sync.RWMutex` does not starve
  a waiting writer (strong fairness of `MuteInMemory`).
* `WsHub!HubSpec`: the hub and the readers run. Browsers, writers and the bridge
  owe nothing, so `SlowClientsDoNotStall` and `DeadConnectionsLeave` do not rest
  on anybody reading. `OtherFairness` (writers run, a write to a dead
  connection fails, which the write deadline guarantees) is the antecedent of
  `WritersEndOnShutdown`.
* `Collector!CollectorFairSpec`: a Go `select` chooses at random among ready cases, so
  neither the ticker nor the interval channel is passed over for ever
  (strong fairness of both); subscribers owe nothing.

* `TabSession!Fairness`: the browser runs timers and reports what becomes of a
  socket. The network, the server and the user owe nothing; that the network
  comes back and the cookie stays valid is the antecedent of `Reconnects`.
* `Pages!PortsFairness`: the interval of the ports page fires again and again and
  `fetch` settles. That requests stop failing and the set of ports settles is
  the antecedent of `ListCatchesUp`.

`AlertEvaluator`, `Ports`, `SessionCache` and the other pages have safety properties only.

## 5. The proofs

All theorems hold for every value of the constants that satisfies the named
assumption of the module, and none has a further hypothesis. `tlapm` checks every step.
With the liveness properties set aside, every property of the passing runs has its
theorem.

### ScanRunnerProofs (assumption `ScanRunnerAssumption`)

The inductive invariant is

    RunnerInv == TypeOK /\ HasTarget /\ NoOrphanScan /\ RunningIsOwned /\ TreeIsOfPath

`NoOrphanScan` is inductive by itself because `Start` cancels what `r.cancel`
refers to before it overwrites it. `TreeIsOfPath` needs `HasTarget`: a late
goroutine writes tree and path from its own argument. `RunningIsOwned` is
inductive because every write of a goroutine leaves the status "running", so a
late write can spoil the status, but cannot leave a "running" without an owner.
There is one lemma for the clients' calls, one for the steps that leave the
result alone, one for the last write, one for the clock.

* `TypeCorrect`, `NeverOrphaned`, `RunningAlwaysOwned`, `TreeAlwaysOfPath`
* `ImplementsService`: every step of the runner is a step of ScanService or a
  stutter, under the refinement mapping of section 2. It needs `HasTarget`, since
  `Complete(s)` is enabled only for a scan that has a directory.

### AlertEvaluatorProofs (assumption `AlertEvaluatorAssumption`)

    EvaluatorInv == TypeOK /\ WindowsConsistent /\ WindowsMatchSamples /\ PastTimes

`SentAfterFullWindow` is not provable from the evaluator's variables alone: they
say when a window was begun, not that it was unbroken. `WindowsMatchSamples` ties
each window to the observer: a hot window is exactly the present series, a cool
window begins no earlier than it. `PastTimes` (nothing recorded lies in the
future) is what the cooldown and the refinement need. Each branch of `Evaluate` has
its step.

* `TypeCorrect`, `WindowsAlwaysConsistent`, `WindowsAlwaysMatchSamples`
* `SentOnlyAfterFullWindow`, `CooldownAlwaysRespected`, `AlwaysClearedByRecovery`,
  `OverloadAlwaysDetected` (action properties)
* `ImplementsCycle`

### StreamProofs (assumptions `WsHubAssumption`, `CollectorAssumption`)

What lies between a sample and a browser: the ticker and the hub.

`KnownClientsOpen` becomes inductive together with `KnownClientsAreAttended` (the
hub knows exactly the connections whose reader is reading or leaving) and with
the fact that a connection waiting to be registered has an open channel. `InOrder`
needs the further fact that no message is newer than the bridge's counter.
Lemmas about `Offer` and `Tail` (types, elements, order) carry the sequences.

* `TypeCorrect`, `KnownClientsAlwaysOpen`, `KnownClientsAlwaysAttended`,
  `AlwaysInOrder` (messages reach a client in the order they were sent; proved, and
  therefore in no run), for any number of clients and any capacities, in particular
  the 64 and 64 of the code
* `NewestIntervalWins`: with `overlapped` false, only the latest change can be
  under way (`OneAtWork`), so the channel it drained is still empty when it tries again
  (`RoomForRetry`), and once it has ended the interval is in the channel or at the
  ticker (`Arrived`). The bound on time plays no part in it.

### AlertProofs (assumptions `AlertSettingsAssumption`, `AlertNotifierAssumption`)

Settings, for any number of requests at a time:

* `UpdatesAreMerged`, `SettingsComeBack`, `SecretsAreOpened`. `LockIsHeld` says who is
  inside `UpdateConfig`: the holder of the lock and nobody else. `UpdatesMerge`
  says, phase by phase, how the holder's draft stands to memory and disk: it is the
  configuration in force with the patch applied, what is written is on disk, and the
  drafted secret is what the drafted record opens to.
* `SilenceComesBack`, from `OneMutes`: without `crossed` at most one mute
  request is between its two writes, with the database already changed.

The dispatch, for any number of chats and attempts:

    NotifierInv == NotifierType /\ InTurn /\ CopiesFollow /\ SuccessIsTrue /\ AttemptsCounted

* `HistoryIsTrue`: that a success is true of every chat needs `CopiesFollow`, the chats
  before `next` have a copy; that the event names exactly the channels that were on
  needs `InTurn`, the channel before the present one has its result and the one after
  it has none.
* `RetriesEnd`: that copies are at most attempts needs that the chats from `next` on
  have not got the copy of this attempt; that one attempt at most is begun under a
  cancelled context needs that a sleeper has begun none.

### TabProofs (assumptions `TabAssumption`, `ScanUIAssumption`)

The session of a tab, for any number of logins, mounts, clicks and points of a chart:

* `HistoryAlwaysInOrder`, `ConnectionAlwaysShown`, from

      HooksInv == HookType /\ OneMounted /\ ChartsBehind /\ HistoryInOrder /\ ConnectionShown

  A snapshot goes to the end of a chart, so the order is kept if it is newer than the
  last point: `ChartsBehind` says that what is in an inbox of the mounted hook or still
  to be broadcast lies ahead of the charts, which holds across mounts because the store
  keeps the charts and the server's snapshots get newer. `OneMounted` (React has one `useWebSocket` at a
  time, and a hook that is off has neither socket nor inbox) ties the one flag
  `isConnected` to the one socket it can tell of.
* `SignedOutAlwaysOut`. The page turns to the login when a logout is answered, and the
  theorem is about what the server would say then. `ClicksAreOurs`, between the two: a
  logout under way is for the cookie of the tab, or the cookie has gone, and one that
  the server has served has ended the session. `lost` takes out the rest.

The scan page over the scan service, for any number of status requests and any room in
the stream:

* `WakeUpNeverLost`, with scans that end at any moment. The invariant `WakeUpNotLost`
  speaks of a tab with no request under way; it is kept by what happens before:

      ScanInv == ScanTypes /\ (Waits => ResultIsComing)

  A tab that waits for a result which is there, and has processed the flag while it
  waited, has a request under way whose answer, in any order with others, is a result or
  an error: it asked at the edge of the flag, or when it began to wait. `Waits` leaves out
  what the property excepts: a status request that failed (`unanswered`) and a result
  that came while the tab held the flag of the one before (`unnoticed`).

### PortsProofs (assumption `PortsAssumption`)

* `ListingsAreExact`: for any processes, sockets and addresses, the TCP half of the listing
  is the set of what lsof showed, each address and port of a process once, and the
  whole is that with the UDP half, each entry once, sorted by port, protocol and process.
  Entries that differ by their address only are equals to the sort, whose result is then
  one of several. The listing has nothing else in it but connected UDP sockets under the
  port of their peer. Of a protocol for which lsof failed without a message
  (`silent`) it has nothing. This is induction over data. The
  library's induction theorems take an operator as parameter, which the provers
  cannot instantiate; `WFMin`, the least element of a non-empty set, takes none, and
  with the order of the naturals it gives induction over `0 .. N` for sets
  (`UpToInduction`) and the existence of recursive functions (`RecursionExists`).
  `parseLines` and `Concat` are recursive functions for this reason. Parsing two texts
  one after the other is parsing the second from the state the first leaves
  (`ParseConcat`); so the invariant `Adds` (the listeners are those before and the
  entries printed so far, each once) goes from a descriptor to the next
  (`FilesParsed`) and from a process to the next (`OutputParsed`), and
  `TCPExact` and `UDPExact` say what has been collected at the end. `EntryOfListener` and
  `ListenerOfEntry` relate the entries, which the text of lsof determines, to the sockets
  that the processes hold.
* `SortAlwaysEnds`: `ListUDP` takes one of the `Sortings` of what it found, and this set
  is never empty (`InsertInOrder`, by insertion), whether or not one of the two runs failed
  unnoticed, so the theorems are not about requests that end before they signal.
* `NobodyEverMissed`: for any number of requests, processes, ports and sockets, with
  the processes changing at any moment: two listings taken at different moments and
  a loop of signals of which each may fail.

      PortsInv == PortsType /\ SocketsAreHeld /\ NotSilentYet /\ SteadyListens
                  /\ InListing /\ ToSignal /\ NobodyIsMissed

  Who listened all the time listens now (`SteadyListens`), is in the half of the listing
  that is complete if that is its protocol and lsof has not kept it to itself
  (`InListing`), and after both halves is in `targets` until it was signalled or has
  refused (`ToSignal`). `SocketsAreHeld` (the
  dead hold no sockets) makes sure that such a process is there to be signalled.
  `ListingSoFar` carries what the sort needs: the first half has only TCP entries, none
  twice.

### SessionProofs (assumption `CacheAssumption`)

* `EndedSessionsStayOut`: for any users, tokens and requests at a time, any restarts and
  any failing calls of the database. `EndedStaysOut` looks at the moment of
  the grant; what makes it true is spread over the four steps of `Get` and the two
  of `Delete`:

      SessionInv == SessionType /\ TokensAreIssued /\ SameUser /\ HalfGoneIsOut /\ EndedIsOut /\ CallsAreTrue

  While a deletion is half-way, no row it is about to delete may be in the map or on
  its way into it (`HalfGoneIsOut`), for otherwise it would be left there when the
  row has gone; afterwards nothing is left in either place (`EndedIsOut`). Both except
  the tokens in `crossed`. `SameUser` is needed because `DeleteByUserID` picks entries
  by the user in the map and rows by the user in the table: where these could
  disagree, it would delete one half. `TokensAreIssued` keeps a login from handing out
  a token that an old request still carries.
* `LiveSessionsAreServed`, the converse: a session that was handed out and has neither
  expired nor ended is found whenever `Get` looks for it, in the map or in the table.
  `EndedStaysOut` alone would hold of a `Get` that refuses everybody. `LiveIsServed` is an
  action property, from the invariant `LiveIsKept`: the row of a live session stays in
  the table, because a purge takes what had expired before it began, and every other
  deletion of a row ends its session.

### PageProofs (assumptions `RangeAssumption`, `DataAssumption`, `AccountsAssumption`, `AdminAssumption`)

The parts of the pages, for any number of overlapping requests:

* `ButtonsComeBack`: `DisabledIsPending` is inductive with the type of `kills`,
  because the one slot of `killingPort` is overwritten by the latest kill and
  emptied by the end of any.
* `StoreFollowsServer`, from

      SettingsInv == SettingsType /\ Together

  `StoreIsServer` speaks of a page at rest only. `Together` says what holds on the
  way as long as nothing overlapped or was lost: at most one save is under way, no
  save before the answer of `/api/info`, and store and server stand to each other
  as the step of that save has it: the old value in `prev` follows the server's until the
  server takes the new one. To follow (`Follows`) is to be what the setters make of the
  server's value, which is another one when the server has less than they let through;
  a server that has no positive value is followed by anything.
* `ToastsAreTrue`: `MuteInv` adds that without crossed commands at most one is under
  way, and that an order which is done has had its effect on `muted`.
* `FormsChangeWhatWasTouched` (an action property): at the step in which the server
  saves, all that matters lies in the past. `FormInv` carries it there: a field that was
  not touched since the form was filled is the server's in the form, and
  in the payload; a secret that was not touched is neither rotated nor cleared in
  either. It holds for a form that was loaded and while nobody else saves, as the
  property says.
* `PagesShowFreshData`: `ShownIsFresh` is about rest. `DataInv` follows the one load
  there is while nothing overlapped: what it got is not older than `due`, a part it has
  still to set is in `left`, every other one is on the page already, and at rest the page
  is fresh or has nothing to show (`unsupported`). The lemma `PartsOfPage` (the parts of a
  page are some, and it shows no others) stands for the three pages.

The accounts, about `AccountsSpec`, in which clients ask for anything at any time:

* `AnAdminRemains`: `LastAdminKept` is inductive only with what a request knows
  when it writes. `CountHolds` says that without `crowded` at most one request is
  between its reading and its writing, so that an administrator other than
  the one it takes is still there at the write (two admins by the lemma on
  cardinalities).

And the tab in which they are composed, about `Spec` of `Pages`:

* `AdminListIsTrue`, from `AdminInv`: the handler at work is the one that sent the
  request of this page, and its reload begins only when that request is done
  (`HandlerHasRequest`); so, while no rival acts, what the reload was served is the table
  (`AloneAtWork`).
* `PagesKeepTheirPromises`: the theorems about one part each carry over to the
  composition: every step of `Pages` is a step of each part or leaves it alone
  (`StepsOfPages`, and `AdminPageUsesAccounts` for the accounts, whose clients ask for
  anything). Buttons, numbers, toasts and the last administrator are in it.

`DataAssumption` keeps the placeholder `None` apart from the values it stands beside, and
so does `AdminAssumption` for `Nil`; the latter also says that who uses the page is a user
and that the page is one of the clients.

### Model-checked only

* The liveness properties (`CancelledScanEnds`, `RunningResolves`,
  `FinishedScanIsShown`, `FailedScanIsShown`, `DeliveryEnds`, `RequestsEnd`, `SlowClientsDoNotStall`,
  `DeadConnectionsLeave`, `WritersEndOnShutdown`, `IntervalTakesEffect`, `Reconnects`,
  `ListCatchesUp`): temporal reasoning under fairness and ENABLED is beyond the prover.
## 6. Disagreements between code and documentation

Shown by a run:

* **An error is never shown** (`ui_error`). `docs/ARCHITECTURE.md:319` says of a
  failed scan "The browser shows the error message"; the tab asks only when
  `ncdu_ready` is true, which an error never makes it. Polling is by the flag
  alone, so the spinner stays.

Met while modelling, without a run of their own:

* **A wake-up is lost.** A tab that shows a result asks for another scan. The next
  message still says "ready", of the old result, so the tab asks for the status; the
  server has taken the new request by then and answers "running". If the new scan ends before the
  tab has processed a message that says "not ready" (a short scan, or a throttled
  tab), the flag has been true in every message the tab has seen, and there is no
  edge to ask at (`useWebSocket.ts:69-74`). The spinner goes on over a finished scan
  until the user acts or the connection breaks, where
  `docs/TESTING.md:285,374` expect that the tree appears when the scan completes.
  `WakeUpNotLost` and `FinishedScanIsShown` except results that come so, by `unnoticed`.
* The package manager is out of reach. `Install` starts it without the context and without
  a time limit (`runner.go:71`, `installer.go:51-70`), where `docs/TESTING.md:290` has "Cancel
  button stops an in-progress scan": a cancelled scan goes on until `apt-get` ends. One
  that waits for ever, for a lock for example, leaves the status running; until then each
  request for the same path joins it. `CancelledScanEnds` and `RunningResolves` except
  or suppose exactly this.
* A mail server that stops answering stops the alerts. `smtp.SendMail` (`notifier.go:193`)
  has no deadline and ignores the context; the dispatch runs in the loop of
  `Service.Run` (`service.go:158-160`), which then evaluates no further snapshot.
  `DeliveryEnds` supposes that it returns.
* A failure of lsof may be silent. An exit with an error and nothing on stderr counts as
  "nobody listens", and what was printed is thrown away (`scanner.go:99-102`): the
  list of ports is empty or has one protocol only, and a kill answers 404, or 200 after
  it has signalled some. `ListingIsExact` and `NobodyIsMissed` except the
  protocol for which this happened.
* A signal goes to a process id (`scanner.go:73-80`), which may belong to another process by
  then. `Ports` has this (`Reuse`); no property forbids it.
* The store clamps what the server does not. From another client (`handlers.go:783`) or by
  `-interval` (`main.go:34`) the server takes any positive interval, while the store shows
  250 ms for all that is less (`store/index.ts:207-211`). A value that others set after the page was loaded is not seen
  until the next reload. `StoreIsServer` states what does hold.
* Sessions outlive the role they were made with: `DeleteByUserID` empties the map, unlocks,
  and deletes rows without looking at the error (`session.go:112-124`); a `Get` between the
  two halves puts a session back with its old role, and a failed deletion leaves the row to
  the next `Get`. `UserAccounts` therefore lets any of the sessions survive and
  claims nothing about their roles; `LastAdminKept` holds with administrators
  whose session is out of date.

* A replaced scan resets the status of its successor. `runner.go:93` says "Cancelled by
  user", but the goroutine of a scan that `Start` replaced takes this branch too and
  writes `idle` over the running status of the new scan (`runner.go:95`). The next
  request for the same path then starts a third scan instead of joining the second.
  The result is put right when the second scan ends: `RunningResolves` and the
  refinement of ScanService hold with this.
* A deleted session comes back. `session_test.go:44` expects that `Get` does not find a
  session after `Delete`. A `Get` that finds the map empty because `Delete` has just
  emptied it (`session.go:104`), reads the row before it is deleted (`session.go:86`,
  `108`) and fills the map afterwards (`session.go:96`) brings the session back, until
  it expires or the process restarts. A tab that polls while its user signs out makes
  such requests. `EndedStaysOut` excepts them by `crossed`.
* Deletions of sessions drop the error of the database (`session.go:108,122`): a
  logout answered "logged_out" (`handlers.go:175`) leaves the row, and the next
  `Get` takes it into the map again.
* A login that has read the user before its role changes creates its session
  afterwards, with the old role (`handlers.go:116-131`); one that creates it between the
  two halves of `DeleteByUserID` loses the row and keeps the entry of the map,
  so that its user is signed out by the next restart. `SessionCache` counts the
  second as `crossed`; `UserAccounts` begins with users signed in, and has no login.
* `docs/ARCHITECTURE.md:208` and `README.md:251` have the sessions in memory; they are
  in SQLite too, and survive a restart (`session.go:52-57` and `82-97`).
* Not all goroutines return on shutdown, which `docs/ARCHITECTURE.md:258` says they
  do: a reader whose connection ends after `Hub.Run` has returned waits for ever on
  `unregister` (`client.go:53`), and so does a connection accepted after it on
  `register`. The process exits regardless; `WritersEndOnShutdown` states what
  does hold.
* Connected UDP sockets are listed under the remote port, where `README.md:178` has
  "Kill processes bound to the port": `lsof -iUDP` prints
  `local:port->remote:port` for them and `splitAddressPort` takes the last
  number (`scanner.go:174`). `Ports` has them listed as the code does.
* Live updates are paused by the mounted hook only (`useWebSocket.ts:25-30`,
  `en.json:161` "Pause live dashboard updates without disconnecting"): a hook left
  from an earlier login keeps the flag it knew and goes on to show snapshots,
  because `onclose` starts a timer after the cleanup has cleared the old one
  (`useWebSocket.ts:80-82` and `91-96`). `HistoryInOrder` and `ConnectionShown`
  therefore except such hooks.
* The answer of a second click on logout that comes after the next login signs the tab
  out of a session that lives on (`Sidebar.tsx:111-119`); and a failed request for
  `/api/auth/me` leaves a tab of a server without users on the login page, where
  no login can succeed, until it is reloaded (`useAuthSession.ts:29-32`).
  `SignedOutIsOut` excepts both by `lost`.
* Two requests of two administrators that both count two administrators before
  either writes remove both (`store.go:278` and `314`), although `ErrLastAdmin`
  is there to refuse it: `LastAdminKept` excepts requests that overlap, by
  `crowded`.
* An update with a new role and a bad password is refused after the role has been
  written (`store.go:286`); the sessions of the user keep the old role.
* An editor of the administration page keeps its role when the list is loaded again
  (`AdminPage.tsx:43`): after another administrator changed a role, saving a
  password changes it back. An administrator who changes the own password ends the
  own session, so the reload fails and the page reports an error for
  a change that was made.
* The alert form opens with the defaults of the code after a load that failed, and a
  save then writes them over the configuration (`SettingsPage.tsx:117-126`);
  `OnlyTouchedChanges` is about forms that were loaded. An emptied Gmail address is
  not cleared, as the server skips empty fields (`service.go:284`).
* Two saves of a number that overlap can go back to a value neither the user nor the
  server has (`SettingsPage.tsx:145-205`): excepted in `StoreIsServer` by `apart`.
* `docs/DESIGN_SYSTEM.md:213` has persistent toasts by `autoCloseMs: null`, but
  `null ?? default` is the default (`useToast.ts:17`). `en.json:175` says that the
  default path is pre-filled when the analyzer is opened; it is so after
  a reload only (`store/index.ts:113` and `191-194`). Neither is modelled.
* Scans may overlap for as long as the replaced ncdu takes to die
  (`runner.go:51-63`), where `docs/ARCHITECTURE.md:89,255` speak of one scan at a
  time. `ScanRunner` has the overlap; its properties hold in spite of it.
* Rates are divided by the distance of tick times (`collector.go:49-50,68,81`),
  while counters are read later, so a delayed sample shows a rate
  over another time than the one that has passed (`docs/ARCHITECTURE.md:61`).
* Two `SetInterval` calls that overlap may store their values in one order and
  hand them over in the other (`collector.go:131-149`); `Interval()` then reports a
  period the ticker does not have until the next change. `IntervalInForce`
  excepts this case by `overlapped`.

## 7. What is not modelled

* *Formats and rendering*: JSON, HTML messages, CSS, charts, command lines of
  external tools except lsof's field format.
* *External programs*: ncdu, the package manager, Telegram, SMTP and SQLite are
  environment: they succeed, fail, or lose an answer. SQLite's own durability is
  assumed.
* *Two tabs.* ScanUI has one, and the service's scans begin and are cancelled
  through it. A second tab would add `Begin` and `Cancel` at any time. Planned.
* *Durations.* TTLs, windows and intervals are small integers; conversions
  `seconds * time.Second` and their overflow are left to the planned module of
  pure algorithms.
* *Synchronous dispatch*: that `Service.Run` evaluates nothing while it retries is
  represented in AlertEvaluator by gaps between samples, and not yet as a
  composition.
* *The first administrator* (`SeedAdmin`, once, before requests are served) and the audit
  log, which nothing reads but its page.
* *Two pages at a time.* `Pages` has one: requests that outlive their page and come back
  after it is mounted anew write to nothing, except in the store, which
  SettingsPage covers by letting its handlers live on.
* *Presentation*: toasts and their timers, theme, language, font, navigation,
  expansion of tree nodes, metric cards and charts. They keep no state beyond a local
  flag or a copy of a store field. `Header.tsx` is imported nowhere.
* *Firewall and package audits, the samplers, the ncdu parser*: sequential functions
  over the output of external programs; see the plan.

## 8. Plan

In order of importance; the first two blocks are done.

1. **Core (done).** ScanRunner with ScanService and its proofs; ScanUI over
   ScanService; AlertEvaluator with AlertCycle and its proofs; WsHub and its
   proofs; AlertNotifier; AlertSettings; Collector; Ports.
2. **Browser and accounts (done).** TabSession; UserAccounts and AdminPage; DataPages,
   PortsPage, SettingsPage, AlertsForm, MuteCard, composed in Pages, with their proofs.
3. **Session cache (done).** SessionCache, the proof of `EndedStaysOut` and of its converse,
   that a live session is served. Left: an
   abstract specification (a session is valid until it is deleted or expires) that it
   implements when no deletion crosses a `Get`; the roles of sessions over the map and
   restarts.
4. **Pipeline.** Collector, alert service and bridge composed over their
   subscriptions, with synchronous dispatch (`service.go:158`): no snapshot is
   evaluated twice, an overload that outlasts a dispatch is still detected.
5. **Algorithms.** Pure functions against reference definitions: ncdu's nested
   arrays into a tree with sizes, counter differences and rates at their integer
   widths, TTL conversion at 64 bits (`handlers.go:695`), the firewall exposure
   rule, paging and clean-up of events, merging of network and disk history.
6. **A second tab** in ScanUI.
7. **Proofs.** Done: every invariant and action property of the runs,
   and the refinements of ScanService and AlertCycle. Left: the abstract session of item 3, and, in TabSession, how few
   hooks can be left over (one for every login whose socket closed late).
