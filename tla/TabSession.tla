---------------------------- MODULE TabSession ----------------------------
(* One browser tab of the frontend: who is signed in, which view is shown,   *)
(* and the WebSocket that feeds the charts (App.tsx, useAuthSession.ts,      *)
(* LoginPage.tsx, Sidebar.tsx, useWebSocket.ts and the store), against the   *)
(* sessions of the server (internal/auth/session.go).                        *)
(*                                                                           *)
(* A hook is one mount of useWebSocket: it keeps its own refs, and lives as  *)
(* long as a socket or a timer of it can still call back, even when React    *)
(* has unmounted it.                                                         *)
EXTENDS Integers, SequencesExt

CONSTANTS
    Hooks,          \* mounts of useWebSocket that may be alive at one time (bound)
    Tokens,         \* session tokens the server can hand out (bound)
    MaxClicks,      \* logout requests under way at one time (bound)
    MaxMsgs,        \* snapshots the server broadcasts (bound)
    HISTORY_LENGTH, \* points of a chart
    None            \* no token, nobody signed in

ASSUME TabAssumption ==
    /\ MaxMsgs \in Nat /\ HISTORY_LENGTH \in Nat \ {0}
    /\ None \notin Tokens \cup {"user", "public"}

VARIABLES
    public,      \* the server runs without authentication
    live,        \* tokens the server accepts
    up,          \* the network works
    count,       \* snapshots broadcast so far
    cookie,      \* the cookie jar of the browser
    authLoading, authUser, isFrozen, isConnected, \* fields of the store
    history,     \* the points of a chart, the latest at the end
    login,       \* the request of the login form: "idle" or "sent"
    logouts,     \* requests of the logout button
    hook,        \* "off", "mounted" or "left" (unmounted, but called back)
    conn,        \* the socket or the timer of a hook
    frozenRef,   \* what the hook has last learnt of isFrozen
    inbox,       \* the snapshot on its way to a hook, 0 for none
    lost,        \* a request of the tab was never answered, or a logout was
                 \* answered after the next login
    strays       \* some snapshot was shown by a hook React had unmounted

session == <<public, live, cookie>>
fields == <<authLoading, authUser, isFrozen, isConnected, history>>
requests == <<login, logouts, lost>>
refs == <<hook, conn, frozenRef, inbox, strays>>
tabVars == <<session, fields, requests, refs, up, count>>

\* A mutant: a chart whose latest point is in front.
PushInFront(arr, val) == <<val>> \o SubSeq(arr, 1, HISTORY_LENGTH - 1)

\* The last HISTORY_LENGTH points of a chart, one more pushed.
pushHistory(arr, val) == Append(Tail(arr), val)

\* One view is mounted at a time: a spinner, the login page or the pages.
View == IF authLoading THEN "spinner" ELSE IF authUser = None THEN "login" ELSE "pages"

\* Tokens are random: a new one is no token of the tab.
Unused == Tokens \ (live \cup {cookie} \cup {r.token : r \in Range(logouts)})

Mounted == {h \in Hooks : hook[h] = "mounted"}
Leaked == {h \in Hooks : hook[h] = "left"}

\* The server lets a request with this cookie through.
Accepts(token) == public \/ token \in live

-----------------------------------------------------------------------------
(* Mounting and unmounting the pages, and with them the hook.               *)

\* connect() at mount: the refs take what the store holds.
MountHook(h) ==
    /\ hook[h] = "off"
    /\ hook' = [hook EXCEPT ![h] = "mounted"]
    /\ conn' = [conn EXCEPT ![h] = "connecting"]
    /\ frozenRef' = [frozenRef EXCEPT ![h] = isFrozen]
    /\ UNCHANGED <<inbox, strays>>

\* The cleanup of the effect: close() starts to close the socket, onclose will
\* be called later; a timer that waits is cleared, and then nothing is left.
CleanUp(c) == IF c \in {"connecting", "open"} THEN "closing" ELSE
              IF c = "waiting" THEN "none" ELSE c

UnmountHooks ==
    /\ conn' = [h \in Hooks |-> IF h \in Mounted THEN CleanUp(conn[h]) ELSE conn[h]]
    /\ hook' = [h \in Hooks |-> IF h \notin Mounted THEN hook[h]
                                ELSE IF conn'[h] = "none" THEN "off" ELSE "left"]
    /\ inbox' = [h \in Hooks |-> IF h \in Mounted THEN 0 ELSE inbox[h]]
    /\ frozenRef' = [h \in Hooks |-> hook'[h] # "off" /\ frozenRef[h]]
    /\ UNCHANGED strays

\* What React does when authUser becomes user.
SetAuthUser(user) ==
    /\ authUser' = user
    /\ IF user # None /\ Mounted = {} THEN \E h \in Hooks : MountHook(h)
       ELSE IF user = None THEN UnmountHooks
       ELSE UNCHANGED refs

-----------------------------------------------------------------------------
(* useAuthSession: the one request at page load.                            *)

MeAnswers ==
    /\ authLoading /\ up
    /\ authLoading' = FALSE
    /\ SetAuthUser(IF public THEN "public" ELSE IF cookie \in live THEN "user" ELSE None)
    /\ UNCHANGED <<session, isFrozen, isConnected, history, requests, up, count>>

\* The request fails: nobody is signed in, whatever the server thinks.
MeFails ==
    /\ authLoading
    /\ authLoading' = FALSE /\ SetAuthUser(None)
    /\ lost' = TRUE
    /\ UNCHANGED <<session, isFrozen, isConnected, history, login, logouts, up, count>>

\* The user reloads the page: the store is built anew, the frozen flag comes
\* back from localStorage, and no callback of the old page survives.
Reload ==
    /\ authLoading' = TRUE /\ authUser' = None /\ isConnected' = FALSE
    /\ history' = [i \in 1..HISTORY_LENGTH |-> 0]
    /\ login' = "idle" /\ logouts' = <<>>
    /\ lost' = (lost \/ login # "idle" \/ logouts # <<>>)
    /\ hook' = [h \in Hooks |-> "off"] /\ conn' = [h \in Hooks |-> "none"]
    /\ frozenRef' = [h \in Hooks |-> FALSE]
    /\ inbox' = [h \in Hooks |-> 0] /\ strays' = FALSE
    /\ UNCHANGED <<session, isFrozen, up, count>>

-----------------------------------------------------------------------------
(* LoginPage and the logout button of the sidebar.                          *)

Submit ==
    /\ View = "login" /\ login = "idle"
    /\ \E h \in Hooks : hook[h] = "off"
    /\ login' = "sent"
    /\ UNCHANGED <<session, fields, logouts, lost, refs, up, count>>

\* The answer names a user, and its header sets the cookie.
LoginSucceeds ==
    /\ login = "sent" /\ up /\ ~public
    /\ \E k \in Unused : live' = live \cup {k} /\ cookie' = k
    /\ SetAuthUser("user")
    /\ login' = "idle"
    /\ lost' = (lost \/ logouts # <<>>)
    /\ UNCHANGED <<public, authLoading, isFrozen, isConnected, history, logouts, up, count>>

\* A wrong password, or a server without users: the answer names no user and
\* the page shows an error.
LoginRefused ==
    /\ login = "sent" /\ up
    /\ login' = "idle"
    /\ UNCHANGED <<session, fields, logouts, lost, refs, up, count>>

\* The request or its answer is lost; the server may have made the session.
LoginFails ==
    /\ login = "sent"
    /\ login' = "idle" /\ lost' = TRUE
    /\ \E made \in SUBSET Unused :
          /\ (public \/ made = {} \/ \E k \in Tokens : made = {k})
          /\ live' = IF public THEN live ELSE live \cup made
    /\ UNCHANGED <<public, cookie, fields, logouts, refs, up, count>>

\* The button is not offered in public mode, and is not disabled while an
\* earlier click is under way.
ClickLogout ==
    /\ View = "pages" /\ authUser # "public"
    /\ Len(logouts) < MaxClicks
    /\ logouts' = Append(logouts, [at |-> "sent", token |-> cookie])
    /\ UNCHANGED <<session, fields, login, lost, refs, up, count>>

\* handleAuthLogout behind sessionAuthMiddleware: a live session is deleted
\* and the answer will clear the cookie; any other request is refused with
\* 401, which clears nothing.
LogoutServed(i) ==
    /\ logouts[i].at = "sent" /\ up
    /\ logouts' = [logouts EXCEPT
           ![i].at = IF logouts[i].token \in live THEN "served" ELSE "refused"]
    /\ live' = live \ {logouts[i].token}
    /\ UNCHANGED <<public, cookie, fields, login, lost, refs, up, count>>

\* A mutant: the tab signs out at the click and does not wait for the answer.
ReturnsAtOnce(i) == TRUE

Returns(i) == logouts[i].at \in {"served", "refused"}

\* handleLogout goes on: the response never throws for a status, so the tab
\* is signed out whatever the answer says.
LogoutReturns(i) ==
    /\ Returns(i) /\ up
    /\ cookie' = IF logouts[i].at = "served" THEN None ELSE cookie
    /\ SetAuthUser(None)
    /\ logouts' = RemoveAt(logouts, i)
    /\ UNCHANGED <<public, live, authLoading, isFrozen, isConnected, history, login, lost, up, count>>

\* The request or its answer is lost: the error is swallowed and the tab is
\* signed out all the same; the cookie stays.
LogoutFails(i) ==
    /\ SetAuthUser(None)
    /\ logouts' = RemoveAt(logouts, i)
    /\ lost' = TRUE
    /\ UNCHANGED <<session, authLoading, isFrozen, isConnected, history, login, up, count>>

\* A session expires, or is deleted by an administrator or another tab.
Expire(k) ==
    /\ k \in live
    /\ live' = live \ {k}
    /\ UNCHANGED <<public, cookie, fields, requests, refs, up, count>>

-----------------------------------------------------------------------------
(* useWebSocket: the socket of a hook and the timer that reconnects it.     *)

\* onopen, of a socket the server accepted.
OnOpen(h) ==
    /\ conn[h] = "connecting" /\ up /\ Accepts(cookie)
    /\ conn' = [conn EXCEPT ![h] = "open"]
    /\ isConnected' = TRUE
    /\ UNCHANGED <<session, authLoading, authUser, isFrozen, history, requests,
                   hook, frozenRef, inbox, strays, up, count>>

\* The socket is refused, breaks, or finishes the close() of the cleanup.
Closes(h) ==
    \/ conn[h] = "connecting" /\ (up => ~Accepts(cookie))
    \/ conn[h] = "open" /\ ~up
    \/ conn[h] = "closing"

\* A mutant: a handler that leaves the flag of the store alone.
LeaveFlag == isConnected

ClosedFlag == FALSE

\* A mutant: nobody tries again.
NoTimer == "none"

AfterClose == "waiting"

\* onclose: the flag of the store, and a new timer, whoever closed the socket.
OnClose(h) ==
    /\ Closes(h)
    /\ isConnected' = ClosedFlag
    /\ conn' = [conn EXCEPT ![h] = AfterClose]
    /\ inbox' = [inbox EXCEPT ![h] = 0]
    /\ UNCHANGED <<session, authLoading, authUser, isFrozen, history, requests,
                   hook, frozenRef, strays, up, count>>

\* WS_RECONNECT_DELAY has passed: connect() again.
TimerFires(h) ==
    /\ conn[h] = "waiting"
    /\ conn' = [conn EXCEPT ![h] = "connecting"]
    /\ UNCHANGED <<session, fields, requests, hook, frozenRef, inbox, strays, up, count>>

Listens(h) == conn[h] = "open" /\ inbox[h] = 0

\* The server broadcasts a snapshot; a socket that has one under way misses it.
Broadcast ==
    /\ count < MaxMsgs
    /\ count' = count + 1
    /\ inbox' = [h \in Hooks |-> IF Listens(h) THEN count + 1 ELSE inbox[h]]
    /\ UNCHANGED <<session, fields, requests, hook, conn, frozenRef, strays, up>>

\* onmessage drops the snapshot: the hook is frozen, or the last one it showed
\* is younger than the update interval (time is not modelled: it may be).
Drop(h) ==
    /\ inbox[h] # 0
    /\ inbox' = [inbox EXCEPT ![h] = 0]
    /\ UNCHANGED <<session, fields, requests, hook, conn, frozenRef, strays, up, count>>

\* onmessage shows the snapshot: setSnapshot pushes it to the charts.
Show(h) ==
    /\ inbox[h] # 0 /\ ~frozenRef[h]
    /\ history' = pushHistory(history, inbox[h])
    /\ strays' = (strays \/ h \in Leaked)
    /\ inbox' = [inbox EXCEPT ![h] = 0]
    /\ UNCHANGED <<session, authLoading, authUser, isFrozen, isConnected, requests,
                   hook, conn, frozenRef, up, count>>

\* The floating button: the store, localStorage, and the effect of the hook
\* that is mounted. A hook React has unmounted runs no effects.
ToggleFreeze ==
    /\ View = "pages"
    /\ isFrozen' = ~isFrozen
    /\ frozenRef' = [h \in Hooks |-> IF h \in Mounted THEN isFrozen' ELSE frozenRef[h]]
    /\ UNCHANGED <<session, authLoading, authUser, isConnected, history, requests,
                   hook, conn, inbox, strays, up, count>>

NetworkChanges ==
    /\ up' = ~up
    /\ UNCHANGED <<session, fields, requests, refs, count>>

-----------------------------------------------------------------------------
TabInit ==
    /\ public \in BOOLEAN /\ up = TRUE /\ count = 0
    /\ \E k \in Tokens : live \in {{}, {k}} /\ cookie \in {None, k}
    /\ (public => live = {} /\ cookie = None)
    /\ authLoading = TRUE /\ authUser = None /\ isConnected = FALSE
    /\ isFrozen \in BOOLEAN
    /\ history = [i \in 1..HISTORY_LENGTH |-> 0]
    /\ login = "idle" /\ logouts = <<>> /\ lost = FALSE
    /\ hook = [h \in Hooks |-> "off"] /\ conn = [h \in Hooks |-> "none"]
    /\ frozenRef = [h \in Hooks |-> FALSE]
    /\ inbox = [h \in Hooks |-> 0] /\ strays = FALSE

HookStep(h) == OnOpen(h) \/ OnClose(h) \/ TimerFires(h) \/ Drop(h) \/ Show(h)

TabNext ==
    \/ MeAnswers \/ MeFails \/ Reload
    \/ Submit \/ LoginSucceeds \/ LoginRefused \/ LoginFails
    \/ ClickLogout \/ \E i \in DOMAIN logouts : LogoutServed(i) \/ LogoutReturns(i) \/ LogoutFails(i)
    \/ \E k \in Tokens : Expire(k)
    \/ \E h \in Hooks : HookStep(h)
    \/ Broadcast \/ ToggleFreeze \/ NetworkChanges

\* The browser runs timers and reports what happens to sockets.
Fairness == \A h \in Hooks : WF_tabVars(OnOpen(h)) /\ WF_tabVars(OnClose(h)) /\ WF_tabVars(TimerFires(h))

TabSpec == TabInit /\ [][TabNext]_tabVars /\ Fairness

-----------------------------------------------------------------------------
(* Properties.                                                              *)

\* The charts show snapshots in the order in which the server took them, over
\* any number of reconnections and logins, unless a hook that React has
\* unmounted has put its own snapshots in between (useWebSocket.ts:54-67,
\* store/index.ts:97-101 and 142-166).
HistoryInOrder ==
    ~strays => \A i, j \in 1..HISTORY_LENGTH :
                  i < j /\ history[i] # 0 => history[i] < history[j]

\* The dot of the sidebar and the banner tell the truth about the socket of
\* the mounted hook, as long as no unmounted hook reports its own attempts to
\* the same flag (useWebSocket.ts:46-47 and 80-81).
ConnectionShown == Leaked = {} => (isConnected <=> \E h \in Mounted : conn[h] = "open")

\* A tab all of whose requests were answered, each logout before the next
\* login, shows the login page only when the server would refuse it: a click
\* on logout has ended the session before the page says so, and a server
\* without users never sends anyone there (useAuthSession.ts:12-38,
\* Sidebar.tsx:111-119, handlers.go:150-176). The answer of a second click,
\* after the next login, would sign the tab out of a session that lives on.
SignedOutIsOut == View = "login" /\ ~lost => ~Accepts(cookie)

\* A tab that shows the pages, over a network that comes back for good, to a
\* server that goes on accepting its cookie, gets a socket that stays open,
\* whatever failed before (useWebSocket.ts:39-96).
Reconnects ==
    (<>[](up /\ Accepts(cookie)) /\ <>[](View = "pages"))
        => <>[](\E h \in Mounted : conn[h] = "open")
=============================================================================
