---------------------------- MODULE SessionCache ----------------------------
(* SessionManager (internal/auth/session.go): a map of sessions in memory    *)
(* before the sessions table of the database, and the requests that go       *)
(* through it: sessionAuthMiddleware, login, logout, and the changes of      *)
(* users that end their sessions.                                            *)
(*                                                                           *)
(* The mutex covers one access to the map; Get, Delete and DeleteByUserID    *)
(* go on to the database without it, and other requests run in between.      *)
(* Create keeps the mutex while it saves, and is one step. A database call   *)
(* may fail ("database is locked"). A session is the user it belongs to; the *)
(* role it carries, and how a user changes, are the subject of UserAccounts. *)
CONSTANTS
    Requests,       \* requests the server works on at one time (bound)
    Tokens,         \* tokens that can be handed out, none of them twice (bound)
    Users,
    Nil             \* no session, no token, no user

ASSUME CacheAssumption == Nil \notin Users \cup Tokens

VARIABLES
    cache,          \* m.sessions: the user of the session of a token, or Nil
    db,             \* the sessions table, in the same form
    issued,         \* tokens that were set as a cookie
    expired,        \* tokens whose ExpiresAt has passed
    req,            \* the requests at work
    ended,          \* tokens whose deletion from both tables has returned
    crossed         \* tokens whose deletion met a read or a login half-way, since
                    \* the process began

tables == <<cache, db>>
observed == <<ended, crossed>>
vars == <<tables, issued, expired, req, observed>>

NoSessions == [t \in Tokens |-> Nil]

\* user: whose sessions a change ends, or who signs in; found: the row that Get has
\* read; late: the tokens expired at `now`, which Get takes at its beginning; over:
\* the session had ended by then.
Idle == [at |-> "idle", token |-> Nil, user |-> Nil, found |-> Nil, late |-> {}, over |-> FALSE]

Goto(r, at) == req' = [req EXCEPT ![r].at = at]
Answer(r) == req' = [req EXCEPT ![r] = Idle]
Without(table, ts) == [t \in Tokens |-> IF t \in ts THEN Nil ELSE table[t]]

Init ==
    /\ cache = NoSessions /\ db = NoSessions
    /\ issued = {} /\ expired = {}
    /\ req = [r \in Requests |-> Idle]
    /\ ended = {} /\ crossed = {}

-----------------------------------------------------------------------------
(* Deletion: from the map, then from the table.                              *)

\* What a request deletes: the session of its token, or those of a user.
Means(r, t, s) == t = req[r].token \/ s = req[r].user

Doomed(r, table) == {t \in Tokens : table[t] # Nil /\ Means(r, t, table[t])}

\* Another request is between the two deletions of it.
HalfGone(t, s) == \E r \in Requests : req[r].at = "unstore" /\ Means(r, t, s)

\* A mutant: only the row is deleted.
MapKept(ts) == cache

MapWithout(ts) == Without(cache, ts)

Uncache(r) ==
    /\ req[r].at = "uncache"
    /\ cache' = MapWithout(Doomed(r, cache))
    /\ Goto(r, "unstore")
    /\ crossed' = crossed \cup {req[q].token : q \in {p \in Requests :
           req[p].at = "fill" /\ Means(r, req[p].token, req[p].found)}}
    /\ UNCHANGED <<db, issued, expired, ended>>

Unstore(r) ==
    /\ req[r].at = "unstore"
    /\ db' = Without(db, Doomed(r, db))
    /\ ended' = ended \cup Doomed(r, db)
    /\ Answer(r)
    /\ UNCHANGED <<cache, issued, expired, crossed>>

\* The error is dropped: the request is answered as if it had succeeded.
UnstoreFails(r) ==
    /\ req[r].at = "unstore"
    /\ Answer(r)
    /\ UNCHANGED <<tables, issued, expired, observed>>

Delete(r) == Uncache(r) \/ Unstore(r) \/ UnstoreFails(r)

-----------------------------------------------------------------------------
(* Get, called by the middleware for every request with a cookie.            *)

Arrive(r, t) ==
    /\ req[r] = Idle
    /\ req' = [req EXCEPT ![r] = [Idle EXCEPT !.at = "lookup", !.token = t,
                                              !.late = expired, !.over = t \in ended]]
    /\ UNCHANGED <<tables, issued, expired, observed>>

\* Whether a session that was found is still good at `now`.
InTime(r) == req[r].token \notin req[r].late

\* In the map: granted, or out of time and deleted. Otherwise the table is asked.
Lookup(r) ==
    /\ req[r].at = "lookup"
    /\ Goto(r, IF cache[req[r].token] = Nil THEN "purge" ELSE IF InTime(r) THEN "granted" ELSE "uncache")
    /\ UNCHANGED <<tables, issued, expired, observed>>

\* A mutant: the comparison is the wrong way round.
InTimeYet(r) == Tokens \ req[r].late

\* The rows that DeleteExpiredSessions takes, by the `now` of Get.
Overdue(r) == req[r].late

Purge(r) ==
    /\ req[r].at = "purge"
    /\ db' = Without(db, Overdue(r))
    /\ Goto(r, "load")
    /\ UNCHANGED <<cache, issued, expired, observed>>

\* GetSession, and what it found is looked at again for its time.
Load(r) ==
    LET t == req[r].token IN
    /\ req[r].at = "load"
    /\ IF db[t] = Nil THEN Answer(r)
       ELSE req' = [req EXCEPT ![r].found = db[t], ![r].at = IF InTime(r) THEN "fill" ELSE "uncache"]
    /\ crossed' = IF db[t] # Nil /\ HalfGone(t, db[t]) THEN crossed \cup {t} ELSE crossed
    /\ UNCHANGED <<tables, issued, expired, ended>>

\* Either of the two reports an error: refused.
LoadFails(r) ==
    /\ req[r].at \in {"purge", "load"}
    /\ Answer(r)
    /\ UNCHANGED <<tables, issued, expired, observed>>

\* What was read goes into the map, whatever has become of it since.
Fill(r) ==
    /\ req[r].at = "fill"
    /\ cache' = [cache EXCEPT ![req[r].token] = req[r].found]
    /\ req' = [req EXCEPT ![r].at = "granted", ![r].found = Nil]
    /\ UNCHANGED <<db, issued, expired, observed>>

Get(r) == Lookup(r) \/ Purge(r) \/ Load(r) \/ LoadFails(r) \/ Fill(r)

\* The handler runs; what becomes of the request is its own business.
Handle(r) ==
    /\ req[r].at = "granted"
    /\ Answer(r)
    /\ UNCHANGED <<tables, issued, expired, observed>>

\* The handler is that of logout: it deletes the session of the cookie.
Logout(r) ==
    /\ req[r].at = "granted"
    /\ Goto(r, "uncache")
    /\ UNCHANGED <<tables, issued, expired, observed>>

-----------------------------------------------------------------------------
(* Login, and changes of users.                                              *)

\* Authenticate has found the user and compared the password.
Authenticate(r, u) ==
    /\ req[r] = Idle
    /\ req' = [req EXCEPT ![r] = [Idle EXCEPT !.at = "create", !.user = u]]
    /\ UNCHANGED <<tables, issued, expired, observed>>

Create(r) ==
    LET u == req[r].user IN
    /\ req[r].at = "create"
    /\ \E t \in Tokens \ issued :
           /\ cache' = [cache EXCEPT ![t] = u] /\ db' = [db EXCEPT ![t] = u]
           /\ issued' = issued \cup {t}
           /\ crossed' = IF HalfGone(t, u) THEN crossed \cup {t} ELSE crossed
    /\ Answer(r)
    /\ UNCHANGED <<expired, ended>>

\* SaveSession fails, and Create takes the session out of the map again.
CreateFails(r) ==
    /\ req[r].at = "create"
    /\ Answer(r)
    /\ UNCHANGED <<tables, issued, expired, observed>>

\* UpdateUser or DeleteUser has succeeded; DeleteByUserID comes next.
ChangeUser(r, u) ==
    /\ req[r] = Idle
    /\ req' = [req EXCEPT ![r] = [Idle EXCEPT !.at = "uncache", !.user = u]]
    /\ UNCHANGED <<tables, issued, expired, observed>>

-----------------------------------------------------------------------------
Expire(t) ==
    /\ t \in issued \ expired
    /\ expired' = expired \cup {t}
    /\ UNCHANGED <<tables, issued, req, observed>>

\* The process ends between any two steps; NewSessionManager begins with an empty
\* map and reads nothing. No crossing outlives it.
Restart ==
    /\ cache' = NoSessions
    /\ req' = [r \in Requests |-> Idle]
    /\ crossed' = {}
    /\ UNCHANGED <<db, issued, expired, ended>>

Next ==
    \/ \E r \in Requests :
        \/ \E t \in issued : Arrive(r, t)
        \/ \E u \in Users : Authenticate(r, u) \/ ChangeUser(r, u)
        \/ Get(r) \/ Handle(r) \/ Logout(r) \/ Delete(r) \/ Create(r) \/ CreateFails(r)
    \/ \E t \in Tokens : Expire(t)
    \/ Restart

Spec == Init /\ [][Next]_vars

-----------------------------------------------------------------------------
\* A request is granted for a session that was in its time when the request
\* began, and had not ended before that: neither a logout, a change of the user
\* nor a restart brings a session back (session.go:60-124). Excepted until the next
\* restart are deletions that met, between their two halves, a Get which had read
\* the row, or a login of the user. Get has no lock over its read and its write, so
\* without the exception it does not hold of the code.
EndedStaysOut ==
    \A r \in Requests : req[r].at = "granted" =>
        /\ req[r].token \notin req[r].late
        /\ req[r].over => req[r].token \in crossed

Live == issued \ (expired \cup ended)

\* What the steps of Get that ask the map and the table do with a live session.
LiveIsFound ==
    \A r \in Requests : req[r].token \in Live =>
        /\ Lookup(r) => req'[r].at \in {"granted", "purge"}
        /\ Load(r) => req'[r].at = "fill" /\ req'[r].found = db[req[r].token]

\* A session that was handed out and has neither expired nor ended is never turned
\* away but by an error of the database: whatever other requests delete or purge
\* between two steps of Get, and although a restart empties the map, its row is
\* there when it is asked for (session.go:64-100, store.go:388-393).
LiveIsServed == [][LiveIsFound]_vars
=============================================================================
