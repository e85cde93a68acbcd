--------------------------- MODULE UserAccounts ---------------------------
(* The user table and the sessions of the server, and the requests of        *)
(* administrators that change them (internal/auth/store.go,                  *)
(* internal/auth/session.go, handleUsers and handleUserByID of handlers.go). *)
(* A request is several database statements: other requests run in between.  *)
(* Names, hashes and the audit log are left out; sessions are there from the *)
(* start (signing in is the subject of TabSession).                          *)
EXTENDS Integers, FiniteSets

CONSTANTS Users,   \* ids of users, those yet to be created included (bound)
          Clients, \* administrators' browsers, each with one request at a time
          Nil     \* no session, a field that is not in the payload

Roles == {"admin", "viewer"}

ASSUME AccountsAssumption ==
    /\ IsFiniteSet(Users)
    /\ Nil \notin Users \cup Roles /\ Nil \notin [user : Users, role : Roles]

VARIABLES
    role,      \* the table: the role of each user, "unborn" or "gone" for no row
    session,   \* the session of each client: its user and the role it had, or Nil
    req,       \* the request of each client
    crowded    \* two requests were at work at one time

accounts == <<role, session, req, crowded>>

Exists(u) == role[u] \in Roles
Admins == {u \in Users : role[u] = "admin"}

NoRequest == [at |-> "idle", op |-> "none", id |-> Nil, role |-> Nil,
              password |-> Nil, ok |-> FALSE]

Goto(c, at) == req' = [req EXCEPT ![c].at = at]
Reply(c, ok) == req' = [req EXCEPT ![c].at = "done", ![c].ok = ok]

Send(c, op, u, r, p) ==
    /\ req[c] = NoRequest
    /\ req' = [req EXCEPT ![c] =
           [at |-> "sent", op |-> op, id |-> u, role |-> r, password |-> p, ok |-> FALSE]]
    /\ UNCHANGED <<role, session, crowded>>

\* requireAdmin: the session is known, with the role it was given at login.
MayAdminister(c) == session[c] # Nil /\ session[c].role = "admin"

Authorise(c) ==
    /\ req[c].at = "sent"
    /\ IF ~MayAdminister(c) \/ (req[c].op = "delete" /\ session[c].user = req[c].id)
       THEN Reply(c, FALSE)
       ELSE Goto(c, "read")
    /\ crowded' = (crowded \/ \E d \in Clients \ {c} : req[d].at \in {"read", "count", "write"})
    /\ UNCHANGED <<role, session>>

\* CreateUser: one statement; a taken or malformed name or a short password is
\* refused.
Create(c) ==
    /\ req[c].at = "read" /\ req[c].op = "create"
    /\ \/ Reply(c, FALSE) /\ UNCHANGED role
       \/ /\ Reply(c, TRUE)
          /\ \E u \in Users : role[u] = "unborn" /\ role' = [role EXCEPT ![u] = req[c].role]
    /\ UNCHANGED <<session, crowded>>

\* The request takes an admin away, so the others have to be counted.
TakesAnAdmin(c) ==
    /\ role[req[c].id] = "admin"
    /\ req[c].op = "delete" \/ req[c].role = "viewer"

\* GetUserByID of UpdateUser and of DeleteUser.
ReadUser(c) ==
    /\ req[c].at = "read" /\ req[c].op \in {"update", "delete"}
    /\ IF ~Exists(req[c].id) THEN Reply(c, FALSE)
       ELSE Goto(c, IF TakesAnAdmin(c) THEN "count" ELSE "write")
    /\ UNCHANGED <<role, session, crowded>>

\* A mutant: one admin is taken for enough.
OneIsEnough(admins) == Cardinality(admins) < 1

IsLastAdmin(admins) == Cardinality(admins) <= 1

CountAdmins(c) ==
    /\ req[c].at = "count"
    /\ IF IsLastAdmin(Admins) THEN Reply(c, FALSE) ELSE Goto(c, "write")
    /\ UNCHANGED <<role, session, crowded>>

\* UPDATE users SET role touches the row if there is one; DELETE says whether
\* there was one.
WriteUser(c) ==
    LET u == req[c].id IN
    /\ req[c].at = "write"
    /\ IF req[c].op = "delete"
       THEN /\ role' = [role EXCEPT ![u] = "gone"]
            /\ IF Exists(u) THEN Goto(c, "finish") ELSE Reply(c, FALSE)
       ELSE /\ role' = IF req[c].role # Nil /\ Exists(u) THEN [role EXCEPT ![u] = req[c].role] ELSE role
            /\ Goto(c, "finish")
    /\ UNCHANGED <<session, crowded>>

\* The sessions of a user end. One that survives was read from its row between
\* the two halves, the map and the table, or its row could not be deleted.
DeleteByUserID(u) ==
    \E ended \in SUBSET {c \in Clients : session[c] # Nil /\ session[c].user = u} :
        session' = [c \in Clients |-> IF c \in ended THEN Nil ELSE session[c]]

\* The password comes after the role: a bad one refuses an update whose role is
\* written already. Only a request that succeeds, and asks for something, ends
\* the sessions of the user.
Finish(c) ==
    LET u == req[c].id
        refused == req[c].op = "update" /\ (req[c].password = "bad" \/ ~Exists(u))
        empty == req[c].op = "update" /\ req[c].role = Nil /\ req[c].password = Nil
    IN
    /\ req[c].at = "finish"
    /\ Reply(c, ~refused)
    /\ IF refused \/ empty THEN UNCHANGED session ELSE DeleteByUserID(u)
    /\ UNCHANGED <<role, crowded>>

ServerStep(c) == Authorise(c) \/ Create(c) \/ ReadUser(c) \/ CountAdmins(c) \/ WriteUser(c) \/ Finish(c)

\* The answer reaches the client, which may send its next request.
ReplyArrives(c) ==
    /\ req[c].at = "done"
    /\ req' = [req EXCEPT ![c] = NoRequest]
    /\ UNCHANGED <<role, session, crowded>>

AccountsInit ==
    /\ role \in [Users -> Roles \cup {"unborn"}] /\ Admins # {}
    /\ session \in [Clients -> {[user |-> u, role |-> "admin"] : u \in Admins}]
    /\ req = [c \in Clients |-> NoRequest]
    /\ crowded = FALSE

\* What a client may ask for: a new user with a role; another role, another
\* password or both; a user less.
Asks(c) ==
    \/ \E r \in Roles : Send(c, "create", Nil, r, Nil)
    \/ \E u \in Users, r \in Roles \cup {Nil}, p \in {"good", "bad", Nil} : Send(c, "update", u, r, p)
    \/ \E u \in Users : Send(c, "delete", u, Nil, Nil)

AccountsStep == \E c \in Clients : Asks(c) \/ ServerStep(c) \/ ReplyArrives(c)

\* The accounts on their own, under clients that ask for anything at any time.
AccountsSpec == AccountsInit /\ [][AccountsStep]_accounts

-----------------------------------------------------------------------------
\* Requests that do not overlap leave at least one administrator: the last one
\* is neither deleted nor made a viewer (store.go:278-284 and 314-322). Two that
\* both count two admins before either writes remove both, for the count and
\* the write are in no transaction.
LastAdminKept == ~crowded => Admins # {}
=============================================================================
