----------------------------- MODULE AdminPage -----------------------------
(* The page on which an administrator manages users (pages/AdminPage.tsx and *)
(* components/ui/Dialog.tsx), while another administrator does the same from *)
(* another browser, over the accounts of the server.                         *)
(* A request the page gives up on has reached its end at the server.         *)
EXTENDS UserAccounts

CONSTANTS Me,      \* the id of the administrator of this page (authUser)
          Page,    \* the client of this page
          MaxRival, \* requests the other administrators make (bound)
          MaxActs   \* inputs changed and handlers begun on the page (bound)

ASSUME AdminAssumption == Me \in Users /\ Page \in Clients /\ Nil \notin {"success", "error"}

VARIABLES
    users,        \* the list on the page: the role shown for each user, Nil if not listed
    roleDraft,    \* editors: the role picked in the list, Nil without an editor
    passDraft,    \* editors: whether a password was typed
    loads,        \* the load of the mount, and the one a handler waits for
    busy, deleteTarget,
    toast,        \* the last toast: Nil, "success" or "error"
    acts,         \* inputs changed and handlers begun so far
    rivals,       \* requests of the other administrators so far
    overtaken     \* the load of the mount was answered after a write began

shown == <<users, roleDraft, passDraft>>
adminVars == <<accounts, shown, loads, busy, deleteTarget, toast, acts, rivals, overtaken>>

NoLoad == [at |-> "off", list |-> Nil]
Sent == [at |-> "sent", list |-> Nil]
Nobody == [u \in Users |-> Nil]
NoPasswords == [u \in Users |-> FALSE]

\* ListUsers, the answer of GET /api/users.
ListUsers == [u \in Users |-> IF Exists(u) THEN role[u] ELSE Nil]

Listed(u) == users[u] # Nil

\* setUsers and resetEditors: an editor keeps the role it had, whatever the
\* list says now, and forgets the password.
SetUsers(list) ==
    /\ users' = list
    /\ roleDraft' = [u \in Users |-> IF list[u] = Nil THEN Nil
                                     ELSE IF roleDraft[u] # Nil THEN roleDraft[u] ELSE list[u]]
    /\ passDraft' = NoPasswords

-----------------------------------------------------------------------------
(* Loading the list (and the audit log, whose entries are left out).        *)

ServeLoad(k) ==
    /\ loads[k].at = "sent"
    /\ loads' = [loads EXCEPT ![k] =
           [at |-> "served", list |-> IF MayAdminister(Page) THEN ListUsers ELSE Nil]]
    /\ UNCHANGED <<accounts, shown, busy, deleteTarget, toast, acts, rivals, overtaken>>

\* The network loses a load.
LoseLoad(k) ==
    /\ loads[k].at = "sent"
    /\ loads' = [loads EXCEPT ![k] = [at |-> "served", list |-> Nil]]
    /\ UNCHANGED <<accounts, shown, busy, deleteTarget, toast, acts, rivals, overtaken>>

\* The load of the mount arrives (the message of one that fails is left out).
MountLoadArrives ==
    /\ loads["mount"].at = "served"
    /\ loads' = [loads EXCEPT !["mount"] = NoLoad]
    /\ IF loads["mount"].list = Nil THEN UNCHANGED shown
       ELSE SetUsers(loads["mount"].list)
    /\ overtaken' = (overtaken \/ busy \/ toast # Nil)
    /\ UNCHANGED <<accounts, busy, deleteTarget, toast, acts, rivals>>

\* A mutant: a page that goes on with the list it has.
KeepList(list) == UNCHANGED shown

ShowReloaded(list) == SetUsers(list)

\* The load a handler waits for after a write arrives: with it the handler
\* ends. A load that fails makes the write look failed, and leaves the dialog.
ReloadArrives ==
    LET list == loads["reload"].list IN
    /\ loads["reload"].at = "served"
    /\ loads' = [loads EXCEPT !["reload"] = NoLoad]
    /\ busy' = FALSE
    /\ \/ /\ list # Nil
          /\ ShowReloaded(list)
          /\ toast' = "success"
          /\ deleteTarget' = IF req[Page].op = "delete" THEN Nil ELSE deleteTarget
       \/ /\ IF list = Nil THEN UNCHANGED shown ELSE SetUsers(list)
          /\ toast' = "error"
          /\ UNCHANGED deleteTarget
    /\ req' = [req EXCEPT ![Page] = NoRequest]
    /\ UNCHANGED <<role, session, crowded, acts, rivals, overtaken>>

-----------------------------------------------------------------------------
(* The handlers. While busy none begins; the lists and the inputs stay open. *)

Act == acts < MaxActs /\ acts' = acts + 1

PickRole(u, r) ==
    /\ Act
    /\ Listed(u) /\ deleteTarget = Nil
    /\ roleDraft' = [roleDraft EXCEPT ![u] = r]
    /\ UNCHANGED <<accounts, users, passDraft, loads, busy, deleteTarget, toast, rivals, overtaken>>

TypePassword(u) ==
    /\ Act
    /\ Listed(u) /\ deleteTarget = Nil
    /\ passDraft' = [passDraft EXCEPT ![u] = TRUE]
    /\ UNCHANGED <<accounts, users, roleDraft, loads, busy, deleteTarget, toast, rivals, overtaken>>

Begin(op, u, r, p) ==
    /\ ~busy /\ Act
    /\ Send(Page, op, u, r, p)
    /\ busy' = TRUE
    /\ UNCHANGED <<shown, loads, deleteTarget, toast, rivals, overtaken>>

CreateUser(r) == deleteTarget = Nil /\ Begin("create", Nil, r, Nil)

\* The payload has the role only if it is not the one the list shows.
RoleToSend(u) == IF roleDraft[u] # users[u] THEN roleDraft[u] ELSE Nil

SaveUser(u) ==
    /\ Listed(u) /\ deleteTarget = Nil
    /\ RoleToSend(u) # Nil \/ passDraft[u]
    /\ \E p \in IF passDraft[u] THEN {"good", "bad"} ELSE {Nil} :
          Begin("update", u, RoleToSend(u), p)

\* A save without a change ends at once, with an error.
SaveNothing(u) ==
    /\ ~busy /\ Listed(u) /\ deleteTarget = Nil
    /\ RoleToSend(u) = Nil /\ ~passDraft[u]
    /\ toast' = "error"
    /\ UNCHANGED <<accounts, shown, loads, busy, deleteTarget, acts, rivals, overtaken>>

\* The delete button of a user opens the dialog; the own one is disabled.
OpenDialog(u) ==
    /\ ~busy /\ Listed(u) /\ u # Me /\ deleteTarget = Nil
    /\ deleteTarget' = u
    /\ UNCHANGED <<accounts, shown, loads, busy, toast, acts, rivals, overtaken>>

\* Escape and the backdrop close the dialog, also while a delete is under way.
CancelDialog ==
    /\ deleteTarget # Nil
    /\ deleteTarget' = Nil
    /\ UNCHANGED <<accounts, shown, loads, busy, toast, acts, rivals, overtaken>>

ConfirmDelete == deleteTarget # Nil /\ Begin("delete", deleteTarget, Nil, Nil)

\* The answer of a write: a refusal or a lost answer ends the handler with an
\* error, a success goes on to reload the lists.
WriteAnswered ==
    /\ req[Page].at = "done" /\ loads["reload"] = NoLoad
    /\ \/ /\ req[Page].ok
          /\ loads' = [loads EXCEPT !["reload"] = Sent]
          /\ UNCHANGED <<accounts, busy, toast>>
       \/ /\ toast' = "error" /\ busy' = FALSE
          /\ ReplyArrives(Page)
          /\ UNCHANGED loads
    /\ UNCHANGED <<shown, deleteTarget, acts, rivals, overtaken>>

\* What other administrators ask for, and the end of it.
RivalSends(c) ==
    /\ rivals < MaxRival /\ rivals' = rivals + 1
    /\ \E u \in Users : Exists(u) /\
          \/ \E r \in Roles : Send(c, "update", u, r, Nil)
          \/ Send(c, "delete", u, Nil, Nil)
    /\ UNCHANGED <<shown, loads, busy, deleteTarget, toast, acts, overtaken>>

RivalAnswered(c) ==
    /\ ReplyArrives(c)
    /\ UNCHANGED <<shown, loads, busy, deleteTarget, toast, acts, rivals, overtaken>>

Server(c) ==
    /\ ServerStep(c)
    /\ UNCHANGED <<shown, loads, busy, deleteTarget, toast, acts, rivals, overtaken>>

-----------------------------------------------------------------------------
Rivals == Clients \ {Page}

AdminInit ==
    /\ AccountsInit /\ session[Page].user = Me
    /\ users = Nobody /\ roleDraft = Nobody /\ passDraft = NoPasswords
    /\ loads = [mount |-> Sent, reload |-> NoLoad]
    /\ busy = FALSE /\ deleteTarget = Nil /\ toast = Nil
    /\ acts = 0 /\ rivals = 0 /\ overtaken = FALSE

Loading == MountLoadArrives \/ ReloadArrives \/ \E k \in DOMAIN loads : ServeLoad(k)

AdminStep ==
    \/ Loading \/ \E k \in DOMAIN loads : LoseLoad(k)
    \/ WriteAnswered
    \/ \E u \in Users : \/ \E r \in Roles : PickRole(u, r)
                        \/ TypePassword(u)
                        \/ SaveUser(u) \/ SaveNothing(u) \/ OpenDialog(u)
    \/ \E r \in Roles : CreateUser(r)
    \/ CancelDialog \/ ConfirmDelete
    \/ \E c \in Rivals : RivalSends(c) \/ RivalAnswered(c)
    \/ \E c \in Clients : Server(c)

-----------------------------------------------------------------------------
\* After a write that succeeded the page shows the table as it is, as long as
\* nobody else writes and the load of the mount has not come in late and put
\* an older list over it (AdminPage.tsx:51-60, 71-79 and 145-146).
ListIsTrue == toast = "success" /\ ~busy /\ rivals = 0 /\ ~overtaken => users = ListUsers
=============================================================================
