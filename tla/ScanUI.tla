------------------------------- MODULE ScanUI -------------------------------
(***************************************************************************)
(* A browser tab on the storage page, composed with the scan service:      *)
(* useNcduScan.ts, useWebSocket.ts, ncduReady.ts and the store fields they *)
(* share, over the handlers of /api/ncdu and the stream of snapshots whose *)
(* ncdu_ready flag main.go takes from Runner.IsReady.                      *)
(*                                                                         *)
(* Requests and answers travel separately: the service may move on between *)
(* them, two status requests may be answered out of order, and a message   *)
(* may have left the server before a request that the tab sent earlier.    *)
(* Nothing but a message or the answer to a POST makes the tab ask for the *)
(* status.  There is one tab; the ref that mirrors isScanning after each   *)
(* render is identified with it.                                           *)
(***************************************************************************)
EXTENDS Integers, Sequences, ScanService

CONSTANTS
    Fetches,        \* status requests in flight at one time (a bound)
    WireCap,        \* messages under way to the tab (a bound; 256 and more in the code)
    Faults          \* what may fail: "request", "status" or "socket"

ASSUME ScanUIAssumption ==
    /\ NoPath \notin Paths
    /\ WireCap \in Nat \ {0}
    /\ Faults \subseteq {"request", "status", "socket"}

VARIABLES
    isScanning,     \* store.isScanning: the spinner, and Cancel instead of Scan
    scanResult,     \* status of store.scanResult, "none" when null
    post,           \* the POST of startScan: where it is and what it says
    del,            \* the DELETE of cancelScan
    fetch,          \* fetch[f]: a GET of fetchStatus
    wire,           \* ready flags under way in messages
    connected,      \* the WebSocket is open
    prevReady, prevScanning,    \* the refs of useWebSocket
    unanswered,     \* a status request has failed since the last click on Scan
    unnoticed       \* the result came while the tab held an older one for ready

store   == <<isScanning, scanResult>>
rest    == <<post, del, fetch, unanswered>>
socket  == <<wire, connected, prevReady, prevScanning, unnoticed>>
vars    == <<service, store, rest, socket>>

Ready == status = "done"

NoPost == [at |-> "none", path |-> NoPath]

UIInit ==
    /\ Init
    /\ isScanning = FALSE /\ scanResult = "none"
    /\ post = NoPost /\ del = "none"
    /\ fetch = [f \in Fetches |-> "none"]
    /\ wire = <<>> /\ connected = TRUE
    /\ prevReady = FALSE /\ prevScanning = FALSE
    /\ unanswered = FALSE /\ unnoticed = FALSE

-----------------------------------------------------------------------------
(* Faulty forms of the helpers below, kept to show that a property notices *)
(* the mistake.                                                            *)
FetchIfScanning(ready) == ready /\ ~ prevReady /\ isScanning /\ ~ prevScanning
AskNothing == "started"                 \* "cached" treated like "started"

-----------------------------------------------------------------------------
(* startScan, handleNcduScan (POST) and the answer.                        *)

StartScan(p) ==
    /\ ~ isScanning /\ post.at = "none"
    /\ isScanning' = TRUE /\ scanResult' = "none"
    /\ post' = [at |-> "sent", path |-> p]
    /\ unanswered' = FALSE
    /\ UNCHANGED <<service, del, fetch, socket>>

\* What the tab does on "cached" and on "running": it asks for the status.
AnswerToCached == "asked"

ServePost ==
    /\ post.at = "sent"
    /\ \/ /\ Joins(post.path) \/ (Ready /\ path = post.path)
          /\ post' = [post EXCEPT !.at = AnswerToCached]
          /\ UNCHANGED service
       \/ /\ \E s \in Scans : Begin(post.path, s)
          /\ post' = [post EXCEPT !.at = "started"]
    /\ UNCHANGED <<store, del, fetch, socket, unanswered>>

\* fetchStatus is called.
Ask == \E f \in Fetches : fetch[f] = "none" /\ fetch' = [fetch EXCEPT ![f] = "sent"]

AnswerPost ==
    /\ \/ post.at = "started" /\ UNCHANGED fetch
       \/ post.at = "asked" /\ Ask
    /\ post' = NoPost
    /\ UNCHANGED <<service, store, del, socket, unanswered>>

PostFails ==
    /\ "request" \in Faults /\ post.at # "none"
    /\ post' = NoPost
    /\ isScanning' = FALSE
    /\ UNCHANGED <<service, scanResult, del, fetch, socket, unanswered>>

-----------------------------------------------------------------------------
(* cancelScan and handleNcduScan (DELETE).                                 *)

CancelScan ==
    /\ isScanning /\ del = "none"
    /\ del' = "sent"
    /\ UNCHANGED <<service, store, post, fetch, socket, unanswered>>

ServeCancel ==
    /\ del = "sent"
    /\ Cancel
    /\ del' = "answered"
    /\ UNCHANGED <<store, post, fetch, socket, unanswered>>

\* The same whether the request went well or not.
AnswerCancel ==
    /\ del = "answered" \/ ("request" \in Faults /\ del = "sent")
    /\ del' = "none"
    /\ isScanning' = FALSE /\ scanResult' = "none"
    /\ UNCHANGED <<service, post, fetch, socket, unanswered>>

-----------------------------------------------------------------------------
(* fetchStatus and handleNcduStatus.                                       *)

ServeStatus(f) ==
    /\ fetch[f] = "sent"
    /\ fetch' = [fetch EXCEPT ![f] = status]
    /\ UNCHANGED <<service, store, post, del, socket, unanswered>>

Ends(r) == r \in {"done", "error"}

AnswerStatus(f) ==
    /\ fetch[f] \notin {"none", "sent"}
    /\ scanResult' = fetch[f]
    /\ isScanning' = (isScanning /\ ~ Ends(fetch[f]))
    /\ fetch' = [fetch EXCEPT ![f] = "none"]
    /\ UNCHANGED <<service, post, del, socket, unanswered>>

\* A toast is shown; the request is not repeated.
StatusFails(f) ==
    /\ "status" \in Faults /\ fetch[f] # "none"
    /\ fetch' = [fetch EXCEPT ![f] = "none"]
    /\ unanswered' = TRUE
    /\ UNCHANGED <<service, store, post, del, socket>>

-----------------------------------------------------------------------------
(* The stream of messages.                                                 *)

\* A snapshot for which the buffer of the tab has no room is dropped.
HasRoom == Len(wire) < WireCap

Push ==
    /\ connected /\ HasRoom
    /\ wire' = Append(wire, Ready)
    /\ UNCHANGED <<service, store, rest, connected, prevReady, prevScanning, unnoticed>>

shouldFetchNcduStatus(ready) ==
    ready /\ (~ prevReady \/ (isScanning /\ ~ prevScanning))

\* onmessage of a tab that is not frozen and past its update interval.
Message ==
    /\ connected /\ wire # <<>>
    /\ \/ shouldFetchNcduStatus(Head(wire)) /\ Ask
       \/ ~ shouldFetchNcduStatus(Head(wire)) /\ UNCHANGED fetch
    /\ prevReady' = Head(wire) /\ prevScanning' = isScanning
    /\ wire' = Tail(wire)
    /\ unnoticed' = (unnoticed /\ Head(wire))
    /\ UNCHANGED <<service, store, post, del, connected, unanswered>>

\* onmessage of a frozen tab, or too soon after the previous message: it returns
\* before it looks at ncdu_ready.
MessageSkipped ==
    /\ connected /\ wire # <<>>
    /\ wire' = Tail(wire)
    /\ UNCHANGED <<service, store, rest, connected, prevReady, prevScanning, unnoticed>>

Disconnect ==
    /\ "socket" \in Faults /\ connected
    /\ connected' = FALSE /\ wire' = <<>>
    /\ UNCHANGED <<service, store, rest, prevReady, prevScanning, unnoticed>>

ReadyOnConnect == FALSE

Reconnect ==
    /\ ~ connected
    /\ connected' = TRUE
    /\ prevReady' = ReadyOnConnect /\ prevScanning' = isScanning
    /\ unnoticed' = FALSE
    /\ UNCHANGED <<service, store, rest, wire>>

-----------------------------------------------------------------------------
\* The tab waits, and the last message it processed said that a result was ready.
HoldsOldFlag == isScanning /\ prevScanning /\ prevReady

\* A scan ends, whatever the tab has noticed of it.  unnoticed records that the
\* result comes when the tab has not learnt that the result before it is gone.
ScanEnds(s) ==
    /\ Complete(s)
    /\ unnoticed' = IF status # "done" /\ status' = "done" THEN HoldsOldFlag ELSE unnoticed
    /\ UNCHANGED <<store, rest, wire, connected, prevReady, prevScanning>>

Tab ==
    \/ \E p \in Paths : StartScan(p)
    \/ AnswerPost \/ PostFails
    \/ CancelScan \/ AnswerCancel
    \/ \E f \in Fetches : AnswerStatus(f) \/ StatusFails(f)
    \/ Message \/ MessageSkipped \/ Disconnect \/ Reconnect

Server ==
    \/ ServePost \/ ServeCancel \/ Push
    \/ \E f \in Fetches : ServeStatus(f)
    \/ \E s \in Scans : ScanEnds(s)

UINext == Tab \/ Server

UISpec == UIInit /\ [][UINext]_vars

\* Requests are served and answered, snapshots keep coming, the tab reconnects and
\* is not frozen or throttled at every message from some time on.  Scans and the
\* user owe nothing.
FairSpec ==
    /\ UISpec
    /\ WF_vars(ServePost) /\ WF_vars(ServeCancel) /\ SF_vars(Push)
    /\ WF_vars(AnswerPost) /\ WF_vars(AnswerCancel)
    /\ SF_vars(Message) /\ WF_vars(Reconnect)
    /\ \A f \in Fetches : WF_vars(ServeStatus(f)) /\ WF_vars(AnswerStatus(f))
-----------------------------------------------------------------------------
(* Properties.                                                             *)

Answering == post.at # "none" \/ del # "none" \/ \E f \in Fetches : fetch[f] # "none"

\* The wake-up is not lost: while a result is there, the tab waits for it and no
\* request is under way, the next ready message makes the tab ask.  Two things
\* except it: a status request has failed, of which the user was told, or the
\* message that said "not ready" between two results never was processed, and then
\* the next message that says so, or the next connection, puts it right.
WakeUpNotLost ==
    isScanning /\ status = "done" /\ ~ Answering /\ ~ unanswered /\ ~ unnoticed =>
        ~ prevReady \/ ~ prevScanning

\* With the same two exceptions, a tab does not wait for ever for a result that is
\* there, whatever messages were skipped and however often the connection broke.
FinishedScanIsShown ==
    []<> (isScanning /\ status = "done" => unanswered \/ unnoticed)

\* A tab does not wait for ever for a scan that ended with an error.
FailedScanIsShown == []<> ~ (isScanning /\ status = "error")
=============================================================================
