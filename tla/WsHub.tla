------------------------------- MODULE WsHub -------------------------------
(***************************************************************************)
(* The WebSocket fan-out (internal/ws/hub.go and internal/ws/client.go)    *)
(* with the bridge and the shutdown of main.go.                            *)
(*                                                                         *)
(* One goroutine, Hub.Run, owns the set of clients and serves three        *)
(* channels: register and unregister are unbuffered, so those steps are a  *)
(* rendezvous with a client's goroutine, and broadcast is a small buffer   *)
(* that the bridge fills without ever waiting.  Every connection has a     *)
(* reading goroutine, which registers it and later unregisters it, and a   *)
(* writing goroutine, which drains its send buffer.  Hub.Run closes the    *)
(* send buffer of a client it forgets, and of all clients when it returns. *)
(*                                                                         *)
(* Messages are numbered in the order the bridge sends them.  A member of  *)
(* Clients is a connection slot, free again when both of its goroutines    *)
(* have returned, so that browsers may reconnect without end.              *)
(***************************************************************************)
EXTENDS Integers, Sequences

CONSTANTS
    Clients,        \* connection slots
    HubCap,         \* capacity of hub.broadcast (64 in the code)
    SendCap,        \* capacity of client.send (64 in the code)
    MaxMsgs         \* number of messages the bridge sends (a bound)

ASSUME WsHubAssumption ==
    /\ HubCap \in Nat \ {0}
    /\ SendCap \in Nat \ {0}
    /\ MaxMsgs \in Nat

VARIABLES
    hub,            \* "running" until Hub.Run returns
    bridge,         \* "running" until the bridge of main.go returns
    listening,      \* the HTTP server accepts connections
    ctxDone,        \* the root context is cancelled
    clients,        \* h.clients
    broadcast,      \* h.broadcast
    sentMsgs,       \* messages the bridge has sent so far
    reader,         \* reader[c]: the goroutine of handleWS, then readPump
    writer,         \* writer[c]: the goroutine of writePump
    conn,           \* conn[c]: whether the connection still works
    send,           \* send[c]: c.send
    closed,         \* clients whose c.send is closed
    seen            \* seen[c]: latest message written to the browser

vars == <<hub, bridge, listening, ctxDone, clients, broadcast, sentMsgs,
          reader, writer, conn, send, closed, seen>>
process == <<hub, bridge, listening, ctxDone>>
pumps   == <<reader, writer, conn>>

Msg == 1 .. MaxMsgs

TypeOK ==
    /\ hub \in {"running", "returned"}
    /\ bridge \in {"running", "returned"}
    /\ listening \in BOOLEAN /\ ctxDone \in BOOLEAN
    /\ clients \subseteq Clients
    /\ broadcast \in Seq(Msg) /\ Len(broadcast) <= HubCap
    /\ sentMsgs \in 0 .. MaxMsgs
    /\ reader \in [Clients -> {"none", "registering", "reading", "leaving"}]
    /\ writer \in [Clients -> {"none", "writing"}]
    /\ conn \in [Clients -> {"up", "down"}]
    /\ send \in [Clients -> Seq(Msg)]
    /\ \A c \in Clients : Len(send[c]) <= SendCap
    /\ closed \subseteq Clients
    /\ seen \in [Clients -> 0 .. MaxMsgs]

Init ==
    /\ hub = "running" /\ bridge = "running"
    /\ listening = TRUE /\ ctxDone = FALSE
    /\ clients = {}
    /\ broadcast = <<>> /\ sentMsgs = 0
    /\ reader = [c \in Clients |-> "none"]
    /\ writer = [c \in Clients |-> "none"]
    /\ conn = [c \in Clients |-> "down"]
    /\ send = [c \in Clients |-> <<>>]
    /\ closed = {}
    /\ seen = [c \in Clients |-> 0]

-----------------------------------------------------------------------------
(* Faulty forms of the helpers below, kept to show that a property notices *)
(* the mistake.                                                            *)
KeepClient(c) == clients                        \* no delete
AllHaveRoom == \A c \in clients : Len(send[c]) < SendCap    \* send without default
NoticedIfWriting(c) == conn[c] = "down" /\ writer[c] = "writing"
CloseNothing == closed                          \* Run returns without closing

-----------------------------------------------------------------------------
\* A send in a select with a default: the message is dropped when there is no
\* room.
Offer(q, m, cap) == IF Len(q) < cap THEN Append(q, m) ELSE q

(* The bridge of main.go.                                                  *)

\* Hub.Broadcast, whether or not the hub still receives.
Broadcast ==
    /\ bridge = "running"
    /\ sentMsgs < MaxMsgs
    /\ sentMsgs' = sentMsgs + 1
    /\ broadcast' = Offer(broadcast, sentMsgs + 1, HubCap)
    /\ UNCHANGED <<process, clients, pumps, send, closed, seen>>

BridgeReturns ==
    /\ bridge = "running" /\ ctxDone
    /\ bridge' = "returned"
    /\ UNCHANGED <<hub, listening, ctxDone, clients, broadcast, sentMsgs, pumps,
                   send, closed, seen>>

-----------------------------------------------------------------------------
(* Hub.Run: one action per case of its select.                             *)

HubRegisters(c) ==
    /\ hub = "running" /\ reader[c] = "registering"
    /\ clients' = clients \cup {c}
    /\ reader' = [reader EXCEPT ![c] = "reading"]
    /\ writer' = [writer EXCEPT ![c] = "writing"]
    /\ UNCHANGED <<process, broadcast, sentMsgs, conn, send, closed, seen>>

\* delete(h.clients, c)
ForgetClient(c) == clients \ {c}

\* readPump closes the connection after the hub has taken its request.
HubUnregisters(c) ==
    /\ hub = "running" /\ reader[c] = "leaving"
    /\ clients' = ForgetClient(c)
    /\ closed' = IF c \in clients THEN closed \cup {c} ELSE closed
    /\ reader' = [reader EXCEPT ![c] = "none"]
    /\ conn' = [conn EXCEPT ![c] = "down"]
    /\ UNCHANGED <<process, broadcast, sentMsgs, writer, send, seen>>

\* Whether the loop over the clients can proceed; a full buffer is skipped.
CanDeliver == TRUE

HubDelivers ==
    /\ hub = "running" /\ broadcast # <<>>
    /\ CanDeliver
    /\ send' = [c \in Clients |->
                  IF c \in clients THEN Offer(send[c], Head(broadcast), SendCap)
                  ELSE send[c]]
    /\ broadcast' = Tail(broadcast)
    /\ UNCHANGED <<process, clients, sentMsgs, pumps, closed, seen>>

\* close(c.send) for every client
CloseAll == closed \cup clients

HubReturns ==
    /\ hub = "running" /\ ctxDone
    /\ hub' = "returned"
    /\ closed' = CloseAll
    /\ UNCHANGED <<bridge, listening, ctxDone, clients, broadcast, sentMsgs,
                   pumps, send, seen>>

-----------------------------------------------------------------------------
(* A connection.                                                           *)

\* The upgrade in handleWS succeeds and NewClient waits to be registered.
Connect(c) ==
    /\ listening
    /\ reader[c] = "none" /\ writer[c] = "none"
    /\ reader' = [reader EXCEPT ![c] = "registering"]
    /\ conn' = [conn EXCEPT ![c] = "up"]
    /\ send' = [send EXCEPT ![c] = <<>>]
    /\ closed' = closed \ {c}
    /\ seen' = [seen EXCEPT ![c] = 0]
    /\ UNCHANGED <<process, clients, broadcast, sentMsgs, writer>>

\* The browser goes away, or misses the pong deadline.
PeerGone(c) ==
    /\ conn[c] = "up"
    /\ conn' = [conn EXCEPT ![c] = "down"]
    /\ UNCHANGED <<process, clients, broadcast, sentMsgs, reader, writer, send,
                   closed, seen>>

\* What makes ReadMessage return an error.
ReadFails(c) == conn[c] = "down"

\* readPump breaks out of its loop and asks the hub to unregister the client.
ReaderLeaves(c) ==
    /\ reader[c] = "reading"
    /\ ReadFails(c)
    /\ reader' = [reader EXCEPT ![c] = "leaving"]
    /\ UNCHANGED <<process, clients, broadcast, sentMsgs, writer, conn, send,
                   closed, seen>>

WriterWrites(c) ==
    /\ writer[c] = "writing" /\ conn[c] = "up"
    /\ send[c] # <<>>
    /\ seen' = [seen EXCEPT ![c] = Head(send[c])]
    /\ send' = [send EXCEPT ![c] = Tail(send[c])]
    /\ UNCHANGED <<process, clients, broadcast, sentMsgs, pumps, closed>>

\* A message or a ping cannot be written, in time or at all.
WriterFails(c) ==
    /\ writer[c] = "writing"
    /\ writer' = [writer EXCEPT ![c] = "none"]
    /\ conn' = [conn EXCEPT ![c] = "down"]
    /\ UNCHANGED <<process, clients, broadcast, sentMsgs, reader, send, closed, seen>>

\* The closed channel is drained: a close frame is written.
WriterEnds(c) ==
    /\ writer[c] = "writing"
    /\ c \in closed /\ send[c] = <<>>
    /\ writer' = [writer EXCEPT ![c] = "none"]
    /\ conn' = [conn EXCEPT ![c] = "down"]
    /\ UNCHANGED <<process, clients, broadcast, sentMsgs, reader, send, closed, seen>>

-----------------------------------------------------------------------------
(* The end of main.                                                        *)

Interrupt ==
    /\ ~ ctxDone
    /\ ctxDone' = TRUE
    /\ UNCHANGED <<hub, bridge, listening, clients, broadcast, sentMsgs, pumps,
                   send, closed, seen>>

\* httpServer.Shutdown; it does not touch upgraded connections.
StopListening ==
    /\ ctxDone /\ listening
    /\ listening' = FALSE
    /\ UNCHANGED <<hub, bridge, ctxDone, clients, broadcast, sentMsgs, pumps,
                   send, closed, seen>>

HubStep(c) == HubRegisters(c) \/ HubUnregisters(c)

WriterStep(c) == WriterWrites(c) \/ WriterEnds(c)

Next ==
    \/ Broadcast \/ BridgeReturns \/ HubDelivers \/ HubReturns
    \/ Interrupt \/ StopListening
    \/ \E c \in Clients :
          \/ HubStep(c) \/ Connect(c) \/ PeerGone(c) \/ ReaderLeaves(c)
          \/ WriterStep(c) \/ WriterFails(c)

Spec == Init /\ [][Next]_vars

\* The hub and the readers run; browsers, writers and the bridge owe nothing.
HubFairness ==
    /\ WF_vars(HubDelivers)
    /\ \A c \in Clients :
          WF_vars(HubRegisters(c)) /\ WF_vars(HubUnregisters(c)) /\ WF_vars(ReaderLeaves(c))

HubSpec == Spec /\ HubFairness

\* What the other goroutines add: writers run, a write to a dead connection fails,
\* and a cancelled context is noticed.
OtherFairness ==
    /\ WF_vars(HubReturns) /\ WF_vars(BridgeReturns) /\ WF_vars(StopListening)
    /\ \A c \in Clients :
          /\ WF_vars(WriterStep(c))
          /\ WF_vars(conn[c] = "down" /\ WriterFails(c))

-----------------------------------------------------------------------------
\* While the hub runs, the channel of a client it knows is open: neither the
\* fan-out (hub.go:50) nor the final loop (hub.go:31) can panic on a closed
\* channel, however registrations, departures and messages interleave.
KnownClientsOpen == hub = "running" => clients \cap closed = {}

\* The hub knows exactly the connections whose reader has yet to take its leave.
\* No connection is forgotten early and none stays behind for ever.
KnownClientsAreAttended ==
    hub = "running" =>
        clients = {c \in Clients : reader[c] \in {"reading", "leaving"}}

Increasing(q) == \A i, j \in DOMAIN q : i < j => q[i] < q[j]

Older(m, q) == \A i \in DOMAIN q : m < q[i]

\* Whatever is dropped on the way, a browser sees snapshots in the order they
\* were taken: what it has seen is older than what waits in its own buffer, and
\* that is older than what waits in the hub's.
InOrder ==
    /\ Increasing(broadcast)
    /\ \A c \in Clients :
          /\ Increasing(send[c])
          /\ Older(seen[c], send[c]) /\ Older(seen[c], broadcast)
          /\ \A i \in DOMAIN send[c] : Older(send[c][i], broadcast)

\* A browser that stops reading cannot stall the hub: every message the hub
\* accepted is fanned out although no writer makes progress.
SlowClientsDoNotStall ==
    \A m \in Msg :
        (\E i \in DOMAIN broadcast : broadcast[i] = m)
            ~> (ctxDone \/ \A i \in DOMAIN broadcast : broadcast[i] # m)

\* A dead connection is forgotten, unless the process is going down.
DeadConnectionsLeave ==
    \A c \in Clients :
        (c \in clients /\ conn[c] = "down") ~> (c \notin clients \/ ctxDone)

\* On shutdown every writePump returns, if the other goroutines run as well.
WritersEndOnShutdown ==
    OtherFairness =>
    \A c \in Clients : (ctxDone /\ writer[c] = "writing") ~> (writer[c] = "none")
=============================================================================
