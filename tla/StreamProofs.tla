----------------------------- MODULE StreamProofs -----------------------------
(* Proofs about the stream of snapshots, from the ticker of the metrics      *)
(* collector to the browsers of the WebSocket hub.                           *)
(*                                                                           *)
(* Collector, for any number of requests, intervals and subscribers: an      *)
(* interval is in force once it was handed over.                             *)
(*                                                                           *)
(* WsHub, for any number of connections and any buffer sizes: the hub never  *)
(* uses a closed channel, it knows exactly the connections that still have   *)
(* to take their leave, and every browser sees snapshots in order.           *)
(* KnownClientsOpen is not inductive by itself: a client must also be open   *)
(* when the hub is about to register it (WaitingAreOpen), which holds        *)
(* because the hub closes only what it knows and a slot is used again only   *)
(* after both its goroutines are gone. InOrder needs that nothing under way  *)
(* is newer than the last message sent (NoneFromFuture).                     *)
EXTENDS Collector, WsHub, TLAPS

-----------------------------------------------------------------------------
(* SetInterval and the ticker.                                               *)

HandoverType ==
    /\ interval \in Int /\ period \in Int /\ overlapped \in BOOLEAN
    /\ intervalCh \in Seq(Int) /\ Len(intervalCh) <= 1
    /\ req \in [Requests -> {"idle", "offer", "drain", "retry"}]
    /\ want \in [Requests -> Int]

\* Unless the latest change came while another was handed over, only its own
\* hand-over can be under way, with the interval of the field.
OneAtWork ==
    \A r \in Requests : req[r] # "idle" =>
        want[r] = interval /\ \A q \in Requests : req[q] # "idle" => q = r

\* What it drained stays empty until it tries again.
RoomForRetry == \A r \in Requests : req[r] = "retry" => intervalCh = <<>>

\* Once it has ended, the interval is in the channel or at the ticker.
Arrived ==
    (\A r \in Requests : req[r] = "idle") =>
        IF intervalCh = <<>> THEN period = interval ELSE Head(intervalCh) = interval

HandoverInv == HandoverType /\ (~overlapped => OneAtWork /\ RoomForRetry /\ Arrived)

LEMMA HandoverInit == CollectorInit => HandoverInv
<1> SUFFICES ASSUME CollectorInit PROVE HandoverInv
  OBVIOUS
<1>1. FirstInterval \in Int
  BY CollectorAssumption
<1>2. HandoverType
  <2>1. intervalCh \in Seq(Int) /\ Len(intervalCh) <= 1
    BY DEF CollectorInit
  <2>2. req \in [Requests -> {"idle", "offer", "drain", "retry"}] /\ want \in [Requests -> Int]
    BY <1>1 DEF CollectorInit
  <2> QED BY <1>1, <2>1, <2>2 DEF CollectorInit, HandoverType
<1>3. OneAtWork /\ RoomForRetry /\ Arrived
  BY <1>1 DEF CollectorInit, OneAtWork, RoomForRetry, Arrived
<1> QED BY <1>2, <1>3 DEF HandoverInv

LEMMA SendOne ==
    ASSUME NEW ch \in Seq(Int), Len(ch) <= 1, NEW i \in Int
    PROVE /\ Send(ch, i, 1) \in Seq(Int) /\ Len(Send(ch, i, 1)) <= 1
          /\ Send(ch, i, 1) # <<>>
          /\ ch = <<>> => Head(Send(ch, i, 1)) = i
<1>1. CASE ch = <<>>
  BY <1>1 DEF Send
<1>2. CASE ch # <<>>
  BY <1>2 DEF Send
<1> QED BY <1>1, <1>2

LEMMA HandoverStep == HandoverInv /\ [CollectorNext]_collectorVars => HandoverInv'
<1> SUFFICES ASSUME HandoverInv, [CollectorNext]_collectorVars PROVE HandoverInv'
  OBVIOUS
<1> USE DEF HandoverInv, HandoverType
<1>1. ASSUME NEW r \in Requests, NEW i \in Intervals, SetInterval(r, i)
      PROVE HandoverInv'
  <2>1. i \in Int
    BY CollectorAssumption
  <2>2. HandoverType'
    BY <1>1, <2>1 DEF SetInterval, Goto, ticker
  <2>3. (OneAtWork' /\ RoomForRetry' /\ Arrived') \/ overlapped'
    BY <1>1, <2>1 DEF SetInterval, Goto, ticker, OneAtWork, RoomForRetry, Arrived
  <2> QED BY <2>2, <2>3
<1>2. ASSUME NEW r \in Requests, OfferInterval(r) PROVE HandoverInv'
  <2>0. /\ Send(intervalCh, want[r], 1) \in Seq(Int) /\ Len(Send(intervalCh, want[r], 1)) <= 1
        /\ Send(intervalCh, want[r], 1) # <<>>
        /\ intervalCh = <<>> => Head(Send(intervalCh, want[r], 1)) = want[r]
    BY SendOne
  <2>1. HandoverType'
    BY <1>2, <2>0 DEF OfferInterval, Goto, ticker, AfterFull
  <2>2. ~overlapped => OneAtWork' /\ RoomForRetry' /\ Arrived'
    BY <1>2, <2>0 DEF OfferInterval, Goto, ticker, AfterFull, OneAtWork, RoomForRetry, Arrived
  <2> QED BY <1>2, <2>1, <2>2 DEF OfferInterval
<1>3. ASSUME NEW r \in Requests, DrainInterval(r) PROVE HandoverInv'
  BY <1>3 DEF DrainInterval, Goto, ticker, OneAtWork, RoomForRetry, Arrived
<1>4. ASSUME NEW r \in Requests, RetryInterval(r) PROVE HandoverInv'
  <2>0. /\ Send(intervalCh, want[r], 1) \in Seq(Int) /\ Len(Send(intervalCh, want[r], 1)) <= 1
        /\ Send(intervalCh, want[r], 1) # <<>>
        /\ intervalCh = <<>> => Head(Send(intervalCh, want[r], 1)) = want[r]
    BY SendOne
  <2>1. HandoverType'
    BY <1>4, <2>0 DEF RetryInterval, Goto, ticker
  <2>2. ~overlapped => OneAtWork' /\ RoomForRetry' /\ Arrived'
    BY <1>4, <2>0 DEF RetryInterval, Goto, ticker, OneAtWork, RoomForRetry, Arrived
  <2> QED BY <1>4, <2>1, <2>2 DEF RetryInterval
<1>5. CASE ApplyInterval
  BY <1>5 DEF ApplyInterval, requests, OneAtWork, RoomForRetry, Arrived
<1>6. ASSUME UNCHANGED <<interval, intervalCh, req, want, overlapped, period>>
      PROVE HandoverInv'
  BY <1>6 DEF OneAtWork, RoomForRetry, Arrived
<1>7. CASE TakeTick \/ Collect \/ Publish \/ Advance
  BY <1>6, <1>7 DEF TakeTick, Collect, Publish, Advance, requests, ticker
<1>8. ASSUME NEW s \in Subs, Subscribe(s) \/ Unsubscribe(s) \/ Receive(s) PROVE HandoverInv'
  BY <1>6, <1>8 DEF Subscribe, Unsubscribe, Receive, requests, ticker
<1>9. CASE UNCHANGED collectorVars
  BY <1>6, <1>9 DEF collectorVars
<1> QED BY <1>1, <1>2, <1>3, <1>4, <1>5, <1>7, <1>8, <1>9 DEF CollectorNext, Run, Handover

\* Whatever waits in the one-place channel, a change of interval that overlapped
\* with no other ends at the ticker: the reported interval is the one in force
\* (collector.go:136-148).
THEOREM NewestIntervalWins == CollectorSpec => []IntervalInForce
<1>1. HandoverInv => IntervalInForce
  BY DEF HandoverInv, Arrived, IntervalInForce, Quiet
<1> QED BY <1>1, HandoverInit, HandoverStep, PTL DEF CollectorSpec

-----------------------------------------------------------------------------
(* The hub and its connections.                                              *)

WaitingAreOpen ==
    hub = "running" => \A c \in Clients : reader[c] = "registering" => c \notin closed

NoneFromFuture ==
    /\ \A i \in DOMAIN broadcast : broadcast[i] <= sentMsgs
    /\ \A c \in Clients :
          /\ seen[c] <= sentMsgs
          /\ \A i \in DOMAIN send[c] : send[c][i] <= sentMsgs

\* Who is connected, and the order of messages: two inductive invariants over
\* the types.
Membership == KnownClientsOpen /\ KnownClientsAreAttended /\ WaitingAreOpen
Order == InOrder /\ NoneFromFuture

USE WsHubAssumption DEF Msg

-----------------------------------------------------------------------------
\* Facts about buffers.

LEMMA OfferType ==
  ASSUME NEW S, NEW q \in Seq(S), NEW m \in S, NEW cap \in Nat, Len(q) <= cap
  PROVE  /\ Offer(q, m, cap) \in Seq(S)
         /\ Len(Offer(q, m, cap)) <= cap
  BY DEF Offer

\* An offered message is the last one or is dropped.
LEMMA OfferElements ==
  ASSUME NEW S, NEW q \in Seq(S), NEW m \in S, NEW cap \in Nat
  PROVE  LET r == Offer(q, m, cap)
         IN  /\ DOMAIN q \subseteq DOMAIN r
             /\ \A i \in DOMAIN q : r[i] = q[i]
             /\ \A i \in DOMAIN r \ DOMAIN q : r[i] = m /\ \A j \in DOMAIN q : j < i
             /\ \A i, j \in DOMAIN r \ DOMAIN q : i = j
             /\ DOMAIN q \subseteq Int /\ DOMAIN r \subseteq Int
  BY DEF Offer

LEMMA TailElements ==
  ASSUME NEW S, NEW q \in Seq(S), q # <<>>
  PROVE  /\ Head(q) \in S /\ Head(q) = q[1] /\ 1 \in DOMAIN q
         /\ Tail(q) \in Seq(S) /\ Len(Tail(q)) = Len(q) - 1
         /\ \A i \in DOMAIN Tail(q) : i + 1 \in DOMAIN q /\ Tail(q)[i] = q[i + 1]
         /\ DOMAIN q \subseteq Nat \ {0} /\ DOMAIN Tail(q) \subseteq Nat \ {0}
  OBVIOUS

LEMMA OfferOrder ==
  ASSUME NEW q \in Seq(Int), Increasing(q), NEW m \in Int, NEW cap \in Nat,
         \A i \in DOMAIN q : q[i] < m
  PROVE  Increasing(Offer(q, m, cap))
<1> DEFINE r == Offer(q, m, cap)
<1>1. /\ DOMAIN q \subseteq DOMAIN r
      /\ \A i \in DOMAIN q : r[i] = q[i]
      /\ \A i \in DOMAIN r \ DOMAIN q : r[i] = m /\ \A j \in DOMAIN q : j < i
      /\ \A i, j \in DOMAIN r \ DOMAIN q : i = j
      /\ DOMAIN q \subseteq Int /\ DOMAIN r \subseteq Int
  BY OfferElements
<1> HIDE DEF r
<1>2. Increasing(r)  BY <1>1 DEF Increasing
<1> QED BY <1>2 DEF r

LEMMA TailOrder ==
  ASSUME NEW q \in Seq(Int), Increasing(q), q # <<>>
  PROVE  Increasing(Tail(q)) /\ Older(Head(q), Tail(q))
  BY TailElements, SMTT(30) DEF Increasing, Older

LEMMA OfferOlder ==
  ASSUME NEW q \in Seq(Int), NEW m \in Int, NEW n \in Int, NEW cap \in Nat,
         Older(n, q), n < m
  PROVE  Older(n, Offer(q, m, cap))
<1> DEFINE r == Offer(q, m, cap)
<1>1. /\ DOMAIN q \subseteq DOMAIN r
      /\ \A i \in DOMAIN q : r[i] = q[i]
      /\ \A i \in DOMAIN r \ DOMAIN q : r[i] = m /\ \A j \in DOMAIN q : j < i
      /\ \A i, j \in DOMAIN r \ DOMAIN q : i = j
      /\ DOMAIN q \subseteq Int /\ DOMAIN r \subseteq Int
  BY OfferElements
<1> HIDE DEF r
<1>2. Older(n, r)  BY <1>1 DEF Older
<1> QED BY <1>2 DEF r

LEMMA TailOlder ==
  ASSUME NEW q \in Seq(Int), q # <<>>, NEW n \in Int, Older(n, q)
  PROVE  Older(n, Tail(q)) /\ n < Head(q)
  BY TailElements DEF Older

-----------------------------------------------------------------------------
LEMMA TypeStep ==
  ASSUME TypeOK, [Next]_vars
  PROVE  TypeOK'
<1> USE DEF TypeOK, process, pumps
<1>1. CASE Broadcast
  <2>1. sentMsgs + 1 \in Msg /\ sentMsgs' \in 0 .. MaxMsgs
    BY <1>1 DEF Broadcast
  <2>2. broadcast' \in Seq(Msg) /\ Len(broadcast') <= HubCap
    <3>1. broadcast' = Offer(broadcast, sentMsgs + 1, HubCap)  BY <1>1 DEF Broadcast
    <3> QED BY <2>1, <3>1, OfferType
  <2> QED BY <1>1, <2>1, <2>2 DEF Broadcast
<1>2. CASE BridgeReturns  BY <1>2 DEF BridgeReturns
<1>3. CASE HubDelivers
  <2>1. Head(broadcast) \in Msg /\ Tail(broadcast) \in Seq(Msg)
        /\ Len(Tail(broadcast)) <= HubCap
    BY <1>3, TailElements DEF HubDelivers
  <2>2. \A c \in Clients : send'[c] \in Seq(Msg) /\ Len(send'[c]) <= SendCap
    BY <1>3, <2>1, OfferType DEF HubDelivers
  <2>3. send' \in [Clients -> Seq(Msg)]
    BY <1>3, <2>2 DEF HubDelivers
  <2> QED BY <1>3, <2>1, <2>2, <2>3 DEF HubDelivers
<1>4. CASE HubReturns  BY <1>4 DEF HubReturns, CloseAll
<1>5. CASE Interrupt  BY <1>5 DEF Interrupt
<1>6. CASE StopListening  BY <1>6 DEF StopListening
<1>7. ASSUME NEW c \in Clients, HubRegisters(c) PROVE TypeOK'
  BY <1>7 DEF HubRegisters
<1>8. ASSUME NEW c \in Clients, HubUnregisters(c) PROVE TypeOK'
  BY <1>8 DEF HubUnregisters, ForgetClient
<1>9. ASSUME NEW c \in Clients, Connect(c) PROVE TypeOK'
  BY <1>9 DEF Connect
<1>10. ASSUME NEW c \in Clients, PeerGone(c) PROVE TypeOK'
  BY <1>10 DEF PeerGone
<1>11. ASSUME NEW c \in Clients, ReaderLeaves(c) PROVE TypeOK'
  BY <1>11 DEF ReaderLeaves
<1>12. ASSUME NEW c \in Clients, WriterWrites(c) PROVE TypeOK'
  <2>1. /\ Head(send[c]) \in Msg /\ Tail(send[c]) \in Seq(Msg)
        /\ Len(Tail(send[c])) <= SendCap
    BY <1>12, TailElements DEF WriterWrites
  <2> QED BY <1>12, <2>1, SMTT(30) DEF WriterWrites
<1>13. ASSUME NEW c \in Clients, WriterFails(c) PROVE TypeOK'
  BY <1>13 DEF WriterFails
<1>14. ASSUME NEW c \in Clients, WriterEnds(c) PROVE TypeOK'
  BY <1>14 DEF WriterEnds
<1>15. CASE UNCHANGED vars  BY <1>15 DEF vars
<1> QED BY <1>1, <1>2, <1>3, <1>4, <1>5, <1>6, <1>7, <1>8, <1>9, <1>10, <1>11,
           <1>12, <1>13, <1>14, <1>15 DEF Next, HubStep, WriterStep

\* Every variable keeps its type, and no buffer outgrows its capacity.
THEOREM TypeCorrect == Spec => []TypeOK
<1>0. <<>> \in Seq(Msg) /\ Len(<<>>) = 0  OBVIOUS
<1>1. Init => TypeOK
  <2> SUFFICES ASSUME Init PROVE TypeOK  OBVIOUS
  <2>1. send \in [Clients -> Seq(Msg)] /\ \A c \in Clients : Len(send[c]) <= SendCap
    BY <1>0 DEF Init
  <2>2. broadcast \in Seq(Msg) /\ Len(broadcast) <= HubCap
    BY <1>0 DEF Init
  <2>3. sentMsgs \in 0 .. MaxMsgs /\ seen \in [Clients -> 0 .. MaxMsgs]
    BY DEF Init
  <2> QED BY <2>1, <2>2, <2>3, ZenonT(30) DEF Init, TypeOK
<1> QED BY <1>1, TypeStep, PTL DEF Spec

-----------------------------------------------------------------------------
\* The steps that leave the clients, their readers and their channels alone.
LEMMA MembershipSame ==
  ASSUME Membership, UNCHANGED <<clients, reader, closed>>, hub' = hub
  PROVE  Membership'
  BY DEF Membership, KnownClientsOpen, KnownClientsAreAttended, WaitingAreOpen

LEMMA MembershipStep ==
  ASSUME TypeOK, Membership, [Next]_vars
  PROVE  Membership'
<1> USE DEF TypeOK, Membership, KnownClientsOpen, KnownClientsAreAttended,
            WaitingAreOpen, process, pumps
<1>1. CASE Broadcast \/ BridgeReturns \/ HubDelivers \/ Interrupt \/ StopListening
  BY <1>1, MembershipSame
     DEF Broadcast, BridgeReturns, HubDelivers, Interrupt, StopListening
<1>2. CASE HubReturns  BY <1>2 DEF HubReturns
<1>3. ASSUME NEW c \in Clients, HubRegisters(c) PROVE Membership'
  BY <1>3 DEF HubRegisters
<1>4. ASSUME NEW c \in Clients, HubUnregisters(c) PROVE Membership'
  BY <1>4 DEF HubUnregisters, ForgetClient
<1>5. ASSUME NEW c \in Clients, Connect(c) PROVE Membership'
  BY <1>5 DEF Connect
<1>6. ASSUME NEW c \in Clients, ReaderLeaves(c) PROVE Membership'
  BY <1>6 DEF ReaderLeaves
<1>7. ASSUME NEW c \in Clients,
             PeerGone(c) \/ WriterWrites(c) \/ WriterFails(c) \/ WriterEnds(c)
      PROVE  Membership'
  BY <1>7, MembershipSame DEF PeerGone, WriterWrites, WriterFails, WriterEnds
<1>8. CASE UNCHANGED vars  BY <1>8, MembershipSame DEF vars
<1> QED BY <1>1, <1>2, <1>3, <1>4, <1>5, <1>6, <1>7, <1>8
        DEF Next, HubStep, WriterStep

LEMMA MembershipHolds == Spec => []Membership
<1>1. Init => Membership
  BY DEF Init, Membership, KnownClientsOpen, KnownClientsAreAttended, WaitingAreOpen
<1> QED BY <1>1, TypeCorrect, MembershipStep, PTL DEF Spec

\* The hub never sends on, or closes, a closed channel.
THEOREM KnownClientsAlwaysOpen == Spec => []KnownClientsOpen
<1>1. Membership => KnownClientsOpen  BY DEF Membership
<1> QED BY MembershipHolds, <1>1, PTL

\* The hub knows exactly the connections that still have to take their leave.
THEOREM KnownClientsAlwaysAttended == Spec => []KnownClientsAreAttended
<1>1. Membership => KnownClientsAreAttended  BY DEF Membership
<1> QED BY MembershipHolds, <1>1, PTL

-----------------------------------------------------------------------------
LEMMA BufferTypes ==
  ASSUME TypeOK
  PROVE  /\ broadcast \in Seq(Int) /\ sentMsgs \in Int
         /\ \A c \in Clients : send[c] \in Seq(Int) /\ seen[c] \in Int
         /\ HubCap \in Nat /\ SendCap \in Nat
<1>1. Msg \subseteq Int  OBVIOUS
<1>2. \A q \in Seq(Msg) : q \in Seq(Int)  BY <1>1
<1> QED BY <1>2 DEF TypeOK

LEMMA OrderSame ==
  ASSUME Order, UNCHANGED <<broadcast, sentMsgs, send, seen>>
  PROVE  Order'
  BY DEF Order, InOrder, NoneFromFuture, Increasing, Older

\* The bridge offers a message newer than everything under way.
LEMMA BroadcastOrder ==
  ASSUME TypeOK, Order, Broadcast
  PROVE  Order'
<1> DEFINE m == sentMsgs + 1
<1>1. /\ broadcast \in Seq(Int) /\ sentMsgs \in Int /\ m \in Int /\ HubCap \in Nat
      /\ \A c \in Clients : send[c] \in Seq(Int) /\ seen[c] \in Int
  BY BufferTypes
<1>2. /\ broadcast' = Offer(broadcast, m, HubCap) /\ sentMsgs' = m
      /\ UNCHANGED <<send, seen>>
  BY DEF Broadcast
<1>3. Increasing(broadcast')
  <2>1. \A i \in DOMAIN broadcast : broadcast[i] < m
    BY <1>1 DEF Order, NoneFromFuture
  <2> QED BY <1>1, <1>2, <2>1, OfferOrder DEF Order, InOrder
<1>4. \A n \in Int : Older(n, broadcast) /\ n < m => Older(n, broadcast')
  BY <1>1, <1>2, OfferOlder
<1>5. ASSUME NEW c \in Clients
      PROVE  /\ Older(seen[c], broadcast')
             /\ \A i \in DOMAIN send[c] : Older(send[c][i], broadcast')
  <2>1. seen[c] < m /\ \A i \in DOMAIN send[c] : send[c][i] \in Int /\ send[c][i] < m
    BY <1>1 DEF Order, NoneFromFuture
  <2> QED BY <1>1, <1>4, <2>1 DEF Order, InOrder
<1>6. \A i \in DOMAIN broadcast' : broadcast'[i] <= m
  <2> DEFINE r == Offer(broadcast, m, HubCap)
  <2>1. /\ DOMAIN broadcast \subseteq DOMAIN r
        /\ \A i \in DOMAIN broadcast : r[i] = broadcast[i]
        /\ \A i \in DOMAIN r \ DOMAIN broadcast :
              r[i] = m /\ \A j \in DOMAIN broadcast : j < i
        /\ \A i, j \in DOMAIN r \ DOMAIN broadcast : i = j
        /\ DOMAIN broadcast \subseteq Int /\ DOMAIN r \subseteq Int
    BY <1>1, OfferElements
  <2> HIDE DEF r
  <2>2. \A i \in DOMAIN broadcast : broadcast[i] <= sentMsgs
    BY DEF Order, NoneFromFuture
  <2>3. \A i \in DOMAIN r : r[i] <= m
    BY <1>1, <2>1, <2>2
  <2> QED BY <1>2, <2>3 DEF r
<1>7. InOrder'
  BY <1>2, <1>3, <1>5 DEF Order, InOrder
<1>8. NoneFromFuture'
  BY <1>1, <1>2, <1>6 DEF Order, NoneFromFuture
<1> QED BY <1>7, <1>8 DEF Order

\* The hub moves the oldest message from its buffer to the end of the others.
LEMMA DeliverOrder ==
  ASSUME TypeOK, Order, HubDelivers
  PROVE  Order'
<1> DEFINE m == Head(broadcast)
<1>1. /\ broadcast \in Seq(Int) /\ broadcast # <<>> /\ SendCap \in Nat
      /\ sentMsgs \in Int
      /\ \A c \in Clients : send[c] \in Seq(Int) /\ seen[c] \in Int
  BY BufferTypes DEF HubDelivers
<1>2. /\ broadcast' = Tail(broadcast)
      /\ UNCHANGED <<sentMsgs, seen>>
      /\ \A c \in Clients : send'[c] = send[c] \/ send'[c] = Offer(send[c], m, SendCap)
  BY DEF HubDelivers
<1>3. /\ m \in Int /\ m <= sentMsgs
      /\ Increasing(broadcast') /\ Older(m, broadcast')
      /\ \A n \in Int : Older(n, broadcast) => Older(n, broadcast') /\ n < m
      /\ \A i \in DOMAIN broadcast' : broadcast'[i] <= sentMsgs
  <2>1. m \in Int /\ m <= sentMsgs
    BY <1>1, TailElements DEF Order, NoneFromFuture
  <2>2. Increasing(broadcast') /\ Older(m, broadcast')
    BY <1>1, <1>2, TailOrder DEF Order, InOrder
  <2>3. \A n \in Int : Older(n, broadcast) => Older(n, broadcast') /\ n < m
    BY <1>1, <1>2, TailOlder
  <2>4. \A i \in DOMAIN broadcast' : broadcast'[i] <= sentMsgs
    BY <1>1, <1>2, TailElements DEF Order, NoneFromFuture
  <2> QED BY <2>1, <2>2, <2>3, <2>4
<1>4. ASSUME NEW c \in Clients
      PROVE  /\ Increasing(send'[c]) /\ Older(seen[c], send'[c])
             /\ Older(seen[c], broadcast')
             /\ \A i \in DOMAIN send'[c] :
                   Older(send'[c][i], broadcast') /\ send'[c][i] <= sentMsgs
  <2>1. /\ Increasing(send[c]) /\ Older(seen[c], send[c]) /\ Older(seen[c], broadcast)
        /\ \A i \in DOMAIN send[c] : /\ Older(send[c][i], broadcast)
                                     /\ send[c][i] \in Int /\ send[c][i] <= sentMsgs
    BY <1>1 DEF Order, InOrder, NoneFromFuture
  <2>2. CASE send'[c] = send[c]
    BY <1>1, <1>3, <2>1, <2>2
  <2>3. CASE send'[c] = Offer(send[c], m, SendCap)
    <3> DEFINE r == Offer(send[c], m, SendCap)
    <3>1. /\ DOMAIN send[c] \subseteq DOMAIN r
          /\ \A i \in DOMAIN send[c] : r[i] = send[c][i]
          /\ \A i \in DOMAIN r \ DOMAIN send[c] :
                r[i] = m /\ \A j \in DOMAIN send[c] : j < i
          /\ \A i, j \in DOMAIN r \ DOMAIN send[c] : i = j
          /\ DOMAIN send[c] \subseteq Int /\ DOMAIN r \subseteq Int
      BY <1>1, <1>3, OfferElements
    <3>2. seen[c] < m /\ \A i \in DOMAIN send[c] : send[c][i] < m
      BY <1>1, <1>3, <2>1
    <3>3. Increasing(r)
      BY <1>1, <1>3, <2>1, <3>2, OfferOrder
    <3>4. Older(seen[c], r)
      BY <1>1, <1>3, <2>1, <3>2, OfferOlder
    <3> HIDE DEF r, m
    <3>5. \A i \in DOMAIN r : Older(r[i], broadcast') /\ r[i] <= sentMsgs
      BY <1>3, <2>1, <3>1
    <3>6. Older(seen[c], broadcast')
      BY <1>1, <1>3, <2>1
    <3> QED BY <2>3, <3>3, <3>4, <3>5, <3>6 DEF r, m
  <2> QED BY <1>2, <2>2, <2>3
<1>5. InOrder'
  BY <1>2, <1>3, <1>4 DEF InOrder
<1>6. NoneFromFuture'
  BY <1>2, <1>3, <1>4 DEF Order, NoneFromFuture
<1> QED BY <1>5, <1>6 DEF Order

\* A writer hands the oldest message of its buffer to the browser.
LEMMA WriteOrder ==
  ASSUME TypeOK, Order, NEW c \in Clients, WriterWrites(c)
  PROVE  Order'
<1>1. /\ send[c] \in Seq(Int) /\ send[c] # <<>>
      /\ send \in [Clients -> Seq(Msg)] /\ seen \in [Clients -> 0 .. MaxMsgs]
  BY BufferTypes DEF WriterWrites, TypeOK
<1>2. /\ UNCHANGED <<broadcast, sentMsgs>>
      /\ send'[c] = Tail(send[c]) /\ seen'[c] = Head(send[c])
      /\ \A d \in Clients : d # c => send'[d] = send[d] /\ seen'[d] = seen[d]
  BY <1>1 DEF WriterWrites
<1>3. /\ Increasing(send'[c]) /\ Older(seen'[c], send'[c])
  BY <1>1, <1>2, TailOrder DEF Order, InOrder
<1>4. /\ Older(seen'[c], broadcast) /\ seen'[c] <= sentMsgs
      /\ \A i \in DOMAIN send'[c] :
            Older(send'[c][i], broadcast) /\ send'[c][i] <= sentMsgs
  BY <1>1, <1>2, TailElements DEF Order, InOrder, NoneFromFuture
<1>5. InOrder'
  <2> SUFFICES ASSUME NEW d \in Clients
               PROVE  /\ Increasing(send'[d])
                      /\ Older(seen'[d], send'[d]) /\ Older(seen'[d], broadcast)
                      /\ \A i \in DOMAIN send'[d] : Older(send'[d][i], broadcast)
    BY <1>2 DEF Order, InOrder
  <2> QED BY <1>2, <1>3, <1>4 DEF Order, InOrder
<1>6. NoneFromFuture'
  <2> SUFFICES ASSUME NEW d \in Clients
               PROVE  /\ seen'[d] <= sentMsgs
                      /\ \A i \in DOMAIN send'[d] : send'[d][i] <= sentMsgs
    BY <1>2 DEF Order, NoneFromFuture
  <2> QED BY <1>2, <1>4 DEF Order, NoneFromFuture
<1> QED BY <1>5, <1>6 DEF Order

\* A new connection starts with an empty buffer and has seen nothing.
LEMMA ConnectOrder ==
  ASSUME TypeOK, Order, NEW c \in Clients, Connect(c)
  PROVE  Order'
<1>1. /\ UNCHANGED <<broadcast, sentMsgs>>
      /\ send'[c] = <<>> /\ seen'[c] = 0
      /\ \A d \in Clients : d # c => send'[d] = send[d] /\ seen'[d] = seen[d]
  BY DEF Connect, TypeOK
<1>2. DOMAIN send'[c] = {}
  BY <1>1
<1>3. Older(0, broadcast) /\ 0 <= sentMsgs
  BY DEF Older, TypeOK
<1>4. InOrder'
  BY <1>1, <1>2, <1>3 DEF Order, InOrder, Increasing, Older
<1>5. NoneFromFuture'
  BY <1>1, <1>2, <1>3 DEF Order, NoneFromFuture
<1> QED BY <1>4, <1>5 DEF Order

\* Every browser sees snapshots in the order they were taken.
THEOREM AlwaysInOrder == Spec => []InOrder
<1>1. Init => Order
  BY DEF Init, Order, InOrder, NoneFromFuture, Increasing, Older
<1>2. TypeOK /\ Order /\ [Next]_vars => Order'
  BY BroadcastOrder, DeliverOrder, WriteOrder, ConnectOrder, OrderSame
     DEF Next, HubStep, WriterStep, vars, pumps, process, BridgeReturns, HubReturns,
         Interrupt, StopListening, HubRegisters, HubUnregisters, PeerGone,
         ReaderLeaves, WriterFails, WriterEnds
<1>3. Order => InOrder  BY DEF Order
<1> QED BY <1>1, <1>2, <1>3, TypeCorrect, PTL DEF Spec
=============================================================================
