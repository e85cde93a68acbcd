----------------------------- MODULE Collector -----------------------------
(***************************************************************************)
(* The metrics Collector (internal/metrics/collector.go): a ticker whose   *)
(* period can be changed while it runs, one sample per tick with rates     *)
(* computed against the previous sample, and a fan-out to subscribers that *)
(* never waits.                                                            *)
(*                                                                         *)
(* Run, the requests that call SetInterval, and the subscribers are        *)
(* separate goroutines.  SetInterval gives up intervalMu before it hands   *)
(* the new interval over through the one-place channel intervalCh, in up   *)
(* to three channel operations.  A snapshot is represented by its time     *)
(* stamp.  The ticker is the one of Go 1.23 and later: Reset discards a    *)
(* tick that was not received.                                             *)
(***************************************************************************)
EXTENDS Integers, Sequences

CONSTANTS
    Requests,       \* goroutines that may call SetInterval
    Subs,           \* channels handed out by Subscribe
    Intervals,      \* intervals that requests ask for
    FirstInterval,  \* the interval main passes to NewCollector
    SubCap,         \* capacity of a subscription (4 in the code)
    MaxTime,        \* last moment considered (a bound)
    Never           \* no tick, no snapshot

ASSUME CollectorAssumption ==
    /\ FirstInterval \in Nat \ {0}
    /\ Intervals \subseteq Int
    /\ SubCap \in Nat \ {0}
    /\ MaxTime \in Nat
    /\ Never \notin Int

VARIABLES
    now,            \* the clock
    interval,       \* c.interval
    intervalCh,     \* c.intervalCh
    req, want,      \* req[r]: where a SetInterval call is; want[r]: its argument
    overlapped,     \* the latest change came while another was handed over
    period,         \* the ticker's period
    nextTick,       \* when the ticker fires next
    tick,           \* the tick waiting in ticker.C, or Never
    phase,          \* what Run does
    sampled,        \* time of the tick that Run processes: collect's argument
    prevTime,       \* c.prevTime
    elapsed,        \* the seconds its rates were divided by
    latest,         \* c.latest
    subs,           \* c.subs
    queue           \* queue[s]: the buffered channel of subscriber s

collectorVars == <<now, interval, intervalCh, req, want, overlapped, period, nextTick, tick, phase,
          sampled, prevTime, elapsed, latest, subs, queue>>
requests == <<interval, req, want, overlapped>>
ticker   == <<period, nextTick, tick>>
sampling == <<phase, sampled, prevTime, elapsed, latest>>
fanout   == <<subs, queue>>

Time == 0 .. MaxTime

CollectorInit ==
    /\ now = 0
    /\ interval = FirstInterval /\ intervalCh = <<>>
    /\ req = [r \in Requests |-> "idle"]
    /\ want = [r \in Requests |-> FirstInterval] /\ overlapped = FALSE
    /\ period = FirstInterval /\ nextTick = FirstInterval /\ tick = Never
    /\ phase = "waiting" /\ sampled = 0
    /\ prevTime = 0 /\ elapsed = 1
    /\ latest = Never
    /\ subs = {} /\ queue = [s \in Subs |-> <<>>]

-----------------------------------------------------------------------------
(* Faulty forms of the helpers below, kept to show that a property notices *)
(* the mistake.                                                            *)
GiveUp == "idle"                                \* nothing after the first default
WaitForRoom == \A s \in subs : Len(queue[s]) < SubCap       \* send without default

-----------------------------------------------------------------------------
\* A send in a select with a default.
Send(q, m, cap) == IF Len(q) < cap THEN Append(q, m) ELSE q

(* SetInterval, called by the PUT handler of /api/interval.                *)

Goto(r, l) == req' = [req EXCEPT ![r] = l]

\* Refused when not positive, without effect when equal; otherwise the field is
\* set under intervalMu and the hand-over begins.
SetInterval(r, i) ==
    /\ req[r] = "idle"
    /\ i > 0 /\ i # interval
    /\ interval' = i
    /\ want' = [want EXCEPT ![r] = i]
    /\ overlapped' = \E q \in Requests : req[q] # "idle"
    /\ Goto(r, "offer")
    /\ UNCHANGED <<now, intervalCh, ticker, sampling, fanout>>

\* Where the first select goes when the channel is full.
AfterFull == "drain"

OfferInterval(r) ==
    /\ req[r] = "offer"
    /\ intervalCh' = Send(intervalCh, want[r], 1)
    /\ Goto(r, IF intervalCh = <<>> THEN "idle" ELSE AfterFull)
    /\ UNCHANGED <<now, interval, want, overlapped, ticker, sampling, fanout>>

DrainInterval(r) ==
    /\ req[r] = "drain"
    /\ intervalCh' = <<>>
    /\ Goto(r, "retry")
    /\ UNCHANGED <<now, interval, want, overlapped, ticker, sampling, fanout>>

RetryInterval(r) ==
    /\ req[r] = "retry"
    /\ intervalCh' = Send(intervalCh, want[r], 1)
    /\ Goto(r, "idle")
    /\ UNCHANGED <<now, interval, want, overlapped, ticker, sampling, fanout>>

Handover(r) == OfferInterval(r) \/ DrainInterval(r) \/ RetryInterval(r)

-----------------------------------------------------------------------------
(* Run.                                                                    *)

\* ticker.Reset(next)
ResetDeadline == now + Head(intervalCh)

ApplyInterval ==
    /\ phase = "waiting" /\ intervalCh # <<>>
    /\ period' = Head(intervalCh)
    /\ nextTick' = ResetDeadline
    /\ tick' = Never
    /\ intervalCh' = <<>>
    /\ UNCHANGED <<now, requests, sampling, fanout>>

TakeTick ==
    /\ phase = "waiting" /\ tick # Never
    /\ sampled' = tick
    /\ tick' = Never
    /\ phase' = "collecting"
    /\ UNCHANGED <<now, requests, intervalCh, period, nextTick, prevTime,
                   elapsed, latest, fanout>>

\* c.prevTime = now, where now is collect's argument
PrevTimeAfter == sampled

\* collect: the rates are computed for the time between the two ticks, although
\* the counters are read now, and the snapshot becomes the latest.
Collect ==
    /\ phase = "collecting"
    /\ elapsed' = sampled - prevTime
    /\ prevTime' = PrevTimeAfter
    /\ latest' = sampled
    /\ phase' = "publishing"
    /\ UNCHANGED <<now, requests, intervalCh, ticker, sampled, fanout>>

\* Whether the loop over the subscribers can proceed; a full one is skipped.
CanPublish == TRUE

Publish ==
    /\ phase = "publishing"
    /\ CanPublish
    /\ queue' = [s \in Subs |-> IF s \in subs THEN Send(queue[s], sampled, SubCap)
                                ELSE queue[s]]
    /\ phase' = "waiting"
    /\ UNCHANGED <<now, requests, intervalCh, ticker, sampled, prevTime,
                   elapsed, latest, subs>>

-----------------------------------------------------------------------------
(* Subscribers.                                                            *)

Subscribe(s) ==
    /\ s \notin subs /\ queue[s] = <<>>
    /\ subs' = subs \cup {s}
    /\ UNCHANGED <<now, requests, intervalCh, ticker, sampling, queue>>

Unsubscribe(s) ==
    /\ s \in subs
    /\ subs' = subs \ {s}
    /\ UNCHANGED <<now, requests, intervalCh, ticker, sampling, queue>>

Receive(s) ==
    /\ queue[s] # <<>>
    /\ queue' = [queue EXCEPT ![s] = Tail(@)]
    /\ UNCHANGED <<now, requests, intervalCh, ticker, sampling, subs>>

-----------------------------------------------------------------------------
\* Time passes; a tick that finds the previous one unreceived is dropped.
Advance ==
    /\ now < MaxTime
    /\ now' = now + 1
    /\ IF now + 1 >= nextTick
       THEN /\ tick' = IF tick = Never THEN nextTick ELSE tick
            /\ nextTick' = nextTick + period
       ELSE UNCHANGED <<tick, nextTick>>
    /\ UNCHANGED <<requests, intervalCh, period, sampling, fanout>>

Run == ApplyInterval \/ TakeTick \/ Collect \/ Publish

CollectorNext ==
    \/ Advance \/ Run
    \/ \E r \in Requests : Handover(r) \/ \E i \in Intervals : SetInterval(r, i)
    \/ \E s \in Subs : Subscribe(s) \/ Unsubscribe(s) \/ Receive(s)

CollectorSpec == CollectorInit /\ [][CollectorNext]_collectorVars

\* Go schedules Run and the requests already begun; the select of Run is fair
\* to both its channels.  Subscribers and clients owe nothing.
CollectorFairSpec ==
    /\ CollectorSpec
    /\ SF_collectorVars(ApplyInterval) /\ SF_collectorVars(TakeTick)
    /\ WF_collectorVars(Collect) /\ WF_collectorVars(Publish)
    /\ \A r \in Requests : WF_collectorVars(Handover(r))

-----------------------------------------------------------------------------
Quiet == intervalCh = <<>> /\ \A r \in Requests : req[r] = "idle"

\* When no change is under way, the interval the API reports (README.md: "Current
\* metrics interval") is the one the ticker runs at: the latest change wins over
\* older values wherever they wait.  Two changes that overlap are excepted: the
\* field is set and the value handed over in two steps, so the older value may
\* be handed over last.
IntervalInForce == Quiet /\ ~ overlapped => period = interval

\* An interval that was accepted comes into force unless another one replaces it,
\* although nobody reads the subscriptions.
IntervalTakesEffect ==
    \A i \in Intervals : (interval = i) ~> (period = i \/ interval # i \/ overlapped)
=============================================================================
