----------------------------- MODULE ScanRunner -----------------------------
(***************************************************************************)
(* The storage analyzer's Runner (internal/ncdu/runner.go).                *)
(*                                                                         *)
(* Runner keeps one result behind a mutex.  Every accepted Start spawns a  *)
(* goroutine (run) that owns a context and an ncdu child process and that  *)
(* writes the shared result once, at its very end.  Cancelling a context   *)
(* only asks for the end: the goroutine of a cancelled scan lives on until *)
(* its own last write, beside the goroutine of the scan that replaced it.  *)
(*                                                                         *)
(* The directory tree is abstracted to the path that was scanned, and the  *)
(* time since ScannedAt to a clock `age' that stops one tick past the      *)
(* longest lifetime a client may choose.  A member of Scans is a goroutine *)
(* slot: it is free again when its goroutine has returned, so the number   *)
(* of scans in a behaviour is unbounded and only the number of goroutines  *)
(* alive at one time is bounded by Scans.                                  *)
(***************************************************************************)
EXTENDS Integers

CONSTANTS
    Paths,      \* directories a client may ask to scan
    Scans,      \* slots for concurrently living run goroutines
    NoScan,     \* r.cancel = nil
    NoPath,     \* the zero ScanResult has no path, and no root
    MaxTTL      \* longest cache lifetime a client sets, in ticks (a bound)

ASSUME ScanRunnerAssumption ==
    /\ NoScan \notin Scans
    /\ NoPath \notin Paths
    /\ MaxTTL \in Nat \ {0}

VARIABLES
    status,     \* r.result.Status
    path,       \* r.result.Path
    root,       \* path whose tree r.result.Root holds, NoPath when Root = nil
    age,        \* ticks since r.result.ScannedAt, stops at MaxTTL + 1
    ttl,        \* r.cacheTTL
    cancel,     \* slot whose context r.cancel cancels, NoScan when nil
    reply,      \* StartMode the latest Start returned to its client
    pc,         \* pc[s]: where the goroutine of slot s is, "free" if none
    target,     \* target[s]: the path argument of the goroutine of slot s
    failed,     \* failed[s]: which of Wait and Parse reported an error
    cancelled   \* slots whose context is done

result == <<status, path, root, age>>
goroutines == <<pc, target, failed>>
vars == <<status, path, root, age, ttl, cancel, reply,
          pc, target, failed, cancelled>>

Status == {"idle", "running", "done", "error"}
Mode   == {"none", "cached", "running", "started"}
Step   == {"free", "install", "installing", "spawn", "scanning", "collect",
           "toIdle", "toError", "toDone"}

TypeOK ==
    /\ status \in Status
    /\ path \in Paths \cup {NoPath}
    /\ root \in Paths \cup {NoPath}
    /\ age \in 0 .. MaxTTL + 1
    /\ ttl \in 1 .. MaxTTL
    /\ cancel \in Scans \cup {NoScan}
    /\ reply \in Mode
    /\ pc \in [Scans -> Step]
    /\ target \in [Scans -> Paths \cup {NoPath}]
    /\ failed \in [Scans -> SUBSET {"wait", "parse"}]
    /\ cancelled \subseteq Scans

Init ==
    /\ status = "idle" /\ path = NoPath /\ root = NoPath
    /\ age = 0 /\ ttl = MaxTTL
    /\ cancel = NoScan /\ reply = "none"
    /\ pc = [s \in Scans |-> "free"]
    /\ target = [s \in Scans |-> NoPath]
    /\ failed = [s \in Scans |-> {}]
    /\ cancelled = {}

-----------------------------------------------------------------------------
(* Faulty forms of the helpers below, kept to show that a property notices *)
(* the mistake.                                                            *)
ForgetPrevious == cancelled     \* r.cancel dropped without being called
ForgetStatus == status          \* the status assignment left out
ForgetPath(s) == path           \* the result updated in place
NoKill(s) == FALSE              \* exec.Command where CommandContext belongs

-----------------------------------------------------------------------------
(* Client calls, each one critical section of r.mu.                        *)

\* if r.cancel != nil { r.cancel() }
CancelPrevious == cancelled \cup ({cancel} \cap Scans)

StatusOnCancel == "idle"

StatusOnError == "error"

ValidTTL(t) == t > 0

Fresh(p) == status = "done" /\ path = p /\ age <= ttl

Joins(p) == status = "running" /\ path = p

StartCached(p) ==
    /\ Fresh(p)
    /\ reply' = "cached"
    /\ UNCHANGED <<status, path, root, age, ttl, cancel, goroutines, cancelled>>

StartJoined(p) ==
    /\ Joins(p)
    /\ reply' = "running"
    /\ UNCHANGED <<status, path, root, age, ttl, cancel, goroutines, cancelled>>

\* The previous context, if r.cancel still holds one, is cancelled before the
\* result and r.cancel are replaced and the new goroutine is spawned.
StartNew(p, s) ==
    /\ ~ Fresh(p) /\ ~ Joins(p)
    /\ pc[s] = "free"
    /\ reply' = "started"
    /\ status' = "running" /\ path' = p /\ root' = NoPath /\ age' = 0
    /\ cancel' = s
    /\ cancelled' = CancelPrevious \ {s}
    /\ pc' = [pc EXCEPT ![s] = "install"]
    /\ target' = [target EXCEPT ![s] = p]
    /\ failed' = [failed EXCEPT ![s] = {}]
    /\ UNCHANGED ttl

Cancel ==
    /\ cancelled' = CancelPrevious
    /\ cancel' = NoScan
    /\ status' = StatusOnCancel
    /\ UNCHANGED <<path, root, age, ttl, reply, goroutines>>

SetCacheTTL(t) ==
    /\ ttl' = IF ValidTTL(t) THEN t ELSE ttl
    /\ UNCHANGED <<result, cancel, reply, goroutines, cancelled>>

Tick ==
    /\ age <= MaxTTL
    /\ age' = age + 1
    /\ UNCHANGED <<status, path, root, ttl, cancel, reply, goroutines, cancelled>>

-----------------------------------------------------------------------------
(* The goroutine run(ctx, path) of slot s.                                 *)

Goto(s, l) == pc' = [pc EXCEPT ![s] = l]

\* ncdu is there, or the package manager is started to install it.
Install(s) ==
    /\ pc[s] = "install"
    /\ Goto(s, "spawn") \/ Goto(s, "installing")
    /\ UNCHANGED <<result, ttl, cancel, reply, target, failed, cancelled>>

\* The package manager ends, with ncdu or without.  It was given no context and
\* no time limit, so nothing here makes it end.
InstallerEnds(s) ==
    /\ pc[s] = "installing"
    /\ Goto(s, "spawn") \/ Goto(s, "toError")
    /\ UNCHANGED <<result, ttl, cancel, reply, target, failed, cancelled>>

\* StdoutPipe and cmd.Start; exec refuses to start under a done context.
Spawn(s) ==
    /\ pc[s] = "spawn"
    /\ \/ s \notin cancelled /\ Goto(s, "scanning")
       \/ Goto(s, "toError")
    /\ UNCHANGED <<result, ttl, cancel, reply, target, failed, cancelled>>

\* ncdu ends on its own: Parse sees the end of its output and Wait its status.
NcduExits(s) ==
    /\ pc[s] = "scanning"
    /\ \E e \in SUBSET {"wait", "parse"} : failed' = [failed EXCEPT ![s] = e]
    /\ Goto(s, "collect")
    /\ UNCHANGED <<result, ttl, cancel, reply, target, cancelled>>

\* The command was made with exec.CommandContext.
MayKill(s) == s \in cancelled

\* exec kills ncdu because the context is done; the output is cut anywhere.
NcduKilled(s) ==
    /\ pc[s] = "scanning"
    /\ MayKill(s)
    /\ \E e \in {{"wait"}, {"wait", "parse"}} : failed' = [failed EXCEPT ![s] = e]
    /\ Goto(s, "collect")
    /\ UNCHANGED <<result, ttl, cancel, reply, target, cancelled>>

\* The tests after Wait run outside the mutex; the write they lead to is a
\* later step, and a Start or a Cancel may come in between.
Collect(s) ==
    /\ pc[s] = "collect"
    /\ \/ "wait" \in failed[s] /\ s \in cancelled /\ Goto(s, "toIdle")
       \/ /\ "wait" \notin failed[s] \/ s \notin cancelled
          /\ "parse" \in failed[s]
          /\ Goto(s, "toError")
       \/ /\ "wait" \notin failed[s] \/ s \notin cancelled
          /\ "parse" \notin failed[s]
          /\ Goto(s, "toDone")
    /\ UNCHANGED <<result, ttl, cancel, reply, target, failed, cancelled>>

WriteIdle(s) ==
    /\ pc[s] = "toIdle"
    /\ status' = "idle"
    /\ Goto(s, "free")
    /\ UNCHANGED <<path, root, age, ttl, cancel, reply, target, failed, cancelled>>

SetError(s) ==
    /\ pc[s] = "toError"
    /\ status' = StatusOnError
    /\ Goto(s, "free")
    /\ UNCHANGED <<path, root, age, ttl, cancel, reply, target, failed, cancelled>>

DonePath(s) == target[s]

WriteDone(s) ==
    /\ pc[s] = "toDone"
    /\ status' = "done" /\ path' = DonePath(s) /\ root' = target[s] /\ age' = 0
    /\ Goto(s, "free")
    /\ UNCHANGED <<ttl, cancel, reply, target, failed, cancelled>>

\* What the Go scheduler runs for the goroutine; the ends of the package manager
\* and of ncdu are not its doing.
Run(s) ==
    \/ Install(s) \/ Spawn(s) \/ Collect(s)
    \/ WriteIdle(s) \/ SetError(s) \/ WriteDone(s)

Client ==
    \/ \E p \in Paths : StartCached(p) \/ StartJoined(p)
    \/ \E p \in Paths, s \in Scans : StartNew(p, s)
    \/ Cancel
    \/ \E t \in 0 .. MaxTTL : SetCacheTTL(t)

Next ==
    \/ Client
    \/ \E s \in Scans : Run(s) \/ InstallerEnds(s) \/ NcduExits(s) \/ NcduKilled(s)
    \/ Tick

Spec == Init /\ [][Next]_vars

\* Goroutines are scheduled and a kill is delivered; whether the package manager
\* and ncdu end on their own is left open, and clients owe nothing.
FairSpec ==
    /\ Spec
    /\ \A s \in Scans : WF_vars(Run(s)) /\ WF_vars(NcduKilled(s))

\* Every ncdu comes to the end of its tree.
NcduTerminates == \A s \in Scans : WF_vars(NcduExits(s))

\* Every package manager ends.
InstallerTerminates == \A s \in Scans : WF_vars(InstallerEnds(s))

-----------------------------------------------------------------------------
Alive(s) == pc[s] # "free"

\* A goroutine still at work that nobody has told to stop is the one that
\* r.cancel can stop.  Start and Cancel never lose track of a live scan, however
\* late the goroutines they replaced are.
NoOrphanScan == \A s \in Scans : Alive(s) /\ s \notin cancelled => cancel = s

\* A result that says "running" has somebody behind it: the scan r.cancel
\* refers to is alive, was not told to stop, and scans the path on display.
\* So a client that joins a running scan (runner.go:46) joins a real one.
RunningIsOwned ==
    status = "running" =>
        /\ cancel \in Scans
        /\ Alive(cancel)
        /\ cancel \notin cancelled
        /\ target[cancel] = path

\* A tree on display is the tree of the path on display, and a result that
\* says "done" has one, so the cache test of Start (runner.go:40) compares the
\* path the tree belongs to, whatever late goroutine wrote last.
TreeIsOfPath ==
    /\ root # NoPath => root = path
    /\ status = "done" => root # NoPath

\* A package manager is at work for the goroutine.
Installing(s) == pc[s] = "installing"

\* Cancelling stops the work whatever ncdu is doing (docs/TESTING.md: "Cancel
\* button stops an in-progress scan").  Only a package manager that never ends
\* can keep a cancelled scan alive: it does not see the context (runner.go:71).
CancelledScanEnds ==
    \A s \in Scans : (s \in cancelled) ~> ~ Alive(s) \/ s \notin cancelled \/ Installing(s)

\* No client waits on "running" for ever, provided ncdu and package managers end.
RunningResolves ==
    NcduTerminates /\ InstallerTerminates =>
        ((status = "running") ~> (status # "running"))

\* Seen from outside Runner is the scan service: whatever happens inside a
\* goroutine, the result changes by a client's call or by the one write at its end.
Service == INSTANCE ScanService
    WITH work <- [s \in Scans |-> IF Alive(s) THEN target[s] ELSE NoPath]

ServiceSpec == Service!Spec

=============================================================================
