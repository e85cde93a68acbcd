-------------------------- MODULE ScanRunnerProofs --------------------------
(***************************************************************************)
(* For any sets of directories and goroutine slots: Runner never loses     *)
(* track of a live scan, and what it displays is consistent, however late  *)
(* the goroutines of replaced and cancelled scans make their last write.   *)
(*                                                                         *)
(* NoOrphanScan is inductive over TypeOK.  TreeIsOfPath needs HasTarget: a *)
(* goroutine alive knows its directory.  RunningIsOwned is inductive too:  *)
(* every write a goroutine makes leaves "running", so the status is        *)
(* "running" only while the goroutine that Start spawned for it, the one   *)
(* r.cancel refers to, has not returned.                                   *)
(***************************************************************************)
EXTENDS ScanRunner, TLAPS

\* A goroutine was given a directory when it was spawned.
HasTarget == \A s \in Scans : Alive(s) => target[s] \in Paths

\* The inductive invariant.
RunnerInv ==
    TypeOK /\ HasTarget /\ NoOrphanScan /\ RunningIsOwned /\ TreeIsOfPath

USE DEF Status, Mode, Step

LEMMA InitInv == Init => RunnerInv
  BY ScanRunnerAssumption
     DEF Init, RunnerInv, TypeOK, HasTarget, NoOrphanScan, RunningIsOwned, TreeIsOfPath, Alive

\* The calls of the HTTP handlers.
LEMMA ClientStep ==
  ASSUME RunnerInv, Client
  PROVE  RunnerInv'
<1> USE ScanRunnerAssumption
        DEF RunnerInv, TypeOK, HasTarget, NoOrphanScan, RunningIsOwned, TreeIsOfPath, Alive,
            result, goroutines
<1>1. ASSUME NEW p \in Paths, StartCached(p) PROVE RunnerInv'
  BY <1>1 DEF StartCached
<1>2. ASSUME NEW p \in Paths, StartJoined(p) PROVE RunnerInv'
  BY <1>2 DEF StartJoined
<1>3. ASSUME NEW p \in Paths, NEW s \in Scans, StartNew(p, s) PROVE RunnerInv'
  <2> USE <1>3 DEF StartNew, CancelPrevious
  <2>1. TypeOK'        OBVIOUS
  <2>2. NoOrphanScan'
    <3> SUFFICES ASSUME NEW t \in Scans, t # s, (Alive(t))', t \notin cancelled'
                 PROVE  FALSE
      OBVIOUS
    <3>1. Alive(t) /\ t \notin cancelled  OBVIOUS
    <3>2. cancel = t  BY <3>1
    <3> QED BY <3>2
  <2>3. RunningIsOwned'  OBVIOUS
  <2>4. TreeIsOfPath'  OBVIOUS
  <2>5. HasTarget'
    <3> SUFFICES ASSUME NEW t \in Scans, (Alive(t))' PROVE target'[t] \in Paths
      OBVIOUS
    <3>1. CASE t = s  BY <3>1
    <3>2. CASE t # s  BY <3>2
    <3> QED BY <3>1, <3>2
  <2> QED BY <2>1, <2>2, <2>3, <2>4, <2>5
<1>4. CASE Cancel
  BY <1>4 DEF Cancel, CancelPrevious, StatusOnCancel
<1>5. ASSUME NEW t \in 0 .. MaxTTL, SetCacheTTL(t) PROVE RunnerInv'
  BY <1>5 DEF SetCacheTTL, ValidTTL
<1> QED BY <1>1, <1>2, <1>3, <1>4, <1>5 DEF Client

\* A goroutine that has not come to its last write leaves the result alone and
\* stays alive, so nothing it does can break an invariant.
LEMMA QuietStep ==
  ASSUME RunnerInv, NEW s \in Scans,
         \/ Install(s) \/ InstallerEnds(s) \/ Spawn(s) \/ Collect(s)
         \/ NcduExits(s) \/ NcduKilled(s)
  PROVE  RunnerInv'
<1> USE DEF RunnerInv, TypeOK, Goto, result
<1>1. /\ pc' \in [Scans -> Step] /\ pc[s] # "free" /\ pc'[s] # "free"
      /\ \A t \in Scans : t # s => pc'[t] = pc[t]
      /\ failed' \in [Scans -> SUBSET {"wait", "parse"}]
      /\ UNCHANGED <<status, path, root, age, ttl, cancel, reply, target, cancelled>>
  <2>1. CASE Install(s) \/ InstallerEnds(s)  BY <2>1 DEF Install, InstallerEnds
  <2>2. CASE Spawn(s)       BY <2>2 DEF Spawn
  <2>3. CASE Collect(s)     BY <2>3 DEF Collect
  <2>4. CASE NcduKilled(s)  BY <2>4 DEF NcduKilled
  <2>5. CASE NcduExits(s)
    <3> USE <2>5 DEF NcduExits
    <3>1. /\ failed' \in [Scans -> SUBSET {"wait", "parse"}]
          /\ UNCHANGED <<status, path, root, age, ttl, cancel, reply, target, cancelled>>
      OBVIOUS
    <3>2. pc[s] # "free"  OBVIOUS
    <3>3. \E x \in Step \ {"free"} : pc' = [pc EXCEPT ![s] = x]  OBVIOUS
    <3> QED BY <3>1, <3>2, <3>3
  <2> QED BY <2>1, <2>2, <2>3, <2>4, <2>5
<1>2. \A t \in Scans : (Alive(t))' <=> Alive(t)  BY <1>1 DEF Alive
<1>3. TypeOK'  BY <1>1
<1>4. NoOrphanScan'  BY <1>1, <1>2 DEF NoOrphanScan
<1>5. RunningIsOwned'  BY <1>1, <1>2 DEF RunningIsOwned
<1>6. TreeIsOfPath'  BY <1>1 DEF TreeIsOfPath
<1>7. HasTarget'  BY <1>1, <1>2 DEF HasTarget
<1> QED BY <1>3, <1>4, <1>5, <1>6, <1>7

\* The last write of a goroutine: the slot becomes free and the result leaves
\* "running", whichever scan the result belonged to.
LEMMA LastWrite ==
  ASSUME RunnerInv, NEW s \in Scans,
         WriteIdle(s) \/ SetError(s) \/ WriteDone(s)
  PROVE  RunnerInv'
<1> USE ScanRunnerAssumption DEF RunnerInv, TypeOK, Goto
<1>1. /\ status' \in Status \ {"running"} /\ ~ (Alive(s))'
      /\ \A t \in Scans : t # s => pc'[t] = pc[t]
      /\ UNCHANGED <<ttl, cancel, reply, target, failed, cancelled>>
  BY DEF WriteIdle, SetError, WriteDone, StatusOnError, Alive
<1>2. TypeOK'
  BY <1>1 DEF WriteIdle, SetError, WriteDone, StatusOnError, DonePath
<1>3. NoOrphanScan'  BY <1>1 DEF NoOrphanScan, Alive
<1>4. RunningIsOwned'  BY <1>1 DEF RunningIsOwned
<1>5. TreeIsOfPath'
  <2>1. CASE WriteIdle(s)  BY <2>1 DEF WriteIdle, TreeIsOfPath
  <2>2. CASE SetError(s)  BY <2>2 DEF SetError, StatusOnError, TreeIsOfPath
  <2>3. CASE WriteDone(s)
    <3>1. target[s] \in Paths  BY <2>3 DEF WriteDone, HasTarget, Alive
    <3> QED BY <2>3, <3>1 DEF WriteDone, DonePath, TreeIsOfPath
  <2> QED BY <2>1, <2>2, <2>3
<1>6. HasTarget'  BY <1>1 DEF HasTarget, Alive
<1> QED BY <1>2, <1>3, <1>4, <1>5, <1>6

LEMMA TickStep ==
  ASSUME RunnerInv, Tick
  PROVE  RunnerInv'
  BY ScanRunnerAssumption
     DEF Tick, RunnerInv, TypeOK, HasTarget, NoOrphanScan, RunningIsOwned, TreeIsOfPath,
         Alive, goroutines

LEMMA StutterStep ==
  ASSUME RunnerInv, UNCHANGED vars
  PROVE  RunnerInv'
  BY DEF vars, RunnerInv, TypeOK, HasTarget, NoOrphanScan, RunningIsOwned, TreeIsOfPath, Alive

\* The inductive invariant holds in every behaviour of the runner.
THEOREM RunnerInvariant == Spec => []RunnerInv
<1>1. RunnerInv /\ [Next]_vars => RunnerInv'
  BY ClientStep, QuietStep, LastWrite, TickStep, StutterStep DEF Next, Run
<1> QED BY InitInv, <1>1, PTL DEF Spec

\* Every variable keeps its type, the lifetime stays positive in particular.
THEOREM TypeCorrect == Spec => []TypeOK
<1>1. RunnerInv => TypeOK  BY DEF RunnerInv
<1> QED BY RunnerInvariant, <1>1, PTL

\* Whatever the interleaving of Start, Cancel and late goroutines, a scan that
\* was not told to stop is the one the runner can still stop.
THEOREM NeverOrphaned == Spec => []NoOrphanScan
<1>1. RunnerInv => NoOrphanScan  BY DEF RunnerInv
<1> QED BY RunnerInvariant, <1>1, PTL

\* Whatever the interleaving, "running" is backed by a live, uncancelled scan of
\* the path on display.
THEOREM RunningAlwaysOwned == Spec => []RunningIsOwned
<1>1. RunnerInv => RunningIsOwned  BY DEF RunnerInv
<1> QED BY RunnerInvariant, <1>1, PTL

\* The tree on display is always the tree of the path on display.
THEOREM TreeAlwaysOfPath == Spec => []TreeIsOfPath
<1>1. RunnerInv => TreeIsOfPath  BY DEF RunnerInv
<1> QED BY RunnerInvariant, <1>1, PTL

-----------------------------------------------------------------------------
(* Refinement of the scan service.                                         *)

\* The directories being scanned, as the service sees them.
work == [s \in Scans |-> IF Alive(s) THEN target[s] ELSE NoPath]

LEMMA InitService == Init => Service!Init
  BY DEF Init, Service!Init, Alive

\* A scan that begins takes a free slot and replaces the result.
LEMMA BeginStep ==
  ASSUME RunnerInv, NEW p \in Paths, NEW s \in Scans, StartNew(p, s)
  PROVE  Service!Begin(p, s)
<1> USE DEF RunnerInv, TypeOK, StartNew
<1>1. status' = "running" /\ path' = p  OBVIOUS
<1>2. work[s] = NoPath  BY DEF work, Alive
<1>3. ~ Service!Joins(p)  BY DEF Joins, Service!Joins
<1>4. work' = [work EXCEPT ![s] = p]
  BY DEF work, Alive
<1> QED BY <1>1, <1>2, <1>3, <1>4 DEF Service!Begin, work

\* The last write of a goroutine is the completion of its scan.
LEMMA CompleteStep ==
  ASSUME RunnerInv, NEW s \in Scans, WriteIdle(s) \/ SetError(s) \/ WriteDone(s)
  PROVE  Service!Complete(s)
<1> USE ScanRunnerAssumption DEF RunnerInv, TypeOK
<1>1. /\ Alive(s) /\ target[s] \in Paths
      /\ pc' = [pc EXCEPT ![s] = "free"] /\ target' = target
  BY DEF WriteIdle, SetError, WriteDone, Goto, Alive, HasTarget
<1>2. work[s] = target[s] /\ work[s] # NoPath  BY <1>1 DEF work
<1>3. work' = [work EXCEPT ![s] = NoPath]  BY <1>1 DEF work, Alive
<1>4. \/ status' = "done" /\ path' = work[s]
      \/ status' \in {"error", "idle"} /\ UNCHANGED path
  BY <1>2 DEF WriteIdle, SetError, WriteDone, StatusOnError, DonePath
<1> QED BY <1>2, <1>3, <1>4 DEF Service!Complete, work

\* All other steps are invisible.
LEMMA InvisibleStep ==
  ASSUME RunnerInv,
         \/ \E p \in Paths : StartCached(p) \/ StartJoined(p)
         \/ \E t \in 0 .. MaxTTL : SetCacheTTL(t)
         \/ \E s \in Scans : \/ Install(s) \/ InstallerEnds(s) \/ Spawn(s) \/ Collect(s)
                             \/ NcduExits(s) \/ NcduKilled(s)
         \/ Tick
         \/ UNCHANGED vars
  PROVE  UNCHANGED <<status, path, work>>
<1>1. status' = status /\ path' = path /\ target' = target
  BY DEF StartCached, StartJoined, SetCacheTTL, Install, InstallerEnds, Spawn, Collect,
         NcduExits, NcduKilled, Tick, vars, result, goroutines
<1>2. \A s \in Scans : (Alive(s))' <=> Alive(s)
  BY DEF RunnerInv, TypeOK, StartCached, StartJoined, SetCacheTTL, Install, InstallerEnds,
         Spawn, Collect, NcduExits, NcduKilled, Tick, Goto, vars, goroutines, Alive
<1> QED BY <1>1, <1>2 DEF work

\* Runner implements the scan service: its result changes by a client's call or
\* by the single write at the end of a scan, and in no other way.
THEOREM ImplementsService == Spec => ServiceSpec
<1>1. RunnerInv /\ [Next]_vars => [Service!Next]_<<status, path, work>>
  <2> SUFFICES ASSUME RunnerInv, [Next]_vars
               PROVE  Service!Next \/ UNCHANGED <<status, path, work>>
    OBVIOUS
  <2>1. ASSUME NEW p \in Paths, NEW s \in Scans, StartNew(p, s) PROVE Service!Next
    BY <2>1, BeginStep DEF Service!Next
  <2>2. ASSUME NEW s \in Scans, WriteIdle(s) \/ SetError(s) \/ WriteDone(s)
        PROVE  Service!Next
    BY <2>2, CompleteStep DEF Service!Next
  <2>3. CASE Cancel
    <3>1. work' = work  BY <2>3 DEF Cancel, work, Alive, goroutines
    <3> QED BY <2>3, <3>1 DEF Cancel, StatusOnCancel, Service!Next, Service!Cancel, work
  <2> QED BY <2>1, <2>2, <2>3, InvisibleStep DEF Next, Client, Run
<1>2. RunnerInv /\ [Next]_vars => [Service!Next]_(Service!service)
  BY <1>1 DEF Service!service, work
<1> QED BY RunnerInvariant, InitService, <1>2, PTL DEF Spec, ServiceSpec, Service!Spec
=============================================================================
