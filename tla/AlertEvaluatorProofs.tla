------------------------ MODULE AlertEvaluatorProofs ------------------------
(***************************************************************************)
(* The alert evaluator for any thresholds, windows, cooldowns, loads and   *)
(* gaps between snapshots.                                                 *)
(*                                                                         *)
(* EvaluatorInv is inductive: the windows are the series of samples they   *)
(* stand for (WindowsMatchSamples), they exclude each other                *)
(* (WindowsConsistent), and no remembered time lies in the future.  The    *)
(* statements about what is sent, and when a level is cleared, are step    *)
(* properties that follow from it; so does the refinement of AlertCycle.   *)
(***************************************************************************)
EXTENDS AlertEvaluator, TLAPS

\* Nothing was remembered from after the latest snapshot.
PastTimes ==
    /\ belowRecoverySince # Never => belowRecoverySince <= now
    /\ \A k \in Kind : /\ lastSent[k] # Never => lastSent[k] <= now
                       /\ run[k] # Never => run[k] <= now

EvaluatorInv ==
    TypeOK /\ WindowsConsistent /\ WindowsMatchSamples /\ PastTimes

USE AlertEvaluatorAssumption DEF Level, Kind, Time, TimeOrNil

\* A snapshot's evaluation at time t, one of the disjuncts of Next.
Snapshot(t, cpu, silenced) ==
    t \in Time /\ t > now /\ cpu \in Int /\ silenced \in BOOLEAN
        /\ Evaluate(t, cpu, silenced)

LEMMA NextCases ==
  ASSUME TypeOK, Next
  PROVE  \/ \E t \in Time, cpu \in Int, silenced \in BOOLEAN : Snapshot(t, cpu, silenced)
         \/ \E c \in Configs : UpdateConfig(c)
<1>1. ASSUME NEW gap \in Gaps, NEW cpu \in Loads, NEW silenced \in BOOLEAN,
             now + gap <= MaxTime, Evaluate(now + gap, cpu, silenced)
      PROVE  \E t \in Time, c \in Int, q \in BOOLEAN : Snapshot(t, c, q)
  <2>1. now + gap \in Time /\ now + gap > now /\ cpu \in Int  BY <1>1 DEF TypeOK
  <2> QED BY <1>1, <2>1 DEF Snapshot
<1> QED BY <1>1 DEF Next

-----------------------------------------------------------------------------
LEMMA InitInv == Init => EvaluatorInv
  BY DEF Init, EvaluatorInv, TypeOK, WindowsConsistent, WindowsMatchSamples, PastTimes

\* What the observer records of one sample.
LEMMA Observed ==
  ASSUME TypeOK, PastTimes, NEW t \in Time, t > now, NEW cpu \in Int, Observe(t, cpu)
  PROVE  /\ run' \in [Kind -> TimeOrNil]
         /\ \A k \in Kind : run'[k] # Never => run'[k] <= t
         /\ run'["warning"] =
              IF cfg.Enabled /\ cpu >= cfg.WarningPercent
              THEN StartedBy(run["warning"], t) ELSE Never
         /\ run'["critical"] =
              IF cfg.Enabled /\ cpu >= cfg.CriticalPercent
              THEN StartedBy(run["critical"], t) ELSE Never
         /\ run'["recovery"] =
              IF cfg.Enabled /\ cpu < cfg.RecoveryPercent
              THEN StartedBy(run["recovery"], t) ELSE Never
<1>1. \A k \in Kind : run'[k] = IF ~ Extends(k, cpu) THEN Never
                                ELSE StartedBy(run[k], t)
  BY DEF Observe, StartedBy
<1>2. run' \in [Kind -> TimeOrNil]
  BY DEF Observe, TypeOK
<1>3. \A k \in Kind : run'[k] # Never => run'[k] <= t
  BY <1>1 DEF StartedBy, TypeOK, PastTimes
<1>4. /\ Extends("warning", cpu) <=> cfg.Enabled /\ cpu >= cfg.WarningPercent
      /\ Extends("critical", cpu) <=> cfg.Enabled /\ cpu >= cfg.CriticalPercent
      /\ Extends("recovery", cpu) <=> cfg.Enabled /\ cpu < cfg.RecoveryPercent
  BY DEF Extends
<1> QED BY <1>1, <1>2, <1>3, <1>4

\* The announcements after one evaluation: at most one, stamped t.
LEMMA Marked ==
  ASSUME TypeOK, PastTimes, NEW t \in Time, t > now, NEW k \in Kind,
         NEW silenced \in BOOLEAN, markSent(k, t, silenced)
  PROVE  /\ lastSent' \in [Kind -> TimeOrNil]
         /\ \A j \in Kind : lastSent'[j] # Never => lastSent'[j] <= t
         /\ \A j \in Kind : j # k => lastSent'[j] = lastSent[j]
  BY DEF markSent, TypeOK, PastTimes

LEMMA SnapshotInv ==
  ASSUME EvaluatorInv, NEW t \in Time, NEW cpu \in Int, NEW silenced \in BOOLEAN,
         Snapshot(t, cpu, silenced)
  PROVE  EvaluatorInv'
<1>1. /\ TypeOK /\ WindowsConsistent /\ WindowsMatchSamples /\ PastTimes
      /\ t > now /\ now' = t /\ cfg' = cfg /\ Observe(t, cpu)
  BY DEF EvaluatorInv, Snapshot, Evaluate
<1>2. /\ run' \in [Kind -> TimeOrNil]
      /\ \A k \in Kind : run'[k] # Never => run'[k] <= t
      /\ run'["warning"] =
           IF cfg.Enabled /\ cpu >= cfg.WarningPercent
           THEN StartedBy(run["warning"], t) ELSE Never
      /\ run'["critical"] =
           IF cfg.Enabled /\ cpu >= cfg.CriticalPercent
           THEN StartedBy(run["critical"], t) ELSE Never
      /\ run'["recovery"] =
           IF cfg.Enabled /\ cpu < cfg.RecoveryPercent
           THEN StartedBy(run["recovery"], t) ELSE Never
  BY <1>1, Observed
<1>3. \A k \in Kind : lastSent[k] # Never => lastSent[k] <= t
  BY <1>1 DEF PastTimes, TypeOK
<1>c. /\ cfg.WarningPercent \in Int /\ cfg.CriticalPercent \in Int
      /\ cfg.RecoveryPercent \in Int /\ cfg.Enabled \in BOOLEAN
      /\ cfg.RecoveryPercent < cfg.WarningPercent
      /\ cfg.WarningPercent < cfg.CriticalPercent
  BY <1>1 DEF TypeOK, ConfigType, ConfigSound
<1> USE DEF EvaluatorInv, TypeOK, WindowsConsistent, WindowsMatchSamples, PastTimes
<1>4. CASE EvaluateDisabled
  BY <1>1, <1>2, <1>3, <1>4 DEF EvaluateDisabled, resetWindows
<1>5. CASE EvaluateCritical(t, cpu, silenced)
  <2>1. /\ lastSent' \in [Kind -> TimeOrNil]
        /\ \A j \in Kind : lastSent'[j] # Never => lastSent'[j] <= t
        /\ activeLevel' \in Level
    BY <1>1, <1>3, <1>5, Marked DEF EvaluateCritical
  <2> QED BY <1>1, <1>2, <1>5, <1>c, <2>1 DEF EvaluateCritical, StartedBy
<1>6. CASE EvaluateWarning(t, cpu, silenced)
  <2>1. /\ lastSent' \in [Kind -> TimeOrNil]
        /\ \A j \in Kind : lastSent'[j] # Never => lastSent'[j] <= t
        /\ activeLevel' \in Level
    BY <1>1, <1>3, <1>6, Marked DEF EvaluateWarning, RaisedToWarning
  <2> QED BY <1>1, <1>2, <1>6, <1>c, <2>1 DEF EvaluateWarning, StartedBy
<1>7. CASE EvaluateCooling(t, cpu, silenced)
  <2>1. /\ lastSent' \in [Kind -> TimeOrNil]
        /\ \A j \in Kind : lastSent'[j] # Never => lastSent'[j] <= t
        /\ activeLevel' \in Level
    BY <1>1, <1>3, <1>7, Marked DEF EvaluateCooling
  <2> QED BY <1>1, <1>2, <1>7, <1>c, <2>1 DEF EvaluateCooling, StartedBy
<1>8. CASE EvaluateCalm(cpu)
  BY <1>1, <1>2, <1>3, <1>8, <1>c DEF EvaluateCalm, resetWindows
<1> QED BY <1>4, <1>5, <1>6, <1>7, <1>8 DEF Snapshot, Evaluate

LEMMA UpdateConfigInv ==
  ASSUME EvaluatorInv, NEW c \in Configs, UpdateConfig(c)
  PROVE  EvaluatorInv'
<1>1. cfg' \in ConfigType /\ ConfigSound(cfg')
  BY DEF EvaluatorInv, TypeOK, UpdateConfig, validateConfig, ConfigSound
<1> QED BY <1>1 DEF EvaluatorInv, TypeOK, WindowsConsistent, WindowsMatchSamples,
                    PastTimes, UpdateConfig, since

\* EvaluatorInv holds in every behaviour.
THEOREM EvaluatorInvariant == Spec => []EvaluatorInv
<1>1. EvaluatorInv /\ [Next]_vars => EvaluatorInv'
  <2>1. ASSUME EvaluatorInv, Next PROVE EvaluatorInv'
    BY <2>1, NextCases, SnapshotInv, UpdateConfigInv DEF EvaluatorInv
  <2>2. ASSUME EvaluatorInv, UNCHANGED vars PROVE EvaluatorInv'
    BY <2>2 DEF vars, EvaluatorInv, TypeOK, WindowsConsistent, WindowsMatchSamples,
                PastTimes
  <2> QED BY <2>1, <2>2
<1> QED BY InitInv, <1>1, PTL DEF Spec

\* Every variable keeps its type, and the configuration in force is sound.
THEOREM TypeCorrect == Spec => []TypeOK
<1>1. EvaluatorInv => TypeOK  BY DEF EvaluatorInv
<1> QED BY EvaluatorInvariant, <1>1, PTL

\* The windows exclude and order each other.
THEOREM WindowsAlwaysConsistent == Spec => []WindowsConsistent
<1>1. EvaluatorInv => WindowsConsistent  BY DEF EvaluatorInv
<1> QED BY EvaluatorInvariant, <1>1, PTL

\* The windows are the series of samples they stand for.
THEOREM WindowsAlwaysMatchSamples == Spec => []WindowsMatchSamples
<1>1. EvaluatorInv => WindowsMatchSamples  BY DEF EvaluatorInv
<1> QED BY EvaluatorInvariant, <1>1, PTL

-----------------------------------------------------------------------------
\* The step properties.  Only a snapshot changes the level or what was sent.

LEMMA OtherSteps ==
  ASSUME UNCHANGED vars \/ \E c \in Configs : UpdateConfig(c)
  PROVE  UNCHANGED <<now, activeLevel, lastSent, run>>
  BY DEF vars, UpdateConfig, since

\* When the cool window has elapsed, the load has been low for at least as long:
\* the window cannot begin and elapse at the same sample.
LEMMA CoolSeries ==
  ASSUME TypeOK, WindowsMatchSamples, NEW t \in Time,
         windowElapsed(StartedBy(belowRecoverySince, t), t, cfg.RecoveryForSec)
  PROVE  /\ StartedBy(run["recovery"], t) # Never
         /\ t - StartedBy(run["recovery"], t) >= cfg.RecoveryForSec
<1>1. cfg.RecoveryForSec \in Int /\ cfg.RecoveryForSec > 0
  BY DEF TypeOK, ConfigType, ConfigSound
<1>2. belowRecoverySince # Never
  BY <1>1 DEF windowElapsed, StartedBy
<1> QED BY <1>1, <1>2 DEF windowElapsed, StartedBy, WindowsMatchSamples, TypeOK

\* Why a kind was announced: its window, counted from the series of samples the
\* observer saw, had elapsed, and so had its cooldown.
LEMMA SendStep ==
  ASSUME EvaluatorInv, NEW t \in Time, NEW cpu \in Int, NEW silenced \in BOOLEAN,
         Snapshot(t, cpu, silenced), NEW k \in Kind, Sends(k)
  PROVE  /\ run'[k] # Never /\ now' - run'[k] >= WindowOf(k)
         /\ lastSent[k] # Never => now' - lastSent[k] >= cfg.CooldownSec
<1>1. /\ TypeOK /\ PastTimes /\ WindowsConsistent /\ WindowsMatchSamples
      /\ t > now /\ now' = t /\ Observe(t, cpu)
  BY DEF EvaluatorInv, Snapshot, Evaluate
<1>2. /\ run'["warning"] =
           IF cfg.Enabled /\ cpu >= cfg.WarningPercent
           THEN StartedBy(run["warning"], t) ELSE Never
      /\ run'["critical"] =
           IF cfg.Enabled /\ cpu >= cfg.CriticalPercent
           THEN StartedBy(run["critical"], t) ELSE Never
      /\ run'["recovery"] =
           IF cfg.Enabled /\ cpu < cfg.RecoveryPercent
           THEN StartedBy(run["recovery"], t) ELSE Never
  BY <1>1, Observed
<1>3. CASE EvaluateDisabled
  BY <1>3 DEF EvaluateDisabled, Sends
<1>4. CASE EvaluateCritical(t, cpu, silenced)
  <2>1. k = "critical"  BY <1>1, <1>4, Marked DEF EvaluateCritical, Sends
  <2>2. /\ windowElapsed(StartedBy(aboveCriticalSince, t), t, cfg.CriticalForSec)
        /\ canSend("critical", t)
        /\ cfg.Enabled /\ cpu >= cfg.CriticalPercent
    BY <1>4, <2>1 DEF EvaluateCritical, Sends
  <2>3. run'["critical"] = StartedBy(aboveCriticalSince, t)
    BY <1>1, <1>2, <2>2 DEF WindowsMatchSamples
  <2> QED BY <1>1, <2>1, <2>2, <2>3 DEF windowElapsed, canSend, WindowOf
<1>5. CASE EvaluateWarning(t, cpu, silenced)
  <2>1. k = "warning"  BY <1>1, <1>5, Marked DEF EvaluateWarning, Sends
  <2>2. /\ windowElapsed(StartedBy(aboveWarningSince, t), t, cfg.WarningForSec)
        /\ canSend("warning", t)
        /\ cfg.Enabled /\ cpu >= cfg.WarningPercent
    BY <1>5, <2>1 DEF EvaluateWarning, Sends
  <2>3. run'["warning"] = StartedBy(aboveWarningSince, t)
    BY <1>1, <1>2, <2>2 DEF WindowsMatchSamples
  <2> QED BY <1>1, <2>1, <2>2, <2>3 DEF windowElapsed, canSend, WindowOf
<1>6. CASE EvaluateCooling(t, cpu, silenced)
  <2>1. k = "recovery"  BY <1>1, <1>6, Marked DEF EvaluateCooling, Sends
  <2>2. /\ windowElapsed(StartedBy(belowRecoverySince, t), t, cfg.RecoveryForSec)
        /\ canSend("recovery", t)
        /\ cfg.Enabled /\ cpu < cfg.RecoveryPercent
    BY <1>6, <2>1 DEF EvaluateCooling, Sends
  <2>3. run'["recovery"] # Never /\ t - run'["recovery"] >= cfg.RecoveryForSec
    BY <1>1, <1>2, <2>2, CoolSeries
  <2> QED BY <1>1, <2>1, <2>2, <2>3 DEF canSend, WindowOf
<1>7. CASE EvaluateCalm(cpu)
  BY <1>7 DEF EvaluateCalm, Sends
<1> QED BY <1>3, <1>4, <1>5, <1>6, <1>7 DEF Snapshot, Evaluate

\* A level is cleared by a snapshot only if alerts are off or the load was low
\* for the whole recovery window.
LEMMA ClearStep ==
  ASSUME EvaluatorInv, NEW t \in Time, NEW cpu \in Int, NEW silenced \in BOOLEAN,
         Snapshot(t, cpu, silenced), activeLevel # "none", activeLevel' = "none",
         cfg.Enabled
  PROVE  run'["recovery"] # Never /\ now' - run'["recovery"] >= cfg.RecoveryForSec
<1>1. /\ TypeOK /\ PastTimes /\ WindowsConsistent /\ WindowsMatchSamples
      /\ t > now /\ now' = t /\ Observe(t, cpu)
  BY DEF EvaluatorInv, Snapshot, Evaluate
<1>2. EvaluateCooling(t, cpu, silenced)
  BY DEF Snapshot, Evaluate, EvaluateDisabled, EvaluateCritical, EvaluateWarning,
         EvaluateCalm, RaisedToWarning
<1>3. /\ windowElapsed(StartedBy(belowRecoverySince, t), t, cfg.RecoveryForSec)
      /\ cpu < cfg.RecoveryPercent
  BY <1>2 DEF EvaluateCooling
<1>4. run'["recovery"] = StartedBy(run["recovery"], t)
  BY <1>1, <1>3, Observed
<1> QED BY <1>1, <1>3, <1>4, CoolSeries

\* Every announcement follows a full window of samples on the right side of the
\* threshold.
THEOREM SentOnlyAfterFullWindow == Spec => SentAfterFullWindow
<1>1. EvaluatorInv /\ [Next]_vars =>
        [\A k \in Kind : Sends(k) => run'[k] # Never /\ now' - run'[k] >= WindowOf(k)]_vars
  BY NextCases, SendStep, OtherSteps DEF EvaluatorInv, Sends
<1> QED BY EvaluatorInvariant, <1>1, PTL DEF Spec, SentAfterFullWindow

\* Announcements of one kind are a cooldown apart.
THEOREM CooldownAlwaysRespected == Spec => CooldownRespected
<1>1. EvaluatorInv /\ [Next]_vars =>
        [\A k \in Kind : Sends(k) /\ lastSent[k] # Never =>
            now' - lastSent[k] >= cfg.CooldownSec]_vars
  BY NextCases, SendStep, OtherSteps DEF EvaluatorInv, Sends
<1> QED BY EvaluatorInvariant, <1>1, PTL DEF Spec, CooldownRespected

\* A level is cleared only by switching off or by a full window of low load.
THEOREM AlwaysClearedByRecovery == Spec => ClearedOnlyByRecovery
<1>1. EvaluatorInv /\ [Next]_vars =>
        [activeLevel # "none" /\ activeLevel' = "none" =>
            \/ ~ cfg.Enabled
            \/ /\ run'["recovery"] # Never
               /\ now' - run'["recovery"] >= cfg.RecoveryForSec]_vars
  BY NextCases, ClearStep, OtherSteps DEF EvaluatorInv
<1> QED BY EvaluatorInvariant, <1>1, PTL DEF Spec, ClearedOnlyByRecovery

\* An overload past its window and out of its cooldown leaves the level critical.
LEMMA DetectStep ==
  ASSUME EvaluatorInv, NEW t \in Time, NEW cpu \in Int, NEW silenced \in BOOLEAN,
         Snapshot(t, cpu, silenced),
         run'["critical"] # Never, t - run'["critical"] >= cfg.CriticalForSec,
         lastSent["critical"] # Never => t - lastSent["critical"] >= cfg.CooldownSec
  PROVE  activeLevel' = "critical"
<1>1. /\ TypeOK /\ PastTimes /\ WindowsMatchSamples /\ t > now /\ Observe(t, cpu)
  BY DEF EvaluatorInv, Snapshot, Evaluate
<1>2. /\ cfg.Enabled /\ cpu >= cfg.CriticalPercent
      /\ run'["critical"] = StartedBy(aboveCriticalSince, t)
  BY <1>1, Observed DEF WindowsMatchSamples
<1>3. /\ cfg.CriticalPercent \in Int /\ cfg.WarningPercent \in Int
      /\ cfg.WarningPercent < cfg.CriticalPercent
  BY <1>1 DEF TypeOK, ConfigType, ConfigSound
<1>4. EvaluateCritical(t, cpu, silenced)
  BY <1>2, <1>3 DEF Snapshot, Evaluate, EvaluateDisabled, EvaluateWarning,
                    EvaluateCooling, EvaluateCalm
<1>5. windowElapsed(StartedBy(aboveCriticalSince, t), t, cfg.CriticalForSec)
  BY <1>2 DEF windowElapsed
<1>6. canSend("critical", t)
  BY DEF canSend
<1> QED BY <1>4, <1>5, <1>6 DEF EvaluateCritical

\* No overload is missed.
THEOREM OverloadAlwaysDetected == Spec => OverloadDetected
<1>1. EvaluatorInv /\ [Next]_vars =>
        [/\ now' # now
         /\ run'["critical"] # Never
         /\ now' - run'["critical"] >= cfg.CriticalForSec
         /\ lastSent["critical"] # Never => now' - lastSent["critical"] >= cfg.CooldownSec
         => activeLevel' = "critical"]_vars
  <2>1. ASSUME NEW t \in Time, NEW cpu \in Int, NEW q \in BOOLEAN, Snapshot(t, cpu, q)
        PROVE  now' = t
    BY <2>1 DEF Snapshot, Evaluate
  <2> QED BY <2>1, NextCases, DetectStep, OtherSteps DEF EvaluatorInv
<1> QED BY EvaluatorInvariant, <1>1, PTL DEF Spec, OverloadDetected

-----------------------------------------------------------------------------
\* Every evaluation is a step of the alert cycle or none.
LEMMA CycleStep ==
  ASSUME EvaluatorInv, NEW t \in Time, NEW cpu \in Int, NEW silenced \in BOOLEAN,
         Snapshot(t, cpu, silenced)
  PROVE  Cycle!Next \/ UNCHANGED <<activeLevel, lastSent>>
<1>1. \A j \in Kind : lastSent[j] # Never => t > lastSent[j]
  BY DEF EvaluatorInv, TypeOK, PastTimes, Snapshot
<1>2. ASSUME NEW k \in Kind, k = "recovery" => activeLevel # "none",
             activeLevel' = Cycle!After(k), markSent(k, t, silenced)
      PROVE  Cycle!Next
  <2>1. CASE silenced
    BY <1>2, <2>1 DEF markSent, Cycle!Next, Cycle!Quiet, Cycle!Kind
  <2>2. CASE ~ silenced
    <3>1. Cycle!Announce(k, t)
      BY <1>1, <1>2, <2>2 DEF markSent, Cycle!Announce, Cycle!Kind
    <3> QED BY <3>1 DEF Cycle!Next, Cycle!Kind
  <2> QED BY <2>1, <2>2
<1>3. CASE EvaluateDisabled
  BY <1>3 DEF EvaluateDisabled, Cycle!Next, Cycle!Off
<1>4. CASE EvaluateCritical(t, cpu, silenced)
  BY <1>2, <1>4 DEF EvaluateCritical, Cycle!After
<1>5. CASE EvaluateWarning(t, cpu, silenced)
  BY <1>2, <1>5 DEF EvaluateWarning, RaisedToWarning, Cycle!After
<1>6. CASE EvaluateCooling(t, cpu, silenced)
  BY <1>2, <1>6 DEF EvaluateCooling, Cycle!After
<1>7. CASE EvaluateCalm(cpu)
  BY <1>7 DEF EvaluateCalm
<1> QED BY <1>3, <1>4, <1>5, <1>6, <1>7 DEF Snapshot, Evaluate

\* The evaluator implements the alert cycle.
THEOREM ImplementsCycle == Spec => CycleSpec
<1>1. Init => Cycle!Init
  BY DEF Init, Cycle!Init, Cycle!Kind
<1>2. EvaluatorInv /\ [Next]_vars => [Cycle!Next]_<<activeLevel, lastSent>>
  BY NextCases, CycleStep, OtherSteps DEF EvaluatorInv
<1> QED BY EvaluatorInvariant, <1>1, <1>2, PTL DEF Spec, CycleSpec, Cycle!Spec
=============================================================================
