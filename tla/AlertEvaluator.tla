--------------------------- MODULE AlertEvaluator ---------------------------
(***************************************************************************)
(* The CPU alert state machine (internal/alerts/evaluator.go), driven by   *)
(* metric snapshots and by configuration changes between them              *)
(* (validateConfig and UpdateConfig in internal/alerts/service.go).        *)
(*                                                                         *)
(* Evaluate is called with the snapshot's time stamp, its CPU load and     *)
(* whether notifications are silenced.  Snapshots come at irregular gaps:  *)
(* the sampling interval can change, and the subscription channel drops    *)
(* snapshots while a notification is being retried.  The evaluator keeps   *)
(* the beginning of the current hot, very hot and cool windows; a change   *)
(* of the thresholds does not reset them.                                  *)
(*                                                                         *)
(* The variable `run' is an observer.  It remembers, independently of the  *)
(* evaluator, when the present series of samples above or below each       *)
(* threshold began.                                                        *)
(***************************************************************************)
EXTENDS Integers

CONSTANTS
    Configs,    \* configurations that clients submit, valid or not
    FirstConfig,\* the configuration at startup
    Loads,      \* CPU loads a snapshot may report
    Gaps,       \* time between two snapshots
    MaxTime,    \* last time stamp considered (a bound)
    Never       \* a nil time

Level == {"none", "warning", "critical"}
Kind  == {"warning", "critical", "recovery"}

ConfigType ==
    [Enabled : BOOLEAN,
     WarningPercent : Int, CriticalPercent : Int, RecoveryPercent : Int,
     WarningForSec : Int, CriticalForSec : Int, RecoveryForSec : Int,
     CooldownSec : Int]

\* What the evaluator relies on: three bands of load in this order, windows of
\* at least a second.
ConfigSound(c) ==
    /\ c.RecoveryPercent < c.WarningPercent /\ c.WarningPercent < c.CriticalPercent
    /\ c.WarningForSec > 0 /\ c.CriticalForSec > 0 /\ c.RecoveryForSec > 0

\* Windows and cooldowns are small enough for time.Duration, and the snapshots
\* of one process carry increasing times.
ASSUME AlertEvaluatorAssumption ==
    /\ Configs \subseteq ConfigType
    /\ FirstConfig \in ConfigType /\ ConfigSound(FirstConfig)
    /\ Loads \subseteq Int
    /\ Gaps \subseteq Nat \ {0}
    /\ MaxTime \in Nat
    /\ Never \notin Int

VARIABLES
    now,                \* time stamp of the latest snapshot
    cfg,                \* s.cfg, the part the evaluator reads
    activeLevel,
    aboveWarningSince, aboveCriticalSince, belowRecoverySince,
    lastSent,           \* lastSent[k], and with it last{Warning,...}At
    run                 \* run[k]: first sample of the present series of kind k

since == <<aboveWarningSince, aboveCriticalSince, belowRecoverySince>>
vars  == <<now, cfg, activeLevel, aboveWarningSince, aboveCriticalSince,
           belowRecoverySince, lastSent, run>>

Time == 0 .. MaxTime
TimeOrNil == Time \cup {Never}

TypeOK ==
    /\ now \in Time
    /\ cfg \in ConfigType /\ ConfigSound(cfg)
    /\ activeLevel \in Level
    /\ aboveWarningSince \in TimeOrNil
    /\ aboveCriticalSince \in TimeOrNil
    /\ belowRecoverySince \in TimeOrNil
    /\ lastSent \in [Kind -> TimeOrNil]
    /\ run \in [Kind -> TimeOrNil]

Init ==
    /\ now = 0
    /\ cfg = FirstConfig
    /\ activeLevel = "none"
    /\ aboveWarningSince = Never
    /\ aboveCriticalSince = Never
    /\ belowRecoverySince = Never
    /\ lastSent = [k \in Kind |-> Never]
    /\ run = [k \in Kind |-> Never]

-----------------------------------------------------------------------------
(* Faulty forms of the helpers below, kept to show that a property notices *)
(* the mistake.                                                            *)
RestartedAt(p, t) == t                          \* the nil test left out
ElapsedEarly(p, t, sec) == p # Never /\ t - p >= sec - 1
AlwaysSend(k, t) == TRUE                        \* no cooldown
Lowered == "warning"                            \* no test of the active level

-----------------------------------------------------------------------------
(* Helpers of Evaluate; t is the time stamp of the snapshot.               *)

\* if p == nil { p = &now }
StartedBy(p, t) == IF p = Never THEN t ELSE p

\* With a window of at least a second the early return for requiredSec <= 0 is
\* the same comparison.
windowElapsed(p, t, sec) == p # Never /\ t - p >= sec

canSend(k, t) == lastSent[k] # Never => t - lastSent[k] >= cfg.CooldownSec

\* markSent and the returned trigger; nothing is sent while silenced.
markSent(k, t, silenced) ==
    lastSent' = IF silenced THEN lastSent ELSE [lastSent EXCEPT ![k] = t]

resetWindows ==
    /\ aboveWarningSince' = Never
    /\ aboveCriticalSince' = Never
    /\ belowRecoverySince' = Never

\* The level after a warning that is due: a critical state is not lowered.
RaisedToWarning == IF activeLevel = "critical" THEN "critical" ELSE "warning"

-----------------------------------------------------------------------------
(* The branches of Evaluate, in the order of the code.                     *)

EvaluateDisabled ==
    /\ ~ cfg.Enabled
    /\ resetWindows
    /\ activeLevel' = "none"
    /\ UNCHANGED lastSent

EvaluateCritical(t, cpu, silenced) ==
    /\ cfg.Enabled /\ cpu >= cfg.CriticalPercent
    /\ belowRecoverySince' = Never
    /\ aboveWarningSince' = StartedBy(aboveWarningSince, t)
    /\ aboveCriticalSince' = StartedBy(aboveCriticalSince, t)
    /\ LET due == /\ windowElapsed(StartedBy(aboveCriticalSince, t), t, cfg.CriticalForSec)
                  /\ canSend("critical", t)
       IN  \/ due /\ activeLevel' = "critical" /\ markSent("critical", t, silenced)
           \/ ~ due /\ UNCHANGED <<activeLevel, lastSent>>

EvaluateWarning(t, cpu, silenced) ==
    /\ cfg.Enabled /\ cpu < cfg.CriticalPercent /\ cpu >= cfg.WarningPercent
    /\ belowRecoverySince' = Never
    /\ aboveWarningSince' = StartedBy(aboveWarningSince, t)
    /\ aboveCriticalSince' = Never
    /\ LET due == /\ windowElapsed(StartedBy(aboveWarningSince, t), t, cfg.WarningForSec)
                  /\ canSend("warning", t)
       IN  \/ due /\ activeLevel' = RaisedToWarning /\ markSent("warning", t, silenced)
           \/ ~ due /\ UNCHANGED <<activeLevel, lastSent>>

\* Some level is active and the load is below the recovery threshold.
EvaluateCooling(t, cpu, silenced) ==
    /\ cfg.Enabled /\ cpu < cfg.WarningPercent
    /\ activeLevel # "none" /\ cpu < cfg.RecoveryPercent
    /\ aboveWarningSince' = Never
    /\ aboveCriticalSince' = Never
    /\ LET began == StartedBy(belowRecoverySince, t)
           due == windowElapsed(began, t, cfg.RecoveryForSec) /\ canSend("recovery", t)
       IN  \/ /\ due
              /\ activeLevel' = "none" /\ belowRecoverySince' = Never
              /\ markSent("recovery", t, silenced)
           \/ /\ ~ due
              /\ belowRecoverySince' = began
              /\ UNCHANGED <<activeLevel, lastSent>>

EvaluateCalm(cpu) ==
    /\ cfg.Enabled /\ cpu < cfg.WarningPercent
    /\ activeLevel = "none" \/ cpu >= cfg.RecoveryPercent
    /\ resetWindows
    /\ UNCHANGED <<activeLevel, lastSent>>

\* The observer: a sample extends the series it belongs to and ends the others.
Extends(k, cpu) ==
    /\ cfg.Enabled
    /\ k = "warning" => cpu >= cfg.WarningPercent
    /\ k = "critical" => cpu >= cfg.CriticalPercent
    /\ k = "recovery" => cpu < cfg.RecoveryPercent

Observe(t, cpu) ==
    run' = [k \in Kind |-> IF ~ Extends(k, cpu) THEN Never
                           ELSE IF run[k] = Never THEN t ELSE run[k]]

Evaluate(t, cpu, silenced) ==
    /\ now' = t
    /\ \/ EvaluateDisabled
       \/ EvaluateCritical(t, cpu, silenced)
       \/ EvaluateWarning(t, cpu, silenced)
       \/ EvaluateCooling(t, cpu, silenced)
       \/ EvaluateCalm(cpu)
    /\ Observe(t, cpu)
    /\ UNCHANGED cfg

\* The cross-field tests of validateConfig; percentages lie in 1 .. 100.
validateConfig(c) ==
    /\ c.WarningPercent < c.CriticalPercent
    /\ c.RecoveryPercent < c.WarningPercent
    /\ c.WarningForSec > 0 /\ c.CriticalForSec > 0 /\ c.RecoveryForSec > 0
    /\ c.CooldownSec >= 0

\* An invalid configuration is refused and changes nothing.
UpdateConfig(c) ==
    /\ cfg' = IF validateConfig(c) THEN c ELSE cfg
    /\ UNCHANGED <<now, activeLevel, since, lastSent, run>>

Next ==
    \/ \E gap \in Gaps, cpu \in Loads, silenced \in BOOLEAN :
          now + gap <= MaxTime /\ Evaluate(now + gap, cpu, silenced)
    \/ \E c \in Configs : UpdateConfig(c)

Spec == Init /\ [][Next]_vars

-----------------------------------------------------------------------------
(* Properties.                                                             *)

Sends(k) == lastSent'[k] # lastSent[k]

WindowOf(k) ==
    CASE k = "warning" -> cfg.WarningForSec
      [] k = "critical" -> cfg.CriticalForSec
      [] OTHER -> cfg.RecoveryForSec

\* The nil-able windows exclude and order each other: a very hot window lies
\* within a hot one, a cool window excludes both and exists only while a level
\* is active, so a later alert can never count samples from before a recovery.
WindowsConsistent ==
    /\ aboveCriticalSince # Never =>
          aboveWarningSince # Never /\ aboveWarningSince <= aboveCriticalSince
    /\ belowRecoverySince # Never =>
          /\ activeLevel # "none"
          /\ aboveWarningSince = Never
          /\ aboveCriticalSince = Never

\* The windows are the series of samples they stand for: hot and very hot
\* exactly, and a cool window begins no earlier than the load became low.
WindowsMatchSamples ==
    /\ aboveWarningSince = run["warning"]
    /\ aboveCriticalSince = run["critical"]
    /\ belowRecoverySince # Never =>
          run["recovery"] # Never /\ run["recovery"] <= belowRecoverySince

\* An alert or a recovery is sent only if every sample for at least the whole
\* configured window was on the right side of the threshold then in force.
SentAfterFullWindow ==
    [][\A k \in Kind : Sends(k) =>
          run'[k] # Never /\ now' - run'[k] >= WindowOf(k)]_vars

\* Two announcements of one kind are a cooldown apart, whatever happened to the
\* load, to the level or to the configuration in between.
CooldownRespected ==
    [][\A k \in Kind : Sends(k) /\ lastSent[k] # Never =>
          now' - lastSent[k] >= cfg.CooldownSec]_vars

\* An overload that has lasted its window is not missed: once it is also out of
\* the cooldown, the evaluation that sees it leaves the level at critical.
OverloadDetected ==
    [][/\ now' # now
       /\ run'["critical"] # Never
       /\ now' - run'["critical"] >= cfg.CriticalForSec
       /\ lastSent["critical"] # Never => now' - lastSent["critical"] >= cfg.CooldownSec
       => activeLevel' = "critical"]_vars

\* A level is cleared only by switching alerts off or by a full window of low
\* load; going quiet or changing the thresholds never clears it.
ClearedOnlyByRecovery ==
    [][activeLevel # "none" /\ activeLevel' = "none" =>
          \/ ~ cfg.Enabled
          \/ /\ run'["recovery"] # Never
             /\ now' - run'["recovery"] >= cfg.RecoveryForSec]_vars

\* Seen from outside the evaluator is the alert cycle.
Cycle == INSTANCE AlertCycle WITH level <- activeLevel, announced <- lastSent

CycleSpec == Cycle!Spec
=============================================================================
