-------------------------- MODULE MCAlertEvaluator --------------------------
(* AlertEvaluator on four loads, one per band of the thresholds, and three *)
(* submitted configurations: alerts off, lower thresholds with other       *)
(* windows, and one that validateConfig refuses.                           *)
EXTENDS AlertEvaluator

Base ==
    [Enabled |-> TRUE,
     RecoveryPercent |-> 1, WarningPercent |-> 2, CriticalPercent |-> 3,
     WarningForSec |-> 2, CriticalForSec |-> 3, RecoveryForSec |-> 2,
     CooldownSec |-> 4]

Lower ==
    [Base EXCEPT !.WarningPercent = 1, !.CriticalPercent = 2, !.RecoveryPercent = 0,
                 !.CriticalForSec = 1, !.CooldownSec = 0]

MCConfigs ==
    {Base, Lower, [Base EXCEPT !.Enabled = FALSE],
     [Base EXCEPT !.CriticalPercent = 2]}

MCLoads == 0 .. 3
MCGaps == {1, 2}
=============================================================================
