CONSTANTS
    Configs <- MCConfigs
    FirstConfig <- Base
    Loads <- MCLoads
    Gaps <- MCGaps
    MaxTime = 12
    Never = Never
SPECIFICATION Spec
PROPERTIES
    SentAfterFullWindow
    CooldownRespected
    OverloadDetected
    CycleSpec
