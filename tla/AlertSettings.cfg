CONSTANTS
    Admins = {a1, a2}
    Fields = {f1, f2}
    Values = {0, 1}
    DefaultConfig <- MCDefault
    Secrets = {s1}
    Keys = {k1, k2}
    Times = {t1}
    None = None
SPECIFICATION FairSpec
INVARIANTS
    NoLostUpdate
    SettingsOnDisk
    SecretIsOpened
    SilenceOnDisk
PROPERTIES
    RequestsEnd
