CONSTANTS
    Hooks = {h1, h2}
    Tokens = {k1, k2}
    MaxClicks = 2
    MaxMsgs = 2
    HISTORY_LENGTH = 2
    None = None
SPECIFICATION TabSpec
INVARIANTS
    HistoryInOrder
    ConnectionShown
    SignedOutIsOut
PROPERTIES
    Reconnects
