CONSTANTS
    Loads = {l1, l2}
    MaxChanges = 2
    None = None
    PortNumbers = {80, 443}
    Fetches = {f1}
    Kills = {k1, k2}
    NoPort = NoPort
    Saves = {s1, s2}
    Low = 2
    High = 3
    ServerValues = {0, 1, 4}
    SecretNames = {telegram, gmail}
    Orders = {o1, o2}
    NoConfig = NoConfig
    Users = {u1, u2}
    Clients = {page, rival}
    Me = u1
    Page = page
    MaxRival = 1
    MaxActs = 3
    Nil = Nil
SPECIFICATION Spec
INVARIANTS
    ShownIsFresh
    DisabledIsPending
    StoreIsServer
    ToldIsTrue
    LastAdminKept
    
PROPERTIES
    OnlyTouchedChanges
    ListCatchesUp
CHECK_DEADLOCK FALSE
