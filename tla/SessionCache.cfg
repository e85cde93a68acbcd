CONSTANTS
    Requests = {r1, r2, r3}
    Tokens = {t1, t2}
    Users = {u1, u2}
    Nil = Nil
SYMMETRY Interchangeable
SPECIFICATION Spec
INVARIANTS
    EndedStaysOut
PROPERTIES
    LiveIsServed
