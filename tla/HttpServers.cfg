SPECIFICATION Spec
CONSTANTS
    Srv = {s1, s2}
    Ref = {r1, r2}
    Thr = {t1}
    None = None
    MaxFunctions = 2
    MaxLuas = 2
SYMMETRY Alike
INVARIANTS
    ReferencesExact
    OnlyOwnIsWild
PROPERTIES
    CallsRegistered
    Undisturbed
CHECK_DEADLOCK FALSE
