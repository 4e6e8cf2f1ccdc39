SPECIFICATION Spec
CONSTANTS
    t1 = t1
    t2 = t2
    NoToken = NoToken
    NoTab = NoTab
    Tab = {t1, t2}
    Token = {k1, k2}
    MaxCalls = 2
    Visits <- SideBySide
    GitOps = TRUE
    MaxVersion = 1
    NullDns = {}
    MaxFaults = 0
SYMMETRY Interchangeable
INVARIANTS
    IInv
    SpinnerBacked
PROPERTIES
    SessionKept
