SPECIFICATION FairSpec
CONSTANTS
    t1 = t1
    t2 = t2
    NoToken = NoToken
    NoTab = NoTab
    Tab = {t1}
    Token = {k1}
    MaxCalls = 2
    Visits <- Everywhere
    GitOps = FALSE
    MaxVersion = 2
    NullDns = {2}
    MaxFaults = 1
INVARIANTS
    IInv
    FreshSinceMount
    FilterApplied
PROPERTIES
    NeverBack
    SpinnersStop
    CatchesUp
    DeadTokenDropped
