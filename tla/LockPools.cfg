SPECIFICATION RecyclingSpec
CONSTANTS
    a = a
    b = b
    a1 = a1
    a2 = a2
    b1 = b1
    g1 = g1
    g2 = g2
    g3 = g3
    k1 = k1
    k2 = k2
    Server = {a, b}
    Conn = {a1, a2, b1}
    Caller = {g1, g2, g3}
    Key = {k1, k2}
    PoolOf <- PoolOfDef
    ServerOf <- ServerOfDef
    Recyclable = {a1, a2, b1}
    MaxHeld = 2
    NoConn = NoConn
    NoKey = NoKey
INVARIANTS
    IInv
    Exclusion
PROPERTY
    CallsReturn
