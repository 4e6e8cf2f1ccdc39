SPECIFICATION Spec
CONSTANTS
    a = a
    b = b
    ca = ca
    cb = cb
    p1 = p1
    p2 = p2
    i1 = i1
    i2 = i2
    i3 = i3
    m1 = m1
    m2 = m2
    m3 = m3
    NoRow = NoRow
    NoIP = NoIP
    NoReq = NoReq
    NoBinding = NoBinding
    PoolOf <- PoolOfDef
    ServerOf <- ServerOfDef
    Pools <- OnePool
    Reserved <- ReservedDef
    Server = {a}
    Conn = {ca}
    Handler = {p1, p2}
    MAC = {m1, m3}
    IP = {i1, i3}
    RowId = {1, 2, 3, 4, 5}
    Worker = {a}
    Deletes = TRUE
    Fails = {}
    LeaseTime = 1
    Retention = 1
    Oldest = 1
    ClaimLimit = 10
    MaxFlight = 0
    MaxHeld = 1
    Present = {m1, m3}
    Remembers = {}
INVARIANTS
    ReservationServed
