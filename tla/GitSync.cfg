SPECIFICATION FairSpec
CONSTANTS
    s1 = s1
    poll = poll
    api = api
    m1 = m1
    m2 = m2
    i1 = i1
    i2 = i2
    i3 = i3
    n1 = n1
    n2 = n2
    t1 = t1
    t2 = t2
    NoRow = NoRow
    Server = {s1}
    Net = {n1, n2}
    Text = {t1, t2}
    Bad = Bad
    Syncer = {poll, api}
    Api = {api}
    MAC = {m1, m2}
    IP = {i1, i2, i3}
    RowId = {1, 2, 3, 4, 5, 6}
    ServerOf <- ServerOfDef
    Config <- History
    MaxFaults = 1
INVARIANTS
    IInv
    SuccessMeansReloaded
    AuditCovers
    ReservationsFollow
    Audited
    Synced
PROPERTIES
    NoRollback
    Implements
    Converges
