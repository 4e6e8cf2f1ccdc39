SPECIFICATION FairSpec
CONSTANTS
    Publisher = {p1, p2}
    Conn = {c1, c2}
    Nobody = Nobody
    NoConn = NoConn
    QueueCap = 1
    ClientCap = 1
    Window = 2
    MaxEvents = 2
INVARIANTS
    IInv
    EventsInOrder
    ChannelsSafe
    NothingLost
PROPERTIES
    Implements
    HandlersLeave
    EventsArrive
