\* Two TCP flows and a UDP flow, two connections, one request in flight.
CONSTANTS
    t1 = t1
    t2 = t2
    u1 = u1
    c1 = c1
    c2 = c2
    None = None
    TCPFlows = {t1, t2}
    UDPFlows = {u1}
    Conns = {c1, c2}
    MaxInFlight = 1
SPECIFICATION FairSpec
CHECK_DEADLOCK FALSE
INVARIANTS
    EndpointsClosedOnce
    OneLateDelivery
    OnlyYoungSurvive
PROPERTIES
    DispatchEnds
    RequestsComplete
