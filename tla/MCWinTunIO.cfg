\* Two readers (one of them with ReadPacket), two writers, two closers.
CONSTANTS
    r1 = r1
    r2 = r2
    w1 = w1
    w2 = w2
    c1 = c1
    c2 = c2
    Readers = {r1, r2}
    Lenders = {r2}
    Writers = {w1, w2}
    Closers = {c1, c2}
    MaxPackets = 1
    TxCap = 1
SPECIFICATION FairSpec
INVARIANTS
    SessionCallsSafe
    CloseMeansClosed
    NothingInFlightAtEnd
PROPERTIES
    ImplementsTunDevice
    CloseReturns
