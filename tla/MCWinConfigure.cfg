\* All options, two interface indexes, up to two failed calls of New.
CONSTANTS
    Options <- AllOptions
    Indexes = {7, 8}
    MaxAbandoned = 2
SPECIFICATION Spec
INVARIANTS
    SelfNeverBlocked
    TunnelOnly
    FiltersEnd
