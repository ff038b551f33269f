\* Two goroutines with two packets each, as many arrays as both need at once; two chunks each way.
SPECIFICATION MCSpec
CONSTANTS
    Goroutines = {g, h}
    Arrays = {a1, a2, a3, a4}
    Kinds = {"syscall", "buffered"}
    Parts = 1
    MaxCalls = 2
    MaxSent = 2
    Longer = {1}
    MaxQueue = 2
INVARIANTS
    PacketsWhole
    NothingKept
    NothingMixedUp
PROPERTIES
    CallsReturn
    HandlerEnds
CHECK_DEADLOCK FALSE
