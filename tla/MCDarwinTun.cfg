SPECIFICATION Spec
CONSTANTS
    Instances = {p, q}
    Units = {0, 1}
    Bad <- BadNames
INVARIANTS
    TouchesOwnOnly
    NothingLeft
    UpTakesAllTraffic
