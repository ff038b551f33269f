\* Two processes with the same options.
CONSTANTS
    a = a
    b = b
    Instances = {a, b}
    Options <- IPv4Only
    RuleIndex = 10086
    MainPriority = 32766
    MaxLeaked = 0
SPECIFICATION Spec
SYMMETRY Symmetry
INVARIANTS
    ExclusiveTable
