\* One process that is restarted with any options.
CONSTANTS
    a = a
    Instances = {a}
    Options <- AllOptions
    RuleIndex = 10086
    MainPriority = 32766
    MaxLeaked = 2
SPECIFICATION Spec
INVARIANTS
    TrafficGoesRight
    CloseLeavesNothing
PROPERTIES
    DeletesItsOwn
