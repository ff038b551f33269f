\* Two clients, two notifications at a time, two callbacks with two goroutines each;
\* calls with up to two entries.
CONSTANTS
    t1 = t1
    t2 = t2
    n1 = n1
    n2 = n2
    s1 = s1
    s2 = s2
    NoOne = NoOne
    Clients = {t1, t2}
    Notifiers = {n1, n2}
    Callbacks = {s1, s2}
    MaxInFlight = 2
    Own = Own
    Other = Other
    Entries <- MCEntries
    MaxList = 2
SPECIFICATION MCSpec
INVARIANTS
    QuietAfterUnregister
    RegisteredIsSubscribed
    SetMeansSet
PROPERTIES
    UnregisterReturns
    OthersUntouched
