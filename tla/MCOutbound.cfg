\* The outbound interface and the tunnel share two indexes; two binds on each object.  Three processes,
\* two of them of one user, with two sockets, and two events during a lookup.
SPECIFICATION MCSpec
CONSTANTS
    Platforms = {"windows", "linux", "darwin"}
    Names = {"eth", "tun"}
    Tunnel = "tun"
    Indexes = {1, 2}
    Protocols = {"udp", "ip"}
    MaxHooks = 2
    Pids = {1, 2, 3}
    MaxSockets = 2
    MaxEvents = 2
INVARIANTS
    LastBindWins
    NoLoop
    RightProcess
PROPERTY CallerHookRuns
CHECK_DEADLOCK FALSE
