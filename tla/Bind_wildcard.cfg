SPECIFICATION Spec
CONSTANTS
    Platforms = {"windows"}
    Names = {"eth", "tun"}
    Tunnel = "tun"
    Indexes = {1, 2}
    Protocols = {"udp"}
    MaxHooks = 2
INVARIANT WildcardListens
