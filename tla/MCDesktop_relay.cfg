\* The relay is changed while auto_connect is fetching the bootstrap of the old one.
CONSTANTS
    None = None
    Torn = Torn
    User = User
    Cmds = {c1, c2}
    Kinds = {"set_settings", "auto_connect"}
    Relays = {r1, r2}
    DefaultRelay = r1
    Bases = {""}
    TunnelOffered = {FALSE}
    Anchored = TRUE
    Accts = {a1}
    Passes = {p1, p2}
    Tokens = {}
    MaxHosts = 0
    MaxSpawns = 0
    Leftover = {None}
    MaxLaunches = 0
SPECIFICATION Spec
INVARIANT TrustFollowsRelay
CHECK_DEADLOCK FALSE
