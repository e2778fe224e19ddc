\* Hosting starts, fails, stops and is quit while settings change and chats run.
CONSTANTS
    None = None
    Torn = Torn
    User = User
    Cmds = {c1, c2}
    Kinds = {"set_settings", "auto_connect", "grant_consent", "create_account", "acquire", "host_start", "host_stop", "user"}
    Relays = {r1, r2}
    DefaultRelay = r1
    Bases = {""}
    TunnelOffered = {TRUE}
    Anchored = TRUE
    Accts = {a1}
    Passes = {p1, p2}
    Tokens = {}
    MaxHosts = 0
    MaxSpawns = 2
    Leftover = {None, p1, p2}
    MaxLaunches = 1
SPECIFICATION Spec
SYMMETRY MCSymmetry
INVARIANTS TrustMatchesRelay  LatchSuffices ChildOwned ExitAtRestReaps
CHECK_DEADLOCK FALSE
