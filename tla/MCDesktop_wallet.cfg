\* Account commands, acquires and chats cross, and the app dies.
CONSTANTS
    None = None
    Torn = Torn
    User = User
    Cmds = {c1, c2}
    Kinds = {"set_settings", "create_account", "import_account", "unlock", "lock", "acquire", "send", "die"}
    Relays = {r1}
    DefaultRelay = r1
    Bases = {""}
    TunnelOffered = {TRUE}
    Anchored = FALSE
    Accts = {a1}
    Passes = {p1, p2}
    Tokens = {t1, t2}
    MaxHosts = 2
    MaxSpawns = 0
    Leftover = {None}
    MaxLaunches = 1
SPECIFICATION Spec
SYMMETRY MCSymmetry
INVARIANTS TypeOK StoreAgrees TokensKept SpentForgotten 
CHECK_DEADLOCK FALSE
