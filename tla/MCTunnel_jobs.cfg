\* Two execs race for the one slot of a connection that is replaced or falls silent.
CONSTANTS
    Conns = {s1, s2}
    Tasks = {x1, x2}
    Hosts = {h1}
    None = None
    MAX_SOCKETS = 1
    MAX_INFLIGHT_PER_SOCKET = 1
    SEND_QUEUE = 1
    MAX_PREAUTH_HANDSHAKES = 1
    LinkFaults = {"silent"}
SPECIFICATION Spec
SYMMETRY MCSymmetry
INVARIANTS TypeOK SlotsExact Correlated PendingOwned
CHECK_DEADLOCK FALSE
