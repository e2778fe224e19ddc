\* A host that stops reading, and more jobs than the queue holds.
CONSTANTS
    Conns = {s1}
    Tasks = {x1, x2, x3}
    Hosts = {h1}
    None = None
    MAX_SOCKETS = 1
    MAX_INFLIGHT_PER_SOCKET = 1
    SEND_QUEUE = 1
    MAX_PREAUTH_HANDSHAKES = 1
    LinkFaults = {"stalled"}
SPECIFICATION FairSpec
PROPERTY DispatchEnds
CHECK_DEADLOCK FALSE
