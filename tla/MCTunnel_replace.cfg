\* Connections of two hosts replace each other under the socket cap, break and
\* fall silent, with an exec in flight.
CONSTANTS
    Conns = {s1, s2}
    Tasks = {x1}
    Hosts = {h1, h2}
    None = None
    MAX_SOCKETS = 1
    MAX_INFLIGHT_PER_SOCKET = 1
    SEND_QUEUE = 1
    MAX_PREAUTH_HANDSHAKES = 1
    LinkFaults = {"silent"}
SPECIFICATION FairSpec
INVARIANT DirectoryCurrent
PROPERTY DispatchEnds
CHECK_DEADLOCK FALSE
