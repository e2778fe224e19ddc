\* Retries, repeats, misdelivery, timeouts and restarts on the way to a host and back.
CONSTANTS
    None = None
    Clients = {i1, i2}
    capacity = 3
    refill_per_sec = 3
    EvictAbove = 0
    MaxTime = 1
    allowed_prefixes <- MCPrefixes
    OtherPaths <- MCPaths
    KeyPersisted = FALSE
    MaxKeys = 2
    Hosts = {h1, h2}
    Calls = {c1, c2}
    Repeats = {r1}
    MaxHostKeys = 2
SPECIFICATION Spec
SYMMETRY MCSymmetry
CONSTRAINT RepeatsOfRetries
INVARIANTS TypeOK AnswerIsOwn ServedOnce Allowance SentAsChecked GatewayCanAnswer
CHECK_DEADLOCK FALSE
