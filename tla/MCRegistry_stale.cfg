\* A host that stops, with nobody calling evict_stale.
CONSTANTS
    Hosts = {h1}
    Desktops = {}
    heartbeat_interval_s = 1
    admission_m = 1
    host_interval_s = 1
    U32Max = 2
    SweepScheduled = FALSE
    MaxNow = 5
SPECIFICATION FairSpec
PROPERTY StaleDemoted
CHECK_DEADLOCK FALSE
