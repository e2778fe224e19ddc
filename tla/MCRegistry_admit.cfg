\* Slow admission, re-registration, and a sweep that may run at any time.
CONSTANTS
    Hosts = {h1}
    Desktops = {h1}
    heartbeat_interval_s = 1
    admission_m = 2
    host_interval_s = 1
    U32Max = 2
    SweepScheduled = TRUE
    MaxNow = 6
SPECIFICATION Spec
INVARIANTS TypeOK SlowAdmission AcceptedInOrder
PROPERTY Lifecycle
CHECK_DEADLOCK FALSE
