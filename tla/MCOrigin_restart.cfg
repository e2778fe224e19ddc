\* A request repeated after a restart.
CONSTANTS
    None = None
    Accounts = {a1}
    Hosts = {}
    Tokens = {t1}
    U64Max = 100
    Days = {1}
    Faulty = {}
    IssueTasks = {i1, i2}
    ReqIds = {r1}
    Batches = {{t1}}
    GrantAmounts = {1}
    MaxGranted = 2
    RedeemExposed = FALSE
    ExecTasks = {}
    trial_grant = 1
    daily_trial_budget = 0
    MaxCrashes = 1
SPECIFICATION Spec
INVARIANT ReplayNeverRedebits
CHECK_DEADLOCK FALSE
