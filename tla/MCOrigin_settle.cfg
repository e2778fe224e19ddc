\* Settlement: two racing execs over two tokens and two hosts, the legacy redeem
\* endpoint, receipts and trials, a u64::MAX that is reached, one restart.
CONSTANTS
    None = None
    Accounts = {h1, h2}
    Hosts = {h1, h2}
    Tokens = {t1, t2}
    U64Max = 5
    Days = {1, 2}
    Faulty = {"spend"}
    IssueTasks = {i1}
    ReqIds = {r1}
    Batches = {{t1, t2}}
    GrantAmounts = {2}
    MaxGranted = 2
    RedeemExposed = TRUE
    ExecTasks = {x1, x2}
    trial_grant = 2
    daily_trial_budget = 3
    MaxCrashes = 1
SPECIFICATION Spec
SYMMETRY MCSymmetry
INVARIANTS TypeOK EarnedAccounted TrialAccounted ValueBacked NoFalseTrip ForwardedOnce RedeemedCounted ReceiptsMatchSpends
PROPERTY NothingForgotten
CHECK_DEADLOCK FALSE
