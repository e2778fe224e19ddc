\* Issuance: three racing or repeated requests, storage errors, one restart.
CONSTANTS
    None = None
    Accounts = {a1}
    Hosts = {}
    Tokens = {t1, t2}
    U64Max = 100
    Days = {1}
    Faulty = {"debit", "grant", "spend", "bump"}
    IssueTasks = {i1, i2, i3}
    ReqIds = {r1}
    Batches = {{t1}, {t1, t2}}
    GrantAmounts = {2}
    MaxGranted = 4
    RedeemExposed = FALSE
    ExecTasks = {}
    trial_grant = 1
    daily_trial_budget = 1
    MaxCrashes = 1
SPECIFICATION FairSpec
INVARIANTS CreditsConserved ReservationOwned DebitedOnce
PROPERTY ReservationsEnd
CHECK_DEADLOCK FALSE
