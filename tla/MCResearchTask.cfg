SPECIFICATION MCLiveSpec
CONSTANTS
    t1 = t1
    t2 = t2
    r1 = r1
    r2 = r2
    NoTask = NoTask
    Task = {t1, t2}
    Reconciler = {r1, r2}
    OwnerOf <- TwoOwners
    Sandboxes = {t2}
    MaxAttempts = 2
    Limit = 1
    MaxStep = 1
    MaxAborts = 1
    Happens = {"lapse", "deadline", "revoke", "cancel", "pause", "overrun", "vanish"}
INVARIANTS
    TaskInv
    SettledIsStopped
    ProcessesBounded
    SentOnce
PROPERTIES
    StoppingSettles
CHECK_DEADLOCK FALSE
