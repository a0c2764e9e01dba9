SPECIFICATION Spec
CONSTANTS
    t1 = t1
    t2 = t2
    owner = owner
    Timers = {t1, t2}
    Owners = {owner}
    Templates <- MCTemplates
    NoRef = NoRef
    MinTimerDuration = 1
    MaxTimerDelay = 2
    Period = 2
    MissedWithin = 1
    DeliveryRetryDelay = 1
    DeliveryRetryWindow = 2
    DeliveryAnswerWindow = 1
    StorageRetryDelay = 1
    HistoryRetention = 1
    MaxPendingTimersPerOwner = 1
    MaxPendingTimers = 1
    MaxTime = 3
    MaxChanges = 2
    MaxFaults = 2
VIEW View
CHECK_DEADLOCK FALSE
INVARIANT
    CountsUnique
