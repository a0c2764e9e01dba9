CONSTANTS
    m1 = m1
    m2 = m2
    m3 = m3
    m4 = m4
    k1 = k1
    thread = thread
    Messages = {m1, m2, m3, m4}
    Keys = {k1}
    ThreadOf <- MCThreadOf
    Starters = {m1, m2}
    MessageScript <- MCMessageScript
    FireScript <- MCFireScript
    InternalScript <- MCInternalScript
    TimerDelay = 1
    MoveDelay = 2
    MinTimerDuration = 1
    MaxReplayAttempts = 1
    MaxTime = 2
    MaxFaults = 2
SPECIFICATION Spec
INVARIANTS
    TypeOK
    NothingLost
    AppliedOnce
    TimerOnce
    TimersBacked
    OneConversation
    RunsBounded
PROPERTIES
    NeverEarly
CHECK_DEADLOCK FALSE
