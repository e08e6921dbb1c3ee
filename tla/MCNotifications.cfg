SPECIFICATION NotifySpec
CONSTANTS
    w1 = w1
    w2 = w2
    k1 = k1
    k2 = k2
    k3 = k3
    email = email
    inApp = inApp
    Null = Null
    Default = email
    Workers <- const_Workers
    EventKeys <- const_Keys
    Channels <- const_Channels
    Templates <- const_Channels
    Choices <- const_Choices
    DailyLimit = 1
    UrgentLimit = 2
    Days = 2
    MaxCalls = 3
INVARIANTS
    NotifyTypeOK
    CapBound
    StatusFollowsLog
PROPERTIES
    QueuedOnce
    SilenceKept
