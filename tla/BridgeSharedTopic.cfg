SPECIFICATION Spec
CONSTANTS
    Reqs = {}
    Oneways = {}
    Managers = {m1, m2}
    Topics = {t1}
    NoManager = NoManager
    RspWildcards = RspWildcards
    Topic <- SharedTopic
    Owner <- NoOwner
    ConnectOutcomes = {"ok"}
    AllowStop = FALSE
    MaxStarts = 1
    MaxFlaps = 0
    MaxMsgs = 0
    MaxQueue = 3
INVARIANTS
    SubscriberKept
CHECK_DEADLOCK FALSE
