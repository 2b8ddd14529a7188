SPECIFICATION Spec
CONSTANTS
    Reqs = {}
    Oneways = {}
    Managers = {m1, m2}
    Topics = {t1, t2}
    NoManager = NoManager
    RspWildcards = RspWildcards
    Topic <- OwnTopic
    Owner <- NoOwner
    ConnectOutcomes = {"ok", "fail"}
    AllowStop = TRUE
    MaxStarts = 1
    MaxFlaps = 1
    MaxMsgs = 0
    MaxQueue = 3
INVARIANTS
    WireCoversMap
    ObserversInformed
    SubscriberKept
    DrainFence
CHECK_DEADLOCK FALSE
