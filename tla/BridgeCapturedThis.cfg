SPECIFICATION Spec
CONSTANTS
    Reqs = {r1}
    Oneways = {}
    Managers = {m1}
    Topics = {t1}
    NoManager = NoManager
    RspWildcards = RspWildcards
    Topic <- OwnTopic
    Owner <- AllOwned
    ConnectOutcomes = {"ok"}
    AllowStop = FALSE
    MaxStarts = 1
    MaxFlaps = 0
    MaxMsgs = 0
    MaxQueue = 3
INVARIANTS
    DrainFence
CHECK_DEADLOCK FALSE
