SPECIFICATION BrokerDownSpec
CONSTANTS
    Reqs = {r1}
    Oneways = {}
    Managers = {m1}
    Topics = {t1}
    NoManager = NoManager
    RspWildcards = RspWildcards
    Topic <- OwnTopic
    Owner <- NoOwner
    ConnectOutcomes = {"ok"}
    AllowStop = TRUE
    MaxStarts = 1
    MaxFlaps = 1
    MaxMsgs = 1
    MaxQueue = 2
PROPERTIES
    EveryCallEnds
    SettlesOperational
    DrainReturns
    StopReturns
CHECK_DEADLOCK FALSE
