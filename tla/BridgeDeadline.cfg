SPECIFICATION BrokerDownSpec
CONSTANTS
    Reqs = {r1}
    Oneways = {}
    Managers = {}
    Topics = {}
    NoManager = NoManager
    RspWildcards = RspWildcards
    Topic <- OwnTopic
    Owner <- NoOwner
    ConnectOutcomes = {"ok"}
    AllowStop = FALSE
    MaxStarts = 1
    MaxFlaps = 1
    MaxMsgs = 0
    MaxQueue = 3
PROPERTIES
    DeadlineHonoured
CHECK_DEADLOCK FALSE
