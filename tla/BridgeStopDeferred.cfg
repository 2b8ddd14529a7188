SPECIFICATION FairSpec
CONSTANTS
    Reqs = {r1}
    Oneways = {}
    Managers = {}
    Topics = {}
    NoManager = NoManager
    RspWildcards = RspWildcards
    Topic <- OwnTopic
    Owner <- NoOwner
    ConnectOutcomes = {"ok"}
    AllowStop = TRUE
    MaxStarts = 1
    MaxFlaps = 0
    MaxMsgs = 0
    MaxQueue = 3
PROPERTIES
    DeferredCallEnds
CHECK_DEADLOCK FALSE
