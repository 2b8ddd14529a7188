SPECIFICATION Spec
CONSTANTS
    Reqs = {r1, r2}
    Oneways = {o1}
    Managers = {}
    Topics = {}
    NoManager = NoManager
    RspWildcards = RspWildcards
    Topic <- OwnTopic
    Owner <- NoOwner
    ConnectOutcomes = {"ok"}
    AllowStop = TRUE
    MaxStarts = 2
    MaxFlaps = 1
    MaxMsgs = 1
    MaxQueue = 2
SYMMETRY ReqSymmetry
INVARIANTS
    TypeOK
    OnewayCustody
    OneCustodian
    InFlightIsTimed
    StopLeavesNothing
    OnlyOurReplies
PROPERTIES
    ImplementsContract
CHECK_DEADLOCK FALSE
