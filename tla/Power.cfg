SPECIFICATION FairSpec
CONSTANTS
    loc = loc
    rem = rem
    Machines = {loc, rem}
    Local = loc
    All = All
    Asks <- MCAsks
    MaxReqs = 3
    MaxQueue = 1
    MaxControls = 1
CHECK_DEADLOCK FALSE
INVARIANTS
    TypeOK
    RoundIsHead
    RoundIsTimed
    RequestAccounted
    NoIdleRound
PROPERTIES
    EveryRequestAnswered
