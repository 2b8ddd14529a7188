SPECIFICATION FairSpec
CONSTANTS
    NgDevice = FALSE
    Kinds <- MCKinds
    Tables <- MCTables
    Controls <- MCControls
    MaxCalls = 2
    MaxControls = 1
    MaxQueue = 2
INVARIANTS
    TypeOK
    LiveCallIsOwned
    EndIsFinal
    WaitIsTimed
    MsdIsResolved
PROPERTIES
    WaitEnds
CHECK_DEADLOCK FALSE
