SPECIFICATION Spec
CONSTANTS
    Profiles = {p1, p2}
    Ours = {p1}
    Ifnames = {n1}
    NoIfname = NoIfname
    Wanted = {NoIfname}
    MaxCalls = 3
    MaxFaults = 1
    MaxQueue = 2
CHECK_DEADLOCK FALSE
INVARIANT ErasedWhenFinished
