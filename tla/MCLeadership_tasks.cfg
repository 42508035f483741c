\* Object storage; tasks of successive terms overlap, requests fail.
CONSTANTS
    Pods = {p1}
    NoPod = NoPod
    Topologies = {TRUE}
    MaxTransitions = 2
    MaxTurns = 2
    MaxFaults = 1
SPECIFICATION FairSpec
INVARIANTS JobsRunOnPromotedData
PROPERTIES LeaderGetsToWork
CHECK_DEADLOCK FALSE
