\* Both topologies; tasks of two pods overlap in any way.
CONSTANTS
    Pods = {p1, p2}
    NoPod = NoPod
    Topologies = {TRUE, FALSE}
    MaxTransitions = 3
    MaxTurns = 1
    MaxFaults = 0
SPECIFICATION Spec
SYMMETRY PodSymmetry
INVARIANTS RoutedToTheLeader
CHECK_DEADLOCK FALSE
