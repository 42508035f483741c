\* Two pods that serve their timers.
CONSTANTS
    Pods = {p1, p2}
    NoPod = NoPod
    LeaseDuration = 5
    RenewDeadline = 2
    RetryPeriod = 1
    ReplyDelay = 1
    MayStall = {}
    MaxTransitions = 2
SPECIFICATION Spec
SYMMETRY PodSymmetry
INVARIANTS TypeOK RenewingLeaderIsAlone FenceStaysCurrent TermsDiffer
PROPERTIES HandoverCounted ImplementsTerms
