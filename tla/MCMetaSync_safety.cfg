\* Pods elected while others still act as leaders, and pods that are not.
CONSTANTS
    p1 = p1
    p2 = p2
    Pods = {p1, p2}
    Handover = "stalled"
    TokenMayFail = FALSE
    CleanupMayLag = FALSE
    ContentETags = FALSE
    Polling = TRUE
    MaxTerms = 2
    MaxCrashes = 1
    MaxWrites = 1
    MaxGenerations = 2
SYMMETRY Symmetry
SPECIFICATION Spec
INVARIANTS TypeOK
PROPERTIES FenceNeverGoesBack TakesOverEverything DurableStaysDurable
