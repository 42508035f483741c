\* One leader after the other, with a bucket that answers in the end.
CONSTANTS
    p1 = p1
    p2 = p2
    Pods = {p1, p2}
    Handover = "orderly"
    TokenMayFail = FALSE
    CleanupMayLag = FALSE
    ContentETags = FALSE
    Polling = FALSE
    MaxTerms = 2
    MaxCrashes = 0
    MaxWrites = 1
    MaxGenerations = 2
SPECIFICATION FairSpec
PROPERTIES LeaderShips
