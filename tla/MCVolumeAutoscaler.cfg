\* A volume of 2 GiB that can grow twice, two faults, two steps of the operator.
CONSTANTS
    Steps <- DefaultSteps
    SelectMin = FALSE
    InitialSize = 2
    MaxSize = 4
    Threshold = 80
    Cooldown = 1
    MaxFaults = 2
    MaxEdits = 2
SPECIFICATION FairSpec
INVARIANTS NeverOvergrown
PROPERTIES ModificationsSpaced ForeignCordonKept CordonFollowsUsage GrowsWhenFull
