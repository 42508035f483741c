\* One upgrade with Karpenter node pools, without errors.
CONSTANTS
    Specs <- MCKarpenter
    NodeGroups = {a}
    MaxVersion = 1
    MaxGeneration = 2
    MaxErrors = 0
    None = None
SPECIFICATION FairUpgradeSpec
CHECK_DEADLOCK FALSE
PROPERTIES UpgradeEnds
