\* Two node groups, two minor upgrades, three generations of the resource and one error.
CONSTANTS
    Specs <- MCSpecs
    NodeGroups = {a, b}
    MaxVersion = 2
    MaxGeneration = 3
    MaxErrors = 1
    None = None
SPECIFICATION FairUpgradeSpec
CHECK_DEADLOCK FALSE
INVARIANTS NodesNeverAhead
PROPERTIES CompletedMeansUpgraded NoSecondRollback EndsUnlessLost
