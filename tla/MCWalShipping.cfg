\* Every interleaving of commits, checkpoints, restarts and failing uploads, with
\* rotations that are due while frames are unread and a queue at its bound.
CONSTANTS
    SegmentFrames = 1
    MaxSegments = 1
    MaxPending = 1
    MaxRounds = 2
    TruncateMayFail = FALSE
    MaxFrames = 3
    MaxGenerations = 8
SPECIFICATION FairSpec
INVARIANTS NoHiddenGap WholeCycleIsDurable
PROPERTIES ImplementsLog EverythingIsShipped
