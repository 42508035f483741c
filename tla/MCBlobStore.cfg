\* One repository with two paths, failovers with sweeps that outlive them, a
\* conflict plan, a sweep between two ticks.
CONSTANTS
    Blobs = {b1, b2}
    Repos = {r1}
    Paths = {x, y}
    Requests = {q1}
    None = None
    Grace = 2
    MaxLag = 1
    PlanLife = 1
    MaxSweep = 0
    SweepBatch = 2
    MaxLeak = 0
SPECIFICATION Spec
SYMMETRY Symmetry
INVARIANTS  RowsCoverArtifacts StagedBytesKept
PROPERTIES BytesOutliveRollback
