\* Two clients of one document, two contents, fetches that may overlap.
CONSTANTS
    Clients = {c1, c2}
    Contents = {v1, v2}
    Fetches = {f1, f2}
    None = None
    TTL = 1
    StaleIfError = 1
    FetchBound = 1
    NegativeTTL = 1
    Cooldown = 1
    MaxChanges = 2
SYMMETRY Symmetry
SPECIFICATION Spec
INVARIANTS FreshIsRecent StaleIsBounded NobodyWaitsInVain
PROPERTIES NoRollback
