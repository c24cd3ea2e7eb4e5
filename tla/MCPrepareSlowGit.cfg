SPECIFICATION Spec
CONSTANTS
    biscuits = biscuits
    musl = musl
    extra = extra
    Tracked <- TrackedRepos
    Extra <- ExtraRepos
    Kernel = biscuits
    Nested = musl
    MaxCommit = 1
    MaxCrashes = 0
    HeadReadsFail = TRUE
    NoHash = NoHash
    Foreign = Foreign
INVARIANT
    RecordedWasReported
