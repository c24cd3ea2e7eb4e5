SPECIFICATION FairSpec
CONSTANTS
    biscuits = biscuits
    musl = musl
    extra = extra
    Tracked <- TrackedRepos
    Extra <- ExtraRepos
    Kernel = biscuits
    Nested = musl
    MaxCommit = 1
    MaxCrashes = 1
    HeadReadsFail = FALSE
    NoHash = NoHash
    Foreign = Foreign
INVARIANTS
    TypeOK
    RecordedWasReported
    CheckedOutIsReported
PROPERTIES
    NoSpuriousReport
    UpstreamIsReported
