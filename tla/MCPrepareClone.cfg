SPECIFICATION FairSpec
CONSTANTS
    biscuits = biscuits
    musl = musl
    extra = extra
    Tracked <- TrackedRepos
    Extra <- ExtraRepos
    Kernel = biscuits
    Nested = musl
    MaxCommit = 1
    MaxCrashes = 0
    HeadReadsFail = FALSE
    NoHash = NoHash
    Foreign = Foreign
PROPERTY
    EveryRepoIsCloned
