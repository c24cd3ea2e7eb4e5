SPECIFICATION Spec
CONSTANTS
    musl = musl
    glibc = glibc
    base = base
    bash = bash
    login = login
    ghost = ghost
    lib = lib
    rest = rest
    NoTarget = NoTarget
    Component = {musl, glibc, base, bash, login, ghost}
    Recipe = {musl, glibc, base, bash, login}
    Place = {lib, rest}
    InstallsTo <- Places
    Clears <- Replaced
    Edits <- Rewritten
    MaySkip = {bash}
    Graph <- Graphs
    Config <- Configs
    Checkout <- InitialCheckout
    MaxRuns = 2
INVARIANTS
    TypeOK
    DeliveredAreCoherent
    VerdictIsHonest
PROPERTIES
    OnlyWantedAreTouched
CHECK_DEADLOCK FALSE
