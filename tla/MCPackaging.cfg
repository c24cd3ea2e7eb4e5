SPECIFICATION FairSpec
CONSTANTS
    nano = nano
    claw = claw
    yap = yap
    bash = bash
    bin = bin
    help = help
    Component = {nano, claw, yap, bash}
    Configs <- Configurations
    Port = {nano}
    Cleared = {claw}
    Picks <- Picking
    Pinned <- Pinning
    File = {bin, help}
    FilesOf <- Files
    None = None
    MaxVersion = 2
    MaxStops = 1
INVARIANTS
    TypeOK
    ClearedAreExact
PROPERTIES
    PackagedReachesCore
    PackagesAreComplete
    HealthyIsPackaged
