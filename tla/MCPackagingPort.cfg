SPECIFICATION Spec
CONSTANTS
    nano = nano
    claw = claw
    yap = yap
    bash = bash
    bin = bin
    help = help
    Component = {nano, claw, yap, bash}
    Configs <- PortOnly
    Port = {nano}
    Cleared = {claw}
    Picks <- Picking
    Pinned <- Pinning
    File = {bin, help}
    FilesOf <- Files
    None = None
    MaxVersion = 2
    MaxStops = 0
PROPERTIES
    AllReachCore
