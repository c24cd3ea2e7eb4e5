SPECIFICATION FairSpec
CONSTANTS
    claw = claw
    matey = matey
    walkies = walkies
    scout = scout
    tty = tty
    multiuser = multiuser
    network = network
    dhcp = dhcp
    Recipe = {claw, matey, walkies, scout}
    Claw = claw
    Unit = {tty, multiuser, network, dhcp}
    Manifest = Manifest
    Units <- PayloadUnits
    Registers = {matey, walkies}
    Scattered = {walkies}
    Stock <- StockLines
    Absent = Absent
    MaxStops = 2
INVARIANTS
    TypeOK
    InstalledAreRegistered
    NoDuplicates
PROPERTIES
    ClawRepairs
    UnitsGetRegistered
