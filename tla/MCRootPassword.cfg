SPECIFICATION Spec
CONSTANTS
    daemon = daemon
    nobody = nobody
    Root = root
    Nobody = Nobody
    Cut = Cut
    Absent = Absent
    Others <- Users
    MaxRuns = 2
    MaxStops = 2
INVARIANTS
    TypeOK
    OthersSurvive
    BashStaysRootShell
PROPERTIES
    PasswdSetsRoot
