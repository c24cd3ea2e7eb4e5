SPECIFICATION Spec
CONSTANTS
    Top = {lib, usr}
    Child = {libc, libm}
    Owner = {base}
    Torn = Torn
    None = None
    Payloads <- AllPayloads
    MaxStops = 1
SYMMETRY Symmetry
INVARIANTS
    TypeOK
    MergeIsOverlay
PROPERTIES
    UnrelatedSurvive
