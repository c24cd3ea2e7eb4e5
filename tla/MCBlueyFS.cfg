SPECIFICATION FairReaderSpec
CONSTANTS
    BlockSize = 6
    Header = 2
    NDirect = 1
    PointersPerBlock = 2
    InodesPerBlock = 2
    InodesPerGroup = 4
    BlocksPerGroup = 8
    RootIno = 2
    Images <- AllImages
    Dots = {".", ".."}
    Separated = {"a/b"}
    Error = Error
INVARIANTS
    ExtractedIsExact
    CursorAtRecord
PROPERTIES
    Terminates
