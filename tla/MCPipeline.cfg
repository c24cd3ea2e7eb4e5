SPECIFICATION FairSpec
CONSTANTS
    None = None
    Torn = Torn
    Used = Used
    Mixed = Mixed
    Configs <- SomeConfigs
    MaxRev = 2
    MaxBreaks = 1
PROPERTIES
    AllIsCurrent
    NoImageOfFailedBuild
    BootedWasRebuilt
    EventuallyCurrent
