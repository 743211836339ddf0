CONSTANTS
    hc1 = hc1  hc2 = hc2
    d1 = d1  d2 = d2  d3 = d3  d4 = d4  d5 = d5  d6 = d6
    d7 = d7  d8 = d8  d9 = d9  d10 = d10  d11 = d11
    NULL = NULL  UNINIT = UNINIT
    HCs <- LegacyHCs
    HcList <- LegacyHcList
    HcType <- LegacyHcType
    RootPorts <- LegacyRootPorts
    PhysDevs <- LegacyDevs
    Kind <- LegacyKind
    HubPorts <- LegacyHubPorts
    Loc <- LegacyLoc
    LatePlug <- LegacyLatePlug
    NoSpeed = {}
    AllocFails = TRUE
    MaxPolls = 2
    TravSize = 127
SPECIFICATION Spec
CHECK_DEADLOCK FALSE
INVARIANTS
    TypeOK
    PortChainIsPath
PROPERTIES
    PollTerminates
