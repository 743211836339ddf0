CONSTANTS
    NumQH = 2
    NumTD = 8
    Timeout = 2
    MaxCalls = 26
    BulkMps = 64
    ControlMps = 8
    SectorSize = 512
    Outcomes = {"ack", "nak", "stall"}
    NULL = NULL
    TERM = TERM
    Requests <- MCRequests
SPECIFICATION StorageSpec
INVARIANTS
    StorageTypeOK
    ScheduledTdsOwned
    UhciChainStandard
PROPERTIES
    ProbeTerminates
CHECK_DEADLOCK FALSE
