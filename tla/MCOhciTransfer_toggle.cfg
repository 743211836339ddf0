\* Bulk transfers of the storage driver over OHCI: between transfers the
\* saved endp->toggle should be the device's.
CONSTANTS
    NumEds = 2
    NumTD = 6
    Timeout = 3
    MaxCalls = 3
    Outcomes = {"ack", "stall"}
    UninitNext = {NULL, GARBAGE}
    NULL = NULL
    GARBAGE = GARBAGE
    Requests <- MCRequests
SPECIFICATION Spec
INVARIANTS
    ToggleInSync
CHECK_DEADLOCK FALSE
