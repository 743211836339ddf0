\* The OHCI engine's pools, lists and controller: what the controller can
\* still run belongs to one transfer, every pending ED is on its list, and
\* a successful transfer gives all its TDs back.
CONSTANTS
    NumEds = 2
    NumTD = 6
    Timeout = 3
    MaxCalls = 3
    Outcomes = {"ack", "stall"}
    UninitNext = {NULL, GARBAGE}
    NULL = NULL
    GARBAGE = GARBAGE
    Requests <- MCRequests
SPECIFICATION Spec
INVARIANTS
    TypeOK
    ScheduledTdsOwned
    LiveEdsReachable
    SuccessFreesTransfer
CHECK_DEADLOCK FALSE
