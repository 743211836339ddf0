\* The EHCI engine's pools, schedule and controller: what the controller can
\* still run belongs to one transfer, every QH with work is on the schedule,
\* and a successful transfer ran and gave back all its qTDs.
CONSTANTS
    NumQhs = 3
    NumQtd = 6
    Timeout = 3
    MaxCalls = 3
    Outcomes = {"ack", "stall", "xacterr"}
    UninitChars = {0, GARBAGE}
    UninitUsed = {FALSE, TRUE}
    NULL = NULL
    TERM = TERM
    GARBAGE = GARBAGE
    Requests <- MCRequests
SPECIFICATION Spec
INVARIANTS
    TypeOK
    ScheduledQtdsOwned
    LiveQhsReachable
    SuccessCompletes
CHECK_DEADLOCK FALSE
