\* bl_ehci_transfer_status decodes the whole status byte, HALTED included:
\* a halted transfer's error class is never the one its error bit names.
CONSTANTS
    NumQhs = 3
    NumQtd = 6
    Timeout = 3
    MaxCalls = 3
    Outcomes = {"ack", "xacterr", "babble"}
    UninitChars = {0}
    UninitUsed = {FALSE}
    NULL = NULL
    TERM = TERM
    GARBAGE = GARBAGE
    Requests <- MCRequests
SPECIFICATION Spec
INVARIANT
    ErrorsDecoded
CHECK_DEADLOCK FALSE
