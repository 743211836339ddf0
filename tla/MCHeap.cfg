\* The heap under the boot's calls: alignment as asked, no byte or header
\* shared, every held block releasable.
CONSTANTS
    HeapStart = 1024
    MaxCalls = 5
    First <- MCFirst
    Requests <- MCRequests
SPECIFICATION Spec
INVARIANTS
    AlignedAsRequested
    OwnersExclusive
    LiveBlocksReleasable
CHECK_DEADLOCK FALSE
