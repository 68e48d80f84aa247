\* One worker, as deployed: two processes' worth of faults, retries and slow handlers.
SPECIFICATION FairSpec
CONSTANTS
    Workers = {w1}
    Rows = {1, 2, 4, 5}
    Types = {"sweep", "send"}
    Recurring = {"sweep"}
    RowType <- MCRowType
    Interval <- MCInterval
    MaxAttempts <- MCMaxAttempts
    Backoff <- MCBackoff
    Delays = {0, 1}
    Stale = 1
    ClaimLimit = 3
    SingleWriter = FALSE
    InTime = FALSE
    MaxFaults = 2
    None = None
INVARIANTS ChainAlive ChainIsSingle
PROPERTIES JobsKept SweepsForever
