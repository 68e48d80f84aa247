\* One transaction after another: a request thread and the worker take turns.
SPECIFICATION InboxSpec
CONSTANTS
    InboxThreads = {t1}
    Worker = worker
    SLA = 1
    Quiet = 2
    Naps = {1, 2}
    MaxTime = 7
    Overlap = {}
    None = None
INVARIANTS IgnoredStaysInQueue
CHECK_DEADLOCK FALSE
