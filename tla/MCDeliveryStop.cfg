\* A retry asked for after STOP.
SPECIFICATION Spec
CONSTANTS
    Messages = {m1, m2}
    Pids = {p1, p2}
    Threads = {t1}
    Worker = worker
    MaxRetries = 2
    MaxCrashes = 1
    Overlapping = {}
    None = None
PROPERTIES RetryHonoursStop
\* A bounded number of texts: the system stops.
CHECK_DEADLOCK FALSE
