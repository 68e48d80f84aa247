\* Two callbacks at once.
SPECIFICATION Spec
CONSTANTS
    Messages = {m1, m2}
    Pids = {p1, p2}
    Threads = {t1, t2}
    Worker = worker
    MaxRetries = 2
    MaxCrashes = 1
    Overlapping = {"callback"}
    None = None
PROPERTIES ForwardOnly
\* A bounded number of texts: the system stops.
CHECK_DEADLOCK FALSE
