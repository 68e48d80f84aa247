\* Any request at any time, five minutes from midnight included.
SPECIFICATION HouseSpec
CONSTANTS
    Assignments = {a1, a2}
    Orderly = FALSE
    None = None
INVARIANTS OneOpenPerDay
