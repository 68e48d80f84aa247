\* Two items, a checklist under way, and a patch of its template.
SPECIFICATION CkSpec
CONSTANTS
    Items = {c1, c2}
    Readings = {c1}
    Plans <- MCPlans
    Extra = {extra}
    Clerks = {clerk}
    Beside = {}
    LastHour = 2
    None = None
PROPERTIES EditsSpareStarted
\* The bounded clock stops.
CHECK_DEADLOCK FALSE
