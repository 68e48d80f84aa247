\* Three units, two of which leave the scope (retired, or the template is edited) after passing.
SPECIFICATION SweepSpec
CONSTANTS
    Units = {u1, u2, u3}
    Spans = {1}
    LastMonth = 1
    NoRead = NoRead
INVARIANTS PercentAtMost100
