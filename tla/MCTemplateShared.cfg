\* A template shared with a department, which is then deleted.
SPECIFICATION LogSpec
CONSTANTS
    Accounts = {u1, u2}
    Departments = {kitchen}
    AdminDesks = {f1}
    Posts = {p1}
    None = None
INVARIANTS SharedAsAsked
CHECK_DEADLOCK FALSE
