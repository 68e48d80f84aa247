\* Two administrators change memberships at once.
SPECIFICATION MembersSpec
CONSTANTS
    Accounts = {u1, u2}
    Departments = {kitchen}
    AdminDesks = {f1, f2}
    None = None
INVARIANTS Administered
CHECK_DEADLOCK FALSE
