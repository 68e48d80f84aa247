\* texts: one message, three calls of the provider, retry pressed twice at once, one crash.
\* desk: one conversation, two agents, one department, four hours.
\* links: three assets, two codes, two requests at a time, two draws each.
\* forms: two fields of two types and two labels, one post; a text too long, a number too large.
\* feed: three entries at two instants, pages of one.
\* alerts: two members of one first name, one department, two notifications.
\* signin: one cookie, two requests at a time, sessions of two ticks in three.
SPECIFICATION FrontSpec
CONSTANTS
    None = None
    Messages = {m1}
    Pids = {p1, p2, p3}
    Threads = {t1, t2}
    Worker = worker
    MaxRetries = 2
    MaxCrashes = 1
    Overlapping = {"retry"}
    Agents = {u1, u2}
    Branches = {d1}
    Silence = 1
    Closing = 4
    Assets = {s1, s2, s3}
    Codes = {o1, o2}
    Urls = {v1, v2}
    Makers = {q1, q2}
    MaxDraws = 2
    Boxes = {b1, b2}
    Labels = {l1, l2}
    FormTypes = {"short_text", "percent"}
    Words = {long}
    Lengthy = {long}
    Numbers = {250, 101000}
    Notes <- MCNotes
    Reports = {r1}
    Limit = 100000
    Shelf = 1000
    Notices = {1, 2, 3}
    PageSize = 1
    LastStamp = 1
    Employees = {u1, u2}
    Wards = {d1}
    FrontDesks = {d1}
    Linen = {d1}
    FirstName <- MCFirstName
    MaxCalls = 2
    Tokens = {k1}
    Calls = {c1, c2}
    Lifetime = 2
    Gap = 1
    Attempts = 2
    Window = 1
    LastTick = 3
INVARIANTS FrontTypeOK NeverStranded TextedOnce
INVARIANTS PostsReadBack SeenOnce LinkOpensOne ListedOnce AlertsLand DoorKept
PROPERTY SendingsSettle
\* Parts stop where a bound is reached.
CHECK_DEADLOCK FALSE
