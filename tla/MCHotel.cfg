\* jobs: two workers on SQLite, whose handlers end in time and whose processes stay up; one
\*   row a tick: both may still have read the same one, and row numbers suffice.
\* contact: three requests, two texts of which one is a keyword, and a check-in.
\* inbox: a request thread and the worker; a sweep may overlap a keyword or a PATCH, a
\*   snooze's end a text or a reply.
\* house: days on which staff act on what the board shows and the tick comes first.
\* checklists: one item, a reading, through two nights and an instance on demand; two
\*   completions at a time.
\* templates: three items and two categories, created, retired and brought back.
\* stays: four events, of which three may be taken at once, each any number of times.
\* view: three changes to the data, one page.
\* presence: two tabs of one user, two conversations.
\* chat: two members, two rooms, one of which may be a group, two requests at a time.
\* log: two accounts, one department, one post, one change of a membership at a time.
SPECIFICATION HotelSpec
CONSTANTS
    None = None
    Workers = {w1, w2}
    Rows = {1, 2, 3, 4}
    Types = {"sweep", "send"}
    Recurring = {"sweep"}
    RowType <- MCRowType
    Interval <- MCShortInterval
    MaxAttempts <- MCMaxAttempts
    Backoff <- MCBackoff
    Delays = {0}
    Stale = 1
    ClaimLimit = 1
    SingleWriter = TRUE
    InTime = TRUE
    MaxFaults = 0
    Texts = {x1, x2}
    Keyword = {x2}
    Threads = {t1, t2, t3}
    InboxThreads = {i1}
    Worker = worker
    SLA = 1
    Quiet = 2
    Naps = {1, 2}
    MaxTime = 5
    Overlap = {{"keyword", "sweep"}, {"patch", "sweep"}, {"reply", "wake"}, {"text", "wake"}}
    Assignments = {a1, a2, a3}
    Orderly = TRUE
    Items = {c1}
    Readings = {c1}
    Plans <- MCPlans
    Extra = {extra}
    Clerks = {clerk1, clerk2}
    Beside = {}
    LastHour = 5
    Entries = {e1, e2, e3}
    Categories = {g1, g2}
    Past = 1000
    booked = booked
    arrived = arrived
    moved = moved
    departed = departed
    Events = {booked, arrived, moved, departed}
    Carries <- MCCarries
    Leaves = {departed}
    Intakes = {n1, n2, n3}
    MaxVersion = 3
    tab1 = tab1
    tab2 = tab2
    someone = someone
    Sockets = {tab1, tab2}
    Users = {someone}
    Owner <- MCOwner
    Chats = {h1, h2}
    Sweeper = sweeper
    TTL = 1
    Overtake = FALSE
    Colleagues = {m1, m2}
    Rooms = {r1, r2}
    Desks = {d1, d2}
    Crossing = FALSE
    Accounts = {u1, u2}
    Departments = {kitchen}
    AdminDesks = {f1}
    Posts = {p1}
\* Parts stop where a bound is reached or nothing is left to take.
CHECK_DEADLOCK FALSE
INVARIANTS HotelTypeOK NeverBothClaim
INVARIANTS SingleConversation ClockSound BoardIsTrue OneRightClean
INVARIANTS ShiftsAccounted StaysWhole NothingMissed PresenceShown RoomsRight ToldOnce
PROPERTIES CompleteIsFinal EventsTakenOnce TextsTakenOnce
