\* sweep: one unit, since no operation on a unit reads another's runs; a monthly and a
\*   quarterly cadence over four months, so that both have windows that close.
\* orders: one of any origin and one that is neither of a conversation nor scheduled, which the
\*   first one's run may raise, and two requests that may PATCH them at once; prompts are
\*   resolved, and runs driven, between requests.
\* plans: two templates of one kind, one of which may be scheduled, by two rules over three
\*   instants; a tick is over before the next instant.
\* sheet: an item with limits and one that wants a photo, two members.
\* ledger: one order, nine requests, two days, five lines of a timeline: a second completion.
\* rounds: three rooms, two housekeepers, three places on a list.
SPECIFICATION Spec
CONSTANTS
    None = None
    Units = {u1}
    Spans = {1, 3}
    LastMonth = 4
    NoRead = NoRead
    Orders = {o1, o2}
    Threads = {t1, t2}
    Overlapping = {"patch"}
    Plans = {q1, q2}
    Kinds = {room}
    Rules = {{1, 2}, {2}}
    LastTime = 2
    Scheduled = {q1}
    Overrun = FALSE
    Entered = {"number", "photo"}
    EntryKind <- MCEntryKind
    Measured = {1, 2}
    Tops = {1}
    Fitters = {m1, m2}
    Tickets = {w1}
    Crew = {m1, m2}
    Trades = {k1}
    Asks <- MCAsks
    LastDay = 1
    Lines = 5
    Doors = {1, 2, 3}
    Keepers = {u1, u2}
    LastPlace = 3
\* The ledger stops when its timelines are full.
CHECK_DEADLOCK FALSE
INVARIANTS UpkeepTypeOK ClosedAccounts CycleOfTheMonth
INVARIANTS OnePendingPrompt RunMovesOrder ScheduleKept SheetSettles LedgerAgrees RoundsAsGiven
PROPERTIES EvidenceFrozen CompletionProposes
