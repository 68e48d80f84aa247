------------------------------ MODULE LogFeed -------------------------------
(***************************************************************************)
(* The feed of the hotel log, read page by page while others post and pin: *)
(* feed and set_pinned of domain/log.py.  An entry is stamped when it is   *)
(* flushed and seen once its transaction has committed.  A filter asks for *)
(* columns of an entry that never change, and is left out.                 *)
(***************************************************************************)
EXTENDS Integers, FiniteSets, Table

CONSTANTS
    Notices,   \* ids of entries; ids are compared, and those of one instant in any order
    PageSize,  \* FEED_PAGE_SIZE
    LastStamp  \* bounds the clock

FeedCursor == [at : 0 .. LastStamp, id : Notices]

ASSUME FeedAssumption ==
    /\ Notices \subseteq Nat
    /\ PageSize \in Nat \ {0} /\ LastStamp \in Nat
    /\ None \notin (0 .. LastStamp) \cup FeedCursor

VARIABLES
    wallClock,
    stampedAt, \* created_at of each entry, None before it is flushed
    visible,   \* the entries whose transaction has committed
    onTop,     \* the pinned ones
    reader     \* somebody who reads: the cursor, how often they saw each entry, what there was

feedVars == <<wallClock, stampedAt, visible, onTop, reader>>

PlaceOf(e) == [at |-> stampedAt[e], id |-> e]

\* (created_at, id) < (created_at, id)
Older(x, y) == x.at < y.at \/ (x.at = y.at /\ x.id < y.id)

\* Slip: of the cursor only the instant counts.
EarlierSlip(cursor) == {e \in visible : cursor = None \/ stampedAt[e] < cursor.at}

\* The entries before the cursor.
Earlier(cursor) == {e \in visible : cursor = None \/ Older(PlaceOf(e), cursor)}

\* ORDER BY created_at DESC, id DESC LIMIT FEED_PAGE_SIZE, and the last row of that.
NewerIn(S, e) == {d \in S : Older(PlaceOf(e), PlaceOf(d))}
NewestOf(S) == {e \in S : Cardinality(NewerIn(S, e)) < PageSize}
OldestOf(S) == CHOOSE e \in S : \A d \in S : ~Older(PlaceOf(d), PlaceOf(e))

\* feed: a page, and the next cursor when there is a row more.
Page(cursor) ==
    LET found == Earlier(cursor)
        rows == NewestOf(found)
    IN  [entries |-> rows,
         next |-> IF Cardinality(found) > PageSize THEN PlaceOf(OldestOf(rows)) ELSE None,
         pinned |-> visible \cap onTop]

----------------------------------------------------------------------------
FeedInit ==
    /\ wallClock = 0
    /\ stampedAt = [e \in Notices |-> None]
    /\ visible = {} /\ onTop = {}
    /\ reader = None

\* create flushes; its transaction commits, or fails.
StampNotice(e) ==
    /\ stampedAt[e] = None
    /\ stampedAt' = [stampedAt EXCEPT ![e] = wallClock]
    /\ UNCHANGED <<wallClock, visible, onTop, reader>>

CommitNotice(e) ==
    /\ stampedAt[e] # None /\ e \notin visible
    /\ visible' = visible \cup {e}
    /\ UNCHANGED <<wallClock, stampedAt, onTop, reader>>

LoseNotice(e) ==
    /\ stampedAt[e] # None /\ e \notin visible
    /\ stampedAt' = [stampedAt EXCEPT ![e] = None]
    /\ UNCHANGED <<wallClock, visible, onTop, reader>>

\* set_pinned
PinNotice(e, pinned) ==
    /\ e \in visible /\ (e \in onTop) # pinned
    /\ onTop' = IF pinned THEN onTop \cup {e} ELSE onTop \ {e}
    /\ UNCHANGED <<wallClock, stampedAt, visible, reader>>

\* The first page.
OpenFeed ==
    /\ LET p == Page(None) IN
       reader' = [next |-> p.next, there |-> visible, top |-> p.pinned,
                  seen |-> [e \in Notices |-> IF e \in p.entries THEN 1 ELSE 0]]
    /\ UNCHANGED <<wallClock, stampedAt, visible, onTop>>

\* The page after.
MoreFeed ==
    /\ reader # None /\ reader.next # None
    /\ LET p == Page(reader.next) IN
       reader' = [reader EXCEPT !.next = p.next, !.top = p.pinned,
                      !.seen = [e \in Notices |-> @[e] + IF e \in p.entries THEN 1 ELSE 0]]
    /\ UNCHANGED <<wallClock, stampedAt, visible, onTop>>

FeedElapse ==
    /\ wallClock < LastStamp
    /\ wallClock' = wallClock + 1
    /\ UNCHANGED <<stampedAt, visible, onTop, reader>>

FeedNext ==
    \/ \E e \in Notices :
        \/ StampNotice(e) \/ CommitNotice(e) \/ LoseNotice(e)
        \/ \E pinned \in BOOLEAN : PinNotice(e, pinned)
    \/ OpenFeed \/ MoreFeed \/ FeedElapse

FeedSpec == FeedInit /\ [][FeedNext]_feedVars

----------------------------------------------------------------------------
FeedTypeOK ==
    /\ wallClock \in 0 .. LastStamp
    /\ stampedAt \in [Notices -> (0 .. LastStamp) \cup {None}]
    /\ visible \subseteq Notices /\ onTop \subseteq Notices
    /\ reader \in {None} \cup [next : FeedCursor \cup {None}, there : SUBSET Notices,
                               top : SUBSET Notices, seen : [Notices -> Nat]]

\* Whoever reads page after page is shown no entry twice, and once there is no further page,
\* each entry that was there when they began, also of one instant and also when others
\* post meanwhile or commit what they stamped before (log.py:343-350).
SeenOnce ==
    reader # None =>
        \A e \in Notices :
            /\ reader.seen[e] <= 1
            /\ e \in reader.there /\ reader.next = None => reader.seen[e] = 1
=============================================================================
