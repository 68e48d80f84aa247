------------------------------- MODULE Inbox -------------------------------
(***************************************************************************)
(* One conversation of the shared inbox: its status, its response clock    *)
(* (SLA), and the queue it is listed in.  domain/conversations.py,         *)
(* domain/messages.py, channels/inbound.py, queue/handlers/sla.py and      *)
(* queue/handlers/snooze.py.                                               *)
(*                                                                         *)
(* Each operation is a transaction that loads the row, and at its end      *)
(* updates the columns it has CHANGED, and only those (SQLAlchemy).  The   *)
(* row is neither locked nor versioned: the transactions that Overlap      *)
(* names run between one another's two ends.  That a guest has one         *)
(* conversation is FirstContact's concern, what becomes of a reply         *)
(* Delivery's.                                                             *)
(***************************************************************************)
EXTENDS Naturals, Table

CONSTANTS
    InboxThreads, \* request threads
    Worker,   \* the job worker's thread: sla.sweep and snooze.wake
    SLA,      \* sla_minutes: a question is to be answered within it
    Quiet,    \* auto_resolve_hours
    Naps,     \* how long staff may snooze a conversation
    MaxTime,  \* bound on the clock
    Overlap   \* pairs of operations whose transactions may run at once: in the code, all

InboxOps == {"text", "keyword", "reply", "patch", "sweep", "wake"}

ASSUME InboxAssumption ==
    /\ Worker \notin InboxThreads
    /\ SLA \in Nat /\ Quiet \in Nat /\ MaxTime \in Nat \ {0}
    /\ Naps \subseteq Nat
    /\ \A pair \in Overlap : \E op, other \in InboxOps : pair = {op, other}
    /\ None \notin Nat

Actors == InboxThreads \cup {Worker}
Time == 0 .. MaxTime

VARIABLES
    conv, \* the conversation's row
    work, \* whether a work order raised from it is open
    txn,  \* the row each open transaction loaded, and what it makes of it
    now

inboxVars == <<conv, work, txn, now>>

ConvStatus == {"open", "snoozed", "archived"}

\* until: snoozed_until;  closed: archived_at is set;  due: sla_due_at;  alerted:
\* sla_breach_notified_at;  guest, staff: last_guest_message_at, last_staff_message_at.
Row(T) == [status : ConvStatus, until : T, closed : BOOLEAN, due : T, alerted : T,
           guest : T, staff : T]

Fresh == [status |-> "open", until |-> None, closed |-> FALSE, due |-> None,
          alerted |-> None, guest |-> None, staff |-> None]

\* _unanswered_expr
Unanswered(c) == c.guest # None /\ (c.staff = None \/ c.staff < c.guest)

\* _resolved_condition: listed under "resolved", not in the queue.
IsResolved(c) ==
    /\ c.status = "open"
    /\ c.guest # None
    /\ c.guest + Quiet < now
    /\ ~Unanswered(c)
    /\ ~work

----------------------------------------------------------------------------
(***************************************************************************)
(* What each operation makes of the row c it has loaded                    *)
(***************************************************************************)

\* find_or_create_for_guest: a text brings the conversation back.
Revived(c) ==
    CASE c.status = "archived" -> [c EXCEPT !.status = "open", !.closed = FALSE]
      [] c.status = "snoozed"  -> [c EXCEPT !.status = "open", !.until = None]
      [] OTHER -> c

\* The definitions named ..Slip are mistakes one could make in the next one: the
\* checks are tried on them, and the specification does not use them.  Here, a clock
\* that runs is not started afresh; and the alert of the one before is kept.
ClockSlip(c) ==
    [Revived(c) EXCEPT !.guest = now, !.due = IF @ = None THEN now + SLA ELSE @,
                       !.alerted = None]
AlertSlip(c) == [Revived(c) EXCEPT !.guest = now, !.due = now + SLA]

\* record_inbound, start_sla: a question starts the clock afresh.
Questioned(c) ==
    [Revived(c) EXCEPT !.guest = now, !.due = now + SLA, !.alerted = None]

\* STOP, START ("yes" is one of its words) or HELP: recorded without a clock, then
\* answered at once by messages.send with author_type system.
Keyworded(c) == [Revived(c) EXCEPT !.guest = now, !.staff = now]

\* messages.send by staff.
Replied(c) == [c EXCEPT !.staff = now, !.due = None, !.alerted = None]

\* patch
Archived(c) == [c EXCEPT !.status = "archived", !.closed = TRUE]
Snoozed(c, n) == [c EXCEPT !.status = "snoozed", !.until = now + n]
Opened(c) == [c EXCEPT !.status = "open", !.closed = FALSE, !.until = None]

\* sweep_once and wake_once, each on the conversations its SELECT returns.
Overdue(c) == c.status = "open" /\ c.due # None /\ c.due < now

Alerted(c) == [c EXCEPT !.alerted = now]

Rested(c) == c.status = "snoozed" /\ c.until # None /\ c.until <= now
Woken(c) == [c EXCEPT !.status = "open", !.until = None]

----------------------------------------------------------------------------
\* The guest's first text has been handled.
InboxInit ==
    /\ now = 1
    /\ conv \in {[Fresh EXCEPT !.guest = 0, !.due = SLA],
                 [Fresh EXCEPT !.guest = 0, !.staff = 0]}
    /\ work = FALSE
    /\ txn = [a \in Actors |-> None]

Begin(a, op, c) ==
    /\ txn[a] = None
    /\ \A b \in Actors : txn[b] # None => {op, txn[b].op} \in Overlap
    /\ txn' = [txn EXCEPT ![a] = [op |-> op, old |-> conv, new |-> c]]
    /\ UNCHANGED <<conv, work>>

\* A message is stamped with the clock, and no two stamps are the same.
Message(t, op, c) ==
    /\ now < MaxTime
    /\ Begin(t, op, c)
    /\ now' = now + 1

Question(t) == Message(t, "text", Questioned(conv))
KeywordText(t) == Message(t, "keyword", Keyworded(conv))
Reply(t) == Message(t, "reply", Replied(conv))

Patch(a, op, c) == Begin(a, op, c) /\ UNCHANGED now

Archive(t) == Patch(t, "patch", Archived(conv))
Snooze(t, n) == Patch(t, "patch", Snoozed(conv, n))
Reopen(t) == Patch(t, "patch", Opened(conv))

\* sla.sweep and snooze.wake; one that finds nothing changes nothing.
Sweep == Overdue(conv) /\ conv.alerted = None /\ Patch(Worker, "sweep", Alerted(conv))
Wake == Rested(conv) /\ Patch(Worker, "wake", Woken(conv))

Commit(a) ==
    /\ txn[a] # None
    /\ conv' = Flushed(conv, txn[a])
    /\ txn' = [txn EXCEPT ![a] = None]
    /\ UNCHANGED <<work, now>>

\* The transaction is rolled back: a later statement fails, or the process dies.
Rollback(a) ==
    /\ txn[a] # None
    /\ txn' = [txn EXCEPT ![a] = None]
    /\ UNCHANGED <<conv, work, now>>

\* A work order is raised from the conversation, or its last open one is closed.
WorkOrders ==
    /\ work' = ~work
    /\ UNCHANGED <<conv, txn, now>>

TimePasses ==
    /\ now < MaxTime
    /\ now' = now + 1
    /\ UNCHANGED <<conv, work, txn>>

Request(t) ==
    \/ Question(t)
    \/ KeywordText(t)
    \/ Reply(t)
    \/ Archive(t)
    \/ \E n \in Naps : Snooze(t, n)
    \/ Reopen(t)

InboxNext ==
    \/ \E t \in InboxThreads : Request(t)
    \/ Sweep
    \/ Wake
    \/ \E a \in Actors : Commit(a) \/ Rollback(a)
    \/ WorkOrders
    \/ TimePasses

InboxSpec == InboxInit /\ [][InboxNext]_inboxVars

----------------------------------------------------------------------------
InboxTypeOK ==
    /\ conv \in Row(Nat \cup {None})
    /\ work \in BOOLEAN
    /\ txn \in [Actors -> [op : InboxOps, old : Row(Nat \cup {None}),
                           new : Row(Nat \cup {None})] \cup {None}]
    /\ now \in Time

\* A guest who waits for an answer has a running clock, started by the last text:
\* no sequence of texts, keywords, replies, snoozes and archivings leaves an
\* unanswered conversation that sla.sweep would never look at (messages.py:120-168).
UnansweredHasClock == Unanswered(conv) => conv.due = conv.guest + SLA

\* "A reply clears the breach and a new inbound restarts it" (test_sla.py:45): a
\* conversation marked as alerted was alerted about the clock it carries, so the
\* next breach is not taken for one already notified (sla.py:17-19).
AlertIsOurs == conv.alerted # None => conv.due # None /\ conv.due < conv.alerted

\* Both: sla.sweep finds every question that waits, and alerts about each once.
ClockSound == UnansweredHasClock /\ AlertIsOurs

\* conversations.py:103-105: a conversation is listed as resolved only if it is
\* answered, "so an ignored guest can never fall out of the queue".  A clock that
\* runs is a question no member of staff has replied to.
IgnoredStaysInQueue == IsResolved(conv) => conv.due = None
=============================================================================
