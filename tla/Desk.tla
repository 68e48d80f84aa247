-------------------------------- MODULE Desk --------------------------------
(***************************************************************************)
(* In which of the inbox's lists a conversation is, and whose it is.       *)
(* domain/conversations.py: list with _resolved_condition,                 *)
(* _unanswered_expr and viewer_scope, _summary, and of patch the           *)
(* assignment.                                                             *)
(*                                                                         *)
(* The lists are WHERE clauses over columns that may be NULL: a condition  *)
(* is true, false or neither, NOT of the third is the third again, and a   *)
(* row is listed only where its condition is true.  Inbox has the response *)
(* clock, the list of the overdue and requests that overlap; here one      *)
(* request follows another.                                                *)
(***************************************************************************)
EXTENDS Naturals, FiniteSets, Table

CONSTANTS
    Agents,   \* staff who may be given a conversation
    Branches, \* departments
    Silence,  \* auto_resolve_hours
    Closing   \* bounds the clock

ASSUME DeskAssumption ==
    /\ Silence \in Nat /\ Closing \in Nat
    /\ None \notin Nat \cup Agents \cup Branches

VARIABLES
    thread,  \* the conversation's row
    pending, \* whether a work order raised from it is open
    oclock

deskVars == <<thread, pending, oclock>>

Hours == 0 .. Closing

\* wrote, answered: last_guest_message_at, last_staff_message_at;  agent, branch:
\* assigned_user_id, assigned_department_id.
ThreadRow == [status : {"open", "snoozed", "archived"}, wrote : Hours \cup {None},
              answered : Hours \cup {None}, agent : Agents \cup {None},
              branch : Branches \cup {None}]

----------------------------------------------------------------------------
(***************************************************************************)
(* Conditions of SQL: each is "true", "false" or "null"                    *)
(***************************************************************************)

Is(p) == IF p THEN "true" ELSE "false"
Before(a, b) == IF a = None \/ b = None THEN "null" ELSE Is(a < b)
Equals(a, b) == IF a = None \/ b = None THEN "null" ELSE Is(a = b)
Not(p) == CASE p = "true" -> "false" [] p = "false" -> "true" [] OTHER -> "null"
And(ps) == IF "false" \in ps THEN "false" ELSE IF "null" \in ps THEN "null" ELSE "true"
Or(ps) == Not(And({Not(p) : p \in ps}))

\* Slip: a column that is NULL is taken for one that is earlier.
AwaitsSlip(c) == And({Is(c.wrote # None), Before(c.answered, c.wrote)})

\* _unanswered_expr
Awaits(c) == And({Is(c.wrote # None), Or({Is(c.answered = None), Before(c.answered, c.wrote)})})

\* _resolved_condition
Settles(c) ==
    And({Is(c.status = "open"), Is(c.wrote # None),
         IF c.wrote = None THEN "null" ELSE Is(c.wrote + Silence < oclock),
         Not(Awaits(c)), Not(Is(pending))})

InQueue(c) == And({Is(c.status = "open"), Not(Settles(c))})

\* The filters of list.
InList(c) ==
    [all        |-> InQueue(c),
     unassigned |-> And({InQueue(c), Is(c.agent = None), Is(c.branch = None)}),
     resolved   |-> Settles(c),
     archived   |-> Is(c.status = "archived"),
     snoozed    |-> Is(c.status = "snoozed")]
OwnedBy(c, u) == And({InQueue(c), Equals(c.agent, u)})

\* viewer_scope of dept_staff u of department b.
Scope(c, u, b) ==
    IF b = None THEN Equals(c.agent, u) ELSE Or({Equals(c.agent, u), Equals(c.branch, b)})

\* unanswered of _summary, in Python.
Badge(c) == c.wrote # None /\ (c.answered = None \/ c.answered < c.wrote)

----------------------------------------------------------------------------
\* The guest's first text.
DeskInit ==
    /\ oclock = 0
    /\ pending = FALSE
    /\ thread = [status |-> "open", wrote |-> 0, answered |-> None, agent |-> None,
                 branch |-> None]

\* find_or_create_for_guest
Reopened(c) == [c EXCEPT !.status = "open"]

\* record_inbound; a keyword is answered at once.
Writes(keyword) ==
    /\ thread' = [Reopened(thread) EXCEPT !.wrote = oclock,
                                          !.answered = IF keyword THEN oclock ELSE @]
    /\ UNCHANGED <<pending, oclock>>

\* messages.send
Answer ==
    /\ thread' = [thread EXCEPT !.answered = oclock]
    /\ UNCHANGED <<pending, oclock>>

\* patch: to clear the assignment, an agent (or None), a department (or None), a status
\* (or None), in this order; a department alone takes the conversation from its agent.
PatchThread(clear, u, b, status) ==
    /\ thread' = [thread EXCEPT
           !.agent = CASE u # None -> u
                       [] clear \/ b # None -> None
                       [] OTHER -> @,
           !.branch = IF b # None THEN b ELSE IF clear THEN None ELSE @,
           !.status = IF status # None THEN status ELSE @]
    /\ UNCHANGED <<pending, oclock>>

\* snooze.wake
WakeThread ==
    /\ thread.status = "snoozed"
    /\ thread' = [thread EXCEPT !.status = "open"]
    /\ UNCHANGED <<pending, oclock>>

\* A work order is raised from the conversation, or its last open one is closed.
TurnPending ==
    /\ pending' = ~pending
    /\ UNCHANGED <<thread, oclock>>

HourPasses ==
    /\ oclock < Closing
    /\ oclock' = oclock + 1
    /\ UNCHANGED <<thread, pending>>

DeskNext ==
    \/ \E keyword \in BOOLEAN : Writes(keyword)
    \/ Answer
    \/ \E clear \in BOOLEAN, u \in Agents \cup {None}, b \in Branches \cup {None},
          status \in {"open", "snoozed", "archived", None} : PatchThread(clear, u, b, status)
    \/ WakeThread
    \/ TurnPending
    \/ HourPasses

DeskSpec == DeskInit /\ [][DeskNext]_deskVars

----------------------------------------------------------------------------
DeskTypeOK ==
    /\ thread \in ThreadRow
    /\ pending \in BOOLEAN
    /\ oclock \in Hours

Lists(c) == {f \in DOMAIN InList(c) : InList(c)[f] = "true"}

\* Whatever is NULL, a conversation is in exactly one of the lists that together are the
\* inbox, and a guest who waits for an answer is in the queue, with the mark of it: "an
\* ignored guest can never fall out of the queue" (conversations.py:104, 114-117, 177-180).
\* What is in the queue is unassigned, or somebody's, or a department's that sees it.
ListedOnce ==
    /\ Cardinality(Lists(thread) \ {"unassigned"}) = 1
    /\ Badge(thread) <=> Awaits(thread) = "true"
    /\ Badge(thread) /\ thread.status = "open" => "all" \in Lists(thread)
    /\ "unassigned" \in Lists(thread) => \A u \in Agents : OwnedBy(thread, u) # "true"
    /\ "all" \in Lists(thread) /\ "unassigned" \notin Lists(thread) =>
           \/ \E u \in Agents : OwnedBy(thread, u) = "true"
           \/ \E b \in Branches : \A u \in Agents : Scope(thread, u, b) = "true"
=============================================================================
