---------------------------- MODULE OrderLedger -----------------------------
(***************************************************************************)
(* One property's work orders as a record: who has each of them, the       *)
(* stamps of its row, its timeline (work_order_event), and what the weekly *)
(* figures make of them.  domain/work_orders.py, api/work_orders.py and of *)
(* domain/analytics.py what overview says of work orders.                  *)
(*                                                                         *)
(* One request after another, each of which does up to three things;       *)
(* WorkOrders has those that overlap, the prompts and the runs.            *)
(***************************************************************************)
EXTENDS Integers, FiniteSetsExt, Sequences, Table

CONSTANTS
    Tickets, \* ids of work orders, those not yet created included
    Crew,    \* members of the property
    Trades,  \* its departments
    Asks,    \* the requests there may be; bounds the states
    LastDay, \* bounds the clock
    Lines    \* bounds a timeline

VARIABLES
    today,
    ticket,  \* per id, the row, None before it is created
    timeline \* per id, its events in order

ledgerVars == <<today, ticket, timeline>>

Days == 0 .. LastDay
Progress == {"open", "assigned", "in_progress", "blocked", "complete", "verified", "cancelled"}

TicketRow == [status : Progress, assignee : Crew \cup {None}, trade : Trades \cup {None},
              born : Days, started : Days \cup {None}, completed : Days \cup {None},
              verified : Days \cup {None}, acked : Days \cup {None}]

\* from, to: a status, or of an assignment the assignee.
Line == [type : {"created", "status_changed", "assigned", "commented", "priority_changed",
                 "photo_attached"},
         by : Crew, from : Progress \cup Crew \cup {None}, to : Progress \cup Crew \cup {None},
         at : Days]

Event(type, by, from, to) == [type |-> type, by |-> by, from |-> from, to |-> to, at |-> today]

MayMove ==
    [s \in Progress |->
        CASE s = "open"        -> {"assigned", "in_progress", "cancelled"}
          [] s = "assigned"    -> {"in_progress", "open", "cancelled"}
          [] s = "in_progress" -> {"blocked", "complete", "cancelled"}
          [] s = "blocked"     -> {"in_progress", "cancelled"}
          [] s = "complete"    -> {"verified", "in_progress"}
          [] OTHER             -> {}]

\* What a PATCH asks for: to clear the assignee, an assignee, a department, a priority, a
\* status, and whether it has a comment.
Ask == [clear : BOOLEAN, user : Crew \cup {None}, trade : Trades \cup {None},
        priority : BOOLEAN, status : Progress \cup {None}, comment : BOOLEAN]

ASSUME LedgerAssumption ==
    /\ None \notin Crew \cup Trades \cup Nat \cup TicketRow
    /\ Asks \subseteq Ask
    /\ LastDay \in Nat /\ Lines \in Nat

Assigns(ask) == ask.clear \/ ask.user # None \/ ask.trade # None

\* Slip: who is given an order that was somebody's is not asked to acknowledge it again.
AssignedSlip(w, ask) ==
    [w EXCEPT !.assignee = IF ask.user # None THEN ask.user ELSE IF ask.clear THEN None ELSE @,
              !.trade = IF ask.trade # None THEN ask.trade ELSE @,
              !.acked = IF ask.user # None /\ w.assignee = None THEN None ELSE @,
              !.status = CASE ask.user # None /\ @ = "open" -> "assigned"
                           [] ask.user = None /\ ask.clear /\ @ = "assigned" -> "open"
                           [] OTHER -> @]

\* assign
Assigned(w, ask) ==
    [w EXCEPT !.assignee = IF ask.user # None THEN ask.user ELSE IF ask.clear THEN None ELSE @,
              !.trade = IF ask.trade # None THEN ask.trade ELSE @,
              !.acked = IF ask.user # None THEN None ELSE @,
              !.status = CASE ask.user # None /\ @ = "open" -> "assigned"
                           [] ask.user = None /\ ask.clear /\ @ = "assigned" -> "open"
                           [] OTHER -> @]

\* Slip: an order that was reopened keeps the stamp of its first completion.
ProgressedSlip(w, by, to) ==
    [w EXCEPT !.status = to,
              !.started = IF to = "in_progress" /\ @ = None THEN today ELSE @,
              !.completed = IF to = "complete" /\ @ = None THEN today ELSE @,
              !.verified = IF to = "verified" THEN today ELSE @,
              !.acked = IF w.assignee = by /\ @ = None THEN today ELSE @]

\* transition
Progressed(w, by, to) ==
    [w EXCEPT !.status = to,
              !.started = IF to = "in_progress" /\ @ = None THEN today ELSE @,
              !.completed = IF to = "complete" THEN today ELSE @,
              !.verified = IF to = "verified" THEN today ELSE @,
              !.acked = IF w.assignee = by /\ @ = None THEN today ELSE @]

\* Slip: a period includes its last instant.
ClosedInSlip(since, until) ==
    {o \in Tickets : /\ ticket[o] # None /\ ticket[o].status \in {"complete", "verified"}
                     /\ ticket[o].completed # None
                     /\ since <= ticket[o].completed /\ ticket[o].completed <= until}

\* overview: the work orders closed in a period.
ClosedIn(since, until) ==
    {o \in Tickets : /\ ticket[o] # None /\ ticket[o].status \in {"complete", "verified"}
                     /\ ticket[o].completed # None
                     /\ since <= ticket[o].completed /\ ticket[o].completed < until}

----------------------------------------------------------------------------
LedgerInit ==
    /\ today = 0
    /\ ticket = [o \in Tickets |-> None]
    /\ timeline = [o \in Tickets |-> <<>>]

\* create
CreateTicket(o, by, user, trade) ==
    LET status == IF user # None THEN "assigned" ELSE "open" IN
    /\ ticket[o] = None
    /\ ticket' = [ticket EXCEPT ![o] =
           [status |-> status, assignee |-> user, trade |-> trade, born |-> today,
            started |-> None, completed |-> None, verified |-> None, acked |-> None]]
    /\ timeline' = [timeline EXCEPT ![o] = <<Event("created", by, None, status)>>]
    /\ UNCHANGED today

\* patch_work_order: assign, set_priority, then transition or comment; the whole request
\* fails when the transition does.
PatchTicket(o, by, ask) ==
    /\ ticket[o] # None
    /\ LET w == ticket[o]
           given == IF Assigns(ask) THEN Assigned(w, ask) ELSE w
           moved == IF ask.status # None THEN Progressed(given, by, ask.status) ELSE given
           new == (IF Assigns(ask) THEN <<Event("assigned", by, w.assignee, given.assignee)>>
                   ELSE <<>>)
               \o (IF ask.priority THEN <<Event("priority_changed", by, None, None)>> ELSE <<>>)
               \o (IF ask.status # None
                   THEN <<Event("status_changed", by, given.status, ask.status)>>
                   ELSE IF ask.comment THEN <<Event("commented", by, None, None)>> ELSE <<>>)
       IN  /\ ask.status # None => ask.status \in MayMove[given.status]
           /\ Len(timeline[o]) + Len(new) <= Lines
           /\ ticket' = [ticket EXCEPT ![o] = moved]
           /\ timeline' = [timeline EXCEPT ![o] = @ \o new]
    /\ UNCHANGED today

\* attach_photo
AddOrderPhoto(o, by) ==
    /\ ticket[o] # None
    /\ Len(timeline[o]) < Lines
    /\ timeline' = [timeline EXCEPT ![o] = Append(@, Event("photo_attached", by, None, None))]
    /\ UNCHANGED <<today, ticket>>

NextDay ==
    /\ today < LastDay
    /\ today' = today + 1
    /\ UNCHANGED <<ticket, timeline>>

LedgerNext ==
    \/ \E o \in Tickets, by \in Crew :
        \/ \E user \in Crew \cup {None}, trade \in Trades \cup {None} :
            CreateTicket(o, by, user, trade)
        \/ \E ask \in Asks : PatchTicket(o, by, ask)
        \/ AddOrderPhoto(o, by)
    \/ NextDay

LedgerSpec == LedgerInit /\ [][LedgerNext]_ledgerVars

----------------------------------------------------------------------------
LedgerTypeOK ==
    /\ today \in Days
    /\ ticket \in [Tickets -> TicketRow \cup {None}]
    /\ timeline \in [Tickets -> Seq(Line)]

\* The lines that moved an order to a status, and the day of the first or last of them.
MovesTo(line, s) == {i \in DOMAIN line : line[i].type = "status_changed" /\ line[i].to = s}
FirstTo(line, s) == IF MovesTo(line, s) = {} THEN None ELSE line[Min(MovesTo(line, s))].at
LastTo(line, s) == IF MovesTo(line, s) = {} THEN None ELSE line[Max(MovesTo(line, s))].at

\* The acknowledgement is the assignee's own, the first they gave since they have the order:
\* a line in which they moved it, with nobody else's assignment after it.
AckedByAssignee(w, line) ==
    LET mine == {i \in DOMAIN line : line[i].type = "status_changed" /\ line[i].by = w.assignee}
        given == {i \in DOMAIN line : line[i].type = "assigned"}
    IN  IF w.acked = None THEN \A i \in mine : \E j \in given : j > i
        ELSE \E i \in mine : /\ line[i].at = w.acked
                             /\ \A j \in given : j > i => line[j].from = line[j].to

\* An order's stamps, its timeline and the figures tell one story, whatever is reopened,
\* handed on, taken back or done in one request: work began with the first move to
\* in_progress, the last completion and the verification are those of the timeline, who has
\* the order gave its acknowledgement, and an order that is done counts in the period of its
\* last completion and in no other (work_orders.py:187-195, 221-225; analytics.py:97-105).
LedgerAgrees ==
    \A o \in Tickets : ticket[o] # None =>
        /\ ticket[o].started = FirstTo(timeline[o], "in_progress")
        /\ ticket[o].completed = LastTo(timeline[o], "complete")
        /\ ticket[o].verified = LastTo(timeline[o], "verified")
        /\ ticket[o].assignee # None => AckedByAssignee(ticket[o], timeline[o])
        /\ \A d \in Days : o \in ClosedIn(d, d + 1) <=>
               /\ ticket[o].status \in {"complete", "verified"}
               /\ LastTo(timeline[o], "complete") = d
=============================================================================
