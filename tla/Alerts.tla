------------------------------- MODULE Alerts -------------------------------
(***************************************************************************)
(* The notifications of one property: whom one reaches, and how it is      *)
(* marked read.  domain/notifications.py, with domain/notes.py and         *)
(* hk_rooms.hk_supervisors, which choose their recipients themselves.      *)
(*                                                                         *)
(* To mark all as read selects the unread rows and writes them later, in   *)
(* one READ COMMITTED transaction; every other request is short.  What is  *)
(* in the list, and the event that tells the page, are left out.           *)
(***************************************************************************)
EXTENDS Naturals, FiniteSets, Table

CONSTANTS
    Employees,  \* members of the property
    Wards,      \* its departments
    FrontDesks, \* those of type front_desk
    Linen,      \* those of type housekeeping
    FirstName,  \* per member, their first name; several may have one
    MaxCalls    \* bounds the notifications

ASSUME AlertsAssumption ==
    /\ FrontDesks \subseteq Wards /\ Linen \subseteq Wards
    /\ None \notin Employees \cup Wards
    /\ MaxCalls \in Nat

VARIABLES
    posting, \* per member: role and department
    alerts,  \* the rows
    calls,   \* how many times somebody was to be notified
    chosen   \* per member, the rows their mark_all_read has selected

alertVars == <<posting, alerts, calls, chosen>>

\* supervisor: a manager too.  Accounts stay active: no operation switches one off.
Postings == [role : {"staff", "supervisor", "admin"}, ward : Wards \cup {None}]

\* call: which notification it is of;  seen, a history variable: its recipient has begun to
\* mark it read.
AlertRow == [call : 1 .. MaxCalls, to : Employees, read : BOOLEAN, seen : BOOLEAN]

Belong(b) == {u \in Employees : posting[u].ward = b}
Admins == {u \in Employees : posting[u].role = "admin"}

\* _front_desk_members: of one department of the type, whichever is found.
DeskMembers == IF FrontDesks = {} THEN {{}} ELSE {Belong(b) : b \in FrontDesks}

\* Who is asked for by name or by department.
Addressed(u, b) == CASE u # None -> {u} [] b # None -> Belong(b) [] OTHER -> {}

\* Slip: only who asks for nobody falls back.
TargetsSlip(u, b) ==
    IF u # None \/ b # None THEN {Addressed(u, b)}
    ELSE {IF d # {} THEN d ELSE Admins : d \in DeskMembers}

\* notify_user_or_department
Targets(u, b) ==
    IF Addressed(u, b) # {} THEN {Addressed(u, b)}
    ELSE {IF d # {} THEN d ELSE Admins : d \in DeskMembers}

\* hk_supervisors
Supervisors ==
    {u \in Employees : posting[u].ward \in Linen /\ posting[u].role = "supervisor"}

\* _resolve_mentions, less the author.
Mentioned(author, names) == {u \in Employees : FirstName[u] \in names} \ {author}

UnreadAlerts(u) == {a.call : a \in {x \in alerts : x.to = u /\ ~x.read}}

----------------------------------------------------------------------------
AlertsInit ==
    /\ posting \in [Employees -> [role : {"staff", "admin"}, ward : {None}]]
    /\ alerts = {}
    /\ calls = 0
    /\ chosen = [u \in Employees |-> None]

\* notify_users: a row for each, once.
NotifyUsers(us) ==
    /\ calls < MaxCalls
    /\ calls' = calls + 1
    /\ alerts' = alerts \cup {[call |-> calls + 1, to |-> u, read |-> FALSE, seen |-> FALSE] :
                                  u \in us}
    /\ UNCHANGED <<posting, chosen>>

NotifyUserOrDepartment(u, b) == \E us \in Targets(u, b) : NotifyUsers(us)

NotifySupervisors == NotifyUsers(Supervisors)

\* notes.create
WriteNote(author, names) == NotifyUsers(Mentioned(author, names))

\* read_at is set where it is not yet.
Mark(u, ns) ==
    alerts' = {IF a.to = u /\ a.call \in ns THEN [a EXCEPT !.read = TRUE, !.seen = TRUE] ELSE a :
                   a \in alerts}

\* mark_read
ReadAlert(u, n) ==
    /\ \E a \in alerts : a.to = u /\ a.call = n
    /\ Mark(u, {n})
    /\ UNCHANGED <<posting, calls, chosen>>

MarkAllSelects(u) ==
    /\ chosen[u] = None
    /\ chosen' = [chosen EXCEPT ![u] = UnreadAlerts(u)]
    /\ alerts' = {IF a.to = u THEN [a EXCEPT !.seen = TRUE] ELSE a : a \in alerts}
    /\ UNCHANGED <<posting, calls>>

Written(u, ns) ==
    alerts' = {IF a.to = u /\ a.call \in ns THEN [a EXCEPT !.read = TRUE] ELSE a : a \in alerts}

\* Slip: one UPDATE of whatever is unread by then.
MarkAllSlip(u) ==
    /\ chosen[u] # None
    /\ Written(u, UnreadAlerts(u))
    /\ chosen' = [chosen EXCEPT ![u] = None]
    /\ UNCHANGED <<posting, calls>>

MarkAllCommits(u) ==
    /\ chosen[u] # None
    /\ Written(u, chosen[u])
    /\ chosen' = [chosen EXCEPT ![u] = None]
    /\ UNCHANGED <<posting, calls>>

MarkAllFails(u) ==
    /\ chosen[u] # None
    /\ chosen' = [chosen EXCEPT ![u] = None]
    /\ UNCHANGED <<posting, alerts, calls>>

\* update_staff: a role, a department.
Repost(u, p) ==
    /\ posting' = [posting EXCEPT ![u] = p]
    /\ UNCHANGED <<alerts, calls, chosen>>

AlertsNext ==
    \/ \E u \in Employees \cup {None}, b \in Wards \cup {None} : NotifyUserOrDepartment(u, b)
    \/ NotifySupervisors
    \/ \E author \in Employees, names \in SUBSET {FirstName[u] : u \in Employees} :
           WriteNote(author, names)
    \/ \E u \in Employees, n \in 1 .. MaxCalls : ReadAlert(u, n)
    \/ \E u \in Employees : MarkAllSelects(u) \/ MarkAllCommits(u) \/ MarkAllFails(u)
    \/ \E u \in Employees, p \in Postings : Repost(u, p)

AlertsSpec == AlertsInit /\ [][AlertsNext]_alertVars

----------------------------------------------------------------------------
AlertsTypeOK ==
    /\ posting \in [Employees -> Postings]
    /\ alerts \subseteq AlertRow
    /\ calls \in 0 .. MaxCalls
    /\ chosen \in [Employees -> {None} \cup SUBSET (1 .. MaxCalls)]

\* A notification comes to somebody as long as there is an administrator, however empty the
\* department it is for (notifications.py:56-57); nobody has it twice; and it is never
\* marked read by a request that was made before it came.
AlertsLand ==
    /\ Admins # {} =>
           \A u \in Employees \cup {None}, b \in Wards \cup {None} : {} \notin Targets(u, b)
    /\ \A a1, a2 \in alerts : a1.call = a2.call /\ a1.to = a2.to => a1 = a2
    /\ \A a \in alerts : a.read => a.seen
=============================================================================
