------------------------------ MODULE Members -------------------------------
(***************************************************************************)
(* Who works at one property, with which role and in which department, and *)
(* what its administrators change of that: domain/users.py.                *)
(*                                                                         *)
(* A change checks that an administrator is left and writes later, in one  *)
(* READ COMMITTED transaction; the rows the check read are not locked.     *)
(***************************************************************************)
EXTENDS Naturals, Table

CONSTANTS
    Accounts,    \* of people who may work here
    Departments, \* ids of departments
    AdminDesks   \* requests that change a membership at a time

\* admin: who may manage_admin (corporate does too); manager: another EXEMPT_ROLES.
Roles == {"agent", "manager", "admin"}

ASSUME MembersAssumption == None \notin Accounts \cup Departments \cup Roles

VARIABLES
    role,    \* per user, the role of their membership, None without one
    dept,    \* per user, the department of it
    deptRow, \* per department: new, open, or deleted
    change   \* the change each desk has checked and not written

memberVars == <<role, dept, deptRow, change>>

Member(u) == role[u] # None
IsAdmin(u) == role[u] = "admin"
OpenDepts == {d \in Departments : deptRow[d] = "open"}
InDept(d) == {u \in Accounts : Member(u) /\ dept[u] = d}

Membership == [role : Roles \cup {None}, dept : Departments \cup {None}]
MemberRow(u) == [role |-> role[u], dept |-> dept[u]]
Gone == [role |-> None, dept |-> None]

NoChange == [user |-> None, old |-> Gone, new |-> Gone]
Change == [user : Accounts \cup {None}, old : Membership, new : Membership]

Intend(t, c) == change' = [change EXCEPT ![t] = c]

\* _assert_not_last_admin.
SparesAdmin(u, r) == IsAdmin(u) /\ r # "admin" => \E v \in Accounts \ {u} : IsAdmin(v)

----------------------------------------------------------------------------
\* An administrator opens the property.
MembersInit ==
    /\ \E u \in Accounts : role = [v \in Accounts |-> IF v = u THEN "admin" ELSE None]
    /\ dept = [u \in Accounts |-> None]
    /\ deptRow = [d \in Departments |-> "new"]
    /\ change = [t \in AdminDesks |-> NoChange]

\* create_staff.
CreateStaff(by, u, r, d) ==
    /\ IsAdmin(by) /\ ~Member(u)
    /\ role' = [role EXCEPT ![u] = r]
    /\ dept' = [dept EXCEPT ![u] = d]
    /\ UNCHANGED <<deptRow, change>>

\* update_staff, and remove_membership when new is Gone, up to the write.
CheckChange(t, by, u, new) ==
    /\ change[t] = NoChange
    /\ IsAdmin(by) /\ Member(u)
    /\ SparesAdmin(u, new.role)
    /\ Intend(t, [user |-> u, old |-> MemberRow(u), new |-> new])
    /\ UNCHANGED <<role, dept, deptRow>>

\* The flush and the commit.  Whoever else has loaded a row that goes will find none, and
\* changes nothing.
WriteChange(t) ==
    LET c == change[t]
        written == IF c.new = Gone THEN Gone ELSE Flushed(MemberRow(c.user), c)
    IN
    /\ c.user # None
    /\ written.dept \in OpenDepts \cup {None} \* else the foreign key fails
    /\ role' = [role EXCEPT ![c.user] = written.role]
    /\ dept' = [dept EXCEPT ![c.user] = written.dept]
    /\ change' = [x \in AdminDesks |->
           IF x = t \/ (written = Gone /\ change[x].user = c.user) THEN NoChange ELSE change[x]]
    /\ UNCHANGED deptRow

LoseChange(t) ==
    /\ change[t] # NoChange
    /\ Intend(t, NoChange)
    /\ UNCHANGED <<role, dept, deptRow>>

CreateDepartment(d) ==
    /\ deptRow[d] = "new"
    /\ deptRow' = [deptRow EXCEPT ![d] = "open"]
    /\ UNCHANGED <<role, dept, change>>

\* delete_department: refused while a member is in it.
DeleteDepartment(d) ==
    /\ deptRow[d] = "open"
    /\ InDept(d) = {}
    /\ deptRow' = [deptRow EXCEPT ![d] = "deleted"]
    /\ UNCHANGED <<role, dept, change>>

----------------------------------------------------------------------------
MembersNext ==
    \/ \E by, u \in Accounts, r \in Roles, d \in OpenDepts \cup {None} : CreateStaff(by, u, r, d)
    \/ \E t \in AdminDesks, by, u \in Accounts, r \in Roles, d \in OpenDepts \cup {None} :
           CheckChange(t, by, u, [role |-> r, dept |-> d])
    \/ \E t \in AdminDesks, by, u \in Accounts : CheckChange(t, by, u, Gone)
    \/ \E t \in AdminDesks : WriteChange(t) \/ LoseChange(t)
    \/ \E d \in Departments : CreateDepartment(d) \/ DeleteDepartment(d)

MembersSpec == MembersInit /\ [][MembersNext]_memberVars

----------------------------------------------------------------------------
MembersTypeOK ==
    /\ role \in [Accounts -> Roles \cup {None}]
    /\ dept \in [Accounts -> Departments \cup {None}]
    /\ deptRow \in [Departments -> {"new", "open", "deleted"}]
    /\ change \in [AdminDesks -> Change]

\* "A property must keep at least one membership that can manage_admin" (users.py:187),
\* whatever its administrators change at once, themselves included.
Administered == \E u \in Accounts : IsAdmin(u)

\* Takes from somebody a role above the one it leaves them, or their membership.
Lowers(t) ==
    /\ change[t].user # None
    /\ change[t].new.role \notin {"admin", change[t].old.role}

\* Of the changes under way, those that lower a role lower one person's.
OneLowered ==
    \A s, t \in AdminDesks : Lowers(s) /\ Lowers(t) => change[s].user = change[t].user
=============================================================================
