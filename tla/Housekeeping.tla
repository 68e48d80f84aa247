---------------------------- MODULE Housekeeping ----------------------------
(***************************************************************************)
(* One guest room of the housekeeping board, and its assignments:          *)
(* domain/hk_transitions.py, hk_assignments.py, hk_rooms.py, hk_tick.py    *)
(* and the check-out of pms/handle_event.py.                               *)
(*                                                                         *)
(* Every operation is one transaction.  The calendar is what makes it      *)
(* hard: an assignment belongs to a day, rooms and assignments outlive it, *)
(* and what midnight changes is repaired by a tick every five minutes.     *)
(* A date is compared with today's and with nothing else, so a row keeps   *)
(* whether its date is today's.  Who an assignment is given to, and in     *)
(* which order rooms are cleaned, is left out, and with it an assignment   *)
(* that is passed: the code never reads one again but to show it.          *)
(***************************************************************************)
EXTENDS Naturals, FiniteSets, Table

CONSTANTS
    Assignments, \* assignment rows that are not passed; bounds their number
    Orderly      \* TRUE: staff act on the assignment the board shows, and
                 \* nothing happens between midnight and the tick after it

VARIABLES
    room,   \* the room's row
    asg,    \* its assignments that are not passed
    occ,    \* its occupancy, derived from the stays
    left,   \* a guest has checked out today, after the room's last change of status
    ticked, \* housekeeping.tick has run today
    soiled  \* history: the room was told of a check-out (by the event, or by the tick that
            \* caught a missed one), and has not been cleaned or let since

houseVars == <<room, asg, occ, left, ticked, soiled>>

Out == {"out_of_order", "out_of_service"}
HkStatus == {"dirty", "in_progress", "clean", "inspected"} \cup Out
Service == {"departure", "stayover", "touch_up"}
Occupancy == {"vacant", "arrival", "stayover", "departure"}
Occupied == {"stayover", "departure"}

\* today: status_changed_at is today;  cleaned: so is last_cleaned_at.
Room == [status : HkStatus, service : Service \cup {None}, rush : BOOLEAN,
         today : BOOLEAN, cleaned : BOOLEAN]

\* today: shift_date is today.
Assignment == [status : {"assigned", "in_progress", "done"}, type : Service, today : BOOLEAN]

ASSUME HousekeepingAssumption ==
    /\ Orderly \in BOOLEAN
    /\ None \notin Assignments \cup Assignment

Rowed == {a \in Assignments : asg[a] # None}

TodayIn(rows) == {a \in Assignments : rows[a] # None /\ rows[a].today}
Open == TodayIn(asg)

\* open_assignment of today: it takes any one of the rows there are.
Found(rows) == IF TodayIn(rows) = {} THEN {None} ELSE TodayIn(rows)

\* hk_views._pick: today's open assignment, or a clean room's done one of any day.
Shown ==
    IF Open # {} THEN Open
    ELSE {a \in Rowed : room.status = "clean" /\ asg[a].status = "done"}

Acting == Orderly => ticked
ActingOn(a) == a \in Rowed /\ (Orderly => ticked /\ a \in Shown)

\* service_type_for: someone is in the room, or a departure clean.
ServiceFor == IF occ \in Occupied THEN "touch_up" ELSE "departure"

NewAssignment(status) ==
    [status |-> status, today |-> TRUE,
     type |-> IF room.service = None THEN "departure" ELSE room.service]

----------------------------------------------------------------------------
\* set_status
SetStatus(r, status) == [r EXCEPT !.status = status, !.today = TRUE]

Become(r) == room' = r /\ left' = FALSE

\* Slip: the assignment is left as it is.
DepartureSlip(rows, cur) == rows

\* dirty_for_departure, which finds the assignment cur: one that is done is reopened.
ForDeparture(rows, cur) ==
    IF cur # None /\ rows[cur].status = "done"
      THEN [rows EXCEPT ![cur].status = "assigned", ![cur].type = "departure"]
      ELSE rows
DirtyForDeparture == Become(SetStatus([room EXCEPT !.service = "departure"], "dirty"))

\* ensure_rooms: a room begins inspected.
HouseInit ==
    /\ room = [status |-> "inspected", service |-> None, rush |-> FALSE,
               today |-> TRUE, cleaned |-> FALSE]
    /\ asg = [a \in Assignments |-> None]
    /\ occ \in Occupancy
    /\ left = FALSE
    /\ ticked = TRUE
    /\ soiled = FALSE

MarkDirty ==
    /\ Acting
    /\ room.status = "inspected"
    /\ Become(SetStatus([room EXCEPT !.service = ServiceFor], "dirty"))
    /\ UNCHANGED <<asg, occ, ticked, soiled>>

SetRush ==
    /\ Acting
    /\ room.rush \/ room.status \in {"dirty", "in_progress"}
    /\ room' = [room EXCEPT !.rush = ~@]
    /\ UNCHANGED <<asg, occ, left, ticked, soiled>>

\* set_room_status: out of order or of service; today's assignment is removed...
SetOut(status) ==
    /\ Acting
    /\ room.status # status
    /\ \E cur \in Found(asg) : asg' = [a \in Assignments |-> IF a = cur THEN None ELSE asg[a]]
    /\ Become(SetStatus([room EXCEPT !.rush = FALSE], status))
    /\ UNCHANGED <<occ, ticked, soiled>>

\* Slip: a room is put back as it is taken out, ready.
BackSlip ==
    /\ Acting
    /\ room.status \in Out
    /\ Become(SetStatus([room EXCEPT !.service = ServiceFor], "inspected"))
    /\ UNCHANGED <<asg, occ, ticked, soiled>>

\* ... and back.
PutBack ==
    /\ Acting
    /\ room.status \in Out
    /\ Become(SetStatus([room EXCEPT !.service = ServiceFor], "dirty"))
    /\ UNCHANGED <<asg, occ, ticked, soiled>>

\* Slip: the room's assignment of today is not looked for.
AssignSlip(a) ==
    /\ Acting
    /\ room.status \in {"dirty", "in_progress"}
    /\ asg[a] = None
    /\ asg' = [asg EXCEPT ![a] = NewAssignment("assigned")]
    /\ UNCHANGED <<room, occ, left, ticked, soiled>>

\* assign gives a room a row of today.  (If there is one it changes hands, at most.)
Assign(a) ==
    /\ Acting
    /\ room.status \in {"dirty", "in_progress"}
    /\ Open = {}
    /\ asg[a] = None
    /\ asg' = [asg EXCEPT ![a] = NewAssignment("assigned")]
    /\ UNCHANGED <<room, occ, left, ticked, soiled>>

Unassign(a) ==
    /\ ActingOn(a)
    /\ asg[a].status = "assigned"
    /\ asg' = [asg EXCEPT ![a] = None]
    /\ UNCHANGED <<room, occ, left, ticked, soiled>>

\* No operation on an assignment asks for its date.
Start(a) ==
    /\ ActingOn(a)
    /\ asg[a].status = "assigned"
    /\ room.status = "dirty"
    /\ asg' = [asg EXCEPT ![a].status = "in_progress"]
    /\ Become(SetStatus(room, "in_progress"))
    /\ UNCHANGED <<occ, ticked, soiled>>

SelfAssignStart(a) ==
    /\ Acting
    /\ room.status = "dirty"
    /\ Open = {}
    /\ asg[a] = None
    /\ asg' = [asg EXCEPT ![a] = NewAssignment("in_progress")]
    /\ Become(SetStatus(room, "in_progress"))
    /\ UNCHANGED <<occ, ticked, soiled>>

Complete(a) ==
    /\ ActingOn(a)
    /\ asg[a].status = "in_progress"
    /\ room.status = "in_progress"
    /\ asg' = [asg EXCEPT ![a].status = "done"]
    /\ Become(SetStatus([room EXCEPT !.cleaned = TRUE], "clean"))
    /\ soiled' = FALSE
    /\ UNCHANGED <<occ, ticked>>

\* inspect, with result "pass"...
Pass(a) ==
    /\ ActingOn(a)
    /\ asg[a].status = "done"
    /\ room.status = "clean"
    /\ asg' = [asg EXCEPT ![a] = None]
    /\ Become(SetStatus([room EXCEPT !.rush = FALSE], "inspected"))
    /\ UNCHANGED <<occ, ticked, soiled>>

\* ... and with "fail": the same row goes back.
Fail(a) ==
    /\ ActingOn(a)
    /\ asg[a].status = "done"
    /\ room.status = "clean"
    /\ asg' = [asg EXCEPT ![a].status = "assigned"]
    /\ Become(SetStatus(room, "dirty"))
    /\ UNCHANGED <<occ, ticked, soiled>>

(***************************************************************************)
(* Stays, and the calendar                                                 *)
(***************************************************************************)

\* A reservation, a check-in, a change of room or of departure date: the status of
\* the room is not touched.
Stays(k) ==
    /\ Acting
    /\ occ # k
    /\ occ' = k
    /\ soiled' = (soiled /\ k \notin Occupied)
    /\ UNCHANGED <<room, asg, left, ticked>>

\* Slip: a clean under way is left as it was begun.
UpgradeSlip(rows, cur) ==
    IF cur # None /\ rows[cur].status = "assigned" THEN [rows EXCEPT ![cur].type = "departure"]
    ELSE rows

\* dirty_on_checkout of a room that waits for a clean: it becomes a departure clean.
Upgraded(rows, cur) ==
    IF cur # None /\ rows[cur].status # "done" THEN [rows EXCEPT ![cur].type = "departure"]
    ELSE rows

\* What a check-out makes of the occupancy: it lets nobody in.  It may leave it as it is, when
\* the stay had left before, when somebody else is in the room, or when it is of no visit.
Leaving(k) == k \in {occ, "vacant"} \/ occ \in Occupied

\* The time of a check-out is written once.
LeftAfter(k) == IF k = occ THEN {left, TRUE} ELSE {TRUE}

\* The event stay.checked_out, then dirty_on_checkout, which asks for no occupancy.
CheckOut(k) ==
    /\ Acting
    /\ Leaving(k)
    /\ occ' = k
    /\ soiled' = (k \notin Occupied)
    /\ \/ /\ room.status \in {"dirty", "in_progress"}
          /\ room' = [room EXCEPT !.service = "departure"]
          /\ \E cur \in Found(asg) : asg' = Upgraded(asg, cur)
          /\ left' \in LeftAfter(k)
       \/ /\ room.status \in {"clean", "inspected"}
          /\ \E cur \in Found(asg) : asg' = ForDeparture(asg, cur)
          /\ DirtyForDeparture
       \/ /\ room.status \in Out
          /\ left' \in LeftAfter(k)
          /\ UNCHANGED <<room, asg>>
    /\ UNCHANGED ticked

\* Another event brings the status checked_out: the room is not told.
CheckOutMissed(k) ==
    /\ Acting
    /\ Leaving(k)
    /\ occ' = k
    /\ left' = TRUE
    /\ UNCHANGED <<room, asg, ticked, soiled>>

Midnight ==
    /\ Acting
    /\ room' = [room EXCEPT !.today = FALSE, !.cleaned = FALSE]
    /\ asg' = [a \in Assignments |-> IF asg[a] = None THEN None
                                     ELSE [asg[a] EXCEPT !.today = FALSE]]
    /\ left' = FALSE
    /\ ticked' = FALSE
    /\ UNCHANGED <<occ, soiled>>

\* Slip: a clean that was under way overnight is to be started again.
CarriedSlip ==
    [a \in Assignments |-> IF a \in Rowed /\ asg[a].status = "in_progress"
                             THEN [asg[a] EXCEPT !.today = TRUE, !.status = "assigned"]
                             ELSE asg[a]]

\* An assignment in progress follows the calendar; one that is assigned does not.
Carried ==
    [a \in Assignments |-> IF a \in Rowed /\ asg[a].status = "in_progress"
                             THEN [asg[a] EXCEPT !.today = TRUE]
                             ELSE asg[a]]

\* The tick's two reasons to dirty a room.
Caught == room.status \in {"clean", "inspected"} /\ left
Rolls == room.status \in {"clean", "inspected"} /\ ~room.today /\ occ \in Occupied

HouseTick ==
    /\ ticked' = TRUE
    /\ \/ /\ Caught
          /\ \E cur \in Found(Carried) : asg' = ForDeparture(Carried, cur)
          /\ DirtyForDeparture
          /\ soiled' = (occ \notin Occupied)
       \/ /\ ~Caught
          /\ asg' = Carried
          /\ UNCHANGED soiled
          /\ IF Rolls THEN Become(SetStatus([room EXCEPT !.service = occ], "dirty"))
             ELSE UNCHANGED <<room, left>>
    /\ UNCHANGED occ

----------------------------------------------------------------------------
Staff ==
    \/ MarkDirty
    \/ SetRush
    \/ \E status \in Out : SetOut(status)
    \/ PutBack
    \/ \E a \in Assignments :
         \/ Assign(a)
         \/ Unassign(a)
         \/ Start(a)
         \/ SelfAssignStart(a)
         \/ Complete(a)
         \/ Pass(a)
         \/ Fail(a)

HouseNext ==
    \/ Staff
    \/ \E k \in Occupancy : Stays(k)
    \/ \E k \in Occupancy : CheckOut(k) \/ CheckOutMissed(k)
    \/ Midnight
    \/ HouseTick

HouseSpec == HouseInit /\ [][HouseNext]_houseVars

----------------------------------------------------------------------------
HouseTypeOK ==
    /\ room \in Room
    /\ asg \in [Assignments -> Assignment \cup {None}]
    /\ occ \in Occupancy
    /\ left \in BOOLEAN
    /\ ticked \in BOOLEAN
    /\ soiled \in BOOLEAN

\* A room in progress has an assignment that can be completed, and one that awaits
\* inspection an assignment that can be inspected, across midnights, check-outs
\* and out-of-order spells: it "must not get stuck" (hk_tick.py:28-30).
NeverStuckMidway ==
    /\ room.status = "in_progress" => \E a \in Rowed : asg[a].status = "in_progress"
    /\ room.status = "clean" => \E a \in Rowed : asg[a].status = "done"

\* A room that was told its guest has checked out is not shown as clean or inspected
\* before it has been cleaned: no assignment of an earlier clean, nor a room out of
\* order in between, makes it so (hk_rooms.py:225-266, hk_transitions.py:135-170).
LeftMeansDirty == soiled => room.status \notin {"clean", "inspected"}

\* Both: what the board shows of a room can be acted on, and is true of the room.
BoardIsTrue == NeverStuckMidway /\ LeftMeansDirty

\* "At most one non-passed assignment per room per shift date" (hk_rooms.py:177),
\* though nothing but the order of the calls enforces it.
OneOpenPerDay == \A a, b \in Open : a = b

\* A dirty room can be given to somebody and started: today's assignment, if it
\* has one, is not one under way or done (hk_rooms.py:226-229, "otherwise the room
\* goes dirty but can't be reassigned or started").
DirtyCanBeStarted == room.status = "dirty" => \A a \in Open : asg[a].status = "assigned"

\* After a check-out the clean that is to come is a departure clean, whatever it
\* was begun as: "not silently stay a stayover" (hk_rooms.py:254-256).
DepartureClean ==
    soiled /\ room.status \in {"dirty", "in_progress"} =>
        /\ room.service = "departure"
        /\ \A a \in Open : asg[a].type = "departure"

\* All three: on orderly days a room has one clean a day, that can be begun, and the right one.
OneRightClean == OneOpenPerDay /\ DirtyCanBeStarted /\ DepartureClean

\* The tick rolls a room once a day: one that was cleaned today is dirtied by it
\* only for a check-out since (hk_tick.py:3-5).
RollsOnce ==
    [][HouseTick /\ room.cleaned => room'.status = room.status \/ left]_houseVars
=============================================================================
