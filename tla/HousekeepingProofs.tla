------------------------- MODULE HousekeepingProofs -------------------------
(***************************************************************************)
(* Proofs about Housekeeping, for any number of assignments.  What holds of*)
(* a room at any hour, whichever assignment a request names, comes first;  *)
(* what takes an orderly day, second.                                      *)
(***************************************************************************)
EXTENDS Housekeeping, FiniteSetTheorems, TLAPS

\* What check-outs and the tick make of the assignments are assignments.
LEMMA RowsTyped ==
    ASSUME HouseTypeOK, NEW rows \in [Assignments -> Assignment \cup {None}], NEW cur \in Found(rows)
    PROVE  /\ ForDeparture(rows, cur) \in [Assignments -> Assignment \cup {None}]
           /\ Upgraded(rows, cur) \in [Assignments -> Assignment \cup {None}]
<1>1. CASE cur = None
  BY <1>1 DEF ForDeparture, Upgraded
<1>2. CASE cur \in Assignments /\ rows[cur] \in Assignment
  BY <1>2 DEF ForDeparture, Upgraded, Assignment, Service
<1> QED BY <1>1, <1>2 DEF Found, TodayIn

LEMMA CarriedTyped == HouseTypeOK => Carried \in [Assignments -> Assignment \cup {None}]
BY DEF HouseTypeOK, Carried, Rowed, Assignment

LEMMA TypeStep == HouseTypeOK /\ [HouseNext]_houseVars => HouseTypeOK'
<1> SUFFICES ASSUME HouseTypeOK, [HouseNext]_houseVars PROVE HouseTypeOK'
  OBVIOUS
<1> USE HousekeepingAssumption DEF HouseTypeOK, Room, Assignment, Rowed, HkStatus, Service,
        Occupancy, Occupied, Out, Become, SetStatus
<1>1. CASE MarkDirty
  BY <1>1 DEF MarkDirty, ServiceFor
<1>2. CASE SetRush
  BY <1>2 DEF SetRush
<1>3. ASSUME NEW status \in Out, SetOut(status) PROVE HouseTypeOK'
  BY <1>3 DEF SetOut
<1>4. CASE PutBack
  BY <1>4 DEF PutBack, ServiceFor
<1>5. ASSUME NEW a \in Assignments, Assign(a) PROVE HouseTypeOK'
  BY <1>5 DEF Assign, NewAssignment
<1>6. ASSUME NEW a \in Assignments, Unassign(a) PROVE HouseTypeOK'
  BY <1>6 DEF Unassign
<1>7. ASSUME NEW a \in Assignments, Start(a) PROVE HouseTypeOK'
  BY <1>7 DEF Start, ActingOn
<1>8. ASSUME NEW a \in Assignments, SelfAssignStart(a) PROVE HouseTypeOK'
  BY <1>8 DEF SelfAssignStart, NewAssignment
<1>9. ASSUME NEW a \in Assignments, Complete(a) PROVE HouseTypeOK'
  BY <1>9 DEF Complete, ActingOn
<1>10. ASSUME NEW a \in Assignments, Pass(a) PROVE HouseTypeOK'
  BY <1>10 DEF Pass, ActingOn
<1>11. ASSUME NEW a \in Assignments, Fail(a) PROVE HouseTypeOK'
  BY <1>11 DEF Fail, ActingOn
<1>12. ASSUME NEW k \in Occupancy, Stays(k) PROVE HouseTypeOK'
  BY <1>12 DEF Stays
<1>13. ASSUME NEW k \in Occupancy, CheckOut(k) PROVE HouseTypeOK'
  <2>1. asg' \in [Assignments -> Assignment \cup {None}]
    BY <1>13, RowsTyped DEF CheckOut
  <2>2. room' \in Room
    BY <1>13 DEF CheckOut, DirtyForDeparture
  <2> QED BY <1>13, <2>1, <2>2 DEF CheckOut, LeftAfter, DirtyForDeparture
<1>14. ASSUME NEW k \in Occupancy, CheckOutMissed(k) PROVE HouseTypeOK'
  BY <1>14 DEF CheckOutMissed
<1>15. CASE Midnight
  BY <1>15 DEF Midnight
<1>16. CASE HouseTick
  <2>1. asg' \in [Assignments -> Assignment \cup {None}]
    BY <1>16, RowsTyped, CarriedTyped DEF HouseTick
  <2>2. room' \in Room /\ left' \in BOOLEAN
    <3>1. CASE Caught
      BY <1>16, <3>1 DEF HouseTick, DirtyForDeparture
    <3>2. CASE ~Caught
      BY <1>16, <3>2 DEF HouseTick, Rolls
    <3> QED BY <3>1, <3>2
  <2> QED BY <1>16, <2>1, <2>2 DEF HouseTick
<1>17. CASE UNCHANGED houseVars
  BY <1>17 DEF houseVars
<1>18. QED
  BY <1>1, <1>2, <1>3, <1>4, <1>5, <1>6, <1>7, <1>8, <1>9, <1>10, <1>11, <1>12, <1>13,
     <1>14, <1>15, <1>16, <1>17 DEF HouseNext, Staff

\* Every variable has its type, always.
THEOREM HousekeepingTyped == HouseSpec => []HouseTypeOK
<1>1. HouseInit => HouseTypeOK
  <2> SUFFICES ASSUME HouseInit PROVE HouseTypeOK
    OBVIOUS
  <2>1. room \in Room
    BY DEF HouseInit, Room, HkStatus
  <2> QED BY <2>1 DEF HouseInit, HouseTypeOK
<1> QED BY <1>1, TypeStep, PTL DEF HouseSpec

----------------------------------------------------------------------------
(***************************************************************************)
(* At any hour                                                             *)
(***************************************************************************)

\* A room cleaned today has changed its status today.
CleanedToday == room.cleaned => room.today

RoomInv == HouseTypeOK /\ NeverStuckMidway /\ LeftMeansDirty /\ CleanedToday

\* Neither a check-out that upgrades a clean nor the tick that carries one over
\* changes how far it is.
LEMMA UpgradedStatus ==
    ASSUME HouseTypeOK, NEW cur \in Found(asg), NEW a \in Rowed
    PROVE  Upgraded(asg, cur)[a] # None /\ Upgraded(asg, cur)[a].status = asg[a].status
<1>1. asg[a] \in Assignment /\ a \in Assignments
  BY DEF HouseTypeOK, Rowed
<1>2. CASE cur = None
  BY <1>2, <1>1 DEF Upgraded, Rowed
<1>3. CASE cur \in Assignments
  <2>1. [asg[a] EXCEPT !.type = "departure"] \in Assignment
    BY <1>1 DEF Assignment, Service
  <2> QED BY <1>1, <1>3, <2>1, HousekeepingAssumption DEF Upgraded, Rowed, Assignment, HouseTypeOK
<1> QED BY <1>2, <1>3 DEF Found, TodayIn

LEMMA CarriedStatus ==
    ASSUME HouseTypeOK, NEW a \in Rowed
    PROVE  Carried[a] # None /\ Carried[a].status = asg[a].status
<1>1. asg[a] \in Assignment /\ a \in Assignments
  BY DEF HouseTypeOK, Rowed
<1>2. [asg[a] EXCEPT !.today = TRUE] \in Assignment
  BY <1>1 DEF Assignment
<1> QED BY <1>1, <1>2, HousekeepingAssumption DEF Carried, Rowed, Assignment

\* Midnight turns the page, and changes nothing else of an assignment.
LEMMA MidnightStatus ==
    ASSUME HouseTypeOK, Midnight, NEW a \in Rowed
    PROVE  asg'[a] # None /\ asg'[a].status = asg[a].status
<1>1. asg[a] \in Assignment /\ a \in Assignments
  BY DEF HouseTypeOK, Rowed
<1>2. [asg[a] EXCEPT !.today = FALSE] \in Assignment
  BY <1>1 DEF Assignment
<1> QED BY <1>1, <1>2, HousekeepingAssumption DEF Midnight, Rowed, Assignment

LEMMA RoomStep == RoomInv /\ [HouseNext]_houseVars => RoomInv'
<1> SUFFICES ASSUME RoomInv, [HouseNext]_houseVars PROVE RoomInv'
  OBVIOUS
<1>0. HouseTypeOK /\ HouseTypeOK'
  BY TypeStep DEF RoomInv
<1>a. room \in Room /\ room' \in Room
  BY <1>0 DEF HouseTypeOK
<1> DEFINE Rest == NeverStuckMidway' /\ LeftMeansDirty' /\ CleanedToday'
<1> SUFFICES Rest
  BY <1>0 DEF RoomInv
\* The room is dirty or out of order: whatever its assignments are, it waits.
<1>b. ASSUME room'.status \in {"dirty"} \cup Out, room'.cleaned => room'.today PROVE Rest
  BY <1>b DEF NeverStuckMidway, LeftMeansDirty, CleanedToday, Out
\* The room is as it was, and so are its assignments under way or done.
<1>c. ASSUME room'.status = room.status, room'.cleaned => room'.today, soiled' => soiled,
             \A a \in Rowed : asg[a].status # "assigned" =>
                 a \in Rowed' /\ asg'[a].status = asg[a].status
      PROVE  Rest
  BY <1>c DEF RoomInv, NeverStuckMidway, LeftMeansDirty, CleanedToday
<1> USE <1>0, <1>a DEF Become, SetStatus
<1>1. CASE MarkDirty
  BY <1>1, <1>b DEF MarkDirty, Room
<1>2. CASE SetRush
  <2>1. room'.status = room.status /\ (room'.cleaned => room'.today)
    BY <1>2 DEF SetRush, Room, RoomInv, CleanedToday
  <2> QED BY <1>2, <2>1, <1>c DEF SetRush, Rowed
<1>3. ASSUME NEW status \in Out, SetOut(status) PROVE Rest
  BY <1>3, <1>b DEF SetOut, Room
<1>4. CASE PutBack
  BY <1>4, <1>b DEF PutBack, Room
<1>5. ASSUME NEW a \in Assignments, Assign(a) PROVE Rest
  BY <1>5, <1>c DEF Assign, Rowed, RoomInv, CleanedToday, HouseTypeOK
<1>6. ASSUME NEW a \in Assignments, Unassign(a) PROVE Rest
  BY <1>6, <1>c DEF Unassign, Rowed, RoomInv, CleanedToday, HouseTypeOK
<1>7. ASSUME NEW a \in Assignments, Start(a) PROVE Rest
  <2>1. asg[a] \in Assignment /\ asg' = [asg EXCEPT ![a] = [asg[a] EXCEPT !.status = "in_progress"]]
    BY <1>7 DEF Start, ActingOn, Rowed, HouseTypeOK
  <2>2. [asg[a] EXCEPT !.status = "in_progress"] \in Assignment
    BY <2>1 DEF Assignment
  <2>3. a \in Rowed' /\ asg'[a].status = "in_progress"
    BY <2>1, <2>2, HousekeepingAssumption DEF Rowed, HouseTypeOK, Assignment
  <2>4. room'.status = "in_progress" /\ room'.today
    BY <1>7 DEF Start, Room
  <2> QED BY <2>3, <2>4 DEF NeverStuckMidway, LeftMeansDirty, CleanedToday
<1>8. ASSUME NEW a \in Assignments, SelfAssignStart(a) PROVE Rest
  <2>1. a \in Rowed' /\ asg'[a].status = "in_progress"
    <3>1. NewAssignment("in_progress") \in Assignment
      BY DEF NewAssignment, Assignment, Room, Service
    <3> QED BY <1>8, <3>1, HousekeepingAssumption DEF SelfAssignStart, Rowed, HouseTypeOK, NewAssignment
  <2>2. room'.status = "in_progress" /\ room'.today
    BY <1>8 DEF SelfAssignStart, Room
  <2> QED BY <2>1, <2>2 DEF NeverStuckMidway, LeftMeansDirty, CleanedToday
<1>9. ASSUME NEW a \in Assignments, Complete(a) PROVE Rest
  <2>1. asg[a] \in Assignment /\ asg' = [asg EXCEPT ![a] = [asg[a] EXCEPT !.status = "done"]]
    BY <1>9 DEF Complete, ActingOn, Rowed, HouseTypeOK
  <2>2. [asg[a] EXCEPT !.status = "done"] \in Assignment
    BY <2>1 DEF Assignment
  <2>3. a \in Rowed' /\ asg'[a].status = "done"
    BY <2>1, <2>2, HousekeepingAssumption DEF Rowed, HouseTypeOK, Assignment
  <2>4. room'.status = "clean" /\ room'.today /\ ~soiled'
    BY <1>9 DEF Complete, Room
  <2> QED BY <2>3, <2>4 DEF NeverStuckMidway, LeftMeansDirty, CleanedToday
\* Only a clean room is inspected, and a clean room is not one a guest has left.
<1>10. ASSUME NEW a \in Assignments, Pass(a) PROVE Rest
  <2>1. room'.status = "inspected" /\ room'.today /\ ~soiled'
    BY <1>10 DEF Pass, Room, RoomInv, LeftMeansDirty
  <2> QED BY <2>1 DEF NeverStuckMidway, LeftMeansDirty, CleanedToday
<1>11. ASSUME NEW a \in Assignments, Fail(a) PROVE Rest
  BY <1>11, <1>b DEF Fail, Room
<1>12. ASSUME NEW k \in Occupancy, Stays(k) PROVE Rest
  BY <1>12, <1>c DEF Stays, Rowed, RoomInv, CleanedToday
<1>13. ASSUME NEW k \in Occupancy, CheckOut(k) PROVE Rest
  <2>1. CASE room.status = "dirty" \/ room.status \in Out
    <3>1. room'.status = room.status /\ (room'.cleaned => room'.today)
      BY <1>13, <2>1 DEF CheckOut, Room, Out, RoomInv, CleanedToday
    <3> QED BY <2>1, <3>1, <1>b
  <2>2. CASE room.status = "in_progress"
    <3>1. PICK a \in Rowed : asg[a].status = "in_progress"
      BY <2>2 DEF RoomInv, NeverStuckMidway
    <3>2. PICK cur \in Found(asg) : asg' = Upgraded(asg, cur)
      BY <1>13, <2>2 DEF CheckOut, Out
    <3>3. asg'[a] # None /\ asg'[a].status = "in_progress" /\ a \in Assignments
      BY <3>1, <3>2, UpgradedStatus DEF Rowed
    <3>4. room'.status = "in_progress" /\ (room'.cleaned => room'.today)
      BY <1>13, <2>2 DEF CheckOut, Room, Out, RoomInv, CleanedToday
    <3> QED BY <3>3, <3>4 DEF NeverStuckMidway, LeftMeansDirty, CleanedToday, Rowed
  <2>3. CASE room.status \in {"clean", "inspected"}
    <3>1. DirtyForDeparture
      BY <1>13, <2>3 DEF CheckOut, Out
    <3> QED BY <3>1, <1>b DEF DirtyForDeparture, Room
  <2> QED BY <2>1, <2>2, <2>3 DEF Room, HkStatus
<1>14. ASSUME NEW k \in Occupancy, CheckOutMissed(k) PROVE Rest
  BY <1>14, <1>c DEF CheckOutMissed, Rowed, RoomInv, CleanedToday
<1>15. CASE Midnight
  <2>1. room'.status = room.status /\ ~room'.cleaned /\ soiled' = soiled
    BY <1>15 DEF Midnight, Room
  <2>2. \A a \in Rowed : a \in Rowed' /\ asg'[a].status = asg[a].status
    BY <1>15, MidnightStatus DEF Rowed
  <2> QED BY <2>1, <2>2, <1>c
<1>16. CASE HouseTick
  <2>1. CASE Caught
    BY <1>16, <2>1, <1>b DEF HouseTick, DirtyForDeparture, Room
  <2>2. CASE ~Caught /\ Rolls
    BY <1>16, <2>2, <1>b DEF HouseTick, Room
  <2>3. CASE ~Caught /\ ~Rolls
    <3>1. \A a \in Rowed : a \in Rowed' /\ asg'[a].status = asg[a].status
      BY <1>16, <2>3, CarriedStatus DEF HouseTick, Rowed
    <3> QED BY <1>16, <2>3, <3>1, <1>c DEF HouseTick, RoomInv, CleanedToday
  <2> QED BY <2>1, <2>2, <2>3
<1>17. CASE UNCHANGED houseVars
  BY <1>17, <1>c DEF houseVars, Rowed, RoomInv, CleanedToday
<1> QED
  BY <1>1, <1>2, <1>3, <1>4, <1>5, <1>6, <1>7, <1>8, <1>9, <1>10, <1>11, <1>12, <1>13,
     <1>14, <1>15, <1>16, <1>17 DEF HouseNext, Staff

LEMMA RoomInit == HouseInit => RoomInv
<1> SUFFICES ASSUME HouseInit PROVE RoomInv
  OBVIOUS
<1>1. HouseTypeOK
  <2>1. room \in Room
    BY DEF HouseInit, Room, HkStatus
  <2> QED BY <2>1 DEF HouseInit, HouseTypeOK
<1> QED BY <1>1 DEF HouseInit, RoomInv, NeverStuckMidway, LeftMeansDirty, CleanedToday

\* A room under way can be completed and a clean one inspected, at any hour,
\* whichever assignment a request names and however many there are.
THEOREM NoRoomStuck == HouseSpec => []NeverStuckMidway
<1>1. RoomInv => NeverStuckMidway
  BY DEF RoomInv
<1> QED BY <1>1, RoomInit, RoomStep, PTL DEF HouseSpec

\* A room a guest has checked out of is cleaned before it is shown as clean.
THEOREM NoDirtyRoomShownReady == HouseSpec => []LeftMeansDirty
<1>1. RoomInv => LeftMeansDirty
  BY DEF RoomInv
<1> QED BY <1>1, RoomInit, RoomStep, PTL DEF HouseSpec

\* Together: at any hour, whatever a request names, the board can be acted on and is true.
THEOREM BoardStaysTrue == HouseSpec => []BoardIsTrue
<1>1. NeverStuckMidway /\ LeftMeansDirty => BoardIsTrue
  BY DEF BoardIsTrue
<1> QED BY <1>1, NoRoomStuck, NoDirtyRoomShownReady, PTL

\* The tick never rolls a room that was cleaned today, but for a check-out.
THEOREM TickRollsOnce == HouseSpec => RollsOnce
<1>1. RoomInv /\ [HouseNext]_houseVars => [HouseTick /\ room.cleaned => room'.status = room.status \/ left]_houseVars
  BY DEF RoomInv, CleanedToday, HouseTick, Caught, Rolls
<1> QED BY <1>1, RoomInit, RoomStep, PTL DEF HouseSpec, RollsOnce

----------------------------------------------------------------------------
(***************************************************************************)
(* On an orderly day                                                       *)
(***************************************************************************)

\* How far today's assignment is, by the room's status.
Matches(status) ==
    CASE room.status = "dirty"       -> status = "assigned"
      [] room.status = "in_progress" -> status = "in_progress"
      [] room.status = "clean"       -> status = "done"
      [] OTHER                       -> FALSE

\* Between midnight and the tick no assignment is today's; after it the one under
\* way, if any, is, and it is the room's.
DayInv ==
    /\ OneOpenPerDay
    /\ ~ticked => Open = {}
    /\ \A a \in Open : Matches(asg[a].status)
    /\ \A a \in Rowed : asg[a].status = "in_progress" =>
         /\ room.status = "in_progress"
         /\ ticked => asg[a].today
         /\ \A b \in Rowed : asg[b].status = "in_progress" => a = b
    /\ room.status = "clean" /\ Open # {} => room.today

\* What a departure asks for outlives midnight on the assignment under way.
StayInv ==
    soiled =>
        /\ occ \notin Occupied
        /\ room.status \notin {"clean", "inspected"}
        /\ room.status \notin Out => room.service = "departure"
        /\ \A a \in Rowed : a \in Open \/ asg[a].status = "in_progress"
                              => asg[a].type = "departure"

LEMMA RowFields ==
    ASSUME HouseTypeOK
    PROVE  /\ Open \subseteq Rowed /\ Rowed \subseteq Assignments
           /\ \A a \in Rowed : asg[a] \in Assignment /\ (a \in Open <=> asg[a].today)
BY DEF HouseTypeOK, Rowed, Open, TodayIn

\* A row is written...
LEMMA RowWritten ==
    ASSUME HouseTypeOK, NEW a \in Assignments, NEW x \in Assignment, asg' = [asg EXCEPT ![a] = x]
    PROVE  /\ Rowed' = Rowed \cup {a}
           /\ Open' = IF x.today THEN Open \cup {a} ELSE Open \ {a}
           /\ asg'[a] = x
           /\ \A b \in Rowed \ {a} : asg'[b] = asg[b]
<1>1. asg'[a] = x /\ \A b \in Assignments \ {a} : asg'[b] = asg[b]
  BY DEF HouseTypeOK
<1>2. x # None
  BY HousekeepingAssumption
<1> QED BY <1>1, <1>2 DEF Rowed, Open, TodayIn

\* ... or removed.
LEMMA RowRemoved ==
    ASSUME HouseTypeOK, NEW a, asg' = [b \in Assignments |-> IF b = a THEN None ELSE asg[b]]
    PROVE  /\ Rowed' = Rowed \ {a}
           /\ Open' = Open \ {a}
           /\ \A b \in Rowed' : asg'[b] = asg[b]
<1>1. \A b \in Assignments : asg'[b] = IF b = a THEN None ELSE asg[b]
  OBVIOUS
<1> QED BY <1>1 DEF Rowed, Open, TodayIn

\* A row goes a step further: it is still the room's, of the same day and kind.
LEMMA StatusWritten ==
    ASSUME HouseTypeOK, NEW a \in Rowed, NEW status \in {"assigned", "in_progress", "done"},
           asg' = [asg EXCEPT ![a] = [asg[a] EXCEPT !.status = status]]
    PROVE  /\ Rowed' = Rowed /\ Open' = Open
           /\ asg'[a].status = status /\ asg'[a].today = asg[a].today
           /\ asg'[a].type = asg[a].type
           /\ \A b \in Rowed \ {a} : asg'[b] = asg[b]
<1> DEFINE x == [asg[a] EXCEPT !.status = status]
<1>1. /\ a \in Assignments /\ x \in Assignment /\ x.status = status
      /\ x.today = asg[a].today /\ x.type = asg[a].type /\ x.today \in BOOLEAN
  BY RowFields DEF Assignment
<1> HIDE DEF x
<1>2. asg' = [asg EXCEPT ![a] = x]
  BY DEF x
<1>3. /\ Rowed' = Rowed \cup {a} /\ Open' = IF x.today THEN Open \cup {a} ELSE Open \ {a}
      /\ asg'[a] = x /\ \A b \in Rowed \ {a} : asg'[b] = asg[b]
  BY <1>1, <1>2, RowWritten
<1>4. a \in Open <=> x.today
  BY <1>1, RowFields
<1> QED BY <1>1, <1>3, <1>4

OrderlyInv == RoomInv /\ DayInv /\ StayInv

LEMMA OrderlyStaff ==
    ASSUME Orderly, OrderlyInv, Staff
    PROVE  DayInv' /\ StayInv'
<1> USE RowFields
<1>0. HouseTypeOK /\ NeverStuckMidway /\ room \in Room
  BY DEF OrderlyInv, RoomInv, HouseTypeOK
<1>t. ticked /\ ticked' /\ occ' = occ
  BY DEF Staff, Acting, ActingOn, MarkDirty, SetRush, SetOut, PutBack, Assign, Unassign, Start,
         SelfAssignStart, Complete, Pass, Fail
\* What staff act on is today's one assignment, except in a clean room.
<1>s. ASSUME NEW a \in Assignments, ActingOn(a)
      PROVE  a \in Rowed /\ (Open = {a} \/ (Open = {} /\ room.status = "clean"))
  BY <1>s DEF ActingOn, Shown, OrderlyInv, DayInv, OneOpenPerDay
<1> USE <1>0, <1>t DEF OrderlyInv, Become, SetStatus
<1> DEFINE Kept == DayInv' /\ StayInv'
\* The assignments are as they were, and none is today's or under way.
<1>a. ASSUME UNCHANGED asg, Open = {}, \A a \in Rowed : asg[a].status # "in_progress",
             soiled' => room'.status \notin {"clean", "inspected"} /\ occ \notin Occupied,
             soiled' /\ room'.status \notin Out => room'.service = "departure"
      PROVE  Kept
  <2>1. Open' = Open /\ Rowed' = Rowed
    BY <1>a DEF Open, TodayIn, Rowed
  <2> QED BY <1>a, <2>1 DEF DayInv, StayInv, OneOpenPerDay, Matches
<1>1. CASE MarkDirty
  <2>1. Open = {}
    BY <1>1 DEF MarkDirty, DayInv, Matches
  <2>2. ~soiled' /\ UNCHANGED asg /\ room.status # "in_progress"
    BY <1>1 DEF MarkDirty, StayInv
  <2> QED BY <2>1, <2>2, <1>a DEF DayInv
<1>2. CASE SetRush
  <2>1. /\ UNCHANGED <<asg, soiled>> /\ room'.status = room.status
        /\ room'.service = room.service /\ room'.today = room.today
    BY <1>2 DEF SetRush, Room
  <2>2. Open' = Open /\ Rowed' = Rowed
    BY <2>1 DEF Open, TodayIn, Rowed
  <2> QED BY <2>1, <2>2 DEF DayInv, StayInv, OneOpenPerDay, Matches
<1>3. ASSUME NEW status \in Out, SetOut(status) PROVE Kept
  <2>1. PICK cur \in Found(asg) :
            asg' = [a \in Assignments |-> IF a = cur THEN None ELSE asg[a]]
    BY <1>3 DEF SetOut
  <2>2. /\ Rowed' = Rowed \ {cur} /\ Open' = Open \ {cur}
        /\ \A b \in Rowed' : asg'[b] = asg[b]
    BY <2>1, RowRemoved
  <2>3. Open' = {}
    BY <2>1, <2>2 DEF Found, Open, DayInv, OneOpenPerDay
  <2>4. \A b \in Rowed' : asg'[b].status # "in_progress"
    BY <2>2, <2>3 DEF DayInv
  <2>5. room'.status \in Out /\ soiled' = soiled
    BY <1>3 DEF SetOut, Room
  <2> QED BY <2>3, <2>4, <2>5 DEF DayInv, StayInv, OneOpenPerDay, Out
<1>4. CASE PutBack
  <2>1. Open = {} /\ UNCHANGED <<asg, soiled>> /\ room.status # "in_progress"
    BY <1>4 DEF PutBack, DayInv, Matches, Out
  <2>2. room'.status = "dirty" /\ room'.service = ServiceFor
    BY <1>4 DEF PutBack, Room
  <2> QED BY <2>1, <2>2, <1>a DEF DayInv, StayInv, ServiceFor
<1>5. ASSUME NEW a \in Assignments, Assign(a) PROVE Kept
  <2>1. /\ Open = {} /\ a \notin Rowed /\ asg' = [asg EXCEPT ![a] = NewAssignment("assigned")]
        /\ UNCHANGED <<room, soiled>> /\ room.status \in {"dirty", "in_progress"}
    BY <1>5 DEF Assign, Rowed
  <2>2. room.status = "dirty" /\ \A b \in Rowed : asg[b].status # "in_progress"
    BY <2>1 DEF DayInv, NeverStuckMidway
  <2>3. NewAssignment("assigned") \in Assignment
    BY DEF NewAssignment, Assignment, Room, Service
  <2>4. /\ Rowed' = Rowed \cup {a} /\ Open' = {a} /\ asg'[a] = NewAssignment("assigned")
        /\ \A b \in Rowed : asg'[b] = asg[b]
    BY <2>1, <2>3, RowWritten DEF NewAssignment
  <2>5. soiled => NewAssignment("assigned").type = "departure"
    BY <2>2, HousekeepingAssumption DEF StayInv, NewAssignment, Out
  <2>6. NewAssignment("assigned").status = "assigned"
    BY DEF NewAssignment
  <2> QED BY <2>1, <2>2, <2>4, <2>5, <2>6 DEF DayInv, StayInv, OneOpenPerDay, Matches
<1>6. ASSUME NEW a \in Assignments, Unassign(a) PROVE Kept
  <2>1. asg' = [b \in Assignments |-> IF b = a THEN None ELSE asg[b]] /\ UNCHANGED <<room, soiled>>
    BY <1>6 DEF Unassign, HouseTypeOK
  <2>2. /\ Rowed' = Rowed \ {a} /\ Open' = Open \ {a} /\ \A b \in Rowed' : asg'[b] = asg[b]
    BY <2>1, RowRemoved
  <2> QED BY <2>1, <2>2 DEF DayInv, StayInv, OneOpenPerDay, Matches
<1>7. ASSUME NEW a \in Assignments, Start(a) PROVE Kept
  <2>1. /\ Open = {a} /\ room.status = "dirty" /\ UNCHANGED soiled
        /\ asg' = [asg EXCEPT ![a] = [asg[a] EXCEPT !.status = "in_progress"]]
    BY <1>7, <1>s DEF Start
  <2>2. /\ Rowed' = Rowed /\ Open' = {a} /\ \A b \in Rowed \ {a} : asg'[b] = asg[b]
        /\ asg'[a].status = "in_progress" /\ asg'[a].today = asg[a].today
        /\ asg'[a].type = asg[a].type
    BY <2>1, StatusWritten
  <2>3. room'.status = "in_progress" /\ room'.service = room.service
    BY <1>7 DEF Start, Room
  <2>4. \A b \in Rowed \ {a} : asg'[b].status # "in_progress"
    BY <2>1, <2>2 DEF DayInv
  <2>5. DayInv'
    BY <2>1, <2>2, <2>3, <2>4 DEF DayInv, OneOpenPerDay, Matches
  <2>6. StayInv'
    BY <2>1, <2>2, <2>3, <2>4 DEF StayInv, Out
  <2> QED BY <2>5, <2>6
<1>8. ASSUME NEW a \in Assignments, SelfAssignStart(a) PROVE Kept
  <2>1. /\ Open = {} /\ a \notin Rowed /\ asg' = [asg EXCEPT ![a] = NewAssignment("in_progress")]
        /\ UNCHANGED soiled /\ room.status = "dirty"
    BY <1>8 DEF SelfAssignStart, Rowed
  <2>2. \A b \in Rowed : asg[b].status # "in_progress"
    BY <2>1 DEF DayInv
  <2>3. NewAssignment("in_progress") \in Assignment
    BY DEF NewAssignment, Assignment, Room, Service
  <2>4. /\ Rowed' = Rowed \cup {a} /\ Open' = {a} /\ asg'[a] = NewAssignment("in_progress")
        /\ \A b \in Rowed : asg'[b] = asg[b]
    BY <2>1, <2>3, RowWritten DEF NewAssignment
  <2>5. soiled => NewAssignment("in_progress").type = "departure"
    BY <2>1, HousekeepingAssumption DEF StayInv, NewAssignment, Out
  <2>6. NewAssignment("in_progress").status = "in_progress" /\ NewAssignment("in_progress").today
    BY DEF NewAssignment
  <2>7. room'.status = "in_progress" /\ room'.service = room.service
    BY <1>8 DEF SelfAssignStart, Room
  <2>8. DayInv'
    BY <2>2, <2>4, <2>6, <2>7 DEF DayInv, OneOpenPerDay, Matches
  <2>9. StayInv'
    BY <2>1, <2>2, <2>4, <2>5, <2>7 DEF StayInv, Out
  <2> QED BY <2>8, <2>9
<1>9. ASSUME NEW a \in Assignments, Complete(a) PROVE Kept
  <2>1. /\ Open = {a} /\ room.status = "in_progress" /\ asg[a].status = "in_progress"
        /\ asg' = [asg EXCEPT ![a] = [asg[a] EXCEPT !.status = "done"]] /\ ~soiled'
    BY <1>9, <1>s DEF Complete
  <2>2. /\ Rowed' = Rowed /\ Open' = {a} /\ asg'[a].status = "done"
        /\ \A b \in Rowed \ {a} : asg'[b] = asg[b]
    BY <2>1, StatusWritten
  <2>3. room'.status = "clean" /\ room'.today
    BY <1>9 DEF Complete, Room
  <2>4. \A b \in Rowed \ {a} : asg'[b].status # "in_progress"
    BY <2>1, <2>2 DEF DayInv
  <2> QED BY <2>1, <2>2, <2>3, <2>4 DEF DayInv, StayInv, OneOpenPerDay, Matches
\* A clean room has nothing under way, and the guest has not left it.
<1>c. ASSUME room.status = "clean"
      PROVE  ~soiled /\ \A b \in Rowed : asg[b].status # "in_progress"
  BY <1>c DEF DayInv, StayInv
<1>10. ASSUME NEW a \in Assignments, Pass(a) PROVE Kept
  <2>1. /\ asg' = [b \in Assignments |-> IF b = a THEN None ELSE asg[b]]
        /\ UNCHANGED soiled /\ room.status = "clean" /\ Open \subseteq {a}
    BY <1>10, <1>s DEF Pass, HouseTypeOK
  <2>2. /\ Rowed' = Rowed \ {a} /\ Open' = {} /\ \A b \in Rowed' : asg'[b] = asg[b]
    BY <2>1, RowRemoved
  <2> QED BY <2>1, <2>2, <1>c DEF DayInv, StayInv, OneOpenPerDay
<1>11. ASSUME NEW a \in Assignments, Fail(a) PROVE Kept
  <2>1. /\ asg' = [asg EXCEPT ![a] = [asg[a] EXCEPT !.status = "assigned"]]
        /\ UNCHANGED soiled /\ room.status = "clean" /\ Open \subseteq {a} /\ a \in Rowed
    BY <1>11, <1>s DEF Fail
  <2>2. /\ Rowed' = Rowed /\ Open' \subseteq {a} /\ asg'[a].status = "assigned"
        /\ \A b \in Rowed \ {a} : asg'[b] = asg[b]
    BY <2>1, StatusWritten
  <2>3. room'.status = "dirty"
    BY <1>11 DEF Fail, Room
  <2>4. \A b \in Rowed : asg'[b].status # "in_progress"
    BY <2>1, <2>2, <1>c
  <2> QED BY <2>1, <2>2, <2>3, <2>4, <1>c DEF DayInv, StayInv, OneOpenPerDay, Matches
<1> QED
  BY <1>1, <1>2, <1>3, <1>4, <1>5, <1>6, <1>7, <1>8, <1>9, <1>10, <1>11 DEF Staff

\* What a check-out makes of a finished clean's assignment, when it is today's only one.
LEMMA ReopenedRows ==
    ASSUME NEW rows \in [Assignments -> Assignment \cup {None}], NEW cur \in Found(rows),
           \A a, b \in TodayIn(rows) : a = b,
           \A a \in TodayIn(rows) : rows[a].status = "done",
           asg' = ForDeparture(rows, cur)
    PROVE  /\ Open' = TodayIn(rows)
           /\ \A a \in Open' : asg'[a].status = "assigned" /\ asg'[a].type = "departure"
           /\ \A a \in Rowed' \ Open' : rows[a] # None /\ asg'[a] = rows[a]
<1>1. CASE TodayIn(rows) = {}
  <2>1. asg' = rows
    BY <1>1 DEF Found, ForDeparture
  <2> QED BY <1>1, <2>1 DEF Open, TodayIn, Rowed
<1>2. CASE TodayIn(rows) # {}
  <2> DEFINE x == [[rows[cur] EXCEPT !.status = "assigned"] EXCEPT !.type = "departure"]
  <2>1. /\ cur \in Assignments /\ cur # None /\ TodayIn(rows) = {cur}
        /\ rows[cur] \in Assignment /\ rows[cur].today /\ rows[cur].status = "done"
    BY <1>2, HousekeepingAssumption DEF Found, TodayIn
  <2>2. x \in Assignment /\ x.today /\ x.status = "assigned" /\ x.type = "departure"
    BY <2>1 DEF Assignment, Service
  <2>3. x # None
    BY <2>2, HousekeepingAssumption
  <2>4. asg' = [rows EXCEPT ![cur] = x]
    BY <2>1 DEF ForDeparture
  <2> HIDE DEF x
  <2>5. asg'[cur] = x /\ \A a \in Assignments \ {cur} : asg'[a] = rows[a]
    BY <2>1, <2>4
  <2> QED BY <2>1, <2>2, <2>3, <2>5 DEF Open, TodayIn, Rowed
<1> QED BY <1>1, <1>2

\* What it makes of the assignment of a clean that is still to be done.
LEMMA UpgradedRows ==
    ASSUME HouseTypeOK, OneOpenPerDay, \A a \in Open : asg[a].status # "done",
           NEW cur \in Found(asg), asg' = Upgraded(asg, cur)
    PROVE  /\ Open' = Open /\ Rowed' = Rowed
           /\ \A a \in Open : asg'[a].type = "departure" /\ asg'[a].status = asg[a].status
           /\ \A a \in Rowed \ Open : asg'[a] = asg[a]
           /\ \A a \in Rowed : asg'[a].today = asg[a].today
<1>1. CASE Open = {}
  <2>1. asg' = asg
    BY <1>1 DEF Found, Upgraded, Open
  <2> QED BY <1>1, <2>1 DEF Open, TodayIn, Rowed
<1>2. CASE Open # {}
  <2> DEFINE x == [asg[cur] EXCEPT !.type = "departure"]
  <2>1. /\ cur \in Assignments /\ cur # None /\ Open = {cur} /\ asg[cur].status # "done"
        /\ asg[cur] \in Assignment /\ asg[cur].today /\ cur \in Rowed
    BY <1>2, HousekeepingAssumption DEF Found, TodayIn, Open, OneOpenPerDay, HouseTypeOK, Rowed
  <2>2. /\ x \in Assignment /\ x.status = asg[cur].status /\ x.type = "departure"
        /\ x.today = asg[cur].today /\ x.today
    BY <2>1 DEF Assignment, Service
  <2>3. asg' = [asg EXCEPT ![cur] = x]
    BY <2>1 DEF Upgraded
  <2> HIDE DEF x
  <2>4. /\ Rowed' = Rowed /\ Open' = Open /\ asg'[cur] = x
        /\ \A b \in Rowed \ {cur} : asg'[b] = asg[b]
    <3>1. /\ Rowed' = Rowed \cup {cur} /\ asg'[cur] = x
          /\ Open' = IF x.today THEN Open \cup {cur} ELSE Open \ {cur}
          /\ \A b \in Rowed \ {cur} : asg'[b] = asg[b]
      BY <2>1, <2>2, <2>3, RowWritten
    <3> QED BY <3>1, <2>1, <2>2
  <2> QED BY <2>1, <2>2, <2>4
<1> QED BY <1>1, <1>2

\* The tick makes today's what is under way.
LEMMA CarriedRows ==
    ASSUME HouseTypeOK
    PROVE  /\ \A a \in Rowed : Carried[a].type = asg[a].type /\ Carried[a].status = asg[a].status
           /\ \A a \in Assignments : Carried[a] # None <=> a \in Rowed
           /\ TodayIn(Carried) = Open \cup {a \in Rowed : asg[a].status = "in_progress"}
<1>1. ASSUME NEW a \in Rowed
      PROVE  /\ Carried[a] # None /\ Carried[a].type = asg[a].type
             /\ Carried[a].status = asg[a].status
             /\ Carried[a].today <=> (asg[a].today \/ asg[a].status = "in_progress")
  <2>1. asg[a] \in Assignment /\ a \in Assignments
    BY RowFields
  <2>2. [asg[a] EXCEPT !.today = TRUE] \in Assignment
    BY <2>1 DEF Assignment
  <2> QED BY <2>1, <2>2, HousekeepingAssumption DEF Carried, Assignment
<1>2. \A a \in Assignments \ Rowed : Carried[a] = None
  BY DEF Carried, Rowed
<1> QED BY <1>1, <1>2, RowFields DEF TodayIn

\* Midnight makes nothing today's.
LEMMA MidnightRows ==
    ASSUME HouseTypeOK, Midnight
    PROVE  /\ Open' = {} /\ Rowed' = Rowed
           /\ \A a \in Rowed : asg'[a].type = asg[a].type /\ asg'[a].status = asg[a].status
<1>1. ASSUME NEW a \in Rowed
      PROVE  /\ asg'[a] # None /\ asg'[a].type = asg[a].type
             /\ asg'[a].status = asg[a].status /\ ~asg'[a].today
  <2>1. asg[a] \in Assignment /\ a \in Assignments
    BY RowFields
  <2>2. [asg[a] EXCEPT !.today = FALSE] \in Assignment
    BY <2>1 DEF Assignment
  <2> QED BY <2>1, <2>2, HousekeepingAssumption DEF Midnight, Assignment
<1>2. \A a \in Assignments \ Rowed : asg'[a] = None
  BY DEF Midnight, Rowed
<1> QED BY <1>1, <1>2, RowFields DEF Open, TodayIn, Rowed

LEMMA OrderlyStep == Orderly /\ OrderlyInv /\ [HouseNext]_houseVars => OrderlyInv'
<1> SUFFICES ASSUME Orderly, OrderlyInv, [HouseNext]_houseVars PROVE OrderlyInv'
  OBVIOUS
<1>0. HouseTypeOK /\ room \in Room /\ RoomInv'
  BY RoomStep DEF OrderlyInv, RoomInv, HouseTypeOK
<1> DEFINE Kept == DayInv' /\ StayInv'
<1> SUFFICES Kept
  BY <1>0 DEF OrderlyInv
<1> USE <1>0, RowFields DEF OrderlyInv, Become, SetStatus
\* The room's last clean ends its stay: what is to come is a departure.
<1>d. ASSUME NEW rows \in [Assignments -> Assignment \cup {None}], NEW cur \in Found(rows),
             asg' = ForDeparture(rows, cur), DirtyForDeparture, ticked',
             soiled' => occ' \notin Occupied, room.status \in {"clean", "inspected"},
             TodayIn(rows) = Open, \A a \in Rowed : rows[a].status = asg[a].status,
             \A a \in Assignments : rows[a] # None <=> a \in Rowed
      PROVE  Kept
  <2>1. \A a \in Rowed : asg[a].status # "in_progress"
    BY <1>d DEF DayInv
  <2>2. \A a \in Open : asg[a].status = "done"
    BY <1>d DEF DayInv, Matches
  <2>3. /\ Open' = Open
        /\ \A a \in Open' : asg'[a].status = "assigned" /\ asg'[a].type = "departure"
        /\ \A a \in Rowed' \ Open' : rows[a] # None /\ asg'[a] = rows[a]
    BY <1>d, <2>2, ReopenedRows DEF DayInv, OneOpenPerDay
  <2>4. \A a \in Rowed' : asg'[a].status # "in_progress"
    <3> SUFFICES ASSUME NEW a \in Rowed', a \notin Open' PROVE asg'[a].status # "in_progress"
      BY <2>3
    <3>1. a \in Assignments /\ a \in Rowed /\ asg'[a] = rows[a]
      BY <2>3, <1>d DEF Rowed
    <3> QED BY <3>1, <1>d, <2>1
  <2>5. room'.status = "dirty" /\ room'.service = "departure"
    BY <1>d DEF DirtyForDeparture, Room
  <2> QED BY <1>d, <2>3, <2>4, <2>5 DEF DayInv, StayInv, OneOpenPerDay, Matches
<1>1. CASE Staff
  BY <1>1, OrderlyStaff
<1>2. ASSUME NEW k \in Occupancy, Stays(k) PROVE Kept
  <2>1. Open' = Open /\ Rowed' = Rowed
    BY <1>2 DEF Stays, Open, TodayIn, Rowed
  <2> QED BY <1>2, <2>1 DEF Stays, DayInv, StayInv, OneOpenPerDay, Matches
<1>3. ASSUME NEW k \in Occupancy, CheckOut(k) PROVE Kept
  <2>0. ticked /\ ticked' /\ (soiled' => occ' \notin Occupied)
    BY <1>3 DEF CheckOut, Acting
  <2>1. CASE room.status \in {"dirty", "in_progress"}
    <3>1. PICK cur \in Found(asg) : asg' = Upgraded(asg, cur)
      BY <1>3, <2>1 DEF CheckOut, Out
    <3>2. \A a \in Open : asg[a].status # "done"
      BY <2>1 DEF DayInv, Matches
    <3>3. /\ Open' = Open /\ Rowed' = Rowed
          /\ \A a \in Open : asg'[a].type = "departure" /\ asg'[a].status = asg[a].status
          /\ \A a \in Rowed \ Open : asg'[a] = asg[a]
          /\ \A a \in Rowed : asg'[a].today = asg[a].today
      BY <3>1, <3>2, UpgradedRows DEF DayInv
    <3>4. room'.status = room.status /\ room'.service = "departure"
      BY <1>3, <2>1 DEF CheckOut, Room, Out
    <3>5. DayInv'
      BY <2>0, <2>1, <3>3, <3>4 DEF DayInv, OneOpenPerDay, Matches
    <3>6. StayInv'
      BY <2>0, <2>1, <3>3, <3>4 DEF DayInv, StayInv
    <3> QED BY <3>5, <3>6
  <2>2. CASE room.status \in {"clean", "inspected"}
    BY <1>3, <2>0, <2>2, <1>d DEF CheckOut, HouseTypeOK, Open, Rowed, Out
  <2>3. CASE room.status \in Out
    <3>1. UNCHANGED <<room, asg>>
      BY <1>3, <2>3 DEF CheckOut, Out
    <3>2. Open' = Open /\ Rowed' = Rowed
      BY <3>1 DEF Open, TodayIn, Rowed
    <3>3. Open = {} /\ \A a \in Rowed : asg[a].status # "in_progress"
      BY <2>3 DEF DayInv, Matches, Out
    <3> QED BY <2>0, <2>3, <3>1, <3>2, <3>3 DEF DayInv, StayInv, OneOpenPerDay, Out
  <2> QED BY <2>1, <2>2, <2>3 DEF Room, HkStatus
<1>4. ASSUME NEW k \in Occupancy, CheckOutMissed(k) PROVE Kept
  <2>1. Open' = Open /\ Rowed' = Rowed
    BY <1>4 DEF CheckOutMissed, Open, TodayIn, Rowed
  <2>2. soiled => occ' \notin Occupied
    BY <1>4 DEF CheckOutMissed, Leaving, StayInv, Occupied
  <2> QED BY <1>4, <2>1, <2>2 DEF CheckOutMissed, DayInv, StayInv, OneOpenPerDay, Matches
<1>5. CASE Midnight
  <2>1. /\ Open' = {} /\ Rowed' = Rowed /\ ~ticked' /\ UNCHANGED <<occ, soiled>>
        /\ \A a \in Rowed : asg'[a].type = asg[a].type /\ asg'[a].status = asg[a].status
    BY <1>5, MidnightRows DEF Midnight
  <2>2. room'.status = room.status /\ room'.service = room.service
    BY <1>5 DEF Midnight, Room
  <2> QED BY <2>1, <2>2 DEF DayInv, StayInv, OneOpenPerDay
<1>6. CASE HouseTick
  <2>c. /\ \A a \in Rowed : Carried[a].type = asg[a].type /\ Carried[a].status = asg[a].status
        /\ \A a \in Assignments : Carried[a] # None <=> a \in Rowed
        /\ TodayIn(Carried) = Open \cup {a \in Rowed : asg[a].status = "in_progress"}
    BY CarriedRows
  <2>1. CASE Caught
    <3>1. room.status \in {"clean", "inspected"}
      BY <2>1 DEF Caught
    <3>2. TodayIn(Carried) = Open
      BY <2>c, <3>1 DEF DayInv
    <3>3. PICK cur \in Found(Carried) : asg' = ForDeparture(Carried, cur)
      BY <1>6, <2>1 DEF HouseTick
    <3>4. DirtyForDeparture /\ ticked' /\ (soiled' => occ' \notin Occupied)
      BY <1>6, <2>1 DEF HouseTick
    <3>5. Carried \in [Assignments -> Assignment \cup {None}]
      BY CarriedTyped
    <3> QED BY <2>c, <3>1, <3>2, <3>3, <3>4, <3>5, <1>d
  <2>2. CASE ~Caught
    <3>1. asg' = Carried /\ ticked' /\ UNCHANGED <<soiled, occ>>
      BY <1>6, <2>2 DEF HouseTick
    <3>2. /\ Rowed' = Rowed /\ Open' = Open \cup {a \in Rowed : asg[a].status = "in_progress"}
          /\ \A a \in Rowed : asg'[a].type = asg[a].type /\ asg'[a].status = asg[a].status
      BY <2>c, <3>1 DEF Rowed, Open
    <3>3. OneOpenPerDay'
      BY <3>2 DEF OneOpenPerDay, DayInv
    <3>4. CASE Rolls
      <4>1. room.status \in {"clean", "inspected"} /\ Open = {} /\ ~soiled
        BY <3>4 DEF Rolls, DayInv, StayInv, Matches
      <4>2. \A a \in Rowed : asg[a].status # "in_progress"
        BY <4>1 DEF DayInv
      <4>3. room'.status = "dirty"
        BY <1>6, <2>2, <3>4 DEF HouseTick, Room
      <4> QED BY <3>1, <3>2, <3>3, <4>1, <4>2, <4>3 DEF DayInv, StayInv
    <3>5. CASE ~Rolls
      <4>1. UNCHANGED room
        BY <1>6, <2>2, <3>5 DEF HouseTick
      <4>2. room.status = "clean" => Open' = Open
        BY <3>2 DEF DayInv
      <4>3. \A a \in Open' : asg'[a].today
        BY DEF Open, TodayIn
      <4>4. \A a \in Open' : Matches(asg[a].status)'
        BY <3>2, <4>1 DEF DayInv, Matches
      <4>5. DayInv'
        BY <3>1, <3>2, <3>3, <4>1, <4>2, <4>3, <4>4 DEF DayInv
      <4>6. StayInv'
        BY <3>1, <3>2, <4>1 DEF StayInv
      <4> QED BY <4>5, <4>6
    <3> QED BY <3>4, <3>5
  <2> QED BY <2>1, <2>2
<1>7. CASE UNCHANGED houseVars
  <2>1. Open' = Open /\ Rowed' = Rowed
    BY <1>7 DEF houseVars, Open, TodayIn, Rowed
  <2> QED BY <1>7, <2>1 DEF houseVars, DayInv, StayInv, OneOpenPerDay, Matches
<1> QED BY <1>1, <1>2, <1>3, <1>4, <1>5, <1>6, <1>7 DEF HouseNext

LEMMA OrderlyInit == HouseInit => OrderlyInv
<1> SUFFICES ASSUME HouseInit PROVE OrderlyInv
  OBVIOUS
<1>1. Open = {} /\ Rowed = {}
  BY DEF HouseInit, Open, TodayIn, Rowed
<1> QED BY <1>1, RoomInit DEF HouseInit, OrderlyInv, DayInv, StayInv, OneOpenPerDay

LEMMA OrderlyAlways ==
    ASSUME Orderly
    PROVE  HouseSpec => []OrderlyInv
BY OrderlyInit, OrderlyStep, PTL DEF HouseSpec

\* A room has one assignment a day, as long as staff act on the one the board shows
\* and not in the minutes before the day's first tick.
THEOREM OneAssignmentADay ==
    ASSUME Orderly
    PROVE  HouseSpec => []OneOpenPerDay
<1>1. OrderlyInv => OneOpenPerDay
  BY DEF OrderlyInv, DayInv
<1> QED BY <1>1, OrderlyAlways, PTL

\* ... a dirty room's can be started ...
THEOREM DirtyRoomsStart ==
    ASSUME Orderly
    PROVE  HouseSpec => []DirtyCanBeStarted
<1>1. OrderlyInv => DirtyCanBeStarted
  BY DEF OrderlyInv, DayInv, DirtyCanBeStarted, Matches
<1> QED BY <1>1, OrderlyAlways, PTL

\* ... and a room that was left gets a departure clean.
THEOREM DeparturesAreCleaned ==
    ASSUME Orderly
    PROVE  HouseSpec => []DepartureClean
<1>1. OrderlyInv => DepartureClean
  <2>1. OrderlyInv => Open \subseteq Rowed
    BY RowFields DEF OrderlyInv, RoomInv
  <2> QED BY <2>1 DEF OrderlyInv, StayInv, DepartureClean, Out
<1> QED BY <1>1, OrderlyAlways, PTL

\* Together: on orderly days a room has one clean a day, that can be begun, of the right type.
THEOREM CleansAreRight ==
    ASSUME Orderly
    PROVE  HouseSpec => []OneRightClean
<1>1. OneOpenPerDay /\ DirtyCanBeStarted /\ DepartureClean => OneRightClean
  BY DEF OneRightClean
<1> QED BY <1>1, OneAssignmentADay, DirtyRoomsStart, DeparturesAreCleaned, PTL
=============================================================================
