------------------------------- MODULE Rounds -------------------------------
(***************************************************************************)
(* The housekeepers' lists of today: who cleans which room, and in which   *)
(* order.  domain/hk_assignments.py, the assignments hk_transitions.py     *)
(* moves along, and the list hk_views.py shows of them.  What becomes of a *)
(* room, and why, is in Housekeeping.                                      *)
(*                                                                         *)
(* One request after another, and nothing between midnight and the tick.   *)
(* A row of an earlier day is in no list, and neither is kept; nor are the *)
(* rooms in a rush, which my_rooms lists before the others, told apart     *)
(* here.  A room that is out of order counts as one that is inspected.     *)
(***************************************************************************)
EXTENDS Naturals, FiniteSetsExt, Table

CONSTANTS
    Doors,    \* rooms, each the number of its place on the board
    Keepers,  \* housekeepers
    LastPlace \* bounds the places in a list

DoorStatus == {"dirty", "in_progress", "clean", "inspected"}
Turn == [keeper : Keepers, place : 1 .. LastPlace, status : {"assigned", "in_progress", "done"}]

ASSUME RoundsAssumption ==
    /\ Doors \subseteq Nat /\ IsFiniteSet(Doors)
    /\ LastPlace \in Nat
    /\ None \notin Turn

VARIABLES
    door,  \* each room's status
    turn,  \* its assignment of today that is not passed, None if there is none
    spent, \* per housekeeper, the last place of a passed assignment of today
    given  \* history: per housekeeper, the list that was asked for, as an order: the pairs
           \* of a room and one that is not before it, itself among them

roundsVars == <<door, turn, spent, given>>

Mine(h) == {d \in Doors : turn[d] # None /\ turn[d].keeper = h}

\* my_rooms of what is not passed: by place, and by the board's order where that is one.
MyRooms(h) ==
    {p \in Mine(h) \X Mine(h) :
        \/ turn[p[1]].place < turn[p[2]].place
        \/ turn[p[1]].place = turn[p[2]].place /\ p[1] <= p[2]}

\* Slip: as many as there are, and one.
NextPlaceSlip(h) == Cardinality(Mine(h)) + 1

\* next_sequence
NextPlace(h) == Max({turn[d].place : d \in Mine(h)} \cup {spent[h]}) + 1

\* The order of a list of ds; the order l without ds, and l with those of s at its end.
InTurn(s, ds) == {p \in ds \X ds : PlaceIn(s, p[1]) <= PlaceIn(s, p[2])}
Without(l, ds) == {p \in l : p[1] \notin ds /\ p[2] \notin ds}
Behind(l, s, ds) == l \cup ({p[1] : p \in l} \X ds) \cup InTurn(s, ds)

Dropped(ds) == [h \in Keepers |-> Without(given[h], ds)]

----------------------------------------------------------------------------
RoundsInit ==
    /\ door = [d \in Doors |-> "dirty"]
    /\ turn = [d \in Doors |-> None]
    /\ spent = [h \in Keepers |-> 0]
    /\ given = [h \in Keepers |-> {}]

\* assign: the rooms of s that are not the housekeeper's get the next places, as they come.
GiveRooms(h, s) ==
    LET new == Range(s) \ Mine(h)
        earlier(d) == {c \in new : PlaceIn(s, c) < PlaceIn(s, d)}
    IN  /\ \A d \in Range(s) : door[d] \in {"dirty", "in_progress"}
        /\ \A d \in new : turn[d] # None => turn[d].status \in {"assigned", "in_progress"}
        /\ NextPlace(h) + Cardinality(new) - 1 <= LastPlace
        /\ turn' = [d \in Doors |->
                       IF d \notin new THEN turn[d]
                       ELSE [keeper |-> h, place |-> NextPlace(h) + Cardinality(earlier(d)),
                             status |-> IF turn[d] = None THEN "assigned" ELSE turn[d].status]]
        /\ given' = [Dropped(new) EXCEPT ![h] = Behind(@, s, new)]
        /\ UNCHANGED <<door, spent>>

\* unassign, which takes the row away.
TakeBack(d) ==
    /\ turn[d] # None /\ turn[d].status = "assigned"
    /\ turn' = [turn EXCEPT ![d] = None]
    /\ given' = Dropped({d})
    /\ UNCHANGED <<door, spent>>

\* reorder: exactly the rooms that are the housekeeper's, each once.
ReorderRooms(h, s) ==
    /\ turn' = [d \in Doors |-> IF d \in Mine(h) THEN [turn[d] EXCEPT !.place = PlaceIn(s, d)]
                                ELSE turn[d]]
    /\ given' = [given EXCEPT ![h] = InTurn(s, Mine(h))]
    /\ UNCHANGED <<door, spent>>

\* start
StartTurn(d) ==
    /\ door[d] = "dirty"
    /\ turn[d] # None /\ turn[d].status = "assigned"
    /\ turn' = [turn EXCEPT ![d].status = "in_progress"]
    /\ door' = [door EXCEPT ![d] = "in_progress"]
    /\ UNCHANGED <<spent, given>>

\* self_assign_start
SelfStart(h, d) ==
    /\ door[d] = "dirty"
    /\ turn[d] = None
    /\ NextPlace(h) <= LastPlace
    /\ turn' = [turn EXCEPT ![d] = [keeper |-> h, place |-> NextPlace(h),
                                    status |-> "in_progress"]]
    /\ door' = [door EXCEPT ![d] = "in_progress"]
    /\ given' = [given EXCEPT ![h] = Behind(@, <<d>>, {d})]
    /\ UNCHANGED spent

\* complete
FinishTurn(d) ==
    /\ door[d] = "in_progress"
    /\ turn[d] # None /\ turn[d].status = "in_progress"
    /\ turn' = [turn EXCEPT ![d].status = "done"]
    /\ door' = [door EXCEPT ![d] = "clean"]
    /\ UNCHANGED <<spent, given>>

\* inspect, of today's row or of one of an earlier day: it passes...
PassTurn(d) ==
    /\ door[d] = "clean"
    /\ door' = [door EXCEPT ![d] = "inspected"]
    /\ turn' = [turn EXCEPT ![d] = None]
    /\ spent' = [h \in Keepers |-> IF d \in Mine(h) /\ turn[d].place > spent[h]
                                   THEN turn[d].place ELSE spent[h]]
    /\ given' = Dropped({d})

\* Slip: it is given out anew, at the end of the list.
ReturnTurnSlip(d) ==
    /\ door[d] = "clean"
    /\ turn[d] # None => NextPlace(turn[d].keeper) <= LastPlace
    /\ door' = [door EXCEPT ![d] = "dirty"]
    /\ turn' = IF turn[d] = None THEN turn
               ELSE [turn EXCEPT ![d].status = "assigned", ![d].place = NextPlace(turn[d].keeper)]
    /\ UNCHANGED <<spent, given>>

\* ... or fails, or its guest checks out (dirty_for_departure): the row goes back.
ReturnTurn(d) ==
    /\ door[d] = "clean"
    /\ door' = [door EXCEPT ![d] = "dirty"]
    /\ turn' = IF turn[d] = None THEN turn ELSE [turn EXCEPT ![d].status = "assigned"]
    /\ UNCHANGED <<spent, given>>

\* mark_dirty, a check-out, or back in service.
Soil(d) ==
    /\ door[d] = "inspected"
    /\ door' = [door EXCEPT ![d] = "dirty"]
    /\ UNCHANGED <<turn, spent, given>>

\* set_room_status, out of order: the row of today goes, whatever its status.
PutOut(d) ==
    /\ door' = [door EXCEPT ![d] = "inspected"]
    /\ turn' = [turn EXCEPT ![d] = None]
    /\ given' = Dropped({d})
    /\ UNCHANGED spent

\* Midnight and the tick after it: what is under way is carried over, its place with it;
\* rooms that are ready may be due for cleaning.
NextMorning ==
    LET over == {d \in Doors : turn[d] # None /\ turn[d].status # "in_progress"} IN
    /\ turn' = [d \in Doors |-> IF d \in over THEN None ELSE turn[d]]
    /\ \E ds \in SUBSET {d \in Doors : door[d] \in {"clean", "inspected"}} :
        door' = [d \in Doors |-> IF d \in ds THEN "dirty" ELSE door[d]]
    /\ spent' = [h \in Keepers |-> 0]
    /\ given' = Dropped(over)

RoundsNext ==
    \/ \E h \in Keepers :
        \/ \E ds \in (SUBSET Doors) \ {{}} : \E s \in ListsOf(ds) : GiveRooms(h, s)
        \/ \E s \in ListsOf(Mine(h)) : ReorderRooms(h, s)
        \/ \E d \in Doors : SelfStart(h, d)
    \/ \E d \in Doors :
        \/ TakeBack(d) \/ StartTurn(d) \/ FinishTurn(d)
        \/ PassTurn(d) \/ ReturnTurn(d)
        \/ Soil(d) \/ PutOut(d)
    \/ NextMorning

RoundsSpec == RoundsInit /\ [][RoundsNext]_roundsVars

----------------------------------------------------------------------------
RoundsTypeOK ==
    /\ door \in [Doors -> DoorStatus]
    /\ turn \in [Doors -> Turn \cup {None}]
    /\ spent \in [Keepers -> 0 .. LastPlace]
    /\ given \in [Keepers -> SUBSET (Doors \X Doors)]

\* A housekeeper's list is in the order it was asked for: as the supervisor last put it, with
\* what was given since at its end, in the order it was given, whatever was taken back,
\* handed on, passed, failed or carried over midnight meanwhile (hk_assignments.py:67-93,
\* 115-132; hk_views.py:141-145).
RoundsAsGiven == \A h \in Keepers : MyRooms(h) = given[h]
=============================================================================
