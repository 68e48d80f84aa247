----------------------------- MODULE StaffChat ------------------------------
(***************************************************************************)
(* Messages between the staff of one property: domain/staff_messages.py.   *)
(* A room is a dm, a group or #ALL; it is unread for whoever last looked   *)
(* at it before its last message (or never did).                           *)
(*                                                                         *)
(* What a request looks up and what it writes are two steps, as the two    *)
(* are apart in a READ COMMITTED transaction.  No time is kept: fresh says *)
(* how the two stamps of an unread room compare, and a request that is     *)
(* sending notes who looks at the room after it took its own stamp.        *)
(***************************************************************************)
EXTENDS FiniteSets, Naturals, Table

CONSTANTS
    Colleagues, \* the members of the property
    Rooms,      \* ids of rooms
    Desks,      \* requests at a time
    Crossing    \* whether others may look or send in a room while one sends there

ASSUME StaffAssumption ==
    /\ None \notin Rooms \cup Colleagues \cup {"all", "dm", "group"}
    /\ Crossing \in BOOLEAN

VARIABLES
    kind,   \* per room: its kind, None before it is made
    joined, \* per room: participant rows
    posted, \* rooms with a last_message_at
    fresh,  \* per room: whose last_read_at is null or before its last_message_at
    desk,   \* the request each desk serves
    missed  \* history: whom a message waits for that they have not seen

RoomKind == {"all", "dm", "group"}

staffVars == <<kind, joined, posted, fresh, desk, missed>>

\* to: the other of a dm; room: the room found; since: who looked after the stamp.
NoDesk == [op |-> "none", by |-> None, to |-> None, room |-> None, since |-> {}]
Desk == [op : {"none", "all", "dm", "send", "read"}, by : Colleagues \cup {None},
         to : Colleagues \cup {None}, room : Rooms \cup {None}, since : SUBSET Colleagues]

Serve(t, d) == desk' = [desk EXCEPT ![t] = d]
Unoccupied(t) == desk[t].op = "none"

\* find_dm.
FoundDm(u, v) == {r \in Rooms : kind[r] = "dm" /\ {u, v} \subseteq joined[r]}

AllRooms == {r \in Rooms : kind[r] = "all"}

\* get_for_participant.
MayEnter(u, r) == kind[r] = "all" \/ u \in joined[r]

Alone(r) == ~Crossing => \A t \in Desks : desk[t].op \in {"send", "read"} => desk[t].room # r

Unread(u, r) == r \in posted /\ u \in fresh[r]

----------------------------------------------------------------------------
ChatInit ==
    /\ kind = [r \in Rooms |-> None]
    /\ joined = [r \in Rooms |-> {}]
    /\ posted = {}
    /\ fresh = [r \in Rooms |-> Colleagues]
    /\ desk = [t \in Desks |-> NoDesk]
    /\ missed = [r \in Rooms |-> {}]

\* What a request looks for; it makes the room if there is none.
AskFor(t, d, rooms) ==
    /\ Unoccupied(t)
    /\ \E r \in (IF rooms = {} THEN {None} ELSE rooms) : Serve(t, [d EXCEPT !.room = r])
    /\ UNCHANGED <<kind, joined, posted, fresh, missed>>

\* list_conversations_for_user: get_or_create_all_conversation.
AskAll(t, u) == AskFor(t, [NoDesk EXCEPT !.op = "all", !.by = u], AllRooms)

\* create_conversation, a dm.
AskDm(t, u, v) ==
    /\ u # v
    /\ AskFor(t, [NoDesk EXCEPT !.op = "dm", !.by = u, !.to = v], FoundDm(u, v))

Make(r, k, us) ==
    /\ kind[r] = None
    /\ kind' = [kind EXCEPT ![r] = k]
    /\ joined' = [joined EXCEPT ![r] = us]

\* ... made, with its participants, or the one that was found.
MakeRoom(t, r) ==
    LET d == desk[t] IN
    /\ d.op \in {"all", "dm"} /\ d.room = None
    /\ Make(r, d.op, {d.by, d.to} \ {None})
    /\ Serve(t, NoDesk)
    /\ UNCHANGED <<posted, fresh, missed>>

ReuseRoom(t) ==
    LET d == desk[t] IN
    /\ d.op \in {"all", "dm"} /\ d.room # None
    /\ joined' = [joined EXCEPT ![d.room] = @ \cup {d.by}]
    /\ Serve(t, NoDesk)
    /\ UNCHANGED <<kind, posted, fresh, missed>>

\* create_conversation, a group.
CreateGroup(u, us, r) ==
    /\ us # {}
    /\ Make(r, "group", us \cup {u})
    /\ UNCHANGED <<posted, fresh, desk, missed>>

\* send_message and mark_read, up to the stamp.
Enter(t, u, r, op) ==
    /\ Unoccupied(t) /\ MayEnter(u, r) /\ Alone(r)
    /\ Serve(t, [NoDesk EXCEPT !.op = op, !.by = u, !.room = r])
    /\ UNCHANGED <<kind, joined, posted, fresh, missed>>

\* Requests that are sending in r: u looked after their stamp.
Looked(u, r) ==
    [t \in Desks |-> IF desk[t].op = "send" /\ desk[t].room = r
                     THEN [desk[t] EXCEPT !.since = @ \cup {u}] ELSE desk[t]]

\* Slip: last_message_at is that of the first message.
FreshSlip(r, d) == fresh[r]
FreshFor(r, d) == Colleagues \ (d.since \cup {d.by})

\* ensure_participant joins a sender who was removed meanwhile.
SendMessage(t) ==
    LET d == desk[t]
        r == d.room
    IN
    /\ d.op = "send"
    /\ posted' = posted \cup {r}
    /\ fresh' = [fresh EXCEPT ![r] = FreshFor(r, d)]
    /\ joined' = [joined EXCEPT ![r] = @ \cup {d.by}]
    /\ desk' = [Looked(d.by, r) EXCEPT ![t] = NoDesk]
    /\ missed' = [missed EXCEPT ![r] = (@ \cup joined[r]) \ {d.by}]
    /\ UNCHANGED kind

MarkRead(t) ==
    LET d == desk[t]
        r == d.room
    IN
    /\ d.op = "read"
    /\ fresh' = [fresh EXCEPT ![r] = @ \ {d.by}]
    /\ joined' = [joined EXCEPT ![r] = @ \cup {d.by}]
    /\ desk' = [Looked(d.by, r) EXCEPT ![t] = NoDesk]
    /\ missed' = [missed EXCEPT ![r] = @ \ {d.by}]
    /\ UNCHANGED <<kind, posted>>

\* Slip: of a dm too.
EditableSlip(r) == kind[r] \in {"dm", "group"}
\* _assert_group.
Editable(r) == kind[r] = "group"

\* (Adding to #ALL changes nothing.)
AddParticipants(u, r, us) ==
    /\ MayEnter(u, r) /\ Editable(r)
    /\ joined' = [joined EXCEPT ![r] = @ \cup us]
    /\ UNCHANGED <<kind, posted, fresh, desk, missed>>

\* The row goes, and the last_read_at in it.
RemoveParticipant(u, r, v) ==
    /\ MayEnter(u, r) /\ Editable(r)
    /\ joined' = [joined EXCEPT ![r] = @ \ {v}]
    /\ fresh' = [fresh EXCEPT ![r] = @ \cup {v}]
    /\ missed' = [missed EXCEPT ![r] = @ \ {v}]
    /\ UNCHANGED <<kind, posted, desk>>

----------------------------------------------------------------------------
ChatNext ==
    \/ \E t \in Desks, u \in Colleagues : AskAll(t, u)
    \/ \E t \in Desks, u, v \in Colleagues : AskDm(t, u, v)
    \/ \E t \in Desks, r \in Rooms : MakeRoom(t, r)
    \/ \E t \in Desks : ReuseRoom(t) \/ SendMessage(t) \/ MarkRead(t)
    \/ \E t \in Desks, u \in Colleagues, r \in Rooms, op \in {"send", "read"} : Enter(t, u, r, op)
    \/ \E u \in Colleagues, us \in SUBSET Colleagues, r \in Rooms :
           CreateGroup(u, us, r) \/ AddParticipants(u, r, us)
    \/ \E u, v \in Colleagues, r \in Rooms : RemoveParticipant(u, r, v)

ChatSpec == ChatInit /\ [][ChatNext]_staffVars

----------------------------------------------------------------------------
ChatTypeOK ==
    /\ kind \in [Rooms -> RoomKind \cup {None}]
    /\ joined \in [Rooms -> SUBSET Colleagues]
    /\ posted \subseteq Rooms
    /\ fresh \in [Rooms -> SUBSET Colleagues]
    /\ desk \in [Desks -> Desk]
    /\ missed \in [Rooms -> SUBSET Colleagues]

\* A dm has exactly two participants, whatever is added, removed, sent or read in rooms at
\* the same time: find_dm relies on it (staff_messages.py:83-85).
DmOfTwo == \A r \in Rooms : kind[r] = "dm" => Cardinality(joined[r]) = 2

\* A room shows as unread to every participant to whom it has a message they have not seen,
\* those who left and came back included (staff_messages.py:188, 249-251).
UnreadTold == \A r \in Rooms, u \in Colleagues : u \in missed[r] => Unread(u, r)

\* Both: who is in a room, and what they are told of it.
RoomsRight == DmOfTwo /\ UnreadTold
=============================================================================
