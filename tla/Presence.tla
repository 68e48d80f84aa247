------------------------------ MODULE Presence ------------------------------
(***************************************************************************)
(* Who is looking at which conversation: the store of realtime/presence.py *)
(* (two dictionaries under one lock), the sockets that feed it and the     *)
(* sweeper that forgets who went silent (realtime/ws.py).  A user is in    *)
(* one place, whichever of their sockets said so last.                     *)
(*                                                                         *)
(* A change of the store, the list that is taken of it and the sending of  *)
(* that list are three steps of a thread.  Others may change the store in  *)
(* between; that they may also send in between is Overtake.                *)
(***************************************************************************)
EXTENDS Naturals, Table

CONSTANTS
    Sockets,  \* of one property
    Users,
    Owner,    \* whose each socket is
    Chats,    \* its conversations
    Sweeper,  \* the sweeper's thread
    TTL,      \* TTL_SECONDS, in ticks of the clock
    Overtake  \* whether a list may be sent after a newer one

ASSUME PresenceAssumption ==
    /\ Owner \in [Sockets -> Users]
    /\ Sweeper \notin Sockets
    /\ TTL \in Nat
    /\ Overtake \in BOOLEAN
    /\ None \notin Chats \cup [chat : Chats, users : SUBSET Users]

VARIABLES
    socket,  \* closed, connected, or silent, which nobody has noticed
    where,   \* _where: the conversation each user is in
    lastSeen,    \* _by_conv: how long ago each user it lists was seen there
    telling, \* per thread, the conversations whose list it has yet to send
    holding, \* per thread, a list taken and not sent
    page     \* per conversation, the list the pages got last

presenceVars == <<socket, where, lastSeen, telling, holding, page>>

Tellers == Sockets \cup {Sweeper}
Unlisted == TTL + 2 \* ages stop at TTL + 1
Listed(c) == {u \in Users : lastSeen[c][u] # Unlisted}

\* A thread sends what it has to before it receives the next frame.
AtRest(t) == telling[t] = {} /\ holding[t] = None

Unhurried == Overtake \/ \A t \in Tellers : holding[t] = None

Tell(t, cs) == telling' = [telling EXCEPT ![t] = cs \ {None}]

\* Slip: the user stays listed where they were.
PlacedSlip(u, c) == [d \in Chats |-> IF d = c THEN [lastSeen[d] EXCEPT ![u] = 0] ELSE lastSeen[d]]

\* Nobody but u moves: to c, or out of where they were.
Placed(u, c) ==
    [d \in Chats |-> [lastSeen[d] EXCEPT ![u] =
        IF d = c THEN 0 ELSE IF d = where[u] THEN Unlisted ELSE @]]

----------------------------------------------------------------------------
PresenceInit ==
    /\ socket = [s \in Sockets |-> "closed"]
    /\ where = [u \in Users |-> None]
    /\ lastSeen = [c \in Chats |-> [u \in Users |-> Unlisted]]
    /\ telling = [t \in Tellers |-> {}]
    /\ holding = [t \in Tellers |-> None]
    /\ page = [c \in Chats |-> {}]

Connect(s) ==
    /\ socket[s] = "closed" /\ AtRest(s)
    /\ socket' = [socket EXCEPT ![s] = "connected"]
    /\ UNCHANGED <<where, lastSeen, telling, holding, page>>

\* A presence frame: update, to a conversation or to None.
View(s, c) ==
    LET u == Owner[s] IN
    /\ socket[s] = "connected" /\ AtRest(s) /\ Unhurried
    /\ lastSeen' = Placed(u, c)
    /\ where' = [where EXCEPT ![u] = c]
    /\ Tell(s, {where[u], c})
    /\ UNCHANGED <<socket, holding, page>>

\* A heartbeat: touch.
Heartbeat(s) ==
    LET c == where[Owner[s]] IN
    /\ socket[s] = "connected" /\ AtRest(s) /\ Unhurried
    /\ c # None
    /\ Owner[s] \in Listed(c)
    /\ lastSeen' = [lastSeen EXCEPT ![c][Owner[s]] = 0]
    /\ UNCHANGED <<socket, where, telling, holding, page>>

\* The network is gone, and no error has said so.
FallSilent(s) ==
    /\ socket[s] = "connected"
    /\ socket' = [socket EXCEPT ![s] = "silent"]
    /\ UNCHANGED <<where, lastSeen, telling, holding, page>>

\* Slip: the list of the conversation that was left is not sent.
LeftSlip(u) == {}
Left(u) == {where[u]}

\* The socket's end: clear_user.
Hangup(s) ==
    LET u == Owner[s] IN
    /\ socket[s] # "closed" /\ AtRest(s) /\ Unhurried
    /\ socket' = [socket EXCEPT ![s] = "closed"]
    /\ lastSeen' = Placed(u, None)
    /\ where' = [where EXCEPT ![u] = None]
    /\ Tell(s, Left(u))
    /\ UNCHANGED <<holding, page>>

\* The sweeper: sweep.
Expired(c) == {u \in Users : lastSeen[c][u] = TTL + 1}

SweepSilent ==
    /\ AtRest(Sweeper) /\ Unhurried
    /\ lastSeen' = [c \in Chats |->
           [u \in Users |-> IF u \in Expired(c) THEN Unlisted ELSE lastSeen[c][u]]]
    /\ where' = [u \in Users |-> IF \E c \in Chats : u \in Expired(c) THEN None ELSE where[u]]
    /\ Tell(Sweeper, {c \in Chats : Expired(c) # {}})
    /\ UNCHANGED <<socket, holding, page>>

\* broadcast_presence: snapshot, under the lock, ...
Snapshot(t, c) ==
    /\ c \in telling[t] /\ holding[t] = None /\ Unhurried
    /\ holding' = [holding EXCEPT ![t] = [chat |-> c, users |-> Listed(c)]]
    /\ telling' = [telling EXCEPT ![t] = @ \ {c}]
    /\ UNCHANGED <<socket, where, lastSeen, page>>

\* ... and deliver, after it.
Send(t) ==
    /\ holding[t] # None
    /\ page' = [page EXCEPT ![holding[t].chat] = holding[t].users]
    /\ holding' = [holding EXCEPT ![t] = None]
    /\ UNCHANGED <<socket, where, lastSeen, telling>>

Age ==
    /\ Unhurried
    /\ lastSeen' = [c \in Chats |->
           [u \in Users |-> IF lastSeen[c][u] <= TTL THEN lastSeen[c][u] + 1 ELSE lastSeen[c][u]]]
    /\ UNCHANGED <<socket, where, telling, holding, page>>

----------------------------------------------------------------------------
PresenceNext ==
    \/ \E s \in Sockets : Connect(s) \/ Heartbeat(s) \/ FallSilent(s) \/ Hangup(s)
    \/ \E s \in Sockets, c \in Chats \cup {None} : View(s, c)
    \/ \E t \in Tellers, c \in Chats : Snapshot(t, c)
    \/ \E t \in Tellers : Send(t)
    \/ SweepSilent \/ Age

PresenceSpec == PresenceInit /\ [][PresenceNext]_presenceVars

----------------------------------------------------------------------------
PresenceTypeOK ==
    /\ socket \in [Sockets -> {"closed", "connected", "silent"}]
    /\ where \in [Users -> Chats \cup {None}]
    /\ lastSeen \in [Chats -> [Users -> 0 .. Unlisted]]
    /\ telling \in [Tellers -> SUBSET Chats]
    /\ holding \in [Tellers -> [chat : Chats, users : SUBSET Users] \cup {None}]
    /\ page \in [Chats -> SUBSET Users]

\* The two dictionaries agree after any order of frames, closings and sweeps of a user's
\* sockets: a user is listed in the conversation they are in and in no other
\* (presence.py:20-61).
OnePlace == \A c \in Chats : Listed(c) = {u \in Users : where[u] = c}

\* Once every thread has sent what it had to, the pages show who is there: no change is
\* left untold, though threads change the store between one's change and its list.
PagesSettle ==
    (\A t \in Tellers : AtRest(t)) => \A c \in Chats : page[c] = Listed(c)

\* Both: who is listed is there, and the pages show it.
PresenceShown == OnePlace /\ PagesSettle
=============================================================================
