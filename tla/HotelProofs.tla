---------------------------- MODULE HotelProofs -----------------------------
(***************************************************************************)
(* Theorems about the smaller parts of the hotel: the stays that PMS       *)
(* events move, for any number of events taken at once; presence, for any  *)
(* number of sockets; staff chat; the live page; checklists and their      *)
(* templates; the hotel log.  Last, the parts together: what is proved of  *)
(* one holds of it in the composition the runs check.                      *)
(***************************************************************************)
EXTENDS MCHotel, JobQueueProofs, InboxProofs, HousekeepingProofs, TableProofs

----------------------------------------------------------------------------
\* Stays.

StampsHold(r) ==
    /\ r.status \in {"checked_in", "checked_out"} => r.came
    /\ r.status = "checked_out" => r.went

\* What one row has been stamped with, another has too.
Keeps(old, new) == (old.came => new.came) /\ (old.went => new.went)

\* What a transaction is about to write: its event is in nobody else's hands, its row is
\* stamped, and the stamps of the row it read are still there.
IntakeHolds(t) ==
    LET f == intake[t] IN
    /\ f.pc # "idle" =>
         /\ f.event \in Events
         /\ f.event \notin ledger
         /\ \A u \in Intakes \ {t} : intake[u].event # f.event
    /\ f.pc = "write" =>
         /\ StampsHold(f.new)
         /\ ~f.made => stay # None /\ Keeps(f.old, f.new) /\ Keeps(f.old, stay)
    /\ f.made =>
         /\ f.pc = "write" /\ stay = None
         /\ \A u \in Intakes \ {t} : ~intake[u].made
    /\ f.pc = "idle" => f.event = None

StaysInv ==
    /\ StaysTypeOK
    /\ StatusStamped
    /\ \A e \in Events : applied[e] = IF e \in ledger THEN 1 ELSE 0
    /\ \A t \in Intakes : IntakeHolds(t)

LEMMA IntakeTypes ==
    /\ NoIntake \in StayIntake
    /\ NoIntake.pc = "idle" /\ NoIntake.event = None /\ ~NoIntake.made
BY DEF NoIntake, StayIntake, Booked, Stay, StayStatus

\* Whatever the event, the row it leaves is a stay, is stamped, and loses no stamp.
LEMMA MovedHolds ==
    ASSUME NEW r \in Stay, NEW e \in Events
    PROVE  Moved(r, e) \in Stay /\ StampsHold(Moved(r, e)) /\ Keeps(r, Moved(r, e))
BY StaysAssumption DEF Moved, Stamped, StampsHold, Keeps, Stay, StayStatus

LEMMA StaysInvInit == StaysInit => StaysInv
BY IntakeTypes
   DEF StaysInit, StaysInv, StaysTypeOK, StatusStamped, IntakeHolds

LEMMA RegisterKeeps ==
    ASSUME StaysInv, NEW t \in Intakes, NEW e \in Events, Register(t, e)
    PROVE  StaysInv'
<1>1. /\ intake' = [intake EXCEPT ![t] = [NoIntake EXCEPT !.pc = "find", !.event = e]]
      /\ UNCHANGED <<ledger, stay, applied>>
      /\ e \notin ledger /\ \A u \in Intakes \ {t} : intake[u].event # e
  BY DEF Register, Taken, LedgerFree
<1>2. [NoIntake EXCEPT !.pc = "find", !.event = e] \in StayIntake
  BY DEF NoIntake, StayIntake, Booked, Stay, StayStatus
<1>3. /\ intake'[t].pc = "find" /\ intake'[t].event = e /\ ~intake'[t].made
      /\ \A u \in Intakes \ {t} : intake'[u] = intake[u]
  BY <1>1 DEF NoIntake, StaysInv, StaysTypeOK
<1>4. StaysTypeOK' /\ StatusStamped'
  BY <1>1, <1>2 DEF StaysInv, StaysTypeOK, StatusStamped
<1>5. ASSUME NEW u \in Intakes PROVE IntakeHolds(u)'
  BY <1>1, <1>3 DEF StaysInv, IntakeHolds
<1> QED BY <1>1, <1>4, <1>5 DEF StaysInv

LEMMA FindStayKeeps ==
    ASSUME StaysInv, NEW t \in Intakes, FindStay(t)
    PROVE  StaysInv'
<1> DEFINE e == intake[t].event
           f == [intake[t] EXCEPT !.pc = "write", !.old = stay, !.new = Moved(stay, e)]
<1>1. /\ intake' = [intake EXCEPT ![t] = f]
      /\ intake[t].pc = "find" /\ stay # None
      /\ UNCHANGED <<ledger, stay, applied>>
  BY DEF FindStay, Taken
<1>2. intake[t] \in StayIntake /\ IntakeHolds(t) /\ stay \in Stay /\ e \in Events
  BY <1>1 DEF StaysInv, StaysTypeOK, IntakeHolds
<1>3. Moved(stay, e) \in Stay /\ StampsHold(Moved(stay, e)) /\ Keeps(stay, Moved(stay, e))
  BY <1>2, MovedHolds
<1> HIDE DEF f
<1>4. /\ f \in StayIntake
      /\ f.pc = "write" /\ f.event = e /\ f.made = intake[t].made
      /\ f.old = stay /\ f.new = Moved(stay, e)
  BY <1>2, <1>3 DEF f, StayIntake
<1>5. intake'[t] = f /\ \A u \in Intakes \ {t} : intake'[u] = intake[u]
  BY <1>1 DEF StaysInv, StaysTypeOK
<1>6. StaysTypeOK' /\ StatusStamped'
  BY <1>1, <1>4 DEF StaysInv, StaysTypeOK, StatusStamped
<1>7. ~f.made
  BY <1>1, <1>2, <1>4 DEF IntakeHolds
<1>8. IntakeHolds(t)'
  BY <1>1, <1>2, <1>3, <1>4, <1>5, <1>7 DEF IntakeHolds, Keeps
<1>9. ASSUME NEW u \in Intakes \ {t} PROVE IntakeHolds(u)'
  BY <1>1, <1>4, <1>5, <1>9 DEF StaysInv, IntakeHolds
<1> QED BY <1>1, <1>6, <1>8, <1>9 DEF StaysInv

LEMMA MakeStayKeeps ==
    ASSUME StaysInv, NEW t \in Intakes, MakeStay(t)
    PROVE  StaysInv'
<1> DEFINE e == intake[t].event
           f == [intake[t] EXCEPT !.pc = "write", !.made = TRUE, !.new = Moved(Booked, e)]
<1>1. /\ intake' = [intake EXCEPT ![t] = f]
      /\ intake[t].pc = "find"
      /\ stay = None /\ \A u \in Intakes \ {t} : ~intake[u].made
      /\ UNCHANGED <<ledger, stay, applied>>
  BY DEF MakeStay, Taken, StayFree
<1>2. intake[t] \in StayIntake /\ IntakeHolds(t) /\ e \in Events /\ Booked \in Stay
  BY <1>1 DEF StaysInv, StaysTypeOK, IntakeHolds, Booked, Stay, StayStatus
<1>3. Moved(Booked, e) \in Stay /\ StampsHold(Moved(Booked, e))
  BY <1>2, MovedHolds
<1> HIDE DEF f
<1>4. /\ f \in StayIntake
      /\ f.pc = "write" /\ f.event = e /\ f.made
      /\ f.old = intake[t].old /\ f.new = Moved(Booked, e)
  BY <1>2, <1>3 DEF f, StayIntake
<1>5. intake'[t] = f /\ \A u \in Intakes \ {t} : intake'[u] = intake[u]
  BY <1>1 DEF StaysInv, StaysTypeOK
<1>6. StaysTypeOK' /\ StatusStamped'
  BY <1>1, <1>4 DEF StaysInv, StaysTypeOK, StatusStamped
<1>7. IntakeHolds(t)'
  BY <1>1, <1>2, <1>3, <1>4, <1>5 DEF IntakeHolds
<1>8. ASSUME NEW u \in Intakes \ {t} PROVE IntakeHolds(u)'
  BY <1>1, <1>4, <1>5, <1>8 DEF StaysInv, IntakeHolds
<1> QED BY <1>1, <1>6, <1>7, <1>8 DEF StaysInv

LEMMA TakeEventKeeps ==
    ASSUME StaysInv, NEW t \in Intakes, TakeEvent(t)
    PROVE  StaysInv' /\ EventsOnce!Take(intake[t].event)
<1> DEFINE f == intake[t]
           e == f.event
<1>1. /\ f.pc = "write" /\ f \in StayIntake /\ IntakeHolds(t)
      /\ e \in Events /\ e \notin ledger /\ applied[e] = 0
  BY DEF TakeEvent, StaysInv, StaysTypeOK, IntakeHolds
<1>2. /\ ledger' = ledger \cup {e}
      /\ stay' = IF f.made THEN f.new ELSE Flushed(stay, f)
      /\ applied' = [applied EXCEPT ![e] = @ + 1]
      /\ intake' = [intake EXCEPT ![t] = NoIntake]
  BY DEF TakeEvent, Taken
<1>3. intake'[t] = NoIntake /\ \A u \in Intakes \ {t} : intake'[u] = intake[u]
  BY <1>2 DEF StaysInv, StaysTypeOK
<1>4. /\ stay' \in Stay /\ StampsHold(stay')
      /\ ~f.made => Keeps(stay, stay')
  <2>1. CASE f.made
    BY <1>1, <1>2, <2>1 DEF StayIntake, IntakeHolds
  <2>2. CASE ~f.made
    <3>1. stay \in Stay /\ f.old \in Stay /\ f.new \in Stay /\ StampsHold(stay)
      BY <1>1, <2>2 DEF StaysInv, StaysTypeOK, StatusStamped, StampsHold, IntakeHolds, StayIntake
    <3>2. stay' = [c \in DOMAIN stay |-> IF f.new[c] = f.old[c] THEN stay[c] ELSE f.new[c]]
      BY <1>2, <2>2 DEF Flushed
    <3>3. StampsHold(f.new) /\ Keeps(f.old, f.new) /\ Keeps(f.old, stay)
      BY <1>1, <2>2 DEF IntakeHolds
    <3>4. /\ DOMAIN stay = {"status", "came", "went"}
          /\ stay' = [status |-> stay'.status, came |-> stay'.came, went |-> stay'.went]
      BY <3>1, <3>2 DEF Stay
    <3>5. stay' \in Stay
      BY <3>1, <3>2, <3>4 DEF Stay
    <3> QED BY <3>1, <3>2, <3>3, <3>4, <3>5 DEF StampsHold, Keeps, Stay
  <2> QED BY <2>1, <2>2
<1>5. StatusStamped'
  BY <1>4 DEF StatusStamped, StampsHold
<1>6. StaysTypeOK'
  BY <1>1, <1>2, <1>4, IntakeTypes DEF StaysInv, StaysTypeOK
<1>7. \A x \in Events : applied'[x] = IF x \in ledger' THEN 1 ELSE 0
  BY <1>1, <1>2 DEF StaysInv, StaysTypeOK
<1>8. IntakeHolds(t)'
  BY <1>3, IntakeTypes DEF IntakeHolds
<1>9. ASSUME NEW u \in Intakes \ {t} PROVE IntakeHolds(u)'
  <2> DEFINE g == intake[u]
  <2>1. IntakeHolds(u) /\ intake'[u] = g /\ g.event # e
    BY <1>1, <1>3 DEF StaysInv, IntakeHolds
  <2>2. g.pc # "idle" =>
          /\ g.event \in Events /\ g.event \notin ledger'
          /\ \A v \in Intakes \ {u} : intake'[v].event # g.event
    BY <1>2, <1>3, <2>1, IntakeTypes, StaysAssumption DEF IntakeHolds
  <2>3. g.pc = "write" /\ ~g.made => stay' # None /\ Keeps(g.old, stay')
    BY <1>1, <1>4, <2>1, StaysAssumption DEF IntakeHolds, Keeps
  <2>4. ~g.made
    BY <1>1, <2>1 DEF IntakeHolds
  <2> QED BY <2>1, <2>2, <2>3, <2>4 DEF IntakeHolds
<1> QED BY <1>1, <1>2, <1>5, <1>6, <1>7, <1>8, <1>9 DEF StaysInv, EventsOnce!Take

LEMMA LoseEventKeeps ==
    ASSUME StaysInv, NEW t \in Intakes, LoseEvent(t)
    PROVE  StaysInv'
<1>1. intake' = [intake EXCEPT ![t] = NoIntake] /\ UNCHANGED <<ledger, stay, applied>>
  BY DEF LoseEvent, Taken
<1>2. intake'[t] = NoIntake /\ \A u \in Intakes \ {t} : intake'[u] = intake[u]
  BY <1>1 DEF StaysInv, StaysTypeOK
<1>3. StaysTypeOK' /\ StatusStamped'
  BY <1>1, IntakeTypes DEF StaysInv, StaysTypeOK, StatusStamped
<1>4. IntakeHolds(t)'
  BY <1>2, IntakeTypes DEF IntakeHolds
<1>5. ASSUME NEW u \in Intakes \ {t} PROVE IntakeHolds(u)'
  BY <1>1, <1>2, <1>5, IntakeTypes, StaysAssumption DEF StaysInv, IntakeHolds
<1> QED BY <1>1, <1>3, <1>4, <1>5 DEF StaysInv

LEMMA StaysInvNext == StaysInv /\ [StaysNext]_staysVars => StaysInv'
<1> SUFFICES ASSUME StaysInv, [StaysNext]_staysVars PROVE StaysInv'
  OBVIOUS
<1>1. CASE UNCHANGED staysVars
  BY <1>1 DEF staysVars, StaysInv, StaysTypeOK, StatusStamped, IntakeHolds
<1>2. CASE StaysNext
  BY <1>2, RegisterKeeps, FindStayKeeps, MakeStayKeeps, TakeEventKeeps, LoseEventKeeps
     DEF StaysNext
<1> QED BY <1>1, <1>2

\* Types: the stay, its ledger and every transaction stay within their types.
THEOREM StaysTyped == StaysSpec => []StaysTypeOK
<1>1. StaysInv => StaysTypeOK
  BY DEF StaysInv
<1> QED BY <1>1, StaysInvInit, StaysInvNext, PTL DEF StaysSpec

\* However many events of a stay are taken at once and in whatever order, its time stamps
\* go with its status (handle_event.py:80-85).
THEOREM StampsGoWithStatus == StaysSpec => []StatusStamped
<1>1. StaysInv => StatusStamped
  BY DEF StaysInv
<1> QED BY <1>1, StaysInvInit, StaysInvNext, PTL DEF StaysSpec

\* However often and however concurrently an event is sent, it has its effects once
\* (handle_event.py:22-33): the endpoint is an Intake of events.
THEOREM EventsAreTakenOnce == StaysSpec => EventsTakenOnce
<1>1. StaysInit => EventsOnce!Init
  BY DEF StaysInit, EventsOnce!Init
<1>2. StaysInv /\ [StaysNext]_staysVars => [EventsOnce!Next]_applied
  <2> SUFFICES ASSUME StaysInv, StaysNext, applied' # applied PROVE EventsOnce!Next
    BY DEF staysVars
  <2>1. PICK t \in Intakes : TakeEvent(t)
    BY DEF StaysNext, Register, FindStay, MakeStay, LoseEvent
  <2>2. intake[t].event \in Events
    BY <2>1 DEF TakeEvent, StaysInv, IntakeHolds
  <2> QED BY <2>1, <2>2, TakeEventKeeps DEF EventsOnce!Next
<1> QED BY <1>1, <1>2, StaysInvInit, StaysInvNext, PTL
        DEF StaysSpec, EventsTakenOnce, EventsOnce!Spec
----------------------------------------------------------------------------
\* Presence.

\* What a teller has to send covers every page that is out of date, and a list that is
\* about to be sent is not.
Untold(c) ==
    \E t \in Tellers : c \in telling[t] \/ (holding[t] # None /\ holding[t].chat = c)

PagesHold ==
    /\ \A t \in Tellers : holding[t] # None => holding[t].users = Listed(holding[t].chat)
    /\ \A c \in Chats : page[c] = Listed(c) \/ Untold(c)

PresenceInv == PresenceTypeOK /\ OnePlace

LEMMA PresenceNumbers == TTL \in Nat /\ Unlisted = TTL + 2 /\ Unlisted \in Nat
BY PresenceAssumption DEF Unlisted

\* A user who moves is listed where they went, and nowhere else.
LEMMA PlacedHolds ==
    ASSUME PresenceInv, NEW u \in Users, NEW c \in Chats \cup {None}
    PROVE  /\ Placed(u, c) \in [Chats -> [Users -> 0 .. Unlisted]]
           /\ \A d \in Chats, v \in Users :
                 Placed(u, c)[d][v] # Unlisted
                     <=> IF v = u THEN d = c ELSE lastSeen[d][v] # Unlisted
<1>1. lastSeen \in [Chats -> [Users -> 0 .. Unlisted]] /\ 0 \in 0 .. Unlisted
      /\ Unlisted \in 0 .. Unlisted /\ 0 # Unlisted
  BY PresenceNumbers DEF PresenceInv, PresenceTypeOK
<1>2. ASSUME NEW d \in Chats
      PROVE  Placed(u, c)[d] = [lastSeen[d] EXCEPT ![u] =
                 IF d = c THEN 0 ELSE IF d = where[u] THEN Unlisted ELSE @]
  BY DEF Placed
<1>3. ASSUME NEW d \in Chats
      PROVE  /\ Placed(u, c)[d] \in [Users -> 0 .. Unlisted]
             /\ \A v \in Users : Placed(u, c)[d][v] # Unlisted
                                  <=> IF v = u THEN d = c ELSE lastSeen[d][v] # Unlisted
  <2>1. lastSeen[d][u] # Unlisted <=> where[u] = d
    BY DEF PresenceInv, OnePlace, Listed
  <2> DEFINE x == IF d = c THEN 0 ELSE IF d = where[u] THEN Unlisted ELSE lastSeen[d][u]
  <2>2. x \in 0 .. Unlisted /\ (x # Unlisted <=> d = c)
    BY <1>1, <2>1
  <2>3. Placed(u, c)[d] = [lastSeen[d] EXCEPT ![u] = x]
    BY <1>2
  <2> HIDE DEF x
  <2> QED BY <1>1, <2>2, <2>3
<1> QED BY <1>3 DEF Placed

\* Both dictionaries are changed together.
LEMMA MoveKeepsPlace ==
    ASSUME PresenceInv, NEW u \in Users, NEW c \in Chats \cup {None},
           lastSeen' = Placed(u, c), where' = [where EXCEPT ![u] = c]
    PROVE  /\ lastSeen' \in [Chats -> [Users -> 0 .. Unlisted]]
           /\ where' \in [Users -> Chats \cup {None}]
           /\ OnePlace'
           /\ \A d \in Chats : d # c /\ d # where[u] => Listed(d)' = Listed(d)
<1>1. where \in [Users -> Chats \cup {None}]
  BY DEF PresenceInv, PresenceTypeOK
<1>2. \A d \in Chats, v \in Users : lastSeen[d][v] # Unlisted <=> where[v] = d
  BY DEF PresenceInv, OnePlace, Listed
<1>3. \A d \in Chats, v \in Users : lastSeen'[d][v] # Unlisted <=> where'[v] = d
  BY <1>1, <1>2, PlacedHolds
<1> QED BY <1>1, <1>2, <1>3, PlacedHolds DEF OnePlace, Listed

LEMMA PresenceInvInit == PresenceInit => PresenceInv
BY PresenceNumbers, PresenceAssumption
   DEF PresenceInit, PresenceInv, PresenceTypeOK, OnePlace, Listed

LEMMA SweepKeepsPlace ==
    ASSUME PresenceInv, SweepSilent
    PROVE  /\ PresenceInv'
           /\ \A c \in Chats : Expired(c) = {} => Listed(c)' = Listed(c)
<1>1. /\ lastSeen \in [Chats -> [Users -> 0 .. Unlisted]]
      /\ where \in [Users -> Chats \cup {None}]
      /\ TTL + 1 # Unlisted /\ Unlisted \in 0 .. Unlisted
  BY PresenceNumbers DEF PresenceInv, PresenceTypeOK
<1>2. /\ lastSeen' = [c \in Chats |->
            [u \in Users |-> IF u \in Expired(c) THEN Unlisted ELSE lastSeen[c][u]]]
      /\ where' = [u \in Users |-> IF \E c \in Chats : u \in Expired(c) THEN None ELSE where[u]]
      /\ telling' = [telling EXCEPT ![Sweeper] = {c \in Chats : Expired(c) # {}} \ {None}]
      /\ UNCHANGED <<socket, holding, page>>
  BY DEF SweepSilent, Tell
<1>3. \A c \in Chats, u \in Users : lastSeen[c][u] # Unlisted <=> where[u] = c
  BY DEF PresenceInv, OnePlace, Listed
<1>4. ASSUME NEW c \in Chats, NEW u \in Users
      PROVE  lastSeen'[c][u] # Unlisted <=> where'[u] = c
  <2>1. u \in Expired(c) => lastSeen[c][u] # Unlisted
    BY <1>1 DEF Expired
  <2>2. \A d \in Chats : u \in Expired(d) => where[u] = d
    BY <1>1, <1>3 DEF Expired
  <2> QED BY <1>1, <1>2, <1>3, <2>1, <2>2, PresenceAssumption
<1>5. OnePlace'
  BY <1>4 DEF OnePlace, Listed
<1>6. PresenceTypeOK'
  <2>1. lastSeen' \in [Chats -> [Users -> 0 .. Unlisted]]
    BY <1>1, <1>2
  <2> QED BY <1>1, <1>2, <2>1 DEF PresenceInv, PresenceTypeOK
<1>7. \A c \in Chats : Expired(c) = {} => Listed(c)' = Listed(c)
  BY <1>2 DEF Listed
<1> QED BY <1>5, <1>6, <1>7 DEF PresenceInv

LEMMA AgeKeepsPlace ==
    ASSUME PresenceInv, Age
    PROVE  PresenceInv' /\ \A c \in Chats : Listed(c)' = Listed(c)
<1>1. lastSeen \in [Chats -> [Users -> 0 .. Unlisted]]
  BY DEF PresenceInv, PresenceTypeOK
<1>2. /\ lastSeen' = [c \in Chats |-> [u \in Users |->
            IF lastSeen[c][u] <= TTL THEN lastSeen[c][u] + 1 ELSE lastSeen[c][u]]]
      /\ UNCHANGED <<socket, where, telling, holding, page>>
  BY DEF Age
<1>3. lastSeen' \in [Chats -> [Users -> 0 .. Unlisted]]
  BY <1>1, <1>2, PresenceNumbers
<1>4. \A c \in Chats, u \in Users : lastSeen'[c][u] # Unlisted <=> lastSeen[c][u] # Unlisted
  BY <1>1, <1>2, PresenceNumbers
<1>5. \A c \in Chats : Listed(c)' = Listed(c)
  BY <1>4 DEF Listed
<1> QED BY <1>2, <1>3, <1>5 DEF PresenceInv, PresenceTypeOK, OnePlace

\* A change of the store: the pages it makes stale are those its thread will tell, and no
\* list that was taken before it is still to be sent.
LEMMA ChangeKeepsPages ==
    ASSUME ~Overtake, PresenceTypeOK, PagesHold, NEW t \in Tellers, NEW cs \in SUBSET Chats,
           AtRest(t), Unhurried, telling' = [telling EXCEPT ![t] = cs],
           UNCHANGED <<holding, page>>,
           \A c \in Chats \ cs : Listed(c)' = Listed(c)
    PROVE  PagesHold'
<1>1. \A u \in Tellers : holding[u] = None
  BY DEF Unhurried
<1>2. telling'[t] = cs /\ \A u \in Tellers \ {t} : telling'[u] = telling[u]
  BY DEF PresenceTypeOK
<1>3. ASSUME NEW c \in Chats PROVE page'[c] = Listed(c)' \/ Untold(c)'
  <2>1. CASE c \in cs
    BY <1>2, <2>1 DEF Untold
  <2>2. CASE c \notin cs
    <3>1. Untold(c) => Untold(c)'
      BY <1>1, <1>2 DEF Untold, AtRest
    <3> QED BY <2>2, <3>1 DEF PagesHold
  <2> QED BY <2>1, <2>2
<1> QED BY <1>1, <1>3 DEF PagesHold

LEMMA PresenceStep ==
    ASSUME PresenceInv, PresenceNext
    PROVE  PresenceInv' /\ (~Overtake /\ PagesHold => PagesHold')
<1> USE DEF PresenceInv
<1>1. ASSUME NEW s \in Sockets, Connect(s) \/ FallSilent(s)
      PROVE  PresenceInv' /\ (~Overtake /\ PagesHold => PagesHold')
  BY <1>1 DEF Connect, FallSilent, PresenceTypeOK, OnePlace, Listed, PagesHold, Untold
<1>2. ASSUME NEW s \in Sockets, NEW c \in Chats \cup {None}, View(s, c)
      PROVE  PresenceInv' /\ (~Overtake /\ PagesHold => PagesHold')
  <2> DEFINE u == Owner[s]
  <2>1. /\ u \in Users /\ s \in Tellers
        /\ AtRest(s) /\ Unhurried
        /\ lastSeen' = Placed(u, c) /\ where' = [where EXCEPT ![u] = c]
        /\ telling' = [telling EXCEPT ![s] = {where[u], c} \ {None}]
        /\ UNCHANGED <<socket, holding, page>>
    BY <1>2, PresenceAssumption DEF View, Tell, Tellers
  <2>2. {where[u], c} \ {None} \in SUBSET Chats
    BY <2>1 DEF PresenceTypeOK
  <2>3. PresenceInv'
    BY <2>1, <2>2, MoveKeepsPlace DEF PresenceTypeOK
  <2>4. \A d \in Chats \ ({where[u], c} \ {None}) : Listed(d)' = Listed(d)
    BY <2>1, MoveKeepsPlace, PresenceAssumption
  <2> QED BY <2>1, <2>2, <2>3, <2>4, ChangeKeepsPages
<1>3. ASSUME NEW s \in Sockets, Heartbeat(s)
      PROVE  PresenceInv' /\ (~Overtake /\ PagesHold => PagesHold')
  <2> DEFINE u == Owner[s]
             c == where[u]
  <2>1. /\ u \in Users /\ c \in Chats /\ u \in Listed(c)
        /\ lastSeen' = [lastSeen EXCEPT ![c][u] = 0]
        /\ UNCHANGED <<socket, where, telling, holding, page>>
    BY <1>3, PresenceAssumption DEF Heartbeat, PresenceTypeOK
  <2>2. 0 \in 0 .. Unlisted /\ 0 # Unlisted
    BY PresenceNumbers
  <2>3. lastSeen' \in [Chats -> [Users -> 0 .. Unlisted]]
    BY <2>1, <2>2 DEF PresenceTypeOK
  <2>4. \A d \in Chats, v \in Users : lastSeen'[d][v] # Unlisted <=> lastSeen[d][v] # Unlisted
    BY <2>1, <2>2 DEF PresenceTypeOK, Listed
  <2>5. \A d \in Chats : Listed(d)' = Listed(d)
    BY <2>4 DEF Listed
  <2> QED BY <2>1, <2>3, <2>5 DEF PresenceTypeOK, OnePlace, PagesHold, Untold
<1>4. ASSUME NEW s \in Sockets, Hangup(s)
      PROVE  PresenceInv' /\ (~Overtake /\ PagesHold => PagesHold')
  <2> DEFINE u == Owner[s]
  <2>1. /\ u \in Users /\ s \in Tellers
        /\ AtRest(s) /\ Unhurried
        /\ lastSeen' = Placed(u, None) /\ where' = [where EXCEPT ![u] = None]
        /\ telling' = [telling EXCEPT ![s] = {where[u]} \ {None}]
        /\ socket' = [socket EXCEPT ![s] = "closed"]
        /\ UNCHANGED <<holding, page>>
    BY <1>4, PresenceAssumption DEF Hangup, Tell, Left, Tellers
  <2>2. {where[u]} \ {None} \in SUBSET Chats
    BY <2>1 DEF PresenceTypeOK
  <2>3. /\ lastSeen' \in [Chats -> [Users -> 0 .. Unlisted]]
        /\ where' \in [Users -> Chats \cup {None}]
        /\ OnePlace'
        /\ \A d \in Chats : d # None /\ d # where[u] => Listed(d)' = Listed(d)
    <3> HIDE DEF u
    <3> QED BY <2>1, MoveKeepsPlace
  <2>4. PresenceInv'
    BY <2>1, <2>2, <2>3 DEF PresenceTypeOK
  <2>5. \A d \in Chats \ ({where[u]} \ {None}) : Listed(d)' = Listed(d)
    BY <2>3, PresenceAssumption
  <2> QED BY <2>1, <2>2, <2>4, <2>5, ChangeKeepsPages
<1>5. ASSUME NEW t \in Tellers, NEW c \in Chats, Snapshot(t, c)
      PROVE  PresenceInv' /\ (~Overtake /\ PagesHold => PagesHold')
  <2> DEFINE h == [chat |-> c, users |-> Listed(c)]
  <2>1. /\ holding' = [holding EXCEPT ![t] = h]
        /\ telling' = [telling EXCEPT ![t] = @ \ {c}]
        /\ UNCHANGED <<socket, where, lastSeen, page>>
    BY <1>5 DEF Snapshot
  <2>2. /\ h \in [chat : Chats, users : SUBSET Users] /\ h # None
        /\ h.chat = c /\ h.users = Listed(c)
    BY PresenceAssumption DEF Listed
  <2> HIDE DEF h
  <2>3. PresenceInv'
    BY <2>1, <2>2 DEF PresenceTypeOK, OnePlace, Listed
  <2>4. /\ \A d \in Chats : Listed(d)' = Listed(d)
        /\ holding'[t] = h /\ \A u \in Tellers \ {t} : holding'[u] = holding[u]
        /\ telling'[t] = telling[t] \ {c} /\ \A u \in Tellers \ {t} : telling'[u] = telling[u]
    BY <2>1 DEF Listed, PresenceTypeOK
  <2>5. ASSUME PagesHold, NEW u \in Tellers
        PROVE  (holding[u] # None => holding[u].users = Listed(holding[u].chat))'
    <3>1. CASE u = t
      BY <2>2, <2>4, <3>1
    <3>2. CASE u # t
      BY <2>4, <2>5, <3>2 DEF PagesHold, PresenceTypeOK
    <3> QED BY <3>1, <3>2
  <2>6. ASSUME NEW d \in Chats, Untold(d) PROVE Untold(d)'
    <3>1. PICK u \in Tellers : d \in telling[u] \/ (holding[u] # None /\ holding[u].chat = d)
      BY <2>6 DEF Untold
    <3>2. holding[t] = None
      BY <1>5 DEF Snapshot
    <3>3. CASE u = t
      BY <2>2, <2>4, <3>1, <3>2, <3>3 DEF Untold
    <3>4. CASE u # t
      BY <2>4, <3>1, <3>4 DEF Untold
    <3> QED BY <3>3, <3>4
  <2> QED BY <2>1, <2>3, <2>4, <2>5, <2>6 DEF PagesHold
<1>6. ASSUME NEW t \in Tellers, Send(t)
      PROVE  PresenceInv' /\ (~Overtake /\ PagesHold => PagesHold')
  <2> DEFINE h == holding[t]
  <2>1. /\ h \in [chat : Chats, users : SUBSET Users] /\ h # None
        /\ page' = [page EXCEPT ![h.chat] = h.users]
        /\ holding' = [holding EXCEPT ![t] = None]
        /\ UNCHANGED <<socket, where, lastSeen, telling>>
    BY <1>6 DEF Send, PresenceTypeOK
  <2>2. PresenceInv'
    BY <2>1 DEF PresenceTypeOK, OnePlace, Listed
  <2>3. /\ \A d \in Chats : Listed(d)' = Listed(d)
        /\ holding'[t] = None /\ \A u \in Tellers \ {t} : holding'[u] = holding[u]
        /\ page'[h.chat] = h.users /\ \A d \in Chats \ {h.chat} : page'[d] = page[d]
    BY <2>1 DEF Listed, PresenceTypeOK
  <2>4. ASSUME NEW d \in Chats, d # h.chat, Untold(d) PROVE Untold(d)'
    BY <2>1, <2>3, <2>4 DEF Untold
  <2> QED BY <2>1, <2>2, <2>3, <2>4 DEF PagesHold, PresenceTypeOK
<1>7. ASSUME SweepSilent
      PROVE  PresenceInv' /\ (~Overtake /\ PagesHold => PagesHold')
  <2>1. /\ AtRest(Sweeper) /\ Unhurried /\ Sweeper \in Tellers
        /\ telling' = [telling EXCEPT ![Sweeper] = {c \in Chats : Expired(c) # {}} \ {None}]
        /\ UNCHANGED <<holding, page>>
    BY <1>7 DEF SweepSilent, Tell, Tellers
  <2>2. {c \in Chats : Expired(c) # {}} \ {None} \in SUBSET Chats
    OBVIOUS
  <2>3. \A d \in Chats \ ({c \in Chats : Expired(c) # {}} \ {None}) : Listed(d)' = Listed(d)
    BY <1>7, SweepKeepsPlace, PresenceAssumption
  <2> QED BY <1>7, <2>1, <2>2, <2>3, SweepKeepsPlace, ChangeKeepsPages
<1>8. ASSUME Age
      PROVE  PresenceInv' /\ (~Overtake /\ PagesHold => PagesHold')
  BY <1>8, AgeKeepsPlace DEF Age, PagesHold, Untold, PresenceTypeOK
<1> QED BY <1>1, <1>2, <1>3, <1>4, <1>5, <1>6, <1>7, <1>8 DEF PresenceNext

LEMMA PresenceInvNext ==
    /\ PresenceInv /\ [PresenceNext]_presenceVars => PresenceInv'
    /\ ~Overtake /\ PresenceInv /\ PagesHold /\ [PresenceNext]_presenceVars => PagesHold'
<1>1. PresenceInv /\ UNCHANGED presenceVars => PresenceInv'
  BY DEF PresenceInv, PresenceTypeOK, OnePlace, Listed, presenceVars
<1>2. PagesHold /\ UNCHANGED presenceVars => PagesHold'
  BY DEF PagesHold, Untold, Listed, presenceVars
<1> QED BY <1>1, <1>2, PresenceStep

\* Types: the store, the sockets and what is being sent stay within their types.
THEOREM PresenceTyped == PresenceSpec => []PresenceTypeOK
<1>1. PresenceInv => PresenceTypeOK
  BY DEF PresenceInv
<1> QED BY <1>1, PresenceInvInit, PresenceInvNext, PTL DEF PresenceSpec

\* Any number of sockets, frames, closings and sweeps leave the two dictionaries of the
\* store in agreement, a user in one conversation at most (presence.py:20-61).
THEOREM UsersAreInOnePlace == PresenceSpec => []OnePlace
<1>1. PresenceInv => OnePlace
  BY DEF PresenceInv
<1> QED BY <1>1, PresenceInvInit, PresenceInvNext, PTL DEF PresenceSpec

\* If no list overtakes a newer one on its way out of the lock (presence.py:82-95), every
\* page has the last one when all threads have sent theirs.
THEOREM PagesAreRight == ASSUME ~Overtake PROVE PresenceSpec => []PagesSettle
<1>1. PresenceInit => PagesHold
  BY PresenceNumbers DEF PresenceInit, PagesHold, Listed
<1>2. PresenceInv /\ PagesHold => PagesSettle
  BY DEF PagesHold, PagesSettle, AtRest, Untold
<1>3. PresenceInv /\ PagesHold /\ [PresenceNext]_presenceVars => PagesHold'
  BY PresenceInvNext
<1> QED BY <1>1, <1>2, <1>3, PresenceInvInit, PresenceInvNext, PTL DEF PresenceSpec

\* Together: who is listed is there, and the pages show it.
THEOREM PresenceIsShown == ASSUME ~Overtake PROVE PresenceSpec => []PresenceShown
<1>1. OnePlace /\ PagesSettle => PresenceShown
  BY DEF PresenceShown
<1> QED BY <1>1, UsersAreInOnePlace, PagesAreRight, PTL
----------------------------------------------------------------------------
\* Staff chat.

\* A dm is between two people, and one who has it open is one of them.
Pairs ==
    /\ \A r \in Rooms : kind[r] = "dm" =>
          \E u, v \in Colleagues : u # v /\ joined[r] = {u, v}
    /\ \A r \in Rooms : kind[r] = None => joined[r] = {}

\* Where a desk's request is going there is a room, and whom it serves may be there.
DeskHolds(d, kinds, members) ==
    /\ d.op = "dm" =>
         /\ d.by \in Colleagues /\ d.to \in Colleagues /\ d.by # d.to
         /\ d.room # None => kinds[d.room] = "dm" /\ d.by \in members[d.room]
    /\ d.op = "all" =>
         /\ d.by \in Colleagues /\ d.to = None
         /\ d.room # None => kinds[d.room] = "all"
    /\ d.op \in {"send", "read"} =>
         /\ d.by \in Colleagues /\ d.room \in Rooms
         /\ kinds[d.room] # None
         /\ kinds[d.room] = "dm" => d.by \in members[d.room]

ChatInv ==
    /\ ChatTypeOK
    /\ Pairs
    /\ \A t \in Desks : DeskHolds(desk[t], kind, joined)

\* What a step may do to the rooms: one that is there keeps its kind, a dm its members.
RoomsStay ==
    \A r \in Rooms :
        /\ kind[r] # None => kind'[r] = kind[r]
        /\ kind[r] = "dm" => joined'[r] = joined[r]

LEMMA DeskTypes ==
    /\ NoDesk \in Desk /\ NoDesk.op = "none"
    /\ \A k, j : DeskHolds(NoDesk, k, j)
<1>1. NoDesk.op = "none"
  BY DEF NoDesk
<1>2. NoDesk \in Desk
  BY DEF NoDesk, Desk
<1> QED BY <1>1, <1>2 DEF DeskHolds

LEMMA ChatInvInit == ChatInit => ChatInv
<1> SUFFICES ASSUME ChatInit PROVE ChatInv
  OBVIOUS
<1>1. ChatTypeOK
  BY DeskTypes DEF ChatInit, ChatTypeOK, RoomKind
<1>2. Pairs
  BY StaffAssumption DEF ChatInit, Pairs
<1> QED BY <1>1, <1>2, DeskTypes DEF ChatInit, ChatInv

\* What a desk has found stays true.
LEMMA DesksStay ==
    ASSUME ChatTypeOK, RoomsStay, NEW d \in Desk, DeskHolds(d, kind, joined)
    PROVE  DeskHolds(d, kind', joined')
<1>1. d.room \in Rooms \cup {None}
  BY DEF Desk
<1>2. kind \in [Rooms -> {None, "all", "dm", "group"}]
  BY DEF ChatTypeOK, RoomKind
<1> QED BY <1>1, <1>2, StaffAssumption DEF DeskHolds, RoomsStay

\* A step that leaves the rooms as they should be and gives one desk something to do.
LEMMA ServeKeeps ==
    ASSUME ChatInv, RoomsStay, NEW t \in Desks, NEW d \in Desk,
           desk' = [desk EXCEPT ![t] = d], DeskHolds(d, kind', joined')
    PROVE  /\ desk' \in [Desks -> Desk]
           /\ \A u \in Desks : DeskHolds(desk'[u], kind', joined')
<1>1. desk \in [Desks -> Desk]
  BY DEF ChatInv, ChatTypeOK
<1>2. ASSUME NEW u \in Desks PROVE DeskHolds(desk'[u], kind', joined')
  <2>1. CASE u = t
    BY <1>1, <2>1
  <2>2. CASE u # t
    BY <1>1, <2>2, DesksStay DEF ChatInv
  <2> QED BY <2>1, <2>2
<1> QED BY <1>1, <1>2

\* No request changes who is in a dm.
LEMMA ChatStep ==
    ASSUME ChatInv, ChatNext
    PROVE  ChatInv'
<1> USE DEF ChatInv, ChatTypeOK, RoomKind
<1>1. ASSUME NEW t \in Desks, NEW d \in Desk, NEW rooms \in SUBSET Rooms, AskFor(t, d, rooms),
             \A r \in rooms \cup {None} :
                 DeskHolds([d EXCEPT !.room = r], kind, joined)
      PROVE  ChatInv'
  <2>1. PICK r \in rooms \cup {None} :
            /\ desk' = [desk EXCEPT ![t] = [d EXCEPT !.room = r]]
            /\ UNCHANGED <<kind, joined, posted, fresh, missed>>
    BY <1>1 DEF AskFor, Serve
  <2>2. [d EXCEPT !.room = r] \in Desk
    BY DEF Desk
  <2>3. RoomsStay
    BY <2>1 DEF RoomsStay
  <2> QED BY <1>1, <2>1, <2>2, <2>3, ServeKeeps DEF Pairs
<1>2. ASSUME NEW t \in Desks, NEW u \in Colleagues, AskAll(t, u)
      PROVE  ChatInv'
  <2> DEFINE d == [NoDesk EXCEPT !.op = "all", !.by = u]
  <2>1. d \in Desk
    BY DEF NoDesk, Desk
  <2>2. \A r \in AllRooms \cup {None} : DeskHolds([d EXCEPT !.room = r], kind, joined)
    BY DEF NoDesk, DeskHolds, AllRooms
  <2>3. AskFor(t, d, AllRooms) /\ AllRooms \in SUBSET Rooms
    BY <1>2 DEF AskAll, AllRooms
  <2> QED BY <1>1, <2>1, <2>2, <2>3
<1>3. ASSUME NEW t \in Desks, NEW u \in Colleagues, NEW v \in Colleagues, AskDm(t, u, v)
      PROVE  ChatInv'
  <2> DEFINE d == [NoDesk EXCEPT !.op = "dm", !.by = u, !.to = v]
  <2>1. d \in Desk
    BY DEF NoDesk, Desk
  <2>2. \A r \in FoundDm(u, v) \cup {None} : DeskHolds([d EXCEPT !.room = r], kind, joined)
    BY <1>3 DEF NoDesk, DeskHolds, FoundDm, AskDm
  <2>3. AskFor(t, d, FoundDm(u, v)) /\ FoundDm(u, v) \in SUBSET Rooms
    BY <1>3 DEF AskDm, FoundDm
  <2> QED BY <1>1, <2>1, <2>2, <2>3
<1>4. ASSUME NEW t \in Desks, NEW r \in Rooms, MakeRoom(t, r)
      PROVE  ChatInv'
  <2> DEFINE d == desk[t]
             us == {d.by, d.to} \ {None}
  <2>1. /\ d.op \in {"all", "dm"} /\ d \in Desk /\ DeskHolds(d, kind, joined)
        /\ kind[r] = None
        /\ kind' = [kind EXCEPT ![r] = d.op]
        /\ joined' = [joined EXCEPT ![r] = us]
        /\ desk' = [desk EXCEPT ![t] = NoDesk]
        /\ UNCHANGED <<posted, fresh, missed>>
    BY <1>4 DEF MakeRoom, Make, Serve
  <2>2. us \in SUBSET Colleagues
    BY <2>1 DEF Desk
  <2>3. RoomsStay
    BY <2>1, StaffAssumption DEF RoomsStay
  <2>4. d.op = "dm" => \E u, v \in Colleagues : u # v /\ us = {u, v}
    BY <2>1, StaffAssumption DEF DeskHolds
  <2> HIDE DEF us
  <2>5. Pairs'
    BY <2>1, <2>4, StaffAssumption DEF Pairs
  <2> QED BY <2>1, <2>2, <2>3, <2>5, DeskTypes, ServeKeeps
<1>5. ASSUME NEW t \in Desks, ReuseRoom(t)
      PROVE  ChatInv'
  <2> DEFINE d == desk[t]
  <2>1. /\ d.op \in {"all", "dm"} /\ d \in Desk /\ DeskHolds(d, kind, joined)
        /\ d.room \in Rooms
        /\ joined' = [joined EXCEPT ![d.room] = @ \cup {d.by}]
        /\ desk' = [desk EXCEPT ![t] = NoDesk]
        /\ UNCHANGED <<kind, posted, fresh, missed>>
    BY <1>5 DEF ReuseRoom, Serve, Desk
  <2>2. /\ d.by \in Colleagues /\ kind[d.room] # None
        /\ kind[d.room] = "dm" => d.by \in joined[d.room]
    BY <2>1, StaffAssumption DEF DeskHolds
  <2>3. RoomsStay
    BY <2>1, <2>2 DEF RoomsStay
  <2>4. Pairs'
    BY <2>1, <2>2, <2>3 DEF Pairs, RoomsStay
  <2> QED BY <2>1, <2>2, <2>3, <2>4, DeskTypes, ServeKeeps
<1>6. ASSUME NEW u \in Colleagues, NEW us \in SUBSET Colleagues, NEW r \in Rooms,
             CreateGroup(u, us, r)
      PROVE  ChatInv'
  <2>1. /\ kind[r] = None /\ kind' = [kind EXCEPT ![r] = "group"]
        /\ joined' = [joined EXCEPT ![r] = us \cup {u}]
        /\ UNCHANGED <<posted, fresh, desk, missed>>
    BY <1>6 DEF CreateGroup, Make
  <2>2. RoomsStay
    BY <2>1, StaffAssumption DEF RoomsStay
  <2>3. Pairs'
    BY <2>1, StaffAssumption DEF Pairs
  <2> QED BY <2>1, <2>2, <2>3, DesksStay
<1>7. ASSUME NEW t \in Desks, NEW u \in Colleagues, NEW r \in Rooms, NEW op \in {"send", "read"},
             Enter(t, u, r, op)
      PROVE  ChatInv'
  <2> DEFINE d == [NoDesk EXCEPT !.op = op, !.by = u, !.room = r]
  <2>1. /\ MayEnter(u, r) /\ desk' = [desk EXCEPT ![t] = d]
        /\ UNCHANGED <<kind, joined, posted, fresh, missed>>
    BY <1>7 DEF Enter, Serve
  <2>2. d \in Desk /\ d.op = op /\ d.by = u /\ d.room = r
    BY DEF NoDesk, Desk
  <2> HIDE DEF d
  <2>3. kind[r] # None /\ (kind[r] = "dm" => u \in joined[r])
    BY <2>1, StaffAssumption DEF MayEnter, Pairs
  <2>4. DeskHolds(d, kind', joined')
    BY <2>1, <2>2, <2>3 DEF DeskHolds
  <2>5. RoomsStay /\ Pairs'
    BY <2>1 DEF RoomsStay, Pairs
  <2> QED BY <2>1, <2>2, <2>4, <2>5, ServeKeeps
<1>8. ASSUME NEW t \in Desks, NEW d \in Desk, d = desk[t], d.op \in {"send", "read"},
             joined' = [joined EXCEPT ![d.room] = @ \cup {d.by}],
             desk' = [Looked(d.by, d.room) EXCEPT ![t] = NoDesk], UNCHANGED kind
      PROVE  /\ joined' \in [Rooms -> SUBSET Colleagues] /\ Pairs'
             /\ desk' \in [Desks -> Desk]
             /\ \A u \in Desks : DeskHolds(desk'[u], kind', joined')
  <2>1. /\ d.by \in Colleagues /\ d.room \in Rooms
        /\ kind[d.room] # None /\ (kind[d.room] = "dm" => d.by \in joined[d.room])
    BY <1>8 DEF DeskHolds
  <2>2. joined' \in [Rooms -> SUBSET Colleagues]
    BY <1>8, <2>1
  <2>3. RoomsStay
    BY <1>8, <2>1 DEF RoomsStay
  <2>4. Pairs'
    BY <1>8, <2>1, <2>3 DEF Pairs, RoomsStay
  <2>5. ASSUME NEW u \in Desks
        PROVE  Looked(d.by, d.room)[u] \in Desk
               /\ DeskHolds(Looked(d.by, d.room)[u], kind', joined')
    <3>1. desk[u] \in Desk /\ DeskHolds(desk[u], kind', joined')
      BY <2>3, DesksStay
    <3>2. Looked(d.by, d.room)[u] \in {desk[u], [desk[u] EXCEPT !.since = @ \cup {d.by}]}
      BY DEF Looked
    <3>3. [desk[u] EXCEPT !.since = @ \cup {d.by}] \in Desk
      BY <2>1, <3>1 DEF Desk
    <3>4. DeskHolds([desk[u] EXCEPT !.since = @ \cup {d.by}], kind', joined')
      BY <3>1 DEF DeskHolds, Desk
    <3> QED BY <3>1, <3>2, <3>3, <3>4
  <2>6. DOMAIN Looked(d.by, d.room) = Desks
    BY DEF Looked
  <2>7. Looked(d.by, d.room) \in [Desks -> Desk]
    BY <2>5 DEF Looked
  <2> HIDE DEF Looked
  <2> QED BY <1>8, <2>2, <2>4, <2>5, <2>7, DeskTypes
<1>9. ASSUME NEW t \in Desks, SendMessage(t)
      PROVE  ChatInv'
  <2> DEFINE d == desk[t]
  <2>1. /\ d \in Desk /\ d.op = "send" /\ DeskHolds(d, kind, joined)
        /\ posted' = posted \cup {d.room}
        /\ fresh' = [fresh EXCEPT ![d.room] = FreshFor(d.room, d)]
        /\ joined' = [joined EXCEPT ![d.room] = @ \cup {d.by}]
        /\ desk' = [Looked(d.by, d.room) EXCEPT ![t] = NoDesk]
        /\ missed' = [missed EXCEPT ![d.room] = (@ \cup joined[d.room]) \ {d.by}]
        /\ UNCHANGED kind
    BY <1>9 DEF SendMessage
  <2>2. d.room \in Rooms /\ FreshFor(d.room, d) \in SUBSET Colleagues
    BY <2>1 DEF DeskHolds, FreshFor
  <2>3. /\ joined' \in [Rooms -> SUBSET Colleagues] /\ Pairs'
        /\ desk' \in [Desks -> Desk]
        /\ \A u \in Desks : DeskHolds(desk'[u], kind', joined')
    BY <1>8, <2>1
  <2> QED BY <2>1, <2>2, <2>3
<1>10. ASSUME NEW t \in Desks, MarkRead(t)
       PROVE  ChatInv'
  <2> DEFINE d == desk[t]
  <2>1. /\ d \in Desk /\ d.op = "read"
        /\ fresh' = [fresh EXCEPT ![d.room] = @ \ {d.by}]
        /\ joined' = [joined EXCEPT ![d.room] = @ \cup {d.by}]
        /\ desk' = [Looked(d.by, d.room) EXCEPT ![t] = NoDesk]
        /\ missed' = [missed EXCEPT ![d.room] = @ \ {d.by}]
        /\ UNCHANGED <<kind, posted>>
    BY <1>10 DEF MarkRead
  <2>2. /\ joined' \in [Rooms -> SUBSET Colleagues] /\ Pairs'
        /\ desk' \in [Desks -> Desk]
        /\ \A u \in Desks : DeskHolds(desk'[u], kind', joined')
    BY <1>8, <2>1
  <2> QED BY <2>1, <2>2
<1>11. ASSUME NEW u \in Colleagues, NEW us \in SUBSET Colleagues, NEW r \in Rooms,
              AddParticipants(u, r, us)
       PROVE  ChatInv'
  <2>1. /\ kind[r] = "group" /\ joined' = [joined EXCEPT ![r] = @ \cup us]
        /\ UNCHANGED <<kind, posted, fresh, desk, missed>>
    BY <1>11 DEF AddParticipants, Editable
  <2>2. RoomsStay /\ Pairs'
    BY <2>1, StaffAssumption DEF RoomsStay, Pairs
  <2> QED BY <2>1, <2>2, DesksStay
<1>12. ASSUME NEW u \in Colleagues, NEW v \in Colleagues, NEW r \in Rooms,
              RemoveParticipant(u, r, v)
       PROVE  ChatInv'
  <2>1. /\ kind[r] = "group" /\ joined' = [joined EXCEPT ![r] = @ \ {v}]
        /\ fresh' = [fresh EXCEPT ![r] = @ \cup {v}]
        /\ missed' = [missed EXCEPT ![r] = @ \ {v}]
        /\ UNCHANGED <<kind, posted, desk>>
    BY <1>12 DEF RemoveParticipant, Editable
  <2>2. RoomsStay /\ Pairs'
    BY <2>1, StaffAssumption DEF RoomsStay, Pairs
  <2> QED BY <2>1, <2>2, DesksStay
<1> HIDE DEF ChatInv, ChatTypeOK, RoomKind
<1> QED BY <1>2, <1>3, <1>4, <1>5, <1>6, <1>7, <1>9, <1>10, <1>11, <1>12 DEF ChatNext

LEMMA ChatInvNext == ChatInv /\ [ChatNext]_staffVars => ChatInv'
<1>1. ChatInv /\ UNCHANGED staffVars => ChatInv'
  BY DEF ChatInv, ChatTypeOK, Pairs, DeskHolds, staffVars
<1> QED BY <1>1, ChatStep

\* Types: rooms, participants and the requests under way stay within their types.
THEOREM ChatTyped == ChatSpec => []ChatTypeOK
<1>1. ChatInv => ChatTypeOK
  BY DEF ChatInv
<1> QED BY <1>1, ChatInvInit, ChatInvNext, PTL DEF ChatSpec

\* Whatever requests overlap, a dm has two participants (staff_messages.py:83-85).
THEOREM DmsAreOfTwo == ChatSpec => []DmOfTwo
<1>1. ChatInv => DmOfTwo
  <2>1. \A u, v \in Colleagues : u # v => Cardinality({u, v}) = 2
    <3> TAKE u, v \in Colleagues
    <3>1. IsFiniteSet({u}) /\ Cardinality({u}) = 1
      BY FS_Singleton
    <3>2. {u, v} = {u} \cup {v}
      OBVIOUS
    <3> QED BY <3>1, <3>2, FS_AddElement
  <2> QED BY <2>1 DEF ChatInv, Pairs, DmOfTwo
<1> QED BY <1>1, ChatInvInit, ChatInvNext, PTL DEF ChatSpec

\* One request at a time is looking or sending in a room, so nobody has looked since the
\* stamp of one that is sending.
OneByOne ==
    /\ \A t, u \in Desks :
          t # u /\ desk[t].op \in {"send", "read"} /\ desk[u].op \in {"send", "read"}
              => desk[t].room # desk[u].room
    /\ \A t \in Desks : desk[t].since = {}

LEMMA OneByOneStep ==
    ASSUME ~Crossing, ChatInv, OneByOne, UnreadTold, ChatNext
    PROVE  OneByOne' /\ UnreadTold'
<1> USE DEF ChatInv, ChatTypeOK, UnreadTold, Unread, RoomKind
<1>1. NoDesk.since = {} /\ NoDesk.op = "none"
  BY DEF NoDesk
<1>2. ASSUME NEW t \in Desks, NEW d, NEW rooms, AskFor(t, d, rooms),
             d.op \notin {"send", "read"}, d.since = {}, d \in Desk
      PROVE  OneByOne' /\ UnreadTold'
  <2>1. PICK r : desk' = [desk EXCEPT ![t] = [d EXCEPT !.room = r]]
    BY <1>2 DEF AskFor, Serve
  <2>2. UNCHANGED <<posted, fresh, missed>>
    BY <1>2 DEF AskFor
  <2>3. [d EXCEPT !.room = r].op = d.op /\ [d EXCEPT !.room = r].since = {}
    BY <1>2 DEF Desk
  <2> QED BY <1>2, <2>1, <2>2, <2>3 DEF OneByOne
<1>3. ASSUME NEW t \in Desks, NEW u \in Colleagues, AskAll(t, u)
      PROVE  OneByOne' /\ UnreadTold'
  <2> DEFINE d == [NoDesk EXCEPT !.op = "all", !.by = u]
  <2>1. d.op = "all" /\ d.since = {} /\ d \in Desk
    BY DEF NoDesk, Desk
  <2>2. AskFor(t, d, AllRooms)
    BY <1>3 DEF AskAll
  <2> HIDE DEF d
  <2> QED BY <1>2, <2>1, <2>2
<1>4. ASSUME NEW t \in Desks, NEW u \in Colleagues, NEW v \in Colleagues, AskDm(t, u, v)
      PROVE  OneByOne' /\ UnreadTold'
  <2> DEFINE d == [NoDesk EXCEPT !.op = "dm", !.by = u, !.to = v]
  <2>1. d.op = "dm" /\ d.since = {} /\ d \in Desk
    BY DEF NoDesk, Desk
  <2>2. AskFor(t, d, FoundDm(u, v))
    BY <1>4 DEF AskDm
  <2> HIDE DEF d
  <2> QED BY <1>2, <2>1, <2>2
<1>5. ASSUME NEW t \in Desks, NEW r \in Rooms, MakeRoom(t, r)
      PROVE  OneByOne' /\ UnreadTold'
  BY <1>1, <1>5 DEF MakeRoom, Serve, OneByOne
<1>6. ASSUME NEW t \in Desks, ReuseRoom(t)
      PROVE  OneByOne' /\ UnreadTold'
  BY <1>1, <1>6 DEF ReuseRoom, Serve, OneByOne
<1>7. ASSUME NEW u \in Colleagues, NEW us \in SUBSET Colleagues, NEW r \in Rooms,
             CreateGroup(u, us, r) \/ AddParticipants(u, r, us)
      PROVE  OneByOne' /\ UnreadTold'
  BY <1>7 DEF CreateGroup, AddParticipants, OneByOne
<1>8. ASSUME NEW t \in Desks, NEW u \in Colleagues, NEW r \in Rooms, NEW op \in {"send", "read"},
             Enter(t, u, r, op)
      PROVE  OneByOne' /\ UnreadTold'
  <2> DEFINE d == [NoDesk EXCEPT !.op = op, !.by = u, !.room = r]
  <2>1. /\ Alone(r) /\ desk' = [desk EXCEPT ![t] = d]
        /\ UNCHANGED <<kind, joined, posted, fresh, missed>>
    BY <1>8 DEF Enter, Serve
  <2>2. d.since = {} /\ d.room = r
    BY DEF NoDesk
  <2> HIDE DEF d
  <2>3. \A v \in Desks : desk[v].op \in {"send", "read"} => desk[v].room # r
    BY <1>8, <2>1 DEF Alone
  <2> QED BY <2>1, <2>2, <2>3 DEF OneByOne
<1>9. ASSUME NEW t \in Desks, desk[t].op \in {"send", "read"},
             desk' = [Looked(desk[t].by, desk[t].room) EXCEPT ![t] = NoDesk]
      PROVE  OneByOne'
  <2>1. ASSUME NEW u \in Desks, u # t
        PROVE  Looked(desk[t].by, desk[t].room)[u] = desk[u]
    BY <1>9, <2>1 DEF Looked, OneByOne
  <2>2. DOMAIN Looked(desk[t].by, desk[t].room) = Desks
    BY DEF Looked
  <2>3. desk'[t] = NoDesk /\ \A u \in Desks : u # t => desk'[u] = desk[u]
    BY <1>9, <2>1, <2>2
  <2> QED BY <1>1, <2>3 DEF OneByOne
<1>10. ASSUME NEW t \in Desks, SendMessage(t)
       PROVE  OneByOne' /\ UnreadTold'
  <2> DEFINE d == desk[t]
  <2>1. /\ d.op = "send" /\ d.since = {} /\ d.room \in Rooms
        /\ posted' = posted \cup {d.room}
        /\ fresh' = [fresh EXCEPT ![d.room] = Colleagues \ {d.by}]
        /\ missed' = [missed EXCEPT ![d.room] = (@ \cup joined[d.room]) \ {d.by}]
    BY <1>10 DEF SendMessage, OneByOne, DeskHolds, FreshFor
  <2>2. desk' = [Looked(d.by, d.room) EXCEPT ![t] = NoDesk]
    BY <1>10 DEF SendMessage
  <2> QED BY <1>9, <2>1, <2>2
<1>11. ASSUME NEW t \in Desks, MarkRead(t)
       PROVE  OneByOne' /\ UnreadTold'
  <2>1. OneByOne'
    BY <1>9, <1>11 DEF MarkRead
  <2> QED BY <1>11, <2>1 DEF MarkRead
<1>12. ASSUME NEW u \in Colleagues, NEW v \in Colleagues, NEW r \in Rooms,
              RemoveParticipant(u, r, v)
       PROVE  OneByOne' /\ UnreadTold'
  BY <1>12 DEF RemoveParticipant, OneByOne
<1> HIDE DEF ChatInv, ChatTypeOK, UnreadTold, RoomKind
<1> QED BY <1>3, <1>4, <1>5, <1>6, <1>7, <1>8, <1>10, <1>11, <1>12 DEF ChatNext

\* If requests of one room come one after another, it shows as unread to every participant
\* to whom it has a message they have not seen (staff_messages.py:188, 249-251).
THEOREM UnreadIsTold == ASSUME ~Crossing PROVE ChatSpec => []UnreadTold
<1>1. ChatInit => OneByOne /\ UnreadTold
  <2>1. NoDesk.since = {} /\ NoDesk.op = "none"
    BY DEF NoDesk
  <2> QED BY <2>1 DEF ChatInit, OneByOne, UnreadTold
<1>2. ChatInv /\ OneByOne /\ UnreadTold /\ [ChatNext]_staffVars => OneByOne' /\ UnreadTold'
  <2>1. OneByOne /\ UnreadTold /\ UNCHANGED staffVars => OneByOne' /\ UnreadTold'
    BY DEF OneByOne, UnreadTold, Unread, staffVars
  <2> QED BY <2>1, OneByOneStep
<1> QED BY <1>1, <1>2, ChatInvInit, ChatInvNext, PTL DEF ChatSpec

\* Together: who is in a room, and what they are told of it.
THEOREM RoomsAreRight == ASSUME ~Crossing PROVE ChatSpec => []RoomsRight
<1>1. DmOfTwo /\ UnreadTold => RoomsRight
  BY DEF RoomsRight
<1> QED BY <1>1, DmsAreOfTwo, UnreadIsTold, PTL

----------------------------------------------------------------------------
\* The live view.

\* A change that the page may not show is still to come: to be delivered, on the wire, or
\* asked for.
Coming ==
    \/ owed > 0
    \/ \E i \in 1 .. Len(wire) : wire[i] = "changed"
    \/ fetch.at \in {"asked", "failed"}
    \/ fetch.at = "answered" /\ fetch.brings = version
    \/ fetch.at = "none" /\ shown = version

ViewInv ==
    /\ ViewTypeOK
    /\ \A i \in 1 .. Len(wire) : wire[i] = "subscribed" => conn = "open"
    /\ back => conn = "open" /\ Coming

LEMMA Fetches ==
    /\ Asked \in Query /\ Asked.at = "asked"
    /\ NoFetch \in Query /\ NoFetch.at = "none"
BY LiveViewAssumption DEF Asked, NoFetch, Query, Versions

LEMMA ViewInvInit == ViewInit => ViewInv
<1> SUFFICES ASSUME ViewInit PROVE ViewInv
  OBVIOUS
<1>1. 0 \in Versions /\ "down" \in Connection
  BY LiveViewAssumption DEF Versions, Connection
<1>2. wire \in Seq({"subscribed", "changed"}) /\ Len(wire) = 0
  BY DEF ViewInit
<1>3. ViewTypeOK
  BY <1>1, <1>2, Fetches DEF ViewInit, ViewTypeOK
<1> QED BY <1>2, <1>3 DEF ViewInit, ViewInv

\* A frame more at the end of the wire, or one less at its head.
LEMMA Frames ==
    ASSUME NEW w \in Seq({"subscribed", "changed"}), NEW m \in {"subscribed", "changed"}
    PROVE  /\ Append(w, m) \in Seq({"subscribed", "changed"})
           /\ \A i \in 1 .. Len(w) : i \in 1 .. Len(Append(w, m)) /\ Append(w, m)[i] = w[i]
           /\ Len(w) + 1 \in 1 .. Len(Append(w, m)) /\ Append(w, m)[Len(w) + 1] = m
           /\ w # <<>> => /\ Tail(w) \in Seq({"subscribed", "changed"})
                          /\ Head(w) \in {"subscribed", "changed"}
                          /\ \A i \in 1 .. Len(w) : i # 1 =>
                                i - 1 \in 1 .. Len(Tail(w)) /\ Tail(w)[i - 1] = w[i]
OBVIOUS

LEMMA ViewStep ==
    ASSUME ViewInv, ViewNext
    PROVE  ViewInv'
<1> USE DEF ViewInv, ViewTypeOK
<1>1. CASE CommitChange
  BY <1>1, LiveViewAssumption DEF CommitChange, Coming, Versions
<1>2. CASE Deliver
  <2>1. wire \in Seq({"subscribed", "changed"})
    OBVIOUS
  <2>2. /\ owed' \in Nat /\ UNCHANGED <<version, conn, again, back, shown, fetch>>
        /\ wire' = IF conn \in {"added", "open"} THEN Append(wire, "changed") ELSE wire
    BY <1>2 DEF Deliver, Notify
  <2>3. ViewTypeOK'
    BY <2>1, <2>2, Frames
  <2>4. conn = "open" => \E i \in 1 .. Len(wire') : wire'[i] = "changed"
    BY <2>1, <2>2, Frames
  <2>5. \A i \in 1 .. Len(wire') : wire'[i] = "subscribed" => conn = "open"
    BY <2>1, <2>2
  <2> QED BY <2>2, <2>3, <2>4, <2>5 DEF Coming
<1>3. CASE Dial \/ Subscribe
  BY <1>3 DEF Dial, Subscribe, Connection
<1>4. CASE Acknowledge
  <2>1. ViewTypeOK'
    BY <1>4, Frames DEF Acknowledge, Connection
  <2> QED BY <1>4, <2>1 DEF Acknowledge
<1>5. CASE OnMessage
  <2>1. wire \in Seq({"subscribed", "changed"}) /\ wire # <<>> /\ wire' = Tail(wire)
    BY <1>5 DEF OnMessage
  <2>2. /\ fetch' \in {fetch, Asked} /\ again' \in BOOLEAN /\ back' \in BOOLEAN
        /\ UNCHANGED <<version, owed, conn, shown>>
    BY <1>5 DEF OnMessage, OnAck, Refetch
  <2>3. ViewTypeOK'
    BY <2>1, <2>2, Frames, Fetches
  <2>4. \A i \in 1 .. Len(wire') : wire'[i] = "subscribed" => conn' = "open"
    BY <2>1, <2>2
  <2>5. back' => conn' = "open" /\ fetch'.at = "asked"
    <3>1. CASE Head(wire) = "subscribed"
      <4>1. 1 \in 1 .. Len(wire) /\ wire[1] = "subscribed"
        BY <2>1, <3>1
      <4>2. fetch' = (IF again THEN Asked ELSE fetch) /\ back' = again
        BY <1>5, <3>1 DEF OnMessage, OnAck, Refetch
      <4> QED BY <2>2, <4>1, <4>2, Fetches
    <3>2. CASE Head(wire) # "subscribed"
      <4>1. fetch' = Asked /\ back' = back
        BY <1>5, <3>2 DEF OnMessage, Refetch
      <4> QED BY <2>2, <4>1, Fetches
    <3> QED BY <3>1, <3>2
  <2> QED BY <2>3, <2>4, <2>5 DEF Coming
<1>6. CASE Close \/ ServerDies
  <2>1. wire' = <<>>
    BY <1>6, Zenon DEF Close, ServerDies
  <2>2. conn' \in Connection /\ owed' \in Nat
    BY <1>6 DEF Close, ServerDies, Connection
  <2>3. /\ again' \in BOOLEAN /\ back' = FALSE
        /\ UNCHANGED <<version, shown, fetch>>
    BY <1>6 DEF Close, ServerDies
  <2>4. wire' \in Seq({"subscribed", "changed"}) /\ Len(wire') = 0
    BY <2>1
  <2>5. ViewTypeOK'
    BY <2>2, <2>3, <2>4
  <2> QED BY <2>3, <2>4, <2>5
<1>7. CASE Answered
  <2>1. fetch' \in Query /\ fetch'.at = "answered" /\ fetch'.brings = version
    BY <1>7 DEF Answered, Query
  <2> QED BY <1>7, <2>1 DEF Answered, Coming
<1>8. CASE Arrives
  <2>1. fetch.brings \in Versions
    BY DEF Query
  <2> QED BY <1>8, <2>1, Fetches DEF Arrives, Coming
<1>9. CASE GivesUp
  <2>1. fetch' \in Query /\ fetch'.at = "failed"
    BY <1>9, LiveViewAssumption DEF GivesUp, Query, Versions
  <2> QED BY <1>9, <2>1 DEF GivesUp, Coming
<1>10. CASE Revisit
  BY <1>10, Fetches DEF Revisit, Coming
<1> QED BY <1>1, <1>2, <1>3, <1>4, <1>5, <1>6, <1>7, <1>8, <1>9, <1>10 DEF ViewNext

\* Types: the connection, its frames and the page stay within their types.
THEOREM ViewTyped == ViewSpec => []ViewTypeOK
<1>1. ViewInv /\ [ViewNext]_viewVars => ViewInv'
  BY ViewStep DEF ViewInv, ViewTypeOK, Coming, viewVars
<1>2. ViewInv => ViewTypeOK
  BY DEF ViewInv
<1> QED BY <1>1, <1>2, ViewInvInit, PTL DEF ViewSpec

\* However often a page loses its connection and whatever is committed meanwhile, one that
\* is connected again and has nothing to wait for shows what is committed (design.md:848).
THEOREM NothingIsMissed == ViewSpec => []NothingMissed
<1>1. ViewInv /\ [ViewNext]_viewVars => ViewInv'
  BY ViewStep DEF ViewInv, ViewTypeOK, Coming, viewVars
<1>2. ViewInv => NothingMissed
  BY DEF ViewInv, ViewTypeOK, Coming, NothingMissed
<1> QED BY <1>1, <1>2, ViewInvInit, PTL DEF ViewSpec

----------------------------------------------------------------------------
\* Checklists.

\* What the tick has read stays true until it commits: what it takes for ended is there and
\* had ended, and what was or becomes live beside it had not.
SweepHolds ==
    sweeping # None =>
        /\ swept <= sweeping.at /\ sweeping.at <= hour
        /\ \A k \in sweeping.ended :
              ckRow[k].status # "absent" /\ ckRow[k].ends <= sweeping.at
        /\ \A k \in Slots \ sweeping.ended :
              ckRow[k].status \in Live => sweeping.at < ckRow[k].ends
        /\ \A k \in sweeping.wanted : sweeping.at < ShiftEnd(k[1], k[2])

CkInv ==
    /\ CkTypeOK
    /\ swept <= hour
    /\ SweepHolds
    /\ WindowDecides

LEMMA CkRowsTyped ==
    /\ Absent \in CkRow /\ Absent.status = "absent" /\ Absent.ends = 0 /\ Absent.raised = 0
    /\ \A k \in DueSlots :
          /\ ShiftEnd(k[1], k[2]) \in Nat
          /\ Generated(k) \in CkRow
          /\ Generated(k).status = "open" /\ Generated(k).raised = 0
          /\ Generated(k).ends = ShiftEnd(k[1], k[2])
<1>1. Absent \in CkRow /\ Absent.status = "absent" /\ Absent.ends = 0 /\ Absent.raised = 0
  BY DEF Absent, CkRow, Live
<1>2. ASSUME NEW k \in DueSlots PROVE ShiftEnd(k[1], k[2]) \in Nat
  <2>1. k[1] \in Nat /\ k[2] \in {"am", "pm", "overnight"}
    BY ChecklistsAssumption DEF DueSlots, Shifts
  <2> QED BY <2>1 DEF ShiftEnd
<1>3. ASSUME NEW k \in DueSlots
      PROVE  /\ Generated(k) \in CkRow
             /\ Generated(k).status = "open" /\ Generated(k).raised = 0
             /\ Generated(k).ends = ShiftEnd(k[1], k[2])
  BY <1>1, <1>2 DEF Generated, CkRow, Live
<1> QED BY <1>1, <1>2, <1>3

LEMMA BegunTyped ==
    ASSUME CkTypeOK, NEW r \in CkRow
    PROVE  /\ Begun(r) \in CkRow
           /\ Begun(r).status = "in_progress"
           /\ Begun(r).ends = r.ends /\ Begun(r).raised = r.raised
BY DEF Begun, CkRow, Live

LEMMA CkInvInit == CkInit => CkInv
<1> SUFFICES ASSUME CkInit PROVE CkInv
  OBVIOUS
<1>1. CkTypeOK
  BY CkRowsTyped DEF CkInit, CkTypeOK
<1>2. \A k \in Slots : ckRow[k].status = "absent"
  BY CkRowsTyped DEF CkInit
<1> QED BY <1>1, <1>2 DEF CkInit, CkInv, SweepHolds, WindowDecides, Live

\* One row is changed, and its end stays, or it is live from now on and ends later.
LEMMA RewriteKeeps ==
    ASSUME CkInv, NEW k \in Slots, NEW r \in CkRow, Rewrite(k, r),
           UNCHANGED <<sweeping, swept, hour>>,
           r.status # "missed", r.status # "absent",
           \/ ckRow[k].status \in Live /\ r.ends = ckRow[k].ends
           \/ r.status = "complete" /\ r.ends = ckRow[k].ends
           \/ ckRow[k].status = "absent" /\ hour < r.ends
    PROVE  SweepHolds' /\ WindowDecides' /\ ckRow' \in [Slots -> CkRow]
<1>1. ckRow \in [Slots -> CkRow] /\ hour \in Nat /\ swept \in Nat /\ swept <= hour
  BY DEF CkInv, CkTypeOK
<1>2. ckRow' \in [Slots -> CkRow] /\ ckRow'[k] = r
      /\ \A l \in Slots \ {k} : ckRow'[l] = ckRow[l]
  BY <1>1 DEF Rewrite
<1>3. WindowDecides'
  <2>1. r.status \in Live => swept < r.ends
    BY <1>1 DEF CkInv, WindowDecides, CkRow, Live
  <2> QED BY <1>2, <2>1 DEF CkInv, WindowDecides
<1>4. SweepHolds'
  <2> SUFFICES ASSUME sweeping # None PROVE SweepHolds'
    BY DEF SweepHolds
  <2>1. /\ sweeping.at \in Nat /\ sweeping.at <= hour /\ swept <= sweeping.at
        /\ sweeping.ended \subseteq Slots
    BY DEF CkInv, CkTypeOK, SweepHolds
  <2>2. k \in sweeping.ended => ckRow[k].status # "absent" /\ ckRow[k].ends <= sweeping.at
    BY DEF CkInv, SweepHolds
  <2>3. k \in sweeping.ended => r.ends <= sweeping.at
    BY <2>2
  <2>4. k \notin sweeping.ended => (r.status \in Live => sweeping.at < r.ends)
    BY <1>1, <2>1 DEF CkInv, SweepHolds, CkRow, Live
  <2> QED BY <1>2, <2>1, <2>3, <2>4 DEF CkInv, SweepHolds
<1> QED BY <1>2, <1>3, <1>4

\* The clerks' requests.
LEMMA ClerkKeeps == CkInv /\ Clerk => CkInv'
<1> SUFFICES ASSUME CkInv, Clerk PROVE CkInv'
  OBVIOUS
<1>1. CkTypeOK /\ ckRow \in [Slots -> CkRow] /\ hour \in Nat /\ swept <= hour
  BY DEF CkInv, CkTypeOK
<1>2. ASSUME UNCHANGED <<ckRow, sweeping, swept, hour>>, CkTypeOK'
      PROVE  CkInv'
  BY <1>2 DEF CkInv, SweepHolds, WindowDecides
<1>3. ASSUME NEW p \in Plans, EditPlan(p) PROVE CkInv'
  BY <1>1, <1>2, <1>3 DEF EditPlan, CkTypeOK
<1>4. ASSUME NEW kept \in (SUBSET Items) \ {{}}, NEW asked \in SUBSET kept, EditItems(kept, asked)
      PROVE  CkInv'
  BY <1>1, <1>2, <1>4 DEF EditItems, CkTypeOK
<1>5. ASSUME NEW k \in Slots, BeginChecklist(k) PROVE CkInv'
  <2>1. /\ Begun(ckRow[k]) \in CkRow /\ Begun(ckRow[k]).status = "in_progress"
        /\ Begun(ckRow[k]).ends = ckRow[k].ends
    BY <1>1, BegunTyped
  <2>2. /\ ckRow[k].status = "open" /\ Rewrite(k, Begun(ckRow[k]))
        /\ UNCHANGED <<ckPlan, current, required, closing, sweeping, swept, hour>>
    BY <1>5 DEF BeginChecklist
  <2>3. SweepHolds' /\ WindowDecides' /\ ckRow' \in [Slots -> CkRow]
    BY <2>1, <2>2, RewriteKeeps DEF Live
  <2> QED BY <1>1, <2>2, <2>3 DEF CkInv, CkTypeOK
<1>6. ASSUME NEW k \in Extra, StartOnDemand(k) PROVE CkInv'
  <2> DEFINE r == [Begun(Absent) EXCEPT !.ends = CurrentEnd(hour)]
  <2>1. CurrentEnd(hour) \in Nat /\ hour < CurrentEnd(hour)
    BY <1>1 DEF CurrentEnd
  <2>2. r \in CkRow /\ r.status = "in_progress" /\ r.ends = CurrentEnd(hour)
    BY <1>1, <2>1, CkRowsTyped, BegunTyped DEF CkRow
  <2>3. /\ ckRow[k].status = "absent" /\ Rewrite(k, r) /\ k \in Slots
        /\ UNCHANGED <<ckPlan, current, required, closing, sweeping, swept, hour>>
    BY <1>6 DEF StartOnDemand, Slots
  <2> HIDE DEF r
  <2>4. SweepHolds' /\ WindowDecides' /\ ckRow' \in [Slots -> CkRow]
    BY <2>1, <2>2, <2>3, RewriteKeeps
  <2> QED BY <1>1, <2>3, <2>4 DEF CkInv, CkTypeOK
<1>7. ASSUME NEW k \in Slots, NEW i \in Items, NEW v \in {"blank", "in", "out"},
             SaveAnswer(k, i, v)
      PROVE  CkInv'
  <2> DEFINE r == [ckRow[k] EXCEPT !.answers[i] = v]
  <2>1. r \in CkRow /\ r.status = ckRow[k].status /\ r.ends = ckRow[k].ends
    BY <1>1 DEF CkRow
  <2>2. /\ ckRow[k].status = "in_progress" /\ Rewrite(k, r)
        /\ UNCHANGED <<ckPlan, current, required, closing, sweeping, swept, hour>>
    BY <1>7 DEF SaveAnswer
  <2> HIDE DEF r
  <2>3. SweepHolds' /\ WindowDecides' /\ ckRow' \in [Slots -> CkRow]
    BY <2>1, <2>2, RewriteKeeps DEF Live
  <2> QED BY <1>1, <2>2, <2>3 DEF CkInv, CkTypeOK
<1>8. ASSUME NEW c \in Clerks, NEW k \in Slots, CompleteReads(c, k) PROVE CkInv'
  <2>1. [key |-> k, outs |-> OutOfRange(ckRow[k])] \in [key : Slots, outs : SUBSET Items]
    BY DEF OutOfRange
  <2>2. /\ closing' = [closing EXCEPT ![c] = [key |-> k, outs |-> OutOfRange(ckRow[k])]]
        /\ UNCHANGED <<ckPlan, current, required, ckRow, sweeping, swept, hour>>
    BY <1>8 DEF CompleteReads
  <2>3. CkTypeOK'
    BY <1>1, <2>1, <2>2 DEF CkTypeOK
  <2> QED BY <1>2, <2>2, <2>3
<1>9. ASSUME NEW c \in Clerks, CompleteCommits(c) PROVE CkInv'
  <2> DEFINE k == closing[c].key
             n == Cardinality(closing[c].outs)
             r == [ckRow[k] EXCEPT !.status = "complete", !.raised = @ + n]
  <2>1. /\ closing[c] \in [key : Slots, outs : SUBSET Items] /\ Rewrite(k, r)
        /\ closing' = [closing EXCEPT ![c] = None]
        /\ UNCHANGED <<ckPlan, current, required, sweeping, swept, hour>>
    BY <1>1, <1>9 DEF CompleteCommits, Raising, CkTypeOK
  <2>2. n \in Nat
    <3>1. IsFiniteSet(Items) /\ closing[c].outs \in SUBSET Items
      BY <2>1, ChecklistsAssumption
    <3>2. IsFiniteSet(closing[c].outs)
      BY <3>1, FS_Subset
    <3> QED BY <3>2, FS_CardinalityType
  <2> HIDE DEF n
  <2>3. k \in Slots /\ r \in CkRow /\ r.status = "complete" /\ r.ends = ckRow[k].ends
    <3>1. k \in Slots /\ ckRow[k] \in CkRow
      BY <1>1, <2>1
    <3>2. ckRow[k].raised + n \in Nat
      BY <2>2, <3>1 DEF CkRow
    <3>3. r = [ckRow[k] EXCEPT !.status = "complete", !.raised = ckRow[k].raised + n]
      BY <3>1 DEF CkRow
    <3> HIDE DEF k, r
    <3> QED BY <3>1, <3>2, <3>3 DEF CkRow
  <2> HIDE DEF r, k
  <2>4. SweepHolds' /\ WindowDecides' /\ ckRow' \in [Slots -> CkRow]
    BY <2>1, <2>3, RewriteKeeps
  <2>5. closing' \in [Clerks -> [key : Slots, outs : SUBSET Items] \cup {None}]
    BY <1>1, <2>1 DEF CkTypeOK
  <2> QED BY <1>1, <2>1, <2>4, <2>5 DEF CkInv, CkTypeOK
<1>10. ASSUME NEW c \in Clerks, CompleteFails(c) PROVE CkInv'
  BY <1>1, <1>2, <1>10 DEF CompleteFails, CkTypeOK
<1> QED BY <1>3, <1>4, <1>5, <1>6, <1>7, <1>8, <1>9, <1>10 DEF Clerk

LEMMA SweepKeeps == CkInv /\ (SweepReads \/ SweepCommits \/ SweepFails \/ NextHour) => CkInv'
<1> SUFFICES ASSUME CkInv, SweepReads \/ SweepCommits \/ SweepFails \/ NextHour PROVE CkInv'
  OBVIOUS
<1>1. /\ CkTypeOK /\ SweepHolds /\ WindowDecides
      /\ ckRow \in [Slots -> CkRow] /\ hour \in Nat /\ swept \in Nat /\ swept <= hour
  BY DEF CkInv, CkTypeOK
<1>2. CASE SweepReads
  <2>1. /\ sweeping' = [at |-> hour, wanted |-> Wanted, ended |-> Ended]
        /\ UNCHANGED <<ckPlan, current, required, ckRow, closing, swept, hour>>
    BY <1>2 DEF SweepReads
  <2>2. Wanted \in SUBSET DueSlots /\ \A k \in Wanted : hour < ShiftEnd(k[1], k[2])
    BY DEF Wanted
  <2>3. Ended \in SUBSET Slots
    BY DEF Ended
  <2>4. /\ \A k \in Ended : ckRow[k].status # "absent" /\ ckRow[k].ends <= hour
        /\ \A k \in Slots \ Ended : ckRow[k].status \in Live => hour < ckRow[k].ends
    BY <1>1 DEF Ended, Live, CkRow
  <2> HIDE DEF Wanted, Ended
  <2>5. CkTypeOK'
    BY <1>1, <2>1, <2>2, <2>3 DEF CkTypeOK
  <2>6. SweepHolds'
    BY <1>1, <2>1, <2>2, <2>4 DEF SweepHolds
  <2>7. WindowDecides'
    BY <1>1, <2>1 DEF WindowDecides
  <2> QED BY <1>1, <2>1, <2>5, <2>6, <2>7 DEF CkInv
<1>3. CASE SweepCommits
  <2>1. /\ sweeping # None
        /\ sweeping \in [at : Nat, wanted : SUBSET DueSlots, ended : SUBSET Slots]
        /\ swept' = sweeping.at /\ sweeping' = None
        /\ UNCHANGED <<ckPlan, current, required, closing, hour>>
    BY <1>1, <1>3 DEF SweepCommits, CkTypeOK
  <2>2. ASSUME NEW k \in Slots
        PROVE  /\ ckRow'[k] \in CkRow
               /\ ckRow'[k].status \in Live => sweeping.at < ckRow'[k].ends
               /\ ckRow'[k].status = "missed" => ckRow'[k].ends <= sweeping.at
    <3>1. ckRow'[k] = IF ckRow[k].status = "absent" /\ k \in sweeping.wanted THEN Generated(k)
                      ELSE IF Lapsed(k) THEN [ckRow[k] EXCEPT !.status = "missed"]
                      ELSE ckRow[k]
      BY <1>3 DEF SweepCommits
    <3>2. CASE ckRow[k].status = "absent" /\ k \in sweeping.wanted
      <4>1. k \in DueSlots /\ sweeping.at < ShiftEnd(k[1], k[2])
        BY <1>1, <2>1, <3>2 DEF SweepHolds
      <4> QED BY <3>1, <3>2, <4>1, CkRowsTyped
    <3>3. CASE ~(ckRow[k].status = "absent" /\ k \in sweeping.wanted) /\ Lapsed(k)
      <4>1. ckRow'[k] = [ckRow[k] EXCEPT !.status = "missed"] /\ k \in sweeping.ended
        BY <3>1, <3>3 DEF Lapsed
      <4>2. ckRow[k].ends <= sweeping.at
        BY <1>1, <2>1, <4>1 DEF SweepHolds
      <4>3. ckRow'[k] \in CkRow /\ ckRow'[k].status = "missed" /\ ckRow'[k].ends = ckRow[k].ends
        BY <1>1, <4>1 DEF CkRow
      <4> QED BY <4>2, <4>3 DEF Live
    <3>4. CASE ~(ckRow[k].status = "absent" /\ k \in sweeping.wanted) /\ ~Lapsed(k)
      <4>1. ckRow'[k] = ckRow[k] /\ (ckRow[k].status \in Live => k \notin sweeping.ended)
        BY <3>1, <3>4 DEF Lapsed
      <4>2. ckRow[k].status = "missed" => ckRow[k].ends <= swept
        BY <1>1 DEF WindowDecides
      <4>3. swept <= sweeping.at /\ ckRow[k].ends \in Nat
        BY <1>1, <2>1 DEF SweepHolds, CkRow
      <4> QED BY <1>1, <2>1, <4>1, <4>2, <4>3 DEF SweepHolds
    <3> QED BY <3>2, <3>3, <3>4
  <2>3. ckRow' \in [Slots -> CkRow]
    <3>1. ckRow' = [k \in Slots |-> ckRow'[k]]
      BY <1>3 DEF SweepCommits
    <3> QED BY <2>2, <3>1
  <2>4. CkTypeOK'
    BY <1>1, <2>1, <2>3 DEF CkTypeOK
  <2>5. swept' <= hour'
    BY <1>1, <2>1 DEF SweepHolds
  <2> QED BY <2>1, <2>2, <2>4, <2>5 DEF CkInv, SweepHolds, WindowDecides
<1>4. CASE SweepFails
  BY <1>1, <1>4 DEF SweepFails, CkInv, CkTypeOK, SweepHolds, WindowDecides
<1>5. CASE NextHour
  <2>1. /\ hour' = hour + 1 /\ hour' \in Nat
        /\ UNCHANGED <<ckPlan, current, required, ckRow, closing, sweeping, swept>>
    BY <1>1, <1>5 DEF NextHour
  <2>2. CkTypeOK'
    BY <1>1, <2>1 DEF CkTypeOK
  <2>3. SweepHolds'
    BY <1>1, <2>1 DEF SweepHolds, CkTypeOK
  <2> QED BY <1>1, <2>1, <2>2, <2>3 DEF CkInv, WindowDecides
<1> QED BY <1>2, <1>3, <1>4, <1>5

LEMMA CkInvNext == CkInv /\ [CkNext]_ckVars => CkInv'
<1>1. CkInv /\ UNCHANGED ckVars => CkInv'
  BY DEF CkInv, CkTypeOK, SweepHolds, WindowDecides, ckVars
<1> QED BY <1>1, ClerkKeeps, SweepKeeps DEF CkNext

\* Types: the template, its instances and what is under way stay within their types.
THEOREM ChecklistsTyped == CkSpec => []CkTypeOK
<1>1. CkInv => CkTypeOK
  BY DEF CkInv
<1> QED BY <1>1, CkInvInit, CkInvNext, PTL DEF CkSpec

\* For any schedule, however it is edited and whatever is saved, started or completed while
\* a tick is under way, no checklist is live whose shift had ended at the last tick, and
\* none is missed whose shift had not (ck_tick.py:27-28, 37-47).
THEOREM TheWindowDecides == CkSpec => []WindowDecides
<1>1. CkInv => WindowDecides
  BY DEF CkInv
<1> QED BY <1>1, CkInvInit, CkInvNext, PTL DEF CkSpec

\* Where nothing on its instance comes between what a completion reads and what it writes:
\* the row it will write is under way or missed meanwhile, holds the readings it has read,
\* and no other completion will write it.
ClosingHolds ==
    /\ \A c \in Clerks : closing[c] # None =>
          LET r == ckRow[closing[c].key] IN
          /\ r.status \in {"in_progress", "missed"}
          /\ closing[c].outs = OutOfRange(r)
    /\ \A c, d \in Clerks :
          closing[c] # None /\ closing[d] # None /\ closing[c].key = closing[d].key => c = d

\* A row that no completion has in hand keeps its readings unless it is new.
LEMMA ReportsKeep ==
    ASSUME CkTypeOK, ClosingHolds, ReadingsReported, UNCHANGED closing,
           \A k \in Slots :
               \/ ckRow'[k] = ckRow[k]
               \/ /\ ckRow[k].status \in {"absent", "open"}
                  /\ ckRow'[k].status # "complete" /\ ckRow'[k].raised = ckRow[k].raised
               \/ /\ ckRow[k].status # "complete" /\ ckRow'[k].status = "missed"
                  /\ ckRow'[k].raised = ckRow[k].raised
                  /\ ckRow'[k].answers = ckRow[k].answers
    PROVE  ClosingHolds' /\ ReadingsReported'
<1>1. closing \in [Clerks -> [key : Slots, outs : SUBSET Items] \cup {None}]
  BY DEF CkTypeOK
<1>2. ASSUME NEW k \in Slots
      PROVE  (ckRow[k].raised =
                IF ckRow[k].status = "complete" THEN Cardinality(OutOfRange(ckRow[k])) ELSE 0)'
  BY DEF ReadingsReported
<1>3. ASSUME NEW c \in Clerks, closing[c] # None
      PROVE  /\ ckRow'[closing[c].key].status \in {"in_progress", "missed"}
             /\ closing[c].outs = OutOfRange(ckRow'[closing[c].key])
  <2>1. closing[c].key \in Slots
    BY <1>1, <1>3
  <2>2. /\ ckRow[closing[c].key].status \in {"in_progress", "missed"}
        /\ closing[c].outs = OutOfRange(ckRow[closing[c].key])
    BY <1>3 DEF ClosingHolds
  <2> QED BY <2>1, <2>2 DEF OutOfRange
<1> QED BY <1>2, <1>3 DEF ClosingHolds, ReadingsReported

\* Only an answer and a completion remain; every other request leaves a complete row alone.
LEMMA ReportStep ==
    ASSUME Beside = {}, CkInv, ClosingHolds, ReadingsReported, CkNext
    PROVE  /\ ClosingHolds' /\ ReadingsReported'
           /\ \A k \in Slots : ckRow[k].status = "complete" => ckRow'[k] = ckRow[k]
<1> DEFINE Final == \A k \in Slots : ckRow[k].status = "complete" => ckRow'[k] = ckRow[k]
<1>1. CkTypeOK /\ ckRow \in [Slots -> CkRow]
      /\ closing \in [Clerks -> [key : Slots, outs : SUBSET Items] \cup {None}]
  BY DEF CkInv, CkTypeOK
<1>2. ASSUME UNCHANGED <<ckRow, closing>> PROVE ClosingHolds' /\ ReadingsReported' /\ Final
  BY <1>2 DEF ClosingHolds, ReadingsReported
<1>3. ASSUME NEW k \in Slots, BeginChecklist(k)
      PROVE  ClosingHolds' /\ ReadingsReported' /\ Final
  <2>1. Begun(ckRow[k]).status = "in_progress" /\ Begun(ckRow[k]).raised = ckRow[k].raised
    BY <1>1, BegunTyped
  <2>2. /\ ckRow[k].status = "open" /\ UNCHANGED closing
        /\ ckRow' = [ckRow EXCEPT ![k] = Begun(ckRow[k])]
    BY <1>3 DEF BeginChecklist, Rewrite
  <2> QED BY <1>1, <2>1, <2>2, ReportsKeep
<1>4. ASSUME NEW k \in Extra, StartOnDemand(k)
      PROVE  ClosingHolds' /\ ReadingsReported' /\ Final
  <2> DEFINE r == [Begun(Absent) EXCEPT !.ends = CurrentEnd(hour)]
  <2>1. r.status = "in_progress" /\ r.raised = 0
    BY <1>1, CkRowsTyped, BegunTyped DEF CkRow
  <2>2. /\ ckRow[k].status = "absent" /\ UNCHANGED closing
        /\ ckRow' = [ckRow EXCEPT ![k] = r] /\ k \in Slots
    BY <1>4 DEF StartOnDemand, Rewrite, Slots
  <2>3. ckRow[k].raised = 0
    BY <2>2 DEF ReadingsReported
  <2> HIDE DEF r
  <2> QED BY <1>1, <2>1, <2>2, <2>3, ReportsKeep
<1>5. ASSUME NEW k \in Slots, NEW i \in Items, NEW v \in {"blank", "in", "out"},
             SaveAnswer(k, i, v)
      PROVE  ClosingHolds' /\ ReadingsReported' /\ Final
  <2> DEFINE r == [ckRow[k] EXCEPT !.answers[i] = v]
  <2>1. r.status = ckRow[k].status /\ r.raised = ckRow[k].raised
    BY <1>1 DEF CkRow
  <2>2. /\ ckRow[k].status = "in_progress" /\ UNCHANGED closing
        /\ ckRow' = [ckRow EXCEPT ![k] = r]
        /\ \A c \in Clerks : closing[c] # None => closing[c].key # k
    BY <1>5 DEF SaveAnswer, Rewrite, MayCommit
  <2> HIDE DEF r
  <2>3. ckRow'[k] = r /\ \A l \in Slots : l # k => ckRow'[l] = ckRow[l]
    BY <1>1, <2>2
  <2>4. ReadingsReported'
    BY <2>1, <2>2, <2>3 DEF ReadingsReported
  <2> QED BY <1>1, <2>2, <2>3, <2>4 DEF ClosingHolds
<1>6. ASSUME NEW c \in Clerks, NEW k \in Slots, CompleteReads(c, k)
      PROVE  ClosingHolds' /\ ReadingsReported' /\ Final
  <2> DEFINE d == [key |-> k, outs |-> OutOfRange(ckRow[k])]
  <2>1. /\ ckRow[k].status = "in_progress" /\ UNCHANGED ckRow
        /\ closing' = [closing EXCEPT ![c] = d]
        /\ \A b \in Clerks : closing[b] # None => closing[b].key # k
    BY <1>6 DEF CompleteReads, MayCommit
  <2>2. d.key = k /\ d.outs = OutOfRange(ckRow[k])
    OBVIOUS
  <2> HIDE DEF d
  <2>3. closing'[c] = d /\ \A b \in Clerks : b # c => closing'[b] = closing[b]
    BY <1>1, <2>1
  <2>4. ClosingHolds'
    BY <2>1, <2>2, <2>3 DEF ClosingHolds
  <2> QED BY <2>1, <2>4 DEF ReadingsReported
<1>7. ASSUME NEW c \in Clerks, CompleteCommits(c)
      PROVE  ClosingHolds' /\ ReadingsReported' /\ Final
  <2> DEFINE k == closing[c].key
             n == Cardinality(closing[c].outs)
             r == [ckRow[k] EXCEPT !.status = "complete", !.raised = @ + n]
  <2>1. /\ closing[c] # None /\ k \in Slots /\ closing[c].outs \in SUBSET Items
        /\ ckRow' = [ckRow EXCEPT ![k] = r]
        /\ closing' = [closing EXCEPT ![c] = None]
    BY <1>1, <1>7 DEF CompleteCommits, Raising, Rewrite
  <2>2. /\ ckRow[k].status \in {"in_progress", "missed"}
        /\ closing[c].outs = OutOfRange(ckRow[k])
    BY <2>1 DEF ClosingHolds
  <2>3. n \in Nat
    <3>1. IsFiniteSet(closing[c].outs)
      BY <2>1, ChecklistsAssumption, FS_Subset
    <3> QED BY <3>1, FS_CardinalityType
  <2>4. ckRow[k].raised = 0
    BY <2>1, <2>2 DEF ReadingsReported
  <2>5. n = Cardinality(OutOfRange(ckRow[k]))
    BY <2>2
  <2> HIDE DEF k, n
  <2>6. r.status = "complete" /\ r.raised = n /\ OutOfRange(r) = OutOfRange(ckRow[k])
    BY <1>1, <2>1, <2>3, <2>4 DEF CkRow, OutOfRange
  <2> HIDE DEF r
  <2>7. ckRow'[k] = r /\ \A l \in Slots : l # k => ckRow'[l] = ckRow[l]
    BY <1>1, <2>1
  <2>8. ReadingsReported'
    BY <2>5, <2>6, <2>7 DEF ReadingsReported
  <2>9. \A b \in Clerks : closing'[b] # None =>
            /\ b # c /\ closing'[b] = closing[b] /\ closing[b].key \in Slots
            /\ closing[b].key # k
    BY <1>1, <2>1 DEF ClosingHolds, k
  <2>10. ClosingHolds'
    BY <2>7, <2>9 DEF ClosingHolds
  <2> QED BY <2>2, <2>7, <2>8, <2>10
<1>8. ASSUME NEW c \in Clerks, CompleteFails(c)
      PROVE  ClosingHolds' /\ ReadingsReported' /\ Final
  <2>1. closing' = [closing EXCEPT ![c] = None] /\ UNCHANGED ckRow
    BY <1>8 DEF CompleteFails
  <2>2. closing'[c] = None /\ \A b \in Clerks : b # c => closing'[b] = closing[b]
    BY <1>1, <2>1
  <2> QED BY <2>1, <2>2 DEF ClosingHolds, ReadingsReported
<1>9. CASE SweepCommits
  <2>1. UNCHANGED closing
    BY <1>9 DEF SweepCommits
  <2>2. ASSUME NEW k \in Slots
        PROVE  \/ ckRow'[k] = ckRow[k]
               \/ /\ ckRow[k].status \in {"absent", "open"}
                  /\ ckRow'[k].status # "complete" /\ ckRow'[k].raised = ckRow[k].raised
               \/ /\ ckRow[k].status # "complete" /\ ckRow'[k].status = "missed"
                  /\ ckRow'[k].raised = ckRow[k].raised
                  /\ ckRow'[k].answers = ckRow[k].answers
    <3>1. ckRow'[k] = IF ckRow[k].status = "absent" /\ k \in sweeping.wanted THEN Generated(k)
                      ELSE IF Lapsed(k) THEN [ckRow[k] EXCEPT !.status = "missed"]
                      ELSE ckRow[k]
      BY <1>9 DEF SweepCommits
    <3>2. CASE ckRow[k].status = "absent" /\ k \in sweeping.wanted
      <4>1. k \in DueSlots /\ ckRow[k].raised = 0
        BY <1>1, <1>9, <3>2 DEF CkTypeOK, SweepCommits, ReadingsReported
      <4> QED BY <3>1, <3>2, <4>1, CkRowsTyped
    <3>3. CASE ~(ckRow[k].status = "absent" /\ k \in sweeping.wanted) /\ Lapsed(k)
      BY <1>1, <3>1, <3>3 DEF Lapsed, CkRow, Live
    <3> QED BY <3>1, <3>2, <3>3
  <2> QED BY <1>1, <2>1, <2>2, ReportsKeep
<1>10. CASE SweepReads \/ SweepFails \/ NextHour
  BY <1>2, <1>10 DEF SweepReads, SweepFails, NextHour
<1>11. ASSUME NEW p \in Plans, EditPlan(p) PROVE ClosingHolds' /\ ReadingsReported' /\ Final
  BY <1>2, <1>11 DEF EditPlan
<1>12. ASSUME NEW kept \in (SUBSET Items) \ {{}}, NEW asked \in SUBSET kept, EditItems(kept, asked)
       PROVE  ClosingHolds' /\ ReadingsReported' /\ Final
  BY <1>2, <1>12 DEF EditItems
<1> HIDE DEF Final
<1>13. ASSUME Clerk PROVE ClosingHolds' /\ ReadingsReported' /\ Final
  BY <1>3, <1>4, <1>5, <1>6, <1>7, <1>8, <1>11, <1>12, <1>13 DEF Clerk
<1> USE DEF Final
<1> QED BY <1>9, <1>10, <1>13 DEF CkNext

LEMMA ReportsInit == CkInit => ClosingHolds /\ ReadingsReported
BY CkRowsTyped DEF CkInit, ClosingHolds, ReadingsReported

\* If no answer of a checklist is saved, and it is not completed again, while a completion of
\* it is under way, every reading out of range is reported once, whatever is done to other
\* checklists meanwhile, and though the tick may come between (ck_instances.py:215-241).
THEOREM ReadingsAreReported == ASSUME Beside = {} PROVE CkSpec => []ReadingsReported
<1>1. /\ CkInv /\ ClosingHolds /\ ReadingsReported /\ [CkNext]_ckVars
          => ClosingHolds' /\ ReadingsReported'
  <2>1. ClosingHolds /\ ReadingsReported /\ UNCHANGED ckVars => ClosingHolds' /\ ReadingsReported'
    BY DEF ClosingHolds, ReadingsReported, ckVars
  <2> QED BY <2>1, ReportStep
<1> QED BY <1>1, ReportsInit, CkInvInit, CkInvNext, PTL DEF CkSpec

\* Together: what becomes of a checklist follows from its shift and its answers.
THEOREM ShiftsAreAccounted == ASSUME Beside = {} PROVE CkSpec => []ShiftsAccounted
<1>1. WindowDecides /\ ReadingsReported => ShiftsAccounted
  BY DEF ShiftsAccounted
<1> QED BY <1>1, TheWindowDecides, ReadingsAreReported, PTL

\* Under the same condition a completed checklist stays as it is (ck_tick.py:40-44).
THEOREM CompletesStay == ASSUME Beside = {} PROVE CkSpec => CompleteIsFinal
<1>1. CkInv /\ ClosingHolds /\ ReadingsReported /\ [CkNext]_ckVars
          => /\ ClosingHolds' /\ ReadingsReported'
             /\ [\A k \in Slots : ckRow[k].status = "complete" => ckRow'[k] = ckRow[k]]_ckVars
  <2>1. ClosingHolds /\ ReadingsReported /\ UNCHANGED ckVars => ClosingHolds' /\ ReadingsReported'
    BY DEF ClosingHolds, ReadingsReported, ckVars
  <2> QED BY <2>1, ReportStep
<1> QED BY <1>1, ReportsInit, CkInvInit, CkInvNext, PTL DEF CkSpec, CompleteIsFinal

LEMMA MembersStep ==
    ASSUME MembersTypeOK, [MembersNext]_memberVars
    PROVE  MembersTypeOK'
<1>1. ASSUME NEW by \in Accounts, NEW u \in Accounts, NEW r \in Roles,
             NEW d \in OpenDepts \cup {None}, CreateStaff(by, u, r, d)
      PROVE  MembersTypeOK'
  BY <1>1 DEF CreateStaff, MembersTypeOK, OpenDepts
<1>2. ASSUME NEW t \in AdminDesks, NEW by \in Accounts, NEW u \in Accounts,
             NEW new \in Membership, CheckChange(t, by, u, new)
      PROVE  MembersTypeOK'
  <2>1. MemberRow(u) \in Membership
    BY DEF MemberRow, MembersTypeOK, Membership
  <2>2. [user |-> u, old |-> MemberRow(u), new |-> new] \in Change
    BY <2>1 DEF Change
  <2> QED BY <1>2, <2>2 DEF CheckChange, Intend, MembersTypeOK
<1>3. ASSUME NEW t \in AdminDesks, WriteChange(t) PROVE MembersTypeOK'
  <2> DEFINE c == change[t]
             w == IF c.new = Gone THEN Gone ELSE Flushed(MemberRow(c.user), c)
  <2>1. c \in Change /\ c.user \in Accounts
    BY <1>3 DEF WriteChange, MembersTypeOK, Change
  <2>2. w \in Membership
    <3>1. c.new \in Membership /\ c.old \in Membership /\ MemberRow(c.user) \in Membership
      BY <2>1 DEF Change, MemberRow, MembersTypeOK, Membership
    <3>2. Gone \in Membership
      BY DEF Gone, Membership
    <3> QED BY <3>1, <3>2 DEF Flushed, Membership
  <2>3. NoChange \in Change
    BY DEF NoChange, Change, Gone, Membership
  <2>4. /\ role' = [role EXCEPT ![c.user] = w.role]
        /\ dept' = [dept EXCEPT ![c.user] = w.dept]
        /\ change' = [x \in AdminDesks |->
               IF x = t \/ (w = Gone /\ change[x].user = c.user) THEN NoChange ELSE change[x]]
        /\ UNCHANGED deptRow
    BY <1>3 DEF WriteChange
  <2> HIDE DEF c, w
  <2>5. role' \in [Accounts -> Roles \cup {None}]
    BY <2>1, <2>2, <2>4 DEF MembersTypeOK, Membership
  <2>6. dept' \in [Accounts -> Departments \cup {None}]
    BY <2>1, <2>2, <2>4 DEF MembersTypeOK, Membership
  <2>7. change' \in [AdminDesks -> Change]
    BY <2>3, <2>4 DEF MembersTypeOK
  <2> QED BY <2>4, <2>5, <2>6, <2>7 DEF MembersTypeOK
<1>4. ASSUME NEW t \in AdminDesks, LoseChange(t) PROVE MembersTypeOK'
  <2>1. NoChange \in Change
    BY DEF NoChange, Change, Gone, Membership
  <2> QED BY <1>4, <2>1 DEF LoseChange, Intend, MembersTypeOK
<1>5. ASSUME NEW d \in Departments, CreateDepartment(d) \/ DeleteDepartment(d)
      PROVE  MembersTypeOK'
  BY <1>5 DEF CreateDepartment, DeleteDepartment, MembersTypeOK
<1>6. CASE UNCHANGED memberVars
  BY <1>6 DEF memberVars, MembersTypeOK
<1>7. CASE MembersNext
  <2>1. /\ Gone \in Membership
        /\ \A r \in Roles, d \in OpenDepts \cup {None} : [role |-> r, dept |-> d] \in Membership
    BY DEF Gone, Membership, OpenDepts
  <2> QED BY <1>1, <1>2, <1>3, <1>4, <1>5, <1>7, <2>1 DEF MembersNext
<1> QED BY <1>6, <1>7

LEMMA MembersStart == MembersInit => MembersTypeOK
<1>1. NoChange \in Change
  BY DEF NoChange, Change, Gone, Membership
<1> QED BY <1>1 DEF MembersInit, MembersTypeOK, Roles

\* A change that lowers a role leaves an administrator other than whom it lowers, from its
\* check to its write; any other change writes the role it found, or that of an administrator.
AdminInv ==
    /\ Administered
    /\ \A t \in AdminDesks : change[t].user # None => change[t].old.role # None
    /\ \A t \in AdminDesks : Lowers(t) => \E v \in Accounts \ {change[t].user} : IsAdmin(v)

\* A step that leaves every administrator one, and opens no change.
LEMMA AdminsKept ==
    ASSUME AdminInv, \A u \in Accounts : IsAdmin(u) => IsAdmin(u)',
           \A t \in AdminDesks : change'[t] \in {change[t], NoChange}
    PROVE  AdminInv'
<1>1. NoChange.user = None
  BY DEF NoChange
<1> QED BY <1>1 DEF AdminInv, Administered, Lowers

LEMMA AdminStep ==
    ASSUME OneLowered, MembersTypeOK, AdminInv, [MembersNext]_memberVars
    PROVE  AdminInv'
<1>0. None \notin Roles /\ NoChange.user = None /\ None \notin Accounts
  BY MembersAssumption DEF NoChange
<1>1. ASSUME NEW by \in Accounts, NEW u \in Accounts, NEW r \in Roles,
             NEW d \in OpenDepts \cup {None}, CreateStaff(by, u, r, d)
      PROVE  AdminInv'
  <2>1. role[u] = None /\ change' = change /\ \A v \in Accounts \ {u} : role'[v] = role[v]
    BY <1>1 DEF CreateStaff, Member, MembersTypeOK
  <2>2. \A v \in Accounts : IsAdmin(v) => IsAdmin(v)'
    BY <1>0, <2>1 DEF IsAdmin, Roles
  <2> QED BY <2>1, <2>2, AdminsKept
<1>2. ASSUME NEW t \in AdminDesks, NEW by \in Accounts, NEW u \in Accounts,
             NEW new \in Membership, CheckChange(t, by, u, new)
      PROVE  AdminInv'
  <2>1. /\ IsAdmin(by) /\ Member(u) /\ SparesAdmin(u, new.role) /\ UNCHANGED <<role, dept>>
        /\ change'[t] = [user |-> u, old |-> MemberRow(u), new |-> new]
        /\ \A s \in AdminDesks \ {t} : change'[s] = change[s]
    BY <1>2 DEF CheckChange, Intend, MembersTypeOK
  <2>2. change'[t].user = u /\ change'[t].old.role = role[u] /\ change'[t].new.role = new.role
    BY <2>1 DEF MemberRow
  <2>3. ASSUME Lowers(t)' PROVE \E v \in Accounts \ {u} : IsAdmin(v)
    <3>1. CASE IsAdmin(u)
      BY <2>1, <2>2, <2>3, <3>1 DEF Lowers, SparesAdmin
    <3>2. CASE ~IsAdmin(u)
      BY <2>1, <3>2
    <3> QED BY <3>1, <3>2
  <2>4. ASSUME NEW s \in AdminDesks, change'[s].user # None PROVE change'[s].old.role # None
    BY <2>1, <2>2, <2>4 DEF AdminInv, Member
  <2>5. ASSUME NEW s \in AdminDesks, Lowers(s)'
        PROVE  \E v \in Accounts \ {change'[s].user} : IsAdmin(v)
    <3>1. CASE s = t
      BY <2>2, <2>3, <2>5, <3>1
    <3>2. CASE s # t
      BY <2>1, <2>5, <3>2 DEF AdminInv, Lowers
    <3> QED BY <3>1, <3>2
  <2> QED BY <2>1, <2>4, <2>5 DEF AdminInv, Administered, IsAdmin
<1>3. ASSUME NEW t \in AdminDesks, WriteChange(t) PROVE AdminInv'
  <2> DEFINE c == change[t]
             w == IF c.new = Gone THEN Gone ELSE Flushed(MemberRow(c.user), c)
  <2>1. /\ c \in Change /\ c.user \in Accounts /\ c.old.role # None
        /\ c.new \in Membership /\ c.old \in Membership
    BY <1>0, <1>3 DEF WriteChange, MembersTypeOK, AdminInv, Change
  <2>2. w.role = IF c.new.role = c.old.role THEN role[c.user] ELSE c.new.role
    BY <2>1 DEF Flushed, MemberRow, Membership, Gone
  <2>3. /\ role' = [role EXCEPT ![c.user] = w.role]
        /\ \A s \in AdminDesks : change'[s] \in {change[s], NoChange}
        /\ change'[t] = NoChange
    BY <1>3 DEF WriteChange
  <2>4. Lowers(t) \/ w.role \in {"admin", role[c.user]}
    BY <1>0, <2>1, <2>2 DEF Lowers
  <2> HIDE DEF w
  <2>5. role'[c.user] = w.role /\ \A v \in Accounts \ {c.user} : role'[v] = role[v]
    BY <2>1, <2>3 DEF MembersTypeOK
  <2>6. CASE w.role \in {"admin", role[c.user]}
    <3>1. \A v \in Accounts : IsAdmin(v) => IsAdmin(v)'
      BY <2>5, <2>6 DEF IsAdmin
    <3> QED BY <2>3, <3>1, AdminsKept
  <2>7. CASE Lowers(t)
    <3>1. PICK v \in Accounts \ {c.user} : IsAdmin(v)
      BY <2>7 DEF AdminInv
    <3>2. IsAdmin(v)'
      BY <2>5, <3>1 DEF IsAdmin
    <3>3. \A s \in AdminDesks : Lowers(s)' => Lowers(s) /\ change'[s] = change[s]
      BY <1>0, <2>3 DEF Lowers
    <3>4. \A s \in AdminDesks : Lowers(s)' => v # change'[s].user
      BY <2>7, <3>1, <3>3 DEF OneLowered
    <3>5. \A s \in AdminDesks : change'[s].user # None => change'[s].old.role # None
      BY <1>0, <2>3 DEF AdminInv
    <3> QED BY <3>2, <3>4, <3>5 DEF AdminInv, Administered
  <2> QED BY <2>4, <2>6, <2>7
<1>4. ASSUME NEW t \in AdminDesks, LoseChange(t) PROVE AdminInv'
  <2>1. UNCHANGED role /\ \A s \in AdminDesks : change'[s] \in {change[s], NoChange}
    BY <1>4 DEF LoseChange, Intend, MembersTypeOK
  <2> QED BY <2>1, AdminsKept DEF IsAdmin
<1>5. ASSUME UNCHANGED <<role, change>> PROVE AdminInv'
  BY <1>5, AdminsKept DEF IsAdmin
<1>6. ASSUME NEW d \in Departments, CreateDepartment(d) \/ DeleteDepartment(d) PROVE AdminInv'
  BY <1>5, <1>6 DEF CreateDepartment, DeleteDepartment
<1>7. CASE UNCHANGED memberVars
  BY <1>5, <1>7 DEF memberVars
<1>8. CASE MembersNext
  <2>1. /\ Gone \in Membership
        /\ \A r \in Roles, d \in OpenDepts \cup {None} : [role |-> r, dept |-> d] \in Membership
    BY DEF Gone, Membership, OpenDepts
  <2> QED BY <1>1, <1>2, <1>3, <1>4, <1>6, <1>8, <2>1 DEF MembersNext
<1> QED BY <1>7, <1>8

\* However many changes of memberships overlap between their check and their write, each
\* property keeps an administrator as long as those that lower a role, or take a membership
\* away, lower one person's at a time (users.py:182-230).  Promotions, moves between
\* departments, new staff, lost requests and a second demotion of the same person may come in
\* between; a demotion of somebody else may not, even of somebody who is no administrator
\* when it is checked, for they may be promoted before it is written.
THEOREM AnAdminIsLeft == MembersSpec => ([]OneLowered => []Administered)
<1>1. MembersInit => MembersTypeOK /\ AdminInv
  BY MembersStart, MembersAssumption
     DEF AdminInv, MembersInit, Administered, IsAdmin, Lowers, NoChange
<1>2. OneLowered /\ MembersTypeOK /\ AdminInv /\ [MembersNext]_memberVars
        => MembersTypeOK' /\ AdminInv'
  BY MembersStep, AdminStep
<1>3. AdminInv => Administered
  BY DEF AdminInv
<1> QED BY <1>1, <1>2, <1>3, PTL DEF MembersSpec

----------------------------------------------------------------------------
\* The hotel log.

PostInv == post \in [Posts -> EntryType \cup {None}] /\ ToldOnce

LEMMA NewEntryHolds ==
    ASSUME NEW by \in Accounts, NEW expected \in SUBSET Accounts,
           NEW mentioned \in SUBSET Accounts
    PROVE  /\ NewEntry(by, expected, mentioned) \in EntryType
           /\ \A u \in Accounts :
                 NewEntry(by, expected, mentioned).told[u]
                   = IF u \in NewEntry(by, expected, mentioned).mentioned
                               \cup NewEntry(by, expected, mentioned).expected THEN 1 ELSE 0
BY DEF NewEntry, EntryType, AlsoTold

LEMMA PostStep ==
    ASSUME PostInv, [LogNext]_<<memberVars, logVars>>
    PROVE  PostInv'
<1> USE DEF PostInv
<1>1. ASSUME UNCHANGED post PROVE PostInv'
  BY <1>1 DEF ToldOnce
<1>2. ASSUME NEW by \in Accounts, NEW e \in Posts, NEW acks, NEW mentions, NEW templated,
             Post(by, e, acks, mentions, templated)
      PROVE  PostInv'
  <2> DEFINE expected == Audience(acks) \ {by}
             mentioned == Audience(mentions) \ {by}
             r == NewEntry(by, expected, mentioned)
  <2>1. post' = [post EXCEPT ![e] = r]
    BY <1>2 DEF Post
  <2>2. /\ r \in EntryType
        /\ \A u \in Accounts :
              r.told[u] = IF u \in r.mentioned \cup r.expected THEN 1 ELSE 0
    <3>1. expected \in SUBSET Accounts /\ mentioned \in SUBSET Accounts
      BY DEF Audience
    <3> HIDE DEF expected, mentioned
    <3> QED BY <3>1, NewEntryHolds
  <2> HIDE DEF r
  <2> QED BY <2>1, <2>2 DEF ToldOnce
<1>3. ASSUME NEW u \in Accounts, NEW e \in Posts, ConfirmRead(u, e)
      PROVE  PostInv'
  <2> DEFINE r == [post[e] EXCEPT !.acks = @ \cup {u}]
  <2>1. post' = [post EXCEPT ![e] = r] /\ post[e] # None /\ post[e] \in EntryType
    BY <1>3 DEF ConfirmRead
  <2>2. /\ r \in EntryType /\ r.told = post[e].told
        /\ r.mentioned = post[e].mentioned /\ r.expected = post[e].expected
    BY <2>1 DEF EntryType
  <2> HIDE DEF r
  <2> QED BY <2>1, <2>2 DEF ToldOnce
<1>4. ASSUME NEW by \in Accounts, NEW refs, ShareTemplate(by, refs) PROVE PostInv'
  BY <1>1, <1>4 DEF ShareTemplate
<1>5. CASE LogNext
  <2>1. CASE MembersNext /\ UNCHANGED logVars
    BY <1>1, <2>1 DEF logVars
  <2> QED BY <1>2, <1>3, <1>4, <1>5, <2>1 DEF LogNext
<1>6. CASE UNCHANGED <<memberVars, logVars>>
  BY <1>1, <1>6 DEF logVars
<1> QED BY <1>5, <1>6

LEMMA PostAlways == LogSpec => []PostInv
<1>1. LogInit => PostInv
  BY DEF LogInit, PostInv, ToldOnce
<1> QED BY <1>1, PostStep, PTL DEF LogSpec

\* Whatever a post's mentions and audience have in common, and whoever comes and goes, each
\* of them is told of it once (log.py:192-204).
THEOREM AllAreToldOnce == LogSpec => []ToldOnce
<1>1. PostInv => ToldOnce
  BY DEF PostInv
<1> QED BY <1>1, PostAlways, PTL

\* Every row of a member, a post and an audience is one, whoever comes and goes meanwhile.
THEOREM LogTyped == LogSpec => []LogTypeOK
<1>1. LogInit => LogTypeOK
  BY MembersStart DEF LogInit, LogTypeOK
<1>2. LogTypeOK /\ PostInv /\ [LogNext]_<<memberVars, logVars>> => LogTypeOK'
  <2> SUFFICES ASSUME LogTypeOK, PostInv, [LogNext]_<<memberVars, logVars>> PROVE LogTypeOK'
    OBVIOUS
  <2>0. post' \in [Posts -> EntryType \cup {None}]
    BY PostStep DEF PostInv
  <2>1. ASSUME UNCHANGED memberVars PROVE MembersTypeOK'
    BY <2>1 DEF memberVars, LogTypeOK, MembersTypeOK
  <2>2. ASSUME NEW by \in Accounts, NEW e \in Posts, NEW acks, NEW mentions, NEW templated,
               Post(by, e, acks, mentions, templated)
        PROVE  LogTypeOK'
    BY <2>0, <2>1, <2>2 DEF Post, LogTypeOK
  <2>3. ASSUME NEW u \in Accounts, NEW e \in Posts, ConfirmRead(u, e) PROVE LogTypeOK'
    BY <2>0, <2>1, <2>3 DEF ConfirmRead, LogTypeOK
  <2>4. ASSUME NEW by \in Accounts, NEW refs \in SUBSET Refs, ShareTemplate(by, refs)
        PROVE  LogTypeOK'
    BY <2>0, <2>1, <2>4 DEF ShareTemplate, LogTypeOK
  <2>5. CASE MembersNext /\ UNCHANGED logVars
    BY <2>0, <2>5, MembersStep DEF LogTypeOK, logVars
  <2>6. CASE UNCHANGED <<memberVars, logVars>>
    BY <2>0, <2>1, <2>6 DEF LogTypeOK, logVars
  <2> QED BY <2>2, <2>3, <2>4, <2>5, <2>6 DEF LogNext
<1> QED BY <1>1, <1>2, PostAlways, PTL DEF LogSpec

----------------------------------------------------------------------------
\* The templates of checklists.

\* Each item is in no category or in one of cats.
FiledIn(rows, cats) == \A e \in Entries : rows[e].category = None \/ rows[e].category \in cats

Numbered(rows) ==
    /\ {rows[e].position : e \in Active(rows)} = 0 .. Cardinality(Active(rows)) - 1
    /\ \A d, e \in Entries :
        rows[d].state # "none" /\ rows[e].state # "none" /\ rows[d].position = rows[e].position
            => d = e

TemplatesInv == TemplatesTypeOK /\ StaysWhole

\* A list has all that is in it, each once and at one place.
LEMMA LinesAre ==
    ASSUME NEW es \in SUBSET Entries, NEW l \in ListsOf(es)
    PROVE  /\ Cardinality(es) \in Nat /\ Cardinality(es) <= Cardinality(Entries)
           /\ DOMAIN l = 1 .. Cardinality(es) /\ Range(l) = es
           /\ \A e \in es : PlaceIn(l, e) \in 1 .. Cardinality(es) /\ l[PlaceIn(l, e)] = e
           /\ \A i \in 1 .. Cardinality(es) : l[i] \in es /\ PlaceIn(l, l[i]) = i
<1> DEFINE n == Cardinality(es)
<1>1. IsFiniteSet(es) /\ n \in Nat /\ n <= Cardinality(Entries)
  BY TemplatesAssumption, FS_Subset, FS_CardinalityType
<1>2. IsFiniteSet(1 .. n) /\ Cardinality(1 .. n) = n
  <2>1. 1 \in Int /\ n \in Int
    BY <1>1
  <2>2. IsFiniteSet(1 .. n) /\ Cardinality(1 .. n) = IF 1 > n THEN 0 ELSE n - 1 + 1
    BY <2>1, FS_Interval
  <2> QED BY <1>1, <2>2
<1>3. l \in Injection(1 .. n, es)
  BY DEF ListsOf
<1>4. l \in Surjection(1 .. n, es)
  BY <1>1, <1>2, <1>3, FS_Injection
<1> HIDE DEF n
<1>5. l \in [1 .. n -> es] /\ \A i, j \in 1 .. n : l[i] = l[j] => i = j
  BY <1>3 DEF Injection, IsInjective
<1>6. \A e \in es : \E i \in 1 .. n : l[i] = e
  BY <1>4 DEF Surjection
<1>7. Range(l) = es /\ DOMAIN l = 1 .. n
  BY <1>5, <1>6 DEF Range
<1>8. \A e \in es : PlaceIn(l, e) \in 1 .. n /\ l[PlaceIn(l, e)] = e
  BY <1>6, <1>7 DEF PlaceIn
<1>9. \A i \in 1 .. n : l[i] \in es /\ PlaceIn(l, l[i]) = i
  BY <1>5, <1>8
<1> QED BY <1>1, <1>7, <1>8, <1>9 DEF n

\* sync_items, and the zip after it: both lists have the length of the request, so that every
\* item in use is given a category of the request; the others keep theirs.
SavedWell(new, rows, cats) ==
    /\ new \in [Entries -> Entry]
    /\ FiledIn(rows, cats) => FiledIn(new, cats)
    /\ Numbered(new)

LEMMA SyncedWell ==
    ASSUME NEW rows \in [Entries -> Entry], NEW chosen \in (SUBSET Entries) \ {{}},
           \A e \in Entries : rows[e].state = entry[e].state,
           NEW items \in ListsOf(chosen), NEW gone \in ListsOf(Saved \ chosen),
           NEW group \in [chosen -> Categories \cup {None}],
           NEW cats \in SUBSET Categories, Range(group) \subseteq cats \cup {None}
    PROVE  SavedWell(Grouped(Synced(rows, items, gone), items, group), rows, cats)
<1> DEFINE n == Cardinality(chosen)
           out == Saved \ chosen
           mid == Synced(rows, items, gone)
           at(e) == PlaceIn(items, e)
           off(e) == PlaceIn(gone, e)
           new == Grouped(mid, items, group)
           line == InLine(mid)
<1>1. /\ n \in Nat /\ n <= Cardinality(Entries) /\ DOMAIN items = 1 .. n /\ Range(items) = chosen
      /\ \A e \in chosen : at(e) \in 1 .. n /\ items[at(e)] = e
      /\ \A i \in 1 .. n : items[i] \in chosen /\ at(items[i]) = i
  BY LinesAre
<1>2. /\ Range(gone) = out /\ Cardinality(out) \in Nat
      /\ \A e \in out : off(e) \in 1 .. Cardinality(out) /\ gone[off(e)] = e
  <2>1. out \in SUBSET Entries
    BY DEF Saved
  <2> QED BY <2>1, LinesAre
<1>3. Past \in Nat /\ Cardinality(Entries) < Past /\ IsFiniteSet(Entries)
      /\ Cardinality(Entries) \in Nat
  BY TemplatesAssumption, FS_CardinalityType
<1>4. mid = [e \in Entries |->
               CASE e \in chosen -> [rows[e] EXCEPT !.state = "active", !.position = at(e) - 1]
                 [] e \in out -> [rows[e] EXCEPT !.state = "retired",
                                                  !.position = Past + (off(e) - 1)]
                 [] OTHER -> rows[e]]
  BY <1>1, <1>2 DEF Synced, Retired
<1> HIDE DEF mid, at, off, n, out
<1>5. ASSUME NEW e \in chosen
      PROVE  /\ mid[e] \in Entry /\ mid[e].state = "active" /\ mid[e].position = at(e) - 1
             /\ mid[e].category = rows[e].category
  <2> DEFINE p == at(e) - 1
  <2>0. at(e) \in 1 .. n /\ n \in Nat
    BY <1>1
  <2>1. e \in Entries /\ e \notin out /\ rows[e] \in Entry /\ p \in Nat
    BY <2>0 DEF out
  <2>2. mid[e] = [rows[e] EXCEPT !.state = "active", !.position = p]
    BY <1>4, <2>1
  <2> HIDE DEF p
  <2>3. /\ mid[e] \in Entry /\ mid[e].state = "active" /\ mid[e].position = p
        /\ mid[e].category = rows[e].category
    BY <2>1, <2>2 DEF Entry, EntryState
  <2> QED BY <2>3 DEF p
<1>6. ASSUME NEW e \in out
      PROVE  /\ mid[e] \in Entry /\ mid[e].state = "retired"
             /\ mid[e].position = Past + (off(e) - 1)
             /\ mid[e].category = rows[e].category
  <2> DEFINE p == Past + (off(e) - 1)
  <2>1. e \in Entries /\ e \notin chosen /\ rows[e] \in Entry
    BY DEF out, Saved
  <2>2. p \in Nat
    BY <1>2, <1>3
  <2>3. mid[e] = [rows[e] EXCEPT !.state = "retired", !.position = p]
    BY <1>4, <2>1
  <2> HIDE DEF p
  <2>4. /\ mid[e] \in Entry /\ mid[e].state = "retired" /\ mid[e].position = p
        /\ mid[e].category = rows[e].category
    BY <2>1, <2>2, <2>3 DEF Entry, EntryState
  <2> QED BY <2>4 DEF p
<1>7. ASSUME NEW e \in Entries, e \notin chosen, e \notin out
      PROVE  mid[e] = rows[e] /\ mid[e].state = "none"
  BY <1>4, <1>7 DEF out, Saved
<1>8. mid \in [Entries -> Entry] /\ DOMAIN mid = Entries
  <2>1. \A e \in Entries : mid[e] \in Entry
    BY <1>5, <1>6, <1>7
  <2> QED BY <1>4, <2>1
<1>9. Active(mid) = chosen
  BY <1>5, <1>6, <1>7, <1>8 DEF Active
<1>10. \A d, e \in chosen : mid[d].position = mid[e].position => d = e
  <2> SUFFICES ASSUME NEW d \in chosen, NEW e \in chosen, mid[d].position = mid[e].position
               PROVE  d = e
    OBVIOUS
  <2>1. at(d) = at(e)
    BY <1>1, <1>5
  <2> QED BY <1>1, <2>1
<1>11. ListsAll(line, chosen)
  <2> DEFINE before == {p \in chosen \X chosen : mid[p[1]].position < mid[p[2]].position}
             number == [e \in chosen |-> mid[e].position]
  <2>1. line = Listing(chosen, before)
    BY <1>9 DEF InLine
  <2>2. number \in [chosen -> Nat]
    <3>1. \A e \in chosen : mid[e].position \in Nat
      BY <1>5 DEF Entry
    <3> QED BY <3>1
  <2>3. \A c, d \in chosen : number[c] = number[d] => c = d
    BY <1>10
  <2>4. \A c, d \in chosen : <<c, d>> \in before <=> number[c] < number[d]
    OBVIOUS
  <2>5. IsFiniteSet(chosen)
    BY <1>3, FS_Subset
  <2> HIDE DEF before, number, line
  <2> QED BY <2>1, <2>2, <2>3, <2>4, <2>5, ByNumber
<1> HIDE DEF line
<1>12. \A e \in chosen : PlaceIn(line, e) \in 1 .. n /\ line[PlaceIn(line, e)] = e
  BY <1>11 DEF ListsAll, PlaceIn, n
<1>13. new = [e \in Entries |-> IF e \in chosen
                                THEN [mid[e] EXCEPT !.category = group[items[PlaceIn(line, e)]]]
                                ELSE mid[e]]
  BY <1>9 DEF Grouped, line
<1> HIDE DEF new
<1>14. ASSUME NEW e \in chosen
       PROVE  /\ new[e] \in Entry /\ new[e].state = "active" /\ new[e].position = at(e) - 1
              /\ new[e].category = None \/ new[e].category \in cats
  <2> DEFINE g == group[items[PlaceIn(line, e)]]
  <2>1. items[PlaceIn(line, e)] \in chosen
    BY <1>1, <1>12
  <2>2. g \in Categories \cup {None} /\ g \in Range(group)
    BY <2>1 DEF Range
  <2>3. new[e] = [mid[e] EXCEPT !.category = g]
    BY <1>13
  <2> HIDE DEF g
  <2>4. mid[e] \in Entry
    BY <1>5
  <2>5. /\ new[e] \in Entry /\ new[e].state = mid[e].state
        /\ new[e].position = mid[e].position /\ new[e].category = g
    BY <2>2, <2>3, <2>4 DEF Entry
  <2> QED BY <1>5, <2>2, <2>5
<1>15. \A e \in Entries : e \notin chosen => new[e] = mid[e]
  BY <1>13
<1>16. new \in [Entries -> Entry] /\ DOMAIN new = Entries
  <2>1. \A e \in Entries : new[e] \in Entry
    BY <1>8, <1>14, <1>15
  <2> QED BY <1>13, <2>1
<1>17. FiledIn(rows, cats) => FiledIn(new, cats)
  <2> SUFFICES ASSUME FiledIn(rows, cats), NEW e \in Entries
               PROVE  new[e].category = None \/ new[e].category \in cats
    BY DEF FiledIn
  <2>1. CASE e \in chosen
    BY <1>14, <2>1
  <2>2. CASE e \notin chosen
    BY <1>6, <1>7, <1>15, <2>2 DEF FiledIn
  <2> QED BY <2>1, <2>2
<1>18. Active(new) = chosen
  BY <1>6, <1>7, <1>14, <1>15, <1>16 DEF Active
<1>19. {new[e].position : e \in Active(new)} = 0 .. Cardinality(Active(new)) - 1
  <2>1. \A e \in chosen : new[e].position \in 0 .. n - 1
    BY <1>1, <1>14
  <2>2. ASSUME NEW k \in 0 .. n - 1 PROVE \E e \in chosen : new[e].position = k
    <3>1. k + 1 \in 1 .. n /\ k = (k + 1) - 1
      BY <1>1
    <3>2. items[k + 1] \in chosen /\ at(items[k + 1]) = k + 1
      BY <1>1, <3>1
    <3> QED BY <1>14, <3>1, <3>2
  <2> QED BY <1>18, <2>1, <2>2 DEF n
<1>20. ASSUME NEW d \in Entries, NEW e \in Entries, new[d].state # "none", new[e].state # "none",
              new[d].position = new[e].position
       PROVE  d = e
  <2>0. (d \in chosen \/ d \in out) /\ (e \in chosen \/ e \in out)
    BY <1>7, <1>15, <1>20
  <2>1. \A c \in out : /\ new[c].position = Past + (off(c) - 1) /\ off(c) \in Nat
                        /\ off(c) >= 1 /\ new[c].position >= Past
    <3> SUFFICES ASSUME NEW c \in out
                 PROVE  /\ new[c].position = Past + (off(c) - 1) /\ off(c) \in Nat
                        /\ off(c) >= 1 /\ new[c].position >= Past
      OBVIOUS
    <3>1. off(c) \in Nat /\ off(c) >= 1
      BY <1>2
    <3>2. new[c].position = Past + (off(c) - 1)
      BY <1>6, <1>15 DEF out, Saved
    <3> QED BY <1>3, <3>1, <3>2
  <2>2. \A c \in chosen : new[c].position = at(c) - 1 /\ new[c].position < Past /\ at(c) \in Nat
    BY <1>1, <1>3, <1>14
  <2>3. CASE d \in chosen /\ e \in chosen
    <3>1. at(d) - 1 = at(e) - 1 /\ at(d) \in Nat /\ at(e) \in Nat
      BY <1>20, <2>2, <2>3
    <3>2. at(d) = at(e)
      BY <3>1
    <3> QED BY <1>1, <2>3, <3>2
  <2>4. CASE d \in out /\ e \in out
    <3>1. off(d) = off(e)
      BY <1>3, <1>20, <2>1, <2>4
    <3> QED BY <1>2, <2>4, <3>1
  <2>5. CASE d \in chosen /\ e \in out
    BY <1>1, <1>3, <1>20, <2>1, <2>2, <2>5
  <2>6. CASE d \in out /\ e \in chosen
    BY <1>1, <1>3, <1>20, <2>1, <2>2, <2>6
  <2> QED BY <2>0, <2>3, <2>4, <2>5, <2>6
<1>21. Numbered(new)
  BY <1>19, <1>20 DEF Numbered
<1> QED BY <1>16, <1>17, <1>21 DEF SavedWell, new, mid

LEMMA RegroupedIs ==
    ASSUME category \in [Categories -> EntryState], NEW cats \in SUBSET Categories
    PROVE  /\ Regrouped(cats) \in [Categories -> EntryState]
           /\ \A c \in cats : Regrouped(cats)[c] = "active"
BY DEF Regrouped, EntryState

LEMMA ClearedIs ==
    ASSUME entry \in [Entries -> Entry], NEW cats \in SUBSET Categories
    PROVE  /\ Cleared(cats) \in [Entries -> Entry] /\ FiledIn(Cleared(cats), cats)
           /\ \A e \in Entries : /\ Cleared(cats)[e].state = entry[e].state
                                 /\ Cleared(cats)[e].position = entry[e].position
<1> DEFINE new == Cleared(cats)
<1>1. ASSUME NEW e \in Entries
      PROVE  /\ new[e] \in Entry /\ new[e].state = entry[e].state
             /\ new[e].position = entry[e].position
             /\ new[e].category = None \/ new[e].category \in cats
  <2>1. entry[e] \in Entry
    OBVIOUS
  <2>2. CASE entry[e].category \notin cats
    <3>1. new[e] = [entry[e] EXCEPT !.category = None]
      BY <2>2 DEF Cleared
    <3> HIDE DEF new
    <3> QED BY <2>1, <3>1 DEF Entry
  <2>3. CASE entry[e].category \in cats
    <3>1. new[e] = entry[e]
      BY <2>3 DEF Cleared
    <3> QED BY <2>1, <2>3, <3>1
  <2> QED BY <2>2, <2>3
<1>2. new = [e \in Entries |-> new[e]]
  BY DEF Cleared
<1> HIDE DEF new
<1>3. new \in [Entries -> Entry] /\ FiledIn(new, cats)
  BY <1>1, <1>2 DEF FiledIn
<1> QED BY <1>1, <1>3 DEF new

LEMMA TemplatesInvInit == TemplatesInit => TemplatesInv
<1> SUFFICES ASSUME TemplatesInit PROVE TemplatesInv
  OBVIOUS
<1>1. Unused \in Entry /\ Unused.state = "none" /\ Unused.category = None
  BY DEF Unused, Entry, EntryState
<1>2. TemplatesTypeOK
  BY <1>1 DEF TemplatesInit, TemplatesTypeOK, EntryState
<1>3. Active(entry) = {} /\ Saved = {}
  BY <1>1 DEF TemplatesInit, Active, Saved
<1>4. Cardinality(Active(entry)) = 0
  BY <1>3, FS_EmptySet
<1>5. {entry[e].position : e \in Active(entry)} = 0 .. Cardinality(Active(entry)) - 1
  BY <1>3, <1>4
<1>6. \A e \in Entries : entry[e].category = None
  BY <1>1 DEF TemplatesInit
<1> QED BY <1>2, <1>3, <1>5, <1>6 DEF TemplatesInv, StaysWhole

LEMMA SaveCategoriesKeeps ==
    ASSUME TemplatesInv, NEW cats \in SUBSET Categories, SaveCategories(cats)
    PROVE  TemplatesInv'
<1>1. entry' = Cleared(cats) /\ category' = Regrouped(cats)
  BY DEF SaveCategories
<1>2. entry \in [Entries -> Entry] /\ category \in [Categories -> EntryState] /\ StaysWhole
  BY DEF TemplatesInv, TemplatesTypeOK
<1>3. /\ entry' \in [Entries -> Entry] /\ FiledIn(entry', cats)
      /\ \A e \in Entries : entry'[e].state = entry[e].state /\ entry'[e].position = entry[e].position
  BY <1>1, <1>2, ClearedIs
<1>4. category' \in [Categories -> EntryState] /\ \A c \in cats : category'[c] = "active"
  BY <1>1, <1>2, RegroupedIs
<1>5. Active(entry') = Active(entry) /\ Saved' = Saved /\ Saved \subseteq Entries
  BY <1>2, <1>3 DEF Active, Saved
<1>6. Active(entry) \subseteq Entries
  BY <1>2 DEF Active
<1>7. {entry'[e].position : e \in Active(entry')} = {entry[e].position : e \in Active(entry)}
  BY <1>3, <1>5, <1>6
<1>8. {entry'[e].position : e \in Active(entry')} = 0 .. Cardinality(Active(entry')) - 1
  BY <1>2, <1>5, <1>7 DEF StaysWhole
<1>9. \A d, e \in Saved' : entry'[d].position = entry'[e].position => d = e
  BY <1>2, <1>3, <1>5 DEF StaysWhole
<1>10. \A e \in Entries : entry'[e].category # None => category'[entry'[e].category] = "active"
  BY <1>3, <1>4 DEF FiledIn
<1> QED BY <1>3, <1>4, <1>8, <1>9, <1>10 DEF TemplatesInv, TemplatesTypeOK, StaysWhole

\* What a save with items leaves is whole, when the categories it files them in are in use.
LEMMA SavedIsWhole ==
    ASSUME NEW rows \in [Entries -> Entry], NEW cats, FiledIn(rows, cats),
           SavedWell(entry', rows, cats), category' \in [Categories -> EntryState],
           \A c \in cats : category'[c] = "active"
    PROVE  TemplatesInv'
<1>1. entry' \in [Entries -> Entry] /\ FiledIn(entry', cats) /\ Numbered(entry')
  BY DEF SavedWell
<1>2. \A e \in Entries : entry'[e].category # None => category'[entry'[e].category] = "active"
  BY <1>1 DEF FiledIn
<1>3. \A d, e \in Saved' : entry'[d].position = entry'[e].position => d = e
  BY <1>1 DEF Numbered, Saved
<1>4. {entry'[e].position : e \in Active(entry')} = 0 .. Cardinality(Active(entry')) - 1
  BY <1>1 DEF Numbered
<1> QED BY <1>1, <1>2, <1>3, <1>4 DEF TemplatesInv, TemplatesTypeOK, StaysWhole

LEMMA SaveBothKeeps ==
    ASSUME TemplatesInv, NEW cats \in SUBSET Categories, NEW chosen \in (SUBSET Entries) \ {{}},
           NEW items \in ListsOf(chosen), NEW gone \in ListsOf(Saved \ chosen),
           NEW group \in [chosen -> Categories \cup {None}],
           SaveBoth(cats, items, gone, group)
    PROVE  TemplatesInv'
<1> DEFINE rows == Cleared(cats)
<1>1. /\ Range(group) \subseteq cats \cup {None} /\ category' = Regrouped(cats)
      /\ entry' = Grouped(Synced(rows, items, gone), items, group)
  BY DEF SaveBoth
<1>2. /\ rows \in [Entries -> Entry] /\ FiledIn(rows, cats)
      /\ \A e \in Entries : rows[e].state = entry[e].state
  BY ClearedIs DEF TemplatesInv, TemplatesTypeOK
<1>3. category' \in [Categories -> EntryState] /\ \A c \in cats : category'[c] = "active"
  BY <1>1, RegroupedIs DEF TemplatesInv, TemplatesTypeOK
<1> HIDE DEF rows
<1>4. SavedWell(entry', rows, cats)
  BY <1>1, <1>2, SyncedWell
<1> QED BY <1>2, <1>3, <1>4, SavedIsWhole

LEMMA SaveItemsKeeps ==
    ASSUME TemplatesInv, NEW chosen \in (SUBSET Entries) \ {{}},
           NEW items \in ListsOf(chosen), NEW gone \in ListsOf(Saved \ chosen),
           NEW group \in [chosen -> Categories \cup {None}],
           SaveItems(items, gone, group)
    PROVE  TemplatesInv'
<1> DEFINE cats == {c \in Categories : category[c] = "active"}
<1>1. /\ Range(group) \subseteq cats \cup {None} /\ category' = category
      /\ entry' = Grouped(Synced(entry, items, gone), items, group)
  BY DEF SaveItems
<1>2. entry \in [Entries -> Entry] /\ category \in [Categories -> EntryState] /\ StaysWhole
  BY DEF TemplatesInv, TemplatesTypeOK
<1>3. FiledIn(entry, cats)
  BY <1>2 DEF FiledIn, StaysWhole, Entry
<1>4. cats \in SUBSET Categories /\ \A c \in cats : category'[c] = "active"
  BY <1>1
<1> HIDE DEF cats
<1>5. SavedWell(entry', entry, cats)
  BY <1>1, <1>2, <1>4, SyncedWell
<1> QED BY <1>1, <1>2, <1>3, <1>4, <1>5, SavedIsWhole

LEMMA TemplatesAlways == TemplatesSpec => []TemplatesInv
<1>1. TemplatesInv /\ [TemplatesNext]_templateVars => TemplatesInv'
  <2> SUFFICES ASSUME TemplatesInv, [TemplatesNext]_templateVars PROVE TemplatesInv'
    OBVIOUS
  <2>1. ASSUME NEW cats \in SUBSET Categories, SaveCategories(cats) PROVE TemplatesInv'
    BY <2>1, SaveCategoriesKeeps
  <2>2. ASSUME NEW chosen \in (SUBSET Entries) \ {{}}, NEW items \in ListsOf(chosen),
               NEW gone \in ListsOf(Saved \ chosen), NEW group \in [chosen -> Categories \cup {None}],
               NEW cats \in SUBSET Categories, SaveBoth(cats, items, gone, group)
        PROVE  TemplatesInv'
    BY <2>2, SaveBothKeeps
  <2>3. ASSUME NEW chosen \in (SUBSET Entries) \ {{}}, NEW items \in ListsOf(chosen),
               NEW gone \in ListsOf(Saved \ chosen), NEW group \in [chosen -> Categories \cup {None}],
               SaveItems(items, gone, group)
        PROVE  TemplatesInv'
    BY <2>3, SaveItemsKeeps
  <2>4. CASE UNCHANGED templateVars
    BY <2>4 DEF templateVars, TemplatesInv, TemplatesTypeOK, StaysWhole, Active, Saved
  <2> QED BY <2>1, <2>2, <2>3, <2>4 DEF TemplatesNext
<1> QED BY <1>1, TemplatesInvInit, PTL DEF TemplatesSpec

\* A template stays whole, for any number of items and categories and any saves of either or
\* both (ck_templates.py:7-8, 117-154): an item is in no category or in one in use, the items
\* in use are numbered from 0, and no two that were ever saved share a number.  So the items
\* by position are as many as the request lists, and the zip of the two never fails.
THEOREM TemplatesStayWhole == TemplatesSpec => []StaysWhole
<1>1. TemplatesInv => StaysWhole
  BY DEF TemplatesInv
<1> QED BY <1>1, TemplatesAlways, PTL

----------------------------------------------------------------------------
\* The parts together.

\* A step of the whole is a step of one part, and the others stand still.
LEMMA HotelStep ==
    ASSUME [HotelNext]_hotelVars
    PROVE  /\ [Next]_vars /\ [ContactNext]_contactVars /\ [InboxNext]_inboxVars
           /\ [HouseNext]_houseVars /\ [CkNext]_ckVars /\ [TemplatesNext]_templateVars
           /\ [StaysNext]_staysVars /\ [ViewNext]_viewVars /\ [PresenceNext]_presenceVars
           /\ [ChatNext]_staffVars /\ [LogNext]_<<memberVars, logVars>>
<1>1. CASE HotelNext
  BY <1>1 DEF HotelNext, Others
<1>2. CASE UNCHANGED hotelVars
  BY <1>2 DEF hotelVars
<1> QED BY <1>1, <1>2

\* What happens in the whole is, for each part, something that happens in it alone.
LEMMA HotelParts ==
    HotelSpec => /\ Spec /\ ContactSpec /\ InboxSpec /\ HouseSpec /\ CkSpec /\ TemplatesSpec
                 /\ StaysSpec /\ ViewSpec /\ PresenceSpec /\ ChatSpec /\ LogSpec
<1>1. HotelInit => /\ Init /\ ContactInit /\ InboxInit /\ HouseInit /\ CkInit /\ TemplatesInit
                   /\ StaysInit /\ ViewInit /\ PresenceInit /\ ChatInit /\ LogInit
  BY DEF HotelInit
<1> QED
  BY <1>1, HotelStep, PTL
  DEF HotelSpec, Spec, ContactSpec, InboxSpec, HouseSpec, CkSpec, TemplatesSpec, StaysSpec,
      ViewSpec, PresenceSpec, ChatSpec, LogSpec

\* Every variable of every part has its type, for any workers, texts, threads, assignments,
\* clerks, events, sockets, rooms and members, and whatever overlaps (jobs.py, inbound.py,
\* sla.py, housekeeping.py, ck_instances.py, ck_templates.py, pms.py, presence.py, staff.py).
THEOREM HotelTyped == HotelSpec => []HotelTypeOK
<1>1. TemplatesSpec => []TemplatesTypeOK
  <2>1. TemplatesInv => TemplatesTypeOK
    BY DEF TemplatesInv
  <2> QED BY <2>1, TemplatesAlways, PTL
<1>2. TypeOK /\ ContactTypeOK /\ InboxTypeOK /\ HouseTypeOK /\ CkTypeOK /\ TemplatesTypeOK
        /\ StaysTypeOK /\ ViewTypeOK /\ PresenceTypeOK /\ ChatTypeOK /\ LogTypeOK
        => HotelTypeOK
  BY DEF HotelTypeOK
<1> QED
  BY <1>1, <1>2, HotelParts, TypeCorrect, ContactTyped, InboxTyped, HousekeepingTyped,
     ChecklistsTyped, StaysTyped, ViewTyped, PresenceTyped, ChatTyped, LogTyped, PTL

\* What each part promises it keeps beside the others: unconditionally what takes no
\* assumption, and the rest while no lock goes stale, no request overlaps another that the
\* code does not keep apart from it, and the tick comes before the staff of the day
\* (jobs.py:17-72, inbound.py, sla.py, housekeeping.py, ck_instances.py, presence.py).
THEOREM HotelHolds ==
    HotelSpec =>
        /\ [](SingleConversation /\ BoardIsTrue /\ StaysWhole /\ NothingMissed /\ ToldOnce)
        /\ EventsTakenOnce /\ TextsTakenOnce
        /\ InTime /\ MaxFaults = 0 => []NeverBothClaim
        /\ Orderly => []OneRightClean
        /\ Beside = {} => []ShiftsAccounted /\ CompleteIsFinal
        /\ ~Overtake => []PresenceShown
        /\ ~Crossing => []RoomsRight
        /\ {{"text", "reply"}, {"keyword", "reply"}, {"text", "sweep"}, {"reply", "sweep"}}
              \cap Overlap = {} => []ClockSound
<1>1. HotelSpec =>
        /\ [](SingleConversation /\ BoardIsTrue /\ StaysWhole /\ NothingMissed /\ ToldOnce)
        /\ EventsTakenOnce /\ TextsTakenOnce
  BY HotelParts, OneConversation, BoardStaysTrue, TemplatesStayWhole, NothingIsMissed,
     AllAreToldOnce, EventsAreTakenOnce, TextsAreTakenOnce, PTL
<1>2. ASSUME InTime, MaxFaults = 0 PROVE HotelSpec => []NeverBothClaim
  <2>1. Spec => []NeverBothClaim
    BY <1>2, ClaimsDisjoint
  <2> QED BY <2>1, HotelParts, PTL
<1>3. ASSUME Orderly PROVE HotelSpec => []OneRightClean
  <2>1. HouseSpec => []OneRightClean
    BY <1>3, CleansAreRight
  <2> QED BY <2>1, HotelParts, PTL
<1>4. ASSUME Beside = {} PROVE HotelSpec => []ShiftsAccounted /\ CompleteIsFinal
  <2>1. (CkSpec => []ShiftsAccounted) /\ (CkSpec => CompleteIsFinal)
    BY <1>4, ShiftsAreAccounted, CompletesStay
  <2> QED BY <2>1, HotelParts, PTL
<1>5. ASSUME ~Overtake PROVE HotelSpec => []PresenceShown
  <2>1. PresenceSpec => []PresenceShown
    BY <1>5, PresenceIsShown
  <2> QED BY <2>1, HotelParts, PTL
<1>6. ASSUME ~Crossing PROVE HotelSpec => []RoomsRight
  <2>1. ChatSpec => []RoomsRight
    BY <1>6, RoomsAreRight
  <2> QED BY <2>1, HotelParts, PTL
<1>7. ASSUME {{"text", "reply"}, {"keyword", "reply"}, {"text", "sweep"}, {"reply", "sweep"}}
                \cap Overlap = {}
      PROVE  HotelSpec => []ClockSound
  <2>1. InboxSpec => []ClockSound
    <3>1. /\ {"text", "reply"} \notin Overlap /\ {"keyword", "reply"} \notin Overlap
          /\ {"text", "sweep"} \notin Overlap /\ {"reply", "sweep"} \notin Overlap
      BY <1>7
    <3> QED BY <3>1, ClockNeverLost
  <2> QED BY <2>1, HotelParts, PTL
<1> QED BY <1>1, <1>2, <1>3, <1>4, <1>5, <1>6, <1>7
=============================================================================
